------------------------- MODULE ClientMonitorProofs -------------------------
(***************************************************************************)
(* Proofs about the client's self-check: the mutex of the shared segment   *)
(* has one owner, no alarm finds the caller asleep, every login that gets  *)
(* through answers an alarm, and no alarm is early but for the race on     *)
(* flag - for every limit and number of tries.                             *)
(***************************************************************************)
EXTENDS ClientMonitor, TLAPS

LEMMA InitIndInv == Init => IndInv
<1> SUFFICES ASSUME Init
             PROVE  IndInv
  OBVIOUS
<1>1. /\ 0 \in 0 .. Limit + 1 /\ 0 \in 0 .. MaxTime /\ 0 <= Limit
      /\ ~(0 >= 2)
  BY LimitAssumption, TriesAssumption, MaxTimeAssumption
<1>2. reachable \in BOOLEAN /\ raced \in BOOLEAN /\ alarmed \in BOOLEAN
  BY Zenon DEF Init
<1>3. TypeOK
  BY <1>1, <1>2 DEF Init, TypeOK, Processes
<1>4. MutexOwned /\ AlarmNeverSlept /\ FlagLimited /\ AwakeForAlarm
  BY <1>1 DEF Init, MutexOwned, AlarmNeverSlept, FlagLimited, AwakeForAlarm
<1>5. CallingOnAlarm
  BY <1>1 DEF Init, CallingOnAlarm
<1> QED
  BY <1>3, <1>4, <1>5 DEF IndInv

\* The listener and the network touch nothing but flag.
LEMMA ListenerKeeps ==
  ASSUME IndInv, Listener \/ ReachabilityChanges
  PROVE  IndInv'
<1> USE LimitAssumption, TriesAssumption, MaxTimeAssumption
    DEF IndInv, TypeOK, MutexOwned, AlarmNeverSlept, FlagLimited, AwakeForAlarm,
        CallingOnAlarm, Processes, segment, history
<1>1. CASE ListenArm
  BY <1>1 DEF ListenArm
<1>2. CASE ListenAccept
  BY <1>2 DEF ListenAccept
<1>3. CASE ListenReset
  BY <1>3 DEF ListenReset, ResetFlag
<1>4. CASE ReachabilityChanges
  BY <1>4 DEF ReachabilityChanges
<1> QED
  BY <1>1, <1>2, <1>3, <1>4 DEF Listener

LEMMA CheckerKeeps ==
  ASSUME IndInv, Checker
  PROVE  IndInv'
<1> USE LimitAssumption, TriesAssumption, MaxTimeAssumption
    DEF IndInv, TypeOK, MutexOwned, AlarmNeverSlept, FlagLimited, AwakeForAlarm,
        CallingOnAlarm, Processes, segment, history, CheckerOnly
<1>1. CASE CheckRead
  BY <1>1 DEF CheckRead
<1>2. CASE CheckWrite
  BY <1>2 DEF CheckWrite
<1>3. CASE CheckBelow
  BY <1>3 DEF CheckBelow
<1>4. CASE CheckAlarm
  BY <1>4 DEF CheckAlarm
<1>5. CASE CheckLock
  BY <1>5 DEF CheckLock
<1>6. CASE CheckSignal
  BY <1>6 DEF CheckSignal
<1>7. CASE CheckRaise
  BY <1>7 DEF CheckRaise
<1>8. CASE CheckUnlock
  BY <1>8 DEF CheckUnlock
<1>9. CASE CheckClear
  BY <1>9 DEF CheckClear, ResetFlag
<1> QED
  BY <1>1, <1>2, <1>3, <1>4, <1>5, <1>6, <1>7, <1>8, <1>9 DEF Checker

LEMMA CallerKeeps ==
  ASSUME IndInv, Caller
  PROVE  IndInv'
<1> USE LimitAssumption, TriesAssumption, MaxTimeAssumption
    DEF IndInv, TypeOK, MutexOwned, AlarmNeverSlept, FlagLimited, AwakeForAlarm,
        CallingOnAlarm, Processes, segment, history, CallerOnly
<1>1. CASE CallLock
  BY <1>1 DEF CallLock
<1>2. CASE CallWait
  BY <1>2 DEF CallWait
<1>3. CASE CallWokenForNothing
  BY <1>3 DEF CallWokenForNothing
<1>4. CASE CallStart
  BY <1>4 DEF CallStart
<1>5. CASE CallVain
  BY <1>5 DEF CallVain
<1>6. CASE CallAgain
  BY <1>6 DEF CallAgain
<1>7. CASE CallAnswered
  <2>1. raced' \in BOOLEAN /\ alarmed' \in BOOLEAN
    BY <1>7, Zenon DEF CallAnswered, ResetFlag
  <2>2. caller'.pc = "done"
    BY <1>7 DEF CallAnswered
  <2>3. CallingOnAlarm'
    BY <1>7, <2>2 DEF CallAnswered
  <2>4. TypeOK'
    BY <1>7, <2>1 DEF CallAnswered, ResetFlag
  <2> QED
    BY <1>7, <2>3, <2>4 DEF CallAnswered, ResetFlag
<1>8. CASE CallDone
  BY <1>8 DEF CallDone
<1> QED
  BY <1>1, <1>2, <1>3, <1>4, <1>5, <1>6, <1>7, <1>8 DEF Caller

LEMMA StepIndInv == IndInv /\ [Next]_vars => IndInv'
<1> SUFFICES ASSUME IndInv, [Next]_vars
             PROVE  IndInv'
  OBVIOUS
<1>1. CASE Next
  BY <1>1, ListenerKeeps, CheckerKeeps, CallerKeeps DEF Next
<1>2. CASE UNCHANGED vars
  BY <1>2 DEF vars, segment, history, IndInv, TypeOK, MutexOwned, AlarmNeverSlept,
     FlagLimited, AwakeForAlarm, CallingOnAlarm
<1> QED
  BY <1>1, <1>2

\* The invariant the theorems below are read off.
THEOREM MonitorInvariant == Spec => []IndInv
  BY InitIndInv, StepIndInv, PTL DEF Spec

\* Every variable of the segment and of the three processes holds a value of
\* its type.
THEOREM TypesCorrect == Spec => []TypeOK
<1>1. IndInv => TypeOK
  BY DEF IndInv
<1> QED
  BY <1>1, MonitorInvariant, PTL

\* sm_mutex is held by at most the process that is in its critical section.
THEOREM MutexStaysOwned == Spec => []MutexOwned
<1>1. IndInv => MutexOwned
  BY DEF IndInv
<1> QED
  BY <1>1, MonitorInvariant, PTL

\* No wake-up is lost: client.c signals before it sets sm_time, and still no
\* alarm is ever on while the caller sleeps.
THEOREM AlarmsAreHeard == Spec => []AlarmNeverSlept
<1>1. IndInv => AlarmNeverSlept
  BY DEF IndInv
<1> QED
  BY <1>1, MonitorInvariant, PTL

\* The client repeats its login only in answer to an alarm, once for each.
THEOREM LoginsAnswerAlarms == Spec => CallsAnswerAlarms
<1>1. IndInv /\ [Next]_vars => [CallAnswered => alarmed]_vars
  BY DEF IndInv, TypeOK, CallingOnAlarm, CallAnswered
<1> QED
  BY <1>1, MonitorInvariant, PTL DEF Spec, CallsAnswerAlarms

\* Unless a reset of flag fell between the halves of an increment, flag and
\* what an increment has read of it count the checks missed, and at most one
\* more: the 1 the listener sets before it waits.
FlagCounts ==
  ~raced => /\ flag <= missed + 1
            /\ checker.pc = "write" => checker.seen <= missed + 1

LEMMA StepFlagCounts ==
  ASSUME IndInv, FlagCounts, [Next]_vars
  PROVE  FlagCounts'
<1>1. flag \in Nat /\ missed \in Nat /\ checker.seen \in Nat
  <2>1. /\ flag \in 0 .. Limit + 1
        /\ checker.seen \in 0 .. Limit + 1
    BY DEF IndInv, TypeOK
  <2>2. Limit + 1 \in Nat /\ 0 .. Limit + 1 \subseteq Nat
    BY LimitAssumption
  <2>3. flag \in Nat
    BY Zenon, <2>1, <2>2
  <2>4. checker.seen \in Nat
    BY Zenon, <2>1, <2>2
  <2>5. missed \in Nat
    BY DEF IndInv, TypeOK
  <2> QED
    BY <2>3, <2>4, <2>5
<1>2. ASSUME ResetFlag, checker'.pc = checker.pc \/ checker'.pc # "write"
      PROVE  FlagCounts'
  <2>1. CASE checker.pc = "write"
    <3>1. raced'
      BY <1>2, <2>1 DEF ResetFlag
    <3> QED
      BY <3>1 DEF FlagCounts
  <2>2. CASE checker.pc # "write"
    BY <1>2, <2>2, <1>1 DEF ResetFlag, FlagCounts
  <2> QED
    BY <2>1, <2>2
<1>3. CASE Listener \/ ReachabilityChanges
  <2>1. checker' = checker
    BY <1>3 DEF Listener, ListenArm, ListenAccept, ListenReset, ReachabilityChanges
  <2>2. CASE ListenReset
    BY <2>1, <2>2, <1>2 DEF ListenReset
  <2>3. CASE ListenArm
    <3>1. flag' = 1 /\ missed' = missed /\ raced' = raced
      BY <2>3 DEF ListenArm, history
    <3> QED
      BY <3>1, <2>1, <1>1 DEF FlagCounts
  <2>4. CASE ListenAccept \/ ReachabilityChanges
    <3>1. UNCHANGED <<flag, missed, raced>>
      BY <2>4 DEF ListenAccept, ReachabilityChanges, segment, history
    <3> QED
      BY <3>1, <2>1 DEF FlagCounts
  <2> QED
    BY <1>3, <2>2, <2>3, <2>4 DEF Listener
<1>4. CASE Checker
  <2>1. CASE CheckRead
    BY <1>1, <2>1 DEF CheckRead, FlagCounts, segment, history
  <2>2. CASE CheckWrite
    <3>1. checker'.pc = "test" /\ checker.pc = "write"
      BY <2>2 DEF CheckWrite, IndInv, TypeOK
    <3>2. /\ flag' = checker.seen + 1 /\ missed' = missed + 1
          /\ raced' = raced
      BY <2>2 DEF CheckWrite
    <3> QED
      BY <1>1, <3>1, <3>2 DEF FlagCounts
  <2>3. CASE CheckClear
    BY <2>3, <1>2 DEF CheckClear
  <2>4. CASE \/ CheckBelow \/ CheckAlarm \/ CheckLock \/ CheckSignal \/ CheckRaise \/ CheckUnlock
    <3>1. UNCHANGED <<flag, missed, raced>> /\ checker'.pc # "write"
      BY <2>4
         DEF CheckBelow, CheckAlarm, CheckLock, CheckSignal, CheckRaise, CheckUnlock, segment,
             history, IndInv, TypeOK
    <3> QED
      BY <3>1 DEF FlagCounts
  <2> QED
    BY <1>4, <2>1, <2>2, <2>3, <2>4 DEF Checker
<1>5. CASE Caller
  <2>1. checker' = checker
    BY <1>5
       DEF Caller, CallLock, CallWait, CallWokenForNothing, CallStart, CallVain, CallAgain,
           CallAnswered, CallDone, CallerOnly
  <2>2. UNCHANGED <<flag, missed, raced>> \/ ResetFlag
    BY <1>5
       DEF Caller, CallLock, CallWait, CallWokenForNothing, CallStart, CallVain, CallAgain,
           CallAnswered, CallDone, segment, history
  <2>3. CASE UNCHANGED <<flag, missed, raced>>
    BY <2>1, <2>3 DEF FlagCounts
  <2>4. CASE ResetFlag
    BY <2>1, <2>4, <1>2
  <2> QED
    BY <2>2, <2>3, <2>4
<1>6. CASE UNCHANGED vars
  BY <1>6 DEF vars, segment, history, FlagCounts
<1> QED
  BY <1>3, <1>4, <1>5, <1>6 DEF Next

\* An alarm means that Limit checks in a row have missed the master
\* (client.c:272-275), unless the unprotected flag++ undid a reset of flag.
THEOREM AlarmsEarlyOnlyByRace == Spec => AlarmsSoundButForRace
<1>1. Init => FlagCounts
  BY DEF Init, FlagCounts
<1>2. IndInv /\ FlagCounts /\ [Next]_vars => FlagCounts'
  BY StepFlagCounts
<1>3. IndInv /\ FlagCounts => [CheckAlarm => missed >= Limit \/ raced]_vars
  BY LimitAssumption DEF IndInv, TypeOK, FlagCounts, CheckAlarm
<1> QED
  BY <1>1, <1>2, <1>3, MonitorInvariant, PTL DEF Spec, AlarmsSoundButForRace
=============================================================================
