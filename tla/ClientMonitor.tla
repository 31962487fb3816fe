---------------------------- MODULE ClientMonitor ----------------------------
(***************************************************************************)
(* How a client (V2.0/client/client.c) notices that its master went quiet  *)
(* and logs in again.  Three processes share the segment sm_msg:           *)
(*                                                                         *)
(*  - the listener sets flag to 1 before it waits for a probe of the       *)
(*    master's heartbeat and to 0 when one arrives;                        *)
(*  - the checker (the child that runs MemLog.sh) adds one to flag after   *)
(*    each check and, when it grew past a limit, wakes the caller;         *)
(*  - the caller waits on a condition variable for sm_time and then logs   *)
(*    in, trying over and over, until the master accepts.                  *)
(*                                                                         *)
(* sm_time is only used under sm_mutex.  flag is not protected: flag++ is  *)
(* a read and a write with anybody's store possibly in between.  The       *)
(* caller keeps the mutex while it calls.                                  *)
(***************************************************************************)
EXTENDS Naturals

CONSTANTS
  Limit,   \* flag above it raises the alarm (9 in the code)
  Tries,   \* sm_time of an alarm: the calls of the first round (10)
  MaxTime  \* bound: sm_time doubles after every vain round, up to here

ASSUME LimitAssumption == Limit \in Nat \ {0}
ASSUME TriesAssumption == Tries \in Nat /\ Tries >= 2
ASSUME MaxTimeAssumption == MaxTime \in Nat /\ MaxTime >= Tries

VARIABLES
  flag, sm_time, sm_mutex,  \* the shared segment; sm_mutex is its holder
  listener,  \* the listener's place in its loop
  checker,   \* the checker's place, and the flag its increment has read
  caller,    \* the caller's place, and the calls made in this round
  reachable, \* the master accepts logins
  \* What follows is history: no guard reads it.
  missed,    \* checks since flag was last reset
  raced,     \* that reset fell between the two halves of an increment
  alarmed    \* an alarm was raised and no call has got through since

segment == <<flag, sm_time, sm_mutex>>
history == <<missed, raced, alarmed>>
vars == <<segment, listener, checker, caller, reachable, history>>

Processes == {"listener", "checker", "caller"}

Init ==
  /\ flag = 0 /\ sm_time = 0 /\ sm_mutex = "free"
  /\ listener = "arm"
  /\ checker = [pc |-> "read", seen |-> 0]
  /\ caller = [pc |-> "lock", made |-> 0]
  /\ reachable \in BOOLEAN
  /\ missed = 0 /\ raced = FALSE /\ alarmed = FALSE

\* The master heard from the client, or the client from the master.
ResetFlag == /\ flag' = 0
             /\ missed' = 0
             /\ raced' = (checker.pc = "write")

ReachabilityChanges ==
  /\ reachable' = ~reachable
  /\ UNCHANGED <<segment, listener, checker, caller, history>>

-----------------------------------------------------------------------------
(* The listener. *)

ListenArm ==
  /\ listener = "arm"
  /\ flag' = 1
  /\ listener' = "accept"
  /\ UNCHANGED <<sm_time, sm_mutex, checker, caller, reachable, history>>

\* accept returns, with a probe of the master or with an error.
ListenAccept ==
  /\ listener = "accept"
  /\ listener' = "heard"
  /\ UNCHANGED <<segment, checker, caller, reachable, history>>

ListenReset ==
  /\ listener = "heard"
  /\ ResetFlag
  /\ listener' = "arm"
  /\ UNCHANGED <<sm_time, sm_mutex, checker, caller, reachable, alarmed>>

-----------------------------------------------------------------------------
(* The checker: what follows each run of MemLog.sh. *)

CheckerOnly == UNCHANGED <<listener, caller, reachable>>

CheckRead ==
  /\ checker.pc = "read"
  /\ checker' = [pc |-> "write", seen |-> flag]
  /\ UNCHANGED <<segment, history>> /\ CheckerOnly

CheckWrite ==
  /\ checker.pc = "write"
  /\ flag' = checker.seen + 1
  /\ missed' = missed + 1
  /\ checker' = [checker EXCEPT !.pc = "test"]
  /\ UNCHANGED <<sm_time, sm_mutex, raced, alarmed>> /\ CheckerOnly

CheckBelow ==
  /\ checker.pc = "test" /\ flag <= Limit
  /\ checker' = [pc |-> "read", seen |-> 0]
  /\ UNCHANGED <<segment, history>> /\ CheckerOnly

\* Mutant: the alarm comes one check early.
CheckAlarmEarly ==
  /\ checker.pc = "test" /\ flag >= Limit
  /\ checker' = [checker EXCEPT !.pc = "lock"]
  /\ UNCHANGED <<segment, history>> /\ CheckerOnly

\* "the master did not respond"
CheckAlarm ==
  /\ checker.pc = "test" /\ flag > Limit
  /\ checker' = [checker EXCEPT !.pc = "lock"]
  /\ UNCHANGED <<segment, history>> /\ CheckerOnly

CheckLock ==
  /\ checker.pc = "lock" /\ sm_mutex = "free"
  /\ sm_mutex' = "checker"
  /\ checker' = [checker EXCEPT !.pc = "signal"]
  /\ UNCHANGED <<flag, sm_time, history>> /\ CheckerOnly

\* Mutant: nobody is signalled.
CheckSignalForgotten ==
  /\ checker.pc = "signal"
  /\ checker' = [checker EXCEPT !.pc = "raise"]
  /\ UNCHANGED <<segment, history>> /\ CheckerOnly

\* pthread_cond_signal wakes the caller if it waits and is lost otherwise.
CheckSignal ==
  /\ checker.pc = "signal"
  /\ checker' = [checker EXCEPT !.pc = "raise"]
  /\ caller' = IF caller.pc = "waiting" THEN [caller EXCEPT !.pc = "relock"]
                                        ELSE caller
  /\ UNCHANGED <<segment, history, listener, reachable>>

CheckRaise ==
  /\ checker.pc = "raise"
  /\ sm_time' = Tries
  /\ alarmed' = TRUE
  /\ checker' = [checker EXCEPT !.pc = "unlock"]
  /\ UNCHANGED <<flag, sm_mutex, missed, raced>> /\ CheckerOnly

CheckUnlock ==
  /\ checker.pc = "unlock"
  /\ sm_mutex' = "free"
  /\ checker' = [checker EXCEPT !.pc = "clear"]
  /\ UNCHANGED <<flag, sm_time, history>> /\ CheckerOnly

\* Mutant: flag goes on growing after an alarm.
CheckClearForgotten ==
  /\ checker.pc = "clear"
  /\ checker' = [pc |-> "read", seen |-> 0]
  /\ UNCHANGED <<segment, history>> /\ CheckerOnly

CheckClear ==
  /\ checker.pc = "clear"
  /\ ResetFlag
  /\ checker' = [pc |-> "read", seen |-> 0]
  /\ UNCHANGED <<sm_time, sm_mutex, alarmed>> /\ CheckerOnly

-----------------------------------------------------------------------------
(* The caller. *)

CallerOnly == UNCHANGED <<listener, checker, reachable>>

\* On entry and after a wait, also a wait that ended for no reason.
CallLock ==
  /\ caller.pc \in {"lock", "relock"} /\ sm_mutex = "free"
  /\ sm_mutex' = "caller"
  /\ caller' = [caller EXCEPT !.pc = "test"]
  /\ UNCHANGED <<flag, sm_time, history>> /\ CallerOnly

CallWait ==
  /\ caller.pc = "test" /\ sm_time < 2
  /\ sm_mutex' = "free"
  /\ caller' = [caller EXCEPT !.pc = "waiting"]
  /\ UNCHANGED <<flag, sm_time, history>> /\ CallerOnly

CallWokenForNothing ==
  /\ caller.pc = "waiting"
  /\ caller' = [caller EXCEPT !.pc = "relock"]
  /\ UNCHANGED <<segment, history>> /\ CallerOnly

CallStart ==
  /\ caller.pc = "test" /\ sm_time >= 2
  /\ sm_time' = Tries
  /\ caller' = [pc |-> "call", made |-> 0]
  /\ UNCHANGED <<flag, sm_mutex, history>> /\ CallerOnly

CallVain ==
  /\ caller.pc = "call" /\ caller.made < sm_time /\ ~reachable
  /\ caller' = [caller EXCEPT !.made = @ + 1]
  /\ UNCHANGED <<segment, history>> /\ CallerOnly

\* sm_time *= 2
CallAgain ==
  /\ caller.pc = "call" /\ caller.made = sm_time
  /\ sm_time' = IF 2 * sm_time <= MaxTime THEN 2 * sm_time ELSE MaxTime
  /\ caller' = [caller EXCEPT !.made = 0]
  /\ UNCHANGED <<flag, sm_mutex, history>> /\ CallerOnly

CallAnswered ==
  /\ caller.pc = "call" /\ caller.made < sm_time /\ reachable
  /\ ResetFlag
  /\ alarmed' = FALSE
  /\ caller' = [caller EXCEPT !.pc = "done"]
  /\ UNCHANGED <<sm_time, sm_mutex>> /\ CallerOnly

\* Mutant: the alarm that was answered stays on.
CallDoneStillOn ==
  /\ caller.pc = "done"
  /\ sm_mutex' = "free"
  /\ caller' = [pc |-> "lock", made |-> 0]
  /\ UNCHANGED <<flag, sm_time, history>> /\ CallerOnly

\* Mutant: the mutex is kept.
CallDoneLocked ==
  /\ caller.pc = "done"
  /\ sm_time' = 0
  /\ caller' = [pc |-> "lock", made |-> 0]
  /\ UNCHANGED <<flag, sm_mutex, history>> /\ CallerOnly

CallDone ==
  /\ caller.pc = "done"
  /\ sm_time' = 0
  /\ sm_mutex' = "free"
  /\ caller' = [pc |-> "lock", made |-> 0]
  /\ UNCHANGED <<flag, history>> /\ CallerOnly

-----------------------------------------------------------------------------
Listener == ListenArm \/ ListenAccept \/ ListenReset
Checker  == \/ CheckRead \/ CheckWrite \/ CheckBelow \/ CheckAlarm \/ CheckLock
            \/ CheckSignal \/ CheckRaise \/ CheckUnlock \/ CheckClear
Caller   == \/ CallLock \/ CallWait \/ CallWokenForNothing \/ CallStart
            \/ CallVain \/ CallAgain \/ CallAnswered \/ CallDone

Next == Listener \/ Checker \/ Caller \/ ReachabilityChanges

Spec == Init /\ [][Next]_vars

\* Every process runs on, but nothing makes the master probe or answer, nor a
\* wait end without a signal.  The mutex is not withheld for ever from one who
\* finds it free again and again.
Fairness ==
  /\ WF_vars(ListenArm \/ ListenReset)
  /\ WF_vars(Checker) /\ SF_vars(CheckLock)
  /\ WF_vars(Caller /\ ~CallWokenForNothing) /\ SF_vars(CallLock)

FairSpec == Spec /\ Fairness

-----------------------------------------------------------------------------
(* Correctness *)

\* Every variable holds a value of its type.
TypeOK ==
  /\ flag \in 0 .. Limit + 1
  /\ sm_time \in 0 .. MaxTime
  /\ sm_mutex \in Processes \cup {"free"}
  /\ listener \in {"arm", "accept", "heard"}
  /\ checker \in [pc : {"read", "write", "test", "lock", "signal", "raise",
                        "unlock", "clear"}, seen : 0 .. Limit + 1]
  /\ caller \in [pc : {"lock", "test", "waiting", "relock", "call", "done"},
                 made : 0 .. MaxTime]
  /\ reachable \in BOOLEAN
  /\ missed \in Nat /\ raced \in BOOLEAN /\ alarmed \in BOOLEAN

\* The mutex belongs to the process that is between lock and unlock.
MutexOwned ==
  /\ sm_mutex = "checker" <=> checker.pc \in {"signal", "raise", "unlock"}
  /\ sm_mutex = "caller" <=> caller.pc \in {"test", "call", "done"}

\* No wake-up is lost: whenever an alarm is on, the caller is not asleep on
\* the condition variable, although the signal precedes the assignment.
AlarmNeverSlept == sm_time >= 2 => caller.pc # "waiting"

\* A login is only repeated in answer to an alarm, once for each.
CallsAnswerAlarms == [][CallAnswered => alarmed]_vars

\* The inductive invariant the proofs rest on.  Beside the three above: flag
\* passes the limit only between an increment and the reset that ends its
\* alarm; while the checker is about to raise the alarm nobody falls asleep;
\* the caller calls while an alarm is on, and an alarm stays on until answered.
FlagLimited ==
  /\ checker.pc \in {"read", "write"} => flag <= Limit
  /\ checker.pc = "write" => checker.seen <= Limit
AwakeForAlarm == checker.pc = "raise" => caller.pc # "waiting"
CallingOnAlarm ==
  /\ caller.pc \in {"call", "done"} => sm_time >= 2
  /\ sm_time >= 2 /\ caller.pc # "done" => alarmed

IndInv == /\ TypeOK /\ MutexOwned /\ AlarmNeverSlept
          /\ FlagLimited /\ AwakeForAlarm /\ CallingOnAlarm

\* The alarm means that Limit checks in a row went by without a reset of
\* flag, unless that reset fell into the middle of an increment.
AlarmsSoundButForRace == [][CheckAlarm => missed >= Limit \/ raced]_vars

\* If the probes stop for good, the client calls its master again and again.
QuietMasterIsCalled ==
  <>[](listener = "accept") => []<>(caller.pc = "call")

\* The caller keeps the mutex while it calls, so an alarm stops the checker for
\* as long as the master is away, but no longer: once it can be reached for
\* good, the checks go on.
ChecksResume == <>[]reachable => []<>(checker.pc = "read")

-----------------------------------------------------------------------------
(* What a reader of the sources expects and the code does not keep.        *)

\* What the log line client.c:275 says of an alarm: that many checks and the
\* master did not respond.
AlarmMeansSilence == [][CheckAlarm => missed >= Limit]_vars
=============================================================================
