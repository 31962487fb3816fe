------------------------ MODULE LoginSessionsProofs ------------------------
(***************************************************************************)
(* Proofs about the login sessions of the master, for any finite set of    *)
(* connections, any number of descriptors and batches of any size.         *)
(***************************************************************************)
EXTENDS LoginSessions, FiniteSetTheorems, TLAPS

Events == [of : Logins \union {Listener}, what : {"in", "out"}]

TypeOK ==
  /\ backlog \in Seq(Logins)
  /\ fds \in Nat
  /\ interest \in [Logins -> {"nothing", "in", "out"}]
  /\ batch \in Seq(Events)
  /\ readable \subseteq Logins /\ accepted \subseteq Logins /\ refused \subseteq Logins
  /\ greeted \in [Logins -> Nat] /\ up \in BOOLEAN

\* A connection waits once, only accepted ones are watched, and only what
\* has spoken or closed is reported to have.
Waiting == \A i, j \in DOMAIN backlog : backlog[i] = backlog[j] => i = j
Watched ==
  /\ \A c \in Logins : interest[c] # "nothing" => c \in accepted
  /\ \A i \in DOMAIN batch : batch[i].of # Listener /\ batch[i].what = "in"
                               => batch[i].of \in readable

IndInv == TypeOK /\ EventsCurrent /\ Waiting /\ Watched

-----------------------------------------------------------------------------
LEMMA EventsOf ==
  \A c \in Logins \union {Listener}, w \in {"in", "out"} :
    Event(c, w) \in Events /\ Event(c, w).of = c /\ Event(c, w).what = w
  BY DEF Event, Events

\* What epoll can report is finite.
LEMMA ReadyFinite == TypeOK => IsFiniteSet(Ready)
<1> SUFFICES ASSUME TypeOK
             PROVE  IsFiniteSet(Ready)
  OBVIOUS
<1> DEFINE Reports(w) == {Event(c, w) : c \in Logins \union {Listener}}
<1>1. IsFiniteSet(Logins \union {Listener})
  BY LimitsAssumption, FS_AddElement
<1>2. ASSUME NEW w
      PROVE  IsFiniteSet(Reports(w))
  <2>1. [c \in Logins \union {Listener} |-> Event(c, w)]
          \in Surjection(Logins \union {Listener}, Reports(w))
    BY DEF Surjection
  <2> HIDE DEF Reports
  <2> QED
    BY <1>1, <2>1, FS_Surjection
<1>3. Ready \subseteq Reports("in") \union Reports("out")
  BY DEF Ready, TypeOK
<1>4. IsFiniteSet(Reports("in") \union Reports("out"))
  BY <1>2, FS_Union
<1> QED
  BY <1>3, <1>4, FS_Subset

LEMMA InitIndInv == Init => IndInv
<1>1. Cardinality({}) = 0
  BY FS_EmptySet
<1> QED
  BY <1>1, LimitsAssumption DEF Init, IndInv, TypeOK, EventsCurrent, Waiting, Watched, Range

-----------------------------------------------------------------------------
(* The clients *)

LEMMA ConnectStep ==
  ASSUME IndInv, NEW c \in Logins, Connect(c)
  PROVE  IndInv'
<1>1. /\ backlog' \in Seq(Logins) /\ Len(backlog') = Len(backlog) + 1
      /\ \A i \in 1 .. Len(backlog) : backlog'[i] = backlog[i]
      /\ backlog'[Len(backlog) + 1] = c
      /\ DOMAIN backlog = 1 .. Len(backlog) /\ DOMAIN backlog' = 1 .. Len(backlog')
      /\ Len(backlog) \in Nat
  BY DEF Connect, IndInv, TypeOK
<1>2. c \notin accepted \union refused /\ \A i \in DOMAIN backlog : backlog[i] # c
  BY DEF Connect, Range
<1>3. TypeOK'
  BY <1>1 DEF Connect, IndInv, TypeOK
<1>4. Waiting'
  BY <1>1, <1>2 DEF IndInv, Waiting
<1>5. Watched'
  BY DEF Connect, IndInv, Watched
<1>6. \A d \in Range(backlog') : d \notin accepted \union refused
  BY <1>1, <1>2 DEF IndInv, EventsCurrent, Range
<1>7. EventsCurrent'
  BY <1>6 DEF Connect, IndInv, EventsCurrent
<1> QED
  BY <1>3, <1>4, <1>5, <1>7 DEF IndInv

LEMMA SendsStep ==
  ASSUME IndInv, NEW c \in Logins, SendsOrCloses(c)
  PROVE  IndInv'
  BY DEF SendsOrCloses, IndInv, TypeOK, EventsCurrent, Waiting, Watched

-----------------------------------------------------------------------------
(* The master *)

\* What is reported is distinct and true.
LEMMA EpollStep ==
  ASSUME IndInv, EpollWait
  PROVE  IndInv'
<1>1. PICK S \in SUBSET Ready : batch' \in SetToSeqs(S)
  BY DEF EpollWait
<1>2. Cardinality(S) \in Nat
  BY ReadyFinite, FS_Subset, FS_CardinalityType DEF IndInv
<1>3. /\ batch' \in [1 .. Cardinality(S) -> S]
      /\ \A i, j \in DOMAIN batch' : i # j => batch'[i] # batch'[j]
  BY <1>1 DEF SetToSeqs
<1>4. \A e \in Ready : /\ e \in Events
                       /\ e.of = Listener => e = Event(Listener, "in")
                       /\ e.of # Listener => /\ interest[e.of] = e.what
                                             /\ e = Event(e.of, e.what)
                                             /\ e.what = "in" => e.of \in readable
  <2> SUFFICES ASSUME NEW e \in Ready
               PROVE  /\ e \in Events
                      /\ e.of = Listener => e = Event(Listener, "in")
                      /\ e.of # Listener => /\ interest[e.of] = e.what
                                            /\ e = Event(e.of, e.what)
                                            /\ e.what = "in" => e.of \in readable
    OBVIOUS
  <2>1. CASE e = Event(Listener, "in")
    BY <2>1, EventsOf
  <2>2. CASE \E c \in Logins, w \in {"in", "out"} :
               e = Event(c, w) /\ interest[c] = w /\ (w = "in" => c \in readable)
    BY <2>2, EventsOf, ListenerAssumption
  <2> QED
    BY <2>1, <2>2 DEF Ready, IndInv, TypeOK
<1>5. batch' \in Seq(Events)
  BY <1>2, <1>3, <1>4
<1>6. \A i \in DOMAIN batch' : batch'[i] \in Ready
  BY <1>3
<1>7. TypeOK'
  BY <1>5 DEF EpollWait, IndInv, TypeOK
<1>8. Watched'
  BY <1>4, <1>6 DEF EpollWait, IndInv, Watched
<1>9. \A i, j \in DOMAIN batch' : batch'[j].of = batch'[i].of => i = j
  BY <1>3, <1>4, <1>6
<1>10. \A i \in DOMAIN batch' : batch'[i].of # Listener =>
          interest[batch'[i].of] = batch'[i].what /\ batch'[i].of \in accepted
  BY <1>4, <1>6 DEF IndInv, Watched, Events
<1>11. EventsCurrent'
  BY <1>9, <1>10 DEF EpollWait, IndInv, EventsCurrent
<1>12. Waiting'
  BY DEF EpollWait, IndInv, Waiting
<1> QED
  BY <1>7, <1>8, <1>11, <1>12 DEF IndInv

\* The events that are left are those from the second one on.
LEMMA HandlesRest ==
  ASSUME IndInv, NEW e, Handles(e)
  PROVE  /\ batch' \in Seq(Events) /\ 1 \in DOMAIN batch /\ batch[1] = e
         /\ \A i \in DOMAIN batch' : i + 1 \in DOMAIN batch /\ batch'[i] = batch[i + 1]
         /\ \A i \in DOMAIN batch' : batch'[i].of # e.of
         /\ \A i, j \in DOMAIN batch' : batch'[j].of = batch'[i].of => i = j
<1>1. batch \in Seq(Events) /\ batch # <<>> /\ Head(batch) = e /\ batch' = Tail(batch)
  BY DEF Handles, IndInv, TypeOK
<1>2. /\ batch' \in Seq(Events) /\ Len(batch') = Len(batch) - 1 /\ Len(batch) \in Nat \ {0}
      /\ \A i \in 1 .. Len(batch') : batch'[i] = batch[i + 1]
      /\ DOMAIN batch' = 1 .. Len(batch') /\ DOMAIN batch = 1 .. Len(batch)
      /\ batch[1] = e
  BY <1>1
<1>3. \A i \in DOMAIN batch' : i + 1 \in DOMAIN batch /\ i + 1 # 1
  BY <1>2
<1>4. \A i, j \in DOMAIN batch : batch[j].of = batch[i].of => i = j
  BY DEF IndInv, EventsCurrent
<1> QED
  BY <1>2, <1>3, <1>4

LEMMA LoginStep ==
  ASSUME IndInv, LoginAccepted \/ LoginRefused
  PROVE  IndInv'
<1> DEFINE c == Head(backlog)
<1>1. Handles(Event(Listener, "in"))
  BY DEF LoginAccepted, LoginRefused
<1>2. /\ batch' \in Seq(Events)
      /\ \A i \in DOMAIN batch' : i + 1 \in DOMAIN batch /\ batch'[i] = batch[i + 1]
      /\ \A i, j \in DOMAIN batch' : batch'[j].of = batch'[i].of => i = j
  BY <1>1, HandlesRest
<1>3. backlog \in Seq(Logins) /\ backlog # <<>> /\ backlog' = Tail(backlog)
  BY DEF LoginAccepted, LoginRefused, IndInv, TypeOK
<1>4. /\ backlog' \in Seq(Logins) /\ Len(backlog') = Len(backlog) - 1 /\ c \in Logins
      /\ Len(backlog) \in Nat \ {0}
      /\ \A i \in 1 .. Len(backlog') : backlog'[i] = backlog[i + 1]
      /\ DOMAIN backlog' = 1 .. Len(backlog') /\ DOMAIN backlog = 1 .. Len(backlog)
      /\ backlog[1] = c
  BY <1>3
<1>5. \A i \in DOMAIN backlog' : i + 1 \in DOMAIN backlog /\ i + 1 # 1
  BY <1>4
<1>6. \A i \in DOMAIN backlog' : backlog'[i] # c
  BY <1>4, <1>5 DEF IndInv, Waiting
<1>7. Waiting'
  BY <1>4, <1>5 DEF IndInv, Waiting
<1>8. c \notin accepted \union refused
  BY <1>4 DEF IndInv, EventsCurrent, Range
<1>9. IsFiniteSet(accepted) /\ IsFiniteSet(refused)
  BY LimitsAssumption, FS_Subset DEF IndInv, TypeOK
<1>10. Cardinality(accepted) \in Nat /\ Cardinality(refused) \in Nat
  BY <1>9, FS_CardinalityType
<1>11. /\ Cardinality(accepted \union {c}) = Cardinality(accepted) + 1
       /\ Cardinality(refused \union {c}) = Cardinality(refused) + 1
  BY <1>8, <1>9, FS_AddElement
<1> HIDE DEF c
<1>12. fds + 1 < MaxFd /\ fds' = fds + 1 /\ UNCHANGED <<readable, up, greeted>>
       /\ \/ accepted' = accepted \union {c} /\ interest' = [interest EXCEPT ![c] = "in"]
             /\ UNCHANGED refused
          \/ refused' = refused \union {c} /\ UNCHANGED <<accepted, interest>>
  BY DEF LoginAccepted, LoginRefused, c
<1>13. TypeOK'
  BY <1>2, <1>4, <1>12 DEF IndInv, TypeOK
<1>14. fds' = Cardinality(accepted') + Cardinality(refused') /\ fds' < MaxFd
  <2>1. fds = Cardinality(accepted) + Cardinality(refused)
    BY DEF IndInv, EventsCurrent
  <2>2. CASE accepted' = accepted \union {c} /\ refused' = refused
    BY <1>10, <1>11, <1>12, <2>1, <2>2, LimitsAssumption
  <2>3. CASE refused' = refused \union {c} /\ accepted' = accepted
    BY <1>10, <1>11, <1>12, <2>1, <2>3, LimitsAssumption
  <2> QED
    BY <1>12, <2>2, <2>3
<1>15. \A d \in Range(backlog') : d \notin accepted' \union refused'
  BY <1>4, <1>5, <1>6, <1>12 DEF IndInv, EventsCurrent, Range
<1>16. \A i \in DOMAIN batch' : batch'[i].of # Listener =>
          interest'[batch'[i].of] = batch'[i].what /\ batch'[i].of \in accepted'
  BY <1>2, <1>8, <1>12 DEF IndInv, EventsCurrent, TypeOK
<1>17. \A d \in Logins :
          /\ greeted'[d] = IF interest'[d] = "nothing" /\ d \in accepted' THEN 1 ELSE 0
          /\ interest'[d] = "out" \/ greeted'[d] = 1 => d \in readable'
  BY <1>8, <1>12 DEF IndInv, EventsCurrent, TypeOK, Watched
<1>18. EventsCurrent'
  BY <1>2, <1>14, <1>15, <1>16, <1>17 DEF EventsCurrent
<1>19. Watched'
  BY <1>2, <1>4, <1>12 DEF IndInv, Watched, TypeOK
<1> QED
  BY <1>7, <1>13, <1>18, <1>19 DEF IndInv

\* Nothing but the batch and up changes.
LEMMA LoginFailsStep ==
  ASSUME IndInv, LoginFails \/ LoginCrashes
  PROVE  IndInv'
<1>1. Handles(Event(Listener, "in"))
  BY DEF LoginFails, LoginCrashes
<1>2. /\ batch' \in Seq(Events)
      /\ \A i \in DOMAIN batch' : i + 1 \in DOMAIN batch /\ batch'[i] = batch[i + 1]
      /\ \A i, j \in DOMAIN batch' : batch'[j].of = batch'[i].of => i = j
  BY <1>1, HandlesRest
<1>3. /\ UNCHANGED <<backlog, fds, interest, readable, accepted, refused, greeted>>
      /\ up \in BOOLEAN /\ up' \in BOOLEAN
  BY DEF LoginFails, LoginCrashes, IndInv, TypeOK
<1>4. TypeOK' /\ Waiting'
  BY <1>2, <1>3 DEF IndInv, TypeOK, Waiting
<1>5. Watched'
  BY <1>2, <1>3 DEF IndInv, Watched
<1>6. EventsCurrent'
  BY <1>2, <1>3 DEF IndInv, EventsCurrent
<1> QED
  BY <1>4, <1>5, <1>6 DEF IndInv

\* The connection of the event is in no later one.
LEMMA ConnectionStep ==
  ASSUME IndInv, NEW c \in Logins, HandleIn(c) \/ HandleOut(c)
  PROVE  IndInv'
<1>1. PICK w \in {"in", "out"} :
        /\ Handles(Event(c, w))
        /\ interest' = [interest EXCEPT ![c] = IF w = "in" THEN "out" ELSE "nothing"]
        /\ greeted' = IF w = "in" THEN greeted ELSE [greeted EXCEPT ![c] = @ + 1]
        /\ UNCHANGED <<backlog, fds, readable, up, accepted, refused>>
  BY DEF HandleIn, HandleOut
<1>2. Event(c, w).of = c /\ Event(c, w).what = w
  BY EventsOf
<1>3. /\ batch' \in Seq(Events) /\ 1 \in DOMAIN batch /\ batch[1] = Event(c, w)
      /\ \A i \in DOMAIN batch' : i + 1 \in DOMAIN batch /\ batch'[i] = batch[i + 1]
      /\ \A i \in DOMAIN batch' : batch'[i].of # c
      /\ \A i, j \in DOMAIN batch' : batch'[j].of = batch'[i].of => i = j
  BY <1>1, <1>2, HandlesRest
<1>4. interest[c] = w /\ c \in accepted /\ c # Listener /\ (w = "in" => c \in readable)
  BY <1>2, <1>3, ListenerAssumption DEF IndInv, EventsCurrent, Watched
<1>5. \A d \in Logins :
          /\ greeted'[d] = IF interest'[d] = "nothing" /\ d \in accepted THEN 1 ELSE 0
          /\ interest'[d] = "out" \/ greeted'[d] = 1 => d \in readable
  BY <1>1, <1>4 DEF IndInv, EventsCurrent, TypeOK
<1>6. \A i \in DOMAIN batch' : batch'[i].of # Listener =>
          interest'[batch'[i].of] = batch'[i].what /\ batch'[i].of \in accepted
  BY <1>1, <1>3 DEF IndInv, EventsCurrent, TypeOK
<1>7. EventsCurrent'
  BY <1>1, <1>3, <1>5, <1>6 DEF IndInv, EventsCurrent
<1>8. TypeOK'
  BY <1>1, <1>3 DEF IndInv, TypeOK
<1>9. Watched'
  BY <1>1, <1>3, <1>4 DEF IndInv, Watched, TypeOK
<1>10. Waiting'
  BY <1>1 DEF IndInv, Waiting
<1> QED
  BY <1>7, <1>8, <1>9, <1>10 DEF IndInv

LEMMA StepIndInv == IndInv /\ [Next]_vars => IndInv'
<1> SUFFICES ASSUME IndInv, [Next]_vars
             PROVE  IndInv'
  OBVIOUS
<1>1. CASE Master
  BY <1>1, EpollStep, LoginStep, LoginFailsStep, ConnectionStep DEF Master
<1>2. CASE \E c \in Logins : Connect(c) \/ SendsOrCloses(c)
  BY <1>2, ConnectStep, SendsStep
<1>3. CASE ThreadCrashes \/ UNCHANGED vars
  BY <1>3 DEF ThreadCrashes, vars, IndInv, TypeOK, EventsCurrent, Waiting, Watched
<1> QED
  BY <1>1, <1>2, <1>3 DEF Next

\* The inductive invariant: EventsCurrent with the types, that a connection
\* waits once, and who can be watched and reported.
THEOREM SessionsInvariant == Spec => []IndInv
  BY InitIndInv, StepIndInv, PTL DEF Spec

\* No event of a batch of epoll_wait is out of date when it is handled, no
\* connection is greeted unheard or twice, descriptors are never given back,
\* and no login gets the last one (server.c:340-352, 421-456).
THEOREM EventsStayCurrent == Spec => []EventsCurrent
<1>1. IndInv => EventsCurrent
  BY DEF IndInv
<1> QED
  BY <1>1, SessionsInvariant, PTL
=============================================================================
