--------------------------- MODULE LoginSessions ---------------------------
(***************************************************************************)
(* The main thread of the master (main and doLogin in V2.0/server/         *)
(* server.c): it waits for events with epoll, accepts the logins that are  *)
(* waiting, reads what a client sends, or that it has closed, and answers  *)
(* it with a greeting.  A batch of events is handled one after the other   *)
(* before the next one is fetched.                                         *)
(*                                                                         *)
(* Nothing is ever closed: neither a greeted login, nor one refused        *)
(* because its address is registered, which is not watched either.  Who    *)
(* is registered is MasterRegistry's business, so any login may be refused *)
(* here.  Each login is written to a log, which takes a descriptor for the *)
(* time of writing: write_Pi_log (common/common.c) uses what fopen         *)
(* returns without a look at it, so the master does not survive a line of  *)
(* its log for which there is no descriptor left.                          *)
(***************************************************************************)
EXTENDS Naturals, Sequences, FiniteSets, SequencesExt

CONSTANTS
  Logins,    \* bound: the connections clients make to the login port
  MaxFd,     \* the descriptors the process has left
  Others,    \* how many of them the other threads may want at once
  MaxEvents  \* the size of a batch (100 in the code)

ASSUME LimitsAssumption ==
  /\ IsFiniteSet(Logins)
  /\ MaxFd \in Nat \ {0} /\ Others \in Nat /\ MaxEvents \in Nat \ {0}

VARIABLES
  backlog,   \* the connections to accept, the first one first
  fds,       \* the descriptors the logins have taken
  interest,  \* what epoll watches of each connection
  batch,     \* the events of the batch that are still to be handled
  readable,  \* the connections whose client has sent something or closed
  up,        \* whether the master runs
  accepted, refused, greeted  \* history

vars == <<backlog, fds, interest, batch, readable, up, accepted, refused, greeted>>

Init ==
  /\ backlog = <<>> /\ fds = 0
  /\ interest = [c \in Logins |-> "nothing"]
  /\ batch = <<>> /\ up = TRUE
  /\ readable = {} /\ accepted = {} /\ refused = {} /\ greeted = [c \in Logins |-> 0]

-----------------------------------------------------------------------------
(* The clients *)

Connect(c) ==
  /\ up /\ c \notin accepted \union refused \union Range(backlog)
  /\ backlog' = Append(backlog, c)
  /\ UNCHANGED <<fds, interest, batch, readable, up, accepted, refused, greeted>>

\* The client closes at once (client.c); it may also have sent something.
SendsOrCloses(c) ==
  /\ up /\ c \in accepted \union refused \union Range(backlog)
  /\ readable' = readable \union {c}
  /\ UNCHANGED <<backlog, fds, interest, batch, up, accepted, refused, greeted>>

-----------------------------------------------------------------------------
(* The master *)

Listener == "sd"

ASSUME ListenerAssumption == Listener \notin Logins

Event(c, what) == [of |-> c, what |-> what]

\* What epoll reports: the listening socket as long as anybody waits, and
\* each connection it watches that is ready. A greeting always fits.
Ready ==
  {Event(Listener, "in") : c \in Range(backlog)}
    \union {Event(c, "in") : c \in {d \in readable : interest[d] = "in"}}
    \union {Event(c, "out") : c \in {d \in Logins : interest[d] = "out"}}

\* The ready events in any order, as many as fit.
EpollWait ==
  /\ up /\ batch = <<>> /\ Ready # {}
  /\ \E S \in SUBSET Ready :
       /\ Cardinality(S) <= MaxEvents
       /\ Cardinality(S) = MaxEvents \/ S = Ready
       /\ batch' \in SetToSeqs(S)
  /\ UNCHANGED <<backlog, fds, interest, readable, up, accepted, refused, greeted>>

Handles(e) == up /\ batch # <<>> /\ Head(batch) = e /\ batch' = Tail(batch)

\* The other threads have between none and Others of the descriptors at any
\* moment; here enough are left for a login and its log whatever they have.
Enough == fds + 1 + Others < MaxFd

\* doLogin, with a descriptor for the login and one for the log, and
\* EPOLL_CTL_ADD of what it returns.
LoginAccepted ==
  /\ Handles(Event(Listener, "in"))
  /\ backlog # <<>> /\ fds + 1 < MaxFd
  /\ backlog' = Tail(backlog)
  /\ fds' = fds + 1
  /\ accepted' = accepted \union {Head(backlog)}
  /\ interest' = [interest EXCEPT ![Head(backlog)] = "in"]
  /\ UNCHANGED <<readable, up, refused, greeted>>

\* findCinfo knows the address.
LoginRefused ==
  /\ Handles(Event(Listener, "in"))
  /\ backlog # <<>> /\ fds + 1 < MaxFd
  /\ backlog' = Tail(backlog)
  /\ fds' = fds + 1
  /\ refused' = refused \union {Head(backlog)}
  /\ UNCHANGED <<interest, readable, up, accepted, greeted>>

\* The other threads have all that is left and accept fails, but one of them
\* gives one back before that is logged; the connection goes on waiting.
LoginFails ==
  /\ Handles(Event(Listener, "in"))
  /\ fds < MaxFd /\ fds + Others >= MaxFd
  /\ UNCHANGED <<backlog, fds, interest, readable, up, accepted, refused, greeted>>

\* There is none for the log, of the login or of accept's error: fopen
\* returns NULL, and the master dies of it.
LoginCrashes ==
  /\ Handles(Event(Listener, "in"))
  /\ ~Enough
  /\ up' = FALSE
  /\ UNCHANGED <<backlog, fds, interest, readable, accepted, refused, greeted>>

\* Another thread finds none for a line of its log.
ThreadCrashes ==
  /\ up /\ fds + Others > MaxFd
  /\ up' = FALSE
  /\ UNCHANGED <<backlog, fds, interest, batch, readable, accepted, refused, greeted>>

\* Mutant: EPOLL_CTL_MOD is forgotten.
HandleInKept(c) ==
  /\ Handles(Event(c, "in"))
  /\ UNCHANGED <<interest, backlog, fds, readable, up, accepted, refused, greeted>>

\* read, and EPOLL_CTL_MOD.
HandleIn(c) ==
  /\ Handles(Event(c, "in"))
  /\ interest' = [interest EXCEPT ![c] = "out"]
  /\ UNCHANGED <<backlog, fds, readable, up, accepted, refused, greeted>>

\* Mutant: EPOLL_CTL_DEL is forgotten.
HandleOutKept(c) ==
  /\ Handles(Event(c, "out"))
  /\ greeted' = [greeted EXCEPT ![c] = @ + 1]
  /\ UNCHANGED <<interest, backlog, fds, readable, up, accepted, refused>>

\* send, and EPOLL_CTL_DEL.
HandleOut(c) ==
  /\ Handles(Event(c, "out"))
  /\ greeted' = [greeted EXCEPT ![c] = @ + 1]
  /\ interest' = [interest EXCEPT ![c] = "nothing"]
  /\ UNCHANGED <<backlog, fds, readable, up, accepted, refused>>

-----------------------------------------------------------------------------
Master ==
  \/ EpollWait \/ LoginAccepted \/ LoginRefused \/ LoginFails \/ LoginCrashes
  \/ \E c \in Logins : HandleIn(c) \/ HandleOut(c)

Next == Master \/ ThreadCrashes \/ \E c \in Logins : Connect(c) \/ SendsOrCloses(c)

Spec == Init /\ [][Next]_vars

\* The main thread runs on, unless the master dies, and gets an event when
\* one is ready; epoll reports the ready connections in turn, so none is left
\* out for ever.
FairSpec ==
  /\ Spec
  /\ WF_vars(Master)
  /\ \A c \in Logins \union {Listener} :
       SF_vars(EpollWait /\ \E i \in DOMAIN batch' : batch'[i].of = c)

-----------------------------------------------------------------------------
(* Correctness *)

\* A batch never holds an event that has become untrue while the events
\* before it were handled: what is reported of a connection is still what
\* is watched of it, once, the connection is an accepted one, and nobody is
\* greeted who has not spoken or closed, or twice. Each descriptor taken is
\* a login's, none ever comes back, and no login gets the last one.
EventsCurrent ==
  /\ \A i \in DOMAIN batch :
       /\ batch[i].of # Listener => /\ interest[batch[i].of] = batch[i].what
                                   /\ batch[i].of \in accepted
       /\ \A j \in DOMAIN batch : batch[j].of = batch[i].of => i = j
  /\ \A c \in Logins :
       /\ greeted[c] = IF interest[c] = "nothing" /\ c \in accepted THEN 1 ELSE 0
       /\ interest[c] = "out" \/ greeted[c] = 1 => c \in readable
  /\ fds = Cardinality(accepted) + Cardinality(refused) /\ fds < MaxFd
  /\ \A c \in Range(backlog) : c \notin accepted \union refused

\* Whoever waits is accepted or refused as long as enough descriptors are
\* left, and whoever was accepted and has spoken is greeted, unless the master
\* dies, even when it is low on descriptors and the listening socket is
\* reported again because accept fails.
LoginAnswered ==
  \A c \in Logins :
    /\ c \in Range(backlog) ~> c \in accepted \union refused \/ ~Enough
    /\ c \in accepted /\ c \in readable ~> greeted[c] = 1 \/ ~up
=============================================================================
