--------------------------- MODULE HeartbeatRound ---------------------------
(***************************************************************************)
(* The sockets of the master's heartbeat (heartBeatNoBlockSelect and       *)
(* connect_to_ip_no_block in V2.0/server): how descriptor numbers, the     *)
(* fd_set and what select reports become verdicts on clients.              *)
(*                                                                         *)
(* In a round, pass 1 starts one non-blocking connection per node and      *)
(* remembers its number in the node (sId); select says which connections   *)
(* have news; pass 2 judges each node by the number it remembers.  Nothing *)
(* resets a number, so a node whose connection could not be started is     *)
(* judged by an old one, or by what malloc left there.                     *)
(*                                                                         *)
(* The lists are one sequence in walking order, and nobody joins during a  *)
(* round: both are what MasterRegistry establishes about myRwlock.  Other  *)
(* threads of the process open and close descriptors at any time.  The     *)
(* master writes each step of a round to a log that is opened anew every   *)
(* time; when no descriptor is left for it, write_Pi_log uses the NULL     *)
(* that fopen returns and the master dies (common/common.c:205, 210).      *)
(***************************************************************************)
EXTENDS Naturals, Sequences, SequencesExt, FiniteSets

CONSTANTS
  Clients,
  Unroutable,  \* clients to which connect may fail at once
  MaxFd,       \* bound: the highest descriptor number of the process
  MaxOthers    \* bound: descriptors the other threads hold at a time

FDs == 0 .. MaxFd
Nowhere == "nowhere"

ASSUME ClientsAssumption == Unroutable \subseteq Clients /\ IsFiniteSet(Clients)
ASSUME FdAssumption == MaxFd \in Nat /\ MaxOthers \in Nat

VARIABLES
  nodes,    \* the registered clients, in the order the passes visit them
  sId,      \* the descriptor number remembered in each client's node
  sock,     \* the connection behind each open descriptor
  others,   \* descriptors the other threads believe are theirs
  silent,   \* the clients nothing is heard from
  pc, i,    \* the heartbeat's phase and position
  fds,      \* its fd_set
  \* What follows is history: no guard reads it.
  asked,    \* clients to which this round started a connection
  answered, \* those of them whose answer select could see
  tainted,  \* some connection could not be started, now or before
  unheard   \* some round's select reported nobody, although somebody was asked

vars == <<nodes, sId, sock, others, silent, pc, i, fds, asked, answered,
          tainted, unheard>>

\* An open descriptor is another thread's, or a connection to a client that
\* is pending, accepted and closed by the client, refused, or never begun.
Probe(c, state) == [to |-> c, state |-> state]
Closed == [to |-> Nowhere, state |-> "closed"]
Foreign == [to |-> Nowhere, state |-> "foreign"]

IsFree(f) == sock[f] = Closed
LowestFree(f) == IsFree(f) /\ \A g \in FDs : IsFree(g) => f <= g
Exhausted == \A f \in FDs : ~IsFree(f)

\* A line of the log can be written, now or when another thread has closed a
\* descriptor; with f taken first, in the second.
CanLog == ~Exhausted \/ others # {}
CanLogBeside(f) == others # {} \/ \E g \in FDs \ {f} : IsFree(g)

Init ==
  /\ nodes = <<>>
  /\ sId = [c \in Clients |-> 0]
  /\ sock = [f \in FDs |-> IF f = 0 THEN Foreign ELSE Closed]
  /\ others = {}
  /\ silent \in SUBSET Clients
  /\ pc = "sleep" /\ i = 1 /\ fds = {}
  /\ asked = {} /\ answered = {} /\ tainted = FALSE /\ unheard = FALSE

-----------------------------------------------------------------------------
(* The surroundings: clients, logins, other threads.  *)

HeartbeatsOwn == UNCHANGED <<pc, i, fds, asked, answered, tainted, unheard>>

FallsSilentOrReturns(c) ==
  /\ silent' = SymDiff(silent, {c})
  /\ UNCHANGED <<nodes, sId, sock, others>> /\ HeartbeatsOwn

\* The network brings the client's reaction to a connection request: its
\* heartbeat port accepts (and closes at once), or nobody listens there.
Reacts(f) ==
  /\ sock[f].state = "pending" /\ sock[f].to \notin silent
  /\ \E state \in {"accepted", "refused"} : sock' = [sock EXCEPT ![f].state = state]
  /\ UNCHANGED <<nodes, sId, others, silent>> /\ HeartbeatsOwn

\* A client logs in.  Its node comes from malloc, with whatever number the
\* memory holds.
Login(c) ==
  /\ pc = "sleep" /\ c \notin silent /\ c \notin Range(nodes)
  /\ nodes' = Append(nodes, c)
  /\ \E f \in FDs : sId' = [sId EXCEPT ![c] = f]
  /\ UNCHANGED <<sock, others, silent>> /\ HeartbeatsOwn

OtherOpens(f) ==
  /\ pc # "down" /\ LowestFree(f) /\ Cardinality(others) < MaxOthers
  /\ others' = others \cup {f}
  /\ sock' = [sock EXCEPT ![f] = Foreign]
  /\ UNCHANGED <<nodes, sId, silent>> /\ HeartbeatsOwn

\* Whatever is behind the number by then is what gets closed.
OtherCloses(f) ==
  /\ f \in others
  /\ others' = others \ {f}
  /\ sock' = [sock EXCEPT ![f] = Closed]
  /\ UNCHANGED <<nodes, sId, silent>> /\ HeartbeatsOwn

-----------------------------------------------------------------------------
(* One round of the heartbeat. *)

World == UNCHANGED <<others, silent>>

\* The round is over; the next one begins with FD_ZERO and i = 0.
Rest == pc' = "sleep" /\ i' = 1 /\ fds' = {} /\ asked' = {} /\ answered' = {}

RoundStarts ==
  /\ pc = "sleep"
  /\ pc' = "probe"
  /\ UNCHANGED <<nodes, sId, sock, i, fds, asked, answered, tainted, unheard>>
  /\ World

Here == nodes[i]
Probing == pc = "probe" /\ i <= Len(nodes)
NextNode == i' = i + 1

\* Mutant: the number is not remembered.
ProbeStartsUnremembered(f) ==
  /\ Probing /\ LowestFree(f) /\ CanLogBeside(f)
  /\ sock' = [sock EXCEPT ![f] = Probe(Here, "pending")]
  /\ fds' = fds \cup {f}
  /\ asked' = asked \cup {Here}
  /\ NextNode
  /\ UNCHANGED <<nodes, sId, pc, answered, tainted, unheard>> /\ World

\* connect reports EINPROGRESS.
ProbeStarts(f) ==
  /\ Probing /\ LowestFree(f) /\ CanLogBeside(f)
  /\ sock' = [sock EXCEPT ![f] = Probe(Here, "pending")]
  /\ sId' = [sId EXCEPT ![Here] = f]
  /\ fds' = fds \cup {f}
  /\ asked' = asked \cup {Here}
  /\ NextNode
  /\ UNCHANGED <<nodes, pc, answered, tainted, unheard>> /\ World

\* connect fails at once: -1 is returned, the socket is not closed and the
\* node keeps its old number.
ProbeFails(f) ==
  /\ Probing /\ Here \in Unroutable /\ LowestFree(f) /\ CanLogBeside(f)
  /\ sock' = [sock EXCEPT ![f] = Probe(Here, "failed")]
  /\ tainted' = TRUE
  /\ NextNode
  /\ UNCHANGED <<nodes, sId, pc, fds, asked, answered, unheard>> /\ World

\* No descriptor is left for socket(), but one is for the log: another thread
\* has closed it in between.
ProbeExhausted ==
  /\ Probing /\ Exhausted /\ CanLog
  /\ tainted' = TRUE
  /\ NextNode
  /\ UNCHANGED <<nodes, sId, sock, pc, fds, asked, answered, unheard>> /\ World

ProbesDone ==
  /\ pc = "probe" /\ i > Len(nodes)
  /\ pc' = "select" /\ i' = 1
  /\ UNCHANGED <<nodes, sId, sock, fds, asked, answered, tainted, unheard>>
  /\ World

\* A connection is readable once the client has closed it or refused it, and
\* when it was never begun; what another thread has there may be.
MustReport == {f \in fds : sock[f].state \in {"accepted", "refused", "failed"}}
MayReport  == MustReport \cup {f \in fds : sock[f].state = "foreign"}
Broken == \E f \in fds : IsFree(f)

SelectReports ==
  /\ pc = "select" /\ CanLog /\ ~Broken
  /\ \E ready \in SUBSET MayReport \ {{}} :
       /\ MustReport \subseteq ready
       /\ fds' = ready
  /\ answered' = {c \in asked : sock[sId[c]] = Probe(c, "accepted")}
  /\ pc' = "judge"
  /\ UNCHANGED <<nodes, sId, sock, i, asked, tainted, unheard>> /\ World

\* A number that is no longer open makes select return -1 and leave the set
\* as it is; that is not 0, so pass 2 goes ahead with every number set.
SelectFails ==
  /\ pc = "select" /\ CanLog /\ Broken
  /\ answered' = {c \in asked : sock[sId[c]] = Probe(c, "accepted")}
  /\ pc' = "judge"
  /\ UNCHANGED <<nodes, sId, sock, i, fds, asked, tainted, unheard>> /\ World

\* ret == 0: pass 2 is skipped, and with it every close.
SelectTimesOut ==
  /\ pc = "select" /\ CanLog /\ ~Broken /\ MustReport = {}
  /\ unheard' = (unheard \/ asked # {})
  /\ Rest
  /\ UNCHANGED <<nodes, sId, sock, tainted>> /\ World

Judging == pc = "judge" /\ i <= Len(nodes)
\* Each verdict is logged before the socket is closed.
Judges == Judging /\ CanLog
InSet == sId[Here] \in fds

\* Mutant: a refused connection counts as a success.
ErrnoIgnored(f) == TRUE

\* What getsockopt leaves in errno: SO_ERROR, or its own error when the
\* number is closed or, for another thread's, no socket.
ErrnoMayBeZero(f) == sock[f].state \in {"accepted", "pending", "failed", "foreign"}
ErrnoMayBeSet(f)  == sock[f].state \in {"refused", "closed", "foreign"}

\* Mutant: the judged socket stays open.
CloseForgotten == UNCHANGED sock

CloseRemembered == sock' = [sock EXCEPT ![sId[Here]] = Closed]

Remains == /\ NextNode /\ UNCHANGED nodes
\* Mutant: the walk moves on past the node that follows the removed one.
RemovedSkipping == nodes' = RemoveAt(nodes, i) /\ NextNode

Removed == /\ nodes' = RemoveAt(nodes, i) /\ UNCHANGED i

Verdict == UNCHANGED <<sId, pc, fds, asked, answered, tainted, unheard>> /\ World

StillThere ==
  /\ Judges /\ InSet /\ ErrnoMayBeZero(sId[Here])
  /\ Remains /\ CloseRemembered /\ Verdict

ErrorDrop ==
  /\ Judges /\ InSet /\ ErrnoMayBeSet(sId[Here])
  /\ Removed /\ CloseRemembered /\ Verdict

\* Mutant: a timeout does not remove the node.
TimeoutForgiven ==
  /\ Judges /\ ~InSet
  /\ Remains /\ CloseRemembered /\ Verdict

TimeoutDrop ==
  /\ Judges /\ ~InSet
  /\ Removed /\ CloseRemembered /\ Verdict

RoundEnds ==
  /\ pc = "judge" /\ i > Len(nodes)
  /\ Rest
  /\ UNCHANGED <<nodes, sId, sock, tainted, unheard>> /\ World

\* The socket of the connection is the last descriptor there is, or none is
\* left for whichever thread has something to log.  With the process go its
\* sockets and its memory.
MasterFalls ==
  /\ pc # "down"
  /\ \/ Exhausted
     \/ Probing /\ \A f, g \in FDs : IsFree(f) /\ IsFree(g) => f = g
  /\ pc' = "down"
  /\ sock' = [f \in FDs |-> Closed] /\ others' = {}
  /\ nodes' = <<>> /\ sId' = [c \in Clients |-> 0] /\ i' = 1
  /\ fds' = {} /\ asked' = {} /\ answered' = {}
  /\ UNCHANGED <<silent, tainted, unheard>>

-----------------------------------------------------------------------------
Heartbeat ==
  \/ RoundStarts \/ ProbeExhausted \/ ProbesDone
  \/ \E f \in FDs : ProbeStarts(f) \/ ProbeFails(f)
  \/ SelectReports \/ SelectFails \/ SelectTimesOut
  \/ StillThere \/ ErrorDrop \/ TimeoutDrop \/ RoundEnds \/ MasterFalls

Environment ==
  \/ \E c \in Clients : FallsSilentOrReturns(c) \/ Login(c)
  \/ \E f \in FDs : Reacts(f) \/ OtherOpens(f) \/ OtherCloses(f)

Next == Heartbeat \/ Environment

Spec == Init /\ [][Next]_vars

\* The heartbeat's loop runs on while the master lives, and the network
\* delivers what a client answers, some time.
FairSpec == Spec /\ WF_vars(Heartbeat) /\ \A f \in FDs : WF_vars(Reacts(f))

-----------------------------------------------------------------------------
(* Correctness *)

\* Every variable holds a value of its type.
TypeOK ==
  /\ nodes \in Seq(Clients)
  /\ sId \in [Clients -> FDs]
  /\ sock \in [FDs -> [to : Clients, state : {"pending", "accepted", "refused",
                                              "failed"}]
                      \cup {Closed, Foreign}]
  /\ others \subseteq FDs
  /\ silent \subseteq Clients
  /\ pc \in {"sleep", "probe", "select", "judge", "down"}
  /\ i \in 1 .. Len(nodes) + 1
  /\ fds \subseteq FDs
  /\ asked \subseteq Clients /\ answered \subseteq asked
  /\ tainted \in BOOLEAN /\ unheard \in BOOLEAN

\* As long as every connection could be started, a client stays exactly if
\* select saw it answer: a verdict never follows another client's socket.
VerdictTruthful ==
  [][~tainted => /\ StillThere => Here \in answered
                 /\ ErrorDrop \/ TimeoutDrop => Here \notin answered]_vars

\* As long as every connection could be started, the heartbeat closes no
\* descriptor but the one this round opened for the node it judges.
ClosesItsOwn ==
  [][~tainted /\ Judging /\ Heartbeat =>
       Here \in asked /\ sock[sId[Here]].to = Here]_vars

\* Unless a connection could not be started or a round heard nobody, no
\* socket of a round outlives it.
SocketsReturned ==
  pc = "sleep" /\ ~tainted /\ ~unheard =>
    \A f \in FDs : sock[f] \in {Closed, Foreign}

\* A client that stays silent is removed if rounds keep hearing from anybody.
SilentRemovedWhileHeard ==
  \A c \in Clients :
    (<>[](c \in silent) /\ []<>(pc = "judge") /\ []~tainted)
      => <>[](c \notin Range(nodes))

-----------------------------------------------------------------------------
(* What a reader of the sources expects and the code does not keep.        *)

\* What the log lines server.c:149-150 say when a node is deleted: its
\* connection timed out.
TimeoutMeansAsked == [][TimeoutDrop => Here \in asked]_vars

\* What the log lines server.c:149-150 say happens to a client whose
\* connection times out: it is deleted.
SilentRemoved ==
  \A c \in Clients : <>[](c \in silent) => <>[](c \notin Range(nodes))
=============================================================================
