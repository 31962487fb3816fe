----------------------------- MODULE UserTable -----------------------------
(***************************************************************************)
(* The table of users of the first version (hash/hash.cpp) and the two     *)
(* threads that use it: main (Server.cpp) accepts users and adds them, and *)
(* clock_get (rwt/rwt.cpp) walks the table every five seconds, connects to *)
(* the machine of each user and deletes those it cannot reach.             *)
(*                                                                         *)
(* Adding, deleting and printing are done inside Writer and Reader, of     *)
(* which only what they promise is used here (RWLock).  The walk of        *)
(* clock_get is outside: main may link a user while it is under way, and   *)
(* the walk goes on from the next field of the node it has had deleted.    *)
(* free leaves that field in place and malloc may hand the node to main.   *)
(*                                                                         *)
(* main never closes the descriptor of a user, so the process runs out of  *)
(* them; then no machine can be reached any more.  The workers of the      *)
(* thread pool do not touch the table.  That the pool ends the process,    *)
(* some time after it was handed a user, is in ThreadPool: the table is    *)
(* modelled here as it is kept until then.                                 *)
(***************************************************************************)
EXTENDS Naturals, FiniteSets

CONSTANTS
  IPs,     \* the addresses of the users' machines
  Ports,   \* the ports their connections come from
  MAXN,    \* the number of buckets (100 in the code)
  MaxNode, \* bound: the heap's chunks of the size of a Work
  MaxFd    \* bound: the descriptors left to the process

ASSUME BucketsAssumption == MAXN \in Nat \ {0} /\ IPs \subseteq Nat \ {0}
ASSUME BoundsAssumption == MaxNode \in Nat /\ MaxFd \in Nat

VARIABLES
  tail, len, \* the Hash: a list per bucket, new users in front
  next, arg, \* fields of the nodes; arg is the user's address and port
  used,      \* the nodes that are allocated
  phase,     \* what main and clock hold of the lock
  main,      \* main's place and the node in its hands
  clock,     \* clock_get's place, bucket, p, and the old and p of del
  printed,   \* the number getout printed in front of its list
  fds,       \* descriptors taken for good
  listening  \* the machines whose User process answers

table == <<tail, len, next>>
vars == <<table, arg, used, phase, main, clock, printed, fds, listening>>

Lock == INSTANCE RWLock WITH Readers <- {"clock"}, Writers <- {"main", "clock"}

NULL == 0
Nodes == 1 .. MaxNode
Pointers == Nodes \union {NULL}
Fresh == [ip |-> 0, port |-> 0]
Buckets == 0 .. MAXN - 1

\* The string hash of the address, as any function of it into the buckets.
Bucket(n) == arg[n].ip % MAXN

Init ==
  /\ tail = [b \in Buckets |-> NULL] /\ len = 0
  /\ next = [n \in Nodes |-> NULL]
  /\ arg = [n \in Nodes |-> Fresh]
  /\ used = {}
  /\ Lock!Init
  /\ main = [pc |-> "malloc", work |-> NULL]
  /\ clock = [pc |-> "bucket", i |-> 0, p |-> NULL, old |-> NULL, hit |-> NULL]
  /\ printed = 0 /\ fds = 0
  /\ listening = {}

\* A user's machine may open its port before or after it has joined.
UserListens(ip) ==
  /\ listening' = listening \union {ip}
  /\ UNCHANGED <<table, arg, used, phase, main, clock, printed, fds>>

\* It quits and kills the process that listens, or is interrupted.
UserEnds(ip) ==
  /\ listening' = listening \ {ip}
  /\ UNCHANGED <<table, arg, used, phase, main, clock, printed, fds>>

-----------------------------------------------------------------------------
(* main *)

MainAt(from, to) == main.pc = from /\ main' = [main EXCEPT !.pc = to]
MainOnly == UNCHANGED <<clock, printed, listening>>

\* A node that was freed, or the next one the heap has never handed out.
Malloc(n) ==
  /\ main = [pc |-> "malloc", work |-> NULL]
  /\ n \notin used /\ \A m \in 1 .. n - 1 : arg[m] # Fresh
  /\ used' = used \union {n}
  /\ main' = [pc |-> "accept", work |-> n]
  /\ UNCHANGED <<table, arg, phase, fds>> /\ MainOnly

Accept(ip, port) ==
  /\ MainAt("accept", "call")
  /\ fds < MaxFd /\ fds' = fds + 1
  /\ arg' = [arg EXCEPT ![main.work] = [ip |-> ip, port |-> port]]
  /\ next' = [next EXCEPT ![main.work] = NULL]
  /\ UNCHANGED <<tail, len, used, phase>> /\ MainOnly

\* Without a descriptor accept fails; main goes round and loses the node.
AcceptFails ==
  /\ main.pc = "accept" /\ fds = MaxFd
  /\ main' = [pc |-> "malloc", work |-> NULL]
  /\ UNCHANGED <<table, arg, used, phase, fds>> /\ MainOnly

MainCalls ==
  /\ MainAt("call", "enter") /\ Lock!Announce("main")
  /\ UNCHANGED <<table, arg, used, fds>> /\ MainOnly

MainEnters ==
  /\ MainAt("enter", "add") /\ Lock!Write("main")
  /\ UNCHANGED <<table, arg, used, fds>> /\ MainOnly

AddNext ==
  /\ MainAt("add", "link")
  /\ next' = [next EXCEPT ![main.work] = tail[Bucket(main.work)]]
  /\ UNCHANGED <<tail, len, arg, used, phase, fds>> /\ MainOnly

AddLink ==
  /\ MainAt("link", "leave")
  /\ tail' = [tail EXCEPT ![Bucket(main.work)] = main.work]
  /\ len' = len + 1
  /\ UNCHANGED <<next, arg, used, phase, fds>> /\ MainOnly

\* The work is handed to the pool, and main goes round.
MainLeaves ==
  /\ main.pc = "leave" /\ Lock!Leave("main")
  /\ main' = [pc |-> "malloc", work |-> NULL]
  /\ UNCHANGED <<table, arg, used, fds>> /\ MainOnly

-----------------------------------------------------------------------------
(* clock_get *)

ClockAt(from, to) == clock.pc = from /\ clock' = [clock EXCEPT !.pc = to]
ClockOnly == UNCHANGED <<arg, main, fds, listening>>

\* p is the next node of this bucket, or there is none left.
Moved(p) ==
  clock' = IF p = NULL
           THEN [clock EXCEPT !.pc = "bucket", !.i = @ + 1, !.p = NULL]
           ELSE [clock EXCEPT !.pc = "probe", !.p = p]

Enter ==
  /\ clock.pc = "bucket" /\ clock.i < MAXN
  /\ Moved(tail[clock.i])
  /\ UNCHANGED <<table, used, phase, printed>> /\ ClockOnly

\* Mutant: only the descriptor counts.
ReachedAnyway == fds < MaxFd

\* User_creat: a descriptor, and a connection to the listener.
Reached == arg[clock.p].ip \in listening /\ fds < MaxFd

ProbeAnswered ==
  /\ ClockAt("probe", "next") /\ Reached
  /\ UNCHANGED <<table, used, phase, printed>> /\ ClockOnly

ProbeFails ==
  /\ ClockAt("probe", "enter") /\ ~Reached
  /\ Lock!Announce("clock")
  /\ UNCHANGED <<table, used, printed>> /\ ClockOnly

\* Mutant: del is called without waiting for the lock.
ClockEntersAnyway ==
  /\ clock.pc = "enter"
  /\ clock' = [clock EXCEPT !.pc = "find", !.old = NULL, !.hit = tail[Bucket(clock.p)]]
  /\ Lock!Turns("clock", "announced", "writes")
  /\ UNCHANGED <<table, used, printed>> /\ ClockOnly

ClockEnters ==
  /\ clock.pc = "enter"
  /\ clock' = [clock EXCEPT !.pc = "find", !.old = NULL, !.hit = tail[Bucket(clock.p)]]
  /\ Lock!Write("clock")
  /\ UNCHANGED <<table, used, printed>> /\ ClockOnly

\* Mutant: any user of the bucket will do.
MatchesAny(n) == TRUE

\* del compares two results of inet_ntoa, which are one static buffer: the
\* addresses always look equal, and only the ports decide.
Matches(n) == arg[n].port = arg[clock.p].port

FindNext ==
  /\ clock.pc = "find" /\ ~Matches(clock.hit)
  /\ clock' = [clock EXCEPT !.old = clock.hit, !.hit = next[clock.hit]]
  /\ UNCHANGED <<table, used, phase, printed>> /\ ClockOnly

\* Mutant: the list is cut behind the node's predecessor.
UnlinkCuts ==
  /\ ClockAt("find", "leave") /\ Matches(clock.hit)
  /\ IF clock.old = NULL
     THEN tail' = [tail EXCEPT ![Bucket(clock.p)] = next[clock.hit]] /\ UNCHANGED next
     ELSE next' = [next EXCEPT ![clock.old] = NULL] /\ UNCHANGED tail
  /\ used' = used \ {clock.hit}
  /\ len' = len - 1
  /\ UNCHANGED <<phase, printed>> /\ ClockOnly

Unlink ==
  /\ ClockAt("find", "leave") /\ Matches(clock.hit)
  /\ IF clock.old = NULL
     THEN tail' = [tail EXCEPT ![Bucket(clock.p)] = next[clock.hit]] /\ UNCHANGED next
     ELSE next' = [next EXCEPT ![clock.old] = next[clock.hit]] /\ UNCHANGED tail
  /\ used' = used \ {clock.hit}
  /\ len' = len - 1
  /\ UNCHANGED <<phase, printed>> /\ ClockOnly

ClockLeaves ==
  /\ ClockAt("leave", "next") /\ Lock!Leave("clock")
  /\ UNCHANGED <<table, used, printed>> /\ ClockOnly

\* p->next, although p may just have been freed.
Advance ==
  /\ clock.pc = "next"
  /\ Moved(next[clock.p])
  /\ UNCHANGED <<table, used, phase, printed>> /\ ClockOnly

ReaderEnters ==
  /\ clock.pc = "bucket" /\ clock.i = MAXN
  /\ clock' = [clock EXCEPT !.pc = "count"]
  /\ Lock!Read("clock")
  /\ UNCHANGED <<table, used, printed>> /\ ClockOnly

\* getout prints len first.
GetoutCounts ==
  /\ ClockAt("count", "list")
  /\ printed' = len
  /\ UNCHANGED <<table, used, phase>> /\ ClockOnly

ReaderLeaves ==
  /\ clock.pc = "list"
  /\ clock' = [clock EXCEPT !.pc = "bucket", !.i = 0]
  /\ Lock!Leave("clock")
  /\ printed' = 0
  /\ UNCHANGED <<table, used>> /\ ClockOnly

-----------------------------------------------------------------------------
Main ==
  \/ \E n \in Nodes : Malloc(n)
  \/ AcceptFails \/ MainCalls \/ MainEnters \/ AddNext \/ AddLink \/ MainLeaves

Clock ==
  \/ Enter \/ ProbeAnswered \/ ProbeFails \/ ClockEnters \/ FindNext \/ Unlink
  \/ ClockLeaves \/ Advance \/ ReaderEnters \/ GetoutCounts \/ ReaderLeaves

Next ==
  \/ Main \/ Clock
  \/ \E ip \in IPs, port \in Ports : Accept(ip, port)
  \/ \E ip \in IPs : UserListens(ip) \/ UserEnds(ip)

Spec == Init /\ [][Next]_vars

\* Both threads run on, and Writer and Reader let each of them in some time
\* (ReadersWriters); nobody has to join.
FairSpec == Spec /\ WF_vars(Main) /\ SF_vars(Clock)

-----------------------------------------------------------------------------
(* Correctness *)

\* The nodes that a walk from pointer t along the fields nx comes to: the
\* least set that holds t, and with a node the one behind it.
ClosedUnder(nx, A) == \A n \in A : nx[n] \in A \union {NULL}
Reachable(t, nx) ==
  {n \in Nodes : \A A \in SUBSET Nodes :
                    t \in A \union {NULL} /\ ClosedUnder(nx, A) => n \in A}

\* The nodes of a bucket.
Chain(b) == Reachable(tail[b], next)
Listed == UNION {Chain(b) : b \in Buckets}

Ended(b) == Chain(b) # {} => \E n \in Chain(b) : next[n] = NULL

\* Every variable holds a value of its type, and the lists are lists: each
\* ends, is made of allocated nodes of its own bucket, and len counts them,
\* although the walk of clock_get takes no lock and goes on from freed nodes.
TableSound ==
  /\ used \subseteq Nodes /\ fds \in 0 .. MaxFd /\ listening \subseteq IPs
  /\ Listed \subseteq used
  /\ \A b \in Buckets : Ended(b) /\ \A n \in Chain(b) : Bucket(n) = b
  /\ len = Cardinality(Listed)

\* What clock_get reads is sound: the walk never connects to the address of
\* a freed node; del, called with the node that did not answer, never runs
\* off the end of the list; and getout prints one state of the table, the
\* number, then that many users.
WalkSound ==
  /\ clock.pc \in {"probe", "enter", "find"} => clock.p \in Listed
  /\ clock.pc = "find" => clock.hit \in Chain(Bucket(clock.p))
  /\ clock.pc = "list" => printed = Cardinality(Listed)

Clash(m, n) == m # n /\ Bucket(m) = Bucket(n) /\ arg[m].port = arg[n].port

\* The user that del removes is the one that could not be reached, unless
\* two users of the bucket have the same port (hash.cpp:47, 59).
RemovesProbed ==
  [][\A n \in Listed : n \notin Listed' =>
        n = clock.p \/ \E m \in Listed : Clash(m, n)]_vars

\* A user whose machine is gone for good leaves the table, even if the walk
\* that found it removed another user, or went astray behind a freed node.
GoneRemoved ==
  \A ip \in IPs :
    <>[](ip \notin listening) => <>[](\A n \in Listed : arg[n].ip # ip)
=============================================================================
