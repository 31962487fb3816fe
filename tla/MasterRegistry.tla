--------------------------- MODULE MasterRegistry ---------------------------
(***************************************************************************)
(* The master's registry of clients (V2.0/server): INS singly linked lists *)
(* of clientInfo nodes and the threads that touch them.                    *)
(*                                                                         *)
(*  - main accepts a login, scans every list for the address (findCinfo)   *)
(*    and either refuses it or spawns an acceptor for the new node;        *)
(*  - an acceptor (serverAccept) links its node at the tail of a shortest  *)
(*    list, holding myRwlock;                                              *)
(*  - the heartbeat walks the lists twice per round, holding myRwlock, and *)
(*    unlinks and frees the nodes whose verdict is bad;                    *)
(*  - one worker per list walks it with no lock that anybody writes under, *)
(*    and talks to each client for as long as that takes.                  *)
(*                                                                         *)
(* A thread's loop is cut where another thread can come in between: at     *)
(* each read of p->next and each wait.  A pointer is a list (standing for  *)
(* its sentinel head node), a cell of the heap or NULL.                    *)
(*                                                                         *)
(* The per-list and per-registry rwlocks of the code are absent: the only  *)
(* write lock ever taken on a per-list one is addCinfo's, whose callers    *)
(* already exclude each other, and nobody write-locks the registry's, so   *)
(* neither ever makes a thread wait for a walk to finish.                  *)
(***************************************************************************)
EXTENDS Naturals, Sequences, FiniteSets, SequencesExt

CONSTANTS
  INS,        \* number of lists and of workers
  From, To,   \* the configured addresses, enrolled at start
  Addrs,      \* addresses that log in
  Cells,      \* heap cells a clientInfo can be allocated in
  NULL,
  NoAddr,     \* what a freed node's address reads as
  Heartbeat,  \* the heartbeat thread, as an owner of the lock
  Nobody,     \* the lock is free
  Working,    \* the lists whose worker runs
  MaxLogins   \* bound: logins accepted in a behaviour

Queues == 0 .. INS-1
Ptrs   == Queues \cup Cells

ASSUME INSAssumption     == INS \in Nat \ {0}
ASSUME AddrAssumption    == From \in Nat /\ To \in Nat /\ From <= To
                              /\ NoAddr \notin Addrs \cup (From .. To)
ASSUME CellsAssumption   == /\ Cells \cap Queues = {}
                            /\ NULL \notin Ptrs
                            /\ {Heartbeat, Nobody} \cap Cells = {}
                            /\ Heartbeat # Nobody
ASSUME BoundsAssumption  == Working \subseteq Queues /\ MaxLogins \in Nat

VARIABLES
  next,      \* the next field of every sentinel and cell, kept after free
  len,       \* qheads.len
  addr,      \* saddr_client of every cell
  heap,      \* cells malloc has handed out and nobody has freed
  myRwlock,  \* who holds the write lock
  main,      \* the main thread: its loop or findCinfo's i and p, the new node
  acceptor,  \* the acceptor of each cell: its state, list and walk pointer
  hb,        \* the heartbeat: its state, list, walk pointer, nodes still due
  worker,    \* each list's worker: its state and walk pointer
  crashed,   \* a NULL or dangling pointer was followed: the process is gone
  logins,    \* logins accepted so far, bounded by MaxLogins
  \* What follows is history: no guard reads it.
  list,      \* the cells each list should hold, in order
  refused,   \* cells of refused logins, which nothing frees
  shaken     \* lists whose worker lost its footing since it woke up

code == <<next, len, addr, heap, myRwlock, main, acceptor, hb, worker,
          crashed, logins>>
vars == <<code, list, refused, shaken>>

-----------------------------------------------------------------------------
(* Pointers, lists and the lock *)

\* The node at position i of list q, the sentinel being position 0.
At(q, i) == IF i = 0 THEN q ELSE list[q][i]

Listed == UNION {Range(list[q]) : q \in Queues}

\* A cell somebody may still point to although it was freed.
Dangling(p) == p \in Cells \ heap

Without(s, c) ==
  IF c \in Range(s) THEN RemoveAt(s, CHOOSE i \in DOMAIN s : s[i] = c) ELSE s

\* Mutant: the lock keeps nobody out.
MayLockAnyway == TRUE

MayLock == myRwlock = Nobody

\* judgeINS returns q: a later list must be strictly shorter to be preferred,
\* so the result is the first of the shortest lists.
JudgeINS(q) == /\ \A k \in Queues : len[q] <= len[k]
               /\ \A k \in Queues : k < q => len[q] < len[k]

NoLists  == [q \in Queues |-> <<>>]
NoThread == [pc |-> "none", index |-> 0, p |-> NULL]
-----------------------------------------------------------------------------
Init ==
  /\ next = [r \in Ptrs |-> NULL]
  /\ len = [q \in Queues |-> 0]
  /\ addr = [c \in Cells |-> NoAddr]
  /\ heap = {}
  /\ myRwlock = Nobody
  /\ main = [pc |-> "boot", i |-> From, p |-> NULL, node |-> NULL,
             before |-> NoLists]
  /\ acceptor = [c \in Cells |-> NoThread]
  /\ hb = [pc |-> "sleep", i |-> 0, p |-> NULL, due |-> {}]
  /\ worker = [q \in Queues |-> [pc |-> "sleep", p |-> NULL]]
  /\ crashed = FALSE
  /\ logins = 0
  /\ list = NoLists
  /\ refused = {}
  /\ shaken = {}

\* malloc gives any cell that is not in use, also one whose former address
\* somebody still holds.
Malloc(c, a) ==
  /\ c \in Cells \ heap
  /\ heap' = heap \cup {c}
  /\ addr' = [addr EXCEPT ![c] = a]

\* Mutant: the link of the new node is not reset.
LinkAfterUncleared(q, p, c) ==
  /\ next' = [next EXCEPT ![p] = c]
  /\ len' = [len EXCEPT ![q] = @ + 1]
  /\ list' = [list EXCEPT ![q] = Append(@, c)]

\* node->next = NULL; p->next = node; s->len++
LinkAfter(q, p, c) ==
  /\ next' = [next EXCEPT ![c] = NULL, ![p] = c]
  /\ len' = [len EXCEPT ![q] = @ + 1]
  /\ list' = [list EXCEPT ![q] = Append(@, c)]

Running == main.pc # "boot" /\ ~crashed

-----------------------------------------------------------------------------
(* Start: one thread only, so addCinfo's walk and its link are one step. *)

ConfiguredQueue(a) == a % INS

BootAdd(c) ==
  /\ main.pc = "boot" /\ main.i <= To
  /\ Malloc(c, main.i)
  /\ LET q == ConfiguredQueue(main.i) IN LinkAfter(q, At(q, Len(list[q])), c)
  /\ main' = [main EXCEPT !.i = @ + 1]
  /\ UNCHANGED <<myRwlock, acceptor, hb, worker, crashed, logins, refused,
                 shaken>>

BootDone ==
  /\ main.pc = "boot" /\ main.i > To
  /\ main' = [main EXCEPT !.pc = "epoll", !.i = 0]
  /\ UNCHANGED <<next, len, addr, heap, myRwlock, acceptor, hb, worker, crashed,
                 logins, list, refused, shaken>>

-----------------------------------------------------------------------------
(* The main thread: doLogin and the findCinfo it calls. *)

\* doLogin up to the scan.  main.before is history: the lists as they are when
\* the scan starts.
LoginAccept(a, c) ==
  /\ Running /\ main.pc = "epoll"
  /\ logins < MaxLogins
  /\ logins' = logins + 1
  /\ Malloc(c, a)
  /\ main' = [pc |-> "test", i |-> 0, p |-> 0, node |-> c,
              before |-> list]
  /\ UNCHANGED <<next, len, myRwlock, acceptor, hb, worker, crashed, list,
                 refused, shaken>>

MainOnly == UNCHANGED <<next, len, addr, heap, myRwlock, hb, worker, crashed,
                        logins, list, shaken>>

BackToEpoll == main' = [main EXCEPT !.pc = "epoll", !.i = 0, !.p = NULL,
                                    !.node = NULL, !.before = NoLists]

\* while(p -> next != NULL): there is a node to look at.
FindTest ==
  /\ Running /\ main.pc = "test"
  /\ main.p # NULL /\ next[main.p] # NULL
  /\ main' = [main EXCEPT !.pc = "compare"]
  /\ MainOnly /\ UNCHANGED <<acceptor, refused>>

\* Mutants: one list too many is visited, and the list counter stands still.
FindNextListBeyond ==
  /\ Running /\ main.pc = "test"
  /\ main.p # NULL /\ next[main.p] = NULL
  /\ main.i + 1 <= INS
  /\ main' = [main EXCEPT !.i = @ + 1, !.p = main.i + 1]
  /\ MainOnly /\ UNCHANGED <<acceptor, refused>>
FindNextListUncounted ==
  /\ Running /\ main.pc = "test"
  /\ main.p # NULL /\ next[main.p] = NULL
  /\ main.i + 1 < INS
  /\ main' = [main EXCEPT !.p = main.i + 1]
  /\ MainOnly /\ UNCHANGED <<acceptor, refused>>

\* The end of one list and the head of the next.
FindNextList ==
  /\ Running /\ main.pc = "test"
  /\ main.p # NULL /\ next[main.p] = NULL
  /\ main.i + 1 < INS
  /\ main' = [main EXCEPT !.i = @ + 1, !.p = main.i + 1]
  /\ MainOnly /\ UNCHANGED <<acceptor, refused>>

\* Mutant: the scan stops one list early.
LoginSpawnEarly ==
  /\ Running /\ main.pc = "test"
  /\ main.p # NULL /\ next[main.p] = NULL
  /\ main.i + 2 >= INS
  /\ acceptor' = [acceptor EXCEPT ![main.node].pc = "lock"]
  /\ BackToEpoll
  /\ MainOnly /\ UNCHANGED refused

\* The end of the last list: not found, so an acceptor is created.
LoginSpawn ==
  /\ Running /\ main.pc = "test"
  /\ main.p # NULL /\ next[main.p] = NULL
  /\ main.i + 1 >= INS
  /\ acceptor' = [acceptor EXCEPT ![main.node].pc = "lock"]
  /\ BackToEpoll
  /\ MainOnly /\ UNCHANGED refused

\* Mutant: only part of the address is compared.
SameAddressPart(c, d) ==
  addr[c] # NoAddr /\ addr[d] # NoAddr /\ addr[c] % 2 = addr[d] % 2

SameAddress(c, d) == addr[c] = addr[d]

\* strcmp equal: doLogin reports it and returns, leaving its node allocated.
LoginRefused ==
  /\ Running /\ main.pc = "compare"
  /\ next[main.p] # NULL /\ SameAddress(next[main.p], main.node)
  /\ refused' = refused \cup {main.node}
  /\ BackToEpoll
  /\ MainOnly /\ UNCHANGED acceptor

FindDiffers ==
  /\ Running /\ main.pc = "compare"
  /\ next[main.p] # NULL /\ ~SameAddress(next[main.p], main.node)
  /\ main' = [main EXCEPT !.pc = "advance"]
  /\ MainOnly /\ UNCHANGED <<acceptor, refused>>

\* p = p->next, a third read of the field: it may be NULL by now.
FindAdvance ==
  /\ Running /\ main.pc = "advance"
  /\ main' = [main EXCEPT !.pc = "test", !.p = next[main.p]]
  /\ MainOnly /\ UNCHANGED <<acceptor, refused>>

Crash == /\ crashed' = TRUE
         /\ UNCHANGED <<next, len, addr, heap, myRwlock, main, acceptor, hb,
                        worker, logins, list, refused, shaken>>

\* Following NULL is a fault; following a freed node's next may be one.
FindFault ==
  /\ Running /\ main.pc \in {"test", "compare", "advance"}
  /\ \/ main.p = NULL
     \/ Dangling(main.p)
     \/ main.pc = "compare" /\ next[main.p] = NULL
  /\ Crash

-----------------------------------------------------------------------------
(* The acceptor of cell c: serverAccept and the addCinfo it calls. *)

AcceptorOnly == UNCHANGED <<addr, heap, main, hb, worker, crashed, logins,
                            refused, shaken>>

AcceptLock(c) ==
  /\ Running /\ acceptor[c].pc = "lock" /\ MayLock
  /\ myRwlock' = c
  /\ \E q \in Queues :
       /\ JudgeINS(q)
       /\ acceptor' = [acceptor EXCEPT ![c] = [pc |-> "walk", index |-> q,
                                               p |-> q]]
  /\ UNCHANGED <<next, len, list>> /\ AcceptorOnly

\* Mutant: the walk never leaves the sentinel.
AcceptWalkStanding(c) ==
  /\ Running /\ acceptor[c].pc = "walk" /\ next[acceptor[c].p] # NULL
  /\ acceptor' = [acceptor EXCEPT ![c].p = acceptor[c].index]
  /\ UNCHANGED <<next, len, list, myRwlock>> /\ AcceptorOnly

AcceptWalk(c) ==
  /\ Running /\ acceptor[c].pc = "walk" /\ next[acceptor[c].p] # NULL
  /\ acceptor' = [acceptor EXCEPT ![c].p = next[@]]
  /\ UNCHANGED <<next, len, list, myRwlock>> /\ AcceptorOnly

AcceptEnd(c) ==
  /\ Running /\ acceptor[c].pc = "walk" /\ next[acceptor[c].p] = NULL
  /\ acceptor' = [acceptor EXCEPT ![c].pc = "link"]
  /\ UNCHANGED <<next, len, list, myRwlock>> /\ AcceptorOnly

AcceptLink(c) ==
  /\ Running /\ acceptor[c].pc = "link"
  /\ LinkAfter(acceptor[c].index, acceptor[c].p, c)
  /\ acceptor' = [acceptor EXCEPT ![c].pc = "unlock"]
  /\ UNCHANGED myRwlock /\ AcceptorOnly

AcceptUnlock(c) ==
  /\ Running /\ acceptor[c].pc = "unlock"
  /\ myRwlock' = Nobody
  /\ acceptor' = [acceptor EXCEPT ![c] = NoThread]
  /\ UNCHANGED <<next, len, list>> /\ AcceptorOnly

-----------------------------------------------------------------------------
(* The heartbeat. *)

HeartbeatOnly == UNCHANGED <<main, acceptor, worker, crashed, logins, refused,
                             shaken>>
Unlinking     == UNCHANGED <<myRwlock, main, acceptor, worker, crashed, logins,
                             refused>>

HbLock ==
  /\ Running /\ hb.pc = "sleep" /\ MayLock
  /\ myRwlock' = Heartbeat
  /\ hb' = [pc |-> "probe", i |-> 0, p |-> 0, due |-> {}]
  /\ UNCHANGED <<next, len, addr, heap, list>> /\ HeartbeatOnly

\* Pass 1 visits the node after p and starts a connection to it; a node to
\* which none can be started gets its verdict in pass 2 all the same.
HbProbe ==
  /\ Running /\ hb.pc = "probe" /\ next[hb.p] # NULL
  /\ hb' = [hb EXCEPT !.p = next[@], !.due = @ \cup {next[hb.p]}]
  /\ UNCHANGED <<next, len, addr, heap, list, myRwlock>> /\ HeartbeatOnly

\* Mutant: the last list is left out.
HbListEndEarly(phase, following) ==
  /\ Running /\ hb.pc = phase /\ next[hb.p] = NULL
  /\ hb' = IF hb.i + 2 < INS
             THEN [hb EXCEPT !.i = @ + 1, !.p = hb.i + 1]
             ELSE [hb EXCEPT !.pc = following, !.i = 0, !.p = NULL]
  /\ UNCHANGED <<next, len, addr, heap, list, myRwlock>> /\ HeartbeatOnly

\* The end of list i: on to the next one, or, after the last, into the phase
\* that follows.
HbListEnd(phase, following) ==
  /\ Running /\ hb.pc = phase /\ next[hb.p] = NULL
  /\ hb' = IF hb.i + 1 < INS
             THEN [hb EXCEPT !.i = @ + 1, !.p = hb.i + 1]
             ELSE [hb EXCEPT !.pc = following, !.i = 0, !.p = NULL]
  /\ UNCHANGED <<next, len, addr, heap, list, myRwlock>> /\ HeartbeatOnly

HbProbeListEnd == HbListEnd("probe", "select")
HbJudgeListEnd == HbListEnd("judge", "unlock")

\* select reports something, so there was a node to ask: pass 2 starts at the
\* first list.
HbAnswers ==
  /\ Running /\ hb.pc = "select" /\ hb.due # {}
  /\ hb' = [hb EXCEPT !.pc = "judge", !.i = 0, !.p = 0]
  /\ UNCHANGED <<next, len, addr, heap, list, myRwlock>> /\ HeartbeatOnly

\* select reports 0: nobody is judged in this round.
HbSilence ==
  /\ Running /\ hb.pc = "select"
  /\ hb' = [hb EXCEPT !.pc = "unlock"]
  /\ UNCHANGED <<next, len, addr, heap, list, myRwlock>> /\ HeartbeatOnly

\* Mutant: the walk stays where it is.
HbKeepStanding ==
  /\ Running /\ hb.pc = "judge" /\ next[hb.p] # NULL
  /\ hb' = [hb EXCEPT !.due = @ \ {next[hb.p]}]
  /\ UNCHANGED <<next, len, addr, heap, list, myRwlock>> /\ HeartbeatOnly

\* Which verdict a node gets is up to its socket; here either.
HbKeep ==
  /\ Running /\ hb.pc = "judge" /\ next[hb.p] # NULL
  /\ hb' = [hb EXCEPT !.p = next[@], !.due = @ \ {next[hb.p]}]
  /\ UNCHANGED <<next, len, addr, heap, list, myRwlock>> /\ HeartbeatOnly

\* Mutant: the unlinked node is never freed.
FreeForgotten(c) == UNCHANGED <<heap, addr>>

\* free(q): the allocator reuses the first bytes, where the address is, and
\* leaves the next field as it was.
Free(c) ==
  /\ heap' = heap \ {c}
  /\ addr' = [addr EXCEPT ![c] = NoAddr]

\* The worker of list q stands on c, or has found c behind it and will find
\* nothing there.
Unsettles(q, c) ==
  \/ worker[q].p = c
  \/ /\ worker[q].pc \in {"address", "chat"}
     /\ next[worker[q].p] = c /\ next[c] = NULL

HbDrop ==
  /\ Running /\ hb.pc = "judge" /\ next[hb.p] # NULL
  /\ LET c == next[hb.p] IN
       /\ next' = [next EXCEPT ![hb.p] = next[c]]
       /\ len' = [len EXCEPT ![hb.i] = @ - 1]
       /\ list' = [list EXCEPT ![hb.i] = Without(@, c)]
       /\ Free(c)
       /\ hb' = [hb EXCEPT !.due = @ \ {c}]
       /\ shaken' = shaken \cup {q \in Working : Unsettles(q, c)}
  /\ Unlinking

HbUnlock ==
  /\ Running /\ hb.pc = "unlock"
  /\ myRwlock' = Nobody
  /\ hb' = [pc |-> "sleep", i |-> 0, p |-> NULL, due |-> {}]
  /\ UNCHANGED <<next, len, addr, heap, list>> /\ HeartbeatOnly

-----------------------------------------------------------------------------
(* The worker of list q. *)

WorkerOnly == UNCHANGED <<next, len, addr, heap, myRwlock, main, acceptor, hb,
                          crashed, logins, list, refused>>

\* Mutant: every worker starts at the first list.
WorkWakeAtFirst(q) ==
  /\ Running /\ worker[q].pc = "sleep"
  /\ worker' = [worker EXCEPT ![q] = [pc |-> "test", p |-> 0]]
  /\ shaken' = shaken \ {q}
  /\ WorkerOnly

WorkWake(q) ==
  /\ Running /\ worker[q].pc = "sleep"
  /\ worker' = [worker EXCEPT ![q] = [pc |-> "test", p |-> q]]
  /\ shaken' = shaken \ {q}
  /\ WorkerOnly

WorkTest(q) ==
  /\ Running /\ worker[q].pc = "test"
  /\ worker[q].p # NULL /\ next[worker[q].p] # NULL
  /\ worker' = [worker EXCEPT ![q].pc = "address"]
  /\ WorkerOnly /\ UNCHANGED shaken

WorkEnd(q) ==
  /\ Running /\ worker[q].pc = "test"
  /\ worker[q].p # NULL /\ next[worker[q].p] = NULL
  /\ worker' = [worker EXCEPT ![q] = [pc |-> "sleep", p |-> NULL]]
  /\ WorkerOnly /\ UNCHANGED shaken

\* The address of p->next is copied and the talk with it begins.
WorkAddress(q) ==
  /\ Running /\ worker[q].pc = "address" /\ next[worker[q].p] # NULL
  /\ worker' = [worker EXCEPT ![q].pc = "chat"]
  /\ WorkerOnly /\ UNCHANGED shaken

\* chatToclient returns and p = p->next.
WorkAdvance(q) ==
  /\ Running /\ worker[q].pc = "chat"
  /\ worker' = [worker EXCEPT ![q] = [pc |-> "test", p |-> next[worker[q].p]]]
  /\ WorkerOnly /\ UNCHANGED shaken

WorkFault(q) ==
  /\ Running /\ worker[q].pc \in {"test", "address", "chat"}
  /\ \/ worker[q].p = NULL
     \/ Dangling(worker[q].p)
     \/ worker[q].pc = "address" /\ next[worker[q].p] = NULL
  /\ Crash

-----------------------------------------------------------------------------
Stopped == crashed /\ UNCHANGED vars

Main == \/ \E c \in Cells : BootAdd(c) \/ \E a \in Addrs : LoginAccept(a, c)
        \/ BootDone \/ FindTest \/ FindNextList \/ LoginSpawn \/ LoginRefused
        \/ FindDiffers \/ FindAdvance \/ FindFault

Acceptor(c) == \/ AcceptLock(c) \/ AcceptWalk(c) \/ AcceptEnd(c)
               \/ AcceptLink(c) \/ AcceptUnlock(c)

HbRound == \/ HbProbe \/ HbProbeListEnd \/ HbAnswers \/ HbSilence \/ HbKeep
           \/ HbDrop \/ HbJudgeListEnd \/ HbUnlock

Worker(q) == \/ WorkWake(q) \/ WorkTest(q) \/ WorkEnd(q) \/ WorkAddress(q)
             \/ WorkAdvance(q) \/ WorkFault(q)

Next == \/ Main
        \/ \E c \in Cells : Acceptor(c)
        \/ HbLock \/ HbRound
        \/ \E q \in Working : Worker(q)
        \/ Stopped

Spec == Init /\ [][Next]_vars

\* The code's loops run on; nothing makes a client log in, nor a chat end.
\* Acceptors compete with the heartbeat for the lock, which it leaves free
\* for the two seconds of its sleep in every round.
Fairness ==
  /\ WF_vars(Main /\ logins' = logins)
  /\ \A c \in Cells : SF_vars(AcceptLock(c)) /\ WF_vars(Acceptor(c))
  /\ WF_vars(HbLock) /\ WF_vars(HbRound)

FairSpec == Spec /\ Fairness

-----------------------------------------------------------------------------
(* Correctness *)

PtrsOrNull == Ptrs \cup {NULL}

\* Every variable holds a value of its type.
TypeOK ==
  /\ next \in [Ptrs -> Cells \cup {NULL}]
  /\ len \in [Queues -> Int]
  /\ addr \in [Cells -> Addrs \cup (From .. To) \cup {NoAddr}]
  /\ heap \subseteq Cells
  /\ myRwlock \in Cells \cup {Heartbeat, Nobody}
  /\ main \in [pc : {"boot", "epoll", "test", "compare", "advance"}, i : Nat,
               p : PtrsOrNull, node : Cells \cup {NULL},
               before : [Queues -> Seq(Cells)]]
  /\ acceptor \in [Cells -> [pc : {"none", "lock", "walk", "link", "unlock"},
                            index : Queues, p : PtrsOrNull]]
  /\ hb \in [pc : {"sleep", "probe", "select", "judge", "unlock"}, i : Queues,
             p : PtrsOrNull, due : SUBSET Cells]
  /\ worker \in [Queues -> [pc : {"sleep", "test", "address", "chat"},
                           p : PtrsOrNull]]
  /\ crashed \in BOOLEAN
  /\ logins \in 0 .. MaxLogins
  /\ list \in [Queues -> Seq(Cells)]
  /\ refused \subseteq Cells
  /\ shaken \subseteq Working

\* The pointers thread exactly the cells each list should hold, in order,
\* with no cell twice, and qheads.len counts them.
Threaded(q) ==
  \A i \in 0 .. Len(list[q]) :
    next[At(q, i)] = IF i < Len(list[q]) THEN list[q][i+1] ELSE NULL
NoneTwice ==
  \A q, k \in Queues : \A i \in DOMAIN list[q], j \in DOMAIN list[k] :
    list[q][i] = list[k][j] => q = k /\ i = j
ListsSound ==
  /\ \A q \in Queues : Threaded(q)
  /\ NoneTwice
  /\ \A q \in Queues : len[q] = Len(list[q])

\* Every allocated node is registered, waiting to be, being looked up, or
\* leaked by a refused login, and only one of these: none is freed while a
\* list holds it, and none is forgotten.
Pending == {c \in Cells : acceptor[c].pc \in {"lock", "walk", "link"}}
InHand  == {main.node} \ {NULL}
NodesAccounted ==
  /\ heap = UNION {Listed, Pending, InHand, refused}
  /\ Listed \cap (Pending \cup InHand \cup refused) = {}
  /\ Pending \cap (InHand \cup refused) = {}
  /\ InHand \cap refused = {}

\* A thread that walks under myRwlock stands on the sentinel or on a node of
\* the list it walks, so it never follows NULL or freed memory; addCinfo
\* links behind the last node.
OnList(p, q, last) == \E i \in last .. Len(list[q]) : p = At(q, i)
LockedCursorsLive ==
  /\ hb.pc \in {"probe", "judge"} => OnList(hb.p, hb.i, 0)
  /\ \A c \in Cells :
       LET t == acceptor[c] IN
       /\ t.pc = "walk" => OnList(t.p, t.index, 0)
       /\ t.pc = "link" => OnList(t.p, t.index, Len(list[t.index]))

(* The inductive invariant the proofs rest on.  Beside the three above:     *)

\* The lock belongs to the thread that is between lock and unlock, and an
\* acceptor about to unlock has linked its node.
LockOwned ==
  /\ hb.pc # "sleep" <=> myRwlock = Heartbeat
  /\ \A c \in Cells : acceptor[c].pc \in {"walk", "link", "unlock"}
                        <=> myRwlock = c
  /\ \A c \in Cells : acceptor[c].pc = "unlock" => c \in Listed

\* While a pass of the heartbeat stands behind position k of a list, the
\* nodes it still has to judge, or has already visited, are known exactly.
ProbedSoFar(k, q, j) == q < hb.i \/ (q = hb.i /\ j <= k)
DueExact ==
  /\ hb.due \subseteq Listed \/ hb.pc = "sleep"
  /\ hb.pc = "probe" =>
       \E k \in 0 .. Len(list[hb.i]) :
         /\ hb.p = At(hb.i, k)
         /\ \A q \in Queues : \A j \in DOMAIN list[q] :
              list[q][j] \in hb.due <=> ProbedSoFar(k, q, j)
  /\ hb.pc = "select" =>
       \A q \in Queues : \A j \in DOMAIN list[q] : list[q][j] \in hb.due
  /\ hb.pc = "judge" =>
       \E k \in 0 .. Len(list[hb.i]) :
         /\ hb.p = At(hb.i, k)
         /\ \A q \in Queues : \A j \in DOMAIN list[q] :
              list[q][j] \in hb.due <=> ~ProbedSoFar(k, q, j)

\* What each thread has in hand in each state, and that only main runs while
\* the configured clients are enrolled.
InHandSound ==
  /\ main.pc \in {"test", "compare", "advance"} <=> main.node # NULL
  /\ main.pc \in {"compare", "advance"} => main.p # NULL
  /\ main.pc \in {"test", "compare", "advance"} => main.i \in Queues
  /\ main.pc = "boot" => /\ main.i \in From .. To + 1
                         /\ hb.pc = "sleep" /\ myRwlock = Nobody
                         /\ \A c \in Cells : acceptor[c].pc = "none"
  /\ \A c \in Cells : acceptor[c].pc \in {"walk", "link"} => acceptor[c].p # NULL
  /\ hb.pc \in {"probe", "judge"} => hb.p # NULL
  /\ \A q \in Queues : worker[q].pc \in {"address", "chat"} => worker[q].p # NULL

\* Between its lock and its link an acceptor's list stays a shortest one.
ChosenShortest ==
  \A c \in Cells : acceptor[c].pc \in {"walk", "link"} =>
    \A q \in Queues : len[acceptor[c].index] <= len[q]

IndInv == /\ TypeOK /\ ListsSound /\ NodesAccounted /\ LockedCursorsLive
          /\ LockOwned /\ DueExact /\ InHandSound

\* A verdict is only passed on a node that pass 1 of the same round visited,
\* and on each of them once: no node joins between the passes.  (Whether the
\* visit could start a connection is HeartbeatRound's matter.)
VerdictOnVisited == [][HbKeep \/ HbDrop => next[hb.p] \in hb.due]_vars

\* The list chosen when the acceptor got the lock is still a shortest one
\* when it links its node.
JoinsShortest ==
  [][\A c \in Cells : AcceptLink(c) =>
       \A q \in Queues : Len(list[acceptor[c].index]) <= Len(list[q])]_vars

\* "Already logged in" is only told to a client whose address is in a list,
\* although the scan holds no lock that keeps the heartbeat out.
RefusedIsRegistered ==
  [][LoginRefused => \E c \in Listed : addr[c] = addr[main.node]]_vars

\* A scan that finds nobody has passed over a registered client of the address
\* only if the heartbeat unlinked the node just before it in the meantime.
Overlooked(q, i) ==
  LET c == main.before[q][i] IN c \in Listed /\ SameAddress(c, main.node)
ScanMissesOnlyBehindDropped ==
  [][LoginSpawn => \A q \in Queues : \A i \in DOMAIN main.before[q] :
       Overlooked(q, i) => i > 1 /\ main.before[q][i-1] \notin Listed]_vars

\* A spawned acceptor registers its node, however often the heartbeat takes
\* the lock first.
AcceptorSettles ==
  \A c \in Cells : acceptor[c].pc = "lock" ~> (c \in Listed \/ crashed)

\* The scan ends even though the nodes it stands on may be unlinked, and a
\* round of the heartbeat ends and gives its lock back, so neither the main
\* thread nor the acceptors are held up by the other's progress.
ScansAndRoundsEnd ==
  /\ main.pc = "test" ~> (main.pc = "epoll" \/ crashed)
  /\ hb.pc = "probe" ~> (myRwlock # Heartbeat \/ crashed)

\* The registry implements the abstract membership.
Promise == INSTANCE Membership
             WITH Queues <- Queues, Sessions <- Cells, lists <- list,
                  inService <- main.pc # "boot",
                  inRound <- hb.pc = "judge",
                  suspects <- IF hb.pc = "judge" THEN hb.due ELSE {}
ImplementsMembership == Promise!MSpec

\* A worker that walks without the heartbeat's lock still stands on its own
\* list, whichever nodes join or are dropped while it talks, until the
\* heartbeat drops the very node it stands on, or the last one of the list
\* while the worker is about to go on to it.
SweepSoundUntilDrop ==
  \A q \in Working :
    worker[q].pc # "sleep" /\ q \notin shaken => OnList(worker[q].p, q, 0)

-----------------------------------------------------------------------------
(* What a reader of the sources expects and the code does not keep.        *)

\* What common.h:84 and the log line server.c:349 take for granted: an
\* address stands for one node.
OneNodePerAddress ==
  \A c, d \in Listed : addr[c] = addr[d] => c = d

\* What common.h:61 says the lock in a list head is for: the thread that
\* walks a list under it stands on memory that is in use.
WorkerCursorLive ==
  \A q \in Queues : worker[q].pc # "sleep" => worker[q].p \in Queues \cup heap

=============================================================================
