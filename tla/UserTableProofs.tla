-------------------------- MODULE UserTableProofs --------------------------
(***************************************************************************)
(* Proofs about the table of the first version, for any number of buckets, *)
(* nodes, addresses and ports: the lists stay lists and the walk of        *)
(* clock_get stays on them, although it takes no lock and goes on from     *)
(* nodes it has had freed.  What the pointers reach is a least closed set, *)
(* and the proofs go from one closed set to another: no induction along a  *)
(* list is needed.                                                         *)
(***************************************************************************)
EXTENDS UserTable, FiniteSetTheorems, TLAPS

(***************************************************************************)
(* The inductive invariant.                                                *)
(***************************************************************************)
Types ==
  /\ tail \in [Buckets -> Pointers] /\ len \in Nat
  /\ next \in [Nodes -> Pointers]
  /\ arg \in [Nodes -> [ip : IPs \union {0}, port : Ports \union {0}]]
  /\ used \subseteq Nodes
  /\ phase \in [{"main", "clock"} -> Lock!Phases]
  /\ main \in [pc : {"malloc", "accept", "call", "enter", "add", "link", "leave"},
               work : Pointers]
  /\ clock \in [pc : {"bucket", "probe", "enter", "find", "leave", "next", "count", "list"},
                i : 0 .. MAXN, p : Pointers, old : Pointers, hit : Pointers]
  /\ printed \in Nat /\ fds \in 0 .. MaxFd /\ listening \subseteq IPs

\* What the two threads hold of the lock, and that they do not share it.
MainHolds == IF main.pc = "enter" THEN "announced"
             ELSE IF main.pc \in {"add", "link", "leave"} THEN "writes" ELSE "out"
ClockHolds == IF clock.pc = "enter" THEN "announced"
              ELSE IF clock.pc \in {"find", "leave"} THEN "writes"
              ELSE IF clock.pc \in {"count", "list"} THEN "reads" ELSE "out"
LockHeld ==
  /\ phase["main"] = MainHolds /\ phase["clock"] = ClockHolds
  /\ phase["main"] = "writes" => phase["clock"] \in {"out", "announced"}

\* A list ends and never comes back to a node; those of the table hold
\* allocated nodes of their own bucket.
IsList(t, nx) ==
  LET R == Reachable(t, nx)
  IN /\ \A n \in R : n \notin Reachable(nx[n], nx)
     /\ R # {} => \E n \in R : nx[n] = NULL
ListSound(b) ==
  /\ IsList(tail[b], next)
  /\ \A n \in Chain(b) : n \in used /\ Bucket(n) = b

\* The node in the hands of main is in no list yet; before it is linked the
\* rest of its list is behind it.
InHand ==
  /\ main.pc = "malloc" <=> main.work = NULL
  /\ main.pc \in {"accept", "call", "enter", "add", "link"} =>
       main.work \in used /\ main.work \notin Listed
  /\ main.pc = "link" => next[main.work] = tail[Bucket(main.work)]

\* Where clock_get and del stand.
Walks ==
  /\ clock.pc \notin {"bucket", "count", "list"} => clock.i < MAXN
  /\ clock.pc \in {"probe", "enter", "find"} => clock.p \in Listed
  /\ clock.pc = "find" =>
       /\ clock.hit \in Chain(Bucket(clock.p))
       /\ clock.p \in Reachable(clock.hit, next)
       /\ IF clock.old = NULL THEN clock.hit = tail[Bucket(clock.p)]
          ELSE /\ clock.old \in Chain(Bucket(clock.p))
               /\ next[clock.old] = clock.hit
  /\ clock.pc \in {"leave", "next"} =>
       clock.p \in Nodes /\ next[clock.p] \in Listed \union {NULL}
  /\ clock.pc = "list" => printed = len

Lists ==
  /\ \A b \in Buckets : ListSound(b)
  /\ len = Cardinality(Listed)

IndInv == Types /\ LockHeld /\ InHand /\ Walks /\ Lists

(***************************************************************************)
(* What the pointers reach: the least closed set.                          *)
(***************************************************************************)
Links == [Nodes -> Pointers]

LEMMA NodesArePointers == NULL \notin Nodes /\ Nodes \subseteq Pointers
BY BoundsAssumption DEF NULL, Nodes, Pointers

LEMMA ReachLeast ==
  ASSUME NEW t, NEW nx, NEW A \in SUBSET Nodes,
         t \in A \union {NULL}, ClosedUnder(nx, A)
  PROVE  Reachable(t, nx) \subseteq A
BY DEF Reachable

LEMMA ReachClosed ==
  ASSUME NEW t \in Pointers, NEW nx \in Links
  PROVE  /\ Reachable(t, nx) \subseteq Nodes
         /\ t \in Reachable(t, nx) \union {NULL}
         /\ ClosedUnder(nx, Reachable(t, nx))
<1>1. Reachable(t, nx) \subseteq Nodes
  BY DEF Reachable
<1>2. t \in Reachable(t, nx) \union {NULL}
  BY NodesArePointers DEF Reachable, Pointers
<1>3. ASSUME NEW n \in Reachable(t, nx), nx[n] # NULL
      PROVE  nx[n] \in Reachable(t, nx)
  <2>1. n \in Nodes /\ nx[n] \in Nodes
    BY <1>1, <1>3 DEF Links, Pointers
  <2>2. ASSUME NEW A \in SUBSET Nodes, t \in A \union {NULL}, ClosedUnder(nx, A)
        PROVE  nx[n] \in A
    BY <1>3, <2>2, ReachLeast DEF ClosedUnder
  <2> QED
    BY <2>1, <2>2 DEF Reachable
<1> QED
  BY <1>1, <1>2, <1>3 DEF ClosedUnder

LEMMA ReachNothing ==
  ASSUME NEW nx
  PROVE  Reachable(NULL, nx) = {}
<1>1. {} \in SUBSET Nodes /\ NULL \in {} \union {NULL} /\ ClosedUnder(nx, {})
  BY DEF ClosedUnder
<1> QED
  BY <1>1, ReachLeast

LEMMA ReachWithin ==
  ASSUME NEW t \in Pointers, NEW nx \in Links, NEW u \in Reachable(t, nx)
  PROVE  /\ u \in Nodes /\ nx[u] \in Pointers
         /\ u \in Reachable(u, nx)
         /\ Reachable(u, nx) \subseteq Reachable(t, nx)
         /\ Reachable(nx[u], nx) \subseteq Reachable(u, nx)
         /\ Reachable(nx[u], nx) \subseteq Reachable(t, nx)
<1>1. u \in Nodes /\ nx[u] \in Pointers /\ u \in Pointers /\ u # NULL
  BY ReachClosed, NodesArePointers DEF Links
<1>2. u \in Reachable(u, nx) /\ ClosedUnder(nx, Reachable(u, nx))
  BY <1>1, ReachClosed
<1>3. Reachable(u, nx) \subseteq Reachable(t, nx)
  BY ReachClosed, ReachLeast
<1>4. Reachable(nx[u], nx) \subseteq Reachable(u, nx)
  <2>1. nx[u] \in Reachable(u, nx) \union {NULL} /\ Reachable(u, nx) \in SUBSET Nodes
    BY <1>1, <1>2, ReachClosed DEF ClosedUnder
  <2> QED
    BY <1>2, <2>1, ReachLeast
<1> QED
  BY <1>1, <1>2, <1>3, <1>4

\* A node, and what is behind it.
LEMMA ReachUnfold ==
  ASSUME NEW t \in Nodes, NEW nx \in Links
  PROVE  Reachable(t, nx) = {t} \union Reachable(nx[t], nx)
<1>1. t \in Pointers /\ nx[t] \in Pointers /\ t # NULL
  BY NodesArePointers DEF Links
<1>2. t \in Reachable(t, nx)
  BY <1>1, ReachClosed
<1>3. Reachable(nx[t], nx) \subseteq Reachable(t, nx)
  BY <1>1, <1>2, ReachWithin
<1> DEFINE A == {t} \union Reachable(nx[t], nx)
<1>4. /\ Reachable(nx[t], nx) \subseteq Nodes
      /\ nx[t] \in Reachable(nx[t], nx) \union {NULL}
      /\ ClosedUnder(nx, Reachable(nx[t], nx))
  BY <1>1, ReachClosed
<1>5. A \in SUBSET Nodes /\ t \in A \union {NULL} /\ ClosedUnder(nx, A)
  BY <1>4 DEF ClosedUnder
<1>6. Reachable(t, nx) \subseteq A
  BY <1>5, ReachLeast
<1> QED
  BY <1>2, <1>3, <1>6

\* Of two nodes of a list one is behind the other.
LEMMA ReachLinear ==
  ASSUME NEW t \in Pointers, NEW nx \in Links,
         NEW m \in Reachable(t, nx), NEW n \in Reachable(t, nx)
  PROVE  m \in Reachable(n, nx) \/ n \in Reachable(m, nx)
<1> DEFINE A == {u \in Reachable(t, nx) : n \in Reachable(u, nx)} \union Reachable(n, nx)
<1>1. A \in SUBSET Nodes
  BY ReachClosed, ReachWithin
<1>2. t \in A \union {NULL}
  BY ReachClosed
<1>3. ASSUME NEW u \in Reachable(t, nx), n \in Reachable(u, nx)
      PROVE  nx[u] \in A \union {NULL}
  <2>1. u \in Nodes /\ nx[u] \in Pointers
    BY ReachWithin
  <2>2. CASE n = u
    <3>1. nx[n] \in Reachable(n, nx) \union {NULL}
      BY <2>1, <2>2, ReachWithin, ReachClosed DEF ClosedUnder
    <3> QED
      BY <2>2, <3>1
  <2>3. CASE n # u
    <3>1. n \in Reachable(nx[u], nx)
      BY <1>3, <2>1, <2>3, ReachUnfold
    <3>2. nx[u] \in Reachable(t, nx) \union {NULL}
      BY ReachClosed DEF ClosedUnder
    <3> QED
      BY <3>1, <3>2
  <2> QED
    BY <2>2, <2>3
<1>4. ClosedUnder(nx, Reachable(n, nx))
  BY ReachWithin, ReachClosed, NodesArePointers
<1>5. ClosedUnder(nx, A)
  BY <1>3, <1>4 DEF ClosedUnder
<1>6. m \in A
  BY <1>1, <1>2, <1>5, ReachLeast
<1> QED
  BY <1>6

\* Fields of nodes outside a list are nothing to it.
LEMMA ReachKept ==
  ASSUME NEW t \in Pointers, NEW nx \in Links, NEW ny \in Links,
         \A n \in Reachable(t, nx) : ny[n] = nx[n]
  PROVE  Reachable(t, ny) = Reachable(t, nx)
<1> DEFINE R == Reachable(t, nx)
           Q == Reachable(t, ny)
<1>1. R \subseteq Nodes /\ t \in R \union {NULL} /\ ClosedUnder(nx, R)
  BY ReachClosed
<1>2. Q \subseteq Nodes /\ t \in Q \union {NULL} /\ ClosedUnder(ny, Q)
  BY ReachClosed
<1> HIDE DEF R, Q
<1>3. \A n \in R : ny[n] = nx[n]
  BY DEF R
<1>4. ClosedUnder(ny, R)
  BY <1>1, <1>3 DEF ClosedUnder
<1>5. Q \subseteq R
  BY <1>1, <1>4, ReachLeast DEF Q
<1>6. ClosedUnder(nx, Q)
  BY <1>2, <1>3, <1>5 DEF ClosedUnder
<1>7. R \subseteq Q
  BY <1>2, <1>6, ReachLeast DEF R
<1> QED
  BY <1>5, <1>7 DEF R, Q

(***************************************************************************)
(* What linking and unlinking do to a list.                                *)
(***************************************************************************)
LEMMA ListKept ==
  ASSUME NEW t \in Pointers, NEW nx \in Links, NEW ny \in Links,
         \A n \in Reachable(t, nx) : ny[n] = nx[n],
         IsList(t, nx)
  PROVE  IsList(t, ny) /\ Reachable(t, ny) = Reachable(t, nx)
<1>1. Reachable(t, ny) = Reachable(t, nx)
  BY ReachKept
<1>2. ASSUME NEW n \in Reachable(t, nx)
      PROVE  n \notin Reachable(ny[n], ny)
  <2>1. ny[n] = nx[n] /\ nx[n] \in Pointers
    BY ReachWithin
  <2>2. \A m \in Reachable(nx[n], nx) : ny[m] = nx[m]
    BY ReachWithin
  <2>3. Reachable(ny[n], ny) = Reachable(nx[n], nx)
    BY <2>1, <2>2, ReachKept
  <2> QED
    BY <2>3 DEF IsList
<1> QED
  BY <1>1, <1>2 DEF IsList

LEMMA LinkInFront ==
  ASSUME NEW n \in Nodes, NEW nx \in Links,
         n \notin Reachable(nx[n], nx), IsList(nx[n], nx)
  PROVE  /\ Reachable(n, nx) = {n} \union Reachable(nx[n], nx)
         /\ IsList(n, nx)
<1>1. Reachable(n, nx) = {n} \union Reachable(nx[n], nx)
  BY ReachUnfold
<1>2. CASE Reachable(nx[n], nx) = {}
  <2>1. nx[n] = NULL
    BY <1>2, ReachClosed DEF Links
  <2> QED
    BY <1>1, <1>2, <2>1 DEF IsList
<1>3. CASE Reachable(nx[n], nx) # {}
  BY <1>1, <1>3 DEF IsList
<1> QED
  BY <1>1, <1>2, <1>3

LEMMA UnlinkFirst ==
  ASSUME NEW t \in Nodes, NEW nx \in Links, IsList(t, nx)
  PROVE  /\ Reachable(nx[t], nx) = Reachable(t, nx) \ {t}
         /\ IsList(nx[t], nx)
<1>1. Reachable(t, nx) = {t} \union Reachable(nx[t], nx)
  BY ReachUnfold
<1>2. t \notin Reachable(nx[t], nx)
  BY <1>1 DEF IsList
<1>3. CASE nx[t] = NULL
  BY <1>1, <1>2, <1>3, ReachNothing DEF IsList
<1>4. CASE nx[t] # NULL
  BY <1>1, <1>2, <1>4 DEF IsList
<1> QED
  BY <1>1, <1>2, <1>3, <1>4

LEMMA UnlinkLater ==
  ASSUME NEW t \in Pointers, NEW nx \in Links, IsList(t, nx),
         NEW old \in Reachable(t, nx), NEW hit \in Nodes, nx[old] = hit
  PROVE  LET ny == [nx EXCEPT ![old] = nx[hit]]
         IN /\ ny \in Links
            /\ Reachable(t, ny) = Reachable(t, nx) \ {hit}
            /\ IsList(t, ny)
<1> DEFINE ny == [nx EXCEPT ![old] = nx[hit]]
           R == Reachable(t, nx)
<1>1. /\ R \subseteq Nodes /\ t \in R \union {NULL} /\ ClosedUnder(nx, R)
      /\ hit \in R /\ nx[hit] \in Pointers /\ hit # NULL /\ old \in R
  BY ReachClosed, NodesArePointers DEF ClosedUnder, Links
<1>2. /\ ny \in Links /\ ny[old] = nx[hit]
      /\ \A m \in Nodes \ {old} : ny[m] = nx[m]
  BY <1>1 DEF Links
<1>3. \A n \in R : n \notin Reachable(nx[n], nx)
  BY DEF IsList
<1>4. old \notin Reachable(hit, nx)
  BY <1>1, <1>3
<1> HIDE DEF ny, R
\* Only old is in front of hit.
<1>5. ASSUME NEW m \in R, nx[m] = hit
      PROVE  m = old
  <2> SUFFICES ASSUME m # old PROVE FALSE
    OBVIOUS
  <2>1. old \in Reachable(m, nx) \/ m \in Reachable(old, nx)
    BY <1>1, ReachLinear DEF R
  <2>2. m \in Nodes /\ old \in Nodes
    BY <1>1
  <2>3. old \in Reachable(hit, nx) \/ m \in Reachable(hit, nx)
    BY <1>5, <2>1, <2>2, ReachUnfold
  <2>4. m \notin Reachable(hit, nx)
    BY <1>3, <1>5
  <2> QED
    BY <1>4, <2>3, <2>4
<1>6. t # hit
  <2> SUFFICES ASSUME t = hit PROVE FALSE
    OBVIOUS
  <2> QED
    BY <1>1, <1>4 DEF R
<1>7. nx[hit] # hit
  <2>1. hit \notin Reachable(nx[hit], nx)
    BY <1>1, <1>3
  <2> QED
    BY <1>1, <2>1, ReachClosed
<1>8. Reachable(t, ny) \subseteq R \ {hit}
  <2>1. R \ {hit} \in SUBSET Nodes /\ t \in (R \ {hit}) \union {NULL}
    BY <1>1, <1>6
  <2>2. ASSUME NEW m \in R \ {hit}
        PROVE  ny[m] \in (R \ {hit}) \union {NULL}
    <3>1. CASE m = old
      BY <1>1, <1>2, <1>7, <3>1 DEF ClosedUnder
    <3>2. CASE m # old
      BY <1>1, <1>2, <1>5, <3>2 DEF ClosedUnder
    <3> QED
      BY <3>1, <3>2
  <2>3. ClosedUnder(ny, R \ {hit})
    BY <2>2 DEF ClosedUnder
  <2> QED
    BY <2>1, <2>3, ReachLeast
<1>9. R \ {hit} \subseteq Reachable(t, ny)
  <2> DEFINE Q == Reachable(t, ny)
  <2>1. Q \subseteq Nodes /\ t \in Q \union {NULL} /\ ClosedUnder(ny, Q)
    BY <1>2, ReachClosed
  <2> HIDE DEF Q
  <2>2. CASE old \in Q
    <3>1. ASSUME NEW m \in Q \union {hit}
          PROVE  nx[m] \in (Q \union {hit}) \union {NULL}
      <4>1. nx[hit] \in Q \union {NULL}
        BY <1>2, <2>1, <2>2 DEF ClosedUnder
      <4>2. m # hit /\ m # old => nx[m] \in Q \union {NULL}
        BY <1>2, <2>1 DEF ClosedUnder
      <4> QED
        BY <4>1, <4>2
    <3>2. ClosedUnder(nx, Q \union {hit})
      BY <3>1 DEF ClosedUnder
    <3>3. R \subseteq Q \union {hit}
      BY <2>1, <3>2, ReachLeast DEF R
    <3> QED
      BY <3>3 DEF Q
  <2>3. CASE old \notin Q
    <3>1. ClosedUnder(nx, Q)
      BY <1>2, <2>1, <2>3 DEF ClosedUnder
    <3>2. R \subseteq Q
      BY <2>1, <3>1, ReachLeast DEF R
    <3> QED
      BY <1>1, <2>3, <3>2
  <2> QED
    BY <2>2, <2>3
<1>10. ASSUME NEW u \in R
       PROVE  Reachable(ny[u], ny) \subseteq Reachable(nx[u], nx)
  <2>1. u \in Nodes /\ nx[u] \in Pointers
    BY ReachWithin DEF R
  <2> DEFINE Q == Reachable(nx[u], nx)
  <2>2. Q \subseteq Nodes /\ nx[u] \in Q \union {NULL} /\ ClosedUnder(nx, Q)
    BY <2>1, ReachClosed
  <2> HIDE DEF Q
  <2>3. ASSUME NEW m \in Q
        PROVE  ny[m] \in Q \union {NULL}
    BY <1>1, <1>2, <2>2 DEF ClosedUnder
  <2>4. ny[u] \in Q \union {NULL}
    BY <1>1, <1>2, <2>1, <2>2 DEF ClosedUnder
  <2>5. ClosedUnder(ny, Q)
    BY <2>3 DEF ClosedUnder
  <2> QED
    BY <2>2, <2>4, <2>5, ReachLeast DEF Q
<1>11. Reachable(t, ny) = R \ {hit}
  BY <1>8, <1>9
<1>12. \A n \in Reachable(t, ny) : n \notin Reachable(ny[n], ny)
  BY <1>3, <1>10, <1>11
<1>13. \E n \in R \ {hit} : ny[n] = NULL
  <2>1. PICK n \in R : nx[n] = NULL
    BY <1>1 DEF IsList, R
  <2>2. CASE n = hit
    BY <1>1, <1>2, <2>1, <2>2, <1>4, ReachWithin DEF R
  <2>3. CASE n # hit
    <3>1. n # old
      BY <1>1, <2>1
    <3> QED
      BY <1>1, <1>2, <2>1, <2>3, <3>1
  <2> QED
    BY <2>2, <2>3
<1>14. IsList(t, ny)
  BY <1>11, <1>12, <1>13 DEF IsList
<1> QED
  BY <1>2, <1>11, <1>14 DEF ny, R

(***************************************************************************)
(* The lock                                                                *)
(***************************************************************************)
Holders == [{"main", "clock"} -> Lock!Phases]

LEMMA LockSteps ==
  ASSUME phase \in Holders
  PROVE  /\ \A t \in {"main", "clock"} :
              /\ Lock!Announce(t) => phase[t] = "out" /\ phase' = [phase EXCEPT ![t] = "announced"]
              /\ Lock!Leave(t) => /\ phase[t] \in {"reads", "writes"}
                                  /\ phase' = [phase EXCEPT ![t] = "out"]
              /\ Lock!Write(t) => /\ phase[t] = "announced"
                                  /\ \A u \in {"main", "clock"} : phase[u] \notin {"reads", "writes"}
                                  /\ phase' = [phase EXCEPT ![t] = "writes"]
         /\ Lock!Read("clock") => /\ phase["clock"] = "out"
                                  /\ phase["main"] \notin {"announced", "writes"}
                                  /\ phase' = [phase EXCEPT !["clock"] = "reads"]
BY DEF Lock!Announce, Lock!Leave, Lock!Write, Lock!Read, Lock!Turns, Lock!In, Lock!Threads

LEMMA InitInv == Init => IndInv
<1> SUFFICES ASSUME Init PROVE IndInv
  OBVIOUS
<1>1. Types
  <2>1. 0 \in 0 .. MAXN /\ 0 \in 0 .. MaxFd /\ NULL \in Pointers
    BY BucketsAssumption, BoundsAssumption DEF Pointers
  <2>2. phase \in Holders
    BY DEF Init, Lock!Init, Lock!Threads, Lock!Phases, Holders
  <2> QED
    BY <2>1, <2>2 DEF Init, Types, Fresh, Holders
<1>2. LockHeld
  BY DEF Init, Lock!Init, Lock!Threads, LockHeld, MainHolds, ClockHolds
<1>3. \A b \in Buckets : Chain(b) = {}
  BY ReachNothing DEF Init, Chain
<1>4. Listed = {}
  BY <1>3 DEF Listed
<1>5. \A b \in Buckets : ListSound(b)
  BY <1>3 DEF ListSound, IsList, Chain
<1>6. len = Cardinality(Listed)
  BY <1>4, FS_EmptySet DEF Init
<1>7. InHand /\ Walks
  BY DEF Init, InHand, Walks
<1> QED
  BY <1>1, <1>2, <1>5, <1>6, <1>7 DEF IndInv, Lists

\* A step of main, of clock_get or of a machine leaves the places of the
\* others.
LEMMA LockStep ==
  ASSUME IndInv, [Next]_vars
  PROVE  phase' \in Holders /\ LockHeld'
<1> USE DEF IndInv, Lists, LockHeld, Holders
<1>1. phase \in Holders
  BY DEF Types
<1>2. CASE \E n \in Nodes : Malloc(n)
  BY <1>1, <1>2 DEF Malloc, MainOnly, MainHolds, ClockHolds
<1>3. CASE \E ip \in IPs, port \in Ports : Accept(ip, port)
  BY <1>1, <1>3 DEF Accept, MainAt, MainOnly, MainHolds, ClockHolds, Types
<1>4. CASE AcceptFails \/ AddNext \/ AddLink
  BY <1>1, <1>4
     DEF AcceptFails, AddNext, AddLink, MainAt, MainOnly, MainHolds, ClockHolds, Types
<1>5. CASE MainCalls
  BY <1>1, <1>5, LockSteps
     DEF MainCalls, MainAt, MainOnly, MainHolds, ClockHolds, Types, Lock!Phases
<1>6. CASE MainEnters
  BY <1>1, <1>6, LockSteps
     DEF MainEnters, MainAt, MainOnly, MainHolds, ClockHolds, Types, Lock!Phases
<1>7. CASE MainLeaves
  BY <1>1, <1>7, LockSteps
     DEF MainLeaves, MainOnly, MainHolds, ClockHolds, Types, Lock!Phases
<1>8. CASE Enter \/ Advance
  BY <1>1, <1>8 DEF Enter, Advance, Moved, ClockOnly, MainHolds, ClockHolds, Types
<1>9. CASE ProbeAnswered \/ FindNext \/ Unlink \/ GetoutCounts
  BY <1>1, <1>9
     DEF ProbeAnswered, FindNext, Unlink, GetoutCounts, ClockAt, ClockOnly, MainHolds,
         ClockHolds, Types
<1>10. CASE ProbeFails
  BY <1>1, <1>10, LockSteps
     DEF ProbeFails, ClockAt, ClockOnly, MainHolds, ClockHolds, Types, Lock!Phases
<1>11. CASE ClockEnters
  BY <1>1, <1>11, LockSteps
     DEF ClockEnters, ClockOnly, MainHolds, ClockHolds, Types, Lock!Phases
<1>12. CASE ClockLeaves
  BY <1>1, <1>12, LockSteps
     DEF ClockLeaves, ClockAt, ClockOnly, MainHolds, ClockHolds, Types, Lock!Phases
<1>13. CASE ReaderEnters
  BY <1>1, <1>13, LockSteps
     DEF ReaderEnters, ClockOnly, MainHolds, ClockHolds, Types, Lock!Phases
<1>14. CASE ReaderLeaves
  BY <1>1, <1>14, LockSteps
     DEF ReaderLeaves, ClockOnly, MainHolds, ClockHolds, Types, Lock!Phases
<1>15. CASE (\E ip \in IPs : UserListens(ip) \/ UserEnds(ip)) \/ UNCHANGED vars
  BY <1>1, <1>15 DEF UserListens, UserEnds, vars, MainHolds, ClockHolds
<1> QED
  BY <1>2, <1>3, <1>4, <1>5, <1>6, <1>7, <1>8, <1>9, <1>10, <1>11, <1>12, <1>13, <1>14, <1>15
     DEF Next, Main, Clock

(***************************************************************************)
(* Facts about every state of the invariant.                               *)
(***************************************************************************)
LEMMA BucketsIn ==
  ASSUME Types, NEW n \in Nodes
  PROVE  Bucket(n) \in Buckets
<1>1. arg[n] \in [ip : IPs \union {0}, port : Ports \union {0}]
  BY DEF Types
<1>2. arg[n].ip \in IPs \union {0}
  BY <1>1
<1>3. IPs \subseteq Nat
  BY BucketsAssumption
<1>4. arg[n].ip \in Nat
  BY <1>2, <1>3
<1>5. MAXN \in Nat /\ MAXN > 0
  BY BucketsAssumption
<1> DEFINE ip == arg[n].ip
<1> HIDE DEF ip
<1>6. ip \in Nat => ip % MAXN \in 0 .. MAXN - 1
  BY <1>5
<1> QED
  BY <1>4, <1>6 DEF Bucket, Buckets, ip

LEMMA ListsIn ==
  ASSUME Types, \A b \in Buckets : ListSound(b)
  PROVE  /\ \A b \in Buckets : tail[b] \in Pointers /\ Chain(b) \subseteq Listed
         /\ Listed \subseteq used /\ Listed \subseteq Nodes /\ IsFiniteSet(Listed)
         /\ \A n \in Listed : /\ Bucket(n) \in Buckets
                              /\ n \in Chain(Bucket(n))
                              /\ next[n] \in Chain(Bucket(n)) \union {NULL}
<1>1. \A b \in Buckets : tail[b] \in Pointers /\ Chain(b) \subseteq Listed
  BY DEF Types, Listed
<1>2. Listed \subseteq used /\ Listed \subseteq Nodes
  BY DEF Listed, ListSound, Types
<1>3. IsFiniteSet(Listed)
  <2>1. IsFiniteSet(Nodes)
    BY BoundsAssumption, FS_Interval DEF Nodes
  <2> QED
    BY <1>2, <2>1, FS_Subset
<1>4. ASSUME NEW n \in Listed
      PROVE  /\ Bucket(n) \in Buckets /\ n \in Chain(Bucket(n))
             /\ next[n] \in Chain(Bucket(n)) \union {NULL}
  <2>1. PICK b \in Buckets : n \in Chain(b)
    BY DEF Listed
  <2>2. Bucket(n) = b
    BY <2>1 DEF ListSound
  <2>3. ClosedUnder(next, Chain(b))
    BY <1>1, ReachClosed DEF Chain, Types, Links
  <2> QED
    BY <2>1, <2>2, <2>3 DEF ClosedUnder
<1> QED
  BY <1>1, <1>2, <1>3, <1>4

LEMMA CountsStep ==
  ASSUME IndInv, [Next]_vars
  PROVE  len' \in Nat /\ fds' \in 0 .. MaxFd
<1> USE DEF IndInv, Lists
<1>1. CASE \E ip \in IPs, port \in Ports : Accept(ip, port)
  BY <1>1, BoundsAssumption DEF Accept, Types
<1>2. CASE AddLink
  BY <1>2 DEF AddLink, MainOnly, Types
<1>3. CASE Unlink
  <2>1. clock.hit \in Listed
    <3>1. clock.p \in Listed /\ clock.hit \in Chain(Bucket(clock.p))
      BY <1>3 DEF Unlink, ClockAt, Walks
    <3> QED
      BY <3>1, ListsIn
  <2>2. Cardinality(Listed) \in Nat /\ Cardinality(Listed) # 0
    BY <2>1, ListsIn, FS_EmptySet, FS_CardinalityType
  <2> QED
    BY <1>3, <2>2 DEF Unlink, ClockOnly, Types
<1>4. CASE (\E n \in Nodes : Malloc(n)) \/ AcceptFails \/ MainCalls \/ MainEnters
           \/ AddNext \/ MainLeaves
  BY <1>4 DEF Malloc, AcceptFails, MainCalls, MainEnters, AddNext, MainLeaves, Types, table
<1>5. CASE Enter \/ ProbeAnswered \/ ProbeFails \/ ClockEnters \/ FindNext
           \/ ClockLeaves \/ Advance \/ ReaderEnters \/ GetoutCounts \/ ReaderLeaves
  BY <1>5
     DEF Enter, ProbeAnswered, ProbeFails, ClockEnters, FindNext, ClockLeaves, Advance,
         ReaderEnters, GetoutCounts, ReaderLeaves, ClockOnly, Types, table
<1>6. CASE (\E ip \in IPs : UserListens(ip) \/ UserEnds(ip)) \/ UNCHANGED vars
  BY <1>6 DEF UserListens, UserEnds, vars, table, Types
<1> QED
  BY <1>1, <1>2, <1>3, <1>4, <1>5, <1>6 DEF Next, Main, Clock

(***************************************************************************)
(* Types                                                                   *)
(***************************************************************************)
LEMMA TypesStep ==
  ASSUME IndInv, [Next]_vars
  PROVE  Types'
<1> USE DEF IndInv, Lists
<1>1. len' \in Nat /\ fds' \in 0 .. MaxFd
  BY CountsStep
<1>2. phase' \in [{"main", "clock"} -> Lock!Phases]
  BY LockStep DEF Holders
<1>3. NULL \in Pointers /\ Nodes \subseteq Pointers /\ 0 \in 0 .. MAXN
  BY BucketsAssumption DEF Pointers
<1>4. \A n \in Nodes : Bucket(n) \in Buckets
  BY BucketsIn
<1>5. CASE \E n \in Nodes : Malloc(n)
  BY <1>1, <1>2, <1>3, <1>5 DEF Malloc, MainOnly, Types, table
<1>6. CASE \E ip \in IPs, port \in Ports : Accept(ip, port)
  BY <1>1, <1>2, <1>3, <1>6 DEF Accept, MainAt, MainOnly, Types, InHand
<1>7. CASE AcceptFails \/ MainCalls \/ MainEnters \/ MainLeaves
  BY <1>1, <1>2, <1>3, <1>7
     DEF AcceptFails, MainCalls, MainEnters, MainLeaves, MainAt, MainOnly, Types, table
<1>8. CASE AddNext
  <2>1. Bucket(main.work) \in Buckets
    BY <1>4, <1>8 DEF AddNext, MainAt, InHand, Types
  <2> QED
    BY <1>1, <1>2, <1>3, <1>8, <2>1 DEF AddNext, MainAt, MainOnly, Types
<1>9. CASE AddLink
  BY <1>1, <1>2, <1>3, <1>9 DEF AddLink, MainAt, MainOnly, Types
<1>10. CASE Enter \/ Advance
  <2>1. PICK p \in Pointers : Moved(p) /\ (p = NULL => clock.i < MAXN)
    <3>1. CASE Enter
      <4>1. clock.i \in Buckets /\ Moved(tail[clock.i]) /\ clock.i < MAXN
        BY <3>1, BucketsAssumption DEF Enter, Types, Buckets
      <4>2. tail[clock.i] \in Pointers
        BY <4>1 DEF Types
      <4> QED
        BY <4>1, <4>2
    <3>2. CASE Advance
      <4>1. clock.p \in Nodes /\ Moved(next[clock.p]) /\ clock.i < MAXN
        BY <3>2 DEF Advance, Walks
      <4>2. next[clock.p] \in Pointers
        BY <4>1 DEF Types
      <4> QED
        BY <4>1, <4>2
    <3> QED
      BY <1>10, <3>1, <3>2
  <2>2. clock.i < MAXN => clock.i + 1 \in 0 .. MAXN
    BY BucketsAssumption DEF Types
  <2>3. clock' \in [pc : {"bucket", "probe", "enter", "find", "leave", "next", "count", "list"},
                    i : 0 .. MAXN, p : Pointers, old : Pointers, hit : Pointers]
    BY <1>3, <2>1, <2>2 DEF Moved, Types
  <2> QED
    BY <1>1, <1>2, <1>10, <2>3 DEF Enter, Advance, ClockOnly, Types, table
<1>11. CASE ProbeAnswered \/ ProbeFails \/ ClockLeaves \/ GetoutCounts
  <2>1. CASE ProbeAnswered
    BY <1>1, <1>2, <2>1 DEF ProbeAnswered, ClockAt, ClockOnly, Types, table
  <2>2. CASE ProbeFails
    BY <1>1, <1>2, <2>2 DEF ProbeFails, ClockAt, ClockOnly, Types, table
  <2>3. CASE ClockLeaves
    BY <1>1, <1>2, <2>3 DEF ClockLeaves, ClockAt, ClockOnly, Types, table
  <2>4. CASE GetoutCounts
    BY <1>1, <1>2, <2>4 DEF GetoutCounts, ClockAt, ClockOnly, Types, table
  <2> QED
    BY <1>11, <2>1, <2>2, <2>3, <2>4
<1>12. CASE ReaderEnters \/ ReaderLeaves
  <2>1. CASE ReaderEnters
    BY <1>1, <1>2, <1>3, <2>1 DEF ReaderEnters, ClockOnly, Types, table
  <2>2. CASE ReaderLeaves
    BY <1>1, <1>2, <1>3, <2>2 DEF ReaderLeaves, ClockOnly, Types, table
  <2> QED
    BY <1>12, <2>1, <2>2
<1>13. CASE ClockEnters
  <2>1. Bucket(clock.p) \in Buckets
    BY <1>4, <1>13 DEF ClockEnters, Walks, Listed, Chain, Reachable
  <2> QED
    BY <1>1, <1>2, <1>3, <1>13, <2>1 DEF ClockEnters, ClockOnly, Types, table
<1>14. CASE FindNext \/ Unlink
  <2>1. clock.hit \in Nodes /\ next[clock.hit] \in Pointers
    BY <1>14 DEF FindNext, Unlink, ClockAt, Walks, Chain, Reachable, Types
  <2>2. CASE FindNext
    BY <1>1, <1>2, <1>3, <2>1, <2>2 DEF FindNext, ClockOnly, Types, table
  <2>3. CASE Unlink
    BY <1>1, <1>2, <1>3, <2>1, <2>3 DEF Unlink, ClockAt, ClockOnly, Types
  <2> QED
    BY <1>14, <2>2, <2>3
<1>15. CASE (\E ip \in IPs : UserListens(ip) \/ UserEnds(ip)) \/ UNCHANGED vars
  BY <1>1, <1>2, <1>15 DEF UserListens, UserEnds, vars, table, Types
<1> QED
  BY <1>5, <1>6, <1>7, <1>8, <1>9, <1>10, <1>11, <1>12, <1>13, <1>14, <1>15
     DEF Next, Main, Clock

(***************************************************************************)
(* What a step has to leave alone.                                         *)
(***************************************************************************)

\* Fields of nodes outside the table are nothing to its lists.
LEMMA TableKept ==
  ASSUME IndInv, Types', tail' = tail, len' = len, Listed \subseteq used',
         \A n \in Listed : next'[n] = next[n] /\ arg'[n] = arg[n]
  PROVE  /\ \A b \in Buckets : Chain(b)' = Chain(b)
         /\ Listed' = Listed /\ Lists'
<1> USE DEF IndInv, Lists
<1>1. ASSUME NEW b \in Buckets
      PROVE  Chain(b)' = Chain(b) /\ ListSound(b)'
  <2>1. /\ tail[b] \in Pointers /\ next \in Links /\ next' \in Links
        /\ Chain(b) \subseteq Listed
    BY ListsIn DEF Types, Links
  <2>2. \A n \in Reachable(tail[b], next) : next'[n] = next[n]
    BY <2>1 DEF Chain
  <2>3. IsList(tail[b], next)
    BY DEF ListSound
  <2>4. IsList(tail[b], next') /\ Reachable(tail[b], next') = Reachable(tail[b], next)
    BY <2>1, <2>2, <2>3, ListKept
  <2>5. Chain(b)' = Chain(b)
    BY <2>4 DEF Chain
  <2>6. \A n \in Chain(b) : n \in used' /\ Bucket(n)' = b
    BY <2>1 DEF ListSound, Bucket
  <2> QED
    BY <2>4, <2>5, <2>6 DEF ListSound
<1>2. Listed' = Listed
  BY <1>1 DEF Listed
<1> QED
  BY <1>1, <1>2

\* A step of main or of a machine that leaves the lists alone leaves
\* clock_get where it stands.
LEMMA WalksKept ==
  ASSUME IndInv, Types', clock' = clock, printed' = printed,
         tail' = tail, len' = len, Listed \subseteq used',
         \A n \in Listed : next'[n] = next[n] /\ arg'[n] = arg[n],
         clock.pc \in {"leave", "next"} => next'[clock.p] \in Listed \union {NULL}
  PROVE  Walks'
<1> USE DEF IndInv, Lists
<1>1. Listed' = Listed /\ \A b \in Buckets : Chain(b)' = Chain(b)
  BY TableKept
<1>2. CASE clock.pc = "find"
  <2>1. /\ clock.p \in Listed /\ clock.hit \in Chain(Bucket(clock.p))
        /\ clock.p \in Reachable(clock.hit, next)
    BY <1>2 DEF Walks
  <2>2. /\ Bucket(clock.p) \in Buckets /\ Bucket(clock.p)' = Bucket(clock.p)
        /\ Chain(Bucket(clock.p)) \subseteq Listed
    BY <2>1, ListsIn DEF Bucket
  <2>3. /\ clock.hit \in Pointers /\ next \in Links /\ next' \in Links
        /\ Reachable(clock.hit, next) \subseteq Chain(Bucket(clock.p))
    BY <2>1, <2>2, ListsIn, ReachWithin DEF Types, Links, Chain
  <2>4. Reachable(clock.hit, next') = Reachable(clock.hit, next)
    BY <2>2, <2>3, ReachKept
  <2>5. Chain(Bucket(clock.p))' = Chain(Bucket(clock.p))
    BY <1>1, <2>2
  <2> QED
    BY <1>1, <1>2, <2>1, <2>2, <2>4, <2>5 DEF Walks
<1>3. CASE clock.pc # "find"
  BY <1>1, <1>3 DEF Walks
<1> QED
  BY <1>2, <1>3

(***************************************************************************)
(* The steps of main                                                       *)
(***************************************************************************)
LEMMA MallocStep ==
  ASSUME IndInv, Types', NEW n \in Nodes, Malloc(n)
  PROVE  InHand' /\ Walks' /\ Lists' /\ Listed' = Listed
<1> USE DEF IndInv, Lists
<1>1. /\ tail' = tail /\ len' = len /\ next' = next /\ arg' = arg
      /\ used' = used \union {n} /\ n \notin used /\ clock' = clock /\ printed' = printed
      /\ main' = [pc |-> "accept", work |-> n]
  BY DEF Malloc, MainOnly, table
<1>2. Listed \subseteq used /\ Listed \subseteq used'
  BY <1>1, ListsIn
<1>3. Listed' = Listed /\ Lists'
  BY <1>1, <1>2, TableKept
<1>4. clock.pc \in {"leave", "next"} => next'[clock.p] \in Listed \union {NULL}
  BY <1>1 DEF Walks
<1>5. Walks'
  BY <1>1, <1>2, <1>4, WalksKept
<1>6. InHand'
  BY <1>1, <1>2, <1>3, NodesArePointers DEF InHand
<1> QED
  BY <1>3, <1>5, <1>6

LEMMA AcceptStep ==
  ASSUME IndInv, Types', NEW ip, NEW port, Accept(ip, port)
  PROVE  InHand' /\ Walks' /\ Lists' /\ Listed' = Listed
<1> USE DEF IndInv, Lists
<1>1. /\ tail' = tail /\ len' = len /\ used' = used
      /\ clock' = clock /\ printed' = printed
      /\ main.pc = "accept" /\ main' = [main EXCEPT !.pc = "call"]
      /\ next' = [next EXCEPT ![main.work] = NULL]
      /\ arg' = [arg EXCEPT ![main.work] = [ip |-> ip, port |-> port]]
  BY DEF Accept, MainAt, MainOnly
<1>2. main.work \in used /\ main.work \notin Listed /\ main.work # NULL
  BY <1>1 DEF InHand
<1>3. Listed \subseteq used' /\ Listed \subseteq Nodes
  BY <1>1, ListsIn
<1>4. \A n \in Listed : next'[n] = next[n] /\ arg'[n] = arg[n]
  BY <1>1, <1>2, <1>3 DEF Types
<1>5. Listed' = Listed /\ Lists'
  BY <1>1, <1>3, <1>4, TableKept
<1>6. clock.pc \in {"leave", "next"} => next'[clock.p] \in Listed \union {NULL}
  BY <1>1 DEF Walks, Types
<1>7. Walks'
  BY <1>1, <1>3, <1>4, <1>6, WalksKept
<1>8. InHand'
  BY <1>1, <1>2, <1>5 DEF InHand, Types
<1> QED
  BY <1>5, <1>7, <1>8

\* The steps of main that touch no node.
LEMMA MainPasses ==
  ASSUME IndInv, Types', AcceptFails \/ MainCalls \/ MainEnters \/ MainLeaves
  PROVE  InHand' /\ Walks' /\ Lists' /\ Listed' = Listed
<1> USE DEF IndInv, Lists
<1>1. /\ tail' = tail /\ len' = len /\ next' = next /\ arg' = arg
      /\ used' = used /\ clock' = clock /\ printed' = printed
  BY DEF AcceptFails, MainCalls, MainEnters, MainLeaves, MainOnly, table
<1>2. Listed' = Listed /\ Lists'
  BY <1>1, ListsIn, TableKept
<1>3. clock.pc \in {"leave", "next"} => next'[clock.p] \in Listed \union {NULL}
  BY <1>1 DEF Walks
<1>4. Walks'
  BY <1>1, <1>3, ListsIn, WalksKept
<1>5. InHand'
  BY <1>1, <1>2 DEF AcceptFails, MainCalls, MainEnters, MainLeaves, MainAt, InHand, Types
<1> QED
  BY <1>2, <1>4, <1>5

LEMMA AddNextStep ==
  ASSUME IndInv, Types', AddNext
  PROVE  InHand' /\ Walks' /\ Lists' /\ Listed' = Listed
<1> USE DEF IndInv, Lists
<1>1. /\ tail' = tail /\ len' = len /\ used' = used /\ arg' = arg
      /\ clock' = clock /\ printed' = printed
      /\ main.pc = "add" /\ main' = [main EXCEPT !.pc = "link"]
      /\ next' = [next EXCEPT ![main.work] = tail[Bucket(main.work)]]
  BY DEF AddNext, MainAt, MainOnly
<1>2. main.work \in Nodes /\ main.work \in used /\ main.work \notin Listed
      /\ main.work # NULL
  BY <1>1 DEF InHand, Types
<1>3. Listed \subseteq used' /\ Listed \subseteq Nodes
  BY <1>1, ListsIn
<1>4. \A n \in Listed : next'[n] = next[n] /\ arg'[n] = arg[n]
  BY <1>1, <1>2, <1>3 DEF Types
<1>5. Listed' = Listed /\ Lists'
  BY <1>1, <1>3, <1>4, TableKept
<1>6. tail[Bucket(main.work)] \in Listed \union {NULL}
  <2>1. Bucket(main.work) \in Buckets
    BY <1>2, BucketsIn
  <2> QED
    BY <2>1, ListsIn, ReachClosed DEF Chain, Types, Links
<1>7. clock.pc \in {"leave", "next"} => next'[clock.p] \in Listed \union {NULL}
  BY <1>1, <1>6 DEF Walks, Types
<1>8. Walks'
  BY <1>1, <1>3, <1>4, <1>7, WalksKept
<1>9. InHand'
  BY <1>1, <1>2, <1>5 DEF InHand, Types, Bucket
<1> QED
  BY <1>5, <1>8, <1>9

\* The node comes in front of the list it already has behind it.
LEMMA AddLinkStep ==
  ASSUME IndInv, Types', AddLink
  PROVE  InHand' /\ Walks' /\ Lists' /\ Listed' = Listed \union {main.work}
<1> USE DEF IndInv, Lists
<1>1. main.pc = "link" /\ main.work \in Nodes /\ Bucket(main.work) \in Buckets
  BY BucketsIn DEF AddLink, MainAt, InHand, Types
<1> PICK w \in Nodes : w = main.work
  BY <1>1
<1> PICK c \in Buckets : c = Bucket(w)
  BY <1>1
<1>2. /\ tail' = [tail EXCEPT ![c] = w] /\ len' = len + 1
      /\ next' = next /\ arg' = arg /\ used' = used
      /\ clock' = clock /\ printed' = printed
      /\ main.pc = "link" /\ main' = [main EXCEPT !.pc = "leave"]
  BY DEF AddLink, MainAt, MainOnly
<1>3. w \in Nodes /\ w \in used /\ w \notin Listed /\ w # NULL /\ next[w] = tail[c]
  BY <1>2 DEF InHand
<1>4. \A n : Bucket(n)' = Bucket(n)
  BY <1>2 DEF Bucket
<1>5. tail'[c] = w /\ \A b \in Buckets \ {c} : tail'[b] = tail[b]
  BY <1>2, <1>3 DEF Types
<1>6. Chain(c)' = {w} \union Chain(c) /\ IsList(w, next)
  <2>1. next \in Links
    BY DEF Types, Links
  <2>2. IsList(next[w], next) /\ w \notin Reachable(next[w], next)
    BY <1>3, ListsIn DEF ListSound, Chain
  <2> QED
    BY <1>2, <1>3, <1>5, <2>1, <2>2, LinkInFront DEF Chain
<1>7. \A b \in Buckets \ {c} : Chain(b)' = Chain(b)
  BY <1>2, <1>5 DEF Chain
<1>8. Listed' = Listed \union {w}
  BY <1>6, <1>7 DEF Listed
<1>9. ASSUME NEW b \in Buckets
      PROVE  ListSound(b)'
  <2>1. CASE b = c
    <3>1. w \in used' /\ Bucket(w)' = c
      BY <1>2, <1>3, <1>4
    <3>2. \A n \in Chain(c) : n \in used' /\ Bucket(n)' = c
      BY <1>2, <1>4 DEF ListSound
    <3>3. IsList(tail[c], next)'
      BY <1>2, <1>5, <1>6
    <3> QED
      BY <1>6, <2>1, <3>1, <3>2, <3>3 DEF ListSound
  <2>2. CASE b # c
    <3>1. IsList(tail[b], next)'
      BY <1>2, <1>5, <2>2 DEF ListSound
    <3> QED
      BY <1>2, <1>4, <1>7, <2>2, <3>1 DEF ListSound
  <2> QED
    BY <2>1, <2>2
<1>10. len' = Cardinality(Listed')
  <2>1. Cardinality(Listed \union {w}) = Cardinality(Listed) + 1
    BY <1>3, ListsIn, FS_AddElement
  <2> QED
    BY <1>2, <1>8, <2>1
<1>11. Walks'
  <2>1. clock.pc \in {"bucket", "probe", "enter", "next"}
    BY <1>2 DEF LockHeld, MainHolds, ClockHolds, Types
  <2> QED
    BY <1>2, <1>8, <2>1 DEF Walks
<1>12. InHand'
  BY <1>2, <1>3 DEF InHand, Types
<1> QED
  BY <1>8, <1>9, <1>10, <1>11, <1>12

(***************************************************************************)
(* The steps of clock_get that change no list                              *)
(***************************************************************************)
ClockPasses ==
  Enter \/ ProbeAnswered \/ ProbeFails \/ ClockEnters \/ FindNext
  \/ ClockLeaves \/ Advance \/ ReaderEnters \/ GetoutCounts \/ ReaderLeaves

LEMMA ClockKeeps ==
  ASSUME IndInv, Types', ClockPasses
  PROVE  /\ tail' = tail /\ len' = len /\ next' = next /\ arg' = arg
         /\ \A b \in Buckets : Chain(b)' = Chain(b)
         /\ Listed' = Listed /\ Lists' /\ InHand'
<1> USE DEF IndInv, Lists
<1>1. /\ tail' = tail /\ len' = len /\ next' = next /\ arg' = arg
      /\ used' = used /\ main' = main
  BY DEF ClockPasses, Enter, ProbeAnswered, ProbeFails, ClockEnters, FindNext, ClockLeaves,
         Advance, ReaderEnters, GetoutCounts, ReaderLeaves, ClockOnly, table
<1>2. Listed' = Listed /\ Lists' /\ \A b \in Buckets : Chain(b)' = Chain(b)
  BY <1>1, ListsIn, TableKept
<1>3. InHand'
  BY <1>1, <1>2 DEF InHand, Bucket
<1> QED
  BY <1>1, <1>2, <1>3

LEMMA MovedStep ==
  ASSUME IndInv, Types', Enter \/ Advance
  PROVE  Walks'
<1> USE DEF IndInv, Lists
<1>1. Listed' = Listed
  BY ClockKeeps DEF ClockPasses
<1>2. PICK p \in Listed \union {NULL} : Moved(p) /\ clock.i < MAXN
  <2>1. CASE Enter
    <3>1. clock.i \in Buckets /\ clock.i < MAXN /\ Moved(tail[clock.i])
      BY <2>1, BucketsAssumption DEF Enter, Types, Buckets
    <3>2. tail[clock.i] \in Listed \union {NULL}
      BY <3>1, ListsIn, ReachClosed DEF Chain, Types, Links
    <3> QED
      BY <3>1, <3>2
  <2>2. CASE Advance
    BY <2>2 DEF Advance, Walks
  <2> QED
    BY <2>1, <2>2
<1>3. CASE p = NULL
  BY <1>2, <1>3 DEF Moved, Walks, Types
<1>4. CASE p # NULL
  BY <1>1, <1>2, <1>4 DEF Moved, Walks, Types
<1> QED
  BY <1>3, <1>4

LEMMA ProbeStep ==
  ASSUME IndInv, Types', ProbeAnswered \/ ProbeFails \/ ClockLeaves
  PROVE  Walks'
<1> USE DEF IndInv, Lists
<1>1. Listed' = Listed /\ next' = next
  BY ClockKeeps DEF ClockPasses
<1>2. CASE ProbeAnswered
  <2>1. clock.p \in Listed /\ clock.i < MAXN /\ clock' = [clock EXCEPT !.pc = "next"]
    BY <1>2 DEF ProbeAnswered, ClockAt, Walks
  <2>2. clock.p \in Nodes /\ next[clock.p] \in Listed \union {NULL}
    BY <2>1, ListsIn
  <2> QED
    BY <1>1, <2>1, <2>2 DEF Walks, Types
<1>3. CASE ProbeFails
  BY <1>1, <1>3 DEF ProbeFails, ClockAt, Walks, Types
<1>4. CASE ClockLeaves
  BY <1>1, <1>4 DEF ClockLeaves, ClockAt, Walks, Types
<1> QED
  BY <1>2, <1>3, <1>4

\* del starts at the front of the bucket, and has not passed the node that
\* did not answer.
LEMMA ClockEntersStep ==
  ASSUME IndInv, Types', ClockEnters
  PROVE  Walks'
<1> USE DEF IndInv, Lists
<1>1. /\ Listed' = Listed /\ next' = next /\ tail' = tail /\ arg' = arg
      /\ \A b \in Buckets : Chain(b)' = Chain(b)
  BY ClockKeeps DEF ClockPasses
<1>2. clock.p \in Listed /\ clock.i < MAXN
  BY DEF ClockEnters, Walks
<1> PICK c \in Buckets : c = Bucket(clock.p)
  BY <1>2, ListsIn
<1> PICK h \in Pointers : h = tail[c]
  BY DEF Types
<1>3. /\ clock.p \in Reachable(h, next) /\ h # NULL /\ h \in Chain(c)
  BY <1>2, ListsIn, ReachClosed, ReachNothing DEF Chain, Types, Links
<1>4. clock' = [clock EXCEPT !.pc = "find", !.old = NULL, !.hit = h]
  BY DEF ClockEnters
<1>5. /\ clock'.pc = "find" /\ clock'.old = NULL /\ clock'.hit = h
      /\ clock'.p = clock.p /\ clock'.i = clock.i
  BY <1>4 DEF Types
<1>6. Bucket(clock.p)' = c
  BY <1>1, <1>5 DEF Bucket
<1> QED
  BY <1>1, <1>2, <1>3, <1>5, <1>6 DEF Walks

LEMMA FindNextStep ==
  ASSUME IndInv, Types', FindNext
  PROVE  Walks'
<1> USE DEF IndInv, Lists
<1>1. /\ Listed' = Listed /\ next' = next /\ tail' = tail /\ arg' = arg
      /\ \A b \in Buckets : Chain(b)' = Chain(b)
  BY ClockKeeps DEF ClockPasses
<1>2. /\ clock.p \in Listed /\ clock.i < MAXN
      /\ clock.hit \in Chain(Bucket(clock.p)) /\ clock.p \in Reachable(clock.hit, next)
      /\ clock.hit # clock.p
  BY DEF FindNext, Walks, Matches
<1> PICK c \in Buckets : c = Bucket(clock.p)
  BY <1>2, ListsIn
<1> PICK h \in Nodes : h = clock.hit
  BY <1>2, ListsIn
<1>3. next \in Links /\ tail[c] \in Pointers
  BY DEF Types, Links
<1>4. clock.p \in Reachable(next[h], next)
  BY <1>2, <1>3, ReachUnfold
<1>5. next[h] # NULL
  BY <1>4, ReachNothing
<1>6. next[h] \in Chain(c)
  BY <1>2, <1>3, <1>5, ReachClosed DEF Chain, ClosedUnder
<1>7. clock' = [clock EXCEPT !.old = h, !.hit = next[h]] /\ clock.pc = "find"
  BY DEF FindNext
<1>8. /\ clock'.pc = "find" /\ clock'.old = h /\ clock'.hit = next[h]
      /\ clock'.p = clock.p /\ clock'.i = clock.i
  BY <1>7 DEF Types
<1>9. Bucket(clock.p)' = c
  BY <1>1, <1>8 DEF Bucket
<1>10. h # NULL
  BY NodesArePointers
<1> QED
  BY <1>1, <1>2, <1>4, <1>6, <1>8, <1>9, <1>10 DEF Walks

LEMMA ReaderStep ==
  ASSUME IndInv, Types', ReaderEnters \/ GetoutCounts \/ ReaderLeaves
  PROVE  Walks'
<1> USE DEF IndInv, Lists
<1>1. Listed' = Listed /\ next' = next /\ len' = len
  BY ClockKeeps DEF ClockPasses
<1> QED
  BY <1>1 DEF ReaderEnters, GetoutCounts, ReaderLeaves, ClockAt, Walks, Types

(***************************************************************************)
(* del                                                                     *)
(***************************************************************************)
LEMMA UnlinkLists ==
  ASSUME IndInv, Types', Unlink,
         NEW c \in Buckets, c = Bucket(clock.p), NEW h \in Nodes, h = clock.hit
  PROVE  /\ h \in Chain(c) /\ used' = used \ {h} /\ arg' = arg /\ next'[h] = next[h]
         /\ Chain(c)' = Chain(c) \ {h} /\ IsList(tail[c], next)'
         /\ \A b \in Buckets \ {c} : Chain(b)' = Chain(b) /\ IsList(tail[b], next)'
<1> USE DEF IndInv, Lists
<1>1. /\ next \in Links /\ next' \in Links /\ h # NULL
      /\ \A b \in Buckets : tail[b] \in Pointers /\ tail'[b] \in Pointers
  BY NodesArePointers DEF Types, Links
<1>2. h \in Chain(c) /\ used' = used \ {h} /\ arg' = arg
  BY DEF Unlink, ClockAt, ClockOnly, Walks
<1>3. IsList(tail[c], next) /\ Reachable(tail[c], next) = Chain(c)
  BY DEF ListSound, Chain
<1>4. CASE clock.old = NULL
  <2>1. /\ h = tail[c] /\ next' = next
        /\ tail' = [tail EXCEPT ![c] = next[h]]
    BY <1>4 DEF Unlink, ClockAt, Walks
  <2>2. tail'[c] = next[h] /\ \A b \in Buckets \ {c} : tail'[b] = tail[b]
    BY <2>1 DEF Types
  <2>3. /\ Reachable(next[h], next) = Chain(c) \ {h} /\ IsList(next[h], next)
    BY <1>1, <1>3, <2>1, UnlinkFirst
  <2>4. Chain(c)' = Chain(c) \ {h} /\ IsList(tail[c], next)'
    BY <2>1, <2>2, <2>3 DEF Chain
  <2>5. \A b \in Buckets \ {c} : Chain(b)' = Chain(b) /\ IsList(tail[b], next)'
    BY <2>1, <2>2 DEF Chain, ListSound
  <2> QED
    BY <1>2, <2>1, <2>4, <2>5
<1>5. CASE clock.old # NULL
  <2> PICK o \in Nodes : o = clock.old
    BY <1>5 DEF Types, Pointers
  <2>1. /\ o \in Chain(c) /\ next[o] = h /\ tail' = tail
        /\ next' = [next EXCEPT ![o] = next[h]]
    BY <1>5 DEF Unlink, ClockAt, Walks
  <2>2. Reachable(tail[c], next') = Chain(c) \ {h} /\ IsList(tail[c], next')
    <3>1. /\ tail[c] \in Pointers /\ next \in Links /\ IsList(tail[c], next)
          /\ o \in Reachable(tail[c], next) /\ next[o] = h
      BY <1>1, <1>3, <2>1
    <3> HIDE DEF IndInv, Lists
    <3>2. /\ Reachable(tail[c], [next EXCEPT ![o] = next[h]]) = Reachable(tail[c], next) \ {h}
          /\ IsList(tail[c], [next EXCEPT ![o] = next[h]])
      BY <3>1, UnlinkLater
    <3> QED
      BY <1>3, <2>1, <3>2
  <2>3. Chain(c)' = Chain(c) \ {h} /\ IsList(tail[c], next)'
    BY <2>1, <2>2 DEF Chain
  <2>4. ASSUME NEW b \in Buckets \ {c}
        PROVE  Chain(b)' = Chain(b) /\ IsList(tail[b], next)'
    <3>1. o \notin Chain(b)
      BY <2>1 DEF ListSound
    <3>2. \A n \in Chain(b) : next'[n] = next[n]
      BY <2>1, <3>1, ListsIn DEF Types
    <3>3. IsList(tail[b], next)
      BY DEF ListSound
    <3>4. IsList(tail[b], next') /\ Reachable(tail[b], next') = Reachable(tail[b], next)
      BY <1>1, <3>2, <3>3, ListKept DEF Chain
    <3> QED
      BY <2>1, <3>4 DEF Chain
  <2>5. o # h
    <3>1. o \notin Reachable(h, next)
      BY <1>3, <2>1 DEF IsList
    <3> QED
      BY <1>1, <3>1, ReachClosed, NodesArePointers
  <2>6. next'[h] = next[h]
    BY <2>1, <2>5 DEF Types
  <2> QED
    BY <1>2, <2>3, <2>4, <2>6
<1> QED
  BY <1>4, <1>5

LEMMA UnlinkStep ==
  ASSUME IndInv, Types', Unlink
  PROVE  InHand' /\ Walks' /\ Lists' /\ Listed' = Listed \ {clock.hit}
<1> USE DEF IndInv, Lists
<1>1. /\ clock.p \in Listed /\ clock.i < MAXN
      /\ clock.hit \in Chain(Bucket(clock.p))
  BY DEF Unlink, ClockAt, Walks
<1> PICK c \in Buckets : c = Bucket(clock.p)
  BY <1>1, ListsIn
<1> PICK h \in Nodes : h = clock.hit
  BY <1>1, ListsIn
<1> PICK p \in Nodes : p = clock.p
  BY <1>1, ListsIn
<1>2. /\ h \in Chain(c) /\ used' = used \ {h} /\ arg' = arg /\ next'[h] = next[h]
      /\ Chain(c)' = Chain(c) \ {h} /\ IsList(tail[c], next)'
      /\ \A b \in Buckets \ {c} : Chain(b)' = Chain(b) /\ IsList(tail[b], next)'
  BY UnlinkLists
<1>3. \A n : Bucket(n)' = Bucket(n)
  BY <1>2 DEF Bucket
<1>4. \A b \in Buckets \ {c} : h \notin Chain(b)
  BY <1>2 DEF ListSound
<1>5. Listed' = Listed \ {h}
  BY <1>2, <1>4 DEF Listed
<1>6. \A b \in Buckets : ListSound(b)'
  BY <1>2, <1>3, <1>4 DEF ListSound
<1>7. len' = Cardinality(Listed')
  <2>1. h \in Listed
    BY <1>2, ListsIn
  <2>2. Cardinality(Listed \ {h}) = Cardinality(Listed) - 1
    BY <2>1, ListsIn, FS_RemoveElement
  <2> QED
    BY <1>5, <2>2 DEF Unlink
<1>8. next'[p] \in Listed' \union {NULL}
  <2>1. CASE p = h
    <3>1. next[h] \in Chain(c) \union {NULL}
      BY <1>1, <2>1, ListsIn
    <3>2. h \notin Reachable(next[h], next)
      BY <1>2 DEF ListSound, IsList, Chain
    <3>3. next[h] # h
      BY <3>2, ReachClosed, NodesArePointers DEF Types, Links
    <3> QED
      BY <1>2, <1>5, <2>1, <3>1, <3>3, ListsIn
  <2>2. CASE p # h
    <3>1. p \in Chain(c)'
      BY <1>1, <1>2, <2>2, ListsIn
    <3>2. ClosedUnder(next', Chain(c)')
      BY ReachClosed DEF Chain, Types, Links
    <3>3. next'[p] \in Chain(c)' \union {NULL}
      BY <3>1, <3>2 DEF ClosedUnder
    <3> QED
      BY <3>3 DEF Listed
  <2> QED
    BY <2>1, <2>2
<1>9. Walks'
  <2>1. clock' = [clock EXCEPT !.pc = "leave"]
    BY DEF Unlink, ClockAt
  <2>2. clock'.pc = "leave" /\ clock'.p = p /\ clock'.i = clock.i
    BY <2>1 DEF Types
  <2> QED
    BY <1>1, <1>8, <2>2 DEF Walks
<1>10. InHand'
  <2>1. main' = main /\ main.pc # "link"
    BY DEF Unlink, ClockAt, ClockOnly, LockHeld, MainHolds, ClockHolds, Types
  <2>2. h \in Listed
    BY <1>2, ListsIn
  <2> QED
    BY <1>2, <1>5, <2>1, <2>2 DEF InHand
<1> QED
  BY <1>5, <1>6, <1>7, <1>9, <1>10

(***************************************************************************)
(* The theorems                                                            *)
(***************************************************************************)
LEMMA NextInv ==
  ASSUME IndInv, [Next]_vars
  PROVE  IndInv' /\ (Unlink \/ Listed \subseteq Listed')
<1>1. Types' /\ LockHeld'
  BY TypesStep, LockStep
<1>2. CASE Main
  BY <1>1, <1>2, MallocStep, MainPasses, AddNextStep, AddLinkStep DEF Main, IndInv
<1>3. CASE \E ip \in IPs, port \in Ports : Accept(ip, port)
  BY <1>1, <1>3, AcceptStep DEF IndInv
<1>4. CASE Unlink
  BY <1>1, <1>4, UnlinkStep DEF IndInv
<1>5. CASE ClockPasses
  <2>1. Walks'
    BY <1>1, <1>5, MovedStep, ProbeStep, ClockEntersStep, FindNextStep, ReaderStep DEF ClockPasses
  <2> QED
    BY <1>1, <1>5, <2>1, ClockKeeps DEF IndInv
<1>6. CASE (\E ip \in IPs : UserListens(ip) \/ UserEnds(ip)) \/ UNCHANGED vars
  <2>1. /\ tail' = tail /\ len' = len /\ next' = next /\ arg' = arg /\ used' = used
        /\ main' = main /\ clock' = clock /\ printed' = printed
    BY <1>6 DEF UserListens, UserEnds, vars, table
  <2>2. Listed' = Listed /\ Lists'
    BY <1>1, <2>1, ListsIn, TableKept DEF IndInv, Lists
  <2>3. Walks'
    <3>1. clock.pc \in {"leave", "next"} => next'[clock.p] \in Listed \union {NULL}
      BY <2>1 DEF IndInv, Walks
    <3> QED
      BY <1>1, <2>1, <3>1, ListsIn, WalksKept DEF IndInv, Lists
  <2>4. InHand'
    BY <2>1, <2>2 DEF IndInv, InHand, Bucket
  <2> QED
    BY <1>1, <2>2, <2>3, <2>4 DEF IndInv
<1> QED
  BY <1>2, <1>3, <1>4, <1>5, <1>6 DEF Next, Clock, ClockPasses

\* The invariant the rest follows from: the lists, the node in the hands of
\* main and the places of clock_get and del fit together in every state.
THEOREM TableInvariant == Spec => []IndInv
<1>1. Init => IndInv
  BY InitInv
<1>2. IndInv /\ [Next]_vars => IndInv'
  BY NextInv
<1> QED
  BY <1>1, <1>2, PTL DEF Spec

\* The lists of the buckets end, share no node and hold allocated nodes of
\* their bucket, and len counts them, for any number of users (hash.cpp).
THEOREM TablesStaySound == Spec => []TableSound
<1>1. IndInv => TableSound
  <2> SUFFICES ASSUME IndInv PROVE TableSound
    OBVIOUS
  <2>1. \A b \in Buckets : Ended(b) /\ \A n \in Chain(b) : Bucket(n) = b
    BY DEF IndInv, Lists, ListSound, IsList, Ended, Chain
  <2>2. Listed \subseteq used
    BY ListsIn DEF IndInv, Lists
  <2> QED
    BY <2>1, <2>2 DEF IndInv, Types, Lists, TableSound
<1> QED
  BY <1>1, TableInvariant, PTL

\* clock_get never connects to the address of a freed node, del never runs
\* off a list, and getout prints one state of the table.
THEOREM WalksStaySound == Spec => []WalkSound
<1>1. IndInv => WalkSound
  BY DEF IndInv, Walks, Lists, WalkSound
<1> QED
  BY <1>1, TableInvariant, PTL

\* The user a removal takes out of the table is the one that did not answer,
\* or shares its bucket and its port.
THEOREM RemovalsProbed == Spec => RemovesProbed
<1>1. IndInv /\ [Next]_vars
        => [\A n \in Listed : n \notin Listed' =>
              n = clock.p \/ \E m \in Listed : Clash(m, n)]_vars
  <2> SUFFICES ASSUME IndInv, [Next]_vars, NEW n \in Listed, n \notin Listed'
               PROVE  n = clock.p \/ \E m \in Listed : Clash(m, n)
    OBVIOUS
  <2>1. Types' /\ LockHeld'
    BY TypesStep, LockStep
  <2>2. CASE Unlink
    <3>1. n = clock.hit
      BY <2>1, <2>2, UnlinkStep
    <3>2. /\ clock.p \in Listed /\ clock.hit \in Chain(Bucket(clock.p))
          /\ arg[clock.hit].port = arg[clock.p].port
      BY <2>2 DEF IndInv, Walks, Unlink, ClockAt, Matches
    <3>3. Bucket(clock.hit) = Bucket(clock.p)
      BY <3>2, ListsIn DEF IndInv, Lists, ListSound
    <3> QED
      BY <3>1, <3>2, <3>3 DEF Clash
  <2> QED
    BY <2>2, NextInv
<1> QED
  BY <1>1, TableInvariant, PTL DEF Spec, RemovesProbed

=============================================================================
