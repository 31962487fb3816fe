------------------------ MODULE HeartbeatRoundProofs ------------------------
(***************************************************************************)
(* A heartbeat that could start every connection judges each client by its *)
(* own one, whatever the clients and the other threads do: for every       *)
(* number of clients and descriptors.                                      *)
(***************************************************************************)
EXTENDS HeartbeatRound, SequenceTheorems, TLAPS

(***************************************************************************)
(* The inductive invariant.  Its main parts speak of a heartbeat that has  *)
(* never failed to start a connection (~tainted): after such a failure a   *)
(* node is judged by a stale number, and none of this holds.               *)
(***************************************************************************)
\* The node at position j has its connection and has not had its verdict.
Awaits(j) == \/ pc = "probe" /\ j < i
             \/ pc = "select"
             \/ pc = "judge" /\ j >= i

\* The number a node remembers stands for the connection to that very client.
Owned(c) == /\ sock[sId[c]].to = c
            /\ sock[sId[c]].state \in {"pending", "accepted", "refused"}

NoneTwice  == \A j, k \in DOMAIN nodes : nodes[j] = nodes[k] => j = k
AtRest     == (pc \in {"sleep", "select"} => i = 1) /\ (pc = "sleep" => fds = {})
OthersOwn  == ~tainted => \A f \in others : sock[f] = Foreign
AskedOwned == ~tainted =>
  \A j \in DOMAIN nodes : Awaits(j) => nodes[j] \in asked /\ Owned(nodes[j])

\* Until select runs, the fd_set holds exactly the numbers remembered.
SetExact == ~tainted /\ pc \in {"probe", "select"} =>
  \A f \in FDs : f \in fds <=> \E j \in DOMAIN nodes : Awaits(j) /\ sId[nodes[j]] = f

\* After it, what select saw of a node still shows in its connection.
AnswersKnown == ~tainted /\ pc = "judge" =>
  \A j \in DOMAIN nodes : Awaits(j) =>
    /\ nodes[j] \in answered => /\ sId[nodes[j]] \in fds
                                /\ sock[sId[nodes[j]]].state = "accepted"
    /\ nodes[j] \notin answered /\ sId[nodes[j]] \in fds =>
         sock[sId[nodes[j]]].state = "refused"

\* A connection that is open belongs to a node that awaits its verdict.
NoneLeft == ~tainted /\ ~unheard =>
  \A f \in FDs : sock[f] \notin {Closed, Foreign} =>
    \E j \in DOMAIN nodes : Awaits(j) /\ sId[nodes[j]] = f

IndInv == /\ TypeOK /\ NoneTwice /\ AtRest /\ OthersOwn /\ AskedOwned
          /\ SetExact /\ AnswersKnown /\ NoneLeft

SockType == [to : Clients, state : {"pending", "accepted", "refused", "failed"}]
              \cup {Closed, Foreign}

LEMMA NodesTyped ==
  TypeOK => /\ DOMAIN nodes = 1 .. Len(nodes) /\ Len(nodes) \in Nat
            /\ \A j \in DOMAIN nodes : nodes[j] \in Clients /\ j \in Nat
            /\ \A c \in Clients : sId[c] \in FDs
            /\ i \in Nat
BY DEF TypeOK

\* An owned number stands for a connection, and for one client's only.
LEMMA OwnedIs ==
  ASSUME TypeOK, NEW c \in Clients, Owned(c)
  PROVE  /\ sock[sId[c]] \notin {Closed, Foreign}
         /\ \A state : sock[sId[c]].state = state => sock[sId[c]] = Probe(c, state)
<1>1. sock[sId[c]] \in SockType
  BY DEF TypeOK, SockType
<1>2. sock[sId[c]].state \notin {"closed", "foreign"}
  BY DEF Owned
<1>3. sock[sId[c]] \notin {Closed, Foreign}
  BY <1>2 DEF Closed, Foreign
<1> QED
  BY <1>1, <1>3 DEF Owned, Probe, SockType

(***************************************************************************)
(* What a removal leaves of the walking order.                             *)
(***************************************************************************)
LEMMA RemoveAtIs ==
  ASSUME NEW S, NEW s \in Seq(S), NEW n \in 1 .. Len(s)
  PROVE  /\ RemoveAt(s, n) \in Seq(S)
         /\ Len(RemoveAt(s, n)) = Len(s) - 1
         /\ \A j \in 1 .. Len(s) - 1 :
              RemoveAt(s, n)[j] = IF j < n THEN s[j] ELSE s[j+1]
<1> DEFINE t == SubSeq(s, 1, n-1)
           u == SubSeq(s, n+1, Len(s))
<1>1. /\ t \in Seq(S) /\ Len(t) = n - 1
      /\ \A j \in 1 .. n-1 : t[j] = s[j]
  OBVIOUS
<1>2. /\ u \in Seq(S) /\ Len(u) = Len(s) - n
      /\ \A j \in 1 .. Len(s) - n : u[j] = s[n+j]
  OBVIOUS
<1>3. RemoveAt(s, n) = t \o u
  BY DEF RemoveAt
<1> HIDE DEF t, u
<1>4. /\ t \o u \in Seq(S) /\ Len(t \o u) = Len(t) + Len(u)
      /\ \A j \in 1 .. Len(t) + Len(u) :
           (t \o u)[j] = IF j <= Len(t) THEN t[j] ELSE u[j - Len(t)]
  BY <1>1, <1>2, ConcatProperties
<1>6. Len(t) + Len(u) = Len(s) - 1
  BY <1>1, <1>2
<1>5. ASSUME NEW j \in 1 .. Len(s) - 1
      PROVE  (t \o u)[j] = IF j < n THEN s[j] ELSE s[j+1]
  <2>1. (t \o u)[j] = IF j <= Len(t) THEN t[j] ELSE u[j - Len(t)]
    BY <1>4, <1>6
  <2>2. CASE j < n
    <3>1. j <= Len(t) /\ j \in 1 .. n - 1
      BY <1>1, <2>2
    <3> QED
      BY <1>1, <2>1, <2>2, <3>1
  <2>3. CASE ~(j < n)
    <3>1. ~(j <= Len(t)) /\ j - Len(t) \in 1 .. Len(s) - n /\ n + (j - Len(t)) = j + 1
      BY <1>1, <2>3
    <3> QED
      BY <1>2, <2>1, <2>3, <3>1
  <2> QED
    BY <2>2, <2>3
<1> QED
  BY <1>3, <1>4, <1>5, <1>6

LEMMA InitIndInv == Init => IndInv
<1> SUFFICES ASSUME Init PROVE IndInv
  OBVIOUS
<1>1. 0 \in FDs /\ Len(nodes) = 0 /\ nodes \in Seq(Clients) /\ DOMAIN nodes = {}
  BY FdAssumption DEF Init, FDs
<1>2. TypeOK
  <2>1. sId \in [Clients -> FDs] /\ sock \in [FDs -> {Closed, Foreign}]
    BY <1>1 DEF Init
  <2>2. sock \in [FDs -> SockType]
    BY <2>1 DEF SockType
  <2>3. others \subseteq FDs /\ silent \subseteq Clients /\ i \in 1 .. Len(nodes) + 1
    BY <1>1 DEF Init
  <2> QED
    BY <1>1, <2>1, <2>2, <2>3 DEF Init, TypeOK, SockType
<1>3. \A f \in FDs : sock[f] \in {Closed, Foreign}
  BY DEF Init
<1> QED
  BY <1>1, <1>2, <1>3 DEF Init, IndInv, NoneTwice, AtRest, OthersOwn, AskedOwned,
                          SetExact, AnswersKnown, NoneLeft

(***************************************************************************)
(* Clients and other threads.                                              *)
(***************************************************************************)
\* A step outside the heartbeat may open and close what no node owns, and may
\* bring a pending connection its answer.
LEMMA SocketsMove ==
  ASSUME IndInv, TypeOK', OthersOwn',
         UNCHANGED <<nodes, sId>>, HeartbeatsOwn,
         ~tainted => \A f \in FDs :
           \/ sock'[f] = sock[f]
           \/ sock[f] \in {Closed, Foreign} /\ sock'[f] \in {Closed, Foreign}
           \/ /\ sock[f].state = "pending"
              /\ sock'[f].to = sock[f].to
              /\ sock'[f].state \in {"accepted", "refused"}
  PROVE  IndInv'
<1>1. NoneTwice' /\ AtRest' /\ SetExact'
  BY DEF IndInv, HeartbeatsOwn, NoneTwice, AtRest, SetExact, Awaits
<1>2. ASSUME ~tainted, NEW j \in DOMAIN nodes, Awaits(j)
      PROVE  /\ nodes[j] \in asked
             /\ sock'[sId[nodes[j]]].to = nodes[j]
             /\ sock'[sId[nodes[j]]].state \in {"pending", "accepted", "refused"}
             /\ sock[sId[nodes[j]]].state # "pending" =>
                  sock'[sId[nodes[j]]] = sock[sId[nodes[j]]]
  <2>1. nodes[j] \in Clients /\ sId[nodes[j]] \in FDs
    BY NodesTyped DEF IndInv
  <2>2. nodes[j] \in asked /\ Owned(nodes[j])
    BY <1>2 DEF IndInv, AskedOwned
  <2>3. sock[sId[nodes[j]]] \notin {Closed, Foreign}
    BY <2>1, <2>2, OwnedIs DEF IndInv
  <2> QED
    BY <1>2, <2>1, <2>2, <2>3 DEF Owned
<1>3. AskedOwned'
  BY <1>2 DEF AskedOwned, Owned, Awaits, HeartbeatsOwn
<1>4. AnswersKnown'
  <2> SUFFICES ASSUME ~tainted, pc = "judge", NEW j \in DOMAIN nodes, Awaits(j)
               PROVE  /\ nodes[j] \in answered =>
                           /\ sId[nodes[j]] \in fds
                           /\ sock'[sId[nodes[j]]].state = "accepted"
                      /\ nodes[j] \notin answered /\ sId[nodes[j]] \in fds =>
                           sock'[sId[nodes[j]]].state = "refused"
    BY DEF AnswersKnown, Awaits, HeartbeatsOwn
  <2>1. /\ nodes[j] \in answered => /\ sId[nodes[j]] \in fds
                                    /\ sock[sId[nodes[j]]].state = "accepted"
        /\ nodes[j] \notin answered /\ sId[nodes[j]] \in fds =>
             sock[sId[nodes[j]]].state = "refused"
    BY DEF IndInv, AnswersKnown
  <2> QED
    BY <1>2, <2>1
<1>5. NoneLeft'
  <2> SUFFICES ASSUME ~tainted, ~unheard, NEW f \in FDs, sock'[f] \notin {Closed, Foreign}
               PROVE  \E j \in DOMAIN nodes : Awaits(j) /\ sId[nodes[j]] = f
    BY DEF NoneLeft, Awaits, HeartbeatsOwn, Closed, Foreign
  <2>1. sock[f] \notin {Closed, Foreign}
    BY DEF Closed, Foreign
  <2> QED
    BY <2>1 DEF IndInv, NoneLeft
<1> QED
  BY <1>1, <1>3, <1>4, <1>5 DEF IndInv

LEMMA EnvironmentStep ==
  ASSUME IndInv, Environment
  PROVE  IndInv'
<1>0. sock \in [FDs -> SockType]
  BY DEF IndInv, TypeOK, SockType
<1>1. ASSUME NEW c \in Clients, FallsSilentOrReturns(c)
      PROVE  IndInv'
  <2>1. UNCHANGED <<nodes, sId, sock, others>> /\ HeartbeatsOwn
    BY <1>1 DEF FallsSilentOrReturns
  <2>2. TypeOK'
    BY <1>1, <2>1 DEF FallsSilentOrReturns, SymDiff, HeartbeatsOwn, IndInv, TypeOK,
                      Closed, Foreign
  <2>3. OthersOwn'
    BY <2>1 DEF HeartbeatsOwn, IndInv, OthersOwn, Foreign
  <2> QED
    BY <2>1, <2>2, <2>3, SocketsMove
<1>2. ASSUME NEW f \in FDs, Reacts(f)
      PROVE  IndInv'
  <2>1. PICK state \in {"accepted", "refused"} :
          sock' = [sock EXCEPT ![f] = [sock[f] EXCEPT !.state = state]]
    BY <1>2 DEF Reacts
  <2>2. /\ UNCHANGED <<nodes, sId, others, silent>> /\ HeartbeatsOwn
        /\ sock[f].state = "pending"
    BY <1>2 DEF Reacts
  <2>3. sock[f] \in [to : Clients, state : {"pending", "accepted", "refused", "failed"}]
    BY <1>0, <2>2 DEF SockType, Closed, Foreign
  <2>4. /\ sock' \in [FDs -> SockType]
        /\ sock'[f].to = sock[f].to /\ sock'[f].state = state
        /\ \A g \in FDs \ {f} : sock'[g] = sock[g]
    BY <1>0, <2>1, <2>3 DEF SockType
  <2>5. TypeOK'
    BY <2>2, <2>4 DEF HeartbeatsOwn, IndInv, TypeOK, SockType, Closed, Foreign
  <2>6. OthersOwn'
    <3>1. \A g \in others : ~tainted => g # f /\ g \in FDs
      BY <2>2 DEF IndInv, OthersOwn, Foreign, TypeOK
    <3> QED
      BY <2>2, <2>4, <3>1 DEF HeartbeatsOwn, IndInv, OthersOwn, Foreign
  <2> QED
    BY <2>2, <2>4, <2>5, <2>6, SocketsMove
<1>3. ASSUME NEW c \in Clients, Login(c)
      PROVE  IndInv'
  <2>1. PICK g \in FDs : sId' = [sId EXCEPT ![c] = g]
    BY <1>3 DEF Login
  <2>2. /\ pc = "sleep" /\ c \notin Range(nodes)
        /\ nodes' = Append(nodes, c)
        /\ UNCHANGED <<sock, others, silent>> /\ HeartbeatsOwn
    BY <1>3 DEF Login
  <2>3. /\ nodes' \in Seq(Clients) /\ Len(nodes') = Len(nodes) + 1
        /\ DOMAIN nodes' = 1 .. Len(nodes) + 1
        /\ nodes'[Len(nodes) + 1] = c
        /\ \A j \in 1 .. Len(nodes) : nodes'[j] = nodes[j]
    BY <2>2 DEF IndInv, TypeOK
  <2>4. i' = 1 /\ i = 1
    BY <2>2 DEF HeartbeatsOwn, IndInv, AtRest
  <2>5. sId' \in [Clients -> FDs] /\ 1 \in 1 .. Len(nodes') + 1
    BY <2>1, <2>3, NodesTyped DEF IndInv, TypeOK
  <2>6. TypeOK'
    BY <2>2, <2>3, <2>4, <2>5 DEF HeartbeatsOwn, IndInv, TypeOK, Closed, Foreign
  <2>7. NoneTwice'
    <3>1. \A j \in 1 .. Len(nodes) : nodes[j] # c
      BY <2>2, NodesTyped DEF Range, IndInv
    <3>2. \A j \in 1 .. Len(nodes) + 1 : j = Len(nodes) + 1 \/ j \in 1 .. Len(nodes)
      BY NodesTyped DEF IndInv
    <3> QED
      BY <2>3, <3>1, <3>2, NodesTyped DEF IndInv, NoneTwice
  <2>8. \A j : ~Awaits(j) /\ ~Awaits(j)'
    BY <2>2 DEF Awaits, HeartbeatsOwn
  <2> QED
    BY <2>2, <2>4, <2>6, <2>7, <2>8
       DEF HeartbeatsOwn, IndInv, AtRest, OthersOwn, AskedOwned, SetExact, AnswersKnown,
           NoneLeft, Closed, Foreign
<1>4. ASSUME NEW f \in FDs, OtherOpens(f) \/ OtherCloses(f)
      PROVE  IndInv'
  <2>1. UNCHANGED <<nodes, sId, silent>> /\ HeartbeatsOwn
    BY <1>4 DEF OtherOpens, OtherCloses
  <2>2. PICK s \in {Closed, Foreign} :
          /\ sock' = [sock EXCEPT ![f] = s]
          /\ s = Closed => others' = others \ {f}
          /\ s = Foreign => others' = others \cup {f}
          /\ ~tainted => sock[f] \in {Closed, Foreign}
    <3>1. Closed # Foreign
      BY DEF Closed, Foreign
    <3>2. OtherOpens(f) => sock[f] = Closed
      BY DEF OtherOpens, LowestFree, IsFree
    <3>3. OtherCloses(f) /\ ~tainted => sock[f] = Foreign
      BY DEF OtherCloses, IndInv, OthersOwn
    <3> QED
      BY <1>4, <3>1, <3>2, <3>3 DEF OtherOpens, OtherCloses
  <2>3. /\ sock' \in [FDs -> SockType] /\ sock'[f] = s
        /\ \A g \in FDs \ {f} : sock'[g] = sock[g]
    BY <1>0, <2>2 DEF SockType
  <2>4. TypeOK'
    BY <2>1, <2>2, <2>3 DEF HeartbeatsOwn, IndInv, TypeOK, SockType, Closed, Foreign
  <2>5. OthersOwn'
    <3>1. \A g \in others : g \in FDs
      BY DEF IndInv, TypeOK
    <3> QED
      BY <2>1, <2>2, <2>3, <3>1 DEF HeartbeatsOwn, IndInv, OthersOwn, Foreign
  <2> QED
    BY <2>1, <2>2, <2>3, <2>4, <2>5, SocketsMove
<1> QED
  BY <1>1, <1>2, <1>3, <1>4 DEF Environment

(***************************************************************************)
(* Pass 1 and select.                                                      *)
(***************************************************************************)
\* What a step leaves alone it leaves typed.
LEMMA RoundStartsKeeps ==
  ASSUME IndInv, RoundStarts
  PROVE  IndInv'
<1>1. /\ pc = "sleep" /\ pc' = "probe" /\ i = 1 /\ fds = {}
      /\ UNCHANGED <<nodes, sId, sock, others, silent, i, fds, asked, answered, tainted, unheard>>
  BY DEF RoundStarts, World, IndInv, AtRest
<1>2. TypeOK' /\ NoneTwice' /\ AtRest' /\ OthersOwn'
  BY <1>1 DEF IndInv, TypeOK, NoneTwice, AtRest, OthersOwn, Closed, Foreign
<1>3. \A j \in DOMAIN nodes : ~Awaits(j) /\ ~Awaits(j)'
  BY <1>1, NodesTyped DEF Awaits, IndInv
<1> QED
  BY <1>1, <1>2, <1>3 DEF IndInv, AskedOwned, SetExact, AnswersKnown, NoneLeft, Closed, Foreign

\* A new connection takes a number nobody has, and its node remembers it.
LEMMA ProbeStartsKeeps ==
  ASSUME IndInv, NEW f \in FDs, ProbeStarts(f)
  PROVE  IndInv'
<1>0. /\ pc = "probe" /\ i <= Len(nodes) /\ i \in DOMAIN nodes /\ Here \in Clients /\ i \in Nat
      /\ sock[f] = Closed
      /\ i' = i + 1 /\ fds' = fds \cup {f} /\ asked' = asked \cup {Here}
      /\ sock' = [sock EXCEPT ![f] = Probe(Here, "pending")]
      /\ sId' = [sId EXCEPT ![Here] = f]
      /\ UNCHANGED <<nodes, pc, answered, tainted, unheard, others, silent>>
  BY NodesTyped DEF ProbeStarts, Probing, NextNode, World, LowestFree, IsFree, Here, IndInv, TypeOK
<1>1. /\ sock \in [FDs -> SockType] /\ sId \in [Clients -> FDs]
  BY DEF IndInv, TypeOK, SockType
<1>2. /\ sock' \in [FDs -> SockType] /\ sock'[f] = Probe(Here, "pending")
      /\ \A g \in FDs \ {f} : sock'[g] = sock[g]
  BY <1>0, <1>1 DEF SockType, Probe
<1>3. /\ sId' \in [Clients -> FDs] /\ sId'[Here] = f
      /\ \A c \in Clients \ {Here} : sId'[c] = sId[c]
  BY <1>0, <1>1
<1>4. i' \in 1 .. Len(nodes') + 1 /\ fds' \subseteq FDs /\ asked' \subseteq Clients
      /\ answered' \subseteq asked'
  BY <1>0, NodesTyped DEF IndInv, TypeOK
<1>5. TypeOK'
  BY <1>0, <1>2, <1>3, <1>4 DEF IndInv, TypeOK, SockType, Closed, Foreign
<1>6. NoneTwice' /\ AtRest'
  BY <1>0 DEF IndInv, NoneTwice, AtRest
<1>7. OthersOwn'
  <2>1. \A g \in others : ~tainted => g # f /\ g \in FDs
    BY <1>0 DEF IndInv, OthersOwn, TypeOK, Foreign, Closed
  <2> QED
    BY <1>0, <1>2, <2>1 DEF IndInv, OthersOwn, Foreign
\* The nodes that awaited their verdict already, and the new one.
<1>8. \A j \in DOMAIN nodes : Awaits(j)' <=> Awaits(j) \/ j = i
  BY <1>0, NodesTyped DEF Awaits, IndInv
<1>9. ASSUME ~tainted, NEW j \in DOMAIN nodes, Awaits(j)
      PROVE  /\ nodes[j] \in Clients \ {Here} /\ nodes[j] \in asked
             /\ Owned(nodes[j]) /\ sId[nodes[j]] \in FDs \ {f}
             /\ sId'[nodes[j]] = sId[nodes[j]]
             /\ sock'[sId[nodes[j]]] = sock[sId[nodes[j]]]
  <2>1. nodes[j] \in Clients /\ sId[nodes[j]] \in FDs
    BY NodesTyped DEF IndInv
  <2>2. nodes[j] # Here
    <3>1. j # i
      BY <1>0, <1>9, NodesTyped DEF Awaits, IndInv
    <3> QED
      BY <1>0, <3>1 DEF IndInv, NoneTwice, Here
  <2>3. nodes[j] \in asked /\ Owned(nodes[j])
    BY <1>9 DEF IndInv, AskedOwned
  <2>4. sock[sId[nodes[j]]] # Closed
    BY <2>1, <2>3, OwnedIs DEF IndInv
  <2> QED
    BY <1>0, <1>2, <1>3, <2>1, <2>2, <2>3, <2>4
<1>10. AskedOwned'
  <2> SUFFICES ASSUME ~tainted, NEW j \in DOMAIN nodes, Awaits(j) \/ j = i
               PROVE  nodes[j] \in asked' /\ Owned(nodes[j])'
    BY <1>0, <1>8 DEF AskedOwned
  <2>1. CASE j = i
    BY <1>0, <1>2, <1>3, <2>1 DEF Owned, Probe, Here
  <2>2. CASE Awaits(j)
    BY <1>0, <1>9, <2>2 DEF Owned
  <2> QED
    BY <2>1, <2>2
<1>11. SetExact'
  <2> SUFFICES ASSUME ~tainted, NEW g \in FDs
               PROVE  g \in fds \/ g = f <=>
                        \E j \in DOMAIN nodes : (Awaits(j) \/ j = i) /\ sId'[nodes[j]] = g
    BY <1>0, <1>8 DEF SetExact
  <2>1. g \in fds <=> \E j \in DOMAIN nodes : Awaits(j) /\ sId[nodes[j]] = g
    BY <1>0 DEF IndInv, SetExact
  <2>2. g \in fds <=> \E j \in DOMAIN nodes : Awaits(j) /\ sId'[nodes[j]] = g
    BY <1>9, <2>1
  <2>3. i \in DOMAIN nodes /\ sId'[nodes[i]] = f
    BY <1>0, <1>3 DEF Here
  <2> QED
    BY <2>2, <2>3
<1>12. AnswersKnown'
  BY <1>0 DEF AnswersKnown
<1>13. NoneLeft'
  <2> SUFFICES ASSUME ~tainted, ~unheard, NEW g \in FDs, sock'[g] \notin {Closed, Foreign}
               PROVE  \E j \in DOMAIN nodes : (Awaits(j) \/ j = i) /\ sId'[nodes[j]] = g
    BY <1>0, <1>8 DEF NoneLeft, Closed, Foreign
  <2>1. CASE g = f
    BY <1>0, <1>3, <2>1 DEF Here
  <2>2. CASE g # f
    <3>1. sock[g] \notin {Closed, Foreign}
      BY <1>2, <2>2
    <3>2. \E j \in DOMAIN nodes : Awaits(j) /\ sId[nodes[j]] = g
      BY <3>1 DEF IndInv, NoneLeft
    <3> QED
      BY <1>9, <3>2
  <2> QED
    BY <2>1, <2>2
<1> QED
  BY <1>5, <1>6, <1>7, <1>10, <1>11, <1>12, <1>13 DEF IndInv

\* Once a connection could not be started, little is left to keep.
LEMMA ProbeFailsKeeps ==
  ASSUME IndInv, ProbeExhausted \/ \E f \in FDs : ProbeFails(f)
  PROVE  IndInv'
<1>1. /\ pc = "probe" /\ i \in 1 .. Len(nodes) /\ Here \in Clients
      /\ i' = i + 1 /\ tainted' = TRUE
      /\ UNCHANGED <<nodes, sId, pc, fds, asked, answered, unheard, others, silent>>
  BY NodesTyped DEF ProbeExhausted, ProbeFails, Probing, NextNode, World, Here, IndInv, TypeOK
<1>2. sock' \in [FDs -> SockType]
  <2>1. sock \in [FDs -> SockType]
    BY DEF IndInv, TypeOK, SockType
  <2>2. CASE ProbeExhausted
    BY <2>1, <2>2 DEF ProbeExhausted
  <2>3. ASSUME NEW f \in FDs, ProbeFails(f)
        PROVE  sock' \in [FDs -> SockType]
    BY <1>1, <2>1, <2>3 DEF ProbeFails, SockType, Probe
  <2> QED
    BY <2>2, <2>3
<1>3. i' \in 1 .. Len(nodes') + 1
  BY <1>1, NodesTyped DEF IndInv
<1>4. TypeOK' /\ NoneTwice' /\ AtRest'
  BY <1>1, <1>2, <1>3 DEF IndInv, TypeOK, NoneTwice, AtRest, SockType, Closed, Foreign
<1> QED
  BY <1>1, <1>4 DEF IndInv, OthersOwn, AskedOwned, SetExact, AnswersKnown, NoneLeft

LEMMA ProbesDoneKeeps ==
  ASSUME IndInv, ProbesDone
  PROVE  IndInv'
<1>1. /\ pc = "probe" /\ pc' = "select" /\ i > Len(nodes) /\ i' = 1
      /\ UNCHANGED <<nodes, sId, sock, others, silent, fds, asked, answered, tainted, unheard>>
  BY DEF ProbesDone, World
<1>2. i' \in 1 .. Len(nodes') + 1
  BY <1>1, NodesTyped DEF IndInv
<1>3. TypeOK' /\ NoneTwice' /\ AtRest' /\ OthersOwn'
  BY <1>1, <1>2 DEF IndInv, TypeOK, NoneTwice, AtRest, OthersOwn, Closed, Foreign
<1>4. \A j \in DOMAIN nodes : Awaits(j) /\ Awaits(j)'
  BY <1>1, NodesTyped DEF Awaits, IndInv
<1>5. AskedOwned' /\ SetExact' /\ AnswersKnown' /\ NoneLeft'
  BY <1>1, <1>4
     DEF IndInv, AskedOwned, SetExact, AnswersKnown, NoneLeft, Owned, Closed, Foreign
<1> QED
  BY <1>3, <1>5 DEF IndInv

\* In the round's select every node awaits its verdict, and what another
\* thread holds is none of the numbers asked about.
LEMMA Selecting ==
  ASSUME IndInv, pc = "select", ~tainted, NEW j \in DOMAIN nodes
  PROVE  /\ nodes[j] \in Clients /\ nodes[j] \in asked /\ Owned(nodes[j])
         /\ sId[nodes[j]] \in fds
         /\ \A state : sock[sId[nodes[j]]].state = state
                         => sock[sId[nodes[j]]] = Probe(nodes[j], state)
<1>1. nodes[j] \in Clients /\ sId[nodes[j]] \in FDs
  BY NodesTyped DEF IndInv
<1>2. Awaits(j)
  BY DEF Awaits
<1>3. nodes[j] \in asked /\ Owned(nodes[j])
  BY <1>2 DEF IndInv, AskedOwned
<1>4. sId[nodes[j]] \in fds
  BY <1>1, <1>2 DEF IndInv, SetExact
<1> QED
  BY <1>1, <1>3, <1>4, OwnedIs DEF IndInv

LEMMA SelectReturns ==
  ASSUME IndInv, SelectReports \/ SelectFails
  PROVE  IndInv'
<1>1. /\ pc = "select" /\ pc' = "judge" /\ i = 1
      /\ answered' = {c \in asked : sock[sId[c]] = Probe(c, "accepted")}
      /\ UNCHANGED <<nodes, sId, sock, i, asked, tainted, unheard, others, silent>>
  BY DEF SelectReports, SelectFails, World, IndInv, AtRest
<1>2. fds' \subseteq FDs
  BY DEF SelectReports, SelectFails, MayReport, MustReport, IndInv, TypeOK
<1>3. TypeOK' /\ NoneTwice' /\ AtRest' /\ OthersOwn'
  BY <1>1, <1>2 DEF IndInv, TypeOK, NoneTwice, AtRest, OthersOwn, Closed, Foreign
<1>4. \A j \in DOMAIN nodes : Awaits(j) /\ Awaits(j)'
  BY <1>1, NodesTyped DEF Awaits, IndInv
<1>5. AskedOwned' /\ SetExact' /\ NoneLeft'
  BY <1>1, <1>4 DEF IndInv, AskedOwned, SetExact, NoneLeft, Owned, Closed, Foreign
<1>6. ASSUME ~tainted
      PROVE  MustReport \subseteq fds' /\ fds' \subseteq MayReport
  <2>1. \A f \in fds : f \in FDs /\ sock[f] # Closed
    <3> SUFFICES ASSUME NEW f \in fds PROVE f \in FDs /\ sock[f] # Closed
      OBVIOUS
    <3>1. f \in FDs
      BY DEF IndInv, TypeOK
    <3>2. PICK j \in DOMAIN nodes : sId[nodes[j]] = f
      BY <1>1, <1>6, <3>1 DEF IndInv, SetExact
    <3> QED
      BY <1>1, <1>6, <3>1, <3>2, Selecting, OwnedIs DEF IndInv
  <2>2. ~Broken
    BY <2>1 DEF Broken, IsFree
  <2> QED
    BY <2>2 DEF SelectReports, SelectFails
<1>7. AnswersKnown'
  <2> SUFFICES ASSUME ~tainted, NEW j \in DOMAIN nodes
               PROVE  /\ nodes[j] \in answered' => /\ sId[nodes[j]] \in fds'
                                                   /\ sock[sId[nodes[j]]].state = "accepted"
                      /\ nodes[j] \notin answered' /\ sId[nodes[j]] \in fds' =>
                           sock[sId[nodes[j]]].state = "refused"
    BY <1>1 DEF AnswersKnown
  <2>1. /\ nodes[j] \in asked /\ Owned(nodes[j]) /\ sId[nodes[j]] \in fds
        /\ \A state : sock[sId[nodes[j]]].state = state
                        => sock[sId[nodes[j]]] = Probe(nodes[j], state)
    BY <1>1, Selecting
  <2>2. nodes[j] \in answered' <=> sock[sId[nodes[j]]].state = "accepted"
    BY <1>1, <2>1 DEF Probe
  <2>3. sock[sId[nodes[j]]].state = "accepted" => sId[nodes[j]] \in MustReport
    BY <2>1 DEF MustReport
  <2>4. sId[nodes[j]] \in MayReport => sock[sId[nodes[j]]].state \in {"accepted", "refused"}
    BY <2>1 DEF MayReport, MustReport, Owned
  <2> QED
    BY <1>6, <2>2, <2>3, <2>4
<1> QED
  BY <1>3, <1>5, <1>7 DEF IndInv

\* The round is over, nobody awaits a verdict, and nothing has been closed.
LEMMA Rested ==
  ASSUME IndInv, Rest, UNCHANGED <<nodes, sId, sock, others, silent, tainted>>,
         unheard' \in BOOLEAN,
         ~tainted /\ ~unheard' => \A f \in FDs : sock[f] \in {Closed, Foreign}
  PROVE  IndInv'
<1>1. i' \in 1 .. Len(nodes') + 1
  BY NodesTyped DEF Rest, IndInv
<1>2. TypeOK' /\ NoneTwice' /\ AtRest' /\ OthersOwn'
  BY <1>1 DEF Rest, IndInv, TypeOK, NoneTwice, AtRest, OthersOwn, Closed, Foreign
<1>3. \A j : ~Awaits(j)'
  BY DEF Rest, Awaits
<1>4. AskedOwned' /\ SetExact' /\ AnswersKnown'
  BY <1>3 DEF Rest, AskedOwned, SetExact, AnswersKnown
<1>5. NoneLeft'
  BY DEF NoneLeft, Closed, Foreign
<1> QED
  BY <1>2, <1>4, <1>5 DEF IndInv

LEMMA SelectTimesOutKeeps ==
  ASSUME IndInv, SelectTimesOut
  PROVE  IndInv'
<1>1. /\ pc = "select" /\ Rest /\ unheard' = (unheard \/ asked # {})
      /\ UNCHANGED <<nodes, sId, sock, others, silent, tainted>>
  BY DEF SelectTimesOut, World
<1>2. unheard' \in BOOLEAN
  BY <1>1
<1>3. ASSUME ~tainted, ~unheard'
      PROVE  \A f \in FDs : sock[f] \in {Closed, Foreign}
  <2>1. ~unheard /\ asked = {}
    BY <1>1, <1>3 DEF IndInv, TypeOK
  <2>2. \A j \in DOMAIN nodes : FALSE
    BY <1>1, <1>3, <2>1, Selecting
  <2> QED
    BY <1>3, <2>1, <2>2 DEF IndInv, NoneLeft
<1> QED
  BY <1>1, <1>2, <1>3, Rested

LEMMA RoundEndsKeeps ==
  ASSUME IndInv, RoundEnds
  PROVE  IndInv'
<1>1. /\ pc = "judge" /\ i > Len(nodes) /\ Rest
      /\ UNCHANGED <<nodes, sId, sock, others, silent, tainted, unheard>>
  BY DEF RoundEnds, World
<1>2. \A j \in DOMAIN nodes : ~Awaits(j)
  BY <1>1, NodesTyped DEF Awaits, IndInv
<1>3. unheard' \in BOOLEAN
  BY <1>1 DEF IndInv, TypeOK
<1>4. ~tainted /\ ~unheard' => \A f \in FDs : sock[f] \in {Closed, Foreign}
  BY <1>1, <1>2 DEF IndInv, NoneLeft
<1> QED
  BY <1>1, <1>3, <1>4, Rested

(***************************************************************************)
(* Pass 2: one verdict.                                                    *)
(***************************************************************************)
\* The nodes that await their verdict after one has been given.
LEMMA OneVerdict ==
  ASSUME IndInv, Judging, Remains \/ Removed, UNCHANGED pc
  PROVE  /\ nodes' \in Seq(Clients) /\ i' \in 1 .. Len(nodes') + 1
         /\ NoneTwice'
         /\ \A j \in DOMAIN nodes' : Awaits(j)' =>
              \E k \in DOMAIN nodes : Awaits(k) /\ k # i /\ nodes'[j] = nodes[k]
         /\ \A k \in DOMAIN nodes : Awaits(k) /\ k # i =>
              \E j \in DOMAIN nodes' : Awaits(j)' /\ nodes'[j] = nodes[k]
<1>1. /\ pc = "judge" /\ pc' = "judge" /\ i \in 1 .. Len(nodes) /\ Len(nodes) \in Nat
      /\ nodes \in Seq(Clients) /\ DOMAIN nodes = 1 .. Len(nodes)
  BY NodesTyped DEF Judging, IndInv, TypeOK
<1>2. CASE Remains
  <2>1. nodes' = nodes /\ i' = i + 1
    BY <1>2 DEF Remains, NextNode
  <2>2. \A j \in DOMAIN nodes : Awaits(j)' <=> Awaits(j) /\ j # i
    BY <1>1, <2>1 DEF Awaits
  <2>3. NoneTwice'
    BY <2>1 DEF IndInv, NoneTwice
  <2> QED
    BY <1>1, <2>1, <2>2, <2>3
<1>3. CASE Removed
  <2>1. nodes' = RemoveAt(nodes, i) /\ i' = i
    BY <1>3 DEF Removed
  <2>2. /\ nodes' \in Seq(Clients) /\ Len(nodes') = Len(nodes) - 1
        /\ \A j \in 1 .. Len(nodes) - 1 :
             nodes'[j] = IF j < i THEN nodes[j] ELSE nodes[j+1]
    BY <1>1, <2>1, RemoveAtIs
  <2>3. DOMAIN nodes' = 1 .. Len(nodes) - 1
    BY <2>2
  <2>4. i' \in 1 .. Len(nodes') + 1
    BY <1>1, <2>1, <2>2
  <2>5. NoneTwice'
    <3> SUFFICES ASSUME NEW j \in 1 .. Len(nodes) - 1, NEW k \in 1 .. Len(nodes) - 1,
                        nodes'[j] = nodes'[k]
                 PROVE  j = k
      BY <2>3 DEF NoneTwice
    <3> DEFINE from(m) == IF m < i THEN m ELSE m + 1
    <3>1. nodes'[j] = nodes[from(j)] /\ nodes'[k] = nodes[from(k)]
      BY <2>2
    <3>2. from(j) \in DOMAIN nodes /\ from(k) \in DOMAIN nodes
      BY <1>1
    <3>3. from(j) = from(k)
      BY <3>1, <3>2 DEF IndInv, NoneTwice
    <3> QED
      BY <1>1, <3>3
  <2>6. ASSUME NEW j \in DOMAIN nodes', Awaits(j)'
        PROVE  \E k \in DOMAIN nodes : Awaits(k) /\ k # i /\ nodes'[j] = nodes[k]
    <3>1. j \in 1 .. Len(nodes) - 1 /\ j >= i
      BY <1>1, <2>1, <2>3, <2>6 DEF Awaits
    <3>2. nodes'[j] = nodes[j+1]
      BY <1>1, <2>2, <3>1
    <3>3. j + 1 \in DOMAIN nodes /\ Awaits(j+1) /\ j + 1 # i
      BY <1>1, <3>1 DEF Awaits
    <3> QED
      BY <3>2, <3>3
  <2>7. ASSUME NEW k \in DOMAIN nodes, Awaits(k), k # i
        PROVE  \E j \in DOMAIN nodes' : Awaits(j)' /\ nodes'[j] = nodes[k]
    <3>1. k \in 2 .. Len(nodes) /\ k > i
      BY <1>1, <2>7 DEF Awaits
    <3>2. k - 1 \in 1 .. Len(nodes) - 1 /\ k - 1 >= i /\ (k - 1) + 1 = k
      BY <1>1, <3>1
    <3>3. nodes'[k-1] = nodes[k]
      BY <1>1, <2>2, <3>2
    <3>4. Awaits(k-1)'
      BY <1>1, <2>1, <3>2 DEF Awaits
    <3> QED
      BY <2>3, <3>2, <3>3, <3>4
  <2> QED
    BY <2>2, <2>4, <2>5, <2>6, <2>7
<1> QED
  BY <1>2, <1>3

\* What a verdict closes is the judged node's own connection, and no other
\* node's and no other thread's.
LEMMA OwnClosed ==
  ASSUME IndInv, Judging, CloseRemembered
  PROVE  /\ Here \in Clients /\ i \in DOMAIN nodes /\ Awaits(i)
         /\ sId[Here] \in FDs
         /\ sock' \in [FDs -> SockType] /\ sock'[sId[Here]] = Closed
         /\ \A f \in FDs \ {sId[Here]} : sock'[f] = sock[f]
         /\ ~tainted => /\ Here \in asked /\ Owned(Here)
                        /\ \A f \in others : sock'[f] = sock[f]
         /\ ~tainted => \A k \in DOMAIN nodes : Awaits(k) /\ k # i =>
              /\ sId[nodes[k]] \in FDs
              /\ sock'[sId[nodes[k]]] = sock[sId[nodes[k]]]
              /\ sId[nodes[k]] # sId[Here]
<1>1. /\ pc = "judge" /\ i \in DOMAIN nodes /\ i \in Nat
      /\ Here \in Clients /\ sId[Here] \in FDs
  BY NodesTyped DEF Judging, Here, IndInv, TypeOK
<1>2. Awaits(i)
  BY <1>1 DEF Awaits
<1>3. sock \in [FDs -> SockType]
  BY DEF IndInv, TypeOK, SockType
<1>4. /\ sock' \in [FDs -> SockType] /\ sock'[sId[Here]] = Closed
      /\ \A f \in FDs \ {sId[Here]} : sock'[f] = sock[f]
  BY <1>1, <1>3 DEF CloseRemembered, SockType
<1>5. ASSUME ~tainted
      PROVE  /\ Here \in asked /\ Owned(Here)
             /\ \A f \in others : sock'[f] = sock[f]
  <2>1. Here \in asked /\ Owned(Here)
    BY <1>1, <1>2, <1>5 DEF IndInv, AskedOwned, Here
  <2>2. sock[sId[Here]] # Foreign
    BY <1>1, <2>1, OwnedIs DEF IndInv
  <2>3. \A f \in others : f \in FDs /\ sock[f] = Foreign
    BY <1>5 DEF IndInv, OthersOwn, TypeOK
  <2> QED
    BY <1>4, <2>1, <2>2, <2>3
<1>6. ASSUME ~tainted, NEW k \in DOMAIN nodes, Awaits(k), k # i
      PROVE  /\ sId[nodes[k]] \in FDs
             /\ sock'[sId[nodes[k]]] = sock[sId[nodes[k]]]
             /\ sId[nodes[k]] # sId[Here]
  <2>1. nodes[k] \in Clients /\ sId[nodes[k]] \in FDs
    BY NodesTyped DEF IndInv
  <2>2. nodes[k] # Here
    BY <1>1, <1>6 DEF IndInv, NoneTwice, Here
  <2>3. sock[sId[nodes[k]]].to = nodes[k] /\ sock[sId[Here]].to = Here
    BY <1>5, <1>6 DEF IndInv, AskedOwned, Owned
  <2>4. sId[nodes[k]] # sId[Here]
    BY <2>2, <2>3
  <2> QED
    BY <1>4, <2>1, <2>4
<1> QED
  BY <1>1, <1>2, <1>4, <1>5, <1>6

LEMMA VerdictKeeps ==
  ASSUME IndInv, Judging, CloseRemembered, Remains \/ Removed, Verdict
  PROVE  IndInv'
<1>1. /\ pc = "judge"
      /\ UNCHANGED <<sId, pc, fds, asked, answered, tainted, unheard, others, silent>>
  BY DEF Judging, Verdict, World
<1>2. /\ nodes' \in Seq(Clients) /\ i' \in 1 .. Len(nodes') + 1 /\ NoneTwice'
  BY <1>1, OneVerdict
<1>3. sock' \in [FDs -> SockType]
  BY OwnClosed
<1>4. TypeOK' /\ AtRest'
  BY <1>1, <1>2, <1>3 DEF IndInv, TypeOK, AtRest, SockType, Closed, Foreign
<1>5. OthersOwn' /\ SetExact'
  <2>1. ~tainted => \A f \in others : sock'[f] = sock[f]
    BY OwnClosed
  <2> QED
    BY <1>1, <2>1 DEF IndInv, OthersOwn, SetExact, Foreign
\* Whoever still awaits a verdict awaited one before, and kept its connection.
<1>6. ASSUME ~tainted, NEW j \in DOMAIN nodes', Awaits(j)'
      PROVE  \E k \in DOMAIN nodes :
               /\ Awaits(k) /\ k # i /\ nodes'[j] = nodes[k]
               /\ sock'[sId[nodes[k]]] = sock[sId[nodes[k]]]
  <2>1. PICK k \in DOMAIN nodes : Awaits(k) /\ k # i /\ nodes'[j] = nodes[k]
    BY <1>1, <1>6, OneVerdict
  <2>2. sock'[sId[nodes[k]]] = sock[sId[nodes[k]]]
    BY <1>6, <2>1, OwnClosed
  <2> QED
    BY <2>1, <2>2
<1>7. AskedOwned'
  <2> SUFFICES ASSUME ~tainted, NEW j \in DOMAIN nodes', Awaits(j)'
               PROVE  nodes'[j] \in asked' /\ Owned(nodes[j])'
    BY <1>1 DEF AskedOwned
  <2>1. PICK k \in DOMAIN nodes :
               /\ Awaits(k) /\ k # i /\ nodes'[j] = nodes[k]
               /\ sock'[sId[nodes[k]]] = sock[sId[nodes[k]]]
    BY <1>6
  <2>2. nodes[k] \in asked /\ Owned(nodes[k])
    BY <2>1 DEF IndInv, AskedOwned
  <2> QED
    BY <1>1, <2>1, <2>2 DEF Owned
<1>8. AnswersKnown'
  <2> SUFFICES ASSUME ~tainted, NEW j \in DOMAIN nodes', Awaits(j)'
               PROVE  /\ nodes'[j] \in answered =>
                           /\ sId[nodes'[j]] \in fds
                           /\ sock'[sId[nodes'[j]]].state = "accepted"
                      /\ nodes'[j] \notin answered /\ sId[nodes'[j]] \in fds =>
                           sock'[sId[nodes'[j]]].state = "refused"
    BY <1>1 DEF AnswersKnown
  <2>1. PICK k \in DOMAIN nodes :
               /\ Awaits(k) /\ k # i /\ nodes'[j] = nodes[k]
               /\ sock'[sId[nodes[k]]] = sock[sId[nodes[k]]]
    BY <1>6
  <2> QED
    BY <1>1, <2>1 DEF IndInv, AnswersKnown
<1>9. NoneLeft'
  <2> SUFFICES ASSUME ~tainted, ~unheard, NEW f \in FDs, sock'[f] \notin {Closed, Foreign}
               PROVE  \E j \in DOMAIN nodes' : Awaits(j)' /\ sId[nodes'[j]] = f
    BY <1>1 DEF NoneLeft, Closed, Foreign
  <2>1. f # sId[Here] /\ sock'[f] = sock[f]
    BY OwnClosed
  <2>2. PICK k \in DOMAIN nodes : Awaits(k) /\ sId[nodes[k]] = f
    BY <2>1 DEF IndInv, NoneLeft
  <2>3. k # i
    BY <2>1, <2>2 DEF Here
  <2>4. PICK j \in DOMAIN nodes' : Awaits(j)' /\ nodes'[j] = nodes[k]
    BY <1>1, <2>2, <2>3, OneVerdict
  <2> QED
    BY <2>2, <2>4
<1> QED
  BY <1>2, <1>4, <1>5, <1>7, <1>8, <1>9 DEF IndInv

\* Nothing is left of a process that has died.
LEMMA MasterFallsKeeps ==
  ASSUME IndInv, MasterFalls
  PROVE  IndInv'
<1>1. /\ pc' = "down" /\ nodes' = <<>> /\ others' = {} /\ i' = 1 /\ fds' = {}
      /\ asked' = {} /\ answered' = {}
      /\ UNCHANGED <<silent, tainted, unheard>>
  BY DEF MasterFalls
<1>2. /\ sId' \in [Clients -> FDs] /\ sock' \in [FDs -> SockType]
      /\ \A f \in FDs : sock'[f] = Closed
  BY FdAssumption DEF MasterFalls, FDs, SockType
<1>3. /\ nodes' \in Seq(Clients) /\ Len(nodes') = 0 /\ DOMAIN nodes' = {}
      /\ i' \in 1 .. Len(nodes') + 1
  BY <1>1
<1>4. TypeOK'
  BY <1>1, <1>2, <1>3 DEF IndInv, TypeOK, SockType, Closed, Foreign
<1>5. NoneTwice' /\ AtRest' /\ OthersOwn' /\ AskedOwned' /\ SetExact' /\ AnswersKnown'
  BY <1>1, <1>3 DEF NoneTwice, AtRest, OthersOwn, AskedOwned, SetExact, AnswersKnown
<1>6. NoneLeft'
  BY <1>2 DEF NoneLeft, Closed, Foreign
<1> QED
  BY <1>4, <1>5, <1>6 DEF IndInv

LEMMA StepKeepsIndInv == IndInv /\ [Next]_vars => IndInv'
<1> SUFFICES ASSUME IndInv, [Next]_vars PROVE IndInv'
  OBVIOUS
<1>1. CASE Environment
  BY <1>1, EnvironmentStep
<1>2. CASE RoundStarts
  BY <1>2, RoundStartsKeeps
<1>3. CASE \E f \in FDs : ProbeStarts(f)
  BY <1>3, ProbeStartsKeeps
<1>4. CASE ProbeExhausted \/ \E f \in FDs : ProbeFails(f)
  BY <1>4, ProbeFailsKeeps
<1>5. CASE ProbesDone
  BY <1>5, ProbesDoneKeeps
<1>6. CASE SelectReports \/ SelectFails
  BY <1>6, SelectReturns
<1>7. CASE SelectTimesOut
  BY <1>7, SelectTimesOutKeeps
<1>8. CASE StillThere \/ ErrorDrop \/ TimeoutDrop
  BY <1>8, VerdictKeeps DEF StillThere, ErrorDrop, TimeoutDrop, Judges
<1>9. CASE RoundEnds
  BY <1>9, RoundEndsKeeps
<1>10. CASE UNCHANGED vars
  BY <1>10 DEF vars, IndInv, TypeOK, NoneTwice, AtRest, OthersOwn, AskedOwned, SetExact,
               AnswersKnown, NoneLeft, Awaits, Owned, Closed, Foreign
<1>11. CASE MasterFalls
  BY <1>11, MasterFallsKeeps
<1> QED
  BY <1>1, <1>2, <1>3, <1>4, <1>5, <1>6, <1>7, <1>8, <1>9, <1>10, <1>11 DEF Next, Heartbeat

\* The whole of the inductive invariant holds throughout.
THEOREM RoundInvariant == Spec => []IndInv
<1>1. Init => IndInv
  BY InitIndInv
<1>2. IndInv /\ [Next]_vars => IndInv'
  BY StepKeepsIndInv
<1> QED
  BY <1>1, <1>2, PTL DEF Spec

\* Every variable of the round holds a value of its type.
THEOREM TypesCorrect == Spec => []TypeOK
<1>1. IndInv => TypeOK
  BY DEF IndInv
<1> QED
  BY <1>1, RoundInvariant, PTL

\* Unless a connection could not be started or a round heard nobody, every
\* socket a round opens is closed again by its end (heartBeatNoBlockSelect).
THEOREM SocketsStayReturned == Spec => []SocketsReturned
<1>1. IndInv => SocketsReturned
  <2> SUFFICES ASSUME IndInv, pc = "sleep", ~tainted, ~unheard
               PROVE  \A f \in FDs : sock[f] \in {Closed, Foreign}
    BY DEF SocketsReturned
  <2>1. \A j : ~Awaits(j)
    BY DEF Awaits
  <2> QED
    BY <2>1 DEF IndInv, NoneLeft
<1> QED
  BY <1>1, RoundInvariant, PTL

\* A client is kept exactly if select saw it answer, as long as every
\* connection could be started: no verdict follows another client's socket.
THEOREM VerdictsTruthful == Spec => VerdictTruthful
<1> DEFINE Truthful == ~tainted => /\ StillThere => Here \in answered
                                   /\ ErrorDrop \/ TimeoutDrop => Here \notin answered
<1>1. IndInv => Truthful
  <2> SUFFICES ASSUME IndInv, ~tainted, Judging
               PROVE  /\ StillThere => Here \in answered
                      /\ ErrorDrop \/ TimeoutDrop => Here \notin answered
    BY DEF StillThere, ErrorDrop, TimeoutDrop, Judges
  <2>1. pc = "judge" /\ i \in DOMAIN nodes /\ Awaits(i)
    BY NodesTyped DEF Judging, Awaits, IndInv, TypeOK
  <2>2. /\ Here \in answered => InSet /\ sock[sId[Here]].state = "accepted"
        /\ Here \notin answered /\ InSet => sock[sId[Here]].state = "refused"
    BY <2>1 DEF IndInv, AnswersKnown, Here, InSet
  <2> QED
    BY <2>2 DEF StillThere, ErrorDrop, TimeoutDrop, Judges, ErrnoMayBeZero, ErrnoMayBeSet
<1>2. IndInv /\ [Next]_vars => [Truthful]_vars
  BY <1>1
<1> QED
  BY <1>2, RoundInvariant, PTL DEF VerdictTruthful, Spec

\* Pass 2 closes the number of a connection this very round opened for the
\* node it judges, as long as every connection could be started.
THEOREM ClosesOnlyItsOwn == Spec => ClosesItsOwn
<1> DEFINE Own == ~tainted /\ Judging /\ Heartbeat =>
                    Here \in asked /\ sock[sId[Here]].to = Here
<1>1. IndInv => Own
  <2> SUFFICES ASSUME IndInv, ~tainted, Judging
               PROVE  Here \in asked /\ sock[sId[Here]].to = Here
    OBVIOUS
  <2>1. i \in DOMAIN nodes /\ Awaits(i)
    BY NodesTyped DEF Judging, Awaits, IndInv, TypeOK
  <2> QED
    BY <2>1 DEF IndInv, AskedOwned, Owned, Here
<1>2. IndInv /\ [Next]_vars => [Own]_vars
  BY <1>1
<1> QED
  BY <1>2, RoundInvariant, PTL DEF ClosesItsOwn, Spec
=============================================================================
