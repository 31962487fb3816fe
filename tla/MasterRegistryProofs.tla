------------------------ MODULE MasterRegistryProofs ------------------------
(***************************************************************************)
(* Proofs about the registry, for every number of lists, cells, addresses  *)
(* and logins: IndInv is an inductive invariant, the registry implements   *)
(* the abstract membership, a sweep goes astray only behind a removal, and *)
(* a scan without the lock refuses only addresses that are registered.     *)
(***************************************************************************)
EXTENDS MasterRegistry, TLAPS

(***************************************************************************)
(* Removing the element at position i from a sequence that holds it once.  *)
(***************************************************************************)
LEMMA WithoutAt ==
  ASSUME NEW S, NEW s \in Seq(S), NEW i \in 1 .. Len(s),
         \A j \in 1 .. Len(s) : s[j] = s[i] => j = i
  PROVE  /\ Without(s, s[i]) \in Seq(S)
         /\ Len(Without(s, s[i])) = Len(s) - 1
         /\ \A j \in 1 .. Len(s) - 1 :
              Without(s, s[i])[j] = IF j < i THEN s[j] ELSE s[j+1]
<1> DEFINE t == SubSeq(s, 1, i-1)
           u == SubSeq(s, i+1, Len(s))
<1>1. DOMAIN s = 1 .. Len(s)
  OBVIOUS
<1>2. s[i] \in Range(s)
  BY <1>1 DEF Range
<1>3. (CHOOSE j \in DOMAIN s : s[j] = s[i]) = i
  BY <1>1
<1>4. Without(s, s[i]) = t \o u
  BY <1>2, <1>3 DEF Without, RemoveAt
<1>5. /\ t \in Seq(S)
      /\ Len(t) = i - 1
      /\ \A j \in 1 .. i-1 : t[j] = s[j]
  OBVIOUS
<1>6. /\ u \in Seq(S)
      /\ Len(u) = Len(s) - i
      /\ \A j \in 1 .. Len(s) - i : u[j] = s[i+j]
  OBVIOUS
<1> HIDE DEF t, u
<1>7. /\ t \o u \in Seq(S)
      /\ Len(t \o u) = Len(s) - 1
      /\ \A j \in 1 .. Len(s) - 1 :
           (t \o u)[j] = IF j <= i - 1 THEN t[j] ELSE u[j - (i - 1)]
  BY <1>5, <1>6
<1>8. ASSUME NEW j \in 1 .. Len(s) - 1
      PROVE  (t \o u)[j] = IF j < i THEN s[j] ELSE s[j+1]
  <2>1. CASE j < i
    BY <1>5, <1>7, <2>1
  <2>2. CASE ~(j < i)
    <3>1. j - (i-1) \in 1 .. Len(s) - i /\ i + (j - (i-1)) = j + 1
      BY <2>2
    <3> QED
      BY <1>6, <1>7, <2>2, <3>1
  <2> QED
    BY <2>1, <2>2
<1> QED
  BY <1>4, <1>7, <1>8

\* i%INS is the index of a list.
LEMMA ModInQueues == \A a \in Int : a % INS \in Queues
  BY INSAssumption DEF Queues

(***************************************************************************)
(* Positions in the lists.                                                 *)
(***************************************************************************)
ListTypes == /\ next \in [Ptrs -> Cells \cup {NULL}]
             /\ len \in [Queues -> Int]
             /\ list \in [Queues -> Seq(Cells)]

LEMMA ListedAt ==
  ASSUME ListTypes
  PROVE  \A c : c \in Listed <=>
           \E q \in Queues : \E i \in 1 .. Len(list[q]) : list[q][i] = c
<1>1. \A q \in Queues : DOMAIN list[q] = 1 .. Len(list[q])
  BY DEF ListTypes
<1> QED
  BY <1>1 DEF Listed, Range

LEMMA AtUnique ==
  ASSUME ListTypes, ListsSound,
         NEW q \in Queues, NEW i \in 0 .. Len(list[q]),
         NEW k \in Queues, NEW j \in 0 .. Len(list[k]),
         At(q, i) = At(k, j)
  PROVE  q = k /\ i = j
<1>1. \A m \in Queues : \A n \in 1 .. Len(list[m]) :
        list[m][n] \in Cells /\ n \in DOMAIN list[m]
  BY DEF ListTypes
<1>2. \A m \in Queues : m \notin Cells
  BY CellsAssumption
<1>3. Len(list[q]) \in Nat /\ Len(list[k]) \in Nat
  BY DEF ListTypes
<1> QED
  BY <1>1, <1>2, <1>3 DEF At, ListsSound, NoneTwice

LEMMA AtTyped ==
  ASSUME ListTypes, ListsSound, NEW q \in Queues, NEW i \in 0 .. Len(list[q])
  PROVE  /\ At(q, i) \in Ptrs
         /\ Len(list[q]) \in Nat
         /\ next[At(q, i)] = NULL <=> i = Len(list[q])
         /\ i # Len(list[q]) => /\ i + 1 \in 1 .. Len(list[q])
                                /\ next[At(q, i)] = At(q, i + 1)
                                /\ next[At(q, i)] = list[q][i + 1]
                                /\ list[q][i + 1] \in Cells
<1>1. \A n \in 1 .. Len(list[q]) : list[q][n] \in Cells
  BY DEF ListTypes
<1>2. Len(list[q]) \in Nat
  BY DEF ListTypes
<1>3. NULL \notin Cells
  BY CellsAssumption DEF Ptrs
<1>4. next[At(q, i)] = IF i < Len(list[q]) THEN list[q][i+1] ELSE NULL
  BY DEF ListsSound, Threaded
<1>5. i < Len(list[q]) <=> i # Len(list[q])
  BY <1>2
<1> QED
  BY <1>1, <1>2, <1>3, <1>4, <1>5 DEF At, Ptrs

(***************************************************************************)
(* Linking a node that no list holds behind the last node of a list.       *)
(***************************************************************************)
LEMMA LinkSound ==
  ASSUME ListTypes, ListsSound,
         NEW q \in Queues, NEW c \in Cells, c \notin Listed,
         NEW p, p = At(q, Len(list[q])), LinkAfter(q, p, c)
  PROVE  /\ ListTypes'
         /\ ListsSound'
         /\ Listed' = Listed \cup {c}
         /\ \A k \in Queues \ {q} : list'[k] = list[k]
         /\ Len(list'[q]) = Len(list[q]) + 1
         /\ \A i \in 1 .. Len(list[q]) : list'[q][i] = list[q][i]
         /\ list'[q][Len(list[q]) + 1] = c
<1>0. PICK n : n = Len(list[q])
  OBVIOUS
<1>1. n \in Nat /\ p \in Ptrs /\ p = At(q, n) /\ p # c
  <2>1. n \in Nat /\ n \in 0 .. Len(list[q])
    BY <1>0 DEF ListTypes
  <2>2. p \in Ptrs
    BY <1>0, <2>1, AtTyped
  <2>3. p \in Queues \/ p \in Listed
    BY <1>0, <2>1, ListedAt DEF At
  <2> QED
    BY <1>0, <2>1, <2>2, <2>3, CellsAssumption
<1>2. /\ list' = [list EXCEPT ![q] = Append(list[q], c)]
      /\ next' = [next EXCEPT ![c] = NULL, ![p] = c]
      /\ len' = [len EXCEPT ![q] = len[q] + 1]
  BY DEF LinkAfter
<1>3. /\ Append(list[q], c) \in Seq(Cells)
      /\ Len(Append(list[q], c)) = n + 1
      /\ Append(list[q], c)[n+1] = c
      /\ \A i \in 1 .. n : Append(list[q], c)[i] = list[q][i]
  BY <1>0 DEF ListTypes
<1>4. ListTypes'
  <2>1. list' \in [Queues -> Seq(Cells)]
    BY <1>2, <1>3 DEF ListTypes
  <2>2. next' \in [Ptrs -> Cells \cup {NULL}]
    BY <1>1, <1>2 DEF ListTypes
  <2>3. len' \in [Queues -> Int]
    BY <1>2 DEF ListTypes
  <2> QED
    BY <2>1, <2>2, <2>3 DEF ListTypes
<1>5. /\ \A k \in Queues \ {q} : list'[k] = list[k]
      /\ Len(list'[q]) = n + 1
      /\ \A i \in 1 .. n : list'[q][i] = list[q][i]
      /\ list'[q][n + 1] = c
  BY <1>2, <1>3 DEF ListTypes
<1>6. \A k \in Queues : /\ Len(list[k]) \in Nat
                       /\ DOMAIN list[k] = 1 .. Len(list[k])
                       /\ DOMAIN list'[k] = 1 .. Len(list'[k])
  BY <1>4 DEF ListTypes
\* The positions of the new lists are those of the old ones and one more.
<1>7. ASSUME NEW k \in Queues, NEW i \in 1 .. Len(list'[k])
      PROVE  \/ /\ i \in 1 .. Len(list[k])
                /\ list'[k][i] = list[k][i]
                /\ list[k][i] \in Listed
             \/ k = q /\ i = n + 1 /\ list'[k][i] = c
  <2>1. CASE k # q
    BY <2>1, <1>5, <1>6, ListedAt
  <2>2. CASE k = q /\ i = n + 1
    BY <2>2, <1>5
  <2>3. CASE k = q /\ i # n + 1
    <3>1. i \in 1 .. n
      BY <2>3, <1>1, <1>5
    <3> QED
      BY <2>3, <3>1, <1>0, <1>5, ListedAt
  <2> QED
    BY <2>1, <2>2, <2>3
<1>8. ASSUME NEW k \in Queues, NEW i \in 1 .. Len(list[k])
      PROVE  i \in 1 .. Len(list'[k]) /\ list'[k][i] = list[k][i]
  BY <1>0, <1>1, <1>5, <1>6
<1>9. Listed' = Listed \cup {c}
  <2>1. \A d : d \in Listed' <=>
          \E k \in Queues : \E i \in 1 .. Len(list'[k]) : list'[k][i] = d
    BY <1>6 DEF Listed, Range
  <2>2. \A d \in Listed : d \in Listed'
    BY <2>1, <1>8, ListedAt
  <2>3. n + 1 \in 1 .. Len(list'[q])
    BY <1>1, <1>5
  <2>4. c \in Listed'
    BY <2>1, <2>3, <1>5
  <2>5. \A d \in Listed' : d = c \/ d \in Listed
    BY <2>1, <1>7
  <2> QED
    BY <2>2, <2>4, <2>5
<1>10. NoneTwice'
  <2> SUFFICES ASSUME NEW k \in Queues, NEW m \in Queues,
                      NEW i \in 1 .. Len(list'[k]), NEW j \in 1 .. Len(list'[m]),
                      list'[k][i] = list'[m][j]
               PROVE  k = m /\ i = j
    BY <1>6 DEF NoneTwice
  <2>1. \A a, b \in Queues : \A x \in 1 .. Len(list[a]), y \in 1 .. Len(list[b]) :
          list[a][x] = list[b][y] => a = b /\ x = y
    BY <1>6 DEF ListsSound, NoneTwice
  <2>2. CASE k = q /\ i = n + 1
    BY <2>2, <1>5, <1>7
  <2>3. CASE m = q /\ j = n + 1
    BY <2>3, <1>5, <1>7
  <2>4. CASE ~(k = q /\ i = n + 1) /\ ~(m = q /\ j = n + 1)
    BY <2>1, <2>4, <1>7
  <2> QED
    BY <2>2, <2>3, <2>4
<1>11. (\A k \in Queues : Threaded(k))'
  <2> SUFFICES ASSUME NEW k \in Queues, NEW i \in 0 .. Len(list'[k])
               PROVE  next'[IF i = 0 THEN k ELSE list'[k][i]] =
                        IF i < Len(list'[k]) THEN list'[k][i+1] ELSE NULL
    BY DEF Threaded, At
  <2> DEFINE r == IF i = 0 THEN k ELSE list'[k][i]
  <2>1. c \in Ptrs /\ c \notin Queues
    BY CellsAssumption DEF Ptrs
  <2>2. CASE i \in 0 .. Len(list[k])
    <3>1. r = At(k, i)
      BY <2>2, <1>8 DEF At
    <3>2. At(k, i) # c
      BY <2>1, <2>2, ListedAt DEF At
    <3>3. next[At(k, i)] = IF i < Len(list[k]) THEN list[k][i+1] ELSE NULL
      BY <2>2 DEF ListsSound, Threaded
    <3>4. At(k, i) \in Ptrs
      BY <2>2, AtTyped
    <3>5. CASE k = q /\ i = n
      <4>1. next'[p] = c
        BY <1>1, <1>2 DEF ListTypes
      <4> QED
        BY <4>1, <3>1, <3>5, <1>1, <1>5
    <3>6. CASE ~(k = q /\ i = n)
      <4>1. At(k, i) # p
        BY <2>2, <3>6, AtUnique, <1>0, <1>1
      <4>2. next'[At(k, i)] = next[At(k, i)]
        BY <4>1, <3>2, <3>4, <1>2 DEF ListTypes
      <4>3. CASE i < Len(list[k])
        <5>1. i + 1 \in 1 .. Len(list[k])
          BY <2>2, <4>3, <1>6
        <5>2. i < Len(list'[k])
          BY <2>2, <4>3, <1>8, <5>1, <1>4 DEF ListTypes
        <5> QED
          BY <3>1, <3>3, <4>2, <4>3, <5>1, <5>2, <1>8
      <4>4. CASE ~(i < Len(list[k]))
        <5>1. i = Len(list[k]) /\ k # q
          BY <2>2, <4>4, <3>6, <1>0, <1>6
        <5>2. ~(i < Len(list'[k]))
          BY <5>1, <1>5, <1>6
        <5> QED
          BY <3>1, <3>3, <4>2, <4>4, <5>2
      <4> QED
        BY <4>3, <4>4
    <3> QED
      BY <3>5, <3>6
  <2>3. CASE i \notin 0 .. Len(list[k])
    <3>1. i \in 1 .. Len(list'[k])
      BY <2>3, <1>6, <1>4 DEF ListTypes
    <3>2. k = q /\ i = n + 1 /\ r = c
      BY <2>3, <3>1, <1>7, <1>6
    <3>3. next'[c] = NULL
      BY <2>1, <1>1, <1>2 DEF ListTypes
    <3> QED
      BY <3>2, <3>3, <1>1, <1>5
  <2> QED
    BY <2>2, <2>3
<1>12. \A k \in Queues : len'[k] = Len(list'[k])
  <2>1. len[q] = n /\ len'[q] = n + 1
    BY <1>0, <1>2 DEF ListsSound, ListTypes
  <2>2. \A k \in Queues \ {q} : len'[k] = len[k] /\ len[k] = Len(list[k])
    BY <1>2 DEF ListsSound, ListTypes
  <2> QED
    BY <2>1, <2>2, <1>5
<1>13. ListsSound'
  BY <1>10, <1>11, <1>12 DEF ListsSound
<1> QED
  BY <1>0, <1>4, <1>5, <1>9, <1>13

(***************************************************************************)
(* Unlinking and dropping the node at position k+1 of a list.              *)
(***************************************************************************)
LEMMA UnlinkSound ==
  ASSUME ListTypes, ListsSound,
         NEW q \in Queues, NEW k \in 0 .. Len(list[q]), k # Len(list[q]),
         NEW c, c = list[q][k+1],
         next' = [next EXCEPT ![At(q, k)] = next[c]],
         len' = [len EXCEPT ![q] = @ - 1],
         list' = [list EXCEPT ![q] = Without(@, c)]
  PROVE  /\ ListTypes'
         /\ ListsSound'
         /\ Listed' = Listed \ {c}
         /\ c \in Listed
         /\ \A m \in Queues \ {q} : list'[m] = list[m]
         /\ Len(list'[q]) = Len(list[q]) - 1
         /\ \A i \in 1 .. Len(list[q]) - 1 :
              list'[q][i] = IF i <= k THEN list[q][i] ELSE list[q][i+1]
<1>0. PICK n : n = Len(list[q])
  OBVIOUS
<1>1. /\ n \in Nat /\ k \in Nat /\ k < n /\ k + 1 \in 1 .. n
      /\ c \in Cells /\ At(q, k) \in Ptrs /\ At(q, k + 1) = c
  <2>1. n \in Nat
    BY <1>0 DEF ListTypes
  <2>2. k \in Nat /\ k < n /\ k + 1 \in 1 .. n /\ k + 1 # 0
    BY <1>0, <2>1
  <2> QED
    BY <1>0, <2>1, <2>2, AtTyped DEF At
<1>2. \A i \in 1 .. n : list[q][i] = c => i = k + 1
  BY <1>0, <1>1, AtUnique DEF At
<1>3. /\ Without(list[q], c) \in Seq(Cells)
      /\ Len(Without(list[q], c)) = n - 1
      /\ \A i \in 1 .. n - 1 : Without(list[q], c)[i] =
           IF i < k + 1 THEN list[q][i] ELSE list[q][i+1]
  <2>1. list[q] \in Seq(Cells)
    BY DEF ListTypes
  <2> QED
    <3>1. PICK i : i = k + 1
      OBVIOUS
    <3>2. i \in 1 .. Len(list[q]) /\ list[q][i] = c
      BY <3>1, <1>0, <1>1
    <3>3. \A j \in 1 .. Len(list[q]) : list[q][j] = list[q][i] => j = i
      BY <3>1, <3>2, <1>0, <1>2
    <3> QED
      <4>1. /\ Without(list[q], list[q][i]) \in Seq(Cells)
            /\ Len(Without(list[q], list[q][i])) = Len(list[q]) - 1
            /\ \A j \in 1 .. Len(list[q]) - 1 : Without(list[q], list[q][i])[j] =
                 IF j < i THEN list[q][j] ELSE list[q][j+1]
        BY <2>1, <3>2, <3>3, WithoutAt
      <4> QED
        BY <4>1, <3>1, <3>2, <1>0
<1>4. /\ \A m \in Queues \ {q} : list'[m] = list[m]
      /\ list'[q] = Without(list[q], c)
  BY DEF ListTypes
<1>5. /\ Len(list'[q]) = n - 1
      /\ \A i \in 1 .. n - 1 :
           list'[q][i] = IF i <= k THEN list[q][i] ELSE list[q][i+1]
  <2>1. \A i \in 1 .. n - 1 : i < k + 1 <=> i <= k
    BY <1>1
  <2> QED
    BY <1>3, <1>4, <2>1
<1>6. ListTypes'
  <2>1. list' \in [Queues -> Seq(Cells)]
    BY <1>3 DEF ListTypes
  <2>2. next' \in [Ptrs -> Cells \cup {NULL}]
    BY <1>1 DEF ListTypes, Ptrs
  <2>3. len' \in [Queues -> Int]
    BY DEF ListTypes
  <2> QED
    BY <2>1, <2>2, <2>3 DEF ListTypes
<1>7. \A m \in Queues : /\ Len(list[m]) \in Nat
                       /\ DOMAIN list[m] = 1 .. Len(list[m])
                       /\ DOMAIN list'[m] = 1 .. Len(list'[m])
  BY <1>6 DEF ListTypes
\* Where a node of a new list was before.
<1> DEFINE Was(m, i) == IF m = q /\ i > k THEN i + 1 ELSE i
<1>8. ASSUME NEW m \in Queues, NEW i \in 1 .. Len(list'[m])
      PROVE  /\ Was(m, i) \in 1 .. Len(list[m])
             /\ list'[m][i] = list[m][Was(m, i)]
             /\ ~(m = q /\ Was(m, i) = k + 1)
  <2>1. CASE m # q
    BY <2>1, <1>4
  <2>2. CASE m = q
    <3>1. i \in 1 .. n - 1
      BY <2>2, <1>5
    <3>2. CASE i <= k
      <4>1. i \in 1 .. n /\ ~(i > k) /\ i # k + 1
        BY <3>1, <3>2, <1>0, <1>1
      <4>2. Was(m, i) = i
        BY <4>1
      <4>3. list'[q][i] = list[q][i]
        BY <3>1, <3>2, <1>5
      <4>4. Len(list[m]) = n
        BY <2>2, <1>0
      <4> QED
        BY <2>2, <4>1, <4>2, <4>3, <4>4
    <3>3. CASE ~(i <= k)
      <4>1. i + 1 \in 1 .. n /\ i > k /\ i + 1 # k + 1
        BY <3>1, <3>3, <1>0, <1>1
      <4>2. Was(m, i) = i + 1
        BY <2>2, <4>1
      <4>3. list'[q][i] = list[q][i+1]
        BY <3>1, <3>3, <1>5
      <4>4. Len(list[m]) = n
        BY <2>2, <1>0
      <4> QED
        BY <2>2, <4>1, <4>2, <4>3, <4>4
    <3> QED
      BY <3>2, <3>3
  <2> QED
    BY <2>1, <2>2
<1>9. ASSUME NEW m \in Queues, NEW i \in 1 .. Len(list[m]), list[m][i] # c
      PROVE  \E j \in 1 .. Len(list'[m]) : list'[m][j] = list[m][i]
  <2>1. CASE m # q
    BY <2>1, <1>4
  <2>2. CASE m = q /\ i <= k
    <3>1. i \in 1 .. n - 1
      BY <2>2, <1>0, <1>1
    <3> QED
      BY <2>2, <3>1, <1>5
  <2>3. CASE m = q /\ i > k
    <3>1. i # k + 1
      BY <2>3, <1>9, <1>0, <1>1
    <3>2. i - 1 \in 1 .. n - 1 /\ ~(i - 1 <= k) /\ (i - 1) + 1 = i
      BY <2>3, <3>1, <1>0, <1>1
    <3> QED
      BY <2>3, <3>2, <1>5
  <2> QED
    BY <2>1, <2>2, <2>3, <1>1
<1>10. Listed' = Listed \ {c} /\ c \in Listed
  <2>1. \A d : d \in Listed' <=>
          \E m \in Queues : \E i \in 1 .. Len(list'[m]) : list'[m][i] = d
    BY <1>7 DEF Listed, Range
  <2>2. \A d \in Listed : d # c => d \in Listed'
    BY <2>1, <1>9, ListedAt
  <2>3. \A m \in Queues : \A i \in 1 .. Len(list'[m]) :
          list'[m][i] \in Listed /\ list'[m][i] # c
    <3> SUFFICES ASSUME NEW m \in Queues, NEW i \in 1 .. Len(list'[m])
                 PROVE  list'[m][i] \in Listed /\ list'[m][i] # c
      OBVIOUS
    <3>0. /\ Was(m, i) \in 1 .. Len(list[m])
          /\ list'[m][i] = list[m][Was(m, i)]
          /\ ~(m = q /\ Was(m, i) = k + 1)
      BY <1>8
    <3> HIDE DEF Was
    <3>1. PICK w \in 1 .. Len(list[m]) :
            list'[m][i] = list[m][w] /\ ~(m = q /\ w = k + 1)
      BY <3>0
    <3>2. list[m][w] \in Listed
      BY ListedAt
    <3>3. list[m][w] = c => m = q /\ w = k + 1
      <4>1. w \in 0 .. Len(list[m]) /\ w # 0 /\ At(m, w) = list[m][w]
        BY <1>7 DEF At
      <4>2. k + 1 \in 0 .. Len(list[q])
        BY <1>0, <1>1
      <4> QED
        BY <4>1, <4>2, <1>1, AtUnique
    <3> QED
      BY <3>1, <3>2, <3>3
  <2>4. c \in Listed
    BY <1>0, <1>1, ListedAt
  <2> QED
    BY <2>1, <2>2, <2>3, <2>4
<1>11. NoneTwice'
  <2> SUFFICES ASSUME NEW m \in Queues, NEW o \in Queues,
                      NEW i \in DOMAIN list'[m], NEW j \in DOMAIN list'[o],
                      list'[m][i] = list'[o][j]
               PROVE  m = o /\ i = j
    BY DEF NoneTwice
  <2>0. i \in 1 .. Len(list'[m]) /\ j \in 1 .. Len(list'[o])
    BY <1>7
  <2>1. \A a, b \in Queues : \A x \in 1 .. Len(list[a]), y \in 1 .. Len(list[b]) :
          list[a][x] = list[b][y] => a = b /\ x = y
    BY <1>7 DEF ListsSound, NoneTwice
  <2>2. m = o /\ Was(m, i) = Was(o, j)
    <3>1. /\ Was(m, i) \in 1 .. Len(list[m]) /\ list'[m][i] = list[m][Was(m, i)]
          /\ Was(o, j) \in 1 .. Len(list[o]) /\ list'[o][j] = list[o][Was(o, j)]
      BY <2>0, <1>8
    <3> HIDE DEF Was
    <3> QED
      BY <2>1, <3>1
  <2>3. i \in Nat /\ j \in Nat
    BY <2>0, <1>6 DEF ListTypes
  <2> QED
    BY <2>2, <2>3, <1>1
<1>12. (\A m \in Queues : Threaded(m))'
  <2> SUFFICES ASSUME NEW m \in Queues, NEW i \in 0 .. Len(list'[m])
               PROVE  next'[IF i = 0 THEN m ELSE list'[m][i]] =
                        IF i < Len(list'[m]) THEN list'[m][i+1] ELSE NULL
    BY DEF Threaded, At
  <2> DEFINE r == IF i = 0 THEN m ELSE list'[m][i]
  <2>0. Len(list'[m]) \in Nat
    BY <1>6 DEF ListTypes
  <2>1. CASE m # q
    <3>1. r = At(m, i) /\ list'[m] = list[m] /\ i \in 0 .. Len(list[m])
      BY <2>1, <1>4 DEF At
    <3>2. At(m, i) # At(q, k) /\ At(m, i) \in Ptrs
      BY <2>1, <3>1, AtUnique, AtTyped
    <3>3. next'[At(m, i)] = next[At(m, i)]
      BY <3>2 DEF ListTypes
    <3> QED
      BY <3>1, <3>3 DEF ListsSound, Threaded
  <2>2. CASE m = q /\ i < k
    <3>0. i \in 0 .. Len(list[q]) /\ i < n - 1 /\ i + 1 \in 1 .. n - 1
      BY <2>2, <1>0, <1>1, <1>5
    <3>1. r = At(q, i)
      <4>1. i # 0 => i \in 1 .. n - 1 /\ i <= k
        BY <2>2, <3>0, <1>1
      <4> QED
        BY <2>2, <4>1, <1>5 DEF At
    <3>2. At(q, i) # At(q, k) /\ At(q, i) \in Ptrs
      BY <2>2, <3>0, <1>1, AtUnique, AtTyped
    <3>3. next'[At(q, i)] = next[At(q, i)]
      BY <3>2 DEF ListTypes
    <3>4. next[At(q, i)] = list[q][i+1]
      BY <3>0, <1>0, <1>1 DEF ListsSound, Threaded
    <3>5. list'[q][i+1] = list[q][i+1] /\ i < Len(list'[q])
      BY <2>2, <3>0, <1>1, <1>5
    <3> QED
      BY <2>2, <3>0, <3>1, <3>3, <3>4, <3>5
  <2>3. CASE m = q /\ i = k
    <3>1. r = At(q, k)
      BY <2>3, <1>1, <1>5, <2>0 DEF At
    <3>2. next'[At(q, k)] = next[c]
      BY <1>1 DEF ListTypes
    <3>3. next[c] = IF k + 1 < n THEN list[q][(k+1)+1] ELSE NULL
      BY <1>0, <1>1 DEF ListsSound, Threaded
    <3>4. k < n - 1 => list'[q][k+1] = list[q][(k+1)+1]
      BY <1>1, <1>5
    <3> QED
      BY <2>3, <3>1, <3>2, <3>3, <3>4, <1>1, <1>5
  <2>4. CASE m = q /\ i > k
    <3>1. i \in 1 .. n - 1 /\ i + 1 \in 0 .. n /\ i + 1 # 0 /\ i + 1 # k /\ i # 0
      BY <2>4, <1>1, <1>5
    <3>2. r = At(q, i + 1)
      BY <2>4, <3>1, <1>1, <1>5 DEF At
    <3>3. At(q, i + 1) # At(q, k) /\ At(q, i + 1) \in Ptrs
      BY <3>1, <1>0, AtUnique, AtTyped
    <3>4. next'[At(q, i + 1)] = next[At(q, i + 1)]
      BY <3>3 DEF ListTypes
    <3>5. next[At(q, i + 1)] = IF i + 1 < n THEN list[q][(i+1)+1] ELSE NULL
      BY <3>1, <1>0 DEF ListsSound, Threaded
    <3>6. i < n - 1 => list'[q][i+1] = list[q][(i+1)+1]
      <4>1. i < n - 1 => i + 1 \in 1 .. n - 1 /\ ~(i + 1 <= k)
        BY <2>4, <3>1, <1>1
      <4> QED
        BY <4>1, <1>5
    <3> QED
      BY <2>4, <3>1, <3>2, <3>4, <3>5, <3>6, <1>1, <1>5
  <2> QED
    BY <2>1, <2>2, <2>3, <2>4, <1>1, <2>0
<1>13. \A m \in Queues : len'[m] = Len(list'[m])
  <2>1. len[q] = n /\ len'[q] = n - 1
    BY <1>0, <1>1 DEF ListsSound, ListTypes
  <2>2. \A m \in Queues \ {q} : len'[m] = len[m] /\ len[m] = Len(list[m])
    BY DEF ListsSound, ListTypes
  <2> QED
    BY <2>1, <2>2, <1>4, <1>5
<1>14. ListsSound'
  BY <1>11, <1>12, <1>13 DEF ListsSound
<1> QED
  BY <1>0, <1>4, <1>5, <1>6, <1>10, <1>14

(***************************************************************************)
(* The registry's own lists.                                               *)
(***************************************************************************)
LEMMA TypesOfLists == TypeOK => ListTypes
  BY DEF TypeOK, ListTypes

LEMMA ListDomain ==
  TypeOK => \A q \in Queues : DOMAIN list[q] = 1 .. Len(list[q]) /\ Len(list[q]) \in Nat
BY DEF TypeOK

(***************************************************************************)
(* What a step that does not touch the lists leaves true.                  *)
(***************************************************************************)
LEMMA SameLists ==
  ASSUME ListsSound, UNCHANGED <<next, len, list>>
  PROVE  ListsSound' /\ Listed' = Listed
<1>1. Listed' = Listed
  BY DEF Listed
<1>2. (\A q \in Queues : Threaded(q))'
  BY DEF ListsSound, Threaded, At
<1>3. NoneTwice' /\ (\A q \in Queues : len'[q] = Len(list'[q]))
  BY DEF ListsSound, NoneTwice
<1> QED
  BY <1>1, <1>2, <1>3 DEF ListsSound

LEMMA SameHeartbeat ==
  ASSUME DueExact, UNCHANGED <<hb, list>>
  PROVE  DueExact'
BY DEF DueExact, ProbedSoFar, At, Listed

LEMMA SameWalkers ==
  ASSUME LockedCursorsLive, UNCHANGED <<hb, acceptor, list>>
  PROVE  LockedCursorsLive'
BY DEF LockedCursorsLive, OnList, At

LEMMA InitIndInv == Init => IndInv
<1> SUFFICES ASSUME Init PROVE IndInv
  OBVIOUS
<1> USE DEF Init
<1>1. 0 \in Queues /\ From \in Nat /\ To \in Nat /\ From \in From .. To + 1
  BY INSAssumption, AddrAssumption DEF Queues
<1>2. \A q \in Queues : list[q] = <<>> /\ Len(list[q]) = 0 /\ DOMAIN list[q] = {}
  BY DEF NoLists
<1>3. Listed = {}
  BY <1>2 DEF Listed, Range
<1>4. TypeOK
  <2>1. list \in [Queues -> Seq(Cells)] /\ main.before \in [Queues -> Seq(Cells)]
    BY DEF NoLists
  <2>2. main \in [pc : {"boot", "epoll", "test", "compare", "advance"}, i : Nat,
                  p : PtrsOrNull, node : Cells \cup {NULL},
                  before : [Queues -> Seq(Cells)]]
    BY <1>1, <2>1 DEF PtrsOrNull
  <2>3. 0 \in 0 .. MaxLogins
    BY BoundsAssumption
  <2>4. acceptor \in [Cells -> [pc : {"none", "lock", "walk", "link", "unlock"},
                               index : Queues, p : PtrsOrNull]]
    BY <1>1 DEF NoThread, PtrsOrNull
  <2>5. hb \in [pc : {"sleep", "probe", "select", "judge", "unlock"}, i : Queues,
                p : PtrsOrNull, due : SUBSET Cells]
    BY <1>1 DEF PtrsOrNull
  <2>6. worker \in [Queues -> [pc : {"sleep", "test", "address", "chat"},
                              p : PtrsOrNull]]
    BY DEF PtrsOrNull
  <2>7. /\ next \in [Ptrs -> Cells \cup {NULL}] /\ len \in [Queues -> Int]
        /\ addr \in [Cells -> Addrs \cup (From .. To) \cup {NoAddr}]
        /\ heap \subseteq Cells /\ myRwlock \in Cells \cup {Heartbeat, Nobody}
    BY DEF Ptrs
  <2>8. crashed \in BOOLEAN /\ refused \subseteq Cells /\ shaken \subseteq Working
    OBVIOUS
  <2> QED
    BY <2>1, <2>2, <2>3, <2>4, <2>5, <2>6, <2>7, <2>8 DEF TypeOK
<1>5. ListsSound
  BY <1>2 DEF ListsSound, Threaded, NoneTwice, At, Ptrs
<1>6. NodesAccounted
  BY <1>3 DEF NodesAccounted, Pending, InHand, NoThread
<1>7. LockedCursorsLive
  BY DEF LockedCursorsLive, NoThread
<1>8. LockOwned
  BY CellsAssumption DEF LockOwned, NoThread
<1>9. DueExact
  BY DEF DueExact
<1>10. InHandSound
  BY <1>1 DEF InHandSound, NoThread
<1> QED
  BY <1>4, <1>5, <1>6, <1>7, <1>8, <1>9, <1>10 DEF IndInv

(***************************************************************************)
(* The workers, and a crash, change nothing that the lists depend on.      *)
(***************************************************************************)
LEMMA WorkerStep ==
  ASSUME IndInv, NEW q \in Working, Worker(q)
  PROVE  IndInv'
<1>0. q \in Queues /\ q \in PtrsOrNull
  BY BoundsAssumption DEF PtrsOrNull, Ptrs
<1>1. /\ UNCHANGED <<next, len, addr, heap, myRwlock, main, acceptor, hb,
                     logins, list, refused>>
  BY DEF Worker, WorkWake, WorkTest, WorkEnd, WorkAddress, WorkAdvance,
         WorkFault, Crash, WorkerOnly
<1>2. \A r \in Ptrs : next[r] \in Cells \cup {NULL}
  BY DEF IndInv, TypeOK
<1>3. /\ worker' \in [Queues -> [pc : {"sleep", "test", "address", "chat"},
                                 p : PtrsOrNull]]
      /\ \A k \in Queues : worker'[k].pc \in {"address", "chat"} => worker'[k].p # NULL
      /\ crashed' \in BOOLEAN
      /\ shaken' \subseteq Working
  <2> USE <1>0, <1>2 DEF IndInv, TypeOK, InHandSound, WorkerOnly
  <2>1. CASE WorkWake(q)
    BY <2>1 DEF WorkWake
  <2>2. CASE WorkTest(q)
    BY <2>2 DEF WorkTest
  <2>3. CASE WorkEnd(q)
    BY <2>3 DEF WorkEnd, PtrsOrNull
  <2>4. CASE WorkAddress(q)
    BY <2>4 DEF WorkAddress
  <2>5. CASE WorkAdvance(q)
    <3>1. worker[q].p \in Ptrs
      BY <2>5 DEF WorkAdvance, PtrsOrNull
    <3> QED
      BY <2>5, <3>1 DEF WorkAdvance, PtrsOrNull, Ptrs
  <2>6. CASE WorkFault(q)
    BY <2>6 DEF WorkFault, Crash
  <2> QED
    BY <2>1, <2>2, <2>3, <2>4, <2>5, <2>6 DEF Worker
<1>4. TypeOK'
  BY <1>1, <1>3 DEF IndInv, TypeOK
<1>5. ListsSound' /\ Listed' = Listed
  BY <1>1, SameLists DEF IndInv
<1>6. NodesAccounted'
  BY <1>1, <1>5 DEF IndInv, NodesAccounted, Pending, InHand
<1>7. LockedCursorsLive' /\ DueExact'
  BY <1>1, SameWalkers, SameHeartbeat DEF IndInv
<1>8. LockOwned'
  BY <1>1, <1>5 DEF IndInv, LockOwned
<1>9. InHandSound'
  BY <1>1, <1>3 DEF IndInv, InHandSound
<1> QED
  BY <1>4, <1>5, <1>6, <1>7, <1>8, <1>9 DEF IndInv

(***************************************************************************)
(* The main thread's scan.  It moves its cursor, and at its end the node   *)
(* in hand becomes an acceptor's or is leaked.                             *)
(***************************************************************************)
Scan == FindTest \/ FindNextList \/ FindDiffers \/ FindAdvance

LEMMA ScanStep ==
  ASSUME IndInv, Scan
  PROVE  IndInv'
<1>1. /\ UNCHANGED <<next, len, addr, heap, myRwlock, acceptor, hb, worker,
                     crashed, logins, list, refused, shaken>>
      /\ main'.node = main.node
      /\ main'.pc \in {"test", "compare", "advance"}
      /\ main.pc \in {"test", "compare", "advance"}
  BY DEF Scan, FindTest, FindNextList, FindDiffers, FindAdvance, MainOnly, IndInv,
         TypeOK
<1>2. \A r \in Ptrs : next[r] \in Cells \cup {NULL}
  BY DEF IndInv, TypeOK
<1>3. /\ main' \in [pc : {"boot", "epoll", "test", "compare", "advance"}, i : Nat,
                    p : PtrsOrNull, node : Cells \cup {NULL},
                    before : [Queues -> Seq(Cells)]]
      /\ main'.i \in Queues
      /\ main'.pc \in {"compare", "advance"} => main'.p # NULL
  <2>0. /\ main \in [pc : {"boot", "epoll", "test", "compare", "advance"}, i : Nat,
                     p : PtrsOrNull, node : Cells \cup {NULL},
                     before : [Queues -> Seq(Cells)]]
        /\ main.i \in Queues
        /\ main.pc \in {"compare", "advance"} => main.p # NULL
    BY <1>1 DEF IndInv, TypeOK, InHandSound
  <2>1. CASE FindTest
    BY <2>0, <2>1 DEF FindTest
  <2>2. CASE FindNextList
    <3>1. main.i \in Nat /\ main.i + 1 \in Nat /\ main.i + 1 \in Queues
      BY <2>0, <2>2, INSAssumption DEF FindNextList, Queues
    <3> QED
      BY <2>0, <2>2, <3>1 DEF FindNextList, PtrsOrNull, Ptrs
  <2>3. CASE FindDiffers
    BY <2>0, <2>3 DEF FindDiffers
  <2>4. CASE FindAdvance
    <3>1. main.p \in Ptrs
      BY <2>0, <2>4 DEF FindAdvance, PtrsOrNull
    <3> QED
      BY <2>0, <2>4, <3>1, <1>2 DEF FindAdvance, PtrsOrNull, Ptrs
  <2> QED
    BY <2>1, <2>2, <2>3, <2>4 DEF Scan
<1>4. TypeOK'
  BY <1>1, <1>3 DEF IndInv, TypeOK
<1>5. ListsSound' /\ Listed' = Listed
  BY <1>1, SameLists DEF IndInv
<1>6. NodesAccounted'
  BY <1>1, <1>5 DEF IndInv, NodesAccounted, Pending, InHand
<1>7. LockedCursorsLive' /\ DueExact'
  BY <1>1, SameWalkers, SameHeartbeat DEF IndInv
<1>8. LockOwned'
  BY <1>1, <1>5 DEF IndInv, LockOwned
<1>9. InHandSound'
  BY <1>1, <1>3 DEF IndInv, InHandSound
<1> QED
  BY <1>4, <1>5, <1>6, <1>7, <1>8, <1>9 DEF IndInv

LEMMA BackToEpollTyped ==
  ASSUME TypeOK, BackToEpoll
  PROVE  /\ main' \in [pc : {"boot", "epoll", "test", "compare", "advance"}, i : Nat,
                        p : PtrsOrNull, node : Cells \cup {NULL},
                        before : [Queues -> Seq(Cells)]]
         /\ main'.pc = "epoll" /\ main'.node = NULL
<1>1. NoLists \in [Queues -> Seq(Cells)]
  BY DEF NoLists
<1> QED
  BY <1>1 DEF TypeOK, BackToEpoll, PtrsOrNull

LEMMA SpawnStep ==
  ASSUME IndInv, LoginSpawn
  PROVE  IndInv'
<1> PICK c : c = main.node
  OBVIOUS
<1>1. /\ UNCHANGED <<next, len, addr, heap, myRwlock, hb, worker, crashed, logins,
                     list, refused, shaken>>
      /\ acceptor' = [acceptor EXCEPT ![c].pc = "lock"]
      /\ BackToEpoll
  BY DEF LoginSpawn, MainOnly
<1>2. c \in Cells /\ c # NULL
  BY DEF LoginSpawn, IndInv, TypeOK, InHandSound
<1>3. acceptor[c].pc = "none"
  BY <1>2 DEF IndInv, TypeOK, NodesAccounted, Pending, InHand, LockOwned
<1>4. /\ acceptor' \in [Cells -> [pc : {"none", "lock", "walk", "link", "unlock"},
                                   index : Queues, p : PtrsOrNull]]
      /\ acceptor'[c].pc = "lock"
      /\ \A d \in Cells \ {c} : acceptor'[d] = acceptor[d]
  <2>1. acceptor \in [Cells -> [pc : {"none", "lock", "walk", "link", "unlock"},
                               index : Queues, p : PtrsOrNull]]
    BY DEF IndInv, TypeOK
  <2>2. acceptor' = [acceptor EXCEPT ![c] = [acceptor[c] EXCEPT !.pc = "lock"]]
    BY <1>1
  <2>3. [acceptor[c] EXCEPT !.pc = "lock"]
          \in [pc : {"none", "lock", "walk", "link", "unlock"},
              index : Queues, p : PtrsOrNull]
    BY <1>2, <2>1
  <2> QED
    BY <1>2, <2>1, <2>2, <2>3
<1>5. TypeOK'
  BY <1>1, <1>4, BackToEpollTyped DEF IndInv, TypeOK
<1>6. ListsSound' /\ Listed' = Listed
  BY <1>1, SameLists DEF IndInv
<1>7. NodesAccounted'
  <2>1. InHand = {c} /\ InHand' = {}
    BY <1>1, <1>2, BackToEpollTyped DEF InHand, IndInv
  <2>2. Pending' = Pending \cup {c}
    BY <1>2, <1>4 DEF Pending
  <2> QED
    BY <1>1, <1>6, <2>1, <2>2 DEF IndInv, NodesAccounted
<1>8. LockedCursorsLive'
  BY <1>1, <1>4 DEF IndInv, LockedCursorsLive, OnList, At
<1>9. LockOwned'
  BY <1>1, <1>3, <1>4, <1>6 DEF IndInv, LockOwned
<1>10. DueExact'
  BY <1>1, SameHeartbeat DEF IndInv
<1>11. InHandSound'
  BY <1>1, <1>4, BackToEpollTyped DEF IndInv, InHandSound
<1> QED
  BY <1>5, <1>6, <1>7, <1>8, <1>9, <1>10, <1>11 DEF IndInv

LEMMA RefusedStep ==
  ASSUME IndInv, LoginRefused
  PROVE  IndInv'
<1>1. /\ UNCHANGED <<next, len, addr, heap, myRwlock, acceptor, hb, worker,
                     crashed, logins, list, shaken>>
      /\ refused' = refused \cup {main.node}
      /\ BackToEpoll
  BY DEF LoginRefused, MainOnly
<1>2. main.node \in Cells /\ main.node # NULL
  BY DEF LoginRefused, IndInv, TypeOK, InHandSound
<1>3. TypeOK'
  BY <1>1, <1>2, BackToEpollTyped DEF IndInv, TypeOK
<1>4. ListsSound' /\ Listed' = Listed
  BY <1>1, SameLists DEF IndInv
<1>5. NodesAccounted'
  <2>1. InHand = {main.node} /\ InHand' = {}
    BY <1>1, <1>2, BackToEpollTyped DEF InHand, IndInv
  <2>2. Pending' = Pending
    BY <1>1 DEF Pending
  <2> QED
    BY <1>1, <1>4, <2>1, <2>2 DEF IndInv, NodesAccounted
<1>6. LockedCursorsLive' /\ DueExact'
  BY <1>1, SameWalkers, SameHeartbeat DEF IndInv
<1>7. LockOwned'
  BY <1>1, <1>4 DEF IndInv, LockOwned
<1>8. InHandSound'
  BY <1>1, BackToEpollTyped DEF IndInv, InHandSound
<1> QED
  BY <1>3, <1>4, <1>5, <1>6, <1>7, <1>8 DEF IndInv

LEMMA CrashStep ==
  ASSUME IndInv, Crash
  PROVE  IndInv'
<1>1. ListsSound' /\ Listed' = Listed
  BY SameLists DEF IndInv, Crash
<1>2. TypeOK' /\ NodesAccounted' /\ LockOwned' /\ InHandSound'
  BY <1>1 DEF Crash, IndInv, TypeOK, NodesAccounted, Pending, InHand, LockOwned,
              InHandSound
<1>3. LockedCursorsLive' /\ DueExact'
  BY SameWalkers, SameHeartbeat DEF IndInv, Crash
<1> QED
  BY <1>1, <1>2, <1>3 DEF IndInv

(***************************************************************************)
(* New nodes: the configured clients at start, and logins.                 *)
(***************************************************************************)
LEMMA MallocTyped ==
  ASSUME TypeOK, NEW c, NEW a \in Addrs \cup (From .. To), Malloc(c, a)
  PROVE  /\ c \in Cells /\ c \notin heap
         /\ heap' = heap \cup {c} /\ heap' \subseteq Cells
         /\ addr' \in [Cells -> Addrs \cup (From .. To) \cup {NoAddr}]
BY DEF TypeOK, Malloc

LEMMA BootAddStep ==
  ASSUME IndInv, NEW c \in Cells, BootAdd(c)
  PROVE  IndInv'
<1> PICK q : q = ConfiguredQueue(main.i)
  OBVIOUS
<1>1. /\ main.pc = "boot" /\ main.i \in From .. To /\ main.i \in Int
      /\ main.node = NULL
      /\ hb.pc = "sleep" /\ myRwlock = Nobody
      /\ \A d \in Cells : acceptor[d].pc = "none"
      /\ Malloc(c, main.i)
      /\ LinkAfter(q, At(q, Len(list[q])), c)
      /\ main' = [main EXCEPT !.i = @ + 1]
      /\ UNCHANGED <<myRwlock, acceptor, hb, worker, crashed, logins, refused,
                     shaken>>
  BY AddrAssumption DEF BootAdd, IndInv, InHandSound
<1>2. q \in Queues
  BY <1>1, ModInQueues DEF ConfiguredQueue
<1>3. /\ c \notin heap /\ heap' = heap \cup {c} /\ heap' \subseteq Cells
      /\ addr' \in [Cells -> Addrs \cup (From .. To) \cup {NoAddr}]
  BY <1>1, MallocTyped DEF IndInv
<1>4. c \notin Listed
  BY <1>3 DEF IndInv, NodesAccounted
<1>5. ListTypes' /\ ListsSound' /\ Listed' = Listed \cup {c}
  BY <1>1, <1>2, <1>4, LinkSound, TypesOfLists DEF IndInv
<1>6. /\ main' \in [pc : {"boot", "epoll", "test", "compare", "advance"}, i : Nat,
                    p : PtrsOrNull, node : Cells \cup {NULL},
                    before : [Queues -> Seq(Cells)]]
      /\ main'.pc = "boot" /\ main'.i \in From .. To + 1 /\ main'.node = NULL
  <2>1. main.i + 1 \in Nat /\ main.i + 1 \in From .. To + 1
    BY <1>1, AddrAssumption
  <2> QED
    BY <1>1, <2>1 DEF IndInv, TypeOK
<1>7. TypeOK'
  BY <1>1, <1>3, <1>5, <1>6 DEF IndInv, TypeOK, ListTypes
<1>8. NodesAccounted'
  <2>1. Pending = {} /\ Pending' = {} /\ InHand = {} /\ InHand' = {}
    BY <1>1, <1>6 DEF Pending, InHand
  <2> QED
    BY <1>1, <1>3, <1>5, <2>1 DEF IndInv, NodesAccounted
<1>9. LockedCursorsLive'
  BY <1>1 DEF LockedCursorsLive
<1>10. LockOwned' /\ DueExact'
  BY <1>1, CellsAssumption DEF LockOwned, DueExact
<1>11. InHandSound'
  BY <1>1, <1>6 DEF IndInv, InHandSound
<1> QED
  BY <1>5, <1>7, <1>8, <1>9, <1>10, <1>11 DEF IndInv

LEMMA BootDoneStep ==
  ASSUME IndInv, BootDone
  PROVE  IndInv'
<1>1. /\ UNCHANGED <<next, len, addr, heap, myRwlock, acceptor, hb, worker,
                     crashed, logins, list, refused, shaken>>
      /\ main.pc = "boot" /\ main' = [main EXCEPT !.pc = "epoll", !.i = 0]
  BY DEF BootDone
<1>2. ListsSound' /\ Listed' = Listed
  BY <1>1, SameLists DEF IndInv
<1>3. TypeOK' /\ main'.pc = "epoll" /\ main'.node = main.node
  BY <1>1 DEF IndInv, TypeOK
<1>4. NodesAccounted' /\ LockOwned' /\ InHandSound'
  BY <1>1, <1>2, <1>3 DEF IndInv, NodesAccounted, Pending, InHand, LockOwned,
                          InHandSound
<1>5. LockedCursorsLive' /\ DueExact'
  BY <1>1, SameWalkers, SameHeartbeat DEF IndInv
<1> QED
  BY <1>2, <1>3, <1>4, <1>5 DEF IndInv

LEMMA LoginStep ==
  ASSUME IndInv, NEW a \in Addrs, NEW c \in Cells, LoginAccept(a, c)
  PROVE  IndInv'
<1>1. /\ UNCHANGED <<next, len, myRwlock, acceptor, hb, worker, crashed, list,
                     refused, shaken>>
      /\ main.pc = "epoll" /\ Malloc(c, a)
      /\ logins < MaxLogins /\ logins' = logins + 1
      /\ main' = [pc |-> "test", i |-> 0, p |-> 0, node |-> c, before |-> list]
  BY DEF LoginAccept
<1>2. /\ c \notin heap /\ heap' = heap \cup {c} /\ heap' \subseteq Cells
      /\ addr' \in [Cells -> Addrs \cup (From .. To) \cup {NoAddr}]
  BY <1>1, MallocTyped DEF IndInv
<1>3. 0 \in Queues /\ 0 \in PtrsOrNull /\ c # NULL
  BY INSAssumption, CellsAssumption DEF Queues, PtrsOrNull, Ptrs
<1>4. TypeOK'
  <2>1. logins' \in 0 .. MaxLogins
    BY <1>1, BoundsAssumption DEF IndInv, TypeOK
  <2>2. main' \in [pc : {"boot", "epoll", "test", "compare", "advance"}, i : Nat,
                   p : PtrsOrNull, node : Cells \cup {NULL},
                   before : [Queues -> Seq(Cells)]]
    BY <1>1, <1>3 DEF IndInv, TypeOK
  <2> QED
    BY <1>1, <1>2, <2>1, <2>2 DEF IndInv, TypeOK
<1>5. ListsSound' /\ Listed' = Listed
  BY <1>1, SameLists DEF IndInv
<1>6. NodesAccounted'
  <2>1. InHand = {} /\ InHand' = {c} /\ Pending' = Pending
    BY <1>1, <1>3 DEF InHand, Pending, IndInv, InHandSound
  <2> QED
    BY <1>1, <1>2, <1>5, <2>1 DEF IndInv, NodesAccounted
<1>7. LockedCursorsLive' /\ DueExact'
  BY <1>1, SameWalkers, SameHeartbeat DEF IndInv
<1>8. LockOwned' /\ InHandSound'
  BY <1>1, <1>3, <1>5 DEF IndInv, LockOwned, InHandSound
<1> QED
  BY <1>4, <1>5, <1>6, <1>7, <1>8 DEF IndInv

(***************************************************************************)
(* The acceptor, up to the link.                                           *)
(***************************************************************************)
AcceptorType == [pc : {"none", "lock", "walk", "link", "unlock"},
                 index : Queues, p : PtrsOrNull]

\* Who holds the lock as an acceptor keeps everybody else out of the lists.
LEMMA AcceptorAlone ==
  ASSUME IndInv, NEW c \in Cells, acceptor[c].pc \in {"walk", "link", "unlock"}
  PROVE  /\ hb.pc = "sleep" /\ myRwlock = c
         /\ \A d \in Cells \ {c} : acceptor[d].pc \notin {"walk", "link", "unlock"}
BY CellsAssumption DEF IndInv, LockOwned

\* A step that only moves an acceptor on leaves this to show.
LEMMA AcceptorMoves ==
  ASSUME IndInv, NEW c \in Cells, NEW t \in AcceptorType,
         acceptor[c].pc # "none",
         acceptor' = [acceptor EXCEPT ![c] = t],
         UNCHANGED <<next, len, list, addr, heap, main, hb, worker, crashed,
                     logins, refused, shaken>>,
         myRwlock' \in Cells \cup {Heartbeat, Nobody},
         acceptor[c].pc \in {"lock", "walk", "link"} <=> t.pc \in {"lock", "walk", "link"},
         t.pc \in {"walk", "link"} => t.p # NULL,
         t.pc = "walk" => OnList(t.p, t.index, 0),
         t.pc = "link" => OnList(t.p, t.index, Len(list[t.index])),
         LockOwned'
  PROVE  IndInv'
<1>1. /\ acceptor' \in [Cells -> AcceptorType]
      /\ acceptor'[c] = t
      /\ \A d \in Cells \ {c} : acceptor'[d] = acceptor[d]
  BY DEF IndInv, TypeOK, AcceptorType
<1>2. TypeOK'
  BY <1>1 DEF IndInv, TypeOK, AcceptorType
<1>3. ListsSound' /\ Listed' = Listed
  BY SameLists DEF IndInv
<1>4. NodesAccounted'
  <2>1. Pending' = Pending /\ InHand' = InHand
    BY <1>1 DEF Pending, InHand
  <2> QED
    BY <1>3, <2>1 DEF IndInv, NodesAccounted
<1>5. LockedCursorsLive'
  BY <1>1 DEF IndInv, LockedCursorsLive, OnList, At
<1>6. DueExact'
  BY SameHeartbeat DEF IndInv
<1>7. InHandSound'
  <2>1. main.pc # "boot"
    BY DEF IndInv, InHandSound
  <2> QED
    BY <1>1, <2>1 DEF IndInv, InHandSound
<1> QED
  BY <1>2, <1>3, <1>4, <1>5, <1>6, <1>7 DEF IndInv

LEMMA AcceptLockStep ==
  ASSUME IndInv, NEW c \in Cells, AcceptLock(c)
  PROVE  IndInv'
<1>1. PICK q \in Queues :
        acceptor' = [acceptor EXCEPT ![c] = [pc |-> "walk", index |-> q, p |-> q]]
  BY DEF AcceptLock
<1> PICK t : t = [pc |-> "walk", index |-> q, p |-> q]
  OBVIOUS
<1>2. t \in AcceptorType /\ q # NULL
  BY CellsAssumption DEF AcceptorType, PtrsOrNull, Ptrs
<1>3. OnList(t.p, t.index, 0)
  <2>1. 0 \in 0 .. Len(list[q])
    BY DEF IndInv, TypeOK
  <2> QED
    BY <2>1 DEF OnList, At
<1>4. /\ acceptor[c].pc = "lock" /\ myRwlock = Nobody /\ myRwlock' = c
      /\ UNCHANGED <<next, len, list, addr, heap, main, hb, worker, crashed,
                     logins, refused, shaken>>
  BY DEF AcceptLock, MayLock, AcceptorOnly
<1>5. \A d \in Cells \ {c} : acceptor'[d] = acceptor[d]
  BY <1>1 DEF IndInv, TypeOK
<1>6. acceptor'[c].pc = "walk"
  BY <1>1 DEF IndInv, TypeOK
<1>7. Listed' = Listed
  BY <1>4 DEF Listed
<1>8. LockOwned'
  BY <1>4, <1>5, <1>6, <1>7, CellsAssumption DEF IndInv, LockOwned
<1> QED
  BY <1>1, <1>2, <1>3, <1>4, <1>8, AcceptorMoves

LEMMA AcceptWalkStep ==
  ASSUME IndInv, NEW c \in Cells, AcceptWalk(c)
  PROVE  IndInv'
<1>1. /\ acceptor[c].pc = "walk" /\ next[acceptor[c].p] # NULL
      /\ acceptor' = [acceptor EXCEPT ![c].p = next[acceptor[c].p]]
      /\ UNCHANGED <<next, len, list, addr, heap, main, hb, worker, crashed,
                     logins, refused, shaken, myRwlock>>
  BY DEF AcceptWalk, AcceptorOnly
<1> PICK t : t = [acceptor[c] EXCEPT !.p = next[acceptor[c].p]]
  OBVIOUS
<1>2. acceptor[c] \in AcceptorType
  BY DEF IndInv, TypeOK, AcceptorType
<1> PICK q : q = acceptor[c].index
  OBVIOUS
<1>3. q \in Queues
  BY <1>2 DEF AcceptorType
<1>4. PICK i \in 0 .. Len(list[q]) : acceptor[c].p = At(q, i)
  BY <1>1 DEF IndInv, LockedCursorsLive, OnList
<1>5. /\ i + 1 \in 0 .. Len(list[q])
      /\ next[acceptor[c].p] = At(q, i + 1)
      /\ next[acceptor[c].p] \in Cells
  BY <1>1, <1>3, <1>4, AtTyped, TypesOfLists DEF IndInv
<1>6. t \in AcceptorType /\ t.pc = "walk" /\ t.index = q /\ t.p = At(q, i + 1)
  BY <1>1, <1>2, <1>5 DEF AcceptorType, PtrsOrNull, Ptrs
<1>7. OnList(t.p, t.index, 0)
  BY <1>5, <1>6 DEF OnList
<1>8. LockOwned'
  <2>1. \A d \in Cells : acceptor'[d].pc = acceptor[d].pc
    BY <1>1 DEF IndInv, TypeOK
  <2>2. Listed' = Listed
    BY <1>1 DEF Listed
  <2> QED
    BY <1>1, <2>1, <2>2 DEF IndInv, LockOwned
<1>9. acceptor' = [acceptor EXCEPT ![c] = t]
  BY <1>1
<1>10. myRwlock' \in Cells \cup {Heartbeat, Nobody}
  BY <1>1 DEF IndInv, TypeOK
<1> QED
  BY <1>1, <1>5, <1>6, <1>7, <1>8, <1>9, <1>10, AcceptorMoves

LEMMA AcceptEndStep ==
  ASSUME IndInv, NEW c \in Cells, AcceptEnd(c)
  PROVE  IndInv'
<1>1. /\ acceptor[c].pc = "walk" /\ next[acceptor[c].p] = NULL
      /\ acceptor' = [acceptor EXCEPT ![c].pc = "link"]
      /\ UNCHANGED <<next, len, list, addr, heap, main, hb, worker, crashed,
                     logins, refused, shaken, myRwlock>>
  BY DEF AcceptEnd, AcceptorOnly
<1> PICK t : t = [acceptor[c] EXCEPT !.pc = "link"]
  OBVIOUS
<1>2. acceptor[c] \in AcceptorType
  BY DEF IndInv, TypeOK, AcceptorType
<1> PICK q : q = acceptor[c].index
  OBVIOUS
<1>3. q \in Queues
  BY <1>2 DEF AcceptorType
<1>4. PICK i \in 0 .. Len(list[q]) : acceptor[c].p = At(q, i)
  BY <1>1 DEF IndInv, LockedCursorsLive, OnList
<1>5. i = Len(list[q])
  BY <1>1, <1>3, <1>4, AtTyped, TypesOfLists DEF IndInv
<1>6. /\ t \in AcceptorType /\ t.pc = "link" /\ t.index = q
      /\ t.p = At(q, i) /\ t.p # NULL
  BY <1>1, <1>2, <1>4 DEF AcceptorType, IndInv, InHandSound
<1>7. OnList(t.p, t.index, Len(list[t.index]))
  BY <1>4, <1>5, <1>6 DEF OnList
<1>8. LockOwned'
  <2>1. /\ acceptor'[c].pc = "link"
        /\ \A d \in Cells \ {c} : acceptor'[d].pc = acceptor[d].pc
    BY <1>1 DEF IndInv, TypeOK
  <2>2. Listed' = Listed
    BY <1>1 DEF Listed
  <2> QED
    BY <1>1, <2>1, <2>2 DEF IndInv, LockOwned
<1>9. acceptor' = [acceptor EXCEPT ![c] = t]
  BY <1>1
<1>10. myRwlock' \in Cells \cup {Heartbeat, Nobody}
  BY <1>1 DEF IndInv, TypeOK
<1> QED
  BY <1>1, <1>6, <1>7, <1>8, <1>9, <1>10, AcceptorMoves

LEMMA AcceptUnlockStep ==
  ASSUME IndInv, NEW c \in Cells, AcceptUnlock(c)
  PROVE  IndInv'
<1>1. /\ acceptor[c].pc = "unlock" /\ myRwlock' = Nobody
      /\ acceptor' = [acceptor EXCEPT ![c] = NoThread]
      /\ UNCHANGED <<next, len, list, addr, heap, main, hb, worker, crashed,
                     logins, refused, shaken>>
  BY DEF AcceptUnlock, AcceptorOnly
<1>2. NoThread \in AcceptorType /\ NoThread.pc = "none"
  BY INSAssumption DEF NoThread, AcceptorType, PtrsOrNull, Queues
<1>3. LockOwned'
  <2>1. /\ acceptor'[c].pc = "none"
        /\ \A d \in Cells \ {c} : acceptor'[d].pc = acceptor[d].pc
    BY <1>1, <1>2 DEF IndInv, TypeOK
  <2>2. Listed' = Listed
    BY <1>1 DEF Listed
  <2> QED
    BY <1>1, <2>1, <2>2, AcceptorAlone, CellsAssumption DEF IndInv, LockOwned
<1> QED
  BY <1>1, <1>2, <1>3, AcceptorMoves

LEMMA AcceptLinkStep ==
  ASSUME IndInv, NEW c \in Cells, AcceptLink(c)
  PROVE  IndInv'
<1> PICK q, p : q = acceptor[c].index /\ p = acceptor[c].p
  OBVIOUS
<1>1. /\ acceptor[c].pc = "link"
      /\ LinkAfter(q, p, c)
      /\ acceptor' = [acceptor EXCEPT ![c].pc = "unlock"]
      /\ UNCHANGED <<addr, heap, main, hb, worker, crashed, logins, refused,
                     shaken, myRwlock>>
  BY DEF AcceptLink, AcceptorOnly
<1>2. /\ hb.pc = "sleep" /\ myRwlock = c
      /\ \A d \in Cells \ {c} : acceptor[d].pc \notin {"walk", "link", "unlock"}
  BY <1>1, AcceptorAlone
<1>3. acceptor[c] \in AcceptorType /\ q \in Queues
  BY DEF IndInv, TypeOK, AcceptorType
<1>4. p = At(q, Len(list[q]))
  <2>1. PICK i \in Len(list[q]) .. Len(list[q]) : p = At(q, i)
    BY <1>1 DEF IndInv, LockedCursorsLive, OnList
  <2>2. Len(list[q]) \in Nat
    BY <1>3 DEF IndInv, TypeOK
  <2> QED
    BY <2>1, <2>2
<1>5. c \in Pending /\ c \notin Listed
  BY <1>1 DEF IndInv, NodesAccounted, Pending
<1>6. ListTypes' /\ ListsSound' /\ Listed' = Listed \cup {c}
  BY <1>1, <1>3, <1>4, <1>5, LinkSound, TypesOfLists DEF IndInv
<1>7. /\ acceptor' \in [Cells -> AcceptorType]
      /\ acceptor'[c].pc = "unlock"
      /\ \A d \in Cells \ {c} : acceptor'[d] = acceptor[d]
  BY <1>1, <1>3 DEF IndInv, TypeOK, AcceptorType
<1>8. TypeOK'
  BY <1>1, <1>6, <1>7 DEF IndInv, TypeOK, ListTypes, AcceptorType
<1>9. NodesAccounted'
  <2>1. Pending' = Pending \ {c} /\ InHand' = InHand
    BY <1>1, <1>7 DEF Pending, InHand
  <2> QED
    BY <1>1, <1>5, <1>6, <2>1 DEF IndInv, NodesAccounted
<1>10. LockedCursorsLive' /\ DueExact'
  BY <1>1, <1>2, <1>7 DEF LockedCursorsLive, DueExact
<1>11. LockOwned'
  BY <1>1, <1>2, <1>6, <1>7 DEF IndInv, LockOwned
<1>12. InHandSound'
  BY <1>1, <1>2, <1>7 DEF IndInv, InHandSound
<1> QED
  BY <1>6, <1>8, <1>9, <1>10, <1>11, <1>12 DEF IndInv

(***************************************************************************)
(* The heartbeat, up to the drop.                                          *)
(***************************************************************************)
HbType == [pc : {"sleep", "probe", "select", "judge", "unlock"}, i : Queues,
           p : PtrsOrNull, due : SUBSET Cells]

\* In a round no acceptor is between lock and unlock.
LEMMA HeartbeatAlone ==
  ASSUME IndInv, hb.pc # "sleep"
  PROVE  /\ myRwlock = Heartbeat
         /\ \A c \in Cells : acceptor[c].pc \notin {"walk", "link", "unlock"}
BY CellsAssumption DEF IndInv, LockOwned

\* A step that only moves the heartbeat on inside its round leaves this to show.
LEMMA HeartbeatMoves ==
  ASSUME IndInv, hb.pc # "sleep", hb' \in HbType, hb'.pc # "sleep",
         hb'.pc \in {"probe", "judge"} => hb'.p # NULL,
         DueExact',
         UNCHANGED <<next, len, addr, heap, list, myRwlock, main, acceptor,
                     worker, crashed, logins, refused, shaken>>
  PROVE  IndInv'
<1>1. TypeOK'
  BY DEF IndInv, TypeOK, HbType
<1>2. ListsSound' /\ Listed' = Listed
  BY SameLists DEF IndInv
<1>3. NodesAccounted'
  BY <1>2 DEF IndInv, NodesAccounted, Pending, InHand
<1>4. LockedCursorsLive'
  <2>1. (hb.pc \in {"probe", "judge"} => OnList(hb.p, hb.i, 0))'
    BY DEF DueExact, OnList, At
  <2> QED
    BY <2>1, HeartbeatAlone DEF LockedCursorsLive
<1>5. LockOwned'
  BY <1>2 DEF IndInv, LockOwned
<1>6. InHandSound'
  BY DEF IndInv, InHandSound
<1> QED
  BY <1>1, <1>2, <1>3, <1>4, <1>5, <1>6 DEF IndInv

LEMMA HbLockStep ==
  ASSUME IndInv, HbLock
  PROVE  IndInv'
<1>1. /\ hb.pc = "sleep" /\ myRwlock = Nobody /\ main.pc # "boot"
      /\ myRwlock' = Heartbeat
      /\ hb' = [pc |-> "probe", i |-> 0, p |-> 0, due |-> {}]
      /\ UNCHANGED <<next, len, addr, heap, list, main, acceptor, worker, crashed,
                     logins, refused, shaken>>
  BY DEF HbLock, HeartbeatOnly, MayLock, Running
<1>2. 0 \in Queues /\ 0 \in PtrsOrNull /\ 0 # NULL
  BY INSAssumption, CellsAssumption DEF Queues, PtrsOrNull, Ptrs
<1>3. TypeOK'
  BY <1>1, <1>2 DEF IndInv, TypeOK
<1>4. ListsSound' /\ Listed' = Listed
  BY <1>1, SameLists DEF IndInv
<1>5. NodesAccounted'
  BY <1>1, <1>4 DEF IndInv, NodesAccounted, Pending, InHand
<1>6. 0 \in 0 .. Len(list[0]) /\ At(0, 0) = 0
  BY <1>2 DEF IndInv, TypeOK, At
<1>7. DueExact'
  <2>1. \A q \in Queues : \A j \in DOMAIN list[q] : ~(q < 0 \/ (q = 0 /\ j <= 0))
    BY ListDomain DEF IndInv, Queues
  <2>2. \E k \in 0 .. Len(list[0]) :
          /\ 0 = At(0, k)
          /\ \A q \in Queues : \A j \in DOMAIN list[q] :
               list[q][j] \in {} <=> q < 0 \/ (q = 0 /\ j <= k)
    BY <1>6, <2>1
  <2> QED
    BY <1>1, <2>2 DEF DueExact, ProbedSoFar, At
<1>8. LockedCursorsLive'
  <2>1. \A c \in Cells : acceptor[c].pc \notin {"walk", "link", "unlock"}
    BY <1>1, CellsAssumption DEF IndInv, LockOwned
  <2>2. OnList(hb.p, hb.i, 0)'
    BY <1>1, <1>6 DEF OnList, At
  <2> QED
    BY <1>1, <2>1, <2>2 DEF LockedCursorsLive
<1>9. LockOwned'
  BY <1>1, <1>4, CellsAssumption DEF IndInv, LockOwned
<1>10. InHandSound'
  BY <1>1, <1>2 DEF IndInv, InHandSound
<1> QED
  BY <1>3, <1>4, <1>5, <1>7, <1>8, <1>9, <1>10 DEF IndInv

LEMMA HbProbeStep ==
  ASSUME IndInv, HbProbe
  PROVE  IndInv'
<1> PICK d, q : d = hb.due /\ q = hb.i
  OBVIOUS
<1>1. /\ hb.pc = "probe" /\ next[hb.p] # NULL
      /\ hb' = [hb EXCEPT !.p = next[hb.p], !.due = d \cup {next[hb.p]}]
      /\ UNCHANGED <<next, len, addr, heap, list, myRwlock, main, acceptor, worker,
                     crashed, logins, refused, shaken>>
  BY DEF HbProbe, HeartbeatOnly
<1>2. hb \in HbType /\ q \in Queues
  BY DEF IndInv, TypeOK, HbType
<1>3. PICK k \in 0 .. Len(list[q]) :
         /\ hb.p = At(q, k)
         /\ \A m \in Queues : \A j \in DOMAIN list[m] :
              list[m][j] \in d <=> m < q \/ (m = q /\ j <= k)
  BY <1>1 DEF IndInv, DueExact, ProbedSoFar
<1>4. /\ k # Len(list[q]) /\ k + 1 \in 1 .. Len(list[q])
      /\ next[hb.p] = At(q, k + 1)
      /\ next[hb.p] = list[q][k + 1]
      /\ next[hb.p] \in Cells
  BY <1>1, <1>2, <1>3, AtTyped, TypesOfLists DEF IndInv
<1>5. /\ hb' \in HbType /\ hb'.pc = "probe" /\ hb'.i = q
      /\ hb'.p = next[hb.p] /\ hb'.due = d \cup {list[q][k+1]}
  BY <1>1, <1>2, <1>4 DEF HbType, PtrsOrNull, Ptrs
<1>6. \A m \in Queues : \A j \in DOMAIN list[m] :
        list[m][j] \in hb'.due <=> m < q \/ (m = q /\ j <= k + 1)
  <2> SUFFICES ASSUME NEW m \in Queues, NEW j \in DOMAIN list[m]
               PROVE  list[m][j] \in hb'.due <=> m < q \/ (m = q /\ j <= k + 1)
    OBVIOUS
  <2>1. k + 1 \in DOMAIN list[q] /\ j \in Nat
    BY <1>2, <1>4, ListDomain DEF IndInv
  <2>2. list[m][j] = list[q][k+1] <=> m = q /\ j = k + 1
    BY <1>2, <2>1 DEF IndInv, ListsSound, NoneTwice
  <2>3. list[m][j] \in hb'.due <=> list[m][j] \in d \/ list[m][j] = list[q][k+1]
    BY <1>5
  <2>4. j <= k + 1 <=> j <= k \/ j = k + 1
    BY <2>1
  <2> QED
    BY <1>3, <2>2, <2>3, <2>4
<1>7. DueExact'
  <2>1. hb'.due \subseteq Listed'
    <3>1. Listed' = Listed /\ d \subseteq Listed
      BY <1>1 DEF IndInv, DueExact, Listed
    <3>2. list[q][k+1] \in Listed
      BY <1>2, <1>4, ListedAt, TypesOfLists DEF IndInv
    <3> QED
      BY <1>5, <3>1, <3>2
  <2>2. k + 1 \in 0 .. Len(list[q])
    BY <1>4
  <2>3. list' = list /\ hb'.i = q /\ hb'.pc = "probe"
    BY <1>1, <1>5
  <2>4. hb'.p = At(hb.i, k + 1)'
    BY <1>4, <1>5, <2>3 DEF At
  <2>5. \A m \in Queues : \A j \in DOMAIN list'[m] :
          list'[m][j] \in hb'.due <=> m < hb'.i \/ (m = hb'.i /\ j <= k + 1)
    BY <1>6, <2>3
  <2>6. k + 1 \in 0 .. Len(list'[hb'.i])
    BY <2>2, <2>3
  <2> QED
    BY <2>1, <2>3, <2>4, <2>5, <2>6 DEF DueExact, ProbedSoFar
<1> QED
  BY <1>1, <1>4, <1>5, <1>7, CellsAssumption, HeartbeatMoves DEF Ptrs

LEMMA HbKeepStep ==
  ASSUME IndInv, HbKeep
  PROVE  IndInv'
<1> PICK d, q : d = hb.due /\ q = hb.i
  OBVIOUS
<1>1. /\ hb.pc = "judge" /\ next[hb.p] # NULL
      /\ hb' = [hb EXCEPT !.p = next[hb.p], !.due = d \ {next[hb.p]}]
      /\ UNCHANGED <<next, len, addr, heap, list, myRwlock, main, acceptor, worker,
                     crashed, logins, refused, shaken>>
  BY DEF HbKeep, HeartbeatOnly
<1>2. hb \in HbType /\ q \in Queues
  BY DEF IndInv, TypeOK, HbType
<1>3. PICK k \in 0 .. Len(list[q]) :
         /\ hb.p = At(q, k)
         /\ \A m \in Queues : \A j \in DOMAIN list[m] :
              list[m][j] \in d <=> ~(m < q \/ (m = q /\ j <= k))
  BY <1>1 DEF IndInv, DueExact, ProbedSoFar
<1>4. /\ k # Len(list[q]) /\ k + 1 \in 1 .. Len(list[q])
      /\ next[hb.p] = At(q, k + 1)
      /\ next[hb.p] = list[q][k + 1]
      /\ next[hb.p] \in Cells
  BY <1>1, <1>2, <1>3, AtTyped, TypesOfLists DEF IndInv
<1>5. /\ hb' \in HbType /\ hb'.pc = "judge" /\ hb'.i = q
      /\ hb'.p = next[hb.p] /\ hb'.due = d \ {list[q][k+1]}
  BY <1>1, <1>2, <1>4 DEF HbType, PtrsOrNull, Ptrs
<1>6. \A m \in Queues : \A j \in DOMAIN list[m] :
        list[m][j] \in hb'.due <=> ~(m < q \/ (m = q /\ j <= k + 1))
  <2> SUFFICES ASSUME NEW m \in Queues, NEW j \in DOMAIN list[m]
               PROVE  list[m][j] \in hb'.due <=> ~(m < q \/ (m = q /\ j <= k + 1))
    OBVIOUS
  <2>1. k + 1 \in DOMAIN list[q] /\ j \in Nat
    BY <1>2, <1>4, ListDomain DEF IndInv
  <2>2. list[m][j] = list[q][k+1] <=> m = q /\ j = k + 1
    BY <1>2, <2>1 DEF IndInv, ListsSound, NoneTwice
  <2>3. list[m][j] \in hb'.due <=> list[m][j] \in d /\ list[m][j] # list[q][k+1]
    BY <1>5
  <2>4. j <= k + 1 <=> j <= k \/ j = k + 1
    BY <2>1
  <2> QED
    BY <1>3, <2>2, <2>3, <2>4
<1>7. DueExact'
  <2>1. hb'.due \subseteq Listed'
    <3>1. Listed' = Listed /\ d \subseteq Listed
      BY <1>1 DEF IndInv, DueExact, Listed
    <3> QED
      BY <1>5, <3>1
  <2>2. k + 1 \in 0 .. Len(list[q])
    BY <1>4
  <2>3. list' = list /\ hb'.i = q /\ hb'.pc = "judge"
    BY <1>1, <1>5
  <2>4. hb'.p = At(hb.i, k + 1)'
    BY <1>4, <1>5, <2>3 DEF At
  <2>5. \A m \in Queues : \A j \in DOMAIN list'[m] :
          list'[m][j] \in hb'.due <=> ~(m < hb'.i \/ (m = hb'.i /\ j <= k + 1))
    BY <1>6, <2>3
  <2>6. k + 1 \in 0 .. Len(list'[hb'.i])
    BY <2>2, <2>3
  <2> QED
    BY <2>1, <2>3, <2>4, <2>5, <2>6 DEF DueExact, ProbedSoFar
<1> QED
  BY <1>1, <1>4, <1>5, <1>7, CellsAssumption, HeartbeatMoves DEF Ptrs

LEMMA ProbeListEndStep ==
  ASSUME IndInv, HbProbeListEnd
  PROVE  IndInv'
<1> PICK d, q : d = hb.due /\ q = hb.i
  OBVIOUS
<1>1. /\ hb.pc = "probe" /\ next[hb.p] = NULL
      /\ hb' = IF q + 1 < INS
                 THEN [hb EXCEPT !.i = q + 1, !.p = q + 1]
                 ELSE [hb EXCEPT !.pc = "select", !.i = 0, !.p = NULL]
      /\ UNCHANGED <<next, len, addr, heap, list, myRwlock, main, acceptor, worker,
                     crashed, logins, refused, shaken>>
  BY DEF HbProbeListEnd, HbListEnd, HeartbeatOnly
<1>2. hb \in HbType /\ q \in Queues
  BY DEF IndInv, TypeOK, HbType
<1>3. PICK k \in 0 .. Len(list[q]) :
         /\ hb.p = At(q, k)
         /\ \A m \in Queues : \A j \in DOMAIN list[m] :
              list[m][j] \in d <=> m < q \/ (m = q /\ j <= k)
  BY <1>1 DEF IndInv, DueExact, ProbedSoFar
<1>4. k = Len(list[q])
  BY <1>1, <1>2, <1>3, AtTyped, TypesOfLists DEF IndInv
<1>5. \A m \in Queues : \A j \in DOMAIN list[m] :
        list[m][j] \in d <=> m < q + 1
  <2> SUFFICES ASSUME NEW m \in Queues, NEW j \in DOMAIN list[m]
               PROVE  list[m][j] \in d <=> m < q + 1
    OBVIOUS
  <2>1. m = q => j <= k
    BY <1>4, ListDomain DEF IndInv
  <2>2. m < q + 1 <=> m < q \/ m = q
    BY <1>2 DEF Queues
  <2> QED
    BY <1>3, <2>1, <2>2
<1>6. d \subseteq Listed /\ Listed' = Listed
  BY <1>1 DEF IndInv, DueExact, Listed
<1>7. CASE q + 1 < INS
  <2>1. q + 1 \in Queues /\ q + 1 # NULL
    BY <1>2, <1>7, INSAssumption, CellsAssumption DEF Queues, Ptrs
  <2>2. /\ hb' \in HbType /\ hb'.pc = "probe" /\ hb'.i = q + 1
        /\ hb'.p = q + 1 /\ hb'.due = d
    BY <1>1, <1>2, <1>7, <2>1 DEF HbType, PtrsOrNull, Ptrs
  <2>3. \A m \in Queues : \A j \in DOMAIN list[m] :
          list[m][j] \in d <=> m < q + 1 \/ (m = q + 1 /\ j <= 0)
    BY <1>5, ListDomain DEF IndInv
  <2>4. 0 \in 0 .. Len(list[q+1]) /\ At(q + 1, 0) = q + 1
    BY <2>1, ListDomain DEF IndInv, At
  <2>5. DueExact'
    BY <1>1, <1>6, <2>2, <2>3, <2>4 DEF DueExact, ProbedSoFar, At
  <2> QED
    BY <1>1, <2>1, <2>2, <2>5, HeartbeatMoves
<1>8. CASE ~(q + 1 < INS)
  <2>1. \A m \in Queues : m < q + 1
    BY <1>2, <1>8, INSAssumption DEF Queues
  <2>2. hb' \in HbType /\ hb'.pc = "select" /\ hb'.due = d
    <3>1. 0 \in Queues
      BY INSAssumption DEF Queues
    <3> QED
      BY <1>1, <1>2, <1>8, <3>1 DEF HbType, PtrsOrNull
  <2>3. DueExact'
    BY <1>1, <1>5, <1>6, <2>1, <2>2 DEF DueExact
  <2> QED
    BY <1>1, <2>2, <2>3, HeartbeatMoves
<1> QED
  BY <1>7, <1>8

LEMMA JudgeListEndStep ==
  ASSUME IndInv, HbJudgeListEnd
  PROVE  IndInv'
<1> PICK d, q : d = hb.due /\ q = hb.i
  OBVIOUS
<1>1. /\ hb.pc = "judge" /\ next[hb.p] = NULL
      /\ hb' = IF q + 1 < INS
                 THEN [hb EXCEPT !.i = q + 1, !.p = q + 1]
                 ELSE [hb EXCEPT !.pc = "unlock", !.i = 0, !.p = NULL]
      /\ UNCHANGED <<next, len, addr, heap, list, myRwlock, main, acceptor, worker,
                     crashed, logins, refused, shaken>>
  BY DEF HbJudgeListEnd, HbListEnd, HeartbeatOnly
<1>2. hb \in HbType /\ q \in Queues
  BY DEF IndInv, TypeOK, HbType
<1>3. PICK k \in 0 .. Len(list[q]) :
         /\ hb.p = At(q, k)
         /\ \A m \in Queues : \A j \in DOMAIN list[m] :
              list[m][j] \in d <=> ~(m < q \/ (m = q /\ j <= k))
  BY <1>1 DEF IndInv, DueExact, ProbedSoFar
<1>4. k = Len(list[q])
  BY <1>1, <1>2, <1>3, AtTyped, TypesOfLists DEF IndInv
<1>5. \A m \in Queues : \A j \in DOMAIN list[m] :
        list[m][j] \in d <=> ~(m < q + 1)
  <2> SUFFICES ASSUME NEW m \in Queues, NEW j \in DOMAIN list[m]
               PROVE  list[m][j] \in d <=> ~(m < q + 1)
    OBVIOUS
  <2>1. m = q => j <= k
    BY <1>4, ListDomain DEF IndInv
  <2>2. m < q + 1 <=> m < q \/ m = q
    BY <1>2 DEF Queues
  <2> QED
    BY <1>3, <2>1, <2>2
<1>6. d \subseteq Listed /\ Listed' = Listed
  BY <1>1 DEF IndInv, DueExact, Listed
<1>7. CASE q + 1 < INS
  <2>1. q + 1 \in Queues /\ q + 1 # NULL
    BY <1>2, <1>7, INSAssumption, CellsAssumption DEF Queues, Ptrs
  <2>2. /\ hb' \in HbType /\ hb'.pc = "judge" /\ hb'.i = q + 1
        /\ hb'.p = q + 1 /\ hb'.due = d
    BY <1>1, <1>2, <1>7, <2>1 DEF HbType, PtrsOrNull, Ptrs
  <2>3. \A m \in Queues : \A j \in DOMAIN list[m] :
          list[m][j] \in d <=> ~(m < q + 1 \/ (m = q + 1 /\ j <= 0))
    BY <1>5, ListDomain DEF IndInv
  <2>4. 0 \in 0 .. Len(list[q+1]) /\ At(q + 1, 0) = q + 1
    BY <2>1, ListDomain DEF IndInv, At
  <2>5. DueExact'
    BY <1>1, <1>6, <2>2, <2>3, <2>4 DEF DueExact, ProbedSoFar, At
  <2> QED
    BY <1>1, <2>1, <2>2, <2>5, HeartbeatMoves
<1>8. CASE ~(q + 1 < INS)
  <2>1. hb' \in HbType /\ hb'.pc = "unlock" /\ hb'.due = d
    <3>1. 0 \in Queues
      BY INSAssumption DEF Queues
    <3> QED
      BY <1>1, <1>2, <1>8, <3>1 DEF HbType, PtrsOrNull
  <2>2. DueExact'
    BY <1>6, <2>1 DEF DueExact
  <2> QED
    BY <1>1, <2>1, <2>2, HeartbeatMoves
<1> QED
  BY <1>7, <1>8

LEMMA SelectStep ==
  ASSUME IndInv, HbAnswers \/ HbSilence
  PROVE  IndInv'
<1>1. /\ hb.pc = "select" /\ hb \in HbType
      /\ UNCHANGED <<next, len, addr, heap, list, myRwlock, main, acceptor, worker,
                     crashed, logins, refused, shaken>>
  BY DEF HbAnswers, HbSilence, HeartbeatOnly, IndInv, TypeOK, HbType
<1>2. 0 \in Queues /\ 0 \in PtrsOrNull /\ 0 # NULL
  BY INSAssumption, CellsAssumption DEF Queues, PtrsOrNull, Ptrs
<1>3. hb.due \subseteq Listed /\ Listed' = Listed
  BY <1>1 DEF IndInv, DueExact, Listed
<1>4. CASE HbAnswers
  <2>1. /\ hb' \in HbType /\ hb'.pc = "judge" /\ hb'.i = 0 /\ hb'.p = 0
        /\ hb'.due = hb.due
    BY <1>1, <1>2, <1>4 DEF HbAnswers, HbType
  <2>2. \A q \in Queues : \A j \in DOMAIN list[q] :
          list[q][j] \in hb.due /\ ~(q < 0 \/ (q = 0 /\ j <= 0))
    BY <1>1, ListDomain DEF IndInv, DueExact, Queues
  <2>3. 0 \in 0 .. Len(list[0]) /\ At(0, 0) = 0
    BY <1>2, ListDomain DEF IndInv, At
  <2>4. DueExact'
    BY <1>1, <1>3, <2>1, <2>2, <2>3 DEF DueExact, ProbedSoFar, At
  <2> QED
    BY <1>1, <1>2, <2>1, <2>4, HeartbeatMoves
<1>5. CASE HbSilence
  <2>1. hb' \in HbType /\ hb'.pc = "unlock" /\ hb'.due = hb.due
    BY <1>1, <1>5 DEF HbSilence, HbType
  <2>2. DueExact'
    BY <1>3, <2>1 DEF DueExact
  <2> QED
    BY <1>1, <2>1, <2>2, HeartbeatMoves
<1> QED
  BY <1>4, <1>5

LEMMA HbUnlockStep ==
  ASSUME IndInv, HbUnlock
  PROVE  IndInv'
<1>1. /\ hb.pc = "unlock" /\ myRwlock' = Nobody
      /\ hb' = [pc |-> "sleep", i |-> 0, p |-> NULL, due |-> {}]
      /\ UNCHANGED <<next, len, addr, heap, list, main, acceptor, worker, crashed,
                     logins, refused, shaken>>
  BY DEF HbUnlock, HeartbeatOnly
<1>2. \A c \in Cells : acceptor[c].pc \notin {"walk", "link", "unlock"}
  BY <1>1, HeartbeatAlone
<1>3. 0 \in Queues /\ NULL \in PtrsOrNull
  BY INSAssumption DEF Queues, PtrsOrNull
<1>4. TypeOK'
  BY <1>1, <1>3 DEF IndInv, TypeOK
<1>5. ListsSound' /\ Listed' = Listed
  BY <1>1, SameLists DEF IndInv
<1>6. NodesAccounted'
  BY <1>1, <1>5 DEF IndInv, NodesAccounted, Pending, InHand
<1>7. LockedCursorsLive' /\ DueExact'
  BY <1>1, <1>2 DEF LockedCursorsLive, DueExact
<1>8. LockOwned'
  BY <1>1, <1>2, CellsAssumption DEF LockOwned
<1>9. InHandSound'
  BY <1>1 DEF IndInv, InHandSound
<1> QED
  BY <1>4, <1>5, <1>6, <1>7, <1>8, <1>9 DEF IndInv

(***************************************************************************)
(* The drop: the node behind the cursor leaves its list, which closes up,  *)
(* and its memory is freed.                                                *)
(***************************************************************************)
LEMMA HbDropStep ==
  ASSUME IndInv, HbDrop
  PROVE  IndInv'
<1> PICK d, q, c : d = hb.due /\ q = hb.i /\ c = next[hb.p]
  OBVIOUS
<1>1. /\ hb.pc = "judge" /\ c # NULL
      /\ next' = [next EXCEPT ![hb.p] = next[c]]
      /\ len' = [len EXCEPT ![q] = @ - 1]
      /\ list' = [list EXCEPT ![q] = Without(@, c)]
      /\ heap' = heap \ {c} /\ addr' = [addr EXCEPT ![c] = NoAddr]
      /\ hb' = [hb EXCEPT !.due = d \ {c}]
      /\ shaken' = shaken \cup {m \in Working : Unsettles(m, c)}
      /\ UNCHANGED <<myRwlock, main, acceptor, worker, crashed, logins, refused>>
  BY DEF HbDrop, Free, Unlinking
<1>2. hb \in HbType /\ q \in Queues
  BY DEF IndInv, TypeOK, HbType
<1>3. PICK k \in 0 .. Len(list[q]) :
         /\ hb.p = At(q, k)
         /\ \A m \in Queues : \A j \in DOMAIN list[m] :
              list[m][j] \in d <=> ~(m < q \/ (m = q /\ j <= k))
  BY <1>1 DEF IndInv, DueExact, ProbedSoFar
<1>4. /\ k # Len(list[q]) /\ k + 1 \in 1 .. Len(list[q])
      /\ c = list[q][k + 1] /\ c \in Cells
  BY <1>1, <1>2, <1>3, AtTyped, TypesOfLists DEF IndInv
<1>5. /\ ListTypes' /\ ListsSound'
      /\ Listed' = Listed \ {c} /\ c \in Listed
      /\ \A m \in Queues \ {q} : list'[m] = list[m]
      /\ Len(list'[q]) = Len(list[q]) - 1
      /\ \A i \in 1 .. Len(list[q]) - 1 :
           list'[q][i] = IF i <= k THEN list[q][i] ELSE list[q][i+1]
  <2>1. ListTypes /\ ListsSound
    BY TypesOfLists DEF IndInv
  <2>2. next' = [next EXCEPT ![At(q, k)] = next[c]]
    BY <1>1, <1>3
  <2>3. len' = [len EXCEPT ![q] = @ - 1] /\ list' = [list EXCEPT ![q] = Without(@, c)]
    BY <1>1
  <2> QED
    BY <2>1, <2>2, <2>3, <1>2, <1>4, UnlinkSound
<1>6. /\ hb' \in HbType /\ hb'.pc = "judge" /\ hb'.i = q /\ hb'.p = hb.p
      /\ hb'.due = d \ {c}
  BY <1>1, <1>2 DEF HbType
<1>7. TypeOK'
  <2>1. /\ addr' \in [Cells -> Addrs \cup (From .. To) \cup {NoAddr}]
        /\ heap' \subseteq Cells /\ shaken' \subseteq Working
    BY <1>1 DEF IndInv, TypeOK
  <2> QED
    BY <1>1, <1>5, <1>6, <2>1 DEF IndInv, TypeOK, ListTypes, HbType
<1>8. NodesAccounted'
  BY <1>1, <1>5 DEF IndInv, NodesAccounted, Pending, InHand
<1>9. \A m \in Queues : \A j \in 1 .. Len(list'[m]) :
        list'[m][j] \in hb'.due <=> ~(m < q \/ (m = q /\ j <= k))
  <2> SUFFICES ASSUME NEW m \in Queues, NEW j \in 1 .. Len(list'[m])
               PROVE  list'[m][j] \in hb'.due <=> ~(m < q \/ (m = q /\ j <= k))
    OBVIOUS
  <2>1. \A o \in Queues : \A i \in 1 .. Len(list[o]) :
          list[o][i] \in d \ {c} <=>
            ~(o < q \/ (o = q /\ i <= k)) /\ ~(o = q /\ i = k + 1)
    <3> SUFFICES ASSUME NEW o \in Queues, NEW i \in 1 .. Len(list[o])
                 PROVE  list[o][i] \in d \ {c} <=>
                          ~(o < q \/ (o = q /\ i <= k)) /\ ~(o = q /\ i = k + 1)
      OBVIOUS
    <3>1. i \in DOMAIN list[o] /\ k + 1 \in DOMAIN list[q]
      BY <1>2, <1>4, ListDomain DEF IndInv
    <3>2. list[o][i] = c <=> o = q /\ i = k + 1
      BY <1>2, <1>4, <3>1 DEF IndInv, ListsSound, NoneTwice
    <3> QED
      BY <1>3, <3>1, <3>2
  <2>2. CASE m # q
    BY <2>1, <2>2, <1>5, <1>6
  <2>3. CASE m = q /\ j <= k
    <3>1. j \in 1 .. Len(list[q]) - 1 /\ j \in 1 .. Len(list[q])
      BY <2>3, <1>2, <1>5, ListDomain DEF IndInv
    <3>2. list'[q][j] = list[q][j]
      BY <2>3, <3>1, <1>5
    <3> QED
      BY <2>1, <2>3, <3>1, <3>2, <1>2, <1>6
  <2>4. CASE m = q /\ ~(j <= k)
    <3>1. /\ j \in 1 .. Len(list[q]) - 1 /\ j + 1 \in 1 .. Len(list[q])
          /\ ~(j + 1 <= k) /\ j + 1 # k + 1
      BY <2>4, <1>2, <1>5, ListDomain DEF IndInv
    <3>2. list'[q][j] = list[q][j+1]
      BY <2>4, <3>1, <1>5
    <3>3. ~(q < q)
      BY <1>2 DEF Queues
    <3> QED
      BY <2>1, <2>4, <3>1, <3>2, <3>3, <1>2, <1>6
  <2> QED
    BY <2>2, <2>3, <2>4
<1>10. k \in 0 .. Len(list'[q]) /\ hb.p = IF k = 0 THEN q ELSE list'[q][k]
  <2>1. k \in Nat /\ Len(list[q]) \in Nat /\ k <= Len(list[q]) - 1
    BY <1>2, <1>4, ListDomain DEF IndInv
  <2>2. k # 0 => k \in 1 .. Len(list[q]) - 1
    BY <2>1
  <2> QED
    BY <1>3, <1>5, <2>1, <2>2 DEF At
<1>11. DueExact'
  <2>1. hb'.due \subseteq Listed'
    BY <1>1, <1>5, <1>6 DEF IndInv, DueExact
  <2>2. \A m \in Queues : DOMAIN list'[m] = 1 .. Len(list'[m])
    BY <1>5 DEF ListTypes
  <2> QED
    BY <1>6, <1>9, <1>10, <2>1, <2>2 DEF DueExact, ProbedSoFar, At
<1>12. LockedCursorsLive'
  <2>1. OnList(hb.p, hb.i, 0)'
    BY <1>6, <1>10 DEF OnList, At
  <2>2. \A e \in Cells : acceptor'[e].pc \notin {"walk", "link", "unlock"}
    BY <1>1, HeartbeatAlone
  <2> QED
    BY <2>1, <2>2 DEF LockedCursorsLive
<1>13. LockOwned'
  BY <1>1, <1>6, HeartbeatAlone DEF IndInv, LockOwned
<1>14. InHandSound'
  BY <1>1, <1>6 DEF IndInv, InHandSound
<1> QED
  BY <1>5, <1>7, <1>8, <1>11, <1>12, <1>13, <1>14 DEF IndInv

(***************************************************************************)
(* The invariant.                                                          *)
(***************************************************************************)
LEMMA StepIndInv == IndInv /\ [Next]_vars => IndInv'
<1> SUFFICES ASSUME IndInv, [Next]_vars PROVE IndInv'
  OBVIOUS
<1>1. CASE Main
  <2>1. ASSUME NEW c \in Cells, BootAdd(c) PROVE IndInv'
    BY <2>1, BootAddStep
  <2>2. ASSUME NEW c \in Cells, NEW a \in Addrs, LoginAccept(a, c) PROVE IndInv'
    BY <2>2, LoginStep
  <2>3. CASE FindTest \/ FindNextList \/ FindDiffers \/ FindAdvance
    BY <2>3, ScanStep DEF Scan
  <2>4. CASE FindFault
    BY <2>4, CrashStep DEF FindFault
  <2> QED
    BY <1>1, <2>1, <2>2, <2>3, <2>4, BootDoneStep, SpawnStep, RefusedStep DEF Main
<1>2. ASSUME NEW c \in Cells, Acceptor(c) PROVE IndInv'
  BY <1>2, AcceptLockStep, AcceptWalkStep, AcceptEndStep, AcceptLinkStep,
     AcceptUnlockStep DEF Acceptor
<1>3. CASE HbLock \/ HbRound
  BY <1>3, HbLockStep, HbProbeStep, ProbeListEndStep, SelectStep, HbKeepStep,
     HbDropStep, JudgeListEndStep, HbUnlockStep DEF HbRound
<1>4. ASSUME NEW q \in Working, Worker(q) PROVE IndInv'
  BY <1>4, WorkerStep
<1>5. CASE UNCHANGED vars
  <2>1. /\ UNCHANGED <<next, len, addr, heap, myRwlock, main, acceptor, hb, worker>>
        /\ UNCHANGED <<crashed, logins, list, refused, shaken>>
    BY <1>5 DEF vars, code
  <2>2. ListsSound' /\ Listed' = Listed
    BY <2>1, SameLists DEF IndInv
  <2>3. TypeOK' /\ NodesAccounted' /\ LockOwned' /\ InHandSound'
    BY <2>1, <2>2 DEF IndInv, TypeOK, NodesAccounted, Pending, InHand, LockOwned,
                      InHandSound
  <2>4. LockedCursorsLive' /\ DueExact'
    BY <2>1, SameWalkers, SameHeartbeat DEF IndInv
  <2> QED
    BY <2>2, <2>3, <2>4 DEF IndInv
<1> QED
  BY <1>1, <1>2, <1>3, <1>4, <1>5 DEF Next, Stopped

\* Whatever the threads do and in whatever order, the inductive invariant
\* holds until the process is gone and after.
THEOREM RegistryInvariant == Spec => []IndInv
<1>1. Init => IndInv
  BY InitIndInv
<1>2. IndInv /\ [Next]_vars => IndInv'
  BY StepIndInv
<1> QED
  BY <1>1, <1>2, PTL DEF Spec

\* Every variable always has its type.
THEOREM TypesCorrect == Spec => []TypeOK
<1>1. IndInv => TypeOK
  BY DEF IndInv
<1> QED
  BY <1>1, RegistryInvariant, PTL

\* myRwlock alone keeps the lists whole: the unlocked readers and the drops
\* and links of the writers never leave a pointer, a position or a length
\* that disagrees with the list it belongs to.
THEOREM ListsStaySound == Spec => []ListsSound
<1>1. IndInv => ListsSound
  BY DEF IndInv
<1> QED
  BY <1>1, RegistryInvariant, PTL

\* No node is freed while a list holds it, linked twice, or lost other than
\* by a refused login.
THEOREM NodesStayAccounted == Spec => []NodesAccounted
<1>1. IndInv => NodesAccounted
  BY DEF IndInv
<1> QED
  BY <1>1, RegistryInvariant, PTL

\* The walks under the lock, of the heartbeat and of addCinfo, never follow
\* NULL or freed memory.
THEOREM LockedWalksSafe == Spec => []LockedCursorsLive
<1>1. IndInv => LockedCursorsLive
  BY DEF IndInv
<1> QED
  BY <1>1, RegistryInvariant, PTL

(***************************************************************************)
(* Two properties of steps.                                                *)
(***************************************************************************)
\* The heartbeat only judges a node that pass 1 of the same round visited, once.
THEOREM VerdictsOnlyOnVisited == Spec => VerdictOnVisited
<1>1. ASSUME IndInv, [Next]_vars, HbKeep \/ HbDrop
      PROVE  next[hb.p] \in hb.due
  <2>1. hb.pc = "judge" /\ next[hb.p] # NULL /\ hb.i \in Queues
    BY <1>1 DEF HbKeep, HbDrop, IndInv, TypeOK
  <2>2. PICK k \in 0 .. Len(list[hb.i]) :
          /\ hb.p = At(hb.i, k)
          /\ \A q \in Queues : \A j \in DOMAIN list[q] :
               list[q][j] \in hb.due <=> ~ProbedSoFar(k, q, j)
    BY <1>1, <2>1 DEF IndInv, DueExact
  <2>3. k + 1 \in DOMAIN list[hb.i] /\ next[hb.p] = list[hb.i][k+1]
    BY <1>1, <2>1, <2>2, AtTyped, TypesOfLists, ListDomain DEF IndInv
  <2>4. ~ProbedSoFar(k, hb.i, k + 1)
    BY <2>1, <2>2 DEF ProbedSoFar, Queues
  <2> QED
    BY <2>1, <2>2, <2>3, <2>4
<1>2. IndInv /\ [Next]_vars => [HbKeep \/ HbDrop => next[hb.p] \in hb.due]_vars
  BY <1>1
<1> QED
  BY <1>2, RegistryInvariant, PTL DEF Spec, VerdictOnVisited

LEMMA StepChosenShortest ==
  ASSUME IndInv, ChosenShortest, [Next]_vars
  PROVE  ChosenShortest'
<1>1. CASE UNCHANGED <<len, acceptor>>
  BY <1>1 DEF ChosenShortest
<1>2. ASSUME NEW c \in Cells, AcceptLock(c) PROVE ChosenShortest'
  <2>1. PICK q \in Queues :
          /\ \A k \in Queues : len[q] <= len[k]
          /\ acceptor' = [acceptor EXCEPT ![c] =
                            [pc |-> "walk", index |-> q, p |-> q]]
    BY <1>2 DEF AcceptLock, JudgeINS
  <2>2. /\ len' = len
        /\ acceptor'[c].index = q
        /\ \A d \in Cells \ {c} : acceptor'[d] = acceptor[d]
    BY <1>2, <2>1 DEF AcceptLock, IndInv, TypeOK
  <2> QED
    BY <2>1, <2>2 DEF ChosenShortest
<1>3. ASSUME NEW c \in Cells, AcceptWalk(c) \/ AcceptEnd(c) PROVE ChosenShortest'
  <2>1. /\ len' = len /\ acceptor[c].pc = "walk"
        /\ acceptor'[c].index = acceptor[c].index
        /\ \A d \in Cells \ {c} : acceptor'[d] = acceptor[d]
    BY <1>3 DEF AcceptWalk, AcceptEnd, IndInv, TypeOK
  <2> QED
    BY <2>1 DEF ChosenShortest
<1>4. ASSUME NEW c \in Cells, AcceptLink(c) \/ AcceptUnlock(c) PROVE ChosenShortest'
  <2>1. \A d \in Cells : acceptor'[d].pc \notin {"walk", "link"}
    <3>1. acceptor[c].pc \in {"walk", "link", "unlock"}
      BY <1>4 DEF AcceptLink, AcceptUnlock
    <3>2. \A d \in Cells \ {c} : acceptor[d].pc \notin {"walk", "link", "unlock"}
      BY <1>4, <3>1, AcceptorAlone
    <3>3. /\ acceptor'[c].pc \notin {"walk", "link"}
          /\ \A d \in Cells \ {c} : acceptor'[d] = acceptor[d]
      BY <1>4 DEF AcceptLink, AcceptUnlock, NoThread, IndInv, TypeOK
    <3> QED
      BY <3>2, <3>3
  <2> QED
    BY <2>1 DEF ChosenShortest
<1>5. CASE HbDrop
  <2>1. hb.pc # "sleep" /\ acceptor' = acceptor
    BY <1>5 DEF HbDrop, Unlinking
  <2>2. \A d \in Cells : acceptor[d].pc \notin {"walk", "link"}
    BY <2>1, HeartbeatAlone
  <2> QED
    BY <2>1, <2>2 DEF ChosenShortest
<1>6. ASSUME NEW c \in Cells, BootAdd(c) PROVE ChosenShortest'
  <2>1. \A d \in Cells : acceptor'[d].pc = "none"
    BY <1>6 DEF BootAdd, IndInv, InHandSound
  <2> QED
    BY <2>1 DEF ChosenShortest
<1>7. CASE LoginSpawn
  <2>1. main.node \in Cells
    BY <1>7 DEF LoginSpawn, IndInv, TypeOK, InHandSound
  <2>2. /\ len' = len
        /\ acceptor'[main.node].pc = "lock"
        /\ \A d \in Cells \ {main.node} : acceptor'[d] = acceptor[d]
    BY <1>7, <2>1 DEF LoginSpawn, MainOnly, IndInv, TypeOK
  <2> QED
    BY <2>2 DEF ChosenShortest
<1>8. CASE Main
  <2>1. ASSUME NEW a \in Addrs, NEW c \in Cells, LoginAccept(a, c)
        PROVE  UNCHANGED <<len, acceptor>>
    BY <2>1 DEF LoginAccept
  <2>2. CASE BootDone \/ Scan \/ LoginRefused \/ FindFault
    BY <2>2, <1>1 DEF BootDone, Scan, FindTest, FindNextList, FindDiffers, FindAdvance,
                LoginRefused, FindFault, Crash, MainOnly
  <2> QED
    BY <1>8, <1>1, <1>6, <1>7, <2>1, <2>2 DEF Main, Scan
<1>9. CASE HbLock \/ HbRound
  <2>1. CASE HbLock \/ HbProbe \/ HbProbeListEnd \/ HbAnswers \/ HbSilence
             \/ HbKeep \/ HbJudgeListEnd \/ HbUnlock
    BY <2>1, <1>1 DEF HbLock, HbProbe, HbProbeListEnd, HbAnswers, HbSilence, HbKeep,
                      HbJudgeListEnd, HbUnlock, HbListEnd, HeartbeatOnly
  <2> QED
    BY <1>9, <1>5, <2>1 DEF HbRound
<1>10. ASSUME NEW q \in Working, Worker(q) PROVE ChosenShortest'
  BY <1>10, <1>1 DEF Worker, WorkWake, WorkTest, WorkEnd, WorkAddress, WorkAdvance,
                     WorkFault, Crash, WorkerOnly
<1>11. CASE UNCHANGED vars
  BY <1>11, <1>1 DEF vars, code
<1> QED
  BY <1>2, <1>3, <1>4, <1>8, <1>9, <1>10, <1>11 DEF Next, Acceptor, Stopped

\* A login joins a list that is a shortest one at the moment it is linked,
\* although the choice was made when the lock was taken.
THEOREM LoginsJoinShortest == Spec => JoinsShortest
<1>1. Init => ChosenShortest
  BY DEF Init, ChosenShortest, NoThread
<1>2. ASSUME IndInv, ChosenShortest, NEW c \in Cells, AcceptLink(c), NEW q \in Queues
      PROVE  Len(list[acceptor[c].index]) <= Len(list[q])
  BY <1>2 DEF AcceptLink, ChosenShortest, IndInv, ListsSound, TypeOK
<1>3. IndInv /\ ChosenShortest /\ [Next]_vars =>
        [\A c \in Cells : AcceptLink(c) =>
           \A q \in Queues : Len(list[acceptor[c].index]) <= Len(list[q])]_vars
  BY <1>2
<1>4. IndInv /\ ChosenShortest /\ [Next]_vars => ChosenShortest'
  BY StepChosenShortest
<1> QED
  BY <1>1, <1>3, <1>4, RegistryInvariant, PTL DEF Spec, JoinsShortest

(***************************************************************************)
(* The registry implements the abstract membership (Membership): threads,  *)
(* lock, walks and pointers take no part in it, and of their steps only    *)
(* those below show in it.                                                 *)
(***************************************************************************)
LEMMA MembersListed == Promise!Members = Listed
  BY DEF Promise!Members, Promise!Range, Listed, Range

\* What makes a step one that the membership does not see.
LEMMA UnseenStep ==
  ASSUME list' = list, main.pc = "boot" <=> main'.pc = "boot",
         hb.pc = "judge" <=> hb'.pc = "judge", hb.pc = "judge" => hb' = hb
  PROVE  UNCHANGED Promise!mvars
BY DEF Promise!mvars

LEMMA BootAddRefines ==
  ASSUME IndInv, NEW c \in Cells, BootAdd(c)
  PROVE  Promise!MNext
<1> PICK q : q = ConfiguredQueue(main.i)
  OBVIOUS
<1>1. /\ main.pc = "boot" /\ main.i \in From .. To /\ main.i \in Int
      /\ c \notin heap /\ hb.pc = "sleep" /\ hb' = hb /\ main'.pc = main.pc
      /\ list' = [list EXCEPT ![q] = Append(@, c)]
  BY AddrAssumption DEF BootAdd, Malloc, LinkAfter, IndInv, InHandSound, TypeOK
<1>2. q \in Queues
  BY <1>1, ModInQueues DEF ConfiguredQueue
<1>3. c \notin Promise!Members
  BY <1>1, MembersListed DEF IndInv, NodesAccounted
<1>4. Promise!Enroll(c, q)
  BY <1>1, <1>3 DEF Promise!Enroll, Promise!Join
<1> QED
  BY <1>2, <1>4 DEF Promise!MNext

LEMMA BootDoneRefines ==
  ASSUME BootDone
  PROVE  Promise!StartService
<1>1. main.pc = "boot" /\ main'.pc # "boot" /\ list' = list /\ hb' = hb
  <2>1. main' = [main EXCEPT !.pc = "epoll", !.i = 0]
    BY DEF BootDone
  <2> QED
    BY <2>1 DEF BootDone
<1> QED
  BY <1>1 DEF Promise!StartService

\* A login joins in one step, and in no round.
LEMMA AcceptLinkRefines ==
  ASSUME IndInv, ChosenShortest, NEW c \in Cells, AcceptLink(c)
  PROVE  Promise!MNext
<1> PICK q : q = acceptor[c].index
  OBVIOUS
<1>1. /\ acceptor[c].pc = "link" /\ main.pc # "boot" /\ main' = main /\ hb' = hb
      /\ list' = [list EXCEPT ![q] = Append(@, c)]
  BY DEF AcceptLink, AcceptorOnly, LinkAfter, Running
<1>2. hb.pc = "sleep"
  BY <1>1, AcceptorAlone
<1>3. q \in Queues /\ \A k \in Queues : Len(list[q]) <= Len(list[k])
  BY <1>1 DEF IndInv, TypeOK, ChosenShortest, ListsSound
<1>4. c \notin Promise!Members
  BY <1>1, MembersListed DEF IndInv, NodesAccounted, Pending
<1>5. Promise!Register(c, q)
  BY <1>1, <1>2, <1>3, <1>4 DEF Promise!Register, Promise!Join
<1> QED
  BY <1>3, <1>5 DEF Promise!MNext

\* Every member is under suspicion when the verdicts begin.
LEMMA AnswersRefines ==
  ASSUME IndInv, HbAnswers
  PROVE  Promise!StartRound
<1>1. /\ hb.pc = "select" /\ hb'.pc = "judge" /\ hb'.due = hb.due
      /\ list' = list /\ main' = main /\ main.pc # "boot"
  BY DEF HbAnswers, HeartbeatOnly, Running, IndInv, TypeOK
<1>2. hb.due = Listed
  <2>1. \A q \in Queues : \A j \in 1 .. Len(list[q]) : list[q][j] \in hb.due
    BY <1>1, ListDomain DEF IndInv, DueExact
  <2>2. Listed \subseteq hb.due
    BY <2>1, ListedAt, TypesOfLists DEF IndInv
  <2> QED
    BY <1>1, <2>2 DEF IndInv, DueExact
<1> QED
  BY <1>1, <1>2, MembersListed DEF Promise!StartRound

\* The node behind the cursor of pass 2 is the next one of its list.
LEMMA JudgedNode ==
  ASSUME IndInv, hb.pc = "judge", next[hb.p] # NULL
  PROVE  \E i \in DOMAIN list[hb.i] :
           /\ list[hb.i][i] = next[hb.p] /\ next[hb.p] \in Cells
           /\ next[hb.p] \in hb.due
<1>1. hb.i \in Queues
  BY DEF IndInv, TypeOK
<1>2. PICK k \in 0 .. Len(list[hb.i]) :
        /\ hb.p = At(hb.i, k)
        /\ \A q \in Queues : \A j \in DOMAIN list[q] :
             list[q][j] \in hb.due <=> ~ProbedSoFar(k, q, j)
  BY DEF IndInv, DueExact
<1>3. k + 1 \in DOMAIN list[hb.i] /\ next[hb.p] = list[hb.i][k+1]
      /\ next[hb.p] \in Cells
  BY <1>1, <1>2, AtTyped, TypesOfLists, ListDomain DEF IndInv
<1>4. ~ProbedSoFar(k, hb.i, k + 1)
  BY <1>1, <1>2 DEF ProbedSoFar, Queues
<1> QED
  BY <1>1, <1>2, <1>3, <1>4

LEMMA KeepRefines ==
  ASSUME IndInv, HbKeep
  PROVE  Promise!MNext
<1>1. /\ hb.pc = "judge" /\ next[hb.p] # NULL /\ hb'.pc = "judge"
      /\ hb'.due = hb.due \ {next[hb.p]} /\ list' = list /\ main' = main
  BY DEF HbKeep, HeartbeatOnly, IndInv, TypeOK
<1>2. next[hb.p] \in Cells /\ next[hb.p] \in hb.due
  BY <1>1, JudgedNode
<1>3. Promise!Clear(next[hb.p])
  BY <1>1, <1>2 DEF Promise!Clear
<1> QED
  BY <1>2, <1>3 DEF Promise!MNext

\* A drop takes its node out of the list and leaves the others in order.
LEMMA DropRefines ==
  ASSUME IndInv, HbDrop
  PROVE  Promise!MNext
<1> PICK q, c : q = hb.i /\ c = next[hb.p]
  OBVIOUS
<1>1. /\ hb.pc = "judge" /\ c # NULL /\ hb'.pc = "judge" /\ q \in Queues
      /\ hb'.due = hb.due \ {c} /\ main' = main
      /\ list' = [list EXCEPT ![q] = Without(@, c)]
  BY DEF HbDrop, Unlinking, IndInv, TypeOK
<1>2. PICK i \in DOMAIN list[q] : list[q][i] = c /\ c \in hb.due
  BY <1>1, JudgedNode
<1>3. Without(list[q], c) = RemoveAt(list[q], i)
  <2>1. \A j \in DOMAIN list[q] : list[q][j] = c => j = i
    BY <1>1, <1>2 DEF IndInv, ListsSound, NoneTwice
  <2>2. (CHOOSE j \in DOMAIN list[q] : list[q][j] = c) = i
    BY <1>2, <2>1
  <2>3. c \in Range(list[q])
    BY <1>2 DEF Range
  <2> QED
    BY <2>2, <2>3 DEF Without
<1>4. list' = [list EXCEPT ![q] = RemoveAt(@, i)]
  BY <1>1, <1>3
<1>5. Promise!Evict(q, i)
  BY <1>1, <1>2, <1>4 DEF Promise!Evict, Promise!RemoveAt, RemoveAt
<1> QED
  BY <1>1, <1>2, <1>5 DEF Promise!MNext

\* Verdicts end with nobody left to judge, at the end of the last list.
LEMMA JudgeListEndRefines ==
  ASSUME IndInv, HbJudgeListEnd
  PROVE  [Promise!MNext]_Promise!mvars
<1> PICK q : q = hb.i
  OBVIOUS
<1>1. /\ hb.pc = "judge" /\ next[hb.p] = NULL /\ list' = list /\ main' = main
      /\ hb' = IF q + 1 < INS
                 THEN [hb EXCEPT !.i = q + 1, !.p = q + 1]
                 ELSE [hb EXCEPT !.pc = "unlock", !.i = 0, !.p = NULL]
  BY DEF HbJudgeListEnd, HbListEnd, HeartbeatOnly
<1>2. hb \in HbType /\ q \in Queues
  BY DEF IndInv, TypeOK, HbType
<1>3. CASE q + 1 < INS
  <2>1. hb'.pc = "judge" /\ hb'.due = hb.due
    BY <1>1, <1>2, <1>3 DEF HbType
  <2> QED
    BY <1>1, <2>1 DEF Promise!mvars
<1>4. CASE ~(q + 1 < INS)
  <2>1. PICK k \in 0 .. Len(list[q]) :
          /\ hb.p = At(q, k)
          /\ \A m \in Queues : \A j \in DOMAIN list[m] :
               list[m][j] \in hb.due <=> ~(m < q \/ (m = q /\ j <= k))
    BY <1>1 DEF IndInv, DueExact, ProbedSoFar
  <2>2. k = Len(list[q])
    BY <1>1, <1>2, <2>1, AtTyped, TypesOfLists DEF IndInv
  <2>3. \A m \in Queues : m < q \/ m = q
    BY <1>2, <1>4, INSAssumption DEF Queues
  <2>4. \A m \in Queues : \A j \in 1 .. Len(list[m]) : list[m][j] \notin hb.due
    BY <2>1, <2>2, <2>3, ListDomain DEF IndInv
  <2>5. hb.due = {}
    <3>1. hb.due \subseteq Listed
      BY <1>1 DEF IndInv, DueExact
    <3> QED
      BY <2>4, <3>1, ListedAt, TypesOfLists DEF IndInv
  <2>6. hb'.pc = "unlock"
    BY <1>1, <1>2, <1>4 DEF HbType
  <2>7. Promise!EndRound
    BY <1>1, <2>5, <2>6 DEF Promise!EndRound
  <2> QED
    BY <2>7 DEF Promise!MNext
<1> QED
  BY <1>3, <1>4

LEMMA StepRefines ==
  ASSUME IndInv, ChosenShortest, [Next]_vars
  PROVE  [Promise!MNext]_Promise!mvars
<1>1. CASE Main
  <2>1. ASSUME NEW c \in Cells, NEW a \in Addrs, LoginAccept(a, c)
        PROVE  UNCHANGED Promise!mvars
    BY <2>1, UnseenStep DEF LoginAccept, Running
  <2>2. CASE Scan
    BY <2>2, UnseenStep DEF Scan, FindTest, FindNextList, FindDiffers, FindAdvance,
                            MainOnly, Running, IndInv, TypeOK
  <2>3. CASE LoginSpawn \/ LoginRefused
    BY <2>3, UnseenStep, BackToEpollTyped
       DEF LoginSpawn, LoginRefused, MainOnly, Running, IndInv
  <2>4. CASE FindFault
    BY <2>4, UnseenStep DEF FindFault, Crash
  <2>5. CASE BootDone
    BY <2>5, BootDoneRefines DEF Promise!MNext
  <2> QED
    BY <1>1, <2>1, <2>2, <2>3, <2>4, <2>5, BootAddRefines DEF Main, Scan
<1>2. ASSUME NEW c \in Cells, Acceptor(c)
      PROVE  [Promise!MNext]_Promise!mvars
  <2>1. CASE AcceptLock(c) \/ AcceptWalk(c) \/ AcceptEnd(c) \/ AcceptUnlock(c)
    BY <2>1, UnseenStep DEF AcceptLock, AcceptWalk, AcceptEnd, AcceptUnlock,
                            AcceptorOnly
  <2> QED
    BY <1>2, <2>1, AcceptLinkRefines DEF Acceptor
<1>3. CASE HbLock \/ HbRound
  <2>1. CASE HbLock \/ HbProbe \/ HbProbeListEnd \/ HbSilence \/ HbUnlock
    <3>1. list' = list /\ main' = main /\ hb.pc # "judge"
      BY <2>1 DEF HbLock, HbProbe, HbProbeListEnd, HbListEnd, HbSilence, HbUnlock,
                  HeartbeatOnly
    <3>2. hb \in HbType
      BY DEF IndInv, TypeOK, HbType
    <3>3. HbProbeListEnd => hb'.pc \in {"probe", "select"}
      BY <3>2 DEF HbProbeListEnd, HbListEnd, HbType
    <3>4. (HbProbe => hb'.pc = "probe") /\ (HbSilence => hb'.pc = "unlock")
      BY <3>2 DEF HbProbe, HbSilence, HbType
    <3>5. (HbLock => hb'.pc = "probe") /\ (HbUnlock => hb'.pc = "sleep")
      BY DEF HbLock, HbUnlock
    <3>6. hb'.pc # "judge"
      BY <2>1, <3>3, <3>4, <3>5
    <3> QED
      BY <3>1, <3>6, UnseenStep
  <2>2. CASE HbAnswers
    BY <2>2, AnswersRefines DEF Promise!MNext
  <2> QED
    BY <1>3, <2>1, <2>2, KeepRefines, DropRefines, JudgeListEndRefines DEF HbRound
<1>4. ASSUME NEW q \in Working, Worker(q)
      PROVE  UNCHANGED Promise!mvars
  BY <1>4, UnseenStep DEF Worker, WorkWake, WorkTest, WorkEnd, WorkAddress,
                          WorkAdvance, WorkFault, Crash, WorkerOnly
<1>5. CASE UNCHANGED vars
  BY <1>5, UnseenStep DEF vars, code
<1> QED
  BY <1>1, <1>2, <1>3, <1>4, <1>5 DEF Next, Stopped

\* The registry keeps the promise of Membership, whatever the number of lists,
\* cells, addresses and logins: who is registered only changes by one login
\* joining the end of a shortest list outside every round of verdicts, and by
\* a round that passes one verdict on each of the members it began with.
THEOREM RegistryImplementsMembership == Spec => ImplementsMembership
<1>1. Init => Promise!MInit /\ ChosenShortest
  BY DEF Init, Promise!MInit, NoLists, ChosenShortest, NoThread
<1>2. IndInv /\ ChosenShortest /\ [Next]_vars => ChosenShortest'
  BY StepChosenShortest
<1>3. IndInv /\ ChosenShortest /\ [Next]_vars => [Promise!MNext]_Promise!mvars
  BY StepRefines
<1> QED
  BY <1>1, <1>2, <1>3, RegistryInvariant, PTL
     DEF Spec, ImplementsMembership, Promise!MSpec

(***************************************************************************)
(* What a step may do to the lists and to the scan.  The proofs below rest *)
(* on these facts and not on the actions.                                  *)
(***************************************************************************)
\* A node that joins comes behind the last one of a list.
LEMMA JoinEffect ==
  ASSUME IndInv, NEW c \in Cells, BootAdd(c) \/ AcceptLink(c)
  PROVE  \E q \in Queues :
           /\ c \notin Listed /\ Listed' = Listed \cup {c}
           /\ At(q, Len(list[q])) \in Ptrs \ {c}
           /\ next[At(q, Len(list[q]))] = NULL
           /\ next' = [next EXCEPT ![c] = NULL, ![At(q, Len(list[q]))] = c]
           /\ \A k \in Queues \ {q} : list'[k] = list[k]
           /\ Len(list'[q]) = Len(list[q]) + 1
           /\ \A i \in 1 .. Len(list[q]) : list'[q][i] = list[q][i]
           /\ list'[q][Len(list[q]) + 1] = c
<1>1. PICK q \in Queues :
        LinkAfter(q, At(q, Len(list[q])), c) /\ c \notin Listed
  <2>1. CASE BootAdd(c)
    <3>1. main.i \in Int /\ c \notin heap
      BY <2>1 DEF BootAdd, Malloc, IndInv, TypeOK
    <3>2. c \notin Listed
      BY <3>1 DEF IndInv, NodesAccounted
    <3> QED
      BY <2>1, <3>1, <3>2, ModInQueues DEF BootAdd, ConfiguredQueue
  <2>2. CASE AcceptLink(c)
    <3>1. acceptor[c].pc = "link" /\ acceptor[c].index \in Queues
      BY <2>2 DEF AcceptLink, IndInv, TypeOK
    <3>2. PICK i \in Len(list[acceptor[c].index]) .. Len(list[acceptor[c].index]) :
            acceptor[c].p = At(acceptor[c].index, i)
      BY <3>1 DEF IndInv, LockedCursorsLive, OnList
    <3>3. acceptor[c].p = At(acceptor[c].index, Len(list[acceptor[c].index]))
      BY <3>1, <3>2, ListDomain DEF IndInv
    <3>4. c \notin Listed
      BY <3>1 DEF IndInv, NodesAccounted, Pending
    <3> QED
      BY <2>2, <3>1, <3>3, <3>4 DEF AcceptLink
  <2> QED
    BY <2>1, <2>2
<1> PICK p : p = At(q, Len(list[q]))
  OBVIOUS
<1>2. ListTypes /\ ListsSound /\ Len(list[q]) \in 0 .. Len(list[q])
  BY TypesOfLists, ListDomain DEF IndInv
<1>3. p \in Ptrs /\ next[p] = NULL
  BY <1>2, AtTyped
<1>4. p # c
  BY <1>1, <1>2, ListedAt, CellsAssumption DEF At
<1> QED
  BY <1>1, <1>2, <1>3, <1>4, LinkSound DEF LinkAfter

\* A drop takes out the node behind the heartbeat's cursor.
\* List q loses c, which stands behind the heartbeat's cursor, and closes up.
ClosesUp(q, c) ==
  \E k \in 0 .. Len(list[q]) :
    /\ k # Len(list[q]) /\ hb.p = At(q, k) /\ c = list[q][k + 1]
    /\ Len(list'[q]) = Len(list[q]) - 1
    /\ \A i \in 1 .. Len(list[q]) - 1 :
         list'[q][i] = IF i <= k THEN list[q][i] ELSE list[q][i+1]

LEMMA DropShape ==
  ASSUME IndInv, HbDrop, NEW q, q = hb.i, NEW c, c = next[hb.p]
  PROVE  /\ q \in Queues /\ next' = [next EXCEPT ![hb.p] = next[c]]
         /\ addr' = [addr EXCEPT ![c] = NoAddr]
         /\ ListTypes' /\ Listed' = Listed \ {c} /\ c \in Listed
         /\ \A m \in Queues \ {q} : list'[m] = list[m]
         /\ ClosesUp(q, c)
<1>1. /\ hb.pc = "judge" /\ c # NULL /\ q \in Queues
      /\ next' = [next EXCEPT ![hb.p] = next[c]]
      /\ len' = [len EXCEPT ![q] = @ - 1]
      /\ list' = [list EXCEPT ![q] = Without(@, c)]
      /\ addr' = [addr EXCEPT ![c] = NoAddr]
  BY DEF HbDrop, Free, IndInv, TypeOK
<1>2. PICK k \in 0 .. Len(list[q]) : hb.p = At(q, k)
  BY <1>1 DEF IndInv, DueExact
<1>3. k # Len(list[q]) /\ c = list[q][k + 1]
  BY <1>1, <1>2, AtTyped, TypesOfLists DEF IndInv
<1>4. /\ ListTypes' /\ Listed' = Listed \ {c} /\ c \in Listed
      /\ \A m \in Queues \ {q} : list'[m] = list[m]
      /\ Len(list'[q]) = Len(list[q]) - 1
      /\ \A i \in 1 .. Len(list[q]) - 1 :
           list'[q][i] = IF i <= k THEN list[q][i] ELSE list[q][i+1]
  <2>1. ListTypes /\ ListsSound
    BY TypesOfLists DEF IndInv
  <2>2. next' = [next EXCEPT ![At(q, k)] = next[c]]
    BY <1>1, <1>2
  <2>3. len' = [len EXCEPT ![q] = @ - 1] /\ list' = [list EXCEPT ![q] = Without(@, c)]
    BY <1>1
  <2>4. q \in Queues
    BY <1>1
  <2> QED
    BY <2>1, <2>2, <2>3, <2>4, <1>3, UnlinkSound
<1> QED
  BY <1>1, <1>2, <1>3, <1>4 DEF ClosesUp

LEMMA DropEffect ==
  ASSUME IndInv, HbDrop
  PROVE  /\ hb.i \in Queues /\ hb.p \in Queues \cup Listed
         /\ next[hb.p] \in Listed /\ Listed' = Listed \ {next[hb.p]}
         /\ next' = [next EXCEPT ![hb.p] = next[next[hb.p]]]
         /\ addr' = [addr EXCEPT ![next[hb.p]] = NoAddr]
         /\ \A q \in Queues \ {hb.i} : list'[q] = list[q]
         /\ \A q \in Queues : \A i \in DOMAIN list'[q] :
              \E j \in DOMAIN list[q] : list'[q][i] = list[q][j]
<1> PICK q, c : q = hb.i /\ c = next[hb.p]
  OBVIOUS
<1>1. /\ q \in Queues /\ next' = [next EXCEPT ![hb.p] = next[c]]
      /\ addr' = [addr EXCEPT ![c] = NoAddr]
      /\ ListTypes' /\ Listed' = Listed \ {c} /\ c \in Listed
      /\ \A m \in Queues \ {q} : list'[m] = list[m]
      /\ ClosesUp(q, c)
  BY DropShape
<1>2. PICK k \in 0 .. Len(list[q]) :
        /\ k # Len(list[q]) /\ hb.p = At(q, k)
        /\ Len(list'[q]) = Len(list[q]) - 1
        /\ \A i \in 1 .. Len(list[q]) - 1 :
             list'[q][i] = IF i <= k THEN list[q][i] ELSE list[q][i+1]
  BY <1>1 DEF ClosesUp
<1>3. hb.p \in Queues \cup Listed
  <2>1. k # 0 => k \in 1 .. Len(list[q])
    BY <1>1, ListDomain DEF IndInv
  <2> QED
    BY <1>1, <1>2, <2>1, ListedAt, TypesOfLists DEF At, IndInv
<1>4. ASSUME NEW m \in Queues, NEW i \in DOMAIN list'[m]
      PROVE  \E j \in DOMAIN list[m] : list'[m][i] = list[m][j]
  <2>1. DOMAIN list'[m] = 1 .. Len(list'[m])
    BY <1>1 DEF ListTypes
  <2>2. DOMAIN list[m] = 1 .. Len(list[m]) /\ Len(list[m]) \in Nat
    BY ListDomain DEF IndInv
  <2>3. CASE m # q
    BY <2>1, <2>2, <2>3, <1>1
  <2>4. CASE m = q
    <3>1. i \in 1 .. Len(list[q]) - 1
      BY <2>1, <2>4, <1>2
    <3>2. i \in DOMAIN list[q] /\ i + 1 \in DOMAIN list[q]
      BY <2>2, <2>4, <3>1
    <3> QED
      BY <1>2, <2>4, <3>1, <3>2
  <2> QED
    BY <2>3, <2>4
<1> QED
  BY <1>1, <1>3, <1>4

\* Every other step leaves the lists alone.
LEMMA ListsEffect ==
  ASSUME IndInv, [Next]_vars
  PROVE  \/ \E c \in Cells : BootAdd(c) \/ AcceptLink(c)
         \/ HbDrop
         \/ UNCHANGED <<next, list>>
<1>1. CASE Main
  BY <1>1 DEF Main, LoginAccept, BootDone, FindTest, FindNextList, LoginSpawn,
              LoginRefused, FindDiffers, FindAdvance, FindFault, MainOnly, Crash
<1>2. ASSUME NEW c \in Cells, Acceptor(c)
      PROVE  AcceptLink(c) \/ UNCHANGED <<next, list>>
  BY <1>2 DEF Acceptor, AcceptLock, AcceptWalk, AcceptEnd, AcceptUnlock
<1>3. CASE HbLock \/ HbRound
  BY <1>3 DEF HbRound, HbLock, HbProbe, HbProbeListEnd, HbListEnd, HbAnswers,
              HbSilence, HbKeep, HbJudgeListEnd, HbUnlock
<1>4. ASSUME NEW q \in Working, Worker(q) PROVE UNCHANGED <<next, list>>
  BY <1>4 DEF Worker, WorkWake, WorkTest, WorkEnd, WorkAddress, WorkAdvance,
              WorkFault, Crash, WorkerOnly
<1> QED
  BY <1>1, <1>2, <1>3, <1>4 DEF Next, Stopped, vars, code

(***************************************************************************)
(* The worker's walk takes no lock, but until it is unsettled its cursor   *)
(* stays on the list, and where it found a next there still is one.        *)
(***************************************************************************)
SweepInv ==
  \A q \in Working : worker[q].pc # "sleep" /\ q \notin shaken =>
    \E i \in 0 .. Len(list[q]) :
      /\ worker[q].p = At(q, i)
      /\ worker[q].pc \in {"address", "chat"} => i # Len(list[q])

\* Positions survive every step that does not take a node out of the list.
LEMMA PositionsKept ==
  ASSUME IndInv, [Next]_vars, ~HbDrop, NEW q \in Working,
         NEW i \in 0 .. Len(list[q])
  PROVE  /\ i \in 0 .. Len(list'[q])
         /\ (IF i = 0 THEN q ELSE list'[q][i]) = At(q, i)
         /\ i # Len(list[q]) => i # Len(list'[q])
<1>1. q \in Queues /\ Len(list[q]) \in Nat
  BY BoundsAssumption, ListDomain DEF IndInv
<1>2. ASSUME NEW c \in Cells, BootAdd(c) \/ AcceptLink(c)
      PROVE  /\ Len(list'[q]) \in {Len(list[q]), Len(list[q]) + 1}
             /\ \A j \in 1 .. Len(list[q]) : list'[q][j] = list[q][j]
  BY <1>1, <1>2, JoinEffect
<1>4. CASE UNCHANGED <<next, list>>
  BY <1>4 DEF At
<1>5. CASE \E c \in Cells : BootAdd(c) \/ AcceptLink(c)
  <2>1. /\ Len(list'[q]) \in {Len(list[q]), Len(list[q]) + 1}
        /\ \A j \in 1 .. Len(list[q]) : list'[q][j] = list[q][j]
    BY <1>2, <1>5
  <2>2. i # 0 => i \in 1 .. Len(list[q])
    BY <1>1
  <2> QED
    BY <1>1, <2>1, <2>2 DEF At
<1> QED
  BY <1>4, <1>5, ListsEffect

\* A drop that does not unsettle the worker may move its position by one, and
\* never to the end of the list if it has found a next.
LEMMA DropLeavesFooting ==
  ASSUME IndInv, HbDrop, NEW q \in Working, q \notin shaken',
         NEW i \in 0 .. Len(list[q]), worker[q].p = At(q, i),
         worker[q].pc \in {"address", "chat"} => i # Len(list[q])
  PROVE  \E j \in 0 .. Len(list'[q]) :
           /\ worker[q].p = IF j = 0 THEN q ELSE list'[q][j]
           /\ worker[q].pc \in {"address", "chat"} => j # Len(list'[q])
<1> PICK c : c = next[hb.p]
  OBVIOUS
<1>1. /\ q \in Queues /\ Len(list[q]) \in Nat
      /\ i # 0 => i \in 1 .. Len(list[q]) /\ At(q, i) = list[q][i]
  BY BoundsAssumption, ListDomain DEF IndInv, At
<1>2. ~Unsettles(q, c)
  BY DEF HbDrop
<1>3. CASE q # hb.i
  <2>1. list'[q] = list[q]
    BY <1>1, <1>3, DropShape
  <2> QED
    BY <2>1 DEF At
<1>4. CASE q = hb.i
  <2>1. PICK k \in 0 .. Len(list[q]) :
          /\ k # Len(list[q]) /\ hb.p = At(q, k) /\ c = list[q][k + 1]
          /\ Len(list'[q]) = Len(list[q]) - 1
          /\ \A j \in 1 .. Len(list[q]) - 1 :
               list'[q][j] = IF j <= k THEN list[q][j] ELSE list[q][j+1]
    <3>1. ClosesUp(q, c)
      BY <1>4, DropShape
    <3> QED
      BY <3>1 DEF ClosesUp
  <2>2. /\ k + 1 \in 1 .. Len(list[q]) /\ k + 1 # 0 /\ At(q, k + 1) = c
    BY <1>1, <2>1 DEF At
  <2>3. i # k + 1
    BY <1>2, <2>2 DEF Unsettles
  <2>4. CASE i <= k
    <3>1. worker[q].p = IF i = 0 THEN q ELSE list'[q][i]
      BY <1>1, <2>1, <2>4 DEF At
    <3>2. i \in 0 .. Len(list'[q])
      BY <1>1, <2>1, <2>4
    <3>3. ASSUME worker[q].pc \in {"address", "chat"}
          PROVE  i # Len(list'[q])
      <4> SUFFICES ASSUME i = Len(list'[q]) PROVE FALSE
        OBVIOUS
      <4>1. i = k /\ k + 1 = Len(list[q])
        BY <1>1, <2>1, <2>4
      <4>2. next[worker[q].p] = c
        BY <1>1, <2>1, <4>1, AtTyped, TypesOfLists DEF IndInv
      <4>3. next[c] = NULL
        BY <1>1, <2>2, <4>1, AtTyped, TypesOfLists DEF IndInv
      <4> QED
        BY <1>2, <3>3, <4>2, <4>3 DEF Unsettles
    <3> QED
      BY <3>1, <3>2, <3>3
  <2>5. CASE ~(i <= k)
    <3>1. /\ i - 1 \in 1 .. Len(list[q]) - 1 /\ ~(i - 1 <= k) /\ (i - 1) + 1 = i
          /\ i # 0 /\ i - 1 # 0
      BY <1>1, <2>1, <2>3, <2>5
    <3>2. list'[q][i - 1] = list[q][i]
      BY <2>1, <3>1
    <3>3. i - 1 \in 0 .. Len(list'[q]) /\ worker[q].p = list'[q][i - 1]
      BY <1>1, <2>1, <3>1, <3>2
    <3>4. i # Len(list[q]) => i - 1 # Len(list'[q])
      BY <1>1, <2>1, <3>1
    <3> QED
      BY <3>1, <3>3, <3>4
  <2> QED
    BY <2>4, <2>5
<1> QED
  BY <1>3, <1>4

\* What a worker's own step does to its cursor.
LEMMA WorkerSweeps ==
  ASSUME IndInv, SweepInv, NEW k \in Working, Worker(k)
  PROVE  SweepInv'
<1>1. list' = list /\ next' = next /\ k \in Queues
  BY BoundsAssumption DEF Worker, WorkWake, WorkTest, WorkEnd, WorkAddress,
     WorkAdvance, WorkFault, Crash, WorkerOnly
<1>2. worker \in [Queues -> [pc : {"sleep", "test", "address", "chat"},
                             p : PtrsOrNull]]
  BY DEF IndInv, TypeOK
<1>3. \A q \in Working \ {k} :
        worker'[q] = worker[q] /\ (q \in shaken <=> q \in shaken')
  <2> SUFFICES ASSUME NEW q \in Working \ {k}
               PROVE  worker'[q] = worker[q] /\ (q \in shaken <=> q \in shaken')
    OBVIOUS
  <2>0. q \in Queues /\ q # k
    BY BoundsAssumption
  <2>1. CASE WorkWake(k)
    BY <1>2, <2>0, <2>1 DEF WorkWake
  <2>2. CASE WorkTest(k)
    BY <1>2, <2>0, <2>2 DEF WorkTest
  <2>3. CASE WorkEnd(k)
    BY <1>2, <2>0, <2>3 DEF WorkEnd
  <2>4. CASE WorkAddress(k)
    BY <1>2, <2>0, <2>4 DEF WorkAddress
  <2>5. CASE WorkAdvance(k)
    BY <1>2, <2>0, <2>5 DEF WorkAdvance
  <2>6. CASE WorkFault(k)
    BY <2>6 DEF WorkFault, Crash
  <2> QED
    BY <2>1, <2>2, <2>3, <2>4, <2>5, <2>6 DEF Worker
<1>4. ASSUME worker'[k].pc # "sleep", k \notin shaken'
      PROVE  \E i \in 0 .. Len(list[k]) :
               /\ worker'[k].p = At(k, i)
               /\ worker'[k].pc \in {"address", "chat"} => i # Len(list[k])
  <2>1. CASE WorkWake(k)
    <3>1. worker'[k] = [pc |-> "test", p |-> k]
      BY <1>1, <1>2, <2>1 DEF WorkWake
    <3>2. 0 \in 0 .. Len(list[k]) /\ At(k, 0) = k
      BY <1>1, ListDomain DEF IndInv, At
    <3> QED
      BY <3>1, <3>2
  <2>2. CASE ~WorkWake(k)
    <3>1. k \notin shaken /\ worker[k].pc # "sleep"
      BY <1>1, <1>2, <1>4, <2>2 DEF Worker, WorkTest, WorkEnd, WorkAddress, WorkAdvance,
                        WorkFault, Crash
    <3>2. PICK i \in 0 .. Len(list[k]) :
            /\ worker[k].p = At(k, i)
            /\ worker[k].pc \in {"address", "chat"} => i # Len(list[k])
      BY <3>1 DEF SweepInv
    <3>3. CASE WorkTest(k)
      <4>1. worker'[k].p = worker[k].p /\ next[worker[k].p] # NULL
        BY <1>1, <1>2, <3>3 DEF WorkTest
      <4>2. i # Len(list[k])
        BY <1>1, <3>2, <4>1, AtTyped, TypesOfLists DEF IndInv
      <4> QED
        BY <3>2, <4>1, <4>2
    <3>4. CASE WorkEnd(k)
      BY <1>1, <1>2, <1>4, <3>4 DEF WorkEnd
    <3>5. CASE WorkAddress(k)
      <4>1. worker'[k].p = worker[k].p /\ worker[k].pc = "address"
        BY <1>1, <1>2, <3>5 DEF WorkAddress
      <4> QED
        BY <3>2, <4>1
    <3>6. CASE WorkAdvance(k)
      <4>1. worker'[k] = [pc |-> "test", p |-> next[worker[k].p]]
            /\ worker[k].pc = "chat"
        BY <1>1, <1>2, <3>6 DEF WorkAdvance
      <4>2. i + 1 \in 0 .. Len(list[k]) /\ next[worker[k].p] = At(k, i + 1)
        BY <1>1, <3>2, <4>1, AtTyped, TypesOfLists DEF IndInv
      <4> QED
        BY <4>1, <4>2
    <3>7. CASE WorkFault(k)
      <4>1. worker' = worker
        BY <3>7 DEF WorkFault, Crash
      <4> QED
        BY <3>2, <4>1
    <3> QED
      BY <2>2, <3>3, <3>4, <3>5, <3>6, <3>7 DEF Worker
  <2> QED
    BY <2>1, <2>2
<1> QED
  BY <1>1, <1>3, <1>4 DEF SweepInv, At

LEMMA StepSweepInv ==
  ASSUME IndInv, SweepInv, [Next]_vars
  PROVE  SweepInv'
<1>1. CASE \E k \in Working : Worker(k)
  BY <1>1, WorkerSweeps
<1>2. CASE ~(\E k \in Working : Worker(k))
  <2>1. worker' = worker /\ shaken \subseteq shaken'
    <3>1. CASE Main
      BY <3>1 DEF Main, BootAdd, LoginAccept, BootDone, FindTest, FindNextList,
                  LoginSpawn, LoginRefused, FindDiffers, FindAdvance, FindFault,
                  MainOnly, Crash
    <3>2. CASE \E c \in Cells : Acceptor(c)
      BY <3>2 DEF Acceptor, AcceptLock, AcceptWalk, AcceptEnd, AcceptLink,
                  AcceptUnlock, AcceptorOnly
    <3>3. CASE HbLock \/ HbRound
      BY <3>3 DEF HbRound, HbLock, HbProbe, HbProbeListEnd, HbListEnd, HbAnswers,
                  HbSilence, HbKeep, HbDrop, HbJudgeListEnd, HbUnlock,
                  HeartbeatOnly, Unlinking
    <3> QED
      BY <1>2, <3>1, <3>2, <3>3 DEF Next, Stopped, vars, code
  <2> SUFFICES ASSUME NEW q \in Working, worker[q].pc # "sleep", q \notin shaken'
               PROVE  \E i \in 0 .. Len(list'[q]) :
                        /\ worker[q].p = IF i = 0 THEN q ELSE list'[q][i]
                        /\ worker[q].pc \in {"address", "chat"} => i # Len(list'[q])
    BY <2>1 DEF SweepInv, At
  <2>2. PICK i \in 0 .. Len(list[q]) :
          /\ worker[q].p = At(q, i)
          /\ worker[q].pc \in {"address", "chat"} => i # Len(list[q])
    BY <2>1 DEF SweepInv
  <2>3. CASE HbDrop
    BY <2>2, <2>3, DropLeavesFooting
  <2>4. CASE ~HbDrop
    <3>1. /\ i \in 0 .. Len(list'[q])
          /\ (IF i = 0 THEN q ELSE list'[q][i]) = At(q, i)
          /\ i # Len(list[q]) => i # Len(list'[q])
      BY <2>4, PositionsKept
    <3> QED
      BY <2>2, <3>1
  <2> QED
    BY <2>3, <2>4
<1> QED
  BY <1>1, <1>2

\* A worker's walk, which no lock protects, only leaves its list after the
\* heartbeat has dropped the very node the worker stood on, or the last one of
\* the list when the worker was about to go on to it: logins that join and all
\* other drops, also from its own list, never harm it.
THEOREM SweepsSound == Spec => []SweepSoundUntilDrop
<1>1. Init => SweepInv
  BY BoundsAssumption DEF Init, SweepInv
<1>2. IndInv /\ SweepInv /\ [Next]_vars => SweepInv'
  BY StepSweepInv
<1>3. SweepInv => SweepSoundUntilDrop
  BY DEF SweepInv, SweepSoundUntilDrop, OnList
<1> QED
  BY <1>1, <1>2, <1>3, RegistryInvariant, PTL DEF Spec

(***************************************************************************)
(* The scan of findCinfo reads the lists while the heartbeat unlinks and   *)
(* frees their nodes.  Whatever it reaches from where it stands is a       *)
(* sentinel, a registered node or one dropped since: never a node that     *)
(* waits to be linked, its own new one, or a leaked one.                   *)
(***************************************************************************)
Closed(A) == \A r \in A : next[r] \in A \cup {NULL}
Scanning  == main.pc \in {"test", "compare", "advance"}
Before    == UNION {Range(main.before[q]) : q \in Queues}
Unlinked  == Pending \cup InHand \cup refused

ScanApart ==
  Scanning => \E R \in SUBSET Ptrs :
    /\ Closed(R)
    /\ Queues \cup Listed \cup Before \subseteq R
    /\ main.p \in R \cup {NULL}
    /\ R \cap Unlinked = {}

\* Only an allocated node has an address.
AddrSound == \A c \in Cells : c \in heap <=> addr[c] # NoAddr

\* The steps as the scan sees them.
LEMMA ScanEffect ==
  ASSUME IndInv, [Next]_vars
  PROVE  \/ ~Scanning'
         \/ \E a \in Addrs, c \in Cells : LoginAccept(a, c)
         \/ Scan
         \/ /\ Scanning /\ main' = main
            /\ Unlinked' \subseteq Unlinked
            /\ \/ \E c \in Cells : AcceptLink(c) /\ c \in Unlinked /\ c \notin Unlinked'
               \/ HbDrop
               \/ UNCHANGED <<next, list, addr>>
<1> SUFFICES ASSUME Scanning'
             PROVE  \/ \E a \in Addrs, c \in Cells : LoginAccept(a, c)
                    \/ Scan
                    \/ /\ Scanning /\ main' = main
                       /\ Unlinked' \subseteq Unlinked
                       /\ \/ \E c \in Cells :
                               AcceptLink(c) /\ c \in Unlinked /\ c \notin Unlinked'
                          \/ HbDrop
                          \/ UNCHANGED <<next, list, addr>>
  OBVIOUS
<1>1. CASE Main
  <2>1. ~BootDone /\ ~LoginSpawn /\ ~LoginRefused
    <3>1. BootDone => main'.pc = "epoll"
      BY DEF BootDone, IndInv, TypeOK
    <3>2. LoginSpawn \/ LoginRefused => main'.pc = "epoll"
      BY BackToEpollTyped DEF LoginSpawn, LoginRefused, IndInv
    <3> QED
      BY <3>1, <3>2 DEF Scanning
  <2>2. \A c \in Cells : ~BootAdd(c)
    <3>1. ASSUME NEW c \in Cells, BootAdd(c) PROVE main'.pc = "boot"
      BY <3>1 DEF BootAdd, IndInv, TypeOK
    <3> QED
      BY <3>1 DEF Scanning
  <2>3. CASE FindFault
    BY <2>3 DEF FindFault, Crash, Scanning, Unlinked, Pending, InHand
  <2> QED
    BY <1>1, <2>1, <2>2, <2>3 DEF Main, Scan
<1>2. ASSUME NEW c \in Cells, Acceptor(c)
      PROVE  /\ Scanning /\ main' = main
             /\ Unlinked' \subseteq Unlinked
             /\ \/ AcceptLink(c) /\ c \in Unlinked /\ c \notin Unlinked'
                \/ UNCHANGED <<next, list, addr>>
  <2>1. main' = main /\ refused' = refused /\ addr' = addr
    BY <1>2 DEF Acceptor, AcceptLock, AcceptWalk, AcceptEnd, AcceptLink, AcceptUnlock,
                AcceptorOnly
  <2>2. acceptor \in [Cells -> AcceptorType]
    BY DEF IndInv, TypeOK, AcceptorType
  <2>3. CASE AcceptLink(c)
    <3>1. /\ acceptor[c].pc = "link" /\ acceptor'[c].pc = "unlock"
          /\ \A d \in Cells \ {c} : acceptor'[d] = acceptor[d]
      BY <2>2, <2>3 DEF AcceptLink, AcceptorType
    <3>2. c \in Pending /\ Pending' = Pending \ {c}
      BY <3>1 DEF Pending
    <3> QED
      BY <2>1, <2>3, <3>2 DEF Unlinked, InHand, Scanning, IndInv, NodesAccounted
  <2>4. CASE AcceptLock(c) \/ AcceptWalk(c) \/ AcceptEnd(c) \/ AcceptUnlock(c)
    <3>1. \A d \in Cells \ {c} : acceptor'[d] = acceptor[d]
      BY <2>2, <2>4 DEF AcceptLock, AcceptWalk, AcceptEnd, AcceptUnlock
    <3>2. acceptor[c].pc \in {"lock", "walk", "link"}
            \/ acceptor'[c].pc \notin {"lock", "walk", "link"}
      BY <2>2, <2>4 DEF AcceptLock, AcceptWalk, AcceptEnd, AcceptUnlock, NoThread
    <3>3. Pending' \subseteq Pending
      BY <3>1, <3>2 DEF Pending
    <3>4. UNCHANGED <<next, list>>
      BY <2>4 DEF AcceptLock, AcceptWalk, AcceptEnd, AcceptUnlock
    <3> QED
      BY <2>1, <3>3, <3>4 DEF Unlinked, InHand, Scanning
  <2> QED
    BY <1>2, <2>3, <2>4 DEF Acceptor
<1>3. CASE HbLock \/ HbRound
  <2>1. UNCHANGED <<main, acceptor, refused>>
    BY <1>3 DEF HbRound, HbLock, HbProbe, HbProbeListEnd, HbListEnd, HbAnswers,
                HbSilence, HbKeep, HbDrop, HbJudgeListEnd, HbUnlock, HeartbeatOnly,
                Unlinking
  <2>2. HbDrop \/ UNCHANGED <<next, list, addr>>
    BY <1>3 DEF HbRound, HbLock, HbProbe, HbProbeListEnd, HbListEnd, HbAnswers,
                HbSilence, HbKeep, HbJudgeListEnd, HbUnlock
  <2> QED
    BY <2>1, <2>2 DEF Unlinked, Pending, InHand, Scanning
<1>4. ASSUME (\E q \in Working : Worker(q)) \/ UNCHANGED vars
      PROVE  UNCHANGED <<main, acceptor, refused, next, list, addr>>
  BY <1>4 DEF Worker, WorkWake, WorkTest, WorkEnd, WorkAddress, WorkAdvance,
              WorkFault, Crash, WorkerOnly, vars, code
<1>5. CASE (\E q \in Working : Worker(q)) \/ UNCHANGED vars
  BY <1>4, <1>5 DEF Unlinked, Pending, InHand, Scanning
<1> QED
  BY <1>1, <1>2, <1>3, <1>5 DEF Next, Stopped

\* What a login finds when its scan starts.
LEMMA LoginEffect ==
  ASSUME IndInv, NEW a \in Addrs, NEW c \in Cells, LoginAccept(a, c)
  PROVE  /\ UNCHANGED <<next, list>>
         /\ main' = [pc |-> "test", i |-> 0, p |-> 0, node |-> c, before |-> list]
         /\ 0 \in Queues
         /\ Before' = Listed
         /\ Unlinked' = Unlinked \cup {c}
         /\ (Queues \cup Listed) \cap Unlinked' = {}
<1>1. /\ UNCHANGED <<next, list, acceptor, refused>> /\ c \notin heap
      /\ main.pc = "epoll"
      /\ main' = [pc |-> "test", i |-> 0, p |-> 0, node |-> c, before |-> list]
  BY DEF LoginAccept, Malloc
<1>2. 0 \in Queues
  BY INSAssumption DEF Queues
<1>3. Before' = Listed
  BY <1>1 DEF Before, Listed
<1>4. main.node = NULL /\ c # NULL
  BY <1>1, CellsAssumption DEF IndInv, InHandSound, Ptrs
<1>5. Unlinked' = Unlinked \cup {c}
  BY <1>1, <1>4 DEF Unlinked, Pending, InHand
<1>6. Unlinked' \subseteq Cells
  BY <1>4, <1>5 DEF Unlinked, Pending, InHand, IndInv, TypeOK
<1>7. Listed \cap Unlinked' = {}
  BY <1>1, <1>5 DEF Unlinked, IndInv, NodesAccounted
<1> QED
  BY <1>1, <1>2, <1>3, <1>5, <1>6, <1>7, CellsAssumption

\* The sentinels and the registered nodes only lead to one another.
LEMMA RegisteredClosed ==
  ASSUME IndInv
  PROVE  Queues \cup Listed \subseteq Ptrs /\ Closed(Queues \cup Listed)
<1>1. Listed \subseteq Ptrs
  BY DEF IndInv, TypeOK, NodesAccounted, Ptrs
<1>2. ASSUME NEW r \in Queues \cup Listed
      PROVE  next[r] \in Queues \cup Listed \cup {NULL}
  <2>0. PICK q \in Queues : \E i \in 0 .. Len(list[q]) : r = At(q, i)
    <3>1. CASE r \in Queues
      <4>1. 0 \in 0 .. Len(list[r]) /\ r = At(r, 0)
        BY <3>1, ListDomain DEF IndInv, At
      <4> QED
        BY <3>1, <4>1
    <3>2. CASE r \in Listed
      <4>0. PICK q \in Queues : \E i \in 1 .. Len(list[q]) : list[q][i] = r
        BY <3>2, ListedAt, TypesOfLists DEF IndInv
      <4>1. PICK i \in 1 .. Len(list[q]) : list[q][i] = r
        BY <4>0
      <4>2. i \in 0 .. Len(list[q]) /\ r = At(q, i)
        BY <4>1, ListDomain DEF IndInv, At
      <4> QED
        BY <4>2
    <3> QED
      BY <3>1, <3>2
  <2>1. PICK i \in 0 .. Len(list[q]) : r = At(q, i)
    BY <2>0
  <2>2. CASE i = Len(list[q])
    BY <2>1, <2>2, AtTyped, TypesOfLists DEF IndInv
  <2>3. CASE i # Len(list[q])
    <3>1. i + 1 \in 1 .. Len(list[q]) /\ next[r] = list[q][i+1]
      BY <2>1, <2>3, AtTyped, TypesOfLists DEF IndInv
    <3> QED
      BY <3>1, ListedAt, TypesOfLists DEF IndInv
  <2> QED
    BY <2>2, <2>3
<1> QED
  BY <1>1, <1>2 DEF Closed, Ptrs

LEMMA StepScanApart ==
  ASSUME IndInv, ScanApart, [Next]_vars
  PROVE  ScanApart'
<1> SUFFICES ASSUME Scanning'
             PROVE  \E R \in SUBSET Ptrs :
                      /\ \A r \in R : next'[r] \in R \cup {NULL}
                      /\ Queues \cup Listed' \cup Before' \subseteq R
                      /\ main'.p \in R \cup {NULL}
                      /\ R \cap Unlinked' = {}
  BY DEF ScanApart, Closed
<1>1. ASSUME NEW a \in Addrs, NEW c \in Cells, LoginAccept(a, c)
      PROVE  /\ \A r \in Queues \cup Listed : next'[r] \in Queues \cup Listed \cup {NULL}
             /\ Queues \cup Listed' \cup Before' \subseteq Queues \cup Listed
             /\ main'.p \in Queues \cup Listed
             /\ (Queues \cup Listed) \cap Unlinked' = {}
             /\ Queues \cup Listed \subseteq Ptrs
  <2>1. Listed' = Listed
    BY <1>1, LoginEffect DEF Listed
  <2> QED
    BY <1>1, <2>1, LoginEffect, RegisteredClosed DEF Closed
<1>2. ASSUME Scanning
      PROVE  \E R \in SUBSET Ptrs :
               /\ Closed(R)
               /\ Queues \cup Listed \cup Before \subseteq R
               /\ main.p \in R \cup {NULL}
               /\ R \cap Unlinked = {}
  BY <1>2 DEF ScanApart
<1>3. CASE Scan
  <2>1. /\ UNCHANGED <<next, list, acceptor, refused>> /\ Scanning
        /\ main'.node = main.node /\ main'.before = main.before
        /\ main'.p \in Queues \cup {main.p, next[main.p]}
        /\ main'.p = next[main.p] => main.p # NULL \/ main'.p \in Queues \cup {main.p}
    <3>1. main \in [pc : {"boot", "epoll", "test", "compare", "advance"}, i : Nat,
                    p : PtrsOrNull, node : Cells \cup {NULL},
                    before : [Queues -> Seq(Cells)]]
      BY DEF IndInv, TypeOK
    <3>2. UNCHANGED <<next, list, acceptor, refused>> /\ Scanning
      BY <1>3 DEF Scan, FindTest, FindNextList, FindDiffers, FindAdvance, MainOnly,
                  Scanning
    <3>3. CASE FindTest \/ FindDiffers
      BY <3>1, <3>2, <3>3 DEF FindTest, FindDiffers
    <3>4. CASE FindNextList
      <4>1. main.i + 1 \in Queues
        BY <3>1, <3>4, INSAssumption DEF FindNextList, Queues
      <4> QED
        BY <3>1, <3>2, <3>4, <4>1 DEF FindNextList
    <3>5. CASE FindAdvance
      <4>1. main.p # NULL
        BY <3>5 DEF FindAdvance, IndInv, InHandSound
      <4> QED
        BY <3>1, <3>2, <3>5, <4>1 DEF FindAdvance
    <3> QED
      BY <1>3, <3>3, <3>4, <3>5 DEF Scan
  <2>2. Listed' = Listed /\ Before' = Before /\ Unlinked' = Unlinked
    BY <2>1 DEF Listed, Before, Unlinked, Pending, InHand
  <2>3. PICK R \in SUBSET Ptrs :
          /\ Closed(R)
          /\ Queues \cup Listed \cup Before \subseteq R
          /\ main.p \in R \cup {NULL}
          /\ R \cap Unlinked = {}
    BY <1>2, <2>1
  <2>4. main'.p \in R \cup {NULL}
    BY <2>1, <2>3 DEF Closed
  <2> QED
    BY <2>1, <2>2, <2>3, <2>4 DEF Closed
<1>4. ASSUME Scanning, main' = main, Unlinked' \subseteq Unlinked,
             NEW c \in Cells, AcceptLink(c), c \in Unlinked, c \notin Unlinked'
      PROVE  \E R \in SUBSET Ptrs :
               /\ \A r \in R : next'[r] \in R \cup {NULL}
               /\ Queues \cup Listed' \cup Before' \subseteq R
               /\ main'.p \in R \cup {NULL}
               /\ R \cap Unlinked' = {}
  <2>1. PICK R \in SUBSET Ptrs :
          /\ Closed(R)
          /\ Queues \cup Listed \cup Before \subseteq R
          /\ main.p \in R \cup {NULL}
          /\ R \cap Unlinked = {}
    BY <1>2, <1>4
  <2>2. PICK p \in Ptrs : /\ next' = [next EXCEPT ![c] = NULL, ![p] = c]
                          /\ p # c /\ Listed' = Listed \cup {c}
    BY <1>4, JoinEffect
  <2>3. c \in Ptrs /\ Before' = Before /\ next \in [Ptrs -> Cells \cup {NULL}]
    BY <1>4 DEF Before, Ptrs, IndInv, TypeOK
  <2>4. \A r \in R \cup {c} : next'[r] \in R \cup {c} \cup {NULL}
    BY <2>1, <2>2, <2>3 DEF Closed
  <2>5. (R \cup {c}) \cap Unlinked' = {}
    BY <1>4, <2>1
  <2>6. Queues \cup Listed' \cup Before' \subseteq R \cup {c}
    BY <2>1, <2>2, <2>3
  <2>7. main'.p \in R \cup {c} \cup {NULL} /\ R \cup {c} \in SUBSET Ptrs
    BY <1>4, <2>1, <2>3
  <2> QED
    BY <2>4, <2>5, <2>6, <2>7
<1>5. ASSUME Scanning, main' = main, Unlinked' \subseteq Unlinked, HbDrop
      PROVE  \E R \in SUBSET Ptrs :
               /\ \A r \in R : next'[r] \in R \cup {NULL}
               /\ Queues \cup Listed' \cup Before' \subseteq R
               /\ main'.p \in R \cup {NULL}
               /\ R \cap Unlinked' = {}
  <2>1. PICK R \in SUBSET Ptrs :
          /\ Closed(R)
          /\ Queues \cup Listed \cup Before \subseteq R
          /\ main.p \in R \cup {NULL}
          /\ R \cap Unlinked = {}
    BY <1>2, <1>5
  <2>2. /\ next[hb.p] \in Listed /\ Listed' = Listed \ {next[hb.p]}
        /\ next' = [next EXCEPT ![hb.p] = next[next[hb.p]]]
    BY <1>5, DropEffect
  <2>3. Before' = Before /\ next \in [Ptrs -> Cells \cup {NULL}]
    BY <1>5 DEF Before, IndInv, TypeOK
  <2>4. \A r \in R : next'[r] \in R \cup {NULL}
    BY <2>1, <2>2, <2>3 DEF Closed
  <2> QED
    BY <1>5, <2>1, <2>2, <2>3, <2>4
<1>6. ASSUME Scanning, main' = main, Unlinked' \subseteq Unlinked, UNCHANGED <<next, list>>
      PROVE  \E R \in SUBSET Ptrs :
               /\ \A r \in R : next'[r] \in R \cup {NULL}
               /\ Queues \cup Listed' \cup Before' \subseteq R
               /\ main'.p \in R \cup {NULL}
               /\ R \cap Unlinked' = {}
  <2>1. Listed' = Listed /\ Before' = Before
    BY <1>6 DEF Listed, Before
  <2> QED
    BY <1>2, <1>6, <2>1 DEF Closed
<1>7. CASE \E a \in Addrs, c \in Cells : LoginAccept(a, c)
  <2>1. Queues \cup Listed \in SUBSET Ptrs
    BY <1>1, <1>7
  <2> QED
    BY <1>1, <1>7, <2>1
<1> QED
  BY <1>3, <1>4, <1>5, <1>6, <1>7, ScanEffect

LEMMA StepAddrSound ==
  ASSUME IndInv, AddrSound, [Next]_vars
  PROVE  AddrSound'
<1>1. addr \in [Cells -> Addrs \cup (From .. To) \cup {NoAddr}]
  BY DEF IndInv, TypeOK
<1>2. ASSUME NEW c \in Cells, NEW a \in Addrs \cup (From .. To), Malloc(c, a)
      PROVE  AddrSound'
  BY <1>1, <1>2, AddrAssumption DEF Malloc, AddrSound
<1>3. ASSUME NEW c \in Cells, Free(c) PROVE AddrSound'
  BY <1>1, <1>3 DEF Free, AddrSound
<1>4. CASE UNCHANGED <<heap, addr>>
  BY <1>4 DEF AddrSound
<1>5. CASE Main
  <2>1. ASSUME NEW c \in Cells, BootAdd(c) PROVE AddrSound'
    <3>1. main.i \in From .. To /\ Malloc(c, main.i)
      BY <2>1, AddrAssumption DEF BootAdd, IndInv, InHandSound
    <3> QED
      BY <1>2, <3>1
  <2>2. ASSUME NEW c \in Cells, NEW a \in Addrs, LoginAccept(a, c) PROVE AddrSound'
    BY <1>2, <2>2 DEF LoginAccept
  <2>3. CASE BootDone \/ Scan \/ LoginSpawn \/ LoginRefused \/ FindFault
    BY <1>4, <2>3 DEF BootDone, Scan, FindTest, FindNextList, FindDiffers, FindAdvance,
                      LoginSpawn, LoginRefused, FindFault, Crash, MainOnly
  <2> QED
    BY <1>5, <2>1, <2>2, <2>3 DEF Main, Scan
<1>6. ASSUME NEW c \in Cells, Acceptor(c) PROVE AddrSound'
  BY <1>4, <1>6 DEF Acceptor, AcceptLock, AcceptWalk, AcceptEnd, AcceptLink,
                    AcceptUnlock, AcceptorOnly
<1>7. CASE HbDrop
  <2>1. next[hb.p] \in Cells
    BY <1>7, DropEffect DEF IndInv, NodesAccounted, TypeOK
  <2> QED
    BY <1>3, <1>7, <2>1 DEF HbDrop
<1>8. CASE HbLock \/ HbRound
  BY <1>4, <1>7, <1>8 DEF HbRound, HbLock, HbProbe, HbProbeListEnd, HbListEnd, HbAnswers,
                          HbSilence, HbKeep, HbJudgeListEnd, HbUnlock
<1>9. ASSUME (\E q \in Working : Worker(q)) \/ UNCHANGED vars PROVE AddrSound'
  BY <1>4, <1>9 DEF Worker, WorkWake, WorkTest, WorkEnd, WorkAddress, WorkAdvance,
                    WorkFault, Crash, WorkerOnly, vars, code
<1> QED
  BY <1>5, <1>6, <1>8, <1>9 DEF Next, Stopped

\* "Already logged in" is only told to a client whose address is registered:
\* the node the scan stopped at carries an address, so it is allocated, and no
\* allocated node but a registered one can be reached from a list.
THEOREM RefusalsTruthful == Spec => RefusedIsRegistered
<1>1. ASSUME IndInv, ScanApart, AddrSound, LoginRefused
      PROVE  \E c \in Listed : addr[c] = addr[main.node]
  <2>1. /\ main.pc = "compare" /\ main.p # NULL /\ next[main.p] # NULL
        /\ addr[next[main.p]] = addr[main.node]
        /\ main.node # NULL /\ main.node \in Cells
    BY <1>1 DEF LoginRefused, SameAddress, IndInv, InHandSound, TypeOK
  <2>2. PICK R \in SUBSET Ptrs :
          Closed(R) /\ main.p \in R \cup {NULL} /\ R \cap Unlinked = {}
    BY <1>1, <2>1 DEF ScanApart, Scanning
  <2>3. next[main.p] \in R /\ next[main.p] \in Cells
    BY <1>1, <2>1, <2>2 DEF Closed, IndInv, TypeOK
  <2>4. addr[main.node] # NoAddr
    BY <1>1, <2>1 DEF AddrSound, IndInv, NodesAccounted, InHand
  <2>5. next[main.p] \in heap
    BY <1>1, <2>1, <2>3, <2>4 DEF AddrSound
  <2>6. next[main.p] \in Listed
    BY <1>1, <2>2, <2>3, <2>5 DEF IndInv, NodesAccounted, Unlinked
  <2> QED
    BY <2>1, <2>6
<1>2. IndInv /\ ScanApart /\ AddrSound /\ [Next]_vars =>
        [LoginRefused => \E c \in Listed : addr[c] = addr[main.node]]_vars
  BY <1>1
<1>3. Init => ScanApart /\ AddrSound
  BY DEF Init, ScanApart, Scanning, AddrSound
<1>4. IndInv /\ ScanApart /\ AddrSound /\ [Next]_vars => ScanApart' /\ AddrSound'
  BY StepScanApart, StepAddrSound
<1> QED
  BY <1>2, <1>3, <1>4, RegistryInvariant, PTL DEF Spec, RefusedIsRegistered

(***************************************************************************)
(* What the scan can miss.  A set closed under next stands for what can be *)
(* reached from its members; reachability itself would need an induction.  *)
(***************************************************************************)
\* From its sentinel every node of a list can be reached.
Chained ==
  \A q \in Queues : \A A \in SUBSET Ptrs :
    Closed(A) /\ q \in A => \A i \in DOMAIN list[q] : list[q][i] \in A

\* The node that stood before position i of list q when the scan began, and
\* whether both are still registered.
Pred(q, i) == IF i = 1 THEN q ELSE main.before[q][i-1]
Kept(q, i) == /\ main.before[q][i] \in Listed
              /\ i = 1 \/ main.before[q][i-1] \in Listed

\* A node that is still registered is so in the same list, and behind the same
\* node if that one is registered, too.
StayInList ==
  Scanning => \A q \in Queues : \A i \in DOMAIN main.before[q] :
    main.before[q][i] \in Listed =>
      \E j \in DOMAIN list[q] : list[q][j] = main.before[q][i]
StillBehind ==
  Scanning => \A q \in Queues : \A i \in DOMAIN main.before[q] :
    Kept(q, i) => next[Pred(q, i)] = main.before[q][i]

\* A node of the address that is kept so is still ahead of the scan.
AheadOnly ==
  Scanning => \A q \in Queues : \A i \in DOMAIN main.before[q] :
    Kept(q, i) /\ SameAddress(main.before[q][i], main.node) =>
      /\ q >= main.i
      /\ q = main.i /\ main.p # NULL =>
           \A A \in SUBSET Ptrs : Closed(A) /\ main.p \in A => Pred(q, i) \in A
      /\ q = main.i /\ main.pc = "advance" => Pred(q, i) # main.p

\* What a closed set was before a node joined, and before one was dropped.
LEMMA ClosedBeforeJoin ==
  ASSUME IndInv, NEW c \in Cells, BootAdd(c) \/ AcceptLink(c),
         NEW R \in SUBSET Ptrs, Closed(R), c \notin R,
         NEW A \in SUBSET Ptrs, \A r \in A : next'[r] \in A \cup {NULL}
  PROVE  Closed(A \cap R)
<1>1. PICK p \in Ptrs : /\ next' = [next EXCEPT ![c] = NULL, ![p] = c]
                        /\ next[p] = NULL
  BY JoinEffect
<1>2. next \in [Ptrs -> Cells \cup {NULL}]
  BY DEF IndInv, TypeOK
<1> QED
  BY <1>1, <1>2 DEF Closed

LEMMA ClosedBeforeDrop ==
  ASSUME IndInv, HbDrop,
         NEW A \in SUBSET Ptrs, \A r \in A : next'[r] \in A \cup {NULL}
  PROVE  \E B \in SUBSET Ptrs :
           Closed(B) /\ A \subseteq B /\ B \subseteq A \cup {next[hb.p]}
<1>1. /\ next' = [next EXCEPT ![hb.p] = next[next[hb.p]]]
      /\ next[hb.p] \in Ptrs /\ next \in [Ptrs -> Cells \cup {NULL}]
      /\ hb.p \in Ptrs
  BY DropEffect, RegisteredClosed DEF IndInv, TypeOK
<1>2. CASE hb.p \in A
  <2>1. Closed(A \cup {next[hb.p]})
    BY <1>1, <1>2 DEF Closed
  <2> QED
    BY <1>1, <2>1
<1>3. CASE hb.p \notin A
  <2>1. Closed(A)
    BY <1>1, <1>3 DEF Closed
  <2> QED
    BY <2>1
<1> QED
  BY <1>2, <1>3

LEMMA StepChained ==
  ASSUME IndInv, Chained, [Next]_vars
  PROVE  Chained'
<1> SUFFICES ASSUME NEW q \in Queues, NEW A \in SUBSET Ptrs, q \in A,
                    \A r \in A : next'[r] \in A \cup {NULL},
                    NEW i \in DOMAIN list'[q]
             PROVE  list'[q][i] \in A
  BY DEF Chained, Closed
<1>0. TypeOK'
  BY StepIndInv DEF IndInv
<1>1. /\ DOMAIN list[q] = 1 .. Len(list[q]) /\ Len(list[q]) \in Nat
      /\ DOMAIN list'[q] = 1 .. Len(list'[q])
  BY <1>0, ListDomain DEF IndInv, TypeOK
<1>2. ASSUME NEW c \in Cells, BootAdd(c) \/ AcceptLink(c)
      PROVE  list'[q][i] \in A
  <2>1. PICK k \in Queues :
          /\ c \notin Listed /\ Listed' = Listed \cup {c}
          /\ At(k, Len(list[k])) \in Ptrs \ {c}
          /\ next' = [next EXCEPT ![c] = NULL, ![At(k, Len(list[k]))] = c]
          /\ \A m \in Queues \ {k} : list'[m] = list[m]
          /\ Len(list'[k]) = Len(list[k]) + 1
          /\ \A j \in 1 .. Len(list[k]) : list'[k][j] = list[k][j]
          /\ list'[k][Len(list[k]) + 1] = c
    BY <1>2, JoinEffect
  <2>2. Queues \cup Listed \in SUBSET Ptrs /\ Closed(Queues \cup Listed)
        /\ c \notin Queues \cup Listed
    BY <2>1, RegisteredClosed, CellsAssumption
  <2>3. Closed(A \cap (Queues \cup Listed))
    BY <1>2, <2>2, ClosedBeforeJoin
  <2>4. \A j \in 1 .. Len(list[q]) : list[q][j] \in A
    BY <1>1, <2>2, <2>3 DEF Chained
  <2>5. CASE q # k
    BY <1>1, <2>1, <2>4, <2>5
  <2>6. CASE q = k /\ i \in 1 .. Len(list[q])
    BY <2>1, <2>4, <2>6
  <2>7. CASE q = k /\ i \notin 1 .. Len(list[q])
    <3>1. i = Len(list[q]) + 1
      BY <1>1, <2>1, <2>7
    <3>2. At(q, Len(list[q])) \in A
      <4>1. Len(list[q]) # 0 => Len(list[q]) \in 1 .. Len(list[q])
        BY <1>1
      <4> QED
        BY <2>4, <4>1 DEF At
    <3>3. next'[At(q, Len(list[q]))] = c
      BY <2>1, <2>7 DEF IndInv, TypeOK
    <3>4. c # NULL
      BY CellsAssumption DEF Ptrs
    <3> QED
      BY <2>1, <2>7, <3>1, <3>2, <3>3, <3>4
  <2> QED
    BY <2>5, <2>6, <2>7
<1>3. CASE HbDrop
  <2>1. PICK B \in SUBSET Ptrs :
          Closed(B) /\ A \subseteq B /\ B \subseteq A \cup {next[hb.p]}
    BY <1>3, ClosedBeforeDrop
  <2>2. PICK j \in DOMAIN list[q] : list'[q][i] = list[q][j]
    BY <1>3, DropEffect
  <2>3. list'[q][i] \in B
    BY <2>1, <2>2 DEF Chained
  <2>4. list'[q][i] \in Listed'
    BY <1>0, <1>1, ListedAt, TypesOfLists DEF Listed, Range
  <2>5. list'[q][i] # next[hb.p]
    BY <1>3, <2>4, DropEffect
  <2> QED
    BY <2>1, <2>3, <2>5
<1>4. CASE UNCHANGED <<next, list>>
  BY <1>4 DEF Chained, Closed
<1> QED
  BY <1>2, <1>3, <1>4, ListsEffect

\* Steps of others leave the scan's own view alone, and take nothing into it.
LEMMA KeptBefore ==
  ASSUME IndInv, ScanApart, Scanning, main' = main,
         Unlinked' \subseteq Unlinked,
         \/ \E c \in Cells : AcceptLink(c) /\ c \in Unlinked
         \/ HbDrop
         \/ UNCHANGED <<next, list>>,
         NEW q \in Queues, NEW i \in DOMAIN main.before[q],
         main.before[q][i] \in Listed'
  PROVE  main.before[q][i] \in Listed
<1>1. main.before[q][i] \in Before
  BY DEF Before, Range
<1>2. main.before[q][i] \notin Unlinked
  BY <1>1 DEF ScanApart
<1>3. ASSUME NEW c \in Cells, AcceptLink(c), c \in Unlinked
      PROVE  main.before[q][i] \in Listed
  BY <1>2, <1>3, JoinEffect
<1>4. CASE HbDrop
  BY <1>4, DropEffect
<1>5. CASE UNCHANGED <<next, list>>
  BY <1>5 DEF Listed
<1> QED
  BY <1>3, <1>4, <1>5

LEMMA PredTyped ==
  ASSUME IndInv, ScanApart, Scanning, NEW q \in Queues,
         NEW i \in DOMAIN main.before[q]
  PROVE  /\ main.before[q][i] \in Cells /\ main.before[q][i] # NULL
         /\ i = 1 \/ i - 1 \in DOMAIN main.before[q]
         /\ \A R \in SUBSET Ptrs : Queues \cup Before \subseteq R => Pred(q, i) \in R
         /\ Pred(q, i) \in Ptrs
<1>1. main.before[q] \in Seq(Cells)
  BY DEF IndInv, TypeOK
<1>2. main.before[q][i] \in Cells /\ (i = 1 \/ i - 1 \in DOMAIN main.before[q])
  BY <1>1
<1>3. Pred(q, i) \in Queues \cup Before
  BY <1>2 DEF Pred, Before, Range
<1> QED
  BY <1>2, <1>3, CellsAssumption DEF ScanApart, Ptrs

LEMMA StepStayInList ==
  ASSUME IndInv, ScanApart, StayInList, [Next]_vars
  PROVE  StayInList'
<1> SUFFICES ASSUME Scanning', NEW q \in Queues, NEW i \in DOMAIN main'.before[q],
                    main'.before[q][i] \in Listed'
             PROVE  \E j \in DOMAIN list'[q] : list'[q][j] = main'.before[q][i]
  BY DEF StayInList
<1>0. TypeOK' /\ ListsSound'
  BY StepIndInv DEF IndInv
<1>1. ASSUME NEW a \in Addrs, NEW c \in Cells, LoginAccept(a, c)
      PROVE  \E j \in DOMAIN list'[q] : list'[q][j] = main'.before[q][i]
  <2>1. main'.before = list /\ list' = list
    BY <1>1, LoginEffect
  <2> QED
    BY <2>1
<1>2. CASE Scan
  <2>1. main'.before = main.before /\ list' = list /\ Scanning
    BY <1>2 DEF Scan, FindTest, FindNextList, FindDiffers, FindAdvance, MainOnly,
                Scanning, IndInv, TypeOK
  <2> QED
    BY <2>1 DEF StayInList, Listed
<1>3. ASSUME Scanning, main' = main, Unlinked' \subseteq Unlinked,
             \/ \E c \in Cells : AcceptLink(c) /\ c \in Unlinked
             \/ HbDrop
             \/ UNCHANGED <<next, list>>
      PROVE  \E j \in DOMAIN list'[q] : list'[q][j] = main'.before[q][i]
  <2>1. PICK j \in DOMAIN list[q] : list[q][j] = main.before[q][i]
    BY <1>3, KeptBefore DEF StayInList
  <2>2. /\ \A k \in Queues : DOMAIN list[k] = 1 .. Len(list[k]) /\ Len(list[k]) \in Nat
        /\ \A k \in Queues : DOMAIN list'[k] = 1 .. Len(list'[k])
    <3>1. list' \in [Queues -> Seq(Cells)]
      BY <1>0 DEF TypeOK
    <3> QED
      BY <3>1, ListDomain DEF IndInv
  <2>3. ASSUME NEW c \in Cells, AcceptLink(c)
        PROVE  \E o \in DOMAIN list'[q] : list'[q][o] = main'.before[q][i]
    <3>1. /\ Len(list'[q]) \in {Len(list[q]), Len(list[q]) + 1}
          /\ list'[q][j] = list[q][j]
      BY <2>2, <2>3, JoinEffect
    <3>2. j \in DOMAIN list'[q]
      BY <2>2, <3>1
    <3> QED
      BY <1>3, <2>1, <3>1, <3>2
  <2>4. CASE HbDrop
    <3>1. PICK k \in Queues : \E o \in 1 .. Len(list'[k]) :
            list'[k][o] = main.before[q][i]
      BY <1>3, <2>2 DEF Listed, Range
    <3>2. PICK o \in DOMAIN list'[k] : list'[k][o] = main.before[q][i]
      BY <2>2, <3>1
    <3>3. PICK n \in DOMAIN list[k] : list'[k][o] = list[k][n]
      BY <2>4, DropEffect
    <3>4. k = q
      BY <2>1, <3>2, <3>3 DEF IndInv, ListsSound, NoneTwice
    <3> QED
      BY <1>3, <3>2, <3>4
  <2> QED
    BY <1>3, <2>1, <2>3, <2>4
<1> QED
  BY <1>1, <1>2, <1>3, ScanEffect

LEMMA StepStillBehind ==
  ASSUME IndInv, ScanApart, StillBehind, [Next]_vars
  PROVE  StillBehind'
<1> SUFFICES ASSUME Scanning', NEW q \in Queues, NEW i \in DOMAIN main'.before[q],
                    main'.before[q][i] \in Listed',
                    i = 1 \/ main'.before[q][i-1] \in Listed'
             PROVE  next'[IF i = 1 THEN q ELSE main'.before[q][i-1]] =
                      main'.before[q][i]
  BY DEF StillBehind, Kept, Pred
<1>1. ASSUME NEW a \in Addrs, NEW c \in Cells, LoginAccept(a, c)
      PROVE  next'[IF i = 1 THEN q ELSE main'.before[q][i-1]] = main'.before[q][i]
  <2>1. main'.before = list /\ list' = list /\ next' = next
    BY <1>1, LoginEffect
  <2>2. i - 1 \in 0 .. Len(list[q]) /\ i - 1 # Len(list[q]) /\ (i - 1) + 1 = i
    BY <2>1, ListDomain DEF IndInv
  <2>3. next[At(q, i - 1)] = list[q][(i - 1) + 1]
    BY <2>2, AtTyped, TypesOfLists DEF IndInv
  <2>4. At(q, i - 1) = IF i = 1 THEN q ELSE list[q][i-1]
    BY <2>2 DEF At
  <2> QED
    BY <2>1, <2>2, <2>3, <2>4
<1>2. CASE Scan
  <2>1. main'.before = main.before /\ list' = list /\ next' = next /\ Scanning
    BY <1>2 DEF Scan, FindTest, FindNextList, FindDiffers, FindAdvance, MainOnly,
                Scanning, IndInv, TypeOK
  <2>2. Listed' = Listed
    BY <2>1 DEF Listed
  <2>3. Kept(q, i) /\ i \in DOMAIN main.before[q]
    BY <2>1, <2>2 DEF Kept
  <2>4. next[Pred(q, i)] = main.before[q][i]
    BY <2>1, <2>3 DEF StillBehind
  <2> QED
    BY <2>1, <2>4 DEF Pred
<1>3. ASSUME Scanning, main' = main, Unlinked' \subseteq Unlinked,
             \/ \E c \in Cells : AcceptLink(c) /\ c \in Unlinked
             \/ HbDrop
             \/ UNCHANGED <<next, list>>
      PROVE  next'[IF i = 1 THEN q ELSE main'.before[q][i-1]] = main'.before[q][i]
  <2>1. /\ main.before[q][i] \in Cells /\ main.before[q][i] # NULL
        /\ i = 1 \/ i - 1 \in DOMAIN main.before[q]
        /\ Pred(q, i) \in Ptrs
        /\ \A R \in SUBSET Ptrs : Queues \cup Before \subseteq R => Pred(q, i) \in R
    BY <1>3, PredTyped
  <2>2. Kept(q, i)
    BY <1>3, <2>1, KeptBefore DEF Kept
  <2>3. next[Pred(q, i)] = main.before[q][i]
    BY <1>3, <2>2 DEF StillBehind
  <2>4. next'[Pred(q, i)] = main.before[q][i]
    <3>1. ASSUME NEW c \in Cells, AcceptLink(c), c \in Unlinked
          PROVE  next'[Pred(q, i)] = main.before[q][i]
      <4>1. Pred(q, i) # c
        <5>1. PICK R \in SUBSET Ptrs :
                Queues \cup Before \subseteq R /\ R \cap Unlinked = {}
          BY <1>3 DEF ScanApart
        <5> QED
          BY <2>1, <3>1, <5>1
      <4>2. PICK p \in Ptrs : /\ next' = [next EXCEPT ![c] = NULL, ![p] = c]
                              /\ next[p] = NULL
        BY <3>1, JoinEffect
      <4> QED
        BY <2>1, <2>3, <4>1, <4>2 DEF IndInv, TypeOK
    <3>2. CASE HbDrop
      <4>1. /\ next' = [next EXCEPT ![hb.p] = next[next[hb.p]]]
            /\ next[hb.p] \notin Listed'
        BY <3>2, DropEffect
      <4>2. Pred(q, i) # hb.p
        BY <1>3, <2>3, <4>1
      <4> QED
        BY <2>1, <2>3, <4>1, <4>2 DEF IndInv, TypeOK
    <3> QED
      BY <1>3, <2>3, <3>1, <3>2
  <2> QED
    BY <1>3, <2>4 DEF Pred
<1> QED
  BY <1>1, <1>2, <1>3, ScanEffect

\* The scan's own step keeps what is ahead ahead of it.
LEMMA ScanAheadOnly ==
  ASSUME IndInv, ScanApart, Chained, StayInList, StillBehind, AheadOnly, Scan
  PROVE  AheadOnly'
<1>1. /\ UNCHANGED <<next, list, addr>> /\ Scanning
      /\ main'.before = main.before /\ main'.node = main.node
      /\ main.p \in Ptrs /\ main.i \in Nat
  <2>1. UNCHANGED <<next, list, addr>> /\ Scanning
    BY DEF Scan, FindTest, FindNextList, FindDiffers, FindAdvance, MainOnly, Scanning
  <2>2. main.p \in PtrsOrNull /\ main.i \in Nat
    BY DEF IndInv, TypeOK
  <2>3. main.p # NULL
    BY DEF Scan, FindTest, FindNextList, FindDiffers, FindAdvance, IndInv, InHandSound
  <2>4. main'.before = main.before /\ main'.node = main.node
    BY DEF Scan, FindTest, FindNextList, FindDiffers, FindAdvance, IndInv, TypeOK
  <2> QED
    BY <2>1, <2>2, <2>3, <2>4 DEF PtrsOrNull
<1>2. Listed' = Listed
  BY <1>1 DEF Listed
<1> SUFFICES ASSUME NEW q \in Queues, NEW i \in DOMAIN main.before[q],
                    Kept(q, i), SameAddress(main.before[q][i], main.node)
             PROVE  /\ q >= main'.i
                    /\ q = main'.i /\ main'.p # NULL =>
                         \A A \in SUBSET Ptrs :
                           Closed(A) /\ main'.p \in A => Pred(q, i) \in A
                    /\ q = main'.i /\ main'.pc = "advance" => Pred(q, i) # main'.p
  BY <1>1, <1>2 DEF AheadOnly, Kept, Pred, SameAddress, Closed
<1>3. /\ q >= main.i
      /\ q = main.i =>
           \A A \in SUBSET Ptrs : Closed(A) /\ main.p \in A => Pred(q, i) \in A
      /\ q = main.i /\ main.pc = "advance" => Pred(q, i) # main.p
  BY <1>1, CellsAssumption DEF AheadOnly
<1>4. next[Pred(q, i)] = main.before[q][i] /\ main.before[q][i] # NULL
  BY <1>1, PredTyped DEF StillBehind
<1>5. main \in [pc : {"boot", "epoll", "test", "compare", "advance"}, i : Nat,
                p : PtrsOrNull, node : Cells \cup {NULL},
                before : [Queues -> Seq(Cells)]]
  BY DEF IndInv, TypeOK
<1>6. CASE FindTest
  <2>1. main'.pc = "compare" /\ main'.i = main.i /\ main'.p = main.p
    BY <1>5, <1>6 DEF FindTest
  <2> QED
    BY <1>3, <2>1
<1>7. CASE FindNextList
  <2>1. /\ main'.pc = "test" /\ main'.i = main.i + 1 /\ main'.p = main.i + 1
        /\ next[main.p] = NULL
    BY <1>5, <1>7 DEF FindNextList
  <2>2. q # main.i
    <3>1. {main.p} \in SUBSET Ptrs /\ Closed({main.p})
      BY <1>1, <2>1 DEF Closed
    <3> QED
      BY <1>3, <1>4, <2>1, <3>1
  <2>3. q >= main.i + 1
    BY <1>1, <1>3, <2>2 DEF Queues
  <2>4. ASSUME NEW A \in SUBSET Ptrs, Closed(A), q \in A
        PROVE  Pred(q, i) \in A
    <3>1. CASE i = 1
      BY <2>4, <3>1 DEF Pred
    <3>2. CASE i # 1
      <4>1. i - 1 \in DOMAIN main.before[q] /\ main.before[q][i-1] \in Listed
        BY <1>1, <3>2, PredTyped DEF Kept
      <4>2. PICK j \in DOMAIN list[q] : list[q][j] = main.before[q][i-1]
        BY <1>1, <4>1 DEF StayInList
      <4>3. list[q][j] \in A
        BY <2>4 DEF Chained
      <4> QED
        BY <3>2, <4>2, <4>3 DEF Pred
    <3> QED
      BY <3>1, <3>2
  <2> QED
    BY <2>1, <2>3, <2>4
<1>8. CASE FindDiffers
  <2>1. /\ main'.pc = "advance" /\ main'.i = main.i /\ main'.p = main.p
        /\ ~SameAddress(next[main.p], main.node)
    BY <1>5, <1>8 DEF FindDiffers
  <2>2. Pred(q, i) # main.p
    BY <1>4, <2>1
  <2> QED
    BY <1>3, <2>1, <2>2
<1>9. CASE FindAdvance
  <2>1. /\ main'.pc = "test" /\ main'.i = main.i /\ main'.p = next[main.p]
        /\ main.pc = "advance"
    BY <1>5, <1>9 DEF FindAdvance
  <2>2. ASSUME q = main.i, NEW A \in SUBSET Ptrs, Closed(A), next[main.p] \in A
        PROVE  Pred(q, i) \in A
    <3>1. A \cup {main.p} \in SUBSET Ptrs /\ Closed(A \cup {main.p})
      BY <1>1, <2>2 DEF Closed
    <3>2. Pred(q, i) \in A \cup {main.p}
      BY <1>3, <2>2, <3>1
    <3> QED
      BY <1>3, <2>1, <2>2, <3>2
  <2> QED
    BY <1>3, <2>1, <2>2
<1> QED
  BY <1>6, <1>7, <1>8, <1>9 DEF Scan

LEMMA StepAheadOnly ==
  ASSUME IndInv, ScanApart, Chained, StayInList, StillBehind, AheadOnly, [Next]_vars
  PROVE  AheadOnly'
<1>1. ASSUME NEW a \in Addrs, NEW c \in Cells, LoginAccept(a, c)
      PROVE  AheadOnly'
  <2>1. /\ list' = list /\ next' = next /\ 0 \in Queues
        /\ main' = [pc |-> "test", i |-> 0, p |-> 0, node |-> c, before |-> list]
    BY <1>1, LoginEffect
  <2>2. ASSUME NEW i \in DOMAIN list[0], NEW A \in SUBSET Ptrs, Closed(A), 0 \in A
        PROVE  (IF i = 1 THEN 0 ELSE list[0][i-1]) \in A
    <3>1. i = 1 \/ i - 1 \in DOMAIN list[0]
      BY <2>1, ListDomain DEF IndInv
    <3> QED
      BY <2>1, <2>2, <3>1 DEF Chained
  <2>3. \A q \in Queues : q >= 0
    BY DEF Queues
  <2> QED
    BY <2>1, <2>2, <2>3 DEF AheadOnly, Pred, Closed
<1>2. ASSUME Scanning, main' = main, Unlinked' \subseteq Unlinked,
             \/ \E c \in Cells : AcceptLink(c) /\ c \in Unlinked
             \/ HbDrop
             \/ UNCHANGED <<next, list, addr>>
      PROVE  AheadOnly'
  <2> SUFFICES ASSUME NEW q \in Queues, NEW i \in DOMAIN main.before[q],
                      main.before[q][i] \in Listed',
                      i = 1 \/ main.before[q][i-1] \in Listed',
                      addr'[main.before[q][i]] = addr'[main.node]
               PROVE  /\ q >= main.i
                      /\ q = main.i /\ main.p # NULL =>
                           \A A \in SUBSET Ptrs :
                             /\ \A r \in A : next'[r] \in A \cup {NULL}
                             /\ main.p \in A
                             => Pred(q, i) \in A
                      /\ q = main.i /\ main.pc = "advance" => Pred(q, i) # main.p
    BY <1>2 DEF AheadOnly, Kept, Pred, SameAddress, Closed
  <2>1. /\ main.before[q][i] \in Cells
        /\ i = 1 \/ i - 1 \in DOMAIN main.before[q]
    BY <1>2, PredTyped
  <2>2. Kept(q, i)
    BY <1>2, <2>1, KeptBefore DEF Kept
  <2>3. SameAddress(main.before[q][i], main.node)
    <3>1. ASSUME NEW c \in Cells, AcceptLink(c) PROVE addr' = addr
      BY <3>1 DEF AcceptLink, AcceptorOnly
    <3>2. CASE HbDrop
      <4>1. /\ addr' = [addr EXCEPT ![next[hb.p]] = NoAddr]
            /\ next[hb.p] \in Listed /\ next[hb.p] \notin Listed'
        BY <3>2, DropEffect
      <4>2. main.node \in Cells /\ main.node \notin Listed
        BY <1>2 DEF Scanning, IndInv, InHandSound, TypeOK, NodesAccounted, InHand
      <4>3. main.before[q][i] # next[hb.p] /\ main.node # next[hb.p]
        BY <4>1, <4>2
      <4> QED
        BY <2>1, <4>1, <4>2, <4>3 DEF SameAddress, IndInv, TypeOK
    <3> QED
      BY <1>2, <3>1, <3>2 DEF SameAddress
  <2>4. /\ q >= main.i
        /\ q = main.i /\ main.p # NULL =>
             \A A \in SUBSET Ptrs : Closed(A) /\ main.p \in A => Pred(q, i) \in A
        /\ q = main.i /\ main.pc = "advance" => Pred(q, i) # main.p
    BY <1>2, <2>2, <2>3 DEF AheadOnly
  <2>5. ASSUME q = main.i, main.p # NULL, NEW A \in SUBSET Ptrs, main.p \in A,
               \A r \in A : next'[r] \in A \cup {NULL}
        PROVE  Pred(q, i) \in A
    <3>1. ASSUME NEW c \in Cells, AcceptLink(c), c \in Unlinked
          PROVE  Pred(q, i) \in A
      <4>1. PICK R \in SUBSET Ptrs :
              Closed(R) /\ main.p \in R \cup {NULL} /\ R \cap Unlinked = {}
        BY <1>2 DEF ScanApart
      <4>2. Closed(A \cap R) /\ main.p \in A \cap R /\ A \cap R \in SUBSET Ptrs
        BY <2>5, <3>1, <4>1, ClosedBeforeJoin
      <4> QED
        BY <2>4, <2>5, <4>2
    <3>2. CASE HbDrop
      <4>1. PICK B \in SUBSET Ptrs :
              Closed(B) /\ A \subseteq B /\ B \subseteq A \cup {next[hb.p]}
        BY <2>5, <3>2, ClosedBeforeDrop
      <4>2. Pred(q, i) \in B
        BY <2>4, <2>5, <4>1
      <4>3. next[hb.p] \notin Listed' /\ next[hb.p] \notin Queues
        BY <3>2, DropEffect, CellsAssumption DEF IndInv, NodesAccounted, TypeOK
      <4> QED
        BY <4>1, <4>2, <4>3 DEF Pred
    <3>3. CASE UNCHANGED <<next, list>>
      BY <2>4, <2>5, <3>3 DEF Closed
    <3> QED
      BY <1>2, <3>1, <3>2, <3>3
  <2> QED
    BY <2>4, <2>5
<1>3. CASE ~Scanning'
  BY <1>3 DEF AheadOnly
<1> QED
  BY <1>1, <1>2, <1>3, ScanEffect, ScanAheadOnly

\* A scan that finds nobody has only overlooked a registered client of the
\* address when the node before it was dropped during the scan.
THEOREM MissesOnlyBehindDropped == Spec => ScanMissesOnlyBehindDropped
<1> DEFINE ScanInv == ScanApart /\ Chained /\ StayInList /\ StillBehind /\ AheadOnly
<1>1. ASSUME IndInv, ScanInv, LoginSpawn,
             NEW q \in Queues, NEW i \in DOMAIN main.before[q], Overlooked(q, i)
      PROVE  i > 1 /\ main.before[q][i-1] \notin Listed
  <2>1. /\ Scanning /\ main.p \in Ptrs /\ next[main.p] = NULL /\ main.i \in Nat
        /\ main.i + 1 >= INS
    BY <1>1 DEF LoginSpawn, Scanning, IndInv, TypeOK, PtrsOrNull
  <2>2. main.before[q][i] \in Listed /\ SameAddress(main.before[q][i], main.node)
    BY <1>1 DEF Overlooked
  <2>3. ~Kept(q, i)
    <3> SUFFICES ASSUME Kept(q, i) PROVE FALSE
      OBVIOUS
    <3>1. /\ q >= main.i
          /\ q = main.i =>
               \A A \in SUBSET Ptrs : Closed(A) /\ main.p \in A => Pred(q, i) \in A
      BY <1>1, <2>1, <2>2, CellsAssumption DEF AheadOnly
    <3>2. q = main.i
      BY <2>1, <3>1, INSAssumption DEF Queues
    <3>3. {main.p} \in SUBSET Ptrs /\ Closed({main.p})
      BY <2>1 DEF Closed
    <3>4. Pred(q, i) = main.p
      BY <3>1, <3>2, <3>3
    <3>5. next[Pred(q, i)] = main.before[q][i] /\ main.before[q][i] # NULL
      BY <1>1, <2>1, PredTyped DEF StillBehind
    <3> QED
      BY <2>1, <3>4, <3>5
  <2>4. i \in Nat \ {0}
    <3>1. main.before[q] \in Seq(Cells)
      BY <1>1 DEF IndInv, TypeOK
    <3> QED
      BY <1>1, <3>1
  <2> QED
    BY <2>2, <2>3, <2>4 DEF Kept
<1>2. IndInv /\ ScanInv /\ [Next]_vars =>
        [LoginSpawn => \A q \in Queues : \A i \in DOMAIN main.before[q] :
           Overlooked(q, i) => i > 1 /\ main.before[q][i-1] \notin Listed]_vars
  BY <1>1
<1>3. Init => ScanInv
  BY DEF Init, ScanApart, Scanning, Chained, StayInList, StillBehind, AheadOnly, NoLists
<1>4. IndInv /\ ScanInv /\ [Next]_vars => ScanInv'
  BY StepScanApart, StepChained, StepStayInList, StepStillBehind, StepAheadOnly
<1> HIDE DEF ScanInv
<1> QED
  BY <1>2, <1>3, <1>4, RegistryInvariant, PTL DEF Spec, ScanMissesOnlyBehindDropped
=============================================================================
