------------------------- MODULE LogRotationProofs -------------------------
(***************************************************************************)
(* Proofs about the measuring process: its buffer never overflows whatever *)
(* the scripts print, no line is lost or kept twice but where LinesKept    *)
(* says so, and the listener sends the lines it reads whole - for buffers, *)
(* blocks and logs of any size, any number of measurements and of starts.  *)
(***************************************************************************)
EXTENDS LogRotation, FiniteSetTheorems, SequenceTheorems, TLAPS

Flushes == [cells : [1 .. BuffCells -> Nat], lines : SUBSET Nat]

ListenerStates ==
  [file : {"none", "log", "removed"}, text : Seq(Flushes), at : Nat, sent : Seq(Nat),
   strays : SUBSET Nat]

\* A length no line exceeds, of which PerFlush fit into the buffer.
Longest == CHOOSE k \in TempCells .. BuffCells : /\ PerFlush * k < BuffCells
                                                 /\ \A t \in Behind : TempCells + t <= k

\* The text of buffer b ends behind its cell e.
EndsAt(b, e) == /\ \A j \in 1 .. e : b[j] # 0
                /\ b[e + 1] = 0

Archived == UNION {LinesOf(l) : l \in archive}

Types ==
  /\ pc \in {"measure", "flush", "test", "tar", "remove"}
  /\ n \in 0 .. PerFlush
  /\ line \in Seq(Nat)
  /\ buff \in [1 .. BuffCells -> 0 .. Len(line)]
  /\ log \in Seq(Flushes) /\ archive \subseteq Seq(Flushes)
  /\ held \subseteq Lines /\ IsFiniteSet(held) /\ n = Cardinality(held)
  /\ starts \in Nat
  /\ reader \in ListenerStates

\* The text is at most as long as the measurements it holds.
Room == \E e \in 0 .. n * Longest : EndsAt(buff, e)

\* Where the process is decides what its log and buffer hold.
Places ==
  /\ pc = "measure" => n < PerFlush
  /\ pc \in {"test", "tar", "remove"} => n = 0
  /\ pc = "test" => log # Missing
  /\ pc = "remove" => LinesOf(log) \subseteq Archived \union lost

Measured == LinesOf(log) \union Archived \subseteq Lines

\* The listener has read no more than there is.
Reading == reader.at <= Len(Opened) * BlocksPerFlush

\* Whenever text from beyond a block has come in between, a whole block had
\* been sent since the last time.
Strayed ==
  /\ reader.strays \subseteq 0 .. Len(reader.sent)
  /\ \A p, q \in reader.strays : p < q => q - p >= BlockCells

IndInv == Types /\ Room /\ Places /\ Measured /\ Reading /\ Strayed /\ LinesKept

-----------------------------------------------------------------------------
(* The buffer *)

LEMMA LongestFits ==
  /\ Longest \in 0 .. BuffCells
  /\ PerFlush * Longest < BuffCells
  /\ \A k \in OutputCells, t \in Behind :
        Appended(k, t) \in Nat /\ Appended(k, t) <= Longest
<1>1. /\ Longest \in TempCells .. BuffCells /\ PerFlush * Longest < BuffCells
      /\ \A t \in Behind : TempCells + t <= Longest
  BY RoomAssumption DEF Longest
<1>2. /\ TempCells \in Nat /\ BuffCells \in Nat
      /\ OutputCells \subseteq Nat /\ Behind \subseteq Nat
  BY SizesAssumption
<1> HIDE DEF Longest
<1>3. ASSUME NEW k \in OutputCells, NEW t \in Behind
      PROVE  Appended(k, t) \in Nat /\ Appended(k, t) <= Longest
  <2>1. k \in Nat /\ t \in Nat /\ TempCells + t <= Longest
    BY <1>1, <1>2
  <2> QED
    BY <1>1, <1>2, <2>1 DEF Appended
<1> QED
  BY <1>1, <1>2, <1>3

\* As many measurements as are ever made between two flushes fit.
LEMMA RoomLeft ==
  ASSUME NEW m \in 0 .. PerFlush
  PROVE  m * Longest \in Nat /\ m * Longest < BuffCells
<1>1. Longest \in Nat /\ PerFlush \in Nat /\ BuffCells \in Nat
  BY LongestFits, SizesAssumption
<1>2. m * Longest \in Nat /\ m * Longest <= PerFlush * Longest
  BY <1>1
<1>3. PerFlush * Longest \in Nat
  BY <1>1
<1> QED
  BY <1>1, <1>2, <1>3, LongestFits

\* The end of the text is the first NUL, wherever that is.
LEMMA TextEndIs ==
  ASSUME NEW b \in [1 .. BuffCells -> Nat], NEW e \in 0 .. BuffCells - 1, EndsAt(b, e)
  PROVE  TextEnd(b) = e
<1>1. Len(b) = BuffCells
  BY SizesAssumption
<1> DEFINE End(i) == /\ \A j \in 1 .. i : b[j] # 0
                     /\ i < BuffCells => b[i + 1] = 0
<1>2. End(e) /\ e \in 0 .. BuffCells
  BY SizesAssumption DEF EndsAt
<1>3. ASSUME NEW i \in 0 .. BuffCells, End(i)
      PROVE  i = e
  <2>1. ~(i < e)
    BY <1>2, <1>3, SizesAssumption DEF EndsAt
  <2>2. ~(e < i)
    BY <1>2, <1>3, SizesAssumption DEF EndsAt
  <2> QED
    BY <2>1, <2>2, SizesAssumption
<1> QED
  BY <1>1, <1>2, <1>3 DEF TextEnd

\* strcat moves the end by the length of the line and touches nothing else.
LEMMA StrcatEnds ==
  ASSUME NEW b \in [1 .. BuffCells -> Nat], NEW e \in Nat, NEW k \in Nat,
         NEW x \in Nat \ {0}, EndsAt(b, e), e + k < BuffCells
  PROVE  /\ EndsAt(Strcat(b, x, k), e + k)
         /\ Strcat(b, x, k) \in [1 .. BuffCells -> Nat]
         /\ \A i \in 1 .. BuffCells : Strcat(b, x, k)[i] \in {x, 0, b[i]}
<1>1. TextEnd(b) = e
  BY TextEndIs, SizesAssumption
<1> QED
  BY <1>1, SizesAssumption DEF Strcat, EndsAt

LEMMA EmptyEnds == BuffCells > 0 /\ EndsAt(Empty, 0)
<1>1. BuffCells > 0
  BY RoomLeft, SizesAssumption
<1> QED
  BY <1>1, SizesAssumption DEF EndsAt, Empty

-----------------------------------------------------------------------------
(* The blocks of a file *)

LEMMA BlocksFill ==
  /\ BlocksPerFlush \in Nat \ {0}
  /\ BlocksPerFlush * BlockCells = BuffCells
<1>1. BuffCells \in Nat /\ BuffCells > 0 /\ BlockCells \in Nat /\ BlockCells > 0
      /\ BuffCells % BlockCells = 0
  BY EmptyEnds, SizesAssumption
<1> DEFINE q == BuffCells \div BlockCells
<1>2. q \in Int /\ BuffCells = BlockCells * q + (BuffCells % BlockCells)
  BY <1>1
<1> HIDE DEF q
<1>3. BlockCells * q = BuffCells /\ q \in Int
  BY <1>1, <1>2
<1>4. ~(q <= 0)
  BY <1>1, <1>3
<1>5. q * BlockCells = BuffCells
  BY <1>1, <1>3
<1> QED
  BY <1>3, <1>4, <1>5 DEF BlocksPerFlush, q

\* Block k of a file of l flushes, counted from 0, is one of a flush.
LEMMA BlockPlace ==
  ASSUME NEW l \in Nat, NEW k \in Nat, k < l * BlocksPerFlush
  PROVE  LET c == k \div BlocksPerFlush + 1
             from == (k % BlocksPerFlush) * BlockCells
         IN /\ c \in 1 .. l /\ from \in Nat /\ from + BlockCells <= BuffCells
            /\ from = k * BlockCells - (c - 1) * BuffCells
<1> DEFINE B == BlocksPerFlush
           q == k \div B
           r == k % B
<1>1. /\ B \in Nat /\ B > 0 /\ B * BlockCells = BuffCells
      /\ BlockCells \in Nat /\ BlockCells > 0 /\ BuffCells \in Nat
  BY BlocksFill, SizesAssumption
<1>2. k < l * B
  OBVIOUS
<1> HIDE DEF B
<1>3. q \in Int /\ r \in 0 .. B - 1 /\ k = B * q + r
  BY <1>1
<1> HIDE DEF q, r
<1>4. q >= 0
  <2> SUFFICES ASSUME q <= 0 - 1 PROVE FALSE
    BY <1>3
  <2>1. B * q <= B * (0 - 1)
    BY <1>1, <1>3
  <2> QED
    BY <1>1, <1>3, <2>1
<1>5. q < l
  <2> SUFFICES ASSUME l <= q PROVE FALSE
    BY <1>3
  <2>1. l * B <= B * q
    BY <1>1, <1>3
  <2> QED
    BY <1>1, <1>2, <1>3, <2>1
<1>6. r * BlockCells \in Nat /\ r * BlockCells + BlockCells <= BuffCells
  <2>1. r + 1 <= B /\ r \in Nat
    BY <1>1, <1>3
  <2>2. (r + 1) * BlockCells <= B * BlockCells
    BY <1>1, <2>1
  <2> QED
    BY <1>1, <2>1, <2>2
<1>7. r * BlockCells = k * BlockCells - q * BuffCells
  <2>1. k * BlockCells = (B * q) * BlockCells + r * BlockCells
    BY <1>1, <1>3
  <2>2. (B * q) * BlockCells = q * (B * BlockCells)
    BY <1>1, <1>3
  <2>3. (B * q) * BlockCells = q * BuffCells
    BY <1>1, <2>2
  <2>4. q * BuffCells \in Int /\ r * BlockCells \in Int
    BY <1>1, <1>3
  <2> QED
    BY <2>1, <2>3, <2>4
<1>8. q + 1 \in 1 .. l /\ (q + 1) - 1 = q
  BY <1>3, <1>4, <1>5
<1> QED
  BY <1>6, <1>7, <1>8 DEF B, q, r

\* There is a first NUL, or none.
LEMMA TextEndFound ==
  ASSUME NEW m \in Nat, NEW b \in [1 .. m -> Nat]
  PROVE  /\ TextEnd(b) \in 0 .. m
         /\ \A j \in 1 .. TextEnd(b) : b[j] # 0
         /\ TextEnd(b) < m => b[TextEnd(b) + 1] = 0
<1>1. Len(b) = m
  OBVIOUS
<1> DEFINE Z == {i \in 0 .. m : i < m => b[i + 1] = 0}
<1>2. m \in Z /\ Z \subseteq Nat
  OBVIOUS
<1>3. PICK i \in Z : \A j \in Z : ~(<<j, i>> \in OpToRel(<, Nat))
  <2> HIDE DEF Z
  <2> QED
    BY <1>2, NatLessThanWellFounded, WFMin
<1>4. \A j \in Z : ~(j < i)
  BY <1>2, <1>3 DEF OpToRel
<1>5. \A j \in 1 .. i : b[j] # 0
  <2> SUFFICES ASSUME NEW j \in 1 .. i, b[j] = 0 PROVE FALSE
    OBVIOUS
  <2>1. j - 1 \in Z /\ j - 1 < i
    OBVIOUS
  <2> QED
    BY <1>4, <2>1
<1>6. i \in 0 .. m /\ (i < m => b[i + 1] = 0)
  OBVIOUS
<1> QED
  BY <1>1, <1>5, <1>6 DEF TextEnd

\* A block is a stretch of its flush.
LEMMA BlockCellsOf ==
  ASSUME NEW f \in Seq(Flushes), NEW k \in Nat, k < Len(f) * BlocksPerFlush
  PROVE  LET from == (k % BlocksPerFlush) * BlockCells
         IN /\ Block(f, k) \in Seq(Nat) /\ Len(Block(f, k)) = BlockCells
            /\ \A i \in 1 .. BlockCells :
                  Block(f, k)[i] = f[k \div BlocksPerFlush + 1].cells[from + i]
<1> DEFINE g == f[k \div BlocksPerFlush + 1]
           from == (k % BlocksPerFlush) * BlockCells
           s == g.cells
<1>1. /\ k \div BlocksPerFlush + 1 \in 1 .. Len(f)
      /\ from \in Nat /\ from + BlockCells <= BuffCells
  BY BlockPlace
<1>2. s \in [1 .. BuffCells -> Nat]
  <2>1. g \in Flushes
    BY <1>1
  <2> QED
    BY <2>1 DEF Flushes
<1>3. Block(f, k) = SubSeq(s, from + 1, from + BlockCells)
  BY DEF Block
<1> HIDE DEF s, from
<1>4. s \in Seq(Nat) /\ Len(s) = BuffCells /\ BlockCells \in Nat /\ BuffCells \in Nat
  BY <1>2, SizesAssumption
<1>5. /\ Block(f, k) \in Seq(Nat) /\ Len(Block(f, k)) = BlockCells
      /\ \A i \in 1 .. BlockCells : Block(f, k)[i] = s[from + i]
  BY <1>1, <1>3, <1>4
<1> QED
  BY <1>5 DEF s, from

\* What is sent of a block: a stretch of its flush, which the end of the text
\* alone cuts short if the block begins within the text.
LEMMA BlockText ==
  ASSUME NEW f \in Seq(Flushes), NEW k \in Nat, k < Len(f) * BlocksPerFlush
  PROVE  LET g == f[k \div BlocksPerFlush + 1]
             from == (k % BlocksPerFlush) * BlockCells
             t == Text(Block(f, k))
         IN /\ t \in Seq(Nat) /\ Len(t) <= BlockCells
            /\ \A i \in 1 .. Len(t) : t[i] = g.cells[from + i]
            /\ \A e \in Nat : EndsAt(g.cells, e) =>
                 \A p \in 1 .. BlockCells : from + p <= e => p <= Len(t)
<1> DEFINE g == f[k \div BlocksPerFlush + 1]
           from == (k % BlocksPerFlush) * BlockCells
           b == Block(f, k)
           t == Text(b)
<1>1. /\ k \div BlocksPerFlush + 1 \in 1 .. Len(f)
      /\ from \in Nat /\ from + BlockCells <= BuffCells
  BY BlockPlace
<1>2. g.cells \in [1 .. BuffCells -> Nat]
  <2>1. g \in Flushes
    BY <1>1
  <2> QED
    BY <2>1 DEF Flushes
<1>4. /\ BlockCells \in Nat /\ BuffCells \in Nat
  BY SizesAssumption
<1>3. /\ b \in Seq(Nat) /\ Len(b) = BlockCells
      /\ \A i \in 1 .. BlockCells : b[i] = g.cells[from + i]
  BY BlockCellsOf
<1> HIDE DEF g, from, b
<1>5. /\ b \in [1 .. BlockCells -> Nat]
      /\ \A i \in 1 .. BlockCells : b[i] = g.cells[from + i]
  BY <1>3, <1>4
<1>6. /\ TextEnd(b) \in 0 .. BlockCells
      /\ TextEnd(b) < BlockCells => b[TextEnd(b) + 1] = 0
  BY <1>4, <1>5, TextEndFound
<1> DEFINE m == TextEnd(b)
<1>7. t = SubSeq(b, 1, m)
  BY DEF Text
<1> HIDE DEF m, t
<1>8. /\ t \in Seq(Nat) /\ Len(t) = m /\ m \in 0 .. BlockCells
      /\ \A i \in 1 .. m : t[i] = b[i]
  <2>1. b \in Seq(Nat) /\ Len(b) = BlockCells
    BY <1>4, <1>5
  <2>2. m \in 0 .. BlockCells
    BY <1>6 DEF m
  <2> QED
    BY <1>4, <1>7, <2>1, <2>2
<1>9. ASSUME NEW e \in Nat, EndsAt(g.cells, e),
             NEW p \in 1 .. BlockCells, from + p <= e
      PROVE  p <= m
  <2> SUFFICES ASSUME m < p PROVE FALSE
    BY <1>4, <1>8
  <2>1. b[m + 1] = 0 /\ m + 1 \in 1 .. BlockCells
    BY <1>4, <1>6, <1>8 DEF m
  <2>2. g.cells[from + (m + 1)] = 0 /\ from + (m + 1) \in 1 .. e
    BY <1>1, <1>4, <1>5, <1>8, <1>9, <2>1
  <2> QED
    BY <1>9, <2>2 DEF EndsAt
<1> QED
  BY <1>4, <1>5, <1>8, <1>9 DEF g, from, b, t

-----------------------------------------------------------------------------
(* The lines of a log *)

LEMMA LinesOfAppended ==
  ASSUME NEW l \in Seq(Flushes), NEW f \in Flushes
  PROVE  LinesOf(Append(l, f)) = LinesOf(l) \union f.lines
<1>1. /\ DOMAIN Append(l, f) = 1 .. Len(l) + 1 /\ DOMAIN l = 1 .. Len(l) /\ Len(l) \in Nat
      /\ \A i \in 1 .. Len(l) : Append(l, f)[i] = l[i]
      /\ Append(l, f)[Len(l) + 1] = f
  BY AppendProperties
<1> QED
  BY <1>1 DEF LinesOf

LEMMA LinesOfMissing == LinesOf(Missing) = {}
  BY DEF LinesOf, Missing

-----------------------------------------------------------------------------
(* The invariant *)

\* A listener that has read nothing, and one whose file has not changed.
LEMMA ClosedListens == Closed \in ListenerStates
<1>1. <<>> \in Seq(Flushes) /\ <<>> \in Seq(Nat)
  OBVIOUS
<1> QED
  BY <1>1 DEF Closed, ListenerStates

LEMMA ReadingClosed == ASSUME reader' = Closed PROVE Reading' /\ Strayed'
<1>1. Reading'
  BY BlocksFill DEF Reading, Opened, Closed
<1>2. Strayed'
  BY DEF Strayed, Closed
<1> QED
  BY <1>1, <1>2

LEMMA ReadingKept ==
  ASSUME IndInv, UNCHANGED <<log, reader>>
  PROVE  Reading' /\ Strayed'
  BY DEF IndInv, Reading, Strayed, Opened

LEMMA InitIndInv == Init => IndInv
<1> SUFFICES ASSUME Init
             PROVE  IndInv
  OBVIOUS
<1>1. IsFiniteSet({}) /\ Cardinality({}) = 0
  BY FS_EmptySet
<1>2. Len(line) = 0 /\ line \in Seq(Nat)
  BY DEF Init
<1>3. LinesOf(log) = {} /\ Archived = {}
  BY LinesOfMissing DEF Init, Archived
<1>4. Types
  <2>1. reader \in ListenerStates
    BY ClosedListens DEF Init
  <2> QED
    BY <1>1, <1>2, <2>1, SizesAssumption DEF Init, Types, Empty, Missing, Lines
<1>5. Room
  BY EmptyEnds, RoomLeft, SizesAssumption DEF Init, Room
<1>6. Places
  BY SizesAssumption DEF Init, Places
<1>7. LinesKept
  BY <1>2, <1>3 DEF Init, LinesKept, Lines, Archived
<1>8. Reading /\ Strayed
  <2>1. Reading
    BY BlocksFill DEF Init, Reading, Opened, Closed
  <2>2. Strayed
    BY DEF Init, Strayed, Closed
  <2> QED
    BY <2>1, <2>2
<1> QED
  BY <1>3, <1>4, <1>5, <1>6, <1>7, <1>8 DEF IndInv, Measured

LEMMA MeasureStep ==
  ASSUME IndInv, NEW r \in OutputCells, NEW t \in Behind, Measure(r, t)
  PROVE  IndInv'
<1> DEFINE x == Len(line) + 1
           k == Appended(r, t)
<1>0. k \in Nat /\ k <= Longest /\ line' = Append(line, k) /\ buff' = Strcat(buff, x, k)
  BY LongestFits DEF Measure
<1> HIDE DEF k
<1>1. /\ Len(line) \in Nat /\ x \in Nat \ {0} /\ k \in Nat /\ k <= Longest
      /\ Longest \in Nat /\ PerFlush \in Nat /\ n \in Nat /\ n < PerFlush
  BY <1>0, LongestFits, SizesAssumption DEF Measure, IndInv, Types, Places
<1>2. line' \in Seq(Nat) /\ Len(line') = x /\ Lines' = Lines \union {x} /\ x \notin Lines
  BY <1>0, <1>1 DEF IndInv, Types, Lines
<1> HIDE DEF x
<1>3. /\ n' = n + 1 /\ held' = held \union {x} /\ buff' = Strcat(buff, x, k)
      /\ pc = "measure" /\ pc' = IF n + 1 = PerFlush THEN "flush" ELSE "measure"
      /\ UNCHANGED <<log, archive, reader, starts, lost>>
  BY <1>0 DEF Measure, x
<1>4. PICK e \in 0 .. n * Longest : EndsAt(buff, e)
  BY DEF IndInv, Room
<1>5. /\ (n + 1) * Longest \in Nat /\ (n + 1) * Longest < BuffCells
      /\ n * Longest \in Nat /\ n * Longest < BuffCells
  <2>1. n \in 0 .. PerFlush /\ n + 1 \in 0 .. PerFlush
    BY <1>1
  <2> QED
    BY <2>1, RoomLeft
<1>6. (n + 1) * Longest = n * Longest + Longest
  BY <1>1
<1>7. e \in Nat /\ e + k \in 0 .. (n + 1) * Longest /\ e + k < BuffCells
  BY <1>1, <1>4, <1>5, <1>6, SizesAssumption
<1>8. buff \in [1 .. BuffCells -> Nat] /\ buff \in [1 .. BuffCells -> 0 .. Len(line)]
  BY <1>1 DEF IndInv, Types
<1>9. /\ EndsAt(buff', e + k)
      /\ buff' \in [1 .. BuffCells -> Nat]
      /\ \A i \in 1 .. BuffCells : buff'[i] \in {x, 0, buff[i]}
  BY <1>1, <1>3, <1>4, <1>7, <1>8, StrcatEnds
<1>10. Room'
  BY <1>3, <1>7, <1>9 DEF Room
<1>11. buff' \in [1 .. BuffCells -> 0 .. Len(line')]
  BY <1>1, <1>2, <1>8, <1>9 DEF x
<1>12. IsFiniteSet(held') /\ Cardinality(held') = n + 1 /\ held' \subseteq Lines'
  BY <1>2, <1>3, FS_AddElement DEF IndInv, Types
<1>13. Types'
  BY <1>1, <1>2, <1>3, <1>11, <1>12 DEF IndInv, Types
<1>14. LinesOf(log)' = LinesOf(log) /\ Archived' = Archived
  BY <1>3 DEF LinesOf, Archived
<1>15. Places'
  BY <1>1, <1>3 DEF Places
<1>16. Measured'
  BY <1>2, <1>14 DEF IndInv, Measured
<1>17. LinesKept'
  BY <1>2, <1>3, <1>14 DEF IndInv, LinesKept, Measured, Archived
<1> QED
  BY <1>3, <1>10, <1>13, <1>15, <1>16, <1>17, ReadingKept DEF IndInv

LEMMA FlushStep ==
  ASSUME IndInv, Flush
  PROVE  IndInv'
<1> DEFINE f == [cells |-> buff, lines |-> held]
<1>1. /\ log' = Append(log, f) /\ buff' = [buff EXCEPT ![1] = 0]
      /\ held' = {} /\ n' = 0 /\ pc' = "test" /\ pc = "flush"
      /\ UNCHANGED <<line, archive, reader, starts, lost>>
  BY DEF Flush, Written, Emptied
<1>2. f \in Flushes /\ f.lines = held
  BY DEF IndInv, Types, Flushes, Lines
<1> HIDE DEF f
<1>3. /\ log' \in Seq(Flushes) /\ log' # Missing
      /\ LinesOf(log)' = LinesOf(log) \union held
  <2>1. log \in Seq(Flushes)
    BY DEF IndInv, Types
  <2>2. LinesOf(Append(log, f)) = LinesOf(log) \union held
    BY <1>2, <2>1, LinesOfAppended
  <2>3. Append(log, f) \in Seq(Flushes) /\ Append(log, f) # <<>>
    BY <1>2, <2>1, AppendProperties
  <2> QED
    BY <1>1, <2>2, <2>3 DEF Missing, LinesOf
<1>4. /\ Archived' = Archived /\ Lines' = Lines
  BY <1>1 DEF Archived, LinesOf, Lines
<1>5. EndsAt(buff', 0) /\ buff' \in [1 .. BuffCells -> 0 .. Len(line)]
  BY <1>1, EmptyEnds, SizesAssumption DEF IndInv, Types, EndsAt
<1>6. 0 \in 0 .. 0 * Longest
  BY RoomLeft, SizesAssumption
<1>7. Room'
  BY <1>1, <1>5, <1>6 DEF Room
<1>8. Types'
  BY <1>1, <1>3, <1>4, <1>5, FS_EmptySet, SizesAssumption DEF IndInv, Types
<1>9. Places'
  BY <1>1, <1>3, SizesAssumption DEF Places
<1>10. Measured'
  BY <1>3, <1>4 DEF IndInv, Measured, Types
<1>11. LinesKept'
  BY <1>1, <1>3, <1>4 DEF IndInv, LinesKept, Archived
<1>12. Reading'
  <2>1. Len(log) \in Nat /\ Len(log') = Len(log) + 1
    BY <1>1, <1>2, AppendProperties DEF IndInv, Types
  <2>2. Len(log) * BlocksPerFlush <= Len(log') * BlocksPerFlush
    BY <2>1, BlocksFill
  <2>3. Len(log) * BlocksPerFlush \in Nat /\ Len(log') * BlocksPerFlush \in Nat
        /\ reader.at \in Nat
    BY <2>1, BlocksFill DEF IndInv, Types, ListenerStates
  <2> QED
    BY <1>1, <2>2, <2>3 DEF IndInv, Reading, Opened
<1>13. Strayed'
  BY <1>1 DEF IndInv, Strayed
<1> QED
  BY <1>7, <1>8, <1>9, <1>10, <1>11, <1>12, <1>13 DEF IndInv

\* The steps that leave buffer and lines alone.
LEMMA BuffKept ==
  ASSUME IndInv, UNCHANGED <<n, buff, held, line>>
  PROVE  /\ Room' /\ Lines' = Lines
  BY DEF IndInv, Room, Lines

LEMMA TestStep ==
  ASSUME IndInv, Test
  PROVE  IndInv'
<1>1. LinesOf(log)' = LinesOf(log) /\ Archived' = Archived
  BY DEF Test, LinesOf, Archived
<1>2. Room' /\ Lines' = Lines
  BY BuffKept DEF Test
<1>3. Types'
  BY <1>2 DEF Test, IndInv, Types
<1>4. Places'
  BY SizesAssumption DEF Test, IndInv, Places
<1>5. Measured' /\ LinesKept'
  BY <1>1, <1>2 DEF Test, IndInv, Measured, LinesKept, Archived
<1> QED
  BY <1>2, <1>3, <1>4, <1>5, ReadingKept DEF IndInv, Test

\* Whether tar succeeds or not, the log's lines are accounted for.
LEMMA TarStep ==
  ASSUME IndInv, Tar \/ TarFails
  PROVE  IndInv'
<1>1. Room' /\ Lines' = Lines
  BY BuffKept DEF Tar, TarFails
<1>2. pc = "tar" /\ pc' = "remove" /\ UNCHANGED <<n, buff, held, line, log, reader, starts>>
  BY DEF Tar, TarFails
<1>3. LinesOf(log)' = LinesOf(log)
  BY <1>2 DEF LinesOf
<1>4. \/ Archived' = Archived \union LinesOf(log) /\ lost' = lost
      \/ Archived' = Archived /\ lost' = lost \union LinesOf(log)
  <2>1. CASE Tar
    BY <2>1 DEF Tar, Archived, LinesOf
  <2>2. CASE TarFails
    BY <2>2 DEF TarFails, Archived, LinesOf
  <2> QED
    BY <2>1, <2>2
<1>5. Types'
  BY <1>1, <1>2 DEF Tar, TarFails, IndInv, Types
<1>6. Places'
  BY <1>2, <1>3, <1>4 DEF IndInv, Places
<1>7. Measured'
  BY <1>1, <1>3, <1>4 DEF IndInv, Measured
<1>8. LinesKept'
  BY <1>1, <1>2, <1>3, <1>4 DEF IndInv, LinesKept, Archived
<1> QED
  BY <1>1, <1>2, <1>5, <1>6, <1>7, <1>8, ReadingKept DEF IndInv

LEMMA RemoveStep ==
  ASSUME IndInv, Remove
  PROVE  IndInv'
<1>1. Room' /\ Lines' = Lines
  BY BuffKept DEF Remove
<1>2. /\ pc = "remove" /\ pc' = "measure" /\ log' = Missing
      /\ UNCHANGED <<n, buff, held, line, archive, starts, lost>>
  BY DEF Remove
<1>3. LinesOf(log)' = {} /\ Archived' = Archived
  BY <1>2, LinesOfMissing DEF LinesOf, Archived
<1>4. reader' \in ListenerStates
  BY DEF Remove, IndInv, Types, ListenerStates
<1>5. Types'
  BY <1>1, <1>2, <1>4 DEF IndInv, Types, Missing
<1>6. Places'
  BY <1>2, SizesAssumption DEF IndInv, Places, Types
<1>7. Measured' /\ LinesKept'
  BY <1>1, <1>2, <1>3 DEF IndInv, Measured, Places, LinesKept, Archived
<1>8. Reading' /\ Strayed'
  <2>1. /\ Opened' = Opened /\ reader'.at = reader.at
        /\ reader'.sent = reader.sent /\ reader'.strays = reader.strays
    BY DEF Remove, Opened, IndInv, Types, ListenerStates
  <2> QED
    BY <2>1 DEF IndInv, Reading, Strayed
<1> QED
  BY <1>1, <1>5, <1>6, <1>7, <1>8 DEF IndInv

\* The buffer of a process that is stopped is gone, and the new one's empty.
LEMMA StartsStep ==
  ASSUME IndInv, StartsAgain
  PROVE  IndInv'
<1>1. /\ pc' = "measure" /\ n' = 0 /\ buff' = Empty /\ held' = {} /\ starts' = starts + 1
      /\ lost' = lost \union held /\ reader' = Closed
      /\ UNCHANGED <<line, log, archive>>
  BY DEF StartsAgain
<1>2. LinesOf(log)' = LinesOf(log) /\ Archived' = Archived /\ Lines' = Lines
  BY <1>1 DEF LinesOf, Archived, Lines
<1>3. 0 \in 0 .. 0 * Longest
  BY RoomLeft, SizesAssumption
<1>4. Room'
  BY <1>1, <1>3, EmptyEnds DEF Room
<1>5. Empty \in [1 .. BuffCells -> 0 .. Len(line)]
  BY DEF Empty, IndInv, Types
<1>6. Types'
  BY <1>1, <1>2, <1>5, ClosedListens, FS_EmptySet, SizesAssumption DEF IndInv, Types
<1>7. Places'
  BY <1>1, SizesAssumption DEF Places
<1>8. Measured'
  BY <1>2 DEF IndInv, Measured
<1>9. LinesKept'
  BY <1>1, <1>2 DEF IndInv, LinesKept, Types, Archived
<1> QED
  BY <1>1, <1>4, <1>6, <1>7, <1>8, <1>9, ReadingClosed DEF IndInv

\* What a block adds to what has been sent.
LEMMA ReadSends ==
  ASSUME IndInv, ReadBlock
  PROVE  /\ Opened \in Seq(Flushes) /\ reader.at \in Nat
         /\ reader.at < Len(Opened) * BlocksPerFlush
         /\ reader'.at = reader.at + 1 /\ reader'.file = reader.file /\ reader'.text = reader.text
         /\ reader'.sent = reader.sent \o Text(Block(Opened, reader.at))
         /\ reader' \in ListenerStates /\ Strayed'
<1> DEFINE b == Block(Opened, reader.at)
           t == Text(b)
           now == reader.sent \o t
<1>1. Opened \in Seq(Flushes) /\ reader.at \in Nat /\ reader.sent \in Seq(Nat)
  BY DEF IndInv, Types, Opened, ListenerStates
<1>2. Len(Opened) * BlocksPerFlush \in Nat
  BY <1>1, BlocksFill
<1>3. reader.at < Len(Opened) * BlocksPerFlush
  BY <1>1, <1>2 DEF ReadBlock, AtEnd, IndInv, Reading
<1>4. t \in Seq(Nat) /\ (TextEnd(b) = BlockCells => Len(t) = BlockCells)
  <2>1. t \in Seq(Nat)
    BY <1>1, <1>3, BlockText
  <2>2. b \in Seq(Nat) /\ Len(b) = BlockCells
    BY <1>1, <1>3, BlockCellsOf
  <2> HIDE DEF b
  <2>3. ASSUME TextEnd(b) = BlockCells
        PROVE  Len(t) = BlockCells
    <3>1. t = SubSeq(b, 1, BlockCells) /\ BlockCells \in Nat
      BY <2>3, SizesAssumption DEF Text
    <3> QED
      BY <2>2, <3>1
  <2> QED
    BY <2>1, <2>3
<1>5. PICK more \in Beyond :
        reader' = [reader EXCEPT !.at = @ + 1, !.sent = now,
                     !.strays = IF more /\ TextEnd(b) = BlockCells THEN @ \union {Len(now)}
                                                                   ELSE @]
  BY DEF ReadBlock
<1>6. /\ now \in Seq(Nat) /\ Len(now) \in Nat /\ Len(reader.sent) \in Nat
      /\ Len(now) = Len(reader.sent) + Len(t) /\ Len(t) \in Nat
  <2> HIDE DEF t
  <2> QED
    BY <1>1, <1>4
<1> DEFINE old == reader.strays
           far == IF more /\ TextEnd(b) = BlockCells THEN old \union {Len(now)} ELSE old
<1>7. reader' = [reader EXCEPT !.at = reader.at + 1, !.sent = now, !.strays = far]
  BY <1>5
<1>8. /\ old \subseteq 0 .. Len(reader.sent) /\ old \subseteq Nat
      /\ \A p, q \in old : p < q => q - p >= BlockCells
  BY <1>6 DEF IndInv, Strayed
<1> HIDE DEF old
<1>9. /\ far \subseteq 0 .. Len(now) /\ far \subseteq Nat
      /\ \A p, q \in far : p < q => q - p >= BlockCells
  <2>1. CASE far = old
    <3> HIDE DEF far, t, now
    <3>1. old \subseteq 0 .. Len(now)
      BY <1>6, <1>8
    <3> QED
      BY <1>8, <2>1, <3>1
  <2>2. CASE far # old
    <3>1. far = old \union {Len(now)} /\ Len(t) = BlockCells
      BY <1>4, <2>2
    <3> HIDE DEF far, t, now
    <3>2. \A p \in old : p \in Nat /\ p <= Len(reader.sent)
      BY <1>6, <1>8
    <3>3. ASSUME NEW p \in far, NEW q \in far, p < q
          PROVE  q - p >= BlockCells
      <4>1. CASE p \in old /\ q \in old
        BY <1>8, <3>3, <4>1
      <4>2. CASE q = Len(now) /\ p \in old
        BY <1>6, <3>1, <3>2, <4>2, SizesAssumption
      <4>3. ~(p = Len(now))
        BY <1>6, <3>1, <3>2, <3>3
      <4> QED
        BY <3>1, <4>1, <4>2, <4>3
    <3>4. far \subseteq 0 .. Len(now)
      BY <1>6, <3>1, <3>2
    <3> QED
      BY <3>3, <3>4
  <2> QED
    BY <2>1, <2>2
<1> HIDE DEF now, far, t, b
<1>10. /\ reader'.at = reader.at + 1 /\ reader'.file = reader.file
       /\ reader'.text = reader.text /\ reader'.sent = now /\ reader'.strays = far
       /\ reader' \in ListenerStates
  <2>1. reader \in ListenerStates
    BY DEF IndInv, Types
  <2>2. reader' = [file |-> reader.file, text |-> reader.text, at |-> reader.at + 1,
                   sent |-> now, strays |-> far]
    BY <1>7, <2>1 DEF ListenerStates
  <2>3. reader' \in ListenerStates
    BY <1>1, <1>6, <1>9, <2>1, <2>2 DEF ListenerStates
  <2> QED
    BY <2>2, <2>3
<1>11. Strayed'
  BY <1>9, <1>10 DEF Strayed
<1> QED
  BY <1>1, <1>3, <1>10, <1>11 DEF now, t, b

LEMMA ListenerStep ==
  ASSUME IndInv, Open \/ ReadBlock \/ ReadEnds
  PROVE  IndInv'
<1>1. UNCHANGED <<process, log, archive, starts, lost>>
  BY DEF Open, ReadBlock, ReadEnds
<1>2. reader' \in ListenerStates
  <2>1. Closed \in ListenerStates
    BY ClosedListens
  <2>2. CASE Open
    <3>1. reader' = [Closed EXCEPT !.file = "log"]
      BY <2>2 DEF Open
    <3> QED
      BY <2>1, <3>1 DEF ListenerStates
  <2>3. CASE ReadBlock
    BY <2>3, ReadSends
  <2>4. CASE ReadEnds
    BY <2>1, <2>4 DEF ReadEnds
  <2> QED
    BY <2>2, <2>3, <2>4
<1>3. LinesOf(log)' = LinesOf(log) /\ Archived' = Archived
  BY <1>1 DEF LinesOf, Archived
<1>4. Room' /\ Lines' = Lines
  BY <1>1, BuffKept DEF process
<1>5. Reading' /\ Strayed'
  <2>1. CASE Open
    <3>1. Reading'
      BY <1>1, <2>1, BlocksFill DEF Open, Reading, Opened, Closed, IndInv, Types
    <3>2. Strayed'
      BY <2>1 DEF Open, Strayed, Closed
    <3> QED
      BY <3>1, <3>2
  <2>2. CASE ReadBlock
    <3>1. Opened' = Opened
      BY <1>1, <2>2, ReadSends DEF Opened
    <3>2. Len(Opened) * BlocksPerFlush \in Nat
      BY <2>2, ReadSends, BlocksFill
    <3> QED
      BY <2>2, <3>1, <3>2, ReadSends DEF Reading
  <2>3. CASE ReadEnds
    BY <2>3, ReadingClosed DEF ReadEnds
  <2> QED
    BY <2>1, <2>2, <2>3
<1> QED
  BY <1>1, <1>2, <1>3, <1>4, <1>5
     DEF process, IndInv, Types, Places, Measured, LinesKept, Archived

LEMMA StepIndInv == IndInv /\ [Next]_vars => IndInv'
<1> SUFFICES ASSUME IndInv, [Next]_vars
             PROVE  IndInv'
  OBVIOUS
<1>1. CASE UNCHANGED vars
  <2>1. /\ LinesOf(log)' = LinesOf(log) /\ Archived' = Archived
        /\ Room' /\ Lines' = Lines
    BY <1>1, BuffKept DEF vars, process, LinesOf, Archived
  <2>2. Reading' /\ Strayed'
    BY <1>1, ReadingKept DEF vars
  <2> QED
    BY <1>1, <2>1, <2>2 DEF vars, process, IndInv, Types, Places, Measured, LinesKept, Archived
<1> QED
  BY <1>1, MeasureStep, FlushStep, TestStep, TarStep, RemoveStep, StartsStep, ListenerStep
     DEF Next

\* The invariant the theorems below are read off.
THEOREM RotationInvariant == Spec => []IndInv
  BY InitIndInv, StepIndInv, PTL DEF Spec

\* Type correctness, and that strcat always finds room in buff for what it
\* appends and its NUL (client.c:240-258), whatever the scripts print and
\* earlier texts have left in buff, although a full temp is appended with what
\* stands behind it: it takes no more than that PerFlush times the size of temp
\* and the text behind it fit.
THEOREM BufferNeverOverflows == Spec => []TypeOK
<1>1. IndInv => TypeOK
  <2> SUFFICES ASSUME IndInv
               PROVE  TypeOK
    OBVIOUS
  <2>1. PICK e \in 0 .. n * Longest : EndsAt(buff, e)
    BY DEF IndInv, Room
  <2>2. n * Longest \in Nat /\ n * Longest < BuffCells
    BY RoomLeft DEF IndInv, Types
  <2>3. e \in 0 .. BuffCells - 1
    BY <2>1, <2>2, SizesAssumption
  <2>4. Len(line) \in Nat /\ buff \in [1 .. BuffCells -> 0 .. Len(line)]
    BY DEF IndInv, Types
  <2>5. TextEnd(buff) = e
    BY <2>1, <2>3, <2>4, TextEndIs
  <2> QED
    BY <2>3, <2>5, SizesAssumption DEF IndInv, Types, ListenerStates, Places, Measured, TypeOK
<1> QED
  BY <1>1, RotationInvariant, PTL

\* No line is lost or kept twice when a log is rotated, wherever the process
\* is stopped, except where LinesKept names it (client.c:255-270).
THEOREM NoLineLost == Spec => []LinesKept
<1>1. IndInv => LinesKept
  BY DEF IndInv
<1> QED
  BY <1>1, RotationInvariant, PTL

-----------------------------------------------------------------------------
(* What the listener sends.  The operators below are about any buffer b,   *)
(* flush g or file f, where l are the lines measured and h those held.     *)

\* Line x of k cells is whole within the first e cells of b, and what is in
\* front of it is older.
LineIn(b, e, x, k) ==
  \E s \in 0 .. e : /\ s + k <= e
                    /\ \A i \in 1 .. s : b[i] < x
                    /\ \A i \in 1 .. k : b[s + i] = x

\* The text of b holds the lines ls, and what is left behind it is older.
Holds(b, ls, l) ==
  LET e == TextEnd(b)
  IN /\ e \in 0 .. BuffCells - 1 /\ EndsAt(b, e)
     /\ \A x \in ls : /\ x \in 1 .. Len(l) /\ LineIn(b, e, x, l[x])
                      /\ \A i \in e + 1 .. BuffCells : b[i] < x

\* All that flush g wrote is older than line x.
Before(g, x) == \A i \in 1 .. BuffCells : g.cells[i] < x

\* Each flush of a file holds its lines, and nothing as new as the lines of a
\* later flush or of the buffer.
FileSound(f, l, h) ==
  /\ \A a \in 1 .. Len(f) : /\ Holds(f[a].cells, f[a].lines, l)
                            /\ \A i \in 1 .. BuffCells : f[a].cells[i] <= Len(l)
                            /\ \A x \in h : Before(f[a], x)
  /\ \A a, b \in 1 .. Len(f) : a < b => \A x \in f[b].lines : Before(f[a], x)

\* How much of flush a was read with at blocks; not positive before the
\* listener has come to it.
Got(at, a) == at * BlockCells - (a - 1) * BuffCells

\* Flush g has not been sent yet, or all of its text that was read is in what
\* has been sent, in one piece, behind older text.
Copied(g, got, sent) ==
  LET e == TextEnd(g.cells)
  IN \E o \in 0 .. Len(sent) :
       /\ \A i \in 1 .. o : \A x \in g.lines : sent[i] < x
       /\ got <= 0 => o = Len(sent)
       /\ \A p \in 1 .. e : p <= got => o + p <= Len(sent) /\ sent[o + p] = g.cells[p]
       /\ 0 <= got /\ got <= e => Len(sent) = o + got

SentOlder(sent, l, h) ==
  \A i \in 1 .. Len(sent) : sent[i] <= Len(l) /\ \A x \in h : sent[i] < x

SentInv ==
  /\ Holds(buff, held, line)
  /\ FileSound(log, line, held) /\ FileSound(Opened, line, held)
  /\ SentOlder(reader.sent, line, held)
  /\ \A a \in 1 .. Len(Opened) : Copied(Opened[a], Got(reader.at, a), reader.sent)

LEMMA StrcatHolds ==
  ASSUME NEW l \in Seq(Nat), NEW ls, ls \subseteq 1 .. Len(l),
         NEW b \in [1 .. BuffCells -> 0 .. Len(l)], Holds(b, ls, l),
         NEW k \in Nat, TextEnd(b) + k < BuffCells
  PROVE  Holds(Strcat(b, Len(l) + 1, k), ls \union {Len(l) + 1}, Append(l, k))
<1> DEFINE x == Len(l) + 1
           e == TextEnd(b)
           c == Strcat(b, x, k)
           m == Append(l, k)
<1>1. /\ e \in 0 .. BuffCells - 1 /\ EndsAt(b, e) /\ e + k < BuffCells
      /\ \A y \in ls : /\ y \in 1 .. Len(l) /\ LineIn(b, e, y, l[y])
                       /\ \A i \in e + 1 .. BuffCells : b[i] < y
  BY DEF Holds
<1>2. /\ Len(l) \in Nat /\ x \in Nat \ {0} /\ b \in [1 .. BuffCells -> Nat]
      /\ BuffCells \in Nat /\ x = Len(l) + 1
  BY SizesAssumption
<1>3. c = [i \in 1 .. BuffCells |-> IF i \in e + 1 .. e + k THEN x
                                   ELSE IF i = e + k + 1 THEN 0 ELSE b[i]]
  BY DEF Strcat
<1>4. Len(m) = x /\ m[x] = k /\ \A y \in 1 .. Len(l) : m[y] = l[y]
  BY <1>2, AppendProperties
<1> HIDE DEF x, e
<1>5. EndsAt(c, e + k) /\ c \in [1 .. BuffCells -> Nat]
  <2>1. /\ e \in Nat /\ EndsAt(b, e) /\ e + k < BuffCells
        /\ x \in Nat \ {0} /\ b \in [1 .. BuffCells -> Nat]
    BY <1>1, <1>2
  <2>2. EndsAt(Strcat(b, x, k), e + k) /\ Strcat(b, x, k) \in [1 .. BuffCells -> Nat]
    BY <2>1, StrcatEnds
  <2> QED
    BY <2>2
<1> HIDE DEF c, m
<1>6. TextEnd(c) = e + k /\ e + k \in 0 .. BuffCells - 1
  <2>1. e + k \in 0 .. BuffCells - 1
    BY <1>1, <1>2
  <2> QED
    BY <1>5, <2>1, TextEndIs
<1>7. ASSUME NEW y \in ls
      PROVE  /\ y \in 1 .. x /\ LineIn(c, e + k, y, m[y])
             /\ \A i \in e + k + 1 .. BuffCells : c[i] < y
  <2>1. y \in 1 .. Len(l) /\ m[y] = l[y] /\ l[y] \in Nat
    BY <1>1, <1>4
  <2>2. PICK s \in 0 .. e : /\ s + l[y] <= e
                            /\ \A i \in 1 .. s : b[i] < y
                            /\ \A i \in 1 .. l[y] : b[s + i] = y
    BY <1>1 DEF LineIn
  <2>3. \A i \in 1 .. e : c[i] = b[i]
    BY <1>1, <1>2, <1>3
  <2>4. LineIn(c, e + k, y, l[y])
    <3>1. s \in 0 .. e + k /\ s + l[y] <= e + k
      BY <1>1, <2>1, <2>2
    <3>2. e \in Nat /\ s \in Nat /\ s <= e /\ l[y] \in Nat /\ s + l[y] <= e
      BY <1>1, <2>1, <2>2
    <3>3. ASSUME NEW i \in 1 .. s
          PROVE  c[i] < y
      <4>1. i \in 1 .. e
        BY <3>2
      <4> QED
        BY <2>2, <2>3, <4>1
    <3>4. ASSUME NEW i \in 1 .. l[y]
          PROVE  c[s + i] = y
      <4>1. s + i \in 1 .. e
        BY <3>2
      <4> QED
        BY <2>2, <2>3, <4>1
    <3> QED
      BY <3>1, <3>3, <3>4 DEF LineIn
  <2>5. \A i \in e + k + 1 .. BuffCells : c[i] < y
    <3>1. \A i \in e + 1 .. BuffCells : b[i] < y
      BY <1>1
    <3>2. \A i \in e + k + 1 .. BuffCells : i \in e + 1 .. BuffCells /\ c[i] \in {0, b[i]}
      BY <1>1, <1>2, <1>3
    <3> QED
      BY <2>1, <3>1, <3>2
  <2> QED
    BY <1>2, <2>1, <2>4, <2>5
<1>8. LineIn(c, e + k, x, m[x])
  <2>1. \A i \in 1 .. e : c[i] < x
    BY <1>1, <1>2, <1>3
  <2>2. \A i \in 1 .. k : c[e + i] = x
    BY <1>1, <1>2, <1>3
  <2>3. e \in 0 .. e + k /\ e + k <= e + k
    BY <1>1
  <2> QED
    BY <1>4, <2>1, <2>2, <2>3 DEF LineIn
<1>9. \A i \in e + k + 1 .. BuffCells : c[i] < x
  BY <1>1, <1>2, <1>3
<1>10. Holds(c, ls \union {x}, m)
  <2> DEFINE t == TextEnd(c)
  <2>1. t = e + k /\ t \in 0 .. BuffCells - 1
    BY <1>6
  <2> HIDE DEF t
  <2>2. EndsAt(c, t)
    BY <1>5, <2>1
  <2>3. ASSUME NEW y \in ls \union {x}
        PROVE  /\ y \in 1 .. Len(m) /\ LineIn(c, t, y, m[y])
               /\ \A i \in t + 1 .. BuffCells : c[i] < y
    <3>1. CASE y \in ls
      BY <1>4, <1>7, <2>1, <3>1
    <3>2. CASE y = x
      <4>1. x \in 1 .. Len(m)
        BY <1>2, <1>4
      <4> QED
        BY <1>8, <1>9, <2>1, <3>2, <4>1
    <3> QED
      BY <3>1, <3>2
  <2> QED
    BY <2>1, <2>2, <2>3 DEF Holds, t
<1> QED
  BY <1>10 DEF c, m, x

LEMMA NothingHeld ==
  ASSUME NEW b \in [1 .. BuffCells -> Nat], EndsAt(b, 0), NEW l
  PROVE  Holds(b, {}, l)
<1>1. TextEnd(b) = 0 /\ 0 \in 0 .. BuffCells - 1
  BY EmptyEnds, TextEndIs, SizesAssumption
<1> QED
  BY <1>1 DEF Holds

\* Another line is newer than all that was written; it may be held or not.
LEMMA FileMeasured ==
  ASSUME NEW f \in Seq(Flushes), NEW l \in Seq(Nat), NEW h, FileSound(f, l, h), NEW k \in Nat
  PROVE  FileSound(f, Append(l, k), h \union {Len(l) + 1})
<1> DEFINE m == Append(l, k)
<1>1. Len(l) \in Nat /\ Len(m) = Len(l) + 1 /\ \A y \in 1 .. Len(l) : m[y] = l[y]
  BY AppendProperties
<1> HIDE DEF m
<1>2. ASSUME NEW a \in 1 .. Len(f)
      PROVE  /\ Holds(f[a].cells, f[a].lines, m)
             /\ \A i \in 1 .. BuffCells : f[a].cells[i] <= Len(m)
             /\ \A x \in h \union {Len(l) + 1} : Before(f[a], x)
  <2>1. f[a].cells \in [1 .. BuffCells -> Nat]
    <3>1. f[a] \in Flushes
      OBVIOUS
    <3> QED
      BY <3>1 DEF Flushes
  <2>2. /\ Holds(f[a].cells, f[a].lines, l)
        /\ \A i \in 1 .. BuffCells : f[a].cells[i] <= Len(l)
        /\ \A x \in h : Before(f[a], x)
    BY Zenon DEF FileSound
  <2>3. Holds(f[a].cells, f[a].lines, m)
    BY <1>1, <2>2 DEF Holds
  <2>4. \A i \in 1 .. BuffCells : f[a].cells[i] <= Len(m) /\ f[a].cells[i] < Len(l) + 1
    <3> DEFINE c == f[a].cells
    <3>1. c \in [1 .. BuffCells -> Nat] /\ \A i \in 1 .. BuffCells : c[i] <= Len(l)
      BY <2>1, <2>2
    <3> HIDE DEF c
    <3>2. \A i \in 1 .. BuffCells : c[i] <= Len(m) /\ c[i] < Len(l) + 1
      BY <1>1, <3>1
    <3> QED
      BY <3>2 DEF c
  <2> QED
    BY <2>2, <2>3, <2>4 DEF Before
<1> QED
  BY <1>2 DEF FileSound, m

\* A flush takes the lines of the buffer to the file.
LEMMA FileFlushed ==
  ASSUME NEW f \in Seq(Flushes), NEW l, NEW g \in Flushes, FileSound(f, l, g.lines),
         Holds(g.cells, g.lines, l), \A i \in 1 .. BuffCells : g.cells[i] <= Len(l)
  PROVE  FileSound(Append(f, g), l, {})
<1> DEFINE m == Append(f, g)
<1>1. /\ Len(f) \in Nat /\ Len(m) = Len(f) + 1 /\ m[Len(f) + 1] = g
      /\ \A a \in 1 .. Len(f) : m[a] = f[a]
  BY AppendProperties
<1> HIDE DEF m
<1>2. ASSUME NEW a \in 1 .. Len(m)
      PROVE  /\ Holds(m[a].cells, m[a].lines, l)
             /\ \A i \in 1 .. BuffCells : m[a].cells[i] <= Len(l)
  <2>1. CASE a = Len(f) + 1
    BY <1>1, <2>1
  <2>2. CASE a \in 1 .. Len(f)
    BY <1>1, <2>2 DEF FileSound
  <2> QED
    BY <1>1, <2>1, <2>2
<1>3. ASSUME NEW a \in 1 .. Len(m), NEW b \in 1 .. Len(m), a < b, NEW x \in m[b].lines
      PROVE  Before(m[a], x)
  <2>1. a \in 1 .. Len(f) /\ m[a] = f[a]
    BY <1>1, <1>3
  <2>2. CASE b = Len(f) + 1
    <3>1. x \in g.lines
      BY <1>1, <1>3, <2>2
    <3> QED
      BY <2>1, <3>1 DEF FileSound
  <2>3. CASE b \in 1 .. Len(f)
    <3>1. x \in f[b].lines
      BY <1>1, <1>3, <2>3
    <3> QED
      BY <1>3, <2>1, <2>3, <3>1 DEF FileSound
  <2> QED
    BY <1>1, <2>2, <2>3
<1> QED
  BY <1>2, <1>3 DEF FileSound, m

LEMMA FileUnheld ==
  ASSUME NEW f, NEW l, NEW h, FileSound(f, l, h)
  PROVE  FileSound(f, l, {})
BY DEF FileSound

\* What has been sent of flush g once block t has been sent behind it: g has
\* been read before, t is a block of g, or g is not read yet and t is older.
LEMMA CopiedBefore ==
  ASSUME NEW g, NEW got \in Int, NEW sent \in Seq(Nat), NEW t \in Seq(Nat),
         Copied(g, got, sent), TextEnd(g.cells) \in 0 .. BuffCells - 1, got >= BuffCells
  PROVE  Copied(g, got + BlockCells, sent \o t)
<1> DEFINE e == TextEnd(g.cells)
           now == sent \o t
<1>1. PICK o \in 0 .. Len(sent) :
        /\ \A i \in 1 .. o : \A x \in g.lines : sent[i] < x
        /\ \A p \in 1 .. e : p <= got => o + p <= Len(sent) /\ sent[o + p] = g.cells[p]
  BY DEF Copied
<1>2. BlockCells \in Nat /\ BuffCells \in Nat /\ Len(sent) \in Nat /\ e \in 0 .. BuffCells - 1
  BY SizesAssumption
<1>3. /\ Len(now) \in Nat /\ Len(sent) <= Len(now)
      /\ \A i \in 1 .. Len(sent) : now[i] = sent[i]
  OBVIOUS
<1> HIDE DEF e, now
<1>4. /\ o \in 0 .. Len(now)
      /\ ~(got + BlockCells <= 0) /\ ~(got + BlockCells <= e)
  BY <1>2, <1>3
<1>5. ASSUME NEW i \in 1 .. o, NEW x \in g.lines
      PROVE  now[i] < x
  <2>1. i \in 1 .. Len(sent)
    BY <1>2
  <2>2. sent[i] < x
    BY <1>1
  <2> QED
    BY <1>3, <2>1, <2>2
<1>6. ASSUME NEW p \in 1 .. e
      PROVE  o + p <= Len(now) /\ now[o + p] = g.cells[p]
  <2>1. p <= got
    BY <1>2
  <2>2. o + p <= Len(sent) /\ sent[o + p] = g.cells[p]
    BY <1>1, <2>1
  <2>3. o + p \in 1 .. Len(sent)
    BY <1>2, <2>2
  <2> QED
    BY <1>2, <1>3, <2>2, <2>3
<1> QED
  BY <1>4, <1>5, <1>6 DEF Copied, e, now

LEMMA CopiedNow ==
  ASSUME NEW g, NEW got \in Nat, NEW sent \in Seq(Nat), NEW t \in Seq(Nat),
         Copied(g, got, sent), TextEnd(g.cells) \in 0 .. BuffCells - 1,
         Len(t) <= BlockCells, \A i \in 1 .. Len(t) : t[i] = g.cells[got + i],
         \A p \in 1 .. BlockCells : got + p <= TextEnd(g.cells) => p <= Len(t)
  PROVE  Copied(g, got + BlockCells, sent \o t)
<1> DEFINE e == TextEnd(g.cells)
           now == sent \o t
<1>1. PICK o \in 0 .. Len(sent) :
        /\ \A i \in 1 .. o : \A x \in g.lines : sent[i] < x
        /\ \A p \in 1 .. e : p <= got => o + p <= Len(sent) /\ sent[o + p] = g.cells[p]
        /\ 0 <= got /\ got <= e => Len(sent) = o + got
  BY DEF Copied
<1>2. /\ BlockCells \in Nat /\ BlockCells > 0 /\ Len(sent) \in Nat /\ Len(t) \in Nat
      /\ e \in Nat
  BY SizesAssumption
<1>3. /\ Len(now) = Len(sent) + Len(t)
      /\ \A i \in 1 .. Len(sent) : now[i] = sent[i]
      /\ \A i \in 1 .. Len(t) : now[Len(sent) + i] = t[i]
  OBVIOUS
<1>4. \A p \in 1 .. BlockCells : got + p <= e => p <= Len(t)
  OBVIOUS
<1> HIDE DEF e, now
<1>5. /\ o \in 0 .. Len(now) /\ ~(got + BlockCells <= 0)
      /\ got <= e => Len(sent) = o + got
  BY <1>1, <1>2, <1>3
<1>6. ASSUME NEW i \in 1 .. o, NEW x \in g.lines
      PROVE  now[i] < x
  <2>1. i \in 1 .. Len(sent)
    BY <1>2
  <2>2. sent[i] < x
    BY <1>1
  <2> QED
    BY <1>3, <2>1, <2>2
<1>7. ASSUME NEW p \in 1 .. e, p <= got + BlockCells
      PROVE  o + p <= Len(now) /\ now[o + p] = g.cells[p]
  <2>1. CASE p <= got
    <3>1. o + p <= Len(sent) /\ sent[o + p] = g.cells[p]
      BY <1>1, <2>1
    <3>2. o + p \in 1 .. Len(sent)
      BY <1>2, <3>1
    <3> QED
      BY <1>2, <1>3, <3>1, <3>2
  <2>2. CASE ~(p <= got)
    <3> PICK q \in 1 .. BlockCells : p = got + q
      <4>1. p - got \in 1 .. BlockCells /\ p = got + (p - got)
        BY <1>2, <1>7, <2>2
      <4> QED
        BY <4>1
    <3>1. got + q <= e /\ got <= e
      BY <1>2
    <3>2. q \in 1 .. Len(t)
      <4>1. q <= Len(t)
        BY <1>4, <3>1
      <4> QED
        BY <1>2, <4>1
    <3>3. t[q] = g.cells[got + q]
      BY <3>2
    <3>4. Len(sent) = o + got
      BY <1>5, <3>1
    <3>5. o \in Nat /\ o + p = Len(sent) + q
      BY <1>2, <3>4
    <3>6. Len(sent) + q <= Len(now)
      BY <1>2, <1>3, <3>2
    <3>7. now[Len(sent) + q] = t[q]
      BY <1>3, <3>2
    <3> QED
      BY <3>3, <3>5, <3>6, <3>7
  <2> QED
    BY <2>1, <2>2
<1>8. ASSUME got + BlockCells <= e
      PROVE  Len(now) = o + (got + BlockCells)
  <2>1. BlockCells <= Len(t) /\ got <= e
    BY <1>2, <1>4, <1>8
  <2>2. Len(t) = BlockCells
    BY <1>2, <2>1
  <2>3. Len(sent) = o + got
    BY <1>5, <2>1
  <2>4. o \in Nat /\ Len(now) = Len(sent) + BlockCells
    BY <1>2, <1>3, <2>2
  <2> QED
    BY <1>2, <2>3, <2>4
<1> QED
  BY <1>5, <1>6, <1>7, <1>8 DEF Copied, e, now

\* Nothing of a flush that has not been read is in what has been sent.
LEMMA CopiedLater ==
  ASSUME NEW g, NEW got \in Int, got <= 0, NEW sent \in Seq(Nat),
         TextEnd(g.cells) \in Nat,
         \A i \in 1 .. Len(sent) : \A x \in g.lines : sent[i] < x
  PROVE  Copied(g, got, sent)
<1>1. /\ Len(sent) \in 0 .. Len(sent)
      /\ \A p \in 1 .. TextEnd(g.cells) : ~(p <= got)
      /\ 0 <= got => Len(sent) = Len(sent) + got
  OBVIOUS
<1> QED
  BY <1>1 DEF Copied

\* Reading one more block and sending its text.
LEMMA ReadCopies ==
  ASSUME NEW f \in Seq(Flushes), NEW l, NEW h, FileSound(f, l, h),
         NEW at \in Nat, at < Len(f) * BlocksPerFlush, NEW sent \in Seq(Nat),
         \A a \in 1 .. Len(f) : Copied(f[a], Got(at, a), sent),
         NEW a \in 1 .. Len(f)
  PROVE  Copied(f[a], Got(at + 1, a), sent \o Text(Block(f, at)))
<1> DEFINE c == at \div BlocksPerFlush + 1
           from == (at % BlocksPerFlush) * BlockCells
           t == Text(Block(f, at))
           e == TextEnd(f[a].cells)
           got == Got(at, a)
           d == (a - c) * BuffCells
<1>1. /\ c \in 1 .. Len(f) /\ from \in Nat /\ from + BlockCells <= BuffCells
      /\ from = at * BlockCells - (c - 1) * BuffCells
  BY BlockPlace
<1>2. /\ t \in Seq(Nat) /\ Len(t) <= BlockCells
      /\ \A i \in 1 .. Len(t) : t[i] = f[c].cells[from + i]
      /\ \A m \in Nat : EndsAt(f[c].cells, m) =>
           \A p \in 1 .. BlockCells : from + p <= m => p <= Len(t)
  BY BlockText
<1>3. e \in 0 .. BuffCells - 1 /\ EndsAt(f[a].cells, e)
  BY DEF FileSound, Holds
<1> HIDE DEF t, c, from
<1>4. /\ BlockCells \in Nat /\ BlockCells > 0 /\ BuffCells \in Nat
      /\ Len(f) \in Nat /\ Len(sent) \in Nat /\ Len(t) \in Nat
  BY <1>2, SizesAssumption
<1>5. got \in Int /\ Got(at + 1, a) = got + BlockCells /\ d \in Int
  BY <1>1, <1>4 DEF Got
<1>6. got = from - d
  <2>1. (a - 1) * BuffCells = d + (c - 1) * BuffCells
    BY <1>1, <1>4
  <2>2. /\ at * BlockCells \in Int /\ (a - 1) * BuffCells \in Int
        /\ (c - 1) * BuffCells \in Int
    BY <1>1, <1>4
  <2> HIDE DEF d
  <2> QED
    BY <1>1, <1>5, <2>1, <2>2 DEF Got
<1>7. /\ a <= c - 1 => d <= 0 - BuffCells
      /\ a = c => d = 0
      /\ a >= c + 1 => d >= BuffCells
  BY <1>1, <1>4
<1>8. Copied(f[a], got, sent)
  OBVIOUS
<1> HIDE DEF got, e, d
<1>9. CASE a <= c - 1
  <2>1. got >= BuffCells
    BY <1>1, <1>4, <1>5, <1>6, <1>7, <1>9
  <2> QED
    BY <1>2, <1>3, <1>5, <1>8, <2>1, CopiedBefore DEF e, t
<1>10. CASE a = c
  <2>1. got = from
    BY <1>1, <1>6, <1>7, <1>10
  <2>2. \A i \in 1 .. Len(t) : t[i] = f[a].cells[got + i]
    BY <1>2, <1>10, <2>1
  <2>3. \A p \in 1 .. BlockCells : got + p <= e => p <= Len(t)
    BY <1>2, <1>3, <1>10, <2>1
  <2> QED
    <3> DEFINE g == f[a]
    <3>1. /\ got \in Nat /\ Copied(g, got, sent)
          /\ TextEnd(g.cells) \in 0 .. BuffCells - 1
          /\ \A p \in 1 .. BlockCells : got + p <= TextEnd(g.cells) => p <= Len(t)
          /\ \A i \in 1 .. Len(t) : t[i] = g.cells[got + i]
      BY <1>1, <1>3, <1>8, <2>1, <2>2, <2>3 DEF e
    <3> HIDE DEF g
    <3>2. Copied(g, got + BlockCells, sent \o t)
      BY <1>2, <3>1, CopiedNow
    <3> QED
      BY <1>5, <3>2 DEF g, t
<1>11. CASE a >= c + 1
  <2>1. got <= 0 /\ got + BlockCells <= 0 /\ got + BlockCells \in Int
    BY <1>1, <1>4, <1>5, <1>6, <1>7, <1>11
  <2>2. \A i \in 1 .. Len(sent) : \A x \in f[a].lines : sent[i] < x
    BY <1>8, <2>1 DEF Copied
  <2>3. ASSUME NEW i \in 1 .. Len(t), NEW x \in f[a].lines
        PROVE  t[i] < x
    <3>1. t[i] = f[c].cells[from + i] /\ from + i \in 1 .. BuffCells
      BY <1>1, <1>2, <1>4
    <3>2. Before(f[c], x)
      BY <1>1, <1>11 DEF FileSound
    <3> QED
      BY <3>1, <3>2 DEF Before
  <2> DEFINE now == sent \o t
  <2>4. /\ now \in Seq(Nat) /\ Len(now) = Len(sent) + Len(t)
        /\ \A i \in 1 .. Len(sent) : now[i] = sent[i]
        /\ \A i \in Len(sent) + 1 .. Len(now) : now[i] = t[i - Len(sent)]
    BY <1>2
  <2> HIDE DEF now
  <2>5. ASSUME NEW i \in 1 .. Len(now), NEW x \in f[a].lines
        PROVE  now[i] < x
    <3>1. CASE i <= Len(sent)
      <4>1. i \in 1 .. Len(sent)
        BY <1>4, <3>1
      <4> QED
        BY <2>2, <2>4, <4>1
    <3>2. CASE ~(i <= Len(sent))
      <4>1. i - Len(sent) \in 1 .. Len(t) /\ i \in Len(sent) + 1 .. Len(now)
        BY <1>4, <2>4, <3>2
      <4> QED
        BY <2>3, <2>4, <4>1
    <3> QED
      BY <3>1, <3>2
  <2>6. Copied(f[a], got + BlockCells, now)
    <3> DEFINE g == f[a]
               more == got + BlockCells
    <3>1. TextEnd(g.cells) \in Nat
      BY <1>3, <1>4 DEF e
    <3>2. more \in Int /\ more <= 0 /\ now \in Seq(Nat)
          /\ \A i \in 1 .. Len(now) : \A x \in g.lines : now[i] < x
      BY <2>1, <2>4, <2>5
    <3> HIDE DEF g, more
    <3>3. Copied(g, more, now)
      BY <3>1, <3>2, CopiedLater
    <3> QED
      BY <3>3 DEF g, more
  <2> QED
    BY <1>5, <2>6 DEF now, t
<1>12. a <= c - 1 \/ a = c \/ a >= c + 1
  BY <1>1
<1> QED
  BY <1>9, <1>10, <1>11, <1>12

\* What a block adds is no newer than the file.
LEMMA ReadOlder ==
  ASSUME NEW f \in Seq(Flushes), NEW l \in Seq(Nat), NEW h, FileSound(f, l, h),
         NEW at \in Nat, at < Len(f) * BlocksPerFlush, NEW sent \in Seq(Nat),
         SentOlder(sent, l, h)
  PROVE  SentOlder(sent \o Text(Block(f, at)), l, h)
<1> DEFINE c == at \div BlocksPerFlush + 1
           from == (at % BlocksPerFlush) * BlockCells
           t == Text(Block(f, at))
           now == sent \o t
<1>1. /\ c \in 1 .. Len(f) /\ from \in Nat /\ from + BlockCells <= BuffCells
  BY BlockPlace
<1>2. /\ t \in Seq(Nat) /\ Len(t) <= BlockCells
      /\ \A i \in 1 .. Len(t) : t[i] = f[c].cells[from + i]
  BY BlockText
<1> HIDE DEF t, c, from
<1>3. /\ BlockCells \in Nat /\ BuffCells \in Nat /\ Len(sent) \in Nat /\ Len(t) \in Nat
  BY <1>2, SizesAssumption
<1>4. /\ Len(now) = Len(sent) + Len(t)
      /\ \A i \in 1 .. Len(sent) : now[i] = sent[i]
      /\ \A i \in Len(sent) + 1 .. Len(now) : now[i] = t[i - Len(sent)]
  BY <1>2, <1>3
<1> HIDE DEF now
<1>5. ASSUME NEW i \in 1 .. Len(now)
      PROVE  now[i] <= Len(l) /\ \A x \in h : now[i] < x
  <2>1. CASE i <= Len(sent)
    <3>1. i \in 1 .. Len(sent)
      BY <1>3, <2>1
    <3> QED
      BY <1>4, <3>1 DEF SentOlder
  <2>2. CASE ~(i <= Len(sent))
    <3>1. i - Len(sent) \in 1 .. Len(t) /\ i \in Len(sent) + 1 .. Len(now)
      BY <1>3, <1>4, <2>2
    <3>2. now[i] = f[c].cells[from + (i - Len(sent))]
      BY <1>2, <1>4, <3>1
    <3>3. from + (i - Len(sent)) \in 1 .. BuffCells
      BY <1>1, <1>2, <1>3, <3>1
    <3>4. /\ \A j \in 1 .. BuffCells : f[c].cells[j] <= Len(l)
          /\ \A x \in h : Before(f[c], x)
      BY <1>1 DEF FileSound
    <3> QED
      BY <3>2, <3>3, <3>4 DEF Before
  <2> QED
    BY <2>1, <2>2
<1> QED
  BY <1>5 DEF SentOlder, now, t

\* A flush that was read to its end.
LEMMA FlushRead ==
  ASSUME NEW at \in Nat, NEW l \in Nat, at <= l * BlocksPerFlush,
         NEW a \in 1 .. at \div BlocksPerFlush
  PROVE  a \in 1 .. l /\ Got(at, a) \in Int /\ Got(at, a) >= BuffCells
<1> DEFINE B == BlocksPerFlush
           q == at \div B
<1>1. /\ B \in Nat /\ B > 0 /\ B * BlockCells = BuffCells
      /\ BlockCells \in Nat /\ BlockCells > 0 /\ BuffCells \in Nat
  BY BlocksFill, SizesAssumption
<1>2. at <= l * B
  OBVIOUS
<1> HIDE DEF B
<1>3. q \in Int /\ at % B \in 0 .. B - 1 /\ at = B * q + (at % B)
  BY <1>1
<1> HIDE DEF q
<1>4. a \in Nat /\ a >= 1 /\ a <= q
  BY <1>3 DEF q, B
<1>5. q <= l
  <2> SUFFICES ASSUME l + 1 <= q PROVE FALSE
    BY <1>3
  <2>1. (l + 1) * B <= B * q
    BY <1>1, <1>3
  <2> QED
    BY <1>1, <1>2, <1>3, <2>1
<1>6. a * B <= at
  <2>1. a * B <= B * q
    BY <1>1, <1>3, <1>4
  <2> QED
    BY <1>1, <1>3, <1>4, <2>1
<1>7. a * BuffCells <= at * BlockCells
  <2>1. (a * B) * BlockCells <= at * BlockCells
    BY <1>1, <1>4, <1>6
  <2>2. (a * B) * BlockCells = a * (B * BlockCells)
    BY <1>1, <1>4
  <2> QED
    BY <1>1, <2>1, <2>2
<1>8. (a - 1) * BuffCells = a * BuffCells - BuffCells
  BY <1>1, <1>4
<1>9. a * BuffCells \in Int /\ at * BlockCells \in Int /\ (a - 1) * BuffCells \in Int
  BY <1>1, <1>4
<1>10. Got(at, a) \in Int /\ Got(at, a) >= BuffCells
  BY <1>1, <1>7, <1>8, <1>9 DEF Got
<1> QED
  BY <1>3, <1>4, <1>5, <1>10

\* A flush that is not in the file yet, and one of a file just opened.
LEMMA FlushUnread ==
  ASSUME NEW at \in Nat, NEW l \in Nat, at <= l * BlocksPerFlush
  PROVE  /\ Got(at, l + 1) \in Int /\ Got(at, l + 1) <= 0
         /\ \A a \in 1 .. l : Got(0, a) \in Int /\ Got(0, a) <= 0
<1>1. /\ BlocksPerFlush \in Nat /\ BlocksPerFlush * BlockCells = BuffCells
      /\ BlockCells \in Nat /\ BuffCells \in Nat
  BY BlocksFill, SizesAssumption
<1>2. at * BlockCells <= l * BuffCells
  <2>1. at * BlockCells <= (l * BlocksPerFlush) * BlockCells
    BY <1>1
  <2>2. (l * BlocksPerFlush) * BlockCells = l * (BlocksPerFlush * BlockCells)
    BY <1>1
  <2> QED
    BY <1>1, <2>1, <2>2
<1>3. (l + 1) - 1 = l /\ l * BuffCells \in Int /\ at * BlockCells \in Int
  BY <1>1
<1>4. Got(at, l + 1) = at * BlockCells - l * BuffCells
  BY <1>3 DEF Got
<1>5. ASSUME NEW a \in 1 .. l
      PROVE  Got(0, a) \in Int /\ Got(0, a) <= 0
  <2>1. (a - 1) * BuffCells \in Nat /\ 0 * BlockCells = 0
    BY <1>1
  <2> QED
    BY <2>1 DEF Got
<1> QED
  BY <1>2, <1>3, <1>4, <1>5

-----------------------------------------------------------------------------
LEMMA OpenedTypes ==
  ASSUME IndInv
  PROVE  /\ Opened \in Seq(Flushes) /\ Len(Opened) \in Nat /\ log \in Seq(Flushes)
         /\ reader.at \in Nat /\ reader.sent \in Seq(Nat) /\ reader.text \in Seq(Flushes)
         /\ line \in Seq(Nat) /\ Len(line) \in Nat
         /\ buff \in [1 .. BuffCells -> 0 .. Len(line)] /\ buff \in [1 .. BuffCells -> Nat]
         /\ held \subseteq 1 .. Len(line)
<1>1. /\ reader.file \in {"none", "log", "removed"} /\ reader.text \in Seq(Flushes)
      /\ reader.at \in Nat /\ reader.sent \in Seq(Nat) /\ log \in Seq(Flushes)
  BY DEF IndInv, Types, ListenerStates
<1>2. Opened \in Seq(Flushes)
  BY <1>1 DEF Opened
<1>3. /\ line \in Seq(Nat) /\ buff \in [1 .. BuffCells -> 0 .. Len(line)]
      /\ held \subseteq 1 .. Len(line)
  BY DEF IndInv, Types, Lines
<1>4. Len(line) \in Nat /\ Len(Opened) \in Nat
  BY <1>2, <1>3
<1>5. buff \in [1 .. BuffCells -> Nat]
  BY <1>3, <1>4
<1> QED
  BY <1>1, <1>2, <1>3, <1>4, <1>5

LEMMA NothingWritten ==
  ASSUME NEW l, NEW h
  PROVE  FileSound(<<>>, l, h) /\ SentOlder(<<>>, l, h)
<1>1. Len(<<>>) = 0 /\ 1 .. 0 = {}
  OBVIOUS
<1> QED
  BY <1>1 DEF FileSound, SentOlder

\* Nothing is left of what was sent of a file that is closed.
LEMMA ClosedSent ==
  ASSUME reader' = Closed, Holds(buff', held', line'), FileSound(log', line', held')
  PROVE  SentInv'
<1>1. Opened' = <<>> /\ reader'.sent = <<>>
  BY DEF Opened, Closed
<1>2. 1 .. Len(Opened') = {}
  BY <1>1
<1> QED
  BY <1>1, <1>2, NothingWritten DEF SentInv

LEMMA InitSentInv == Init => SentInv
<1> SUFFICES ASSUME Init PROVE SentInv
  OBVIOUS
<1>1. /\ buff = Empty /\ held = {} /\ log = <<>> /\ reader = Closed
  BY DEF Init, Missing
<1>2. Opened = <<>> /\ reader.sent = <<>>
  BY <1>1 DEF Opened, Closed
<1>3. Empty \in [1 .. BuffCells -> Nat] /\ EndsAt(Empty, 0)
  BY EmptyEnds DEF Empty
<1>4. Holds(buff, held, line)
  BY <1>1, <1>3, NothingHeld
<1>5. 1 .. Len(Opened) = {}
  BY <1>2
<1> QED
  BY <1>1, <1>2, <1>4, <1>5, NothingWritten DEF SentInv

\* strcat finds room for one more line.
LEMMA RoomForLine ==
  ASSUME IndInv, n < PerFlush, NEW k \in Nat, k <= Longest
  PROVE  k \in Nat /\ TextEnd(buff) + k < BuffCells
<1>1. /\ n \in Nat /\ Longest \in Nat /\ PerFlush \in Nat /\ k \in Nat /\ k <= Longest
  BY LongestFits, SizesAssumption DEF IndInv, Types
<1>2. PICK e \in 0 .. n * Longest : EndsAt(buff, e)
  BY DEF IndInv, Room
<1>3. /\ (n + 1) * Longest \in Nat /\ (n + 1) * Longest < BuffCells
      /\ n * Longest \in Nat /\ n * Longest < BuffCells
  <2>1. n \in 0 .. PerFlush /\ n + 1 \in 0 .. PerFlush
    BY <1>1
  <2> QED
    BY <2>1, RoomLeft
<1>4. (n + 1) * Longest = n * Longest + Longest
  BY <1>1
<1>5. e \in 0 .. BuffCells - 1 /\ e + k < BuffCells
  BY <1>1, <1>2, <1>3, <1>4, SizesAssumption
<1>6. TextEnd(buff) = e
  BY <1>2, <1>5, OpenedTypes, TextEndIs
<1> QED
  BY <1>1, <1>5, <1>6

LEMMA MeasureSent ==
  ASSUME IndInv, SentInv, NEW r \in OutputCells, NEW t \in Behind, Measure(r, t)
  PROVE  SentInv'
<1> DEFINE x == Len(line) + 1
           k == Appended(r, t)
<1>1. /\ line' = Append(line, k) /\ buff' = Strcat(buff, x, k) /\ held' = held \union {x}
      /\ log' = log /\ reader' = reader
  BY DEF Measure
<1>2. Opened' = Opened
  BY <1>1 DEF Opened
<1>3. k \in Nat /\ TextEnd(buff) + k < BuffCells
  <2>1. k \in Nat /\ k <= Longest
    BY LongestFits
  <2>2. n < PerFlush
    BY DEF Measure, IndInv, Places
  <2> HIDE DEF k
  <2> QED
    BY <2>1, <2>2, RoomForLine
<1> HIDE DEF k
<1>4. Holds(buff', held', line')
  <2>1. Holds(buff, held, line)
    BY DEF SentInv
  <2> QED
    BY <1>1, <1>3, <2>1, OpenedTypes, StrcatHolds
<1>5. FileSound(log', line', held') /\ FileSound(Opened', line', held')
  <2>1. FileSound(log, line, held) /\ FileSound(Opened, line, held)
    BY DEF SentInv
  <2> QED
    BY <1>1, <1>2, <1>3, <2>1, OpenedTypes, FileMeasured
<1>6. SentOlder(reader'.sent, line', held')
  <2> DEFINE s == reader.sent
  <2>1. Len(line') = x /\ x \in Nat
    BY <1>1, OpenedTypes, AppendProperties
  <2>2. s \in Seq(Nat) /\ SentOlder(s, line, held) /\ Len(line) \in Nat
    BY OpenedTypes DEF SentInv
  <2> HIDE DEF s
  <2>3. ASSUME NEW i \in 1 .. Len(s)
        PROVE  s[i] <= x /\ s[i] < x /\ \A y \in held : s[i] < y
    <3>1. s[i] \in Nat /\ s[i] <= Len(line) /\ \A y \in held : s[i] < y
      BY <2>2 DEF SentOlder
    <3> QED
      BY <2>2, <3>1
  <2>4. SentOlder(s, line', held')
    BY <1>1, <2>1, <2>3 DEF SentOlder
  <2> QED
    BY <1>1, <2>4 DEF s
<1>7. \A a \in 1 .. Len(Opened') : Copied(Opened'[a], Got(reader'.at, a), reader'.sent)
  BY <1>1, <1>2 DEF SentInv
<1> QED
  BY <1>4, <1>5, <1>6, <1>7 DEF SentInv

LEMMA FlushSent ==
  ASSUME IndInv, SentInv, Flush
  PROVE  SentInv'
<1> DEFINE g == [cells |-> buff, lines |-> held]
<1>1. /\ log' = Append(log, g) /\ buff' = [buff EXCEPT ![1] = 0] /\ held' = {}
      /\ line' = line /\ reader' = reader
  BY DEF Flush, Written, Emptied
<1>2. /\ g \in Flushes /\ g.lines = held /\ g.cells = buff
  BY DEF IndInv, Types, Flushes, Lines
<1> HIDE DEF g
<1>3. Holds(buff', held', line')
  <2>1. BuffCells > 0 /\ BuffCells \in Nat /\ buff \in [1 .. BuffCells -> Nat]
    BY EmptyEnds, OpenedTypes, SizesAssumption
  <2>2. buff' \in [1 .. BuffCells -> Nat] /\ buff'[1] = 0
    BY <1>1, <2>1
  <2>3. EndsAt(buff', 0)
    BY <2>1, <2>2 DEF EndsAt
  <2> QED
    BY <1>1, <2>2, <2>3, NothingHeld
<1>4. /\ Holds(g.cells, g.lines, line) /\ \A i \in 1 .. BuffCells : g.cells[i] <= Len(line)
      /\ FileSound(log, line, g.lines) /\ FileSound(Opened, line, g.lines)
      /\ SentOlder(reader.sent, line, g.lines)
  <2>1. \A i \in 1 .. BuffCells : buff[i] <= Len(line)
    BY OpenedTypes
  <2> QED
    BY <1>2, <2>1 DEF SentInv
<1>5. FileSound(log', line', held')
  BY <1>1, <1>2, <1>4, OpenedTypes, FileFlushed
<1>6. SentOlder(reader'.sent, line', held')
  BY <1>1, <1>4 DEF SentOlder
<1>7. CASE reader.file = "log"
  <2>1. Opened = log /\ Opened' = log'
    BY <1>1, <1>7 DEF Opened
  <2>2. /\ Len(log') = Len(log) + 1 /\ log'[Len(log) + 1] = g /\ Len(log) \in Nat
        /\ \A a \in 1 .. Len(log) : log'[a] = log[a]
    BY <1>1, <1>2, OpenedTypes, AppendProperties
  <2>3. Copied(g, Got(reader.at, Len(log) + 1), reader.sent)
    <3>1. /\ Got(reader.at, Len(log) + 1) \in Int /\ Got(reader.at, Len(log) + 1) <= 0
      <4>1. reader.at <= Len(log) * BlocksPerFlush
        BY <2>1 DEF IndInv, Reading
      <4> QED
        BY <2>2, <4>1, OpenedTypes, FlushUnread
    <3>2. TextEnd(g.cells) \in Nat
      BY <1>4, SizesAssumption DEF Holds
    <3>3. \A i \in 1 .. Len(reader.sent) : \A x \in g.lines : reader.sent[i] < x
      BY <1>4 DEF SentOlder
    <3> QED
      BY <3>1, <3>2, <3>3, OpenedTypes, CopiedLater
  <2>4. ASSUME NEW a \in 1 .. Len(log')
        PROVE  Copied(log'[a], Got(reader.at, a), reader.sent)
    <3>1. CASE a = Len(log) + 1
      BY <2>2, <2>3, <3>1
    <3>2. CASE a # Len(log) + 1
      <4>1. a \in 1 .. Len(log)
        BY <2>2, <3>2
      <4>2. Copied(Opened[a], Got(reader.at, a), reader.sent)
        BY <2>1, <4>1 DEF SentInv
      <4> QED
        BY <2>1, <2>2, <4>1, <4>2
    <3> QED
      BY <3>1, <3>2
  <2> QED
    BY <1>1, <1>3, <1>5, <1>6, <2>1, <2>4 DEF SentInv
<1>8. CASE reader.file # "log"
  <2>1. Opened' = Opened
    BY <1>1, <1>8 DEF Opened
  <2>2. FileSound(Opened', line', held')
    BY <1>1, <1>4, <2>1, FileUnheld
  <2>3. \A a \in 1 .. Len(Opened') : Copied(Opened'[a], Got(reader'.at, a), reader'.sent)
    BY <1>1, <2>1 DEF SentInv
  <2> QED
    BY <1>3, <1>5, <1>6, <2>2, <2>3 DEF SentInv
<1> QED
  BY <1>7, <1>8

\* A listener that has the log open keeps what it holds.
LEMMA RemoveSent ==
  ASSUME IndInv, SentInv, Remove
  PROVE  SentInv'
<1>1. /\ log' = <<>> /\ UNCHANGED <<buff, held, line>>
  BY DEF Remove, Missing
<1>2. Opened' = Opened /\ reader'.at = reader.at /\ reader'.sent = reader.sent
  BY DEF Remove, Opened, IndInv, Types, ListenerStates
<1>3. FileSound(log', line', held')
  BY <1>1, NothingWritten
<1> QED
  BY <1>1, <1>2, <1>3 DEF SentInv

LEMMA StartsSent ==
  ASSUME IndInv, SentInv, StartsAgain
  PROVE  SentInv'
<1>1. buff' = Empty /\ held' = {} /\ reader' = Closed /\ UNCHANGED <<line, log>>
  BY DEF StartsAgain
<1>2. Empty \in [1 .. BuffCells -> Nat] /\ EndsAt(Empty, 0)
  BY EmptyEnds DEF Empty
<1>3. Holds(buff', held', line')
  BY <1>1, <1>2, NothingHeld
<1>4. FileSound(log', line', held')
  BY <1>1, FileUnheld DEF SentInv
<1> QED
  BY <1>1, <1>3, <1>4, ClosedSent

LEMMA OpenSent ==
  ASSUME IndInv, SentInv, Open
  PROVE  SentInv'
<1>1. /\ UNCHANGED <<buff, held, line, log>> /\ reader' = [Closed EXCEPT !.file = "log"]
  BY DEF Open, process
<1>2. Opened' = log /\ reader'.at = 0 /\ reader'.sent = <<>>
  BY <1>1 DEF Opened, Closed
<1>3. ASSUME NEW a \in 1 .. Len(log)
      PROVE  Copied(log[a], Got(0, a), <<>>)
  <2> DEFINE g == log[a]
  <2>1. Len(log) \in Nat /\ 0 <= Len(log) * BlocksPerFlush
    BY OpenedTypes, BlocksFill
  <2>2. Got(0, a) \in Int /\ Got(0, a) <= 0
    BY <2>1, FlushUnread
  <2>3. TextEnd(g.cells) \in Nat
    BY SizesAssumption DEF SentInv, FileSound, Holds
  <2> HIDE DEF g
  <2>4. /\ <<>> \in Seq(Nat)
        /\ \A i \in 1 .. Len(<<>>) : \A x \in g.lines : <<>>[i] < x
    OBVIOUS
  <2>5. Copied(g, Got(0, a), <<>>)
    BY <2>2, <2>3, <2>4, CopiedLater
  <2> QED
    BY <2>5 DEF g
<1>4. SentOlder(reader'.sent, line', held')
  BY <1>2, NothingWritten
<1> QED
  BY <1>1, <1>2, <1>3, <1>4 DEF SentInv

LEMMA ReadSent ==
  ASSUME IndInv, SentInv, ReadBlock
  PROVE  SentInv'
<1>1. UNCHANGED <<buff, held, line, log>>
  BY DEF ReadBlock, process
<1>2. /\ Opened \in Seq(Flushes) /\ reader.at \in Nat
      /\ reader.at < Len(Opened) * BlocksPerFlush
      /\ reader'.at = reader.at + 1
      /\ reader'.sent = reader.sent \o Text(Block(Opened, reader.at))
  BY ReadSends
<1>3. Opened' = Opened
  BY <1>1, ReadSends DEF Opened
<1>4. /\ FileSound(Opened, line, held) /\ SentOlder(reader.sent, line, held)
      /\ \A a \in 1 .. Len(Opened) : Copied(Opened[a], Got(reader.at, a), reader.sent)
      /\ reader.sent \in Seq(Nat) /\ line \in Seq(Nat)
  BY OpenedTypes DEF SentInv
<1>5. SentOlder(reader'.sent, line, held)
  BY <1>2, <1>4, ReadOlder
<1>6. \A a \in 1 .. Len(Opened) : Copied(Opened[a], Got(reader'.at, a), reader'.sent)
  BY <1>2, <1>4, ReadCopies
<1> QED
  BY <1>1, <1>3, <1>5, <1>6 DEF SentInv

LEMMA StepSentInv == IndInv /\ SentInv /\ [Next]_vars => SentInv'
<1> SUFFICES ASSUME IndInv, SentInv, [Next]_vars
             PROVE  SentInv'
  OBVIOUS
<1>1. CASE Test \/ Tar \/ TarFails \/ UNCHANGED vars
  <2>1. UNCHANGED <<buff, held, line, log, reader>>
    BY <1>1 DEF Test, Tar, TarFails, vars, process
  <2>2. Opened' = Opened
    BY <2>1 DEF Opened
  <2> QED
    BY <2>1, <2>2 DEF SentInv
<1>2. CASE ReadEnds
  <2>1. reader' = Closed /\ UNCHANGED <<buff, held, line, log>>
    BY <1>2 DEF ReadEnds, process
  <2> QED
    BY <2>1, ClosedSent DEF SentInv
<1> QED
  BY <1>1, <1>2, MeasureSent, FlushSent, RemoveSent, StartsSent, OpenSent, ReadSent DEF Next

LEMMA ReadLines ==
  ASSUME IndInv, NEW b \in 1 .. reader.at \div BlocksPerFlush
  PROVE  b \in 1 .. Len(Opened) /\ Opened[b].lines \subseteq Nat
<1>1. b \in 1 .. Len(Opened)
  BY OpenedTypes, FlushRead DEF IndInv, Reading
<1>2. Opened[b] \in Flushes
  BY <1>1, OpenedTypes
<1> QED
  BY <1>1, <1>2 DEF Flushes

\* The listener sends every line of a flush it has read whole, and the first
\* time behind older text only (client.c:70-86, 240-262), whatever the process
\* appends meanwhile, and though it removes the file, for buffers, blocks and
\* lines of any size; and where text from beyond a block has come in between,
\* it does so at most once a block.
THEOREM LinesSentWhole == Spec => []SentWhole
<1>1. IndInv /\ SentInv => SentWhole
  <2> SUFFICES ASSUME IndInv, SentInv PROVE SentWhole
    OBVIOUS
  <2>0. \A p, q \in reader.strays : p < q => q - p >= BlockCells
    BY DEF IndInv, Strayed
  <2> SUFFICES ASSUME NEW a \in 1 .. reader.at \div BlocksPerFlush,
                      NEW x \in Opened[a].lines
               PROVE  /\ Whole(x, reader.sent)
                      /\ \A y \in Nat : line[x] # 0 /\ x < y =>
                           \E j \in DOMAIN reader.sent :
                             reader.sent[j] = x /\ \A i \in 1 .. j : reader.sent[i] # y
    BY <2>0, ReadLines DEF SentWhole
  <2> DEFINE g == Opened[a]
             s == reader.sent
             e == TextEnd(g.cells)
             got == Got(reader.at, a)
             k == line[x]
  <2>1. a \in 1 .. Len(Opened) /\ got \in Int /\ got >= BuffCells
    BY OpenedTypes, FlushRead DEF IndInv, Reading
  <2>2. /\ Holds(g.cells, g.lines, line) /\ Copied(g, got, s)
    BY <2>1 DEF SentInv, FileSound
  <2>3. /\ e \in 0 .. BuffCells - 1 /\ x \in 1 .. Len(line) /\ LineIn(g.cells, e, x, k)
    BY <2>2 DEF Holds
  <2>4. k \in Nat /\ s \in Seq(Nat) /\ Len(s) \in Nat /\ BuffCells \in Nat /\ x \in Nat
    <3>1. line \in Seq(Nat) /\ Len(line) \in Nat /\ s \in Seq(Nat)
      BY OpenedTypes
    <3>2. line[x] \in Nat /\ x \in Nat
      BY <2>3, <3>1
    <3>3. Len(s) \in Nat
      BY <3>1
    <3> QED
      BY <3>1, <3>2, <3>3, SizesAssumption DEF k
  <2> HIDE DEF g, s, e, got, k
  <2>5. PICK o \in 0 .. Len(s) :
          /\ \A i \in 1 .. o : \A z \in g.lines : s[i] < z
          /\ \A p \in 1 .. e : p <= got => o + p <= Len(s) /\ s[o + p] = g.cells[p]
    BY <2>2 DEF Copied, e
  <2>6. PICK r \in 0 .. e : /\ r + k <= e
                            /\ \A i \in 1 .. r : g.cells[i] < x
                            /\ \A i \in 1 .. k : g.cells[r + i] = x
    BY <2>3 DEF LineIn
  <2>7. e \in Nat /\ o \in Nat /\ r \in Nat
    BY <2>3, <2>4
  <2>8. \A p \in 1 .. e : o + p <= Len(s) /\ s[o + p] = g.cells[p]
    BY <2>1, <2>3, <2>4, <2>5
  <2>9. ASSUME NEW i \in 1 .. k
        PROVE  (o + r) + i <= Len(s) /\ s[(o + r) + i] = x
    <3>1. r + i \in 1 .. e /\ o + (r + i) = (o + r) + i
      BY <2>4, <2>6, <2>7
    <3>2. g.cells[r + i] = x
      BY <2>6
    <3> QED
      BY <2>8, <3>1, <3>2
  <2>10. Whole(x, s)
    <3>1. CASE k = 0
      <4>1. 0 \in 0 .. Len(s) - k /\ \A i \in 1 .. k : s[0 + i] = x
        BY <2>4, <3>1
      <4> QED
        BY <4>1 DEF Whole, k
    <3>2. CASE k # 0
      <4>1. (o + r) + k <= Len(s)
        BY <2>4, <2>9, <3>2
      <4>2. o + r \in 0 .. Len(s) - k
        BY <2>4, <2>7, <4>1
      <4> QED
        BY <2>9, <4>2 DEF Whole, k
    <3> QED
      BY <3>1, <3>2
  <2>11. ASSUME NEW y \in Nat, k # 0, x < y
         PROVE  \E j \in DOMAIN s : s[j] = x /\ \A i \in 1 .. j : s[i] # y
    <3> DEFINE j == (o + r) + 1
    <3>1. j \in 1 .. Len(s) /\ s[j] = x
      <4>1. 1 \in 1 .. k
        BY <2>4, <2>11
      <4>2. j <= Len(s) /\ s[j] = x
        BY <2>9, <4>1
      <4> QED
        BY <2>4, <2>7, <4>2
    <3>2. ASSUME NEW i \in 1 .. j
          PROVE  s[i] # y
      <4>1. i \in 1 .. Len(s) /\ s[i] \in Nat /\ i \in Nat
        BY <2>4, <2>7, <3>1
      <4>2. CASE i <= o
        <5>1. i \in 1 .. o /\ x \in g.lines
          BY <2>7, <4>1, <4>2 DEF g
        <5>2. s[i] < x
          BY <2>5, <5>1
        <5> QED
          BY <2>4, <2>11, <4>1, <5>2
      <4>3. CASE o + 1 <= i /\ i <= o + r
        <5>1. PICK p \in 1 .. r : i = o + p
          <6>1. i - o \in 1 .. r /\ i = o + (i - o)
            BY <2>7, <4>1, <4>3
          <6> QED
            BY <6>1
        <5>2. p \in 1 .. e
          BY <2>6, <2>7
        <5>3. s[i] = g.cells[p] /\ g.cells[p] < x
          BY <2>6, <2>8, <5>1, <5>2
        <5> QED
          BY <2>4, <2>11, <4>1, <5>3
      <4>4. CASE i = j
        BY <2>4, <2>11, <3>1, <4>4
      <4>5. i <= o \/ (o + 1 <= i /\ i <= o + r) \/ i = j
        BY <2>7, <4>1
      <4> QED
        BY <4>2, <4>3, <4>4, <4>5
    <3>3. j \in DOMAIN s
      BY <2>4, <3>1
    <3> HIDE DEF j
    <3> QED
      BY <3>1, <3>2, <3>3
  <2> QED
    BY <2>10, <2>11 DEF k, s
<1> QED
  BY <1>1, InitSentInv, StepSentInv, RotationInvariant, PTL DEF Spec
=============================================================================
