------------------------ MODULE ReadersWritersProofs ------------------------
(***************************************************************************)
(* Proofs about Reader and Writer: what each of the five mutexes guards,   *)
(* and that together they implement RWLock - for any number of threads.    *)
(***************************************************************************)
EXTENDS ReadersWriters, FiniteSetTheorems, TLAPS

MutexesGuard ==
  Mutex1Guards /\ Mutex2Guards /\ Mutex3Guards /\ RWmutexGuards /\ RwtGuards

\* A counter is 0 when nobody is counted.
ZeroExact ==
  /\ readCount = 0 <=> ~Someone(ReaderCounted)
  /\ writeCount = 0 <=> ~Someone(WriterCounted)

-----------------------------------------------------------------------------
(* The counters *)

LEMMA CountedFinite == IsFiniteSet(CountedReaders) /\ IsFiniteSet(CountedWriters)
<1>1. IsFiniteSet(Threads)
  BY ThreadsAssumption, FS_Union DEF Threads
<1> QED
  BY <1>1, FS_Subset DEF CountedReaders, CountedWriters

LEMMA ZeroMeansNone == CountsExact => ZeroExact
<1>1. /\ Cardinality(CountedReaders) = 0 <=> CountedReaders = {}
      /\ Cardinality(CountedWriters) = 0 <=> CountedWriters = {}
  BY CountedFinite, FS_EmptySet
<1>2. /\ CountedReaders = {} <=> ~Someone(ReaderCounted)
      /\ CountedWriters = {} <=> ~Someone(WriterCounted)
  BY DEF CountedReaders, CountedWriters, Someone
<1> QED
  BY <1>1, <1>2 DEF CountsExact, ZeroExact

-----------------------------------------------------------------------------
(* The mutexes *)

LEMMA ReaderKeepsMutexes ==
  ASSUME TypeOK, MutexesGuard, ZeroExact, NEW t \in Readers, ReadCall(t) \/ Reader(t)
  PROVE  MutexesGuard'
<1> USE DEF TypeOK, MutexesGuard, Mutex1Guards, Mutex2Guards, Mutex3Guards, RWmutexGuards,
        RwtGuards, Someone, AtMostOne, Guards, InMutex1, InMutex2, InMutex3, ReaderAtGate,
        WritersAtGate, ReadersShare, ReaderCounted, WriterCounted, Threads, At, Lock,
        Unlock, Counts
<1>1. CASE ReadCall(t)
  BY <1>1 DEF ReadCall
<1>2. CASE ReadQueue(t)
  BY <1>2 DEF ReadQueue
<1>3. CASE ReadGate(t)
  BY <1>3 DEF ReadGate
<1>4. CASE ReadCounted(t)
  BY <1>4 DEF ReadCounted, ZeroExact
<1>5. CASE ReadFirst(t)
  BY <1>5 DEF ReadFirst
<1>6. CASE ReadLetNext(t)
  <2>1. CASE At(t, "counted", "opening") /\ Unlock("mutex2")
    BY <2>1
  <2>2. CASE At(t, "opening", "unqueueing") /\ Unlock("RWmutex")
    BY <2>2
  <2>3. CASE At(t, "unqueueing", "reading") /\ Unlock("mutex3")
    BY <2>3
  <2> QED
    BY <1>6, <2>1, <2>2, <2>3 DEF ReadLetNext
<1>7. CASE ReadDone(t)
  BY <1>7 DEF ReadDone
<1>8. CASE ReadLast(t)
  <2>1. CASE readCount = 0
    <3>1. \A s \in Threads : pc[s] \in ReadersShare => s = t
      BY <1>8, <2>1 DEF ReadLast, ZeroExact
    <3>2. \A s \in Threads : pc[s] \notin {"writing"}
      BY <1>8 DEF ReadLast
    <3>3. \A s \in Threads : pc'[s] \notin ReadersShare \union {"writing"}
      BY <1>8, <3>1, <3>2 DEF ReadLast
    <3>4. "rwt" \notin held'
      BY <1>8, <2>1 DEF ReadLast
    <3>5. RwtGuards'
      BY <3>3, <3>4
    <3>6. pc[t] = "read" /\ pc' = [pc EXCEPT ![t] = "leaving"] /\ held' = held \ {"rwt"}
      BY <1>8, <2>1 DEF ReadLast
    <3>7. Mutex1Guards'
      BY <3>6
    <3>8. Mutex2Guards'
      BY <3>6
    <3>9. Mutex3Guards'
      BY <3>6
    <3>10. RWmutexGuards'
      BY <3>6
    <3> QED
      BY <3>5, <3>7, <3>8, <3>9, <3>10
  <2>2. CASE readCount # 0
    <3>1. PICK s \in Threads : s # t /\ pc[s] \in ReadersShare
      BY <1>8, <2>2 DEF ReadLast, ZeroExact
    <3> QED
      BY <1>8, <2>2, <3>1 DEF ReadLast
  <2> QED
    BY <2>1, <2>2
<1>9. CASE ReadLeave(t)
  BY <1>9 DEF ReadLeave
<1> QED
  BY <1>1, <1>2, <1>3, <1>4, <1>5, <1>6, <1>7, <1>8, <1>9 DEF Reader

LEMMA WriterKeepsMutexes ==
  ASSUME TypeOK, MutexesGuard, ZeroExact, NEW t \in Writers, WriteCall(t) \/ Writer(t)
  PROVE  MutexesGuard'
<1> USE DEF TypeOK, MutexesGuard, Mutex1Guards, Mutex2Guards, Mutex3Guards, RWmutexGuards,
        RwtGuards, Someone, AtMostOne, Guards, InMutex1, InMutex2, InMutex3, ReaderAtGate,
        WritersAtGate, ReadersShare, ReaderCounted, WriterCounted, Threads, At, Lock,
        Unlock, Counts
<1>1. CASE WriteCall(t)
  BY <1>1 DEF WriteCall
<1>2. CASE WriteQueue(t)
  BY <1>2 DEF WriteQueue, ZeroExact
<1>3. CASE WriteFirst(t)
  BY <1>3 DEF WriteFirst
<1>4. CASE WriteLetNext(t)
  BY <1>4 DEF WriteLetNext
<1>5. CASE WriteEnter(t)
  BY <1>5 DEF WriteEnter
<1>6. CASE WriteDone(t)
  BY <1>6 DEF WriteDone
<1>7. CASE WriteOut(t)
  BY <1>7 DEF WriteOut
<1>8. CASE WriteLast(t)
  <2>1. CASE writeCount = 0
    <3>1. \A s \in Threads : pc[s] \in WritersAtGate => s = t
      BY <1>8, <2>1 DEF WriteLast, ZeroExact
    <3>2. \A s \in Threads : pc[s] \notin ReaderAtGate
      BY <1>8 DEF WriteLast
    <3>3. \A s \in Threads : pc'[s] \notin WritersAtGate \union ReaderAtGate
      BY <1>8, <3>1, <3>2 DEF WriteLast
    <3>4. "RWmutex" \notin held'
      BY <1>8, <2>1 DEF WriteLast
    <3>5. RWmutexGuards'
      BY <3>3, <3>4
    <3>6. pc[t] = "last writer" /\ pc' = [pc EXCEPT ![t] = "written"] /\ held' = held \ {"RWmutex"}
      BY <1>8, <2>1 DEF WriteLast
    <3>7. Mutex1Guards'
      BY <3>6
    <3>8. Mutex2Guards'
      BY <3>6
    <3>9. Mutex3Guards'
      BY <3>6
    <3>10. RwtGuards'
      BY <3>6
    <3> QED
      BY <3>5, <3>7, <3>8, <3>9, <3>10
  <2>2. CASE writeCount # 0
    <3>1. PICK s \in Threads : s # t /\ pc[s] \in WritersAtGate
      BY <1>8, <2>2 DEF WriteLast, ZeroExact
    <3> QED
      BY <1>8, <2>2, <3>1 DEF WriteLast
  <2> QED
    BY <2>1, <2>2
<1>9. CASE WriteLeave(t)
  BY <1>9 DEF WriteLeave
<1> QED
  BY <1>1, <1>2, <1>3, <1>4, <1>5, <1>6, <1>7, <1>8, <1>9 DEF Writer

-----------------------------------------------------------------------------
(* The counters again, and types *)

LEMMA ReaderCounts ==
  ASSUME TypeOK, CountsExact, NEW t \in Readers, ReadCall(t) \/ Reader(t)
  PROVE  CountsExact'
<1> USE DEF TypeOK, CountsExact, Threads, At, Lock, Unlock, Counts, CountedReaders,
        CountedWriters, ReaderCounted, WriterCounted
<1>1. CASE ReadCounted(t)
  <2>1. t \notin CountedReaders /\ CountedReaders' = CountedReaders \union {t}
    BY <1>1 DEF ReadCounted
  <2>2. CountedWriters' = CountedWriters
    BY <1>1 DEF ReadCounted
  <2>3. Cardinality(CountedReaders') = Cardinality(CountedReaders) + 1
    BY <2>1, CountedFinite, FS_AddElement
  <2> QED
    BY <1>1, <2>2, <2>3 DEF ReadCounted
<1>2. CASE ReadDone(t)
  <2>1. t \in CountedReaders /\ CountedReaders' = CountedReaders \ {t}
    BY <1>2 DEF ReadDone
  <2>2. CountedWriters' = CountedWriters
    BY <1>2 DEF ReadDone
  <2>3. Cardinality(CountedReaders') = Cardinality(CountedReaders) - 1
    BY <2>1, CountedFinite, FS_RemoveElement
  <2> QED
    BY <1>2, <2>2, <2>3 DEF ReadDone
<1>3. CASE ~(ReadCounted(t) \/ ReadDone(t))
  <2>1. CountedReaders' = CountedReaders /\ UNCHANGED Counts
    BY <1>3 DEF Reader, ReadCall, ReadQueue, ReadGate, ReadFirst, ReadLetNext, ReadLast, ReadLeave
  <2>2. CountedWriters' = CountedWriters
    BY <1>3 DEF Reader, ReadCall, ReadQueue, ReadGate, ReadFirst, ReadLetNext, ReadLast, ReadLeave
  <2> QED
    BY <2>1, <2>2
<1> QED
  BY <1>1, <1>2, <1>3

LEMMA WriterCounts ==
  ASSUME TypeOK, CountsExact, NEW t \in Writers, WriteCall(t) \/ Writer(t)
  PROVE  CountsExact'
<1> USE DEF TypeOK, CountsExact, Threads, At, Lock, Unlock, Counts, CountedReaders,
        CountedWriters, ReaderCounted, WriterCounted
<1>1. CASE WriteQueue(t)
  <2>1. t \notin CountedWriters /\ CountedWriters' = CountedWriters \union {t}
    BY <1>1 DEF WriteQueue
  <2>2. CountedReaders' = CountedReaders
    BY <1>1 DEF WriteQueue
  <2>3. Cardinality(CountedWriters') = Cardinality(CountedWriters) + 1
    BY <2>1, CountedFinite, FS_AddElement
  <2> QED
    BY <1>1, <2>2, <2>3 DEF WriteQueue
<1>2. CASE WriteOut(t)
  <2>1. t \in CountedWriters /\ CountedWriters' = CountedWriters \ {t}
    BY <1>2 DEF WriteOut
  <2>2. CountedReaders' = CountedReaders
    BY <1>2 DEF WriteOut
  <2>3. Cardinality(CountedWriters') = Cardinality(CountedWriters) - 1
    BY <2>1, CountedFinite, FS_RemoveElement
  <2> QED
    BY <1>2, <2>2, <2>3 DEF WriteOut
<1>3. CASE ~(WriteQueue(t) \/ WriteOut(t))
  <2>1. CountedWriters' = CountedWriters /\ UNCHANGED Counts
    BY <1>3 DEF Writer, WriteCall, WriteFirst, WriteLetNext, WriteEnter, WriteDone, WriteLast, WriteLeave
  <2>2. CountedReaders' = CountedReaders
    BY <1>3 DEF Writer, WriteCall, WriteFirst, WriteLetNext, WriteEnter, WriteDone, WriteLast, WriteLeave
  <2> QED
    BY <2>1, <2>2
<1> QED
  BY <1>1, <1>2, <1>3

\* Nobody leaves the places of the function it has called.
LEMMA PlacesKept ==
  ASSUME TypeOK, InOwnFunction, Next
  PROVE  /\ held' \subseteq Mutexes /\ InOwnFunction'
         /\ pc' \in [Threads -> Places]
<1> USE DEF TypeOK, InOwnFunction, Threads, At, Lock, Unlock, Mutexes, Places, InMutex1, InMutex2,
        InMutex3, ReadersShare, WritersAtGate
<1>1. ASSUME NEW t \in Readers, ReadCall(t) \/ Reader(t)
      PROVE  /\ held' \subseteq Mutexes /\ InOwnFunction'
             /\ pc' \in [Threads -> Places]
  BY <1>1 DEF ReadCall, Reader, ReadQueue, ReadGate, ReadCounted, ReadFirst, ReadLetNext, ReadDone,
        ReadLast, ReadLeave
<1>2. ASSUME NEW t \in Writers, WriteCall(t) \/ Writer(t)
      PROVE  /\ held' \subseteq Mutexes /\ InOwnFunction'
             /\ pc' \in [Threads -> Places]
  BY <1>2 DEF WriteCall, Writer, WriteQueue, WriteFirst, WriteLetNext, WriteEnter, WriteDone, WriteOut,
        WriteLast, WriteLeave
<1> QED
  BY <1>1, <1>2 DEF Next

LEMMA CountersBounded ==
  ASSUME CountsExact, InOwnFunction
  PROVE  /\ readCount \in 0 .. Cardinality(Readers)
         /\ writeCount \in 0 .. Cardinality(Writers)
<1>1. CountedReaders \subseteq Readers /\ CountedWriters \subseteq Writers
  BY DEF CountedReaders, CountedWriters, ReaderCounted, WriterCounted, InOwnFunction,
     InMutex1, InMutex2, InMutex3, ReadersShare, WritersAtGate
<1>2. /\ Cardinality(CountedReaders) \in Nat /\ Cardinality(Readers) \in Nat
      /\ Cardinality(CountedReaders) <= Cardinality(Readers)
  BY <1>1, ThreadsAssumption, FS_Subset, FS_CardinalityType
<1>3. /\ Cardinality(CountedWriters) \in Nat /\ Cardinality(Writers) \in Nat
      /\ Cardinality(CountedWriters) <= Cardinality(Writers)
  BY <1>1, ThreadsAssumption, FS_Subset, FS_CardinalityType
<1> QED
  BY <1>2, <1>3 DEF CountsExact

-----------------------------------------------------------------------------
(* The invariant *)

LEMMA InitIndInv == Init => IndInv
<1> SUFFICES ASSUME Init
             PROVE  IndInv
  OBVIOUS
<1>1. CountedReaders = {} /\ CountedWriters = {}
  BY DEF Init, CountedReaders, CountedWriters, ReaderCounted, WriterCounted
<1>2. CountsExact
  BY <1>1, FS_EmptySet DEF Init, CountsExact
<1>3. InOwnFunction
  BY DEF Init, InOwnFunction, InMutex1, InMutex2, InMutex3, ReadersShare, WritersAtGate
<1>4. TypeOK
  BY <1>2, <1>3, CountersBounded DEF Init, TypeOK, Places, Mutexes
<1>5. Mutex1Guards /\ Mutex2Guards /\ Mutex3Guards /\ RWmutexGuards /\ RwtGuards
  BY DEF Init, Mutex1Guards, Mutex2Guards, Mutex3Guards, RWmutexGuards, RwtGuards, Someone,
     AtMostOne, Guards, InMutex1, InMutex2, InMutex3, ReaderAtGate, WritersAtGate, ReadersShare
<1> QED
  BY <1>2, <1>3, <1>4, <1>5 DEF IndInv

LEMMA StepIndInv == IndInv /\ [Next]_vars => IndInv'
<1> SUFFICES ASSUME IndInv, [Next]_vars
             PROVE  IndInv'
  OBVIOUS
<1>1. CASE Next
  <2>1. TypeOK /\ InOwnFunction /\ CountsExact /\ MutexesGuard /\ ZeroExact
    BY ZeroMeansNone DEF IndInv, MutexesGuard
  <2>2. held' \subseteq Mutexes /\ InOwnFunction' /\ pc' \in [Threads -> Places]
    BY <1>1, <2>1, PlacesKept
  <2>3. CountsExact'
    BY <1>1, <2>1, ReaderCounts, WriterCounts DEF Next
  <2>4. MutexesGuard'
    BY <1>1, <2>1, ReaderKeepsMutexes, WriterKeepsMutexes DEF Next
  <2>5. (CountsExact /\ InOwnFunction =>
            /\ readCount \in 0 .. Cardinality(Readers)
            /\ writeCount \in 0 .. Cardinality(Writers))'
    BY CountersBounded, PTL
  <2>6. TypeOK'
    BY <2>2, <2>3, <2>5 DEF TypeOK
  <2> QED
    BY <2>2, <2>3, <2>4, <2>6 DEF IndInv, MutexesGuard
<1>2. CASE UNCHANGED vars
  BY <1>2 DEF vars, IndInv, TypeOK, InOwnFunction, CountsExact, CountedReaders, CountedWriters,
     Mutex1Guards, Mutex2Guards, Mutex3Guards, RWmutexGuards, RwtGuards, Someone, AtMostOne, Guards
<1> QED
  BY <1>1, <1>2

\* The invariant the theorems below are read off.
THEOREM LockInvariant == Spec => []IndInv
  BY InitIndInv, StepIndInv, PTL DEF Spec

\* Type correctness; that the counters of rwt.cpp stay between 0 and the
\* number of threads rests on all of the invariant.
THEOREM TypesCorrect == Spec => []TypeOK
<1>1. IndInv => TypeOK
  BY DEF IndInv
<1> QED
  BY <1>1, LockInvariant, PTL

-----------------------------------------------------------------------------
(* The refinement *)

\* What a move of one thread does to the abstract state.
LEMMA PhaseMoves ==
  ASSUME TypeOK, NEW t \in Threads, NEW from, NEW to \in Places, At(t, from, to)
  PROVE  /\ Phases[t] = Phase(from)
         /\ Phases' = [Phases EXCEPT ![t] = Phase(to)]
<1>1. pc[t] = from /\ pc' = [pc EXCEPT ![t] = to] /\ pc \in [Threads -> Places]
  BY DEF At, TypeOK
<1>2. Phases[t] = Phase(from)
  BY <1>1 DEF Phases
<1>3. Phases' = [s \in Threads |-> Phase(pc'[s])]
  BY DEF Phases
<1>4. \A s \in Threads : Phase(pc'[s]) = IF s = t THEN Phase(to) ELSE Phases[s]
  BY <1>1 DEF Phases
<1> QED
  BY <1>2, <1>3, <1>4 DEF Phases

\* A thread that moves without changing its phase leaves RWLock alone.
LEMMA Stutters ==
  ASSUME TypeOK, NEW t \in Threads, NEW from, NEW to \in Places, At(t, from, to),
         Phase(from) = Phase(to)
  PROVE  UNCHANGED Phases
<1>1. Phases[t] = Phase(to) /\ Phases' = [Phases EXCEPT ![t] = Phase(to)]
  BY PhaseMoves
<1>2. Phases = [s \in Threads |-> Phases[s]]
  BY DEF Phases
<1> QED
  BY <1>1, <1>2

\* The threads that are at the table or about to be, by their phase.
LEMMA PhaseSets ==
  ASSUME TypeOK
  PROVE  /\ Abstract!In("announced") = {s \in Threads : pc[s] \in {"announced", "waiting"}}
         /\ Abstract!In("writes") = {s \in Threads : pc[s] = "writing"}
         /\ Abstract!In("reads") =
              {s \in Threads : pc[s] \in {"counted", "opening", "unqueueing", "reading"}}
<1>1. \A p : /\ Phase(p) = "announced" <=> p \in {"announced", "waiting"}
             /\ Phase(p) = "writes" <=> p = "writing"
             /\ Phase(p) = "reads" <=> p \in {"counted", "opening", "unqueueing", "reading"}
  BY DEF Phase
<1> QED
  BY <1>1 DEF Abstract!In, Abstract!Threads, Phases, Threads

LEMMA ReaderRefines ==
  ASSUME IndInv, NEW t \in Readers, ReadCall(t) \/ Reader(t)
  PROVE  Abstract!Read(t) \/ Abstract!Leave(t) \/ UNCHANGED Phases
<1>0. t \in Threads /\ TypeOK /\ ZeroExact
  BY ZeroMeansNone DEF IndInv, Threads
<1>1. CASE ReadCall(t)
  BY <1>0, <1>1, Stutters DEF ReadCall, Places, Phase
<1>2. CASE ReadQueue(t)
  BY <1>0, <1>2, Stutters DEF ReadQueue, Places, Phase
<1>3. CASE ReadGate(t)
  BY <1>0, <1>3, Stutters DEF ReadGate, Places, Phase
<1>4. CASE ReadCounted(t)
  <2>1. CASE readCount = 0
    BY <1>0, <1>4, <2>1, Stutters DEF ReadCounted, Places, Phase
  <2>2. CASE readCount # 0
    <3>1. Phases[t] = "out" /\ Phases' = [Phases EXCEPT ![t] = "reads"]
      <4>1. At(t, "counting", "counted")
        BY <1>4, <2>2 DEF ReadCounted
      <4>2. Phase("counting") = "out" /\ Phase("counted") = "reads" /\ "counted" \in Places
        BY DEF Phase, Places
      <4> QED
        BY <1>0, <4>1, <4>2, PhaseMoves
    <3>2. pc[t] = "counting" /\ "mutex2" \notin held
      BY <1>4 DEF ReadCounted, At, Lock
    <3>3. Someone(ReadersShare)
      BY <1>0, <2>2, <3>2 DEF IndInv, ZeroExact, Someone, ReaderCounted, ReadersShare,
         Mutex2Guards, Guards, InMutex2
    <3>4. \A s \in Threads : pc[s] \notin {"announced", "waiting", "writing"}
      BY <1>0, <3>2, <3>3 DEF IndInv, RWmutexGuards, RwtGuards, Someone, ReaderAtGate, WritersAtGate
    <3> QED
      BY <1>0, <3>1, <3>4, PhaseSets DEF Abstract!Read, Abstract!Turns
  <2> QED
    BY <2>1, <2>2
<1>5. CASE ReadFirst(t)
  <2>1. Phases[t] = "out" /\ Phases' = [Phases EXCEPT ![t] = "reads"]
    <3>1. At(t, "first", "counted")
      BY <1>5 DEF ReadFirst
    <3>2. Phase("first") = "out" /\ Phase("counted") = "reads" /\ "counted" \in Places
      BY DEF Phase, Places
    <3> QED
      BY <1>0, <3>1, <3>2, PhaseMoves
  <2>2. pc[t] = "first" /\ "rwt" \notin held
    BY <1>5 DEF ReadFirst, At, Lock
  <2>3. \A s \in Threads : pc[s] \notin {"announced", "waiting", "writing"}
    BY <1>0, <2>2 DEF IndInv, RWmutexGuards, RwtGuards, Guards, Someone, ReaderAtGate, WritersAtGate
  <2> QED
    BY <1>0, <2>1, <2>3, PhaseSets DEF Abstract!Read, Abstract!Turns
<1>6. CASE ReadLetNext(t)
  <2>1. CASE At(t, "counted", "opening")
    BY <1>0, <2>1, Stutters DEF Places, Phase
  <2>2. CASE At(t, "opening", "unqueueing")
    BY <1>0, <2>2, Stutters DEF Places, Phase
  <2>3. CASE At(t, "unqueueing", "reading")
    BY <1>0, <2>3, Stutters DEF Places, Phase
  <2> QED
    BY <1>6, <2>1, <2>2, <2>3 DEF ReadLetNext
<1>7. CASE ReadDone(t)
  <2>1. Phases[t] = "reads" /\ Phases' = [Phases EXCEPT ![t] = "out"]
    <3>1. At(t, "reading", "read")
      BY <1>7 DEF ReadDone
    <3>2. Phase("reading") = "reads" /\ Phase("read") = "out" /\ "read" \in Places
      BY DEF Phase, Places
    <3> QED
      BY <1>0, <3>1, <3>2, PhaseMoves
  <2> QED
    BY <2>1 DEF Abstract!Leave, Abstract!Turns
<1>8. CASE ReadLast(t)
  BY <1>0, <1>8, Stutters DEF ReadLast, Places, Phase
<1>9. CASE ReadLeave(t)
  BY <1>0, <1>9, Stutters DEF ReadLeave, Places, Phase
<1> QED
  BY <1>1, <1>2, <1>3, <1>4, <1>5, <1>6, <1>7, <1>8, <1>9 DEF Reader

LEMMA WriterRefines ==
  ASSUME IndInv, NEW t \in Writers, WriteCall(t) \/ Writer(t)
  PROVE  Abstract!Announce(t) \/ Abstract!Write(t) \/ Abstract!Leave(t) \/ UNCHANGED Phases
<1>0. t \in Threads /\ TypeOK
  BY DEF IndInv, Threads
<1>1. CASE WriteCall(t)
  BY <1>0, <1>1, Stutters DEF WriteCall, Places, Phase
<1>2. CASE WriteQueue(t)
  <2>1. CASE writeCount = 0
    BY <1>0, <1>2, <2>1, Stutters DEF WriteQueue, Places, Phase
  <2>2. CASE writeCount # 0
    <3>1. Phases[t] = "out" /\ Phases' = [Phases EXCEPT ![t] = "announced"]
      <4>1. At(t, "writer calls", "announced")
        BY <1>2, <2>2 DEF WriteQueue
      <4>2. Phase("writer calls") = "out" /\ Phase("announced") = "announced" /\ "announced" \in Places
        BY DEF Phase, Places
      <4> QED
        BY <1>0, <4>1, <4>2, PhaseMoves
    <3> QED
      BY <3>1 DEF Abstract!Announce, Abstract!Turns
  <2> QED
    BY <2>1, <2>2
<1>3. CASE WriteFirst(t)
  <2>1. Phases[t] = "out" /\ Phases' = [Phases EXCEPT ![t] = "announced"]
    <3>1. At(t, "first writer", "announced")
      BY <1>3 DEF WriteFirst
    <3>2. Phase("first writer") = "out" /\ Phase("announced") = "announced" /\ "announced" \in Places
      BY DEF Phase, Places
    <3> QED
      BY <1>0, <3>1, <3>2, PhaseMoves
  <2> QED
    BY <2>1 DEF Abstract!Announce, Abstract!Turns
<1>4. CASE WriteLetNext(t)
  BY <1>0, <1>4, Stutters DEF WriteLetNext, Places, Phase
<1>5. CASE WriteEnter(t)
  <2>1. Phases[t] = "announced" /\ Phases' = [Phases EXCEPT ![t] = "writes"]
    <3>1. At(t, "waiting", "writing")
      BY <1>5 DEF WriteEnter
    <3>2. Phase("waiting") = "announced" /\ Phase("writing") = "writes" /\ "writing" \in Places
      BY DEF Phase, Places
    <3> QED
      BY <1>0, <3>1, <3>2, PhaseMoves
  <2>2. "rwt" \notin held
    BY <1>5 DEF WriteEnter, Lock
  <2>3. \A s \in Threads : pc[s] \notin ReadersShare \union {"writing"}
    BY <2>2 DEF IndInv, RwtGuards, Guards, Someone
  <2> QED
    BY <1>0, <2>1, <2>3, PhaseSets DEF Abstract!Write, Abstract!Turns, ReadersShare
<1>6. CASE WriteDone(t)
  <2>1. Phases[t] = "writes" /\ Phases' = [Phases EXCEPT ![t] = "out"]
    <3>1. At(t, "writing", "wrote")
      BY <1>6 DEF WriteDone
    <3>2. Phase("writing") = "writes" /\ Phase("wrote") = "out" /\ "wrote" \in Places
      BY DEF Phase, Places
    <3> QED
      BY <1>0, <3>1, <3>2, PhaseMoves
  <2> QED
    BY <2>1 DEF Abstract!Leave, Abstract!Turns
<1>7. CASE WriteOut(t)
  BY <1>0, <1>7, Stutters DEF WriteOut, Places, Phase
<1>8. CASE WriteLast(t)
  BY <1>0, <1>8, Stutters DEF WriteLast, Places, Phase
<1>9. CASE WriteLeave(t)
  BY <1>0, <1>9, Stutters DEF WriteLeave, Places, Phase
<1> QED
  BY <1>1, <1>2, <1>3, <1>4, <1>5, <1>6, <1>7, <1>8, <1>9 DEF Writer

\* The five mutexes implement RWLock: readers share, a writer is alone, and
\* no reader gets past an announced writer, for any number of threads.
THEOREM MutexesImplementRWLock == Spec => ImplementsRWLock
<1>1. Init => Abstract!Init
  BY DEF Init, Abstract!Init, Abstract!Threads, Phases, Phase, Threads
<1>2. IndInv /\ [Next]_vars => [Abstract!Next]_Phases
  <2> SUFFICES ASSUME IndInv, [Next]_vars
               PROVE  [Abstract!Next]_Phases
    OBVIOUS
  <2>1. ASSUME NEW t \in Readers, ReadCall(t) \/ Reader(t)
        PROVE  [Abstract!Next]_Phases
    <3>1. t \in Abstract!Threads
      BY DEF Abstract!Threads
    <3> QED
      BY <2>1, <3>1, ReaderRefines DEF Abstract!Next
  <2>2. ASSUME NEW t \in Writers, WriteCall(t) \/ Writer(t)
        PROVE  [Abstract!Next]_Phases
    <3>1. t \in Abstract!Threads
      BY DEF Abstract!Threads
    <3> QED
      BY <2>2, <3>1, WriterRefines DEF Abstract!Next
  <2>3. CASE UNCHANGED vars
    BY <2>3 DEF vars, Phases
  <2> QED
    BY <2>1, <2>2, <2>3 DEF Next
<1> QED
  BY <1>1, <1>2, LockInvariant, PTL DEF Spec, ImplementsRWLock, Abstract!Spec
=============================================================================
