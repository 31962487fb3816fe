--------------------------- MODULE ReadersWriters ---------------------------
(***************************************************************************)
(* Reader and Writer of the first version (rwt/rwt.cpp), which guard the   *)
(* table of users with five mutexes and two counters.  The first reader    *)
(* takes rwt for all readers and the last one gives it back; the first     *)
(* writer takes RWmutex for all writers.  The mutexes are of glibc's       *)
(* default kind, which lets another thread unlock than the one that        *)
(* locked, so a mutex is only locked or not.                               *)
(*                                                                         *)
(* One action per mutex operation.  The counters are only touched under    *)
(* mutex2 (readCount) and mutex1 (writeCount), so an increment, or a       *)
(* decrement, belongs to the step that takes the mutex.                    *)
(***************************************************************************)
EXTENDS Naturals, FiniteSets

CONSTANTS Readers, Writers  \* the threads that call Reader, and Writer

ASSUME ThreadsAssumption == IsFiniteSet(Readers) /\ IsFiniteSet(Writers)

VARIABLES
  readCount, writeCount,
  held,  \* the mutexes that are locked
  pc     \* where each thread is in Reader or Writer, or outside

vars == <<readCount, writeCount, held, pc>>

Threads == Readers \union Writers
Mutexes == {"mutex1", "mutex2", "mutex3", "RWmutex", "rwt"}

Init ==
  /\ readCount = 0 /\ writeCount = 0
  /\ held = {}
  /\ pc = [t \in Threads |-> "outside"]

At(t, from, to) == pc[t] = from /\ pc' = [pc EXCEPT ![t] = to]

Lock(m) == m \notin held /\ held' = held \union {m}

Unlock(m) == held' = held \ {m}

Counts == <<readCount, writeCount>>

-----------------------------------------------------------------------------
(* Reader *)

ReadCall(t) == At(t, "outside", "reader calls") /\ UNCHANGED <<held, readCount, writeCount>>

ReadQueue(t) == At(t, "reader calls", "at gate") /\ Lock("mutex3") /\ UNCHANGED Counts

ReadGate(t) == At(t, "at gate", "counting") /\ Lock("RWmutex") /\ UNCHANGED Counts

ReadCounted(t) ==
  /\ At(t, "counting", IF readCount = 0 THEN "first" ELSE "counted")
  /\ Lock("mutex2")
  /\ readCount' = readCount + 1
  /\ UNCHANGED writeCount

ReadFirst(t) == At(t, "first", "counted") /\ Lock("rwt") /\ UNCHANGED Counts

ReadLetNext(t) ==
  /\ \/ At(t, "counted", "opening") /\ Unlock("mutex2")
     \/ At(t, "opening", "unqueueing") /\ Unlock("RWmutex")
     \/ At(t, "unqueueing", "reading") /\ Unlock("mutex3")
  /\ UNCHANGED Counts

\* Mutant: a reader that leaves still counts.
ReadDoneCounted(t) ==
  /\ At(t, "reading", "read")
  /\ Lock("mutex2")
  /\ UNCHANGED Counts

\* getout is done.
ReadDone(t) ==
  /\ At(t, "reading", "read")
  /\ Lock("mutex2")
  /\ readCount' = readCount - 1
  /\ UNCHANGED writeCount

\* Mutant: every reader that leaves gives rwt back.
ReadLastAny(t) == At(t, "read", "leaving") /\ Unlock("rwt") /\ UNCHANGED Counts

ReadLast(t) ==
  /\ At(t, "read", "leaving")
  /\ IF readCount = 0 THEN Unlock("rwt") ELSE UNCHANGED held
  /\ UNCHANGED Counts

ReadLeave(t) == At(t, "leaving", "outside") /\ Unlock("mutex2") /\ UNCHANGED Counts

-----------------------------------------------------------------------------
(* Writer *)

WriteCall(t) == At(t, "outside", "writer calls") /\ UNCHANGED <<held, readCount, writeCount>>

WriteQueue(t) ==
  /\ At(t, "writer calls", IF writeCount = 0 THEN "first writer" ELSE "announced")
  /\ Lock("mutex1")
  /\ writeCount' = writeCount + 1
  /\ UNCHANGED readCount

WriteFirst(t) ==
  At(t, "first writer", "announced") /\ Lock("RWmutex") /\ UNCHANGED Counts

WriteLetNext(t) ==
  At(t, "announced", "waiting") /\ Unlock("mutex1") /\ UNCHANGED Counts

WriteEnter(t) == At(t, "waiting", "writing") /\ Lock("rwt") /\ UNCHANGED Counts

\* add or del is done.
WriteDone(t) == At(t, "writing", "wrote") /\ Unlock("rwt") /\ UNCHANGED Counts

WriteOut(t) ==
  /\ At(t, "wrote", "last writer")
  /\ Lock("mutex1")
  /\ writeCount' = writeCount - 1
  /\ UNCHANGED readCount

\* Mutant: whoever writes last keeps the gate shut.
WriteLastForgotten(t) ==
  /\ At(t, "last writer", "written")
  /\ UNCHANGED <<held, readCount, writeCount>>

WriteLast(t) ==
  /\ At(t, "last writer", "written")
  /\ IF writeCount = 0 THEN Unlock("RWmutex") ELSE UNCHANGED held
  /\ UNCHANGED Counts

WriteLeave(t) == At(t, "written", "outside") /\ Unlock("mutex1") /\ UNCHANGED Counts

-----------------------------------------------------------------------------
Reader(t) == ReadQueue(t) \/ ReadGate(t) \/ ReadCounted(t) \/ ReadFirst(t)
  \/ ReadLetNext(t) \/ ReadDone(t) \/ ReadLast(t) \/ ReadLeave(t)

Writer(t) == WriteQueue(t) \/ WriteFirst(t) \/ WriteLetNext(t) \/ WriteEnter(t)
  \/ WriteDone(t) \/ WriteOut(t) \/ WriteLast(t) \/ WriteLeave(t)

Next == \/ \E t \in Readers : ReadCall(t) \/ Reader(t)
        \/ \E t \in Writers : WriteCall(t) \/ Writer(t)

Spec == Init /\ [][Next]_vars

\* Nobody has to call, but who has called runs on, and a mutex that is free
\* again and again is got in the end.
FairSpec ==
  /\ Spec
  /\ \A t \in Readers : SF_vars(Reader(t))
  /\ \A t \in Writers : SF_vars(Writer(t))

-----------------------------------------------------------------------------
Places ==
  {"outside", "reader calls", "at gate", "counting", "first", "counted", "opening",
   "unqueueing", "reading", "read", "leaving",
   "writer calls", "first writer", "announced", "waiting", "writing", "wrote", "last writer", "written"}

TypeOK ==
  /\ readCount \in 0..Cardinality(Readers)
  /\ writeCount \in 0..Cardinality(Writers)
  /\ held \subseteq Mutexes
  /\ pc \in [Threads -> Places]

(* What holds each mutex, place by place. *)

\* RWmutex belongs to one reader on its way in, or to all writers together;
\* rwt to one writer, or to all readers together.
InMutex1 == {"first writer", "announced", "last writer", "written"}
InMutex2 == {"first", "counted", "read", "leaving"}
InMutex3 == {"at gate", "counting", "first", "counted", "opening", "unqueueing"}
ReaderAtGate == {"counting", "first", "counted", "opening"}
WritersAtGate == {"announced", "waiting", "writing", "wrote", "last writer"}
ReadersShare == {"counted", "opening", "unqueueing", "reading", "read"}

ReaderCounted == {"first", "counted", "opening", "unqueueing", "reading"}
WriterCounted == {"first writer", "announced", "waiting", "writing", "wrote"}
CountedReaders == {t \in Threads : pc[t] \in ReaderCounted}
CountedWriters == {t \in Threads : pc[t] \in WriterCounted}

Someone(places) == \E t \in Threads : pc[t] \in places
AtMostOne(places) == \A s, t \in Threads : pc[s] \in places /\ pc[t] \in places => s = t
Guards(m, places) == m \in held <=> Someone(places)

\* A mutex is locked exactly while somebody is where it is held, and who
\* must be alone there is.
Mutex1Guards == AtMostOne(InMutex1) /\ Guards("mutex1", InMutex1)
Mutex2Guards == AtMostOne(InMutex2) /\ Guards("mutex2", InMutex2)
Mutex3Guards == AtMostOne(InMutex3) /\ Guards("mutex3", InMutex3)
RWmutexGuards ==
  /\ AtMostOne(ReaderAtGate)
  /\ ~(Someone(ReaderAtGate) /\ Someone(WritersAtGate))
  /\ Guards("RWmutex", ReaderAtGate \union WritersAtGate)
RwtGuards ==
  /\ AtMostOne({"writing"})
  /\ ~(Someone(ReadersShare) /\ Someone({"writing"}))
  /\ Guards("rwt", ReadersShare \union {"writing"})

\* The counters count.
CountsExact ==
  /\ readCount = Cardinality(CountedReaders)
  /\ writeCount = Cardinality(CountedWriters)

\* Nobody is in the other function.
InOwnFunction ==
  \A t \in Threads :
    /\ pc[t] \in InMutex2 \union InMutex3 \union ReadersShare => t \in Readers
    /\ pc[t] \in InMutex1 \union WritersAtGate => t \in Writers

\* The inductive invariant: the counters count who is in, each mutex is
\* locked exactly while somebody is where rwt.cpp:25-80 holds it, whoever
\* will unlock it, and the owners of RWmutex and rwt exclude each other.
IndInv ==
  /\ TypeOK /\ InOwnFunction /\ CountsExact
  /\ Mutex1Guards /\ Mutex2Guards /\ Mutex3Guards /\ RWmutexGuards /\ RwtGuards

\* A reader is in from the moment it holds rwt, or finds that the readers do.
Phase(p) ==
  CASE p \in {"counted", "opening", "unqueueing", "reading"} -> "reads"
    [] p \in {"announced", "waiting"} -> "announced"
    [] p = "writing" -> "writes"
    [] OTHER -> "out"

Phases == [t \in Threads |-> Phase(pc[t])]

Abstract == INSTANCE RWLock WITH phase <- Phases

\* Refinement: the mutexes of rwt.cpp implement RWLock. Readers and writers
\* exclude each other, writers exclude writers, and no reader gets in past
\* an announced writer, whoever unlocks what another thread has locked.
ImplementsRWLock == Abstract!Spec

\* Liveness: whoever calls Writer gets to write, however many readers keep
\* coming, since the gate stops them (rwt.cpp:53-80); writers may keep a
\* reader out for ever, but only by never letting the last of them leave: if
\* no writer is counted again and again, every reader that calls gets to
\* read (rwt.cpp:25-50).
CallersServed ==
  /\ \A t \in Writers : pc[t] = "writer calls" ~> pc[t] = "writing"
  /\ []<>(writeCount = 0)
       => \A t \in Readers : pc[t] = "reader calls" ~> pc[t] = "reading"
=============================================================================
