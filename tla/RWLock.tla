------------------------------- MODULE RWLock -------------------------------
(***************************************************************************)
(* What Reader and Writer (rwt/rwt.cpp) promise their callers, without the *)
(* five mutexes: readers share the table, a writer has it alone, and once  *)
(* a writer has announced itself no further reader is let in before it.    *)
(***************************************************************************)
CONSTANTS Readers, Writers  \* the threads that call Reader, and Writer

VARIABLE phase  \* what each thread does at the table

Threads == Readers \union Writers
Phases == {"out", "reads", "announced", "writes"}

In(p) == {t \in Threads : phase[t] = p}

Init == phase = [t \in Threads |-> "out"]

Turns(t, from, to) == phase[t] = from /\ phase' = [phase EXCEPT ![t] = to]

Read(t) == In("announced") \union In("writes") = {} /\ Turns(t, "out", "reads")

Announce(t) == Turns(t, "out", "announced")

Write(t) == In("reads") \union In("writes") = {} /\ Turns(t, "announced", "writes")

Leave(t) == Turns(t, "reads", "out") \/ Turns(t, "writes", "out")

Next == \/ \E t \in Readers : Read(t)
        \/ \E t \in Writers : Announce(t) \/ Write(t)
        \/ \E t \in Threads : Leave(t)

Spec == Init /\ [][Next]_phase
=============================================================================
