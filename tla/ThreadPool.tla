----------------------------- MODULE ThreadPool -----------------------------
(***************************************************************************)
(* The thread pool of the first version (pool/pool.cpp).  main adds works; *)
(* the workers wait on a condition variable for len, take the first work   *)
(* of the first bucket that has one, and run it; del ends the workers and  *)
(* destroys the pool.                                                      *)
(*                                                                         *)
(* What is done under the pool's mutex is one action, with the test of     *)
(* the workers' loop apart from the wait it leads to: shutdown is set      *)
(* without the mutex and may change in between.                            *)
(***************************************************************************)
EXTENDS Naturals, Sequences

CONSTANTS
  Workers,  \* the threads of the pool (5 in the code)
  MAXN,     \* the number of buckets (100 in the code)
  Works,    \* bound: the works that main adds
  NULL

VARIABLES
  bucket,    \* the works of each bucket of hash_user
  len,       \* hash_user's len
  shutdown,
  mutex,     \* a worker between its test and its wait, or "free"
  worker,    \* each worker's place and p
  main,      \* main's place: adding, or in del
  added, ran, crashed  \* works handed in, works run, the process is gone

pool == <<bucket, len, shutdown>>
vars == <<pool, mutex, worker, main, added, ran, crashed>>

Buckets == 0 .. MAXN - 1

Init ==
  /\ bucket = [b \in Buckets |-> <<>>]
  /\ len = 0 /\ shutdown = FALSE
  /\ mutex = "free"
  /\ worker = [w \in Workers |-> [pc |-> "lock", p |-> NULL]]
  /\ main = "add"
  /\ added = {} /\ ran = {} /\ crashed = FALSE

\* The chain of a bucket with a work behind its last; a chain that is empty
\* stays empty, since only the local p is assigned.
Linked(chain, x) == IF chain = <<>> THEN <<>> ELSE Append(chain, x)

AddWork(x, b) ==
  /\ main = "add" /\ x \notin added /\ mutex = "free"
  /\ bucket' = [bucket EXCEPT ![b] = Linked(@, x)]
  /\ len' = len + 1
  /\ added' = added \union {x}
  /\ main' = "signal"
  /\ UNCHANGED <<shutdown, mutex, worker, ran, crashed>>

Asleep == {w \in Workers : worker[w].pc = "asleep"}

Wake(S) == worker' = [w \in Workers |->
                        IF w \in S THEN [worker[w] EXCEPT !.pc = "lock"] ELSE worker[w]]

\* pthread_cond_signal wakes one of those that wait, if any does.
AddSignal ==
  /\ main = "signal" /\ main' = "add"
  /\ IF Asleep = {} THEN UNCHANGED worker ELSE \E w \in Asleep : Wake({w})
  /\ UNCHANGED <<pool, mutex, added, ran, crashed>>

DelShutdown ==
  /\ main = "add" /\ ~shutdown
  /\ shutdown' = TRUE
  /\ main' = "broadcast"
  /\ UNCHANGED <<bucket, len, mutex, worker, added, ran, crashed>>

DelBroadcast ==
  /\ main = "broadcast" /\ main' = "join"
  /\ Wake(Asleep)
  /\ UNCHANGED <<pool, mutex, added, ran, crashed>>

\* All are joined; the works that are left are freed.
DelDestroy ==
  /\ main = "join" /\ \A w \in Workers : worker[w].pc = "exited"
  /\ bucket' = [b \in Buckets |-> <<>>]
  /\ main' = "destroyed"
  /\ UNCHANGED <<len, shutdown, mutex, worker, added, ran, crashed>>

WorkerAt(w, from, to) ==
  worker[w].pc = from /\ worker' = [worker EXCEPT ![w].pc = to]

TestWaits(w) ==
  /\ WorkerAt(w, "lock", "wait") /\ mutex = "free"
  /\ len = 0 /\ ~shutdown
  /\ mutex' = w
  /\ UNCHANGED <<pool, main, added, ran, crashed>>

Wait(w) ==
  /\ WorkerAt(w, "wait", "asleep")
  /\ mutex' = "free"
  /\ UNCHANGED <<pool, main, added, ran, crashed>>

WokenForNothing(w) ==
  /\ w \in Asleep /\ Wake({w})
  /\ UNCHANGED <<pool, mutex, main, added, ran, crashed>>

TestExits(w) ==
  /\ WorkerAt(w, "lock", "exited") /\ mutex = "free" /\ shutdown
  /\ UNCHANGED <<pool, mutex, main, added, ran, crashed>>

Filled == {b \in Buckets : bucket[b] # <<>>}

Take(w) ==
  /\ worker[w].pc = "lock" /\ mutex = "free"
  /\ len # 0 /\ ~shutdown
  /\ len' = len - 1
  /\ IF Filled = {}
     THEN /\ worker' = [worker EXCEPT ![w] = [pc |-> "run", p |-> NULL]]
          /\ UNCHANGED bucket
     ELSE LET b == CHOOSE c \in Filled : \A d \in Filled : c <= d
          IN /\ worker' = [worker EXCEPT ![w] = [pc |-> "run", p |-> Head(bucket[b])]]
             /\ bucket' = [bucket EXCEPT ![b] = Tail(@)]
  /\ UNCHANGED <<shutdown, mutex, main, added, ran, crashed>>

Run(w) ==
  /\ worker[w].pc = "run" /\ worker[w].p # NULL
  /\ ran' = ran \union {worker[w].p}
  /\ worker' = [worker EXCEPT ![w] = [pc |-> "lock", p |-> NULL]]
  /\ UNCHANGED <<pool, mutex, main, added, crashed>>

\* (p->func)(p->arg) of a NULL p.
RunNothing(w) ==
  /\ worker[w].pc = "run" /\ worker[w].p = NULL
  /\ crashed' = TRUE
  /\ UNCHANGED <<pool, mutex, worker, main, added, ran>>

Worker(w) == \/ TestWaits(w) \/ Wait(w) \/ TestExits(w) \/ Take(w)
             \/ Run(w) \/ RunNothing(w)

Del == DelShutdown \/ DelBroadcast \/ DelDestroy

Next == /\ ~crashed
        /\ \/ \E x \in Works, b \in Buckets : AddWork(x, b)
           \/ AddSignal \/ Del
           \/ \E w \in Workers : Worker(w) \/ WokenForNothing(w)

Spec == Init /\ [][Next]_vars

\* The threads run on; a mutex that is free again and again is got; nobody
\* has to add a work, end the pool, or wake for nothing.
FairSpec ==
  /\ Spec
  /\ WF_vars(~crashed /\ (AddSignal \/ DelBroadcast \/ DelDestroy))
  /\ \A w \in Workers : SF_vars(~crashed /\ Worker(w))

-----------------------------------------------------------------------------
\* What pool.h:15-16 says of the mutex and the condition variable: by them
\* every work is run by a thread. Works still waiting when del is called
\* are not meant to be run.
EveryWorkRuns == \A x \in Works : x \in added ~> (x \in ran \/ shutdown)
=============================================================================
