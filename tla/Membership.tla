----------------------------- MODULE Membership -----------------------------
(***************************************************************************)
(* What the master promises about who is registered, with no pointers, no  *)
(* lock and no threads.  A session is one registration of one client       *)
(* machine.  Sessions wait in queues; each is collected by one worker.     *)
(*                                                                         *)
(*  - While the master is starting, sessions may be enrolled in any queue. *)
(*  - Once it is in service, a session joins, in one step, at the end of a *)
(*    shortest queue, and never while a round of verdicts is going on.     *)
(*  - A round puts every session of that moment under suspicion, passes    *)
(*    exactly one verdict on each, and ends when none is left.  Only a     *)
(*    verdict removes a session, and it leaves the order of the others.    *)
(***************************************************************************)
EXTENDS Naturals, Sequences, SequencesExt

CONSTANTS Queues, Sessions

VARIABLES
  lists,      \* the sessions of each queue, in the order they joined
  inService,  \* FALSE while the configured sessions are being enrolled
  inRound,    \* verdicts are being passed
  suspects    \* the sessions the round has still to judge

mvars == <<lists, inService, inRound, suspects>>

Members == UNION {Range(lists[q]) : q \in Queues}

MInit ==
  /\ lists = [q \in Queues |-> <<>>]
  /\ inService = FALSE
  /\ inRound = FALSE
  /\ suspects = {}

Join(s, q) == lists' = [lists EXCEPT ![q] = Append(@, s)]

Enroll(s, q) ==
  /\ ~inService
  /\ s \notin Members
  /\ Join(s, q)
  /\ UNCHANGED <<inService, inRound, suspects>>

StartService ==
  /\ ~inService
  /\ inService' = TRUE
  /\ UNCHANGED <<lists, inRound, suspects>>

Register(s, q) ==
  /\ inService /\ ~inRound
  /\ s \notin Members
  /\ \A k \in Queues : Len(lists[q]) <= Len(lists[k])
  /\ Join(s, q)
  /\ UNCHANGED <<inService, inRound, suspects>>

StartRound ==
  /\ inService /\ ~inRound
  /\ inRound' = TRUE
  /\ suspects' = Members
  /\ UNCHANGED <<lists, inService>>

Clear(s) ==
  /\ inRound /\ s \in suspects
  /\ suspects' = suspects \ {s}
  /\ UNCHANGED <<lists, inService, inRound>>

Evict(q, i) ==
  /\ inRound /\ i \in DOMAIN lists[q] /\ lists[q][i] \in suspects
  /\ suspects' = suspects \ {lists[q][i]}
  /\ lists' = [lists EXCEPT ![q] = RemoveAt(@, i)]
  /\ UNCHANGED <<inService, inRound>>

EndRound ==
  /\ inRound /\ suspects = {}
  /\ inRound' = FALSE
  /\ UNCHANGED <<lists, inService, suspects>>

MNext ==
  \/ \E s \in Sessions, q \in Queues : Enroll(s, q) \/ Register(s, q)
  \/ \E s \in Sessions : Clear(s)
  \/ \E q \in Queues : \E i \in DOMAIN lists[q] : Evict(q, i)
  \/ StartService \/ StartRound \/ EndRound

MSpec == MInit /\ [][MNext]_mvars
=============================================================================
