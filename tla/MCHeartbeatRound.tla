-------------------------- MODULE MCHeartbeatRound --------------------------
(***************************************************************************)
(* HeartbeatRound with two clients and a handful of descriptors.           *)
(***************************************************************************)
EXTENDS HeartbeatRound, TLC

CONSTANTS c1, c2

MCClients == {c1, c2}
\* The liveness property only speaks of behaviours without a connection
\* that could not be started; the states after one need not be visited.
Untainted == ~tainted
\* The safety properties but TypeOK do so too; of the states after such a
\* connection those are visited where room for another one is left.
FewLeaks == tainted => Cardinality({f \in FDs : sock[f].to # Nowhere}) <= 2
ClientSymmetry == Permutations(Clients)
=============================================================================
