--------------------------- MODULE MCCoordinator ---------------------------
(***************************************************************************)
(* Instances of Coordinator for TLC.  Alice and Bob each have credits, own *)
(* workers and submit jobs; a worker can change hands, selectors, limit    *)
(* and be announced offline.                                               *)
(***************************************************************************)
EXTENDS Coordinator, TLC

CONSTANTS alice, bob, w1, w2, j1, j2, small, large

MCUsers == {alice, bob}
MCJobIds == {j1, j2}
MCGrants == {3}
MCAdjustments == {3}
MCSelectors == {small, large}

(* Workers that compete for the queue, serve everything or change hands;   *)
(* prices on which the worker's share truncates.                           *)
OneWorker == {w1}
TwoWorkers == {w1, w2}
MCOffers ==
    {[owner |-> bob, serves |-> {small, large}, online |-> TRUE, capacity |-> 1],
     [owner |-> alice, serves |-> {small}, online |-> FALSE, capacity |-> 2]}
MCPrices == {1, 2}

JobSymmetry == Permutations(MCJobIds)

WorkerSymmetry == Permutations(TwoWorkers) \cup JobSymmetry

=============================================================================
