----------------------------- MODULE MCRecovery -----------------------------
(***************************************************************************)
(* Instances of Recovery for TLC: Alice pays, Bob's worker (and her own)   *)
(* serve, the server stops and comes back.                                 *)
(***************************************************************************)
EXTENDS Recovery, TLC

CONSTANTS alice, bob, w1, j1, j2, small

MCUsers == {alice, bob}
MCGrants == {2}
NoAdjustments == {}
MCPrices == {1}
MCSelectors == {small}

TwoJobs == {j1, j2}
OneWorker == {w1}

MCOffers == {[owner |-> bob, serves |-> {small}, online |-> TRUE, capacity |-> 1]}

JobSymmetry == Permutations(TwoJobs)

=============================================================================
