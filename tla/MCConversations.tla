-------------------------- MODULE MCConversations --------------------------
(***************************************************************************)
(* Instances of Conversations for TLC: Alice's prompts in two threads, on  *)
(* Bob's worker, with credits for two jobs at a time.                      *)
(***************************************************************************)
EXTENDS Conversations, TLC

CONSTANTS alice, bob, w1, j1, j2, j3, c1, c2, small

MCUsers == {alice, bob}
MCGrants == {2}
NoAdjustments == {}
MCPrices == {1}
MCSelectors == {small}
ThreeJobs == {j1, j2, j3}
OneWorker == {w1}
TwoThreads == {c1, c2}

MCOffers == {[owner |-> bob, serves |-> {small}, online |-> TRUE, capacity |-> 2]}

JobSymmetry == Permutations(ThreeJobs) \cup Permutations(TwoThreads)

=============================================================================
