---------------------------- MODULE MCIdentity ----------------------------
(***************************************************************************)
(* An instance of Identity for TLC: two people, one an admin, one worker   *)
(* and one token; a job can put all bootstrap credits on hold.             *)
(***************************************************************************)
EXTENDS Identity, TLC

CONSTANTS u1, u2, uid1, uid2, j1, w1, t1

MCUsers == {u1, u2}
MCUids == {uid1, uid2}
MCAdmins == {uid1}
MCJobs == {j1}
MCWorkers == {w1}
MCTokens == {t1}
MCGrants == {2}
MCPrices == {1, 2}
MCAdjustments == {-1}

UserSymmetry == Permutations(MCUsers)

=============================================================================
