------------------------------ MODULE MCLedger ------------------------------
(***************************************************************************)
(* Instances of Ledger for TLC: two users who pay and serve each other,    *)
(* and two jobs, with prices on which the share truncates.                 *)
(***************************************************************************)
EXTENDS Ledger

CONSTANTS u1, u2, j1, j2

MCUsers == {u1, u2}
MCJobIds == {j1, j2}
MCGrants == {3}
MCAdjustments == {-1, 2}
MCPrices == {1, 2, 3}

=============================================================================
