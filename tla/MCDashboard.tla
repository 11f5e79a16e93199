---------------------------- MODULE MCDashboard ----------------------------
(* Instances of Dashboard. *)
EXTENDS Dashboard, TLC

CONSTANTS u1, u2, j1, j2, t1, t2, c1, c2

OneUser == {u1}
TwoUsers == {u1, u2}
TwoJobs == {j1, j2}
OneThread == {t1}
TwoThreads == {t1, t2}
AllButtons == {"submit", "restart", "run", "list", "job", "signout"}
PollButtons == {"submit", "restart"}
TwoCalls == {c1, c2}

Symmetry == Permutations(TwoUsers) \cup Permutations(TwoJobs) \cup Permutations(TwoCalls)

=============================================================================
