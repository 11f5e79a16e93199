--------------------------- MODULE MCSharedStore ---------------------------
(* Two servers, one command line, two tokens.                              *)
EXTENDS SharedStore, TLC

CONSTANTS s1, s2, cli, p1, p2, t1, t2

MCServers == {s1, s2}
OneServer == {s1}
OneCommand == {cli}
MCPurchases == {p1, p2}
MCTokens == {t1, t2}

SharedSymmetry == Permutations(MCServers) \cup Permutations(MCPurchases) \cup Permutations(MCTokens)

=============================================================================
