---------------------------- MODULE MCLdpServer ----------------------------
(* LdpServer for TLC: two interchangeable clients.                         *)
EXTENDS LdpServer, TLC

CONSTANTS c1, c2
MCClient == {c1, c2}
Symmetry == Permutations(MCClient)
=============================================================================
