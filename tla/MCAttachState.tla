--------------------------- MODULE MCAttachState ---------------------------
(* AttachState with two services and four processes for TLC.              *)
EXTENDS AttachState, TLC

CONSTANTS p1, p2, p3, p4, s1, s2

MCPids == {p1, p2, p3, p4}
MCServices == {s1, s2}
MCSymmetry == Permutations(MCPids) \union Permutations(MCServices)

MCAll == {"attach", "detach", "refresh", "enable", "disable"}
MCAllFaults == {"crash", "server", "refuse", "service"}

=============================================================================
