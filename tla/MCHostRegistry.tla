--------------------------- MODULE MCHostRegistry ---------------------------
EXTENDS HostRegistry, TLC
AnyJump  == Hosts \X Hosts
Symmetry == Permutations(Hosts) \cup Permutations(Admins)
=============================================================================
