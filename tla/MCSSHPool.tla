------------------------------ MODULE MCSSHPool ------------------------------
EXTENDS SSHPool
CONSTANTS h1, h2, h3
Symmetry == Permutations(Getters) \cup Permutations(Conns)
FullSymmetry == Symmetry \cup Permutations(Hosts) \cup Permutations(Admins)
AnyJump == Hosts \X Hosts
=============================================================================
