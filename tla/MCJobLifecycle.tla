--------------------------- MODULE MCJobLifecycle ---------------------------
EXTENDS JobLifecycle, TLC
CONSTANTS h1
OneHost == [j \in Jobs |-> h1]
Symmetry == Permutations(Workers)
=============================================================================
