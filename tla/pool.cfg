SPECIFICATION Spec
CONSTANTS
 h1 = h1
 h2 = h2
 h3 = h3
 Hosts = {h1, h2}
 Admins = {a1}
 Getters = {g1, g2}
 Conns = {c1, c2}
 None = none
 MayJump <- AnyJump
 MaxChain = 2
 MaxWrites = 3
SYMMETRY FullSymmetry
INVARIANTS HoldsChain NoOrphans CurrentRows CurrentTunnels
CHECK_DEADLOCK FALSE
