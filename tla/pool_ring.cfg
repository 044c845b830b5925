SPECIFICATION Spec
CONSTANTS
 h1 = h1
 h2 = h2
 h3 = h3
 Hosts = {h1, h2}
 Admins = {a1, a2}
 Getters = {g1, g2}
 Conns = {}
 None = none
 MayJump <- AnyJump
 MaxChain = 2
 MaxWrites = 4
SYMMETRY FullSymmetry
INVARIANTS NoWaitCycle
CHECK_DEADLOCK FALSE
