SPECIFICATION RegSpec
CONSTANTS
 Hosts = {h1, h2, h3}
 Admins = {a1, a2}
 None = none
 MayJump <- AnyJump
 MaxChain = 2
 MaxWrites = 5
INVARIANTS RegInv Acyclic ActiveViaActive
SYMMETRY Symmetry
CHECK_DEADLOCK FALSE
