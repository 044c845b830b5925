SPECIFICATION Spec
CONSTANTS
 Codes = {c1}
 Pairs = {p1, p2}
 Admins = {a1}
 MaxHosts = 1
 MaxTenants = 2
 Everything = everything
 None = none
INVARIANT NoInheritedHost
SYMMETRY Symmetry
CHECK_DEADLOCK FALSE
