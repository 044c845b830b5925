SPECIFICATION Spec
CONSTANTS
 Codes = {c1}
 Pairs = {p1, p2, p3}
 Admins = {a1}
 MaxHosts = 1
 MaxTenants = 1
 Everything = everything
 None = none
INVARIANTS WholeGrants OneHeir
PROPERTIES Inheritance HostDeletionEnds KeepsFamilies
SYMMETRY Symmetry
CHECK_DEADLOCK FALSE
