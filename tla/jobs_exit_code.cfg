SPECIFICATION Spec
CONSTANTS
 Jobs = {j1}
 Hosts = {h1}
 h1 = h1
 HostOf <- OneHost
 Workers = {w1, w2}
 Maint = m
 None = none
 MaxCrashes = 0
 StoreFaults = FALSE
INVARIANT RealExitCode
SYMMETRY Symmetry
CHECK_DEADLOCK FALSE
