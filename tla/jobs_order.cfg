SPECIFICATION FairSpec
CONSTANTS
 Jobs = {j1}
 Hosts = {h1}
 h1 = h1
 HostOf <- OneHost
 Workers = {w1, w2}
 Maint = m
 None = none
 MaxCrashes = 1
 StoreFaults = FALSE
INVARIANTS IInv RunEndsAfterJob NoRunLeftBehind
PROPERTY RunConverges
CHECK_DEADLOCK FALSE
