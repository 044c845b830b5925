SPECIFICATION Spec
CONSTANTS
 Jobs = {j1}
 Hosts = {h1}
 h1 = h1
 HostOf <- OneHost
 Workers = {w1, w2}
 Maint = m
 None = none
 MaxCrashes = 1
 StoreFaults = TRUE
INVARIANTS FinishedOnce VerdictTruthful
PROPERTIES VerdictFinal EndedStaysEnded KeepsLedger
SYMMETRY Symmetry
CHECK_DEADLOCK FALSE
