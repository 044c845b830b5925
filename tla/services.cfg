SPECIFICATION Spec
CONSTANTS
 Writers = {w1}
 Editors = {e1, e2}
 Transfers = {w1}
 Searches = {s1, s2}
 MaxConns = 2
 Size = 3
 RuleFiles <- IgnoreFiles
 EntryLimits = {2, 3}
 MaxDepth = 2
 Contexts = {0, 1, 2}
 Limits = {1, 3}
 MaxLines = 7
 MaxIds = 2
 Banks = {b1}
 Texts = {t1, t2}
 Rememberers = {c1}
 Updaters = {u1}
 MaxRecalls = 1
 Publishers = {g1, g2}
 Subscribers = {v1, v2}
 Buffer = 2
 MaxEvents = 2
 Openers = {o1, o2}
 LastVersion = 3
 Changes <- ThreeVersions
 Guarded <- GuardedOnes
 Groups = {"exec", "search"}
 Exec = "exec"
 Specialized = {"search"}
 Requests = {q1, q2}
INVARIANTS FilesWhole Delivery EmbeddingMatches HelperHonest WalkHonest ContextExact RecordedIsMade AccessTruthful
PROPERTY SleepKeepsRecalled
SYMMETRY Symmetry
CHECK_DEADLOCK FALSE
