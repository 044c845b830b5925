SPECIFICATION Spec
CONSTANTS
 Runs = {r1, r2}
 Past = {r2}
 MaxChunks = 1
 MaxRestarts = 1
 Inputs = 4
 Capacity = 2
 Execs = {e1, e2}
 Setters = {s1, s2}
 Dirs = {home, work}
 Home = home
 Bytes = {"a", "lf", "id", ":"}
 Marker <- TrailerMarker
 CaptureLimit = 3
 MaxBytes = 5
 MaxChunk = 3
 Limits = {1, 2, 3}
 MaxSize = 4
 Lines = {"", "x", "y"}
 MaxLines = 4
 Polls = {p1, p2}
 Workers = {k1, k2}
 Monitored = {h1, h2, h3}
INVARIANTS AvailableIsWhole VerdictOfCommand NothingAfterFinished EveryHostAnswered EnvKeptAlone CaptureExact PagesExact LinesExact OnePoll
PROPERTY EverythingReturns
CHECK_DEADLOCK FALSE
