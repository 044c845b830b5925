------------------------------ MODULE MCServices ------------------------------
(***************************************************************************)
(* The other services of the gateway: files, search, memory, events, the   *)
(* opening of the database and the tools a token sees.  As in MCCommands   *)
(* they share no variable, and a behaviour is one of one of them.          *)
(***************************************************************************)
EXTENDS RemoteFiles, RemoteSearch, SearchWalk, GrepScan, MemoryBank, EventBus, Migrations,
        ToolAccess, TLC

VARIABLE part

Symmetry == Permutations(Texts)

\* Three versions, of which the last has a guarded change beside a plain one.
ThreeVersions == {<<1, 1>>, <<2, 1>>, <<3, 1>>, <<3, 2>>}
GuardedOnes   == {<<2, 1>>, <<3, 1>>}

\* Ignore files: two entries ignored and one of them taken back; and a rule for directories.
IgnoreFiles ==
    {<<[matches |-> {2, 3}, directory |-> FALSE, negated |-> FALSE],
       [matches |-> {3}, directory |-> FALSE, negated |-> TRUE]>>,
     <<[matches |-> {1, 2}, directory |-> TRUE, negated |-> FALSE]>>}

\* The start of a part is open only when it is its turn.
Init ==
    /\ part \in {"files", "search", "walk", "scan", "memory", "events", "migrations", "access"}
    /\ part = "files" \/ (replaces = TRUE /\ target = {})
    /\ part = "search" \/ platform = TRUE
    /\ part = "walk" \/ (/\ kind = [n \in Entries |-> "file"] /\ parent = [n \in Entries |-> 0]
                         /\ rules = [d \in 0 .. Size |-> <<>>] /\ maxEntries = Size)
    /\ part = "scan" \/ (context = 0 /\ matchLimit = 1 /\ scan = "ended")
    /\ part = "migrations" \/ (recorded = {} /\ schema = {})
    /\ part = "access" \/ (instance = {} /\ apps = TRUE /\ token = [kind |-> "list", groups |-> {}])
    /\ FileInit /\ SearchInit /\ WalkInit /\ ScanInit /\ MemInit /\ BusInit /\ MigInit
    /\ AccessInit

Next ==
    /\ UNCHANGED part
    /\ \/ part = "files" /\ FileNext
       \/ part # "files" /\ UNCHANGED fileVars
    /\ \/ part = "search" /\ SearchNext
       \/ part # "search" /\ UNCHANGED searchVars
    /\ \/ part = "walk" /\ WalkNext
       \/ part # "walk" /\ UNCHANGED walkVars
    /\ \/ part = "scan" /\ ScanNext
       \/ part # "scan" /\ UNCHANGED scanVars
    /\ \/ part = "memory" /\ MemNext
       \/ part # "memory" /\ UNCHANGED memVars
    /\ \/ part = "events" /\ BusNext
       \/ part # "events" /\ UNCHANGED busVars
    /\ \/ part = "migrations" /\ MigNext
       \/ part # "migrations" /\ UNCHANGED migVars
    /\ \/ part = "access" /\ AccessNext
       \/ part # "access" /\ UNCHANGED accessVars

allVars == <<part, fileVars, searchVars, walkVars, scanVars, memVars, busVars, migVars,
             accessVars>>

Spec == Init /\ [][Next]_allVars

=============================================================================
