------------------------------- MODULE SearchWalk -------------------------------
(***************************************************************************)
(* The walk over a directory tree that grep and find fall back to, in the  *)
(* helper and over SFTP: depth first, under the rules of the ignore files  *)
(* met on the way, up to a number of entries and a depth.                  *)
(*                                                                         *)
(* Entries are numbers, 0 the root; the entries of a directory are sorted  *)
(* by name, which is by number here.  A rule names the entries its pattern *)
(* matches, and holds below the directory of its file.                     *)
(***************************************************************************)
EXTENDS Integers, Sequences, FiniteSets

CONSTANTS
    Size,       \* bound: entries of the tree
    RuleFiles,  \* rules that a directory's ignore files can hold
    EntryLimits, \* limits of entries, 100,000 in the code
    MaxDepth    \* limit of depth, 128 in the code

ASSUME WalkConstantsOK == Size \in Nat /\ EntryLimits \subseteq Nat /\ MaxDepth \in Nat

Entries == 1 .. Size

VARIABLES
    maxEntries,
    kind,      \* dir, file, link, or vcs for .git and its like
    parent,    \* directory of each entry
    rules,     \* rules in each directory
    frames,    \* the calls of walkDir under way
    counted,   \* entries met
    visited,   \* entries given to visit, in order
    truncated,
    walk       \* walking, done or failed

tree     == <<maxEntries, kind, parent, rules>>
walkVars == <<tree, frames, counted, visited, truncated, walk>>

Directories == {0} \cup {n \in Entries : kind[n] \in {"dir", "vcs"}}

Children(d) == {n \in Entries : parent[n] = d}

WalkInit ==
    /\ maxEntries \in EntryLimits
    /\ kind \in [Entries -> {"dir", "file", "link", "vcs"}]
    /\ parent \in [Entries -> 0 .. Size]
    /\ \A n \in Entries : parent[n] < n /\ parent[n] \in Directories
    /\ rules \in [0 .. Size -> RuleFiles \cup {<<>>}]
    /\ \A d \in 0 .. Size : d \notin Directories => rules[d] = <<>>
    /\ frames = <<[dir |-> 0, left |-> Children(0), rules |-> rules[0]]>>
    /\ counted = 0 /\ visited = <<>> /\ truncated = FALSE
    /\ walk = "walking"

\* The last rule that matches decides.
IgnoredPath(rs, n) ==
    LET Applies(r) == n \in r.matches /\ (r.directory => kind[n] \in {"dir", "vcs"})
        hits == {i \in 1 .. Len(rs) : Applies(rs[i])}
    IN \E i \in hits : ~rs[i].negated /\ \A j \in hits : j <= i

Frame == frames[Len(frames)]
NextEntry == CHOOSE n \in Frame.left : \A m \in Frame.left : n <= m
Outer == SubSeq(frames, 1, Len(frames) - 1)
Passed == Append(Outer, [Frame EXCEPT !.left = @ \ {NextEntry}])

EndWalk(result) ==
    /\ walk' = result
    /\ UNCHANGED <<tree, frames>>

\* Links and what is ignored are passed over, but counted.
Skip ==
    /\ kind[NextEntry] \in {"link", "vcs"} \/ IgnoredPath(Frame.rules, NextEntry)
    /\ frames' = Passed
    /\ UNCHANGED <<tree, visited, truncated, walk>>

\* The visitor has had enough: a limit of the answer is reached.
VisitLast ==
    /\ kind[NextEntry] \in {"dir", "file"} /\ ~IgnoredPath(Frame.rules, NextEntry)
    /\ visited' = Append(visited, NextEntry)
    /\ truncated' = TRUE
    /\ EndWalk("done")

\* Mutated Visit: a directory that is too deep is passed over without a word.
VisitSilently ==
    /\ kind[NextEntry] \in {"dir", "file"} /\ ~IgnoredPath(Frame.rules, NextEntry)
    /\ visited' = Append(visited, NextEntry)
    /\ IF kind[NextEntry] = "dir" /\ Len(frames) < MaxDepth
       THEN frames' = Append(Passed, [dir |-> NextEntry, left |-> Children(NextEntry),
                                      rules |-> Frame.rules \o rules[NextEntry]])
       ELSE frames' = Passed
    /\ UNCHANGED <<tree, truncated, walk>>

\* A directory that is too deep is not read.
Visit ==
    /\ kind[NextEntry] \in {"dir", "file"} /\ ~IgnoredPath(Frame.rules, NextEntry)
    /\ visited' = Append(visited, NextEntry)
    /\ IF kind[NextEntry] = "dir" /\ Len(frames) < MaxDepth
       THEN frames' = Append(Passed, [dir |-> NextEntry, left |-> Children(NextEntry),
                                      rules |-> Frame.rules \o rules[NextEntry]])
       ELSE frames' = Passed
    /\ truncated' = (truncated \/ (kind[NextEntry] = "dir" /\ Len(frames) >= MaxDepth))
    /\ UNCHANGED <<tree, walk>>

WalkEntry ==
    /\ walk = "walking" /\ Frame.left # {}
    /\ counted' = counted + 1
    /\ \/ /\ counted >= maxEntries
          /\ truncated' = TRUE
          /\ EndWalk("done")
          /\ UNCHANGED visited
       \/ counted < maxEntries /\ (Skip \/ Visit \/ VisitLast)

LeaveDir ==
    /\ walk = "walking" /\ Frame.left = {}
    /\ frames' = IF Len(frames) > 1 THEN Outer ELSE frames
    /\ walk' = IF Len(frames) > 1 THEN "walking" ELSE "done"
    /\ UNCHANGED <<tree, counted, visited, truncated>>

\* A directory or an ignore file that cannot be read, or the end of the context, is an error.
WalkFails ==
    /\ walk = "walking"
    /\ EndWalk("failed")
    /\ UNCHANGED <<counted, visited, truncated>>

WalkNext == WalkEntry \/ LeaveDir \/ WalkFails

WalkSpec == WalkInit /\ [][WalkNext]_walkVars

-----------------------------------------------------------------------------
\* Rules met on the way to each directory, those of the root first.
RulesTo ==
    LET to[d \in 0 .. Size] == IF d = 0 THEN rules[0] ELSE to[parent[d]] \o rules[d] IN to

Plain(n) == kind[n] \in {"dir", "file"} /\ ~IgnoredPath(RulesTo[parent[n]], n)

\* What a search is to see: no link and nothing ignored, and with an entry its directory.
Searchable ==
    UNION {seen \in SUBSET Entries : \A n \in seen : Plain(n) /\ parent[n] \in seen \cup {0}}

\* The walk sees nothing it should not, nothing twice, and an answer that is not called
\* truncated has seen everything.
WalkHonest ==
    /\ \A i \in 1 .. Len(visited) : visited[i] \in Searchable
    /\ Cardinality({visited[i] : i \in 1 .. Len(visited)}) = Len(visited)
    /\ walk = "done" /\ ~truncated => Len(visited) = Cardinality(Searchable)

=============================================================================
