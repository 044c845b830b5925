-------------------------------- MODULE GrepScan --------------------------------
(***************************************************************************)
(* grepFallbackFile: one file is read line by line; a match brings the     *)
(* lines around it along.  The answer has a limit of matches and of bytes. *)
(***************************************************************************)
EXTENDS Integers, Sequences, FiniteSets

CONSTANTS
    Contexts, \* lines of context that may be asked for
    Limits,   \* matches the answer still has room for
    MaxLines  \* bound: lines of the file

ASSUME ScanConstantsOK == Contexts \subseteq Nat /\ Limits \subseteq Nat \ {0} /\ MaxLines \in Nat

VARIABLES
    context, matchLimit,
    matched,     \* history: of each line read, whether it matches
    previous,    \* numbers of the lines kept as context
    after,       \* lines of context still to come
    lastEmitted,
    found,       \* numbers of the lines in the answer
    matches,     \* MatchCount
    scan         \* reading, stopped, incomplete or ended

scanVars == <<context, matchLimit, matched, previous, after, lastEmitted, found, matches, scan>>

ScanInit ==
    /\ context \in Contexts /\ matchLimit \in Limits
    /\ matched = <<>> /\ previous = <<>> /\ found = <<>>
    /\ after = 0 /\ lastEmitted = 0 /\ matches = 0
    /\ scan \in {"reading", "incomplete", "ended"}   \* too large, or binary

\* The buffer of context moves on by a line.
Slide(n) ==
    previous' = IF context = 0 THEN previous
                ELSE IF Len(previous) = context THEN Append(Tail(previous), n)
                ELSE Append(previous, n)

\* Mutated NotEmitted: the number of the last line given out is not looked at.
AllKept == previous

\* Kept lines that are not in the answer yet.  Their numbers rise, so they are the last ones.
NotEmitted ==
    LET old == {i \in 1 .. Len(previous) : previous[i] <= lastEmitted}
    IN SubSeq(previous, Cardinality(old) + 1, Len(previous))

\* A match adds what is kept and has not been added, then itself; a line after a match itself.
NewLines(m) ==
    LET n == Len(matched) + 1
    IN IF m THEN Append(NotEmitted, n) ELSE IF after > 0 THEN <<n>> ELSE <<>>

\* Whichever of the new lines finds no room for its bytes ends the search.
ScanLine(m) ==
    /\ scan = "reading" /\ Len(matched) < MaxLines
    /\ matched' = Append(matched, m)
    /\ \/ /\ \E room \in 0 .. Len(NewLines(m)) - 1 :
                found' = found \o SubSeq(NewLines(m), 1, room)
          /\ scan' = "stopped"
          /\ UNCHANGED <<previous, after, lastEmitted, matches>>
       \/ /\ found' = found \o NewLines(m)
          /\ matches' = IF m THEN matches + 1 ELSE matches
          /\ scan' = IF m /\ matches' >= matchLimit THEN "stopped" ELSE scan
          /\ lastEmitted' = IF NewLines(m) = <<>> THEN lastEmitted ELSE Len(matched')
          /\ after' = IF m THEN context ELSE IF after > 0 THEN after - 1 ELSE 0
          /\ Slide(Len(matched'))
    /\ UNCHANGED <<context, matchLimit>>

\* The end of the file, or a line that is too long.
EndFile ==
    /\ scan = "reading"
    /\ scan' \in {"ended", "incomplete"}
    /\ UNCHANGED <<context, matchLimit, matched, previous, after, lastEmitted, found, matches>>

ScanNext == (\E m \in BOOLEAN : ScanLine(m)) \/ EndFile

ScanSpec == ScanInit /\ [][ScanNext]_scanVars

-----------------------------------------------------------------------------
\* Lines no further than the context from a line that matches.
Around ==
    {i \in 1 .. Len(matched) : \E j \in 1 .. Len(matched) :
        matched[j] /\ i - j <= context /\ j - i <= context}

Numbers(s) == {s[i] : i \in 1 .. Len(s)}

\* The answer has the matches and the lines around them, each once and in order, where they
\* overlap too; a search that was stopped lacks only lines after the last one it has.
ContextExact ==
    /\ \A i, j \in 1 .. Len(found) : i < j => found[i] < found[j]
    /\ Numbers(found) \subseteq Around
    /\ \A l \in Around \ Numbers(found) : scan = "stopped" /\ \A g \in Numbers(found) : g < l
    /\ matches <= matchLimit

=============================================================================
