------------------------------- MODULE OutputLines -------------------------------
(***************************************************************************)
(* The lines of an output: selectLines picks those that the answer of exec *)
(* gets, from either end, and ReadArtifact pages through the lines of a    *)
(* kept output that match a pattern.  An output is a sequence of lines and *)
(* whether the last of them has been ended.                                *)
(***************************************************************************)
EXTENDS Integers, Sequences

CONSTANTS
    Lines,    \* contents of lines
    MaxLines  \* bound: lines of an output

Blank == ""

ASSUME LinesConstantsOK == Blank \in Lines /\ MaxLines \in Nat

VARIABLES
    lines,  \* the lines so far
    ended   \* whether the output ends with a line end

lineVars == <<lines, ended>>

LineInit == lines = <<>> /\ ended = FALSE

\* The command prints a line, with its end or without one yet.
PrintLine ==
    /\ Len(lines) < MaxLines
    /\ ended \/ lines = <<>>
    /\ \E l \in Lines, e \in BOOLEAN :
          /\ l # Blank \/ e
          /\ lines' = Append(lines, l)
          /\ ended' = e

EndLine == lines # <<>> /\ ~ended /\ ended' = TRUE /\ UNCHANGED lines

LineNext == PrintLine \/ EndLine

LineSpec == LineInit /\ [][LineNext]_lineVars

Some(s, from, to) == SubSeq(s, from, IF to < Len(s) THEN to ELSE Len(s))

\* bytes.Split gives an empty piece after the last line end; only the count leaves it out.
SelectLines(max, tail) ==
    LET pieces == IF ended THEN Append(lines, Blank) ELSE lines
        cut    == Len(lines) > max
    IN [kept  |-> CASE ~cut -> pieces
                    [] cut /\ tail -> SubSeq(pieces, Len(pieces) - max + 1, Len(pieces))
                    [] cut /\ ~tail -> SubSeq(pieces, 1, max),
        total |-> Len(lines),
        cut   |-> cut]

\* The pieces g[0] to g[n], one after the other.
Gathered(g, n) ==
    LET upTo[k \in 0 .. n] == IF k = 0 THEN g[0] ELSE upTo[k - 1] \o g[k] IN upTo[n]

Matching(wanted) ==
    Gathered([i \in 0 .. Len(lines) |->
                 IF i > 0 /\ lines[i] \in wanted THEN <<<<i, lines[i]>>>> ELSE <<>>], Len(lines))

\* Mutated ReadArtifact: offsets are counted from 0.
AfterOffset(offset, limit, wanted) == Some(Matching(wanted), offset + 1, offset + limit)

\* Lines are numbered before they are chosen; an offset is counted among the chosen.
ReadArtifact(offset, limit, wanted) ==
    LET start == IF offset <= 0 THEN 0 ELSE offset - 1
    IN Some(Matching(wanted), start + 1, start + limit)

-----------------------------------------------------------------------------
\* The answer says truthfully whether lines are missing, and without tail it has the first ones.
HeadIsFirstLines ==
    \A max \in 1 .. MaxLines :
        LET s == SelectLines(max, FALSE)
        IN /\ s.cut <=> s.total > max
           /\ s.cut => s.kept = Some(lines, 1, max)
           /\ ~s.cut => Some(s.kept, 1, s.total) = lines

\* mcpserver/exec.go, ExecInput: with tail the answer has the last max_lines lines of the output.
TailIsLastLines ==
    \A max \in 1 .. MaxLines :
        SelectLines(max, TRUE).cut =>
            SelectLines(max, TRUE).kept = Some(lines, Len(lines) - max + 1, Len(lines))

\* Whoever reads on at offset + limit gets every matching line once, in order, each with its own
\* number.
ArtifactPages ==
    \A limit \in 1 .. MaxLines, wanted \in SUBSET Lines :
        LET all == Gathered([k \in 0 .. MaxLines |-> ReadArtifact(k * limit + 1, limit, wanted)],
                            MaxLines)
        IN /\ \A n \in 1 .. Len(lines) :
                 lines[n] \in wanted => \E i \in 1 .. Len(all) : all[i] = <<n, lines[n]>>
           /\ \A i \in 1 .. Len(all) : /\ all[i][1] \in 1 .. Len(lines)
                                       /\ all[i][2] = lines[all[i][1]]
                                       /\ all[i][2] \in wanted
           /\ \A i, j \in 1 .. Len(all) : i < j => all[i][1] < all[j][1]

\* What selectLines gives and what ReadArtifact pages through is the output's own lines.
LinesExact == HeadIsFirstLines /\ ArtifactPages

=============================================================================
