--------------------------- MODULE CommandRuns_proofs ---------------------------
(***************************************************************************)
(* Proofs about CommandRuns for every set of runs and every bound.  CmdInv *)
(* speaks of one run at a time: an action of a run disturbs that run only, *)
(* so each lemma shows RunInv for the run that moves, and that the others  *)
(* stay as they were; the clean-up and the restart are shown for all.      *)
(***************************************************************************)
EXTENDS CommandRuns, TLAPS

Stages   == {"idle", "connect", "start", "running", "killing", "ended", "counting", "finish",
             "returned"}
Codes    == {"none", "running", "ok", "fail"}
Statuses == {"none", "running", "succeeded", "failed", "timeout", "cancelled", "lost"}

Results == [timeout : BOOLEAN, err : BOOLEAN, code : Codes, known : BOOLEAN,
            bytes : Int, recorded : BOOLEAN, parsed : BOOLEAN]
Files   == [state : {"none", "open", "broken", "closed"}, bytes : Int]
Rows    == [status : Statuses, code : Codes, bytes : Int,
            available : BOOLEAN, expired : BOOLEAN, cleaned : BOOLEAN]
Links   == [sent : Nat, exit : {"running", "ok", "fail"}, trailer : BOOLEAN, up : BOOLEAN]

CmdTypeOK ==
    /\ stage \in [Runs -> Stages]
    /\ res \in [Runs -> Results]
    /\ remote \in [Runs -> Links]
    /\ copied \in [Runs -> Nat]
    /\ file \in [Runs -> Files]
    /\ row \in [Runs -> Rows]
    /\ cancelled \subseteq Runs /\ finished \subseteq Runs
    /\ late \subseteq Runs /\ unsaved \subseteq Runs /\ doomed \subseteq Runs
    /\ sweep \in {"idle", "list", "remove", "mark"}
    /\ restarts \in Nat

\* Nothing more of the run's output will be copied.
Drained(r) == copied[r] = Produced(r) \/ ~remote[r].up

Broken(r) == row[r].status \in {"timeout", "cancelled"}

\* Where the call is, what its row says.
StageInv(r) ==
    /\ stage[r] = "idle" => row[r].status = "none"
    /\ stage[r] \notin {"idle", "returned"} => row[r].status = "running"
    /\ stage[r] = "returned" /\ row[r].status = "running" => r \in unsaved
    /\ ~Closed(r) => row[r].code = "none" /\ ~row[r].available /\ ~row[r].cleaned /\ ~row[r].expired
    /\ row[r].expired => ~row[r].available
    /\ r \in finished => Closed(r)

\* Before its session nothing has come; what the open file holds is what has been copied.
WireInv(r) ==
    /\ stage[r] \in {"idle", "connect", "start"} =>
          remote[r] = Silent /\ copied[r] = 0 /\ file[r] = NoFile
    /\ remote[r].trailer => remote[r].exit # "running"
    /\ file[r].state = "open" =>
          stage[r] \in {"running", "killing", "ended"} /\ file[r].bytes = copied[r]

\* What Runner.Run has put together is true of the command and of the file.
ResInv(r) ==
    stage[r] \in {"ended", "counting", "finish"} =>
        /\ res[r].code # "none" => res[r].code = remote[r].exit
        /\ res[r].parsed => remote[r].trailer /\ copied[r] = Produced(r)
        /\ ~res[r].timeout => Drained(r)
        /\ stage[r] # "ended" /\ res[r].recorded => file[r].state = "closed"
        /\ stage[r] = "counting" /\ res[r].recorded /\ ~res[r].timeout =>
              file[r].bytes = copied[r] - (IF res[r].parsed THEN 1 ELSE 0)
        /\ stage[r] = "finish" /\ res[r].recorded /\ ~res[r].timeout =>
              file[r].bytes = res[r].bytes

\* What the row says is true of the command and of the file, and stays so.
RowInv(r) ==
    /\ row[r].status = "succeeded" => remote[r].exit = "ok"
    /\ row[r].code # "none" => row[r].code = remote[r].exit
    /\ row[r].available => file[r].state = "closed"
    /\ row[r].available /\ ~Broken(r) => file[r].bytes = row[r].bytes
    /\ row[r].cleaned => file[r].state = "none"
    /\ r \in finished /\ ~Broken(r) => Drained(r)
    /\ r \in late => r \in finished /\ Broken(r)

\* What the clean-up was told to delete is closed, and no reader is sent to it any more.
SweepInv(r) ==
    r \in doomed =>
        /\ Closed(r) /\ ~row[r].available
        /\ sweep = "mark" => file[r].state = "none"

RunInv(r) == StageInv(r) /\ WireInv(r) /\ ResInv(r) /\ RowInv(r) /\ SweepInv(r)

CmdInv == CmdTypeOK /\ \A r \in Runs : RunInv(r)

\* All that RunInv says of a run is as it was.
Same(q) ==
    /\ stage'[q] = stage[q] /\ res'[q] = res[q] /\ remote'[q] = remote[q]
    /\ copied'[q] = copied[q] /\ file'[q] = file[q] /\ row'[q] = row[q]
    /\ q \in finished' <=> q \in finished
    /\ q \in late' <=> q \in late
    /\ q \in unsaved' <=> q \in unsaved

-----------------------------------------------------------------------------
\* A run that nothing happens to keeps its invariant.
LEMMA SameKeeps ==
    ASSUME NEW q \in Runs, RunInv(q), Same(q), UNCHANGED sweeper
    PROVE  RunInv(q)'
BY DEF RunInv, StageInv, WireInv, ResInv, RowInv, SweepInv, Same, sweeper, Drained, Broken,
       Closed, Produced

\* One that a single run has moved keeps it for all, if it does for that one.
LEMMA OneMoves ==
    ASSUME CmdInv, NEW r \in Runs, RunInv(r)', CmdTypeOK',
           \A q \in Runs \ {r} : Same(q), UNCHANGED sweeper
    PROVE  CmdInv'
BY SameKeeps DEF CmdInv

-----------------------------------------------------------------------------
(* Init *)

\* A row that is opened, and one of a past run, are rows.
LEMMA NewRows ==
    /\ NoRow \in Rows
    /\ [NoRow EXCEPT !.status = "succeeded", !.available = TRUE] \in Rows
    /\ [NoRow EXCEPT !.status = "running"] \in Rows
<1>1. NoRow \in Rows
  BY DEF NoRow, Rows, Statuses, Codes
<1> QED BY <1>1 DEF Rows, Statuses

\* What a call has before there is a result, and where there is none, are results.
LEMMA NewResults == NoRes \in Results /\ [NoRes EXCEPT !.err = TRUE] \in Results
<1>1. NoRes \in Results
  BY DEF NoRes, Results, Codes
<1> QED BY <1>1 DEF Results

\* What the command and the link do to a link.
LEMMA NewLinks ==
    ASSUME NEW k \in Links
    PROVE  /\ [k EXCEPT !.sent = @ + 1] \in Links
           /\ [k EXCEPT !.up = FALSE] \in Links
           /\ \A code \in {"ok", "fail"}, t \in BOOLEAN :
                 LET m == [k EXCEPT !.exit = code, !.trailer = t]
                 IN m \in Links /\ m.exit = code /\ m.trailer = t
<1>1. [k EXCEPT !.sent = @ + 1] \in Links
  <2>1. k.sent + 1 \in Nat
    BY DEF Links
  <2> QED BY <2>1 DEF Links
<1>3. [k EXCEPT !.up = FALSE] \in Links
  BY DEF Links
<1>2. ASSUME NEW code \in {"ok", "fail"}, NEW t \in BOOLEAN
      PROVE  LET m == [k EXCEPT !.exit = code, !.trailer = t]
             IN m \in Links /\ m.exit = code /\ m.trailer = t
  BY DEF Links
<1> QED BY <1>1, <1>2, <1>3

\* A result is put together from what was seen of the command.
LEMMA OutcomeType ==
    ASSUME CmdTypeOK, NEW r \in Runs, NEW waited \in BOOLEAN
    PROVE  /\ Outcome(r, waited) \in Results
           /\ Outcome(r, waited).timeout = ~waited
           /\ Outcome(r, waited).parsed = Parsed(r)
           /\ Outcome(r, waited).code = IF Parsed(r) \/ (waited /\ remote[r].up)
                                        THEN remote[r].exit ELSE "none"
<1>1. remote[r].exit \in Codes /\ remote[r].trailer \in BOOLEAN /\ remote[r].up \in BOOLEAN
  BY DEF CmdTypeOK, Links, Codes
<1>2. Parsed(r) \in BOOLEAN
  BY <1>1 DEF Parsed
<1> HIDE DEF Parsed
<1> QED BY ONLY <1>1, <1>2 DEF Outcome, NoRes, Results, Codes

\* The status is one of a run that has ended, and the row is one of such a run.
LEMMA FinishType ==
    ASSUME CmdTypeOK, NEW r \in Runs
    PROVE  /\ CommandRunStatus(r) \in {"cancelled", "timeout", "failed", "succeeded"}
           /\ CommandRunFinish(r) \in Rows
           /\ CommandRunFinish(r).status = CommandRunStatus(r)
           /\ CommandRunFinish(r).code \in {res[r].code, "none"}
           /\ CommandRunFinish(r).bytes = res[r].bytes
           /\ CommandRunFinish(r).available = res[r].recorded
           /\ CommandRunFinish(r).cleaned = row[r].cleaned
           /\ CommandRunFinish(r).expired = row[r].expired
<1>1. CommandRunStatus(r) \in {"cancelled", "timeout", "failed", "succeeded"}
  BY DEF CommandRunStatus
<1>2. row[r] \in Rows /\ res[r] \in Results
  BY DEF CmdTypeOK
<1>4. PICK c \in {res[r].code, "none"} : CommandRunFinish(r) =
        [row[r] EXCEPT !.status = CommandRunStatus(r), !.code = c, !.bytes = res[r].bytes,
                       !.available = res[r].recorded]
  BY DEF CommandRunFinish
<1>5. /\ CommandRunStatus(r) \in Statuses /\ c \in Codes
      /\ res[r].bytes \in Int /\ res[r].recorded \in BOOLEAN
  BY ONLY <1>1, <1>2, <1>4 DEF Statuses, Results, Codes
<1> QED BY ONLY <1>1, <1>2, <1>4, <1>5 DEF Rows

\* Before the first step no call has begun, and the past runs' rows tell the truth.
LEMMA CmdInitInv == CmdInit => CmdInv
<1> SUFFICES ASSUME CmdInit PROVE CmdInv
  OBVIOUS
<1> USE CmdConstantsOK DEF CmdInit, NoRes, NoFile, NoRow, Silent
<1> USE DEF Stages, Codes, Statuses, Results, Files, Rows, Links
<1>1. CmdTypeOK
  <2>1. stage \in [Runs -> Stages]
    OBVIOUS
  <2>2. res \in [Runs -> Results]
    OBVIOUS
  <2>3. remote \in [Runs -> Links]
    OBVIOUS
  <2>4. file \in [Runs -> Files]
    OBVIOUS
  <2>5. row \in [Runs -> Rows]
    BY NewRows
  <2>6. copied \in [Runs -> Nat] /\ finished \subseteq Runs
    OBVIOUS
  <2> QED BY <2>1, <2>2, <2>3, <2>4, <2>5, <2>6 DEF CmdTypeOK
<1>2. ASSUME NEW r \in Runs PROVE RunInv(r)
  BY DEF RunInv, StageInv, WireInv, ResInv, RowInv, SweepInv, Drained, Broken, Closed, Produced
<1> QED BY <1>1, <1>2 DEF CmdInv

-----------------------------------------------------------------------------
(* One lemma per action of a run *)

\* A call that is refused returns with its row unopened; else the row is open.
LEMMA StartCommandRunStep ==
    ASSUME CmdInv, NEW r \in Runs, StartCommandRun(r)
    PROVE  CmdInv'
<1> USE DEF StartCommandRun, Step, Return, Fail, call, wire, ledger, sweeper
<1>1. CmdTypeOK /\ RunInv(r)
  BY DEF CmdInv
<1>2. CmdTypeOK'
  <2>1. stage' \in [Runs -> Stages]
    BY <1>1 DEF CmdTypeOK, Stages
  <2>2. res' \in [Runs -> Results]
    BY <1>1, NewResults DEF CmdTypeOK
  <2>3. remote' \in [Runs -> Links] /\ copied' \in [Runs -> Nat]
    BY <1>1 DEF CmdTypeOK, Links
  <2>4. file' \in [Runs -> Files]
    BY <1>1 DEF CmdTypeOK, Files
  <2>5. row' \in [Runs -> Rows]
    BY <1>1, NewRows DEF CmdTypeOK
  <2> QED BY <1>1, <2>1, <2>2, <2>3, <2>4, <2>5 DEF CmdTypeOK
<1>3. \A q \in Runs \ {r} : Same(q)
  BY <1>1 DEF CmdTypeOK, Same
<1>a. \/ stage'[r] = "returned" /\ row'[r] = row[r]
      \/ /\ stage'[r] = "connect"
         /\ row'[r].status = "running" /\ row'[r].code = "none"
         /\ ~row'[r].available /\ ~row'[r].cleaned /\ ~row'[r].expired
  BY <1>1 DEF CmdTypeOK, NoRow
<1>b. stage[r] = "idle" /\ UNCHANGED <<remote, copied, file, finished, unsaved, late, doomed, sweep>>
  OBVIOUS
<1>4. StageInv(r)'
  BY ONLY <1>1, <1>a, <1>b DEF RunInv, StageInv, Closed
<1>5. WireInv(r)'
  BY <1>1 DEF CmdTypeOK, RunInv, WireInv
<1>6. ResInv(r)'
  BY <1>1 DEF CmdTypeOK, RunInv, ResInv, Drained, Produced
<1>7. RowInv(r)'
  BY ONLY <1>1, <1>a, <1>b DEF RunInv, RowInv, StageInv, Drained, Produced, Broken, Closed
<1>8. SweepInv(r)'
  BY <1>1 DEF CmdTypeOK, RunInv, SweepInv, StageInv, Closed
<1> QED BY <1>2, <1>3, <1>4, <1>5, <1>6, <1>7, <1>8, OneMoves DEF RunInv

\* Without a connection the run goes on to be finished with an error.
LEMMA GetClientStep ==
    ASSUME CmdInv, NEW r \in Runs, GetClient(r)
    PROVE  CmdInv'
<1> USE DEF GetClient, Step, Return, Fail, call, wire, ledger, sweeper
<1>1. CmdTypeOK /\ RunInv(r)
  BY DEF CmdInv
<1>2. CmdTypeOK'
  <2>1. stage' \in [Runs -> Stages]
    BY <1>1 DEF CmdTypeOK, Stages
  <2>2. res' \in [Runs -> Results]
    BY <1>1, NewResults DEF CmdTypeOK
  <2>3. remote' \in [Runs -> Links] /\ copied' \in [Runs -> Nat]
    BY <1>1 DEF CmdTypeOK, Links
  <2>4. file' \in [Runs -> Files]
    BY <1>1 DEF CmdTypeOK, Files
  <2>5. row' \in [Runs -> Rows]
    BY <1>1, NewRows DEF CmdTypeOK
  <2> QED BY <1>1, <2>1, <2>2, <2>3, <2>4, <2>5 DEF CmdTypeOK
<1>3. \A q \in Runs \ {r} : Same(q)
  BY <1>1 DEF CmdTypeOK, Same
<1>4. StageInv(r)'
  BY <1>1 DEF CmdTypeOK, RunInv, StageInv, Closed
<1>5. WireInv(r)'
  BY <1>1 DEF CmdTypeOK, RunInv, WireInv
<1>6. ResInv(r)'
  <2>1. \/ stage'[r] = "start"
        \/ stage'[r] = "finish" /\ res'[r] = [NoRes EXCEPT !.err = TRUE]
    BY <1>1 DEF CmdTypeOK
  <2>2. stage[r] = "connect" /\ UNCHANGED <<remote, copied>>
    OBVIOUS
  <2> QED BY ONLY <1>1, <2>1, <2>2 DEF RunInv, WireInv, ResInv, Drained, Produced, NoRes, Silent
<1>7. RowInv(r)'
  BY <1>1 DEF CmdTypeOK, RunInv, RowInv, StageInv, Drained, Produced, Broken, Closed
<1>8. SweepInv(r)'
  BY <1>1 DEF CmdTypeOK, RunInv, SweepInv, StageInv, Closed
<1> QED BY <1>2, <1>3, <1>4, <1>5, <1>6, <1>7, <1>8, OneMoves DEF RunInv

\* A session that does not start leaves no file; one that does has an empty one, or none.
LEMMA StartSessionStep ==
    ASSUME CmdInv, NEW r \in Runs, StartSession(r)
    PROVE  CmdInv'
<1> USE DEF StartSession, Step, Return, Fail, call, wire, ledger, sweeper
<1>1. CmdTypeOK /\ RunInv(r)
  BY DEF CmdInv
<1>2. CmdTypeOK'
  <2>1. stage' \in [Runs -> Stages]
    BY <1>1 DEF CmdTypeOK, Stages
  <2>2. res' \in [Runs -> Results]
    BY <1>1, NewResults DEF CmdTypeOK
  <2>3. remote' \in [Runs -> Links] /\ copied' \in [Runs -> Nat]
    BY <1>1 DEF CmdTypeOK, Links
  <2>4. file' \in [Runs -> Files]
    <3>1. \A t \in {"open", "none"} : [file[r] EXCEPT !.state = t] \in Files
      BY <1>1 DEF CmdTypeOK, Files
    <3> QED BY <1>1, <3>1 DEF CmdTypeOK
  <2>5. row' \in [Runs -> Rows]
    BY <1>1, NewRows DEF CmdTypeOK
  <2> QED BY <1>1, <2>1, <2>2, <2>3, <2>4, <2>5 DEF CmdTypeOK
<1>3. \A q \in Runs \ {r} : Same(q)
  BY <1>1 DEF CmdTypeOK, Same
<1>4. StageInv(r)'
  BY <1>1 DEF CmdTypeOK, RunInv, StageInv, Closed
<1>a. stage[r] = "start" /\ UNCHANGED <<remote, copied>>
  OBVIOUS
<1>b. \/ stage'[r] = "finish" /\ file'[r] = file[r] /\ res'[r] = [NoRes EXCEPT !.err = TRUE]
      \/ /\ stage'[r] = "running"
         /\ file'[r].state \in {"open", "none"} /\ file'[r].bytes = file[r].bytes
  <2>1. file[r] \in Files
    BY <1>1 DEF CmdTypeOK
  <2>2. ASSUME NEW t \in {"open", "none"}, file' = [file EXCEPT ![r].state = t]
        PROVE  file'[r].state = t /\ file'[r].bytes = file[r].bytes
    BY ONLY <1>1, <2>1, <2>2 DEF CmdTypeOK, Files
  <2> QED BY <1>1, <2>2 DEF CmdTypeOK
<1>5. WireInv(r)'
  BY ONLY <1>1, <1>a, <1>b DEF RunInv, WireInv, NoFile, Silent
<1>6. ResInv(r)'
  BY ONLY <1>1, <1>a, <1>b DEF RunInv, WireInv, ResInv, Drained, Produced, NoRes, Silent
<1>7. RowInv(r)'
  BY <1>1 DEF CmdTypeOK, RunInv, RowInv, StageInv, Drained, Produced, Broken, Closed
<1>8. SweepInv(r)'
  BY <1>1 DEF CmdTypeOK, RunInv, SweepInv, StageInv, Closed
<1> QED BY <1>2, <1>3, <1>4, <1>5, <1>6, <1>7, <1>8, OneMoves DEF RunInv

\* A cancelled request is seen by the next status, and disturbs nothing else.
LEMMA CancelStep ==
    ASSUME CmdInv, NEW r \in Runs, Cancel(r)
    PROVE  CmdInv'
<1> USE DEF Cancel, Step, Return, Fail, call, wire, ledger, sweeper
<1>1. CmdTypeOK /\ RunInv(r)
  BY DEF CmdInv
<1>2. CmdTypeOK'
  <2>1. stage' \in [Runs -> Stages]
    BY <1>1 DEF CmdTypeOK, Stages
  <2>2. res' \in [Runs -> Results]
    BY <1>1 DEF CmdTypeOK, Results, Codes, NoRes
  <2>3. remote' \in [Runs -> Links] /\ copied' \in [Runs -> Nat]
    BY <1>1 DEF CmdTypeOK, Links
  <2>4. file' \in [Runs -> Files]
    BY <1>1 DEF CmdTypeOK, Files
  <2>5. row' \in [Runs -> Rows]
    BY <1>1, NewRows DEF CmdTypeOK
  <2> QED BY <1>1, <2>1, <2>2, <2>3, <2>4, <2>5 DEF CmdTypeOK
<1>3. \A q \in Runs \ {r} : Same(q)
  BY <1>1 DEF CmdTypeOK, Same
<1>4. StageInv(r)'
  BY <1>1 DEF CmdTypeOK, RunInv, StageInv, Closed
<1>5. WireInv(r)'
  BY <1>1 DEF CmdTypeOK, RunInv, WireInv
<1>6. ResInv(r)'
  BY <1>1 DEF CmdTypeOK, RunInv, ResInv, Drained, Produced
<1>7. RowInv(r)'
  BY <1>1 DEF CmdTypeOK, RunInv, RowInv, StageInv, Drained, Produced, Broken, Closed
<1>8. SweepInv(r)'
  BY <1>1 DEF CmdTypeOK, RunInv, SweepInv, StageInv, Closed
<1> QED BY <1>2, <1>3, <1>4, <1>5, <1>6, <1>7, <1>8, OneMoves DEF RunInv

\* While the call waits, its command prints, ends or is cut off.
LEMMA RemoteStep ==
    ASSUME CmdInv, NEW r \in Runs, Remote(r)
    PROVE  CmdInv'
<1> USE DEF Remote, Step, Return, Fail, call, wire, ledger, sweeper
<1>1. CmdTypeOK /\ RunInv(r)
  BY DEF CmdInv
<1>2. CmdTypeOK'
  <2>1. stage' \in [Runs -> Stages]
    BY <1>1 DEF CmdTypeOK, Stages
  <2>2. res' \in [Runs -> Results]
    BY <1>1 DEF CmdTypeOK, Results, Codes, NoRes
  <2>3. remote' \in [Runs -> Links] /\ copied' \in [Runs -> Nat]
    <3>1. remote[r] \in Links
      BY <1>1 DEF CmdTypeOK
    <3>2. \E k \in Links : remote' = [remote EXCEPT ![r] = k]
      <4>1. CASE remote' = [remote EXCEPT ![r].sent = @ + 1]
        BY <3>1, <4>1, NewLinks
      <4>2. ASSUME NEW code \in {"ok", "fail"}, NEW t \in BOOLEAN,
                   remote' = [remote EXCEPT ![r] = [@ EXCEPT !.exit = code, !.trailer = t]]
            PROVE  \E k \in Links : remote' = [remote EXCEPT ![r] = k]
        BY ONLY <3>1, <4>2, NewLinks
      <4>3. CASE remote' = [remote EXCEPT ![r].up = FALSE]
        BY <3>1, <4>3, NewLinks
      <4> QED BY <4>1, <4>2, <4>3
    <3> QED BY <1>1, <3>2 DEF CmdTypeOK
  <2>4. file' \in [Runs -> Files]
    BY <1>1 DEF CmdTypeOK, Files
  <2>5. row' \in [Runs -> Rows]
    BY <1>1, NewRows DEF CmdTypeOK
  <2> QED BY <1>1, <2>1, <2>2, <2>3, <2>4, <2>5 DEF CmdTypeOK
<1>3. \A q \in Runs \ {r} : Same(q)
  BY <1>1 DEF CmdTypeOK, Same
<1>4. StageInv(r)'
  BY <1>1 DEF CmdTypeOK, RunInv, StageInv, Closed
<1>5. WireInv(r)'
  <2>1. remote'[r].trailer => remote'[r].exit # "running"
    <3>1. remote[r] \in Links
      BY <1>1 DEF CmdTypeOK
    <3>2. CASE remote' = [remote EXCEPT ![r].sent = @ + 1]
      BY <1>1, <3>1, <3>2 DEF CmdTypeOK, RunInv, WireInv, Links
    <3>3. ASSUME NEW code \in {"ok", "fail"}, NEW t \in BOOLEAN,
                 remote' = [remote EXCEPT ![r] = [@ EXCEPT !.exit = code, !.trailer = t]]
          PROVE  remote'[r].trailer => remote'[r].exit # "running"
      BY ONLY <1>1, <3>1, <3>3, NewLinks DEF CmdTypeOK
    <3>4. CASE remote' = [remote EXCEPT ![r].up = FALSE]
      BY <1>1, <3>1, <3>4 DEF CmdTypeOK, RunInv, WireInv, Links
    <3> QED BY <3>2, <3>3, <3>4
  <2>2. stage[r] \in {"running", "killing"} /\ UNCHANGED <<stage, copied, file>>
    OBVIOUS
  <2> QED BY ONLY <1>1, <2>1, <2>2 DEF RunInv, WireInv
<1>6. ResInv(r)'
  BY <1>1 DEF CmdTypeOK, RunInv, ResInv, Drained, Produced
<1>7. RowInv(r)'
  BY <1>1 DEF CmdTypeOK, RunInv, RowInv, StageInv, Drained, Produced, Broken, Closed
<1>8. SweepInv(r)'
  BY <1>1 DEF CmdTypeOK, RunInv, SweepInv, StageInv, Closed
<1> QED BY <1>2, <1>3, <1>4, <1>5, <1>6, <1>7, <1>8, OneMoves DEF RunInv

\* A chunk is copied to the file that can still take it.
LEMMA WriteStep ==
    ASSUME CmdInv, NEW r \in Runs, Write(r)
    PROVE  CmdInv'
<1> USE DEF Write, Step, Return, Fail, call, wire, ledger, sweeper
<1>1. CmdTypeOK /\ RunInv(r)
  BY DEF CmdInv
<1>2. CmdTypeOK'
  <2>1. stage' \in [Runs -> Stages]
    BY <1>1 DEF CmdTypeOK, Stages
  <2>2. res' \in [Runs -> Results]
    BY <1>1 DEF CmdTypeOK, Results, Codes, NoRes
  <2>3. remote' \in [Runs -> Links] /\ copied' \in [Runs -> Nat]
    BY <1>1 DEF CmdTypeOK, Links
  <2>4. file' \in [Runs -> Files]
    <3>1. /\ [file[r] EXCEPT !.bytes = @ + 1] \in Files
          /\ [file[r] EXCEPT !.state = "broken"] \in Files
      BY <1>1 DEF CmdTypeOK, Files
    <3> QED BY <1>1, <3>1 DEF CmdTypeOK
  <2>5. row' \in [Runs -> Rows]
    BY <1>1, NewRows DEF CmdTypeOK
  <2> QED BY <1>1, <2>1, <2>2, <2>3, <2>4, <2>5 DEF CmdTypeOK
<1>3. \A q \in Runs \ {r} : Same(q)
  BY <1>1 DEF CmdTypeOK, Same
<1>4. StageInv(r)'
  BY <1>1 DEF CmdTypeOK, RunInv, StageInv, Closed
<1>5. WireInv(r)'
  <2>1. /\ copied'[r] = copied[r] + 1 /\ UNCHANGED <<stage, remote>>
        /\ copied[r] < Produced(r)
        /\ \/ file'[r].state = "open" /\ file[r].state = "open" /\ file'[r].bytes = file[r].bytes + 1
           \/ file[r].state = "open" /\ file'[r].state = "broken"
           \/ file[r].state # "open" /\ file'[r] = file[r]
    BY <1>1 DEF CmdTypeOK, Files
  <2>2. copied[r] \in Nat /\ stage[r] \notin {"idle", "connect", "start"}
    BY <1>1, <2>1 DEF CmdTypeOK, RunInv, WireInv, Produced, Silent
  <2> QED BY ONLY <1>1, <2>1, <2>2 DEF RunInv, WireInv
<1>6. ResInv(r)'
  BY <1>1 DEF CmdTypeOK, RunInv, ResInv, Drained, Produced
<1>7. RowInv(r)'
  BY <1>1 DEF CmdTypeOK, RunInv, RowInv, StageInv, Drained, Produced, Broken, Closed
<1>8. SweepInv(r)'
  BY <1>1 DEF CmdTypeOK, RunInv, SweepInv, StageInv, Closed
<1> QED BY <1>2, <1>3, <1>4, <1>5, <1>6, <1>7, <1>8, OneMoves DEF RunInv

\* The result is of the command, and of a session that is over all has been copied.
LEMMA SelectStep ==
    ASSUME CmdInv, NEW r \in Runs, Select(r)
    PROVE  CmdInv'
<1> USE DEF Select, Step, Return, Fail, call, wire, ledger, sweeper
<1>1. CmdTypeOK /\ RunInv(r)
  BY DEF CmdInv
<1>2. CmdTypeOK'
  <2>1. stage' \in [Runs -> Stages]
    BY <1>1 DEF CmdTypeOK, Stages
  <2>2. res' \in [Runs -> Results]
    <3>1. Outcome(r, TRUE) \in Results
      BY ONLY <1>1, OutcomeType, r \in Runs
    <3>2. res' = [res EXCEPT ![r] = Outcome(r, TRUE)] \/ UNCHANGED res
      OBVIOUS
    <3> QED BY ONLY <1>1, <3>1, <3>2 DEF CmdTypeOK
  <2>3. remote' \in [Runs -> Links] /\ copied' \in [Runs -> Nat]
    BY <1>1 DEF CmdTypeOK, Links
  <2>4. file' \in [Runs -> Files]
    BY <1>1 DEF CmdTypeOK, Files
  <2>5. row' \in [Runs -> Rows]
    BY <1>1, NewRows DEF CmdTypeOK
  <2> QED BY <1>1, <2>1, <2>2, <2>3, <2>4, <2>5 DEF CmdTypeOK
<1>3. \A q \in Runs \ {r} : Same(q)
  BY <1>1 DEF CmdTypeOK, Same
<1>4. StageInv(r)'
  BY <1>1 DEF CmdTypeOK, RunInv, StageInv, Closed
<1>5. WireInv(r)'
  BY <1>1 DEF CmdTypeOK, RunInv, WireInv
<1>6. ResInv(r)'
  <2>1. CASE Waited(r) /\ stage' = [stage EXCEPT ![r] = "ended"]
             /\ res' = [res EXCEPT ![r] = Outcome(r, TRUE)]
    <3>1. Drained(r)
      BY <2>1 DEF Waited, Drained
    <3>2. stage'[r] = "ended" /\ res'[r] = Outcome(r, TRUE) /\ UNCHANGED <<remote, copied>>
      BY <1>1, <2>1 DEF CmdTypeOK
    <3> QED BY ONLY <1>1, <3>1, <3>2, OutcomeType DEF ResInv, Drained, Produced, Parsed
  <2>2. CASE stage' = [stage EXCEPT ![r] = "killing"]
    <3>1. stage'[r] = "killing"
      BY <1>1, <2>2 DEF CmdTypeOK
    <3> QED BY ONLY <3>1 DEF ResInv
  <2> QED BY <2>1, <2>2
<1>7. RowInv(r)'
  BY <1>1 DEF CmdTypeOK, RunInv, RowInv, StageInv, Drained, Produced, Broken, Closed
<1>8. SweepInv(r)'
  BY <1>1 DEF CmdTypeOK, RunInv, SweepInv, StageInv, Closed
<1> QED BY <1>2, <1>3, <1>4, <1>5, <1>6, <1>7, <1>8, OneMoves DEF RunInv

\* The result of a command that was broken off is what has been copied of it.
LEMMA TerminateSessionStep ==
    ASSUME CmdInv, NEW r \in Runs, TerminateSession(r)
    PROVE  CmdInv'
<1> USE DEF TerminateSession, Step, Return, Fail, call, wire, ledger, sweeper
<1>1. CmdTypeOK /\ RunInv(r)
  BY DEF CmdInv
<1>2. CmdTypeOK'
  <2>1. stage' \in [Runs -> Stages]
    BY <1>1 DEF CmdTypeOK, Stages
  <2>2. res' \in [Runs -> Results]
    <3>1. Outcome(r, FALSE) \in Results
      BY ONLY <1>1, OutcomeType, r \in Runs
    <3> QED BY <1>1, <3>1 DEF CmdTypeOK
  <2>3. remote' \in [Runs -> Links] /\ copied' \in [Runs -> Nat]
    BY <1>1 DEF CmdTypeOK, Links
  <2>4. file' \in [Runs -> Files]
    BY <1>1 DEF CmdTypeOK, Files
  <2>5. row' \in [Runs -> Rows]
    BY <1>1, NewRows DEF CmdTypeOK
  <2> QED BY <1>1, <2>1, <2>2, <2>3, <2>4, <2>5 DEF CmdTypeOK
<1>3. \A q \in Runs \ {r} : Same(q)
  BY <1>1 DEF CmdTypeOK, Same
<1>4. StageInv(r)'
  BY <1>1 DEF CmdTypeOK, RunInv, StageInv, Closed
<1>5. WireInv(r)'
  BY <1>1 DEF CmdTypeOK, RunInv, WireInv
<1>6. ResInv(r)'
  <2>1. stage'[r] = "ended" /\ res'[r] = Outcome(r, FALSE) /\ UNCHANGED <<remote, copied>>
    BY <1>1 DEF CmdTypeOK
  <2> QED BY ONLY <1>1, <2>1, OutcomeType DEF ResInv, Drained, Produced, Parsed
<1>7. RowInv(r)'
  BY <1>1 DEF CmdTypeOK, RunInv, RowInv, StageInv, Drained, Produced, Broken, Closed
<1>8. SweepInv(r)'
  BY <1>1 DEF CmdTypeOK, RunInv, SweepInv, StageInv, Closed
<1> QED BY <1>2, <1>3, <1>4, <1>5, <1>6, <1>7, <1>8, OneMoves DEF RunInv

\* The closed file holds what was copied without the trailer, or is not called recorded.
LEMMA CloseCaptureStep ==
    ASSUME CmdInv, NEW r \in Runs, CloseCapture(r)
    PROVE  CmdInv'
<1> USE DEF CloseCapture, Step, Return, Fail, call, wire, ledger, sweeper
<1>1. CmdTypeOK /\ RunInv(r)
  BY DEF CmdInv
<1>2. CmdTypeOK'
  <2>1. stage' \in [Runs -> Stages]
    BY <1>1 DEF CmdTypeOK, Stages
  <2>2. res' \in [Runs -> Results]
    <3>1. \A b \in BOOLEAN : [res[r] EXCEPT !.recorded = b] \in Results
      BY ONLY <1>1 DEF CmdTypeOK, Results
    <3>2. res[r].parsed \in BOOLEAN
      BY ONLY <1>1 DEF CmdTypeOK, Results
    <3> QED BY <1>1, <3>1, <3>2 DEF CmdTypeOK
  <2>3. remote' \in [Runs -> Links] /\ copied' \in [Runs -> Nat]
    BY <1>1 DEF CmdTypeOK, Links
  <2>4. file' \in [Runs -> Files]
    <3>1. file[r].bytes \in Int /\ file[r].bytes - 1 \in Int
      BY ONLY <1>1 DEF CmdTypeOK, Files
    <3> QED BY <1>1, <3>1 DEF CmdTypeOK, Files
  <2>5. row' \in [Runs -> Rows]
    BY <1>1, NewRows DEF CmdTypeOK
  <2> QED BY <1>1, <2>1, <2>2, <2>3, <2>4, <2>5 DEF CmdTypeOK
<1>3. \A q \in Runs \ {r} : Same(q)
  BY <1>1 DEF CmdTypeOK, Same
<1>4. StageInv(r)'
  BY <1>1 DEF CmdTypeOK, RunInv, StageInv, Closed
<1>5. WireInv(r)'
  BY <1>1 DEF CmdTypeOK, RunInv, WireInv
<1>6. ResInv(r)'
  <2>1. PICK cut \in BOOLEAN :
          /\ file'[r] = [
               state |-> IF file[r].state = "none" THEN "none" ELSE "closed",
               bytes |-> IF file[r].state = "open" /\ res[r].parsed /\ cut
                         THEN file[r].bytes - 1 ELSE file[r].bytes]
          /\ res'[r] = [res[r] EXCEPT
                          !.recorded = file[r].state = "open" /\ (res[r].parsed => cut)]
    BY <1>1 DEF CmdTypeOK
  <2>2. stage[r] = "ended" /\ stage'[r] = "counting" /\ UNCHANGED <<remote, copied>>
    BY <1>1 DEF CmdTypeOK
  <2>3. res[r] \in Results /\ file[r] \in Files /\ copied[r] \in Nat
    BY <1>1 DEF CmdTypeOK
  <2>4. /\ res'[r].code = res[r].code /\ res'[r].parsed = res[r].parsed
        /\ res'[r].timeout = res[r].timeout
        /\ res'[r].recorded = (file[r].state = "open" /\ (res[r].parsed => cut))
    BY ONLY <2>1, <2>3 DEF Results
  <2>5. res'[r].recorded =>
            /\ file[r].state = "open" /\ file'[r].state = "closed"
            /\ file'[r].bytes = file[r].bytes - (IF res[r].parsed THEN 1 ELSE 0)
    <3> SUFFICES ASSUME res'[r].recorded
                 PROVE  /\ file[r].state = "open" /\ file'[r].state = "closed"
                        /\ file'[r].bytes = file[r].bytes - (IF res[r].parsed THEN 1 ELSE 0)
      OBVIOUS
    <3>1. file[r].state = "open" /\ (res[r].parsed => cut)
      BY <2>4
    <3>2. file[r].bytes \in Int
      BY ONLY <2>3 DEF Files
    <3>3. CASE res[r].parsed
      BY ONLY <2>1, <3>1, <3>2, <3>3
    <3>4. CASE ~res[r].parsed
      BY ONLY <2>1, <3>1, <3>2, <3>4
    <3> QED BY <3>3, <3>4
  <2> QED BY ONLY <1>1, <2>2, <2>4, <2>5 DEF RunInv, WireInv, ResInv, Drained, Produced
<1>7. RowInv(r)'
  BY <1>1 DEF CmdTypeOK, RunInv, RowInv, StageInv, Drained, Produced, Broken, Closed
<1>8. SweepInv(r)'
  BY <1>1 DEF CmdTypeOK, RunInv, SweepInv, StageInv, Closed
<1> QED BY <1>2, <1>3, <1>4, <1>5, <1>6, <1>7, <1>8, OneMoves DEF RunInv

\* The bytes are counted as the file holds them, when nothing more is copied.
LEMMA CollectStep ==
    ASSUME CmdInv, NEW r \in Runs, Collect(r)
    PROVE  CmdInv'
<1> USE DEF Collect, Step, Return, Fail, call, wire, ledger, sweeper
<1>1. CmdTypeOK /\ RunInv(r)
  BY DEF CmdInv
<1>2. CmdTypeOK'
  <2>1. stage' \in [Runs -> Stages]
    BY <1>1 DEF CmdTypeOK, Stages
  <2>2. res' \in [Runs -> Results]
    <3>1. \A n \in Int, e \in BOOLEAN : [res[r] EXCEPT !.bytes = n, !.err = e] \in Results
      BY ONLY <1>1 DEF CmdTypeOK, Results
    <3>2. /\ copied[r] - (IF res[r].parsed THEN 1 ELSE 0) \in Int
          /\ \A a \in BOOLEAN : (res[r].err \/ ~a) \in BOOLEAN
      BY ONLY <1>1 DEF CmdTypeOK
    <3>3. \E n \in Int, e \in BOOLEAN : res' = [res EXCEPT ![r] = [@ EXCEPT !.bytes = n, !.err = e]]
      BY <1>1, <3>2 DEF CmdTypeOK
    <3> QED BY ONLY <1>1, <3>1, <3>3 DEF CmdTypeOK
  <2>3. remote' \in [Runs -> Links] /\ copied' \in [Runs -> Nat]
    BY <1>1 DEF CmdTypeOK, Links
  <2>4. file' \in [Runs -> Files]
    BY <1>1 DEF CmdTypeOK, Files
  <2>5. row' \in [Runs -> Rows]
    BY <1>1, NewRows DEF CmdTypeOK
  <2> QED BY <1>1, <2>1, <2>2, <2>3, <2>4, <2>5 DEF CmdTypeOK
<1>3. \A q \in Runs \ {r} : Same(q)
  BY <1>1 DEF CmdTypeOK, Same
<1>4. StageInv(r)'
  BY <1>1 DEF CmdTypeOK, RunInv, StageInv, Closed
<1>5. WireInv(r)'
  BY <1>1 DEF CmdTypeOK, RunInv, WireInv
<1>6. ResInv(r)'
  BY <1>1 DEF CmdTypeOK, RunInv, ResInv, Drained, Produced
<1>7. RowInv(r)'
  BY <1>1 DEF CmdTypeOK, RunInv, RowInv, StageInv, Drained, Produced, Broken, Closed
<1>8. SweepInv(r)'
  BY <1>1 DEF CmdTypeOK, RunInv, SweepInv, StageInv, Closed
<1> QED BY <1>2, <1>3, <1>4, <1>5, <1>6, <1>7, <1>8, OneMoves DEF RunInv

\* The row becomes what the result says, or it is known to be unsaved.
LEMMA FinishCommandRunStep ==
    ASSUME CmdInv, NEW r \in Runs, FinishCommandRun(r)
    PROVE  CmdInv'
<1> USE DEF FinishCommandRun, Step, Return, Fail, call, wire, ledger, sweeper
<1>1. CmdTypeOK /\ RunInv(r)
  BY DEF CmdInv
<1>2. CmdTypeOK'
  <2>1. stage' \in [Runs -> Stages]
    BY <1>1 DEF CmdTypeOK, Stages
  <2>2. res' \in [Runs -> Results]
    BY <1>1, NewResults DEF CmdTypeOK
  <2>3. remote' \in [Runs -> Links] /\ copied' \in [Runs -> Nat]
    BY <1>1 DEF CmdTypeOK, Links
  <2>4. file' \in [Runs -> Files]
    BY <1>1 DEF CmdTypeOK, Files
  <2>5. row' \in [Runs -> Rows]
    BY <1>1, FinishType DEF CmdTypeOK
  <2> QED BY <1>1, <2>1, <2>2, <2>3, <2>4, <2>5 DEF CmdTypeOK
<1>3. \A q \in Runs \ {r} : Same(q)
  BY <1>1 DEF CmdTypeOK, Same
<1>a. /\ stage[r] = "finish" /\ stage'[r] = "returned"
      /\ UNCHANGED <<remote, copied, file, late, doomed, sweep>>
      /\ \/ /\ row'[r] = CommandRunFinish(r) /\ row[r].status = "running"
            /\ unsaved' = unsaved /\ finished' = finished \cup {r}
         \/ row' = row /\ finished' = finished /\ unsaved' = unsaved \cup {r}
  BY <1>1 DEF CmdTypeOK
<1>b. row'[r] = CommandRunFinish(r) => Closed(r)' /\ row'[r].expired = row[r].expired
  BY <1>1, FinishType DEF Closed
<1>4. StageInv(r)'
  BY ONLY <1>1, <1>a, <1>b DEF RunInv, StageInv, Closed
<1>5. WireInv(r)'
  BY <1>1 DEF CmdTypeOK, RunInv, WireInv
<1>6. ResInv(r)'
  BY <1>1 DEF CmdTypeOK, RunInv, ResInv, Drained, Produced
<1>7. RowInv(r)'
  <2>1. CASE row' = row /\ finished' = finished
    BY ONLY <1>1, <1>a, <2>1 DEF RunInv, RowInv, Drained, Produced, Broken
  <2>2. CASE row'[r] = CommandRunFinish(r) /\ row[r].status = "running"
    <3>1. r \notin finished /\ r \notin late /\ ~row[r].cleaned
      BY ONLY <1>1, <2>2 DEF RunInv, StageInv, RowInv, Closed
    <3>2. ~Broken(r)' => ~res[r].timeout
      BY ONLY <1>1, <2>2, FinishType, r \in Runs DEF Broken, CommandRunStatus
    <3>3. row'[r].status = "succeeded" => res[r].code = "ok"
      BY ONLY <1>1, <2>2, FinishType, r \in Runs DEF CommandRunStatus
    <3>4. /\ row'[r].code \in {res[r].code, "none"}
          /\ row'[r].bytes = res[r].bytes /\ row'[r].available = res[r].recorded
          /\ row'[r].cleaned = row[r].cleaned
      BY ONLY <1>1, <2>2, FinishType, r \in Runs
    <3> QED BY ONLY <1>1, <1>a, <3>1, <3>2, <3>3, <3>4
            DEF RunInv, ResInv, RowInv, Drained, Produced
  <2> QED BY <1>a, <2>1, <2>2
<1>8. SweepInv(r)'
  BY <1>1 DEF CmdTypeOK, RunInv, SweepInv, StageInv, Closed
<1> QED BY <1>2, <1>3, <1>4, <1>5, <1>6, <1>7, <1>8, OneMoves DEF RunInv

-----------------------------------------------------------------------------
(* The clean-up and the restart, which move every run *)

\* An expired output is only no longer offered.
LEMMA ExpireOutputsStep ==
    ASSUME CmdInv, ExpireOutputs
    PROVE  CmdInv'
<1> USE DEF ExpireOutputs, call, wire
<1>1. PICK old \in SUBSET {r \in Runs : Closed(r)} :
        row' = [r \in Runs |-> IF r \in old /\ row[r].available
                               THEN [row[r] EXCEPT !.expired = TRUE, !.available = FALSE]
                               ELSE row[r]]
  OBVIOUS
<1>2. ASSUME NEW r \in Runs
      PROVE  /\ row'[r] \in Rows /\ row'[r].status = row[r].status
             /\ row'[r].code = row[r].code /\ row'[r].bytes = row[r].bytes
             /\ row'[r].cleaned = row[r].cleaned
             /\ row'[r].available => row[r].available
             /\ row'[r].expired => row[r].expired \/ (Closed(r) /\ ~row'[r].available)
  <2>1. row[r] \in Rows
    BY DEF CmdInv, CmdTypeOK
  <2>2. LET k == [row[r] EXCEPT !.expired = TRUE, !.available = FALSE]
        IN /\ k \in Rows /\ k.status = row[r].status /\ k.code = row[r].code
           /\ k.bytes = row[r].bytes /\ k.cleaned = row[r].cleaned /\ ~k.available
    BY ONLY <2>1 DEF Rows
  <2> QED BY ONLY <1>1, <2>1, <2>2, r \in Runs
<1>3. CmdTypeOK'
  <2>1. row' \in [Runs -> Rows]
    BY ONLY <1>1, <1>2
  <2> QED BY <2>1 DEF CmdInv, CmdTypeOK
<1>4. sweep' # "mark" /\ UNCHANGED <<stage, res, remote, copied, file, finished, late, unsaved, doomed>>
  OBVIOUS
<1>5. ASSUME NEW r \in Runs PROVE RunInv(r)'
  BY ONLY <1>2, <1>4, CmdInv, r \in Runs
     DEF CmdInv, RunInv, StageInv, WireInv, ResInv, RowInv, SweepInv, Drained, Produced, Broken, Closed
<1> QED BY <1>3, <1>5 DEF CmdInv

\* What is to be deleted is closed and no longer available.
LEMMA ListDeletableStep ==
    ASSUME CmdInv, ListDeletable
    PROVE  CmdInv'
<1> USE DEF ListDeletable, call, wire, ledger
<1>1. CmdTypeOK'
  BY DEF CmdInv, CmdTypeOK, Deletable
<1>2. ASSUME NEW r \in Runs, r \in Deletable PROVE Closed(r) /\ ~row[r].available
  <2>1. CASE row[r].expired
    BY <1>2, <2>1 DEF Deletable, CmdInv, RunInv, StageInv
  <2> QED BY <1>2, <2>1 DEF Deletable
<1>3. ASSUME NEW r \in Runs PROVE RunInv(r)'
  BY <1>2 DEF CmdInv, RunInv, StageInv, WireInv, ResInv, RowInv, SweepInv, Drained, Produced,
             Broken, Closed
<1> QED BY <1>1, <1>3 DEF CmdInv

\* Only files go that nobody is sent to; all of them are gone before they are marked.
LEMMA RemoveOutputsStep ==
    ASSUME CmdInv, RemoveOutputs
    PROVE  CmdInv'
<1> USE DEF RemoveOutputs, call, wire, ledger
<1>1. PICK stuck \in SUBSET {r \in doomed : file[r].state # "none"} :
        /\ file' = [r \in Runs |-> IF r \in doomed \ stuck THEN NoFile ELSE file[r]]
        /\ sweep' = IF stuck = {} THEN "mark" ELSE "idle"
        /\ doomed' = IF stuck = {} THEN doomed ELSE {}
  OBVIOUS
<1>2. CmdTypeOK'
  <2>1. NoFile \in Files
    BY DEF NoFile, Files
  <2>2. file' \in [Runs -> Files]
    BY <1>1, <2>1 DEF CmdInv, CmdTypeOK
  <2> QED BY <1>1, <2>2 DEF CmdInv, CmdTypeOK
<1>3. ASSUME NEW r \in Runs
      PROVE  /\ file'[r] = file[r] \/ (r \in doomed /\ file'[r] = NoFile)
             /\ r \in doomed' => r \in doomed /\ (sweep' = "mark" => file'[r] = NoFile)
  BY <1>1
<1>4. UNCHANGED <<stage, res, remote, copied, row, finished, late, unsaved>>
  OBVIOUS
<1>5. ASSUME NEW r \in Runs PROVE RunInv(r)'
  <2>1. RunInv(r)
    BY DEF CmdInv
  <2>2. r \in doomed => stage[r] \in {"idle", "returned"} /\ ~row[r].available
    BY <2>1 DEF RunInv, StageInv, SweepInv, Closed
  <2> QED BY ONLY <1>3, <1>4, <2>1, <2>2, r \in Runs
          DEF RunInv, StageInv, WireInv, ResInv, RowInv, SweepInv, Drained, Produced, Broken,
              Closed, NoFile
<1> QED BY <1>2, <1>5 DEF CmdInv

\* A row is marked when its file is gone.
LEMMA MarkCleanedStep ==
    ASSUME CmdInv, MarkCleaned
    PROVE  CmdInv'
<1> USE DEF MarkCleaned, call, wire
<1>1. ASSUME NEW r \in Runs
      PROVE  /\ row'[r] \in Rows /\ row'[r].status = row[r].status
             /\ row'[r].code = row[r].code /\ row'[r].bytes = row[r].bytes
             /\ row'[r].available = row[r].available
             /\ row'[r].expired = row[r].expired
             /\ row'[r].cleaned => row[r].cleaned \/ r \in doomed
  <2>1. row[r] \in Rows
    BY DEF CmdInv, CmdTypeOK
  <2>2. \A b \in BOOLEAN : LET k == [row[r] EXCEPT !.cleaned = b]
          IN /\ k \in Rows /\ k.status = row[r].status /\ k.code = row[r].code
             /\ k.bytes = row[r].bytes /\ k.available = row[r].available /\ k.cleaned = b
             /\ k.expired = row[r].expired
    BY ONLY <2>1 DEF Rows
  <2>3. row'[r] = row[r] \/ row'[r] = [row[r] EXCEPT !.cleaned = @ \/ r \in doomed]
    BY DEF CmdInv, CmdTypeOK
  <2>4. (row[r].cleaned \/ r \in doomed) \in BOOLEAN
    OBVIOUS
  <2> QED BY ONLY <2>1, <2>2, <2>3, <2>4
<1>2. CmdTypeOK'
  <2>1. row' \in [Runs -> Rows]
    BY <1>1 DEF CmdInv, CmdTypeOK
  <2> QED BY <2>1 DEF CmdInv, CmdTypeOK
<1>3. /\ sweep = "mark" /\ sweep' = "idle" /\ doomed' = {}
      /\ UNCHANGED <<stage, res, remote, copied, file, finished, late, unsaved>>
  OBVIOUS
<1>4. ASSUME NEW r \in Runs PROVE RunInv(r)'
  <2>1. RunInv(r)
    BY DEF CmdInv
  <2>2. r \in doomed => file[r].state = "none" /\ Closed(r)
    BY <2>1, <1>3 DEF RunInv, SweepInv
  <2> QED BY ONLY <1>1, <1>3, <2>1, <2>2, r \in Runs
          DEF RunInv, StageInv, WireInv, ResInv, RowInv, SweepInv, Drained, Produced, Broken, Closed
<1> QED BY <1>2, <1>4 DEF CmdInv

\* After a restart no call is under way, no link is up and no row is left running.
LEMMA RestartStep ==
    ASSUME CmdInv, Restart
    PROVE  CmdInv'
<1> USE DEF Restart
<1>1. ASSUME NEW r \in Runs
      PROVE  /\ row'[r] \in Rows
             /\ row'[r].status = IF row[r].status = "running" THEN "lost" ELSE row[r].status
             /\ row'[r].code = row[r].code /\ row'[r].bytes = row[r].bytes
             /\ row'[r].available = row[r].available /\ row'[r].cleaned = row[r].cleaned
             /\ row'[r].expired = row[r].expired
  <2>1. row[r] \in Rows
    BY DEF CmdInv, CmdTypeOK
  <2>2. LET k == [row[r] EXCEPT !.status = "lost"]
        IN /\ k \in Rows /\ k.status = "lost" /\ k.code = row[r].code
           /\ k.bytes = row[r].bytes /\ k.available = row[r].available
           /\ k.cleaned = row[r].cleaned /\ k.expired = row[r].expired
    BY ONLY <2>1 DEF Rows, Statuses
  <2> QED BY <2>1, <2>2
<1>2. ASSUME NEW r \in Runs
      PROVE  /\ remote'[r] \in Links
             /\ remote'[r].sent = remote[r].sent /\ remote'[r].exit = remote[r].exit
             /\ remote'[r].trailer = remote[r].trailer
             /\ remote'[r].up = (stage[r] = "idle")
  <2>1. remote[r] \in Links
    BY DEF CmdInv, CmdTypeOK
  <2>2. \A b \in BOOLEAN : LET k == [remote[r] EXCEPT !.up = b]
          IN /\ k \in Links /\ k.sent = remote[r].sent /\ k.exit = remote[r].exit
             /\ k.trailer = remote[r].trailer /\ k.up = b
    BY ONLY <2>1 DEF Links
  <2>3. remote'[r] = [remote[r] EXCEPT !.up = (stage[r] = "idle")]
    OBVIOUS
  <2> QED BY ONLY <2>2, <2>3
<1>3. ASSUME NEW r \in Runs
      PROVE  /\ file'[r] \in Files
             /\ file'[r].state = IF file[r].state = "none" THEN "none" ELSE "closed"
             /\ file'[r].bytes = file[r].bytes
  <2>1. file[r] \in Files
    BY DEF CmdInv, CmdTypeOK
  <2>2. \A t \in {"none", "closed"} : LET k == [file[r] EXCEPT !.state = t]
          IN k \in Files /\ k.state = t /\ k.bytes = file[r].bytes
    BY ONLY <2>1 DEF Files
  <2>3. file'[r] = [file[r] EXCEPT !.state = IF @ = "none" THEN "none" ELSE "closed"]
    OBVIOUS
  <2> QED BY ONLY <2>2, <2>3
<1>4. /\ \A r \in Runs : stage'[r] = IF stage[r] = "idle" THEN "idle" ELSE "returned"
      /\ \A r \in Runs : res'[r] = NoRes
      /\ doomed' = {} /\ UNCHANGED <<copied, finished, late, unsaved>>
  OBVIOUS
<1>5. CmdTypeOK'
  <2>1. row' \in [Runs -> Rows] /\ remote' \in [Runs -> Links] /\ file' \in [Runs -> Files]
    BY <1>1, <1>2, <1>3
  <2>2. stage' \in [Runs -> Stages] /\ res' \in [Runs -> Results]
    BY NewResults DEF Stages, CmdInv, CmdTypeOK
  <2>3. sweep' = "idle" /\ restarts' \in Nat /\ cancelled' = {}
    BY DEF CmdInv, CmdTypeOK
  <2> QED BY ONLY <1>4, <2>1, <2>2, <2>3, CmdInv DEF CmdInv, CmdTypeOK
<1>6. ASSUME NEW r \in Runs PROVE RunInv(r)'
  <2>1. RunInv(r) /\ stage[r] \in Stages
    BY DEF CmdInv, CmdTypeOK
  <2>2. StageInv(r)'
    BY ONLY <1>1, <1>4, <2>1, r \in Runs DEF RunInv, StageInv, Closed
  <2>3. WireInv(r)'
    <3>1. CASE stage[r] = "idle"
      <4>1. remote[r] = Silent /\ copied[r] = 0 /\ file[r] = NoFile
        BY ONLY <2>1, <3>1 DEF RunInv, WireInv
      <4>2. remote'[r] = [Silent EXCEPT !.up = TRUE]
        BY <3>1, <4>1
      <4>3. file'[r] = [NoFile EXCEPT !.state = "none"]
        BY <4>1 DEF NoFile
      <4>4. remote'[r] = Silent /\ file'[r] = NoFile
        BY ONLY <4>2, <4>3 DEF Silent, NoFile
      <4> QED BY ONLY <1>4, <3>1, <4>1, <4>4, r \in Runs DEF WireInv, Silent, NoFile
    <3>2. CASE stage[r] # "idle"
      BY ONLY <1>2, <1>3, <1>4, <2>1, <3>2, r \in Runs DEF RunInv, WireInv
    <3> QED BY <3>1, <3>2
  <2>4. ResInv(r)' /\ SweepInv(r)'
    BY ONLY <1>4, r \in Runs DEF ResInv, SweepInv
  <2>5. RowInv(r)'
    BY ONLY <1>1, <1>2, <1>3, <1>4, <2>1, r \in Runs
       DEF RunInv, StageInv, RowInv, Drained, Produced, Broken, Closed
  <2> QED BY <2>2, <2>3, <2>4, <2>5 DEF RunInv
<1> QED BY <1>5, <1>6 DEF CmdInv

-----------------------------------------------------------------------------
\* Every step keeps CmdInv.
LEMMA CmdStep == CmdInv /\ [CmdNext]_cmdVars => CmdInv'
<1> SUFFICES ASSUME CmdInv, [CmdNext]_cmdVars PROVE CmdInv'
  OBVIOUS
<1>1. ASSUME NEW r \in Runs,
             StartCommandRun(r) \/ Handler(r) \/ Cancel(r) \/ Remote(r) \/ Write(r)
      PROVE  CmdInv'
  BY <1>1, StartCommandRunStep, GetClientStep, StartSessionStep, SelectStep, TerminateSessionStep,
     CloseCaptureStep, CollectStep, FinishCommandRunStep, CancelStep, RemoteStep, WriteStep
  DEF Handler, Local
<1>2. CASE ExpireOutputs \/ ListDeletable \/ RemoveOutputs \/ MarkCleaned \/ Restart
  BY <1>2, ExpireOutputsStep, ListDeletableStep, RemoveOutputsStep, MarkCleanedStep, RestartStep
<1>3. CASE UNCHANGED cmdVars
  BY <1>3 DEF cmdVars, call, wire, ledger, sweeper, CmdInv, CmdTypeOK, RunInv, StageInv, WireInv,
              ResInv, RowInv, SweepInv, Drained, Produced, Broken, Closed
<1> QED BY <1>1, <1>2, <1>3 DEF CmdNext

\* CmdInv holds of every reachable state.
THEOREM CmdInvariant == CmdSpec => []CmdInv
<1>1. CmdInit => CmdInv
  BY CmdInitInv
<1>2. CmdInv /\ [CmdNext]_cmdVars => CmdInv'
  BY CmdStep
<1> QED BY <1>1, <1>2, PTL DEF CmdSpec

\* Of any number of commands, however calls, timers, cancellations, broken links, the clean-up
\* and restarts interleave: what is called available is there and whole.
THEOREM CommandAvailableIsWhole == CmdSpec => []AvailableIsWhole
<1>1. CmdInv => AvailableIsWhole
  BY DEF CmdInv, RunInv, RowInv, Broken, AvailableIsWhole
<1> QED BY <1>1, CmdInvariant, PTL

\* ... the verdict is the command's own, and a call that has returned has closed its run;
THEOREM CommandVerdict == CmdSpec => []VerdictOfCommand
<1>1. CmdInv => VerdictOfCommand
  BY DEF CmdInv, RunInv, RowInv, StageInv, VerdictOfCommand
<1> QED BY <1>1, CmdInvariant, PTL

\* ... and nothing is published of a run after its end unless the run was broken off.
THEOREM CommandNothingAfterFinished == CmdSpec => []NothingAfterFinished
<1>1. CmdInv => NothingAfterFinished
  BY DEF CmdInv, CmdTypeOK, RunInv, RowInv, Broken, NothingAfterFinished
<1> QED BY <1>1, CmdInvariant, PTL

=============================================================================
