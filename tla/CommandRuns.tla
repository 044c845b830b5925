------------------------------ MODULE CommandRuns ------------------------------
(***************************************************************************)
(* Synchronous commands: what the handlers of exec and exec_many do for    *)
(* one host, Runner.Run with the goroutine that copies a session's output, *)
(* the row of command_runs, the kept output in the data directory and the  *)
(* hourly clean-up of both.  The slots that exec_many shares out are       *)
(* module FanOut, the persistent session of an exec is module ExecSession. *)
(*                                                                         *)
(* A run is one command on one host.  Its output is a number of chunks;    *)
(* the trailer that the wrapper script prints last counts as one more.     *)
(* One stream stands for both.  Time is left out: a timer may fire at any  *)
(* moment, and any ended run may be past its seven days.                   *)
(***************************************************************************)
EXTENDS Integers, FiniteSets

CONSTANTS
    Runs,       \* commands, each on one host
    Past,       \* those that ended before the model begins, their output kept
    MaxChunks,  \* bound: chunks a command prints
    MaxRestarts \* bound: restarts of the gateway

ASSUME CmdConstantsOK ==
    /\ Past \subseteq Runs
    /\ MaxChunks \in Nat
    /\ MaxRestarts \in Nat

VARIABLES
    stage,      \* where its goroutine is
    cancelled,  \* runs whose request context is done
    res,        \* result that Runner.Run is putting together
    remote,     \* the command on the host, and the link to it
    copied,     \* chunks handed to limitedWriter.Write
    file,       \* the kept output
    row,        \* the row of command_runs
    finished,   \* runs whose command_finished has been published
    late,       \* history: runs with output published after that
    unsaved,    \* history: runs whose final UPDATE failed
    sweep,      \* step of the hourly clean-up
    doomed,     \* ids the clean-up was told to delete
    restarts

call    == <<stage, cancelled, res>>
wire    == <<remote, copied>>
ledger  == <<row, finished, unsaved>>
sweeper == <<sweep, doomed>>
cmdVars == <<call, wire, file, ledger, late, sweeper, restarts>>

NoRes  == [timeout |-> FALSE, err |-> FALSE, code |-> "none", known |-> FALSE,
           bytes |-> 0, recorded |-> FALSE, parsed |-> FALSE]
NoFile == [state |-> "none", bytes |-> 0]
NoRow  == [status |-> "none", code |-> "none", bytes |-> 0,
           available |-> FALSE, expired |-> FALSE, cleaned |-> FALSE]
Silent == [sent |-> 0, exit |-> "running", trailer |-> FALSE, up |-> TRUE]

CmdInit ==
    /\ stage = [r \in Runs |-> IF r \in Past THEN "returned" ELSE "idle"]
    /\ cancelled = {}
    /\ res = [r \in Runs |-> NoRes]
    /\ remote = [r \in Runs |-> IF r \in Past THEN [Silent EXCEPT !.exit = "ok"] ELSE Silent]
    /\ copied = [r \in Runs |-> 0]
    /\ file = [r \in Runs |-> IF r \in Past THEN [NoFile EXCEPT !.state = "closed"] ELSE NoFile]
    /\ row = [r \in Runs |-> IF r \in Past
                             THEN [NoRow EXCEPT !.status = "succeeded", !.available = TRUE]
                             ELSE NoRow]
    /\ finished = Past /\ late = {} /\ unsaved = {}
    /\ sweep = "idle"
    /\ doomed = {}
    /\ restarts = 0

-----------------------------------------------------------------------------
(* The handlers *)

Step(r, from, to) ==
    /\ stage[r] = from
    /\ stage' = [stage EXCEPT ![r] = to]
    /\ UNCHANGED cancelled

\* Whatever the way out, what the call had in hand is gone.
Return(r, from) ==
    /\ stage[r] = from
    /\ stage' = [stage EXCEPT ![r] = "returned"]
    /\ cancelled' = cancelled \ {r}
    /\ res' = [res EXCEPT ![r] = NoRes]

Fail(r) == res' = [res EXCEPT ![r] = [NoRes EXCEPT !.err = TRUE]]

\* A host that is not authorised, or a row that cannot be created, ends the call.
StartCommandRun(r) ==
    /\ \/ Return(r, "idle") /\ UNCHANGED row
       \/ /\ Step(r, "idle", "connect")
          /\ row' = [row EXCEPT ![r] = [NoRow EXCEPT !.status = "running"]]
          /\ UNCHANGED res
    /\ UNCHANGED <<wire, file, finished, unsaved, late, sweeper, restarts>>

\* Pool.Get fails, or no session is given: the run is finished with the error.
GetClient(r) ==
    /\ \/ Step(r, "connect", "start") /\ UNCHANGED res
       \/ Step(r, "connect", "finish") /\ Fail(r)
    /\ UNCHANGED <<wire, file, ledger, late, sweeper, restarts>>

\* The output file is opened before the session starts and removed when it does not.
StartSession(r) ==
    /\ \/ Step(r, "start", "finish") /\ Fail(r) /\ UNCHANGED file
       \/ /\ Step(r, "start", "running")
          /\ \E s \in {"open", "none"} : file' = [file EXCEPT ![r].state = s]
          /\ UNCHANGED res
    /\ UNCHANGED <<wire, ledger, late, sweeper, restarts>>

Cancel(r) ==
    /\ stage[r] \notin {"idle", "returned"} /\ r \notin cancelled
    /\ cancelled' = cancelled \cup {r}
    /\ UNCHANGED <<stage, res, wire, file, ledger, late, sweeper, restarts>>

-----------------------------------------------------------------------------
(* The command, its link and the goroutine that copies its output *)

Produced(r) == remote[r].sent + (IF remote[r].trailer THEN 1 ELSE 0)

\* The command prints or ends, the link breaks.  A shell that is left with exit prints no trailer.
Remote(r) ==
    /\ stage[r] \in {"running", "killing"} /\ remote[r].up
    /\ \/ /\ remote[r].exit = "running" /\ remote[r].sent < MaxChunks
          /\ remote' = [remote EXCEPT ![r].sent = @ + 1]
       \/ /\ remote[r].exit = "running"
          /\ \E code \in {"ok", "fail"}, t \in BOOLEAN :
                remote' = [remote EXCEPT ![r] = [@ EXCEPT !.exit = code, !.trailer = t]]
       \/ remote' = [remote EXCEPT ![r].up = FALSE]
    /\ UNCHANGED <<call, copied, file, ledger, late, sweeper, restarts>>

\* Write keeps the chunk if the file can take it, publishes it unless it is the trailer,
\* and counts it.  A session that is closed does not wait for it.
Write(r) ==
    /\ remote[r].up
    /\ copied[r] < Produced(r)
    /\ copied' = [copied EXCEPT ![r] = @ + 1]
    /\ IF file[r].state = "open"
       THEN \/ file' = [file EXCEPT ![r].bytes = @ + 1]
            \/ file' = [file EXCEPT ![r].state = "broken"]
       ELSE UNCHANGED file
    /\ late' = IF copied[r] < remote[r].sent THEN late \cup ({r} \cap finished) ELSE late
    /\ UNCHANGED <<call, remote, ledger, sweeper, restarts>>

-----------------------------------------------------------------------------
(* Runner.Run after the session has started *)

\* Mutated Waited: the session is over with its command, copied or not.
Exited(r) == remote[r].exit # "running" \/ ~remote[r].up

\* Wait returns once the command has ended and its output has been copied, or the link broke.
Waited(r) ==
    \/ remote[r].exit # "running" /\ copied[r] = Produced(r)
    \/ ~remote[r].up

Parsed(r) == remote[r].trailer /\ copied[r] = Produced(r)

\* Mutated Outcome: the zero value of the exit code is left where no trailer came.
ZeroCode(r, waited) ==
    [NoRes EXCEPT !.timeout = ~waited,
                  !.err = waited /\ ~Parsed(r) /\ ~remote[r].up,
                  !.code = IF Parsed(r) THEN remote[r].exit ELSE "ok",
                  !.known = Parsed(r),
                  !.parsed = Parsed(r)]

\* Without a trailer the code is that of the session, if Wait brought one.
Outcome(r, waited) ==
    LET status == waited /\ remote[r].up
    IN [timeout  |-> ~waited,
        err      |-> waited /\ ~Parsed(r) /\ ~remote[r].up,
        code     |-> IF Parsed(r) \/ status THEN remote[r].exit ELSE "none",
        known    |-> Parsed(r) \/ (status /\ remote[r].exit = "fail"),
        bytes    |-> 0,
        recorded |-> FALSE,
        parsed   |-> Parsed(r)]

\* Waits for one of: the end of the session, the timer, the end of the request.
Select(r) ==
    /\ \/ /\ Waited(r)
          /\ Step(r, "running", "ended")
          /\ res' = [res EXCEPT ![r] = Outcome(r, TRUE)]
       \/ Step(r, "running", "killing") /\ UNCHANGED res
    /\ UNCHANGED <<wire, file, ledger, late, sweeper, restarts>>

\* terminateSession sends the signal over the link, which may never take it.  The result is then
\* read from what has been copied by then.
TerminateSession(r) ==
    /\ Step(r, "killing", "ended")
    /\ res' = [res EXCEPT ![r] = Outcome(r, FALSE)]
    /\ UNCHANGED <<wire, file, ledger, late, sweeper, restarts>>

\* The file is closed and its trailer, if one was found, cut off, which can fail ...
CloseCapture(r) ==
    /\ Step(r, "ended", "counting")
    /\ LET kept == file[r].state = "open"
       IN \E cut \in BOOLEAN :
             /\ file' = [file EXCEPT ![r] = [
                   state |-> IF @.state = "none" THEN "none" ELSE "closed",
                   bytes |-> IF kept /\ res[r].parsed /\ cut THEN @.bytes - 1 ELSE @.bytes]]
             /\ res' = [res EXCEPT ![r].recorded = kept /\ (res[r].parsed => cut)]
    /\ UNCHANGED <<wire, ledger, late, sweeper, restarts>>

\* ... then the bytes are counted, of a command that was broken off while it may still print; and
\* the artifact of an output that was too long for the answer is written, or not.
Collect(r) ==
    /\ Step(r, "counting", "finish")
    /\ \E artifact \in BOOLEAN :
          res' = [res EXCEPT ![r] = [@ EXCEPT
                       !.bytes = copied[r] - (IF res[r].parsed THEN 1 ELSE 0),
                       !.err = @ \/ ~artifact]]
    /\ UNCHANGED <<wire, file, ledger, late, sweeper, restarts>>

-----------------------------------------------------------------------------
(* finishCommandRun *)

CommandRunStatus(r) ==
    IF res[r].timeout
    THEN IF r \in cancelled THEN "cancelled" ELSE "timeout"
    ELSE IF res[r].err
         THEN IF ~res[r].known /\ r \in cancelled THEN "cancelled" ELSE "failed"
         ELSE IF res[r].code = "ok" THEN "succeeded" ELSE "failed"

CommandRunFinish(r) ==
    LET s == CommandRunStatus(r)
        coded == s \notin {"cancelled", "timeout"} /\ (res[r].err => res[r].known)
    IN [row[r] EXCEPT !.status = s,
                      !.code = IF coded THEN res[r].code ELSE "none",
                      !.bytes = res[r].bytes,
                      !.available = res[r].recorded]

\* The UPDATE writes the row that is still running and command_finished follows, or it fails.
FinishCommandRun(r) ==
    /\ Return(r, "finish")
    /\ \/ /\ row[r].status = "running"
          /\ row' = [row EXCEPT ![r] = CommandRunFinish(r)]
          /\ finished' = finished \cup {r}
          /\ UNCHANGED unsaved
       \/ /\ unsaved' = unsaved \cup {r}
          /\ UNCHANGED <<row, finished>>
    /\ UNCHANGED <<wire, file, late, sweeper, restarts>>

-----------------------------------------------------------------------------
(* Clean-up of kept outputs: Manager.cleanup, in its order *)

Closed(r) == row[r].status \notin {"none", "running"}

ExpireOutputs ==
    /\ sweep = "idle"
    /\ \E old \in SUBSET {r \in Runs : Closed(r)} :
          row' = [r \in Runs |-> IF r \in old /\ row[r].available
                                 THEN [row[r] EXCEPT !.expired = TRUE, !.available = FALSE]
                                 ELSE row[r]]
    /\ sweep' = "list"
    /\ UNCHANGED <<call, wire, file, finished, unsaved, late, doomed, restarts>>

\* Mutated Deletable: a run that has not ended has no output to keep either.
AnyUnavailable == {r \in Runs : ~row[r].cleaned /\ (row[r].expired \/ ~row[r].available)}

Deletable == {r \in Runs : Closed(r) /\ ~row[r].cleaned /\ (row[r].expired \/ ~row[r].available)}

ListDeletable ==
    /\ sweep = "list"
    /\ doomed' = Deletable
    /\ sweep' = IF Deletable = {} THEN "idle" ELSE "remove"
    /\ UNCHANGED <<call, wire, file, ledger, late, restarts>>

\* A file that cannot be removed is skipped, and nothing is marked this time.
RemoveOutputs ==
    /\ sweep = "remove"
    /\ \E stuck \in SUBSET {r \in doomed : file[r].state # "none"} :
          /\ file' = [r \in Runs |-> IF r \in doomed \ stuck THEN NoFile ELSE file[r]]
          /\ sweep' = IF stuck = {} THEN "mark" ELSE "idle"
          /\ doomed' = IF stuck = {} THEN doomed ELSE {}
    /\ UNCHANGED <<call, wire, ledger, late, restarts>>

MarkCleaned ==
    /\ sweep = "mark"
    /\ \/ row' = [r \in Runs |-> [row[r] EXCEPT !.cleaned = @ \/ r \in doomed]]
       \/ UNCHANGED row
    /\ sweep' = "idle"
    /\ doomed' = {}
    /\ UNCHANGED <<call, wire, file, finished, unsaved, late, restarts>>

\* The gateway stops at any point; before it serves again the open rows become lost.
Restart ==
    /\ restarts < MaxRestarts
    /\ restarts' = restarts + 1
    /\ row' = [r \in Runs |-> IF row[r].status = "running" THEN [row[r] EXCEPT !.status = "lost"]
                              ELSE row[r]]
    /\ stage' = [r \in Runs |-> IF stage[r] = "idle" THEN "idle" ELSE "returned"]
    /\ cancelled' = {}
    /\ res' = [r \in Runs |-> NoRes]
    /\ remote' = [r \in Runs |-> [remote[r] EXCEPT !.up = stage[r] = "idle"]]
    /\ file' = [r \in Runs |-> [file[r] EXCEPT !.state = IF @ = "none" THEN @ ELSE "closed"]]
    /\ sweep' = "idle"
    /\ doomed' = {}
    /\ UNCHANGED <<copied, finished, late, unsaved>>

-----------------------------------------------------------------------------
\* Steps that wait for nothing but the gateway itself: its timer, its disk, its database.
Local(r) == Select(r) \/ CloseCapture(r) \/ Collect(r) \/ FinishCommandRun(r)

Handler(r) == GetClient(r) \/ StartSession(r) \/ TerminateSession(r) \/ Local(r)

CmdNext ==
    \/ \E r \in Runs : StartCommandRun(r) \/ Handler(r) \/ Cancel(r) \/ Remote(r) \/ Write(r)
    \/ ExpireOutputs \/ ListDeletable \/ RemoveOutputs \/ MarkCleaned
    \/ Restart

\* Nothing bounds the pool, NewSession, Start or a signal to a host that does not answer: they
\* get no fairness.
CmdFairness == \A r \in Runs : WF_cmdVars(Local(r))

CmdSpec == CmdInit /\ [][CmdNext]_cmdVars /\ CmdFairness

-----------------------------------------------------------------------------
\* An output the row calls available is on disk, and unless the command was broken off it holds
\* every byte the row counts; a row marked cleaned has no file left, so that skipping it in later
\* sweeps leaks nothing (Run, FinishCommandRun, cleanup).
AvailableIsWhole ==
    \A r \in Runs :
        /\ row[r].available =>
              /\ file[r].state = "closed"
              /\ row[r].status \notin {"timeout", "cancelled"} => file[r].bytes = row[r].bytes
        /\ row[r].cleaned => file[r].state = "none"

\* A run is called succeeded only when its command ended with 0, and a recorded code is the
\* command's own, whatever of exit, timer, cancellation and lost link came first; and once its
\* call has returned a run is closed, on every error path, unless the database refused the write.
VerdictOfCommand ==
    \A r \in Runs : /\ row[r].status = "succeeded" => remote[r].exit = "ok"
                    /\ row[r].code # "none" => row[r].code = remote[r].exit
                    /\ stage[r] = "returned" /\ row[r].status = "running" => r \in unsaved

\* Output is published after command_finished only of a run that was broken off: a command that
\* ended by itself has been drained first.
NothingAfterFinished == \A r \in late : row[r].status \in {"timeout", "cancelled"}

\* Once its session has started no call is held up by its command, which is broken off if it does
\* not end; and with the session over, or none to be had, the call returns.  Getting a connection
\* and a session, and killing one, can take for ever and are no part of this.
CallsReturn ==
    \A r \in Runs :
        /\ stage[r] = "running" ~> stage[r] \in {"killing", "returned"}
        /\ stage[r] \in {"ended", "counting", "finish"} ~> stage[r] = "returned"

=============================================================================
