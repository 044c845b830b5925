---------------------------- MODULE JobLifecycle ----------------------------
(***************************************************************************)
(* Background jobs of the gateway: the remote process, the row in `jobs`,  *)
(* the command run it belongs to in `command_runs`, and the goroutines     *)
(* that start, probe, kill, expire and prune it.  Every SQLite statement   *)
(* or transaction is one step, every remote script one or two steps, and   *)
(* everything a handler keeps between two of them is a local of its        *)
(* worker: most of the module is about what became stale in between.       *)
(*                                                                         *)
(* A job id and the run id of its job_start are minted together and used   *)
(* once, so one element of Jobs stands for both rows.  A status and its    *)
(* exit_code are one value: "exit0", "exit1" (any non-zero code) and       *)
(* "exitNull" (status exited, exit_code NULL).                             *)
(***************************************************************************)
EXTENDS Naturals, FiniteSets

CONSTANTS
    Jobs,        \* job ids, each started at most once
    Hosts,       \* host ids
    HostOf,      \* the host each job is started on
    Workers,     \* goroutines serving a request or probing one host
    Maint,       \* the maintenance goroutine
    None,        \* "no worker" in the registry of stuck hosts
    MaxCrashes,  \* bound: how often the gateway is restarted
    StoreFaults  \* whether a write to the database may fail

Procs == Workers \cup {Maint}

ASSUME ConstantsOK ==
    /\ Jobs # {}
    /\ HostOf \in [Jobs -> Hosts]
    /\ Maint \notin Workers
    /\ None \notin Workers
    /\ MaxCrashes \in Nat
    /\ StoreFaults \in BOOLEAN

VARIABLES
    job,        \* row of jobs: status and exit code, "none" before, "deleted" after
    run,        \* row of command_runs; its job_id is set iff job[j] # "none"
    remote,     \* the process on the host and its exit file
    host,       \* row of hosts
    aged,       \* jobs past their limit: a running one was last checked longer ago than
                \* UnconfirmedLostAfter, an ended one ended before FinishedRetention
    published,  \* command_finished events published for the run
    stuck,      \* Manager.stuck: host -> the abandoned worker registered for it
    failed,     \* what a maintenance round could not confirm, and why
    pc,         \* where each goroutine is
    kind,       \* which handler a worker runs; "hung" once its caller gave up on it
    batch,      \* the jobs it was given
    todo,       \* those it has not come to yet (for Maint: those it still has to handle)
    cur, seen,  \* the job it is at and the status it is about to write
    crashes

rows   == <<job, run, aged>>
locals == <<kind, batch, todo, cur, seen>>
vars   == <<job, run, remote, host, aged, published, stuck, failed,
            pc, kind, batch, todo, cur, seen, crashes>>

Ended    == {"exit0", "exit1", "exitNull", "killed", "lost"}
Statuses == Ended \cup {"running"}
RunEnded == {"succeeded", "failed", "cancelled", "lost"}
Reasons  == {"error", "archived"}
Labels   == {"idle", "launch", "link", "cleanup", "abort", "connect", "loop",
             "record", "update", "read", "finish", "publish",
             "reach", "inspect", "signal", "round"}

AnyJob == CHOOSE j \in Jobs : TRUE

Init ==
    /\ job = [j \in Jobs |-> "none"]
    /\ run = [j \in Jobs |-> "none"]
    /\ remote = [j \in Jobs |-> "absent"]
    /\ host = [h \in Hosts |-> "active"]
    /\ aged = {}
    /\ published = [j \in Jobs |-> 0]
    /\ stuck = [h \in Hosts |-> None]
    /\ failed = {}
    /\ pc = [p \in Procs |-> "idle"]
    /\ kind = [w \in Workers |-> "status"]
    /\ batch = [w \in Workers |-> {}]
    /\ todo = [p \in Procs |-> {}]
    /\ cur = [p \in Procs |-> AnyJob]
    /\ seen = [p \in Procs |-> "lost"]
    /\ crashes = 0

-----------------------------------------------------------------------------
RowExists(j)  == job[j] \in Statuses
Running(h)    == {j \in Jobs : HostOf[j] = h /\ job[j] = "running"}
BatchOn(w, h) == \E j \in batch[w] : HostOf[j] = h
HostStuck(h)  == stuck[h] # None
Goto(p, l)    == pc' = [pc EXCEPT ![p] = l]

\* A goroutine enters a handler: which one, the jobs it was given, where it starts.
Enter(w, k, js, l) ==
    /\ pc[w] = "idle"
    /\ kind' = [kind EXCEPT ![w] = k]
    /\ batch' = [batch EXCEPT ![w] = js]
    /\ Goto(w, l)

At(p, j, s) ==
    /\ cur' = [cur EXCEPT ![p] = j]
    /\ seen' = [seen EXCEPT ![p] = s]

\* It is through with the current job and back at the head of its loop.
Done(p) == Goto(p, "loop") /\ At(p, AnyJob, "lost")

\* It goes on with the current job.
Continue(p, l) == Goto(p, l) /\ UNCHANGED <<cur, seen>>

\* RefreshError of the jobs js; only a maintenance round collects them.
Unconfirmed(w, js, why) ==
    failed' = IF kind[w] = "maint" THEN failed \cup (js \X {why}) ELSE failed

\* What the probe script reports: an exit file wins, then a live process that
\* carries the job's marker.  An exit file that was created but not yet written
\* (or never will be) is an exit without a code.
Observed(j) ==
    CASE remote[j] \in {"exit0", "exit1", "running"} -> remote[j]
      [] remote[j] \in {"opened", "blank"}           -> "exitNull"
      [] OTHER                                       -> "lost"

\* syncCommandRun's translation of a job status into the status of its run.
RunVerdict(s) ==
    CASE s = "exit0"                 -> "succeeded"
      [] s \in {"exit1", "exitNull"} -> "failed"
      [] s = "killed"                -> "cancelled"
      [] OTHER                       -> "lost"

-----------------------------------------------------------------------------
(* job_start *)

StartRun(w, j) ==
    /\ run[j] = "none"
    /\ host[HostOf[j]] = "active"
    /\ Enter(w, "start", {j}, "launch")
    /\ At(w, j, "running")
    /\ run' = [run EXCEPT ![j] = "running"]
    /\ UNCHANGED <<job, aged, remote, host, published, stuck, failed, todo, crashes>>

\* Pool.Get and the start script.  An error (a timeout, a cancelled request)
\* says nothing about whether the process was started.
Launch(w) ==
    /\ pc[w] = "launch"
    /\ \/ /\ remote' = [remote EXCEPT ![cur[w]] = "running"]
          /\ \E l \in {"link", "abort"} : Goto(w, l)
       \/ /\ UNCHANGED remote
          /\ Goto(w, "abort")
    /\ UNCHANGED <<rows, host, published, stuck, failed, locals, crashes>>

\* CreateJobForCommandRun: both rows in one transaction, or neither.
LinkJob(w) ==
    /\ pc[w] = "link"
    /\ \/ /\ run[cur[w]] = "running"
          /\ job' = [job EXCEPT ![cur[w]] = "running"]
          /\ Done(w)
       \/ /\ UNCHANGED job
          /\ Continue(w, "cleanup")
    /\ UNCHANGED <<run, aged, remote, host, published, stuck, failed, kind, batch, todo, crashes>>

\* cleanupStartedJob: TERM, then KILL, but only if the script gets through.
Cleanup(w) ==
    /\ pc[w] = "cleanup"
    /\ \/ /\ remote[cur[w]] \in {"running", "opened"}
          /\ remote' = [remote EXCEPT ![cur[w]] = IF @ = "running" THEN "gone" ELSE "blank"]
       \/ UNCHANGED remote
    /\ Goto(w, "abort")
    /\ UNCHANGED <<rows, host, published, stuck, failed, locals, crashes>>

\* The handler ends its own run when the start failed.
AbortRun(w) ==
    /\ pc[w] = "abort"
    /\ \/ /\ run[cur[w]] = "running"
          /\ \E s \in {"failed", "cancelled"} : run' = [run EXCEPT ![cur[w]] = s]
          /\ Continue(w, "publish")
       \/ /\ StoreFaults \/ run[cur[w]] # "running"
          /\ UNCHANGED run
          /\ Done(w)
    /\ UNCHANGED <<job, aged, remote, host, published, stuck, failed, kind, batch, todo, crashes>>

-----------------------------------------------------------------------------
(* Refreshing: job_status, one host of a list refresh, one host of a round *)

\* job_status (and each ended row of a list): the row is read once; an ended
\* one is not probed but its run is brought into line.
ReadStatus(w, j) ==
    /\ RowExists(j)
    /\ IF job[j] = "running"
       THEN /\ Enter(w, "status", {j}, "connect")
            /\ todo' = [todo EXCEPT ![w] = {j}]
            /\ UNCHANGED <<cur, seen>>
       ELSE /\ Enter(w, "status", {j}, "read")
            /\ At(w, j, job[j])
            /\ UNCHANGED todo
    /\ UNCHANGED <<rows, remote, host, published, stuck, failed, crashes>>

\* RefreshAll hands the running jobs of a host that is not stuck to a worker.
ListHost(w, h) ==
    /\ ~HostStuck(h)
    /\ \E js \in SUBSET Running(h) \ {{}} :
          /\ Enter(w, "list", js, "connect")
          /\ todo' = [todo EXCEPT ![w] = js]
    /\ UNCHANGED <<rows, remote, host, published, stuck, failed, cur, seen, crashes>>

\* activeHostClient: an archived host is refused, a deleted one not found, and
\* any connection may fail; then no job of the batch is probed.
Connect(w, h) ==
    /\ pc[w] = "connect"
    /\ BatchOn(w, h)
    /\ \/ /\ host[h] = "active"
          /\ UNCHANGED <<todo, failed>>
       \/ /\ Unconfirmed(w, todo[w], IF host[h] = "archived" THEN "archived" ELSE "error")
          /\ todo' = [todo EXCEPT ![w] = {}]
    /\ Continue(w, "loop")
    /\ UNCHANGED <<rows, remote, host, published, stuck, kind, batch, crashes>>

Probe(w, j) ==
    /\ pc[w] = "loop"
    /\ j \in todo[w]
    /\ todo' = [todo EXCEPT ![w] = @ \ {j}]
    /\ \/ /\ At(w, j, Observed(j))
          /\ Goto(w, "record")
          /\ UNCHANGED failed
       \/ /\ Unconfirmed(w, {j}, "error")
          /\ Continue(w, "loop")
    /\ UNCHANGED <<rows, remote, host, published, stuck, kind, batch, crashes>>

\* Mutated Changed: every probe writes the status it saw.
ChangedAlways(w) == TRUE

\* status != j.Status, where j is the running snapshot the probe was given.
Changed(w) == seen[w] # "running"

\* RecordJobCheck moves last_checked_at, which only matters while running; then
\* the status is written if it differs from the running snapshot of the probe.
RecordCheck(w) ==
    /\ pc[w] = "record"
    /\ \/ job[cur[w]] = "running" /\ aged' = aged \ {cur[w]}
       \/ (job[cur[w]] # "running" \/ StoreFaults) /\ UNCHANGED aged
    /\ IF Changed(w) THEN Continue(w, "update") ELSE Done(w)
    /\ UNCHANGED <<job, run, remote, host, published, stuck, failed, kind, batch, todo, crashes>>

\* UpdateJobState: whatever the row holds by now.  A probe ignores a failed
\* write and goes on to the run; a kill returns the error.
UpdateRow(w) ==
    /\ pc[w] = "update"
    /\ \/ /\ job' = IF RowExists(cur[w]) THEN [job EXCEPT ![cur[w]] = seen[w]] ELSE job
          /\ aged' = aged \ {cur[w]}
          /\ Continue(w, "read")
       \/ /\ StoreFaults
          /\ UNCHANGED <<job, aged>>
          /\ IF kind[w] = "kill" THEN Done(w) ELSE Continue(w, "read")
    /\ UNCHANGED <<run, remote, host, published, stuck, failed, kind, batch, todo, crashes>>

\* syncCommandRun: a run that has ended, or a job that has not, is left alone.
ReadRun(p) ==
    /\ pc[p] = "read"
    /\ \/ run[cur[p]] = "running" /\ seen[p] # "running" /\ Continue(p, "finish")
       \/ (StoreFaults \/ run[cur[p]] # "running" \/ seen[p] = "running") /\ Done(p)
    /\ UNCHANGED <<rows, remote, host, published, stuck, failed, kind, batch, todo, crashes>>

\* Mutated StillOpen: the UPDATE has lost its AND status='running'.
AlwaysOpen(j) == TRUE

StillOpen(j) == run[j] = "running"

\* FinishCommandRunByJob: only the call that changed the row goes on to publish.
FinishRun(p) ==
    /\ pc[p] = "finish"
    /\ \/ /\ StillOpen(cur[p])
          /\ run' = [run EXCEPT ![cur[p]] = RunVerdict(seen[p])]
          /\ Continue(p, "publish")
       \/ /\ StoreFaults \/ ~StillOpen(cur[p])
          /\ UNCHANGED run
          /\ Done(p)
    /\ UNCHANGED <<job, aged, remote, host, published, stuck, failed, kind, batch, todo, crashes>>

Publish(p) ==
    /\ pc[p] = "publish"
    /\ published' = [published EXCEPT ![cur[p]] = @ + 1]
    /\ Done(p)
    /\ UNCHANGED <<rows, remote, host, stuck, failed, kind, batch, todo, crashes>>

\* The handler returns; a host worker closes its done channel, which is what
\* the registry looks at.
Return(w) ==
    /\ pc[w] = "loop"
    /\ todo[w] = {}
    /\ Goto(w, "idle")
    /\ stuck' = [h \in Hosts |-> IF stuck[h] = w THEN None ELSE stuck[h]]
    /\ kind' = [kind EXCEPT ![w] = "status"]
    /\ batch' = [batch EXCEPT ![w] = {}]
    /\ UNCHANGED <<rows, remote, host, published, failed, todo, cur, seen, crashes>>

\* The deadline of a list refresh, or of the host's budget in a round: the
\* caller stops waiting and registers the worker, which keeps running.
Abandon(w, h) ==
    /\ pc[w] # "idle"
    /\ kind[w] \in {"list", "maint"}
    /\ BatchOn(w, h)
    /\ stuck' = [stuck EXCEPT ![h] = w]
    /\ Unconfirmed(w, batch[w], "error")
    /\ kind' = [kind EXCEPT ![w] = "hung"]
    /\ UNCHANGED <<rows, remote, host, published, pc, batch, todo, cur, seen, crashes>>

-----------------------------------------------------------------------------
(* Killing *)

BeginKill(w, j) ==
    /\ job[j] = "running"
    /\ Enter(w, "kill", {j}, "reach")
    /\ At(w, j, "running")
    /\ UNCHANGED <<rows, remote, host, published, stuck, failed, todo, crashes>>

\* GetHost and Pool.Get: an archived host is still reached.
Reach(w) ==
    /\ pc[w] = "reach"
    /\ \/ host[HostOf[cur[w]]] # "deleted" /\ Continue(w, "inspect")
       \/ Done(w)
    /\ UNCHANGED <<rows, remote, host, published, stuck, failed, kind, batch, todo, crashes>>

\* What the kill script answers when there is nothing (left) to signal: a
\* readable exit code or a lost process.  An exit file without a code is an error.
Unsignalled(w) ==
    /\ Observed(cur[w]) \in {"exit0", "exit1", "lost"}
    /\ At(w, cur[w], Observed(cur[w]))
    /\ Goto(w, "update")

Inspect(w) ==
    /\ pc[w] = "inspect"
    /\ \/ Unsignalled(w)
       \/ Observed(cur[w]) = "running" /\ Continue(w, "signal")
       \/ Done(w)
    /\ UNCHANGED <<rows, remote, host, published, stuck, failed, kind, batch, todo, crashes>>

\* How a signalled process may be found three seconds later.
AfterSignal(r) ==
    {"opened", "exit0", "exit1", "blank"} \cup IF r = "running" THEN {"running", "gone"} ELSE {}

\* Mutated Alive: the script does not wait for the target to go.
NeverAlive(j) == FALSE

Alive(j) == remote'[j] \in {"running", "opened"}

\* The signal and the wait.  "killed" is reported once nothing of the target is
\* alive, whatever it left behind; a survivor, a refused signal or a dead
\* connection is an error after which no row is written.
Signal(w) ==
    /\ pc[w] = "signal"
    /\ IF remote[cur[w]] \in {"running", "opened"}
       THEN \E r \in AfterSignal(remote[cur[w]]) :
               /\ remote' = [remote EXCEPT ![cur[w]] = r]
               /\ \/ /\ ~Alive(cur[w])
                     /\ At(w, cur[w], "killed")
                     /\ Goto(w, "update")
                  \/ Done(w)
       ELSE /\ UNCHANGED remote
            /\ Unsignalled(w) \/ Done(w)
    /\ UNCHANGED <<rows, host, published, stuck, failed, kind, batch, todo, crashes>>

-----------------------------------------------------------------------------
(* Maintain *)

Listed == {j \in Jobs : job[j] = "running" /\ host[HostOf[j]] = "active"}

BeginRound ==
    /\ pc[Maint] = "idle"
    /\ \/ Goto(Maint, "round") /\ todo' = [todo EXCEPT ![Maint] = Listed]
       \/ StoreFaults /\ Goto(Maint, "loop") /\ UNCHANGED todo
    /\ UNCHANGED <<rows, remote, host, published, stuck, failed, kind, batch, cur, seen, crashes>>

RoundJobs(h) == {j \in todo[Maint] : HostOf[j] = h}

\* probeHost starts a worker within the host's own budget.
ProbeHost(w, h) ==
    /\ pc[Maint] = "round"
    /\ RoundJobs(h) # {}
    /\ ~HostStuck(h)
    /\ Enter(w, "maint", RoundJobs(h), "connect")
    /\ todo' = [todo EXCEPT ![w] = RoundJobs(h), ![Maint] = @ \ RoundJobs(h)]
    /\ UNCHANGED <<rows, remote, host, published, stuck, failed, cur, seen, crashes>>

\* probeHost on a host whose earlier worker never answered.
SkipHost(h) ==
    /\ pc[Maint] = "round"
    /\ RoundJobs(h) # {}
    /\ HostStuck(h)
    /\ failed' = failed \cup (RoundJobs(h) \X {"error"})
    /\ todo' = [todo EXCEPT ![Maint] = @ \ RoundJobs(h)]
    /\ UNCHANGED <<rows, remote, host, published, stuck, pc, kind, batch, cur, seen, crashes>>

\* The WHERE clause of ExpireUncheckedJobs.
Expirable(j) == job[j] = "running" /\ j \in aged

\* All hosts have answered or been given up.
Expire ==
    LET lost == {j \in Jobs : (\E r \in Reasons : <<j, r>> \in failed) /\ Expirable(j)} IN
    /\ pc[Maint] = "round"
    /\ todo[Maint] = {}
    /\ \A w \in Workers : kind[w] # "maint"
    /\ Goto(Maint, "loop")
    /\ failed' = {}
    /\ \/ /\ job' = [j \in Jobs |-> IF j \in lost THEN "lost" ELSE job[j]]
          /\ aged' = aged \ lost
          /\ todo' = [todo EXCEPT ![Maint] = lost]
       \/ StoreFaults /\ UNCHANGED <<job, aged, todo>>
    /\ UNCHANGED <<run, remote, host, published, stuck, kind, batch, cur, seen, crashes>>

\* Mutated ExpiredStatus: the snapshot the round began with is passed on.
SnapshotStatus(j) == "running"

\* The row as UPDATE ... RETURNING gives it.
ExpiredStatus(j) == "lost"

\* The loop over the expired rows: each one's run is synchronised.
SyncExpired(j) ==
    /\ pc[Maint] = "loop"
    /\ j \in todo[Maint]
    /\ todo' = [todo EXCEPT ![Maint] = @ \ {j}]
    /\ At(Maint, j, ExpiredStatus(j))
    /\ Goto(Maint, "read")
    /\ UNCHANGED <<rows, remote, host, published, stuck, failed, kind, batch, crashes>>

Prunable(j) == job[j] \in Ended /\ j \in aged

Prune ==
    /\ pc[Maint] = "loop"
    /\ todo[Maint] = {}
    /\ \/ job' = [j \in Jobs |-> IF Prunable(j) THEN "deleted" ELSE job[j]]
       \/ StoreFaults /\ UNCHANGED job
    /\ Goto(Maint, "idle")
    /\ UNCHANGED <<run, aged, remote, host, published, stuck, failed, locals, crashes>>

-----------------------------------------------------------------------------
(* Hosts *)

ArchiveHost(h) ==
    /\ host[h] = "active"
    /\ host' = [host EXCEPT ![h] = "archived"]
    /\ UNCHANGED <<rows, remote, published, stuck, failed, pc, locals, crashes>>

\* UnarchiveHost restarts the seven days of the host's running jobs.
UnarchiveHost(h) ==
    /\ host[h] = "archived"
    /\ host' = [host EXCEPT ![h] = "active"]
    /\ aged' = aged \ Running(h)
    /\ UNCHANGED <<job, run, remote, published, stuck, failed, pc, locals, crashes>>

\* DeleteHost: refused while a row says running; ended rows go with it.
DeleteHost(h) ==
    /\ host[h] # "deleted"
    /\ Running(h) = {}
    /\ host' = [host EXCEPT ![h] = "deleted"]
    /\ job' = [j \in Jobs |-> IF HostOf[j] = h /\ RowExists(j) THEN "deleted" ELSE job[j]]
    /\ UNCHANGED <<run, aged, remote, published, stuck, failed, pc, locals, crashes>>

-----------------------------------------------------------------------------
(* The world: processes, clocks, restarts *)

\* The wrapper shell opens the exit file and then writes the code into it.
OpenExitFile(j) ==
    /\ remote[j] = "running"
    /\ remote' = [remote EXCEPT ![j] = "opened"]
    /\ UNCHANGED <<rows, host, published, stuck, failed, pc, locals, crashes>>

WriteExitFile(j) ==
    /\ remote[j] = "opened"
    /\ \E r \in {"exit0", "exit1"} : remote' = [remote EXCEPT ![j] = r]
    /\ UNCHANGED <<rows, host, published, stuck, failed, pc, locals, crashes>>

\* A reboot or an outside kill takes the process without an exit code.
Die(j) ==
    /\ remote[j] \in {"running", "opened"}
    /\ remote' = [remote EXCEPT ![j] = IF @ = "running" THEN "gone" ELSE "blank"]
    /\ UNCHANGED <<rows, host, published, stuck, failed, pc, locals, crashes>>

\* Seven days without a recorded check, or thirty since the row ended.  A round
\* compares with the time it began, and no handler is busy with a job for days:
\* only the last check of a running one may be about to be that old.
Age(j) ==
    /\ RowExists(j)
    /\ j \notin aged
    /\ pc[Maint] = "idle"
    /\ \A w \in Workers : j \in batch[w] => job[j] = "running" /\ pc[w] # "update"
    /\ aged' = aged \cup {j}
    /\ UNCHANGED <<job, run, remote, host, published, stuck, failed, pc, locals, crashes>>

\* Mutated Interrupted: runs that have a job are closed as well.
InterruptedAny(j) == run[j] = "running"

\* Mutated Interrupted: the status of the run is not looked at.
InterruptedEnded(j) == run[j] # "none" /\ job[j] = "none"

\* The WHERE clause of RecoverInterruptedCommandRuns.
Interrupted(j) == run[j] = "running" /\ job[j] = "none"

\* The gateway dies and starts again: goroutines and the registry are gone and
\* every interrupted run is closed (if that fails the server starts all the same).
Crash ==
    /\ crashes < MaxCrashes
    /\ crashes' = crashes + 1
    /\ \/ run' = [j \in Jobs |-> IF Interrupted(j) THEN "lost" ELSE run[j]]
       \/ StoreFaults /\ UNCHANGED run
    /\ stuck' = [h \in Hosts |-> None]
    /\ failed' = {}
    /\ pc' = [p \in Procs |-> "idle"]
    /\ kind' = [w \in Workers |-> "status"]
    /\ batch' = [w \in Workers |-> {}]
    /\ todo' = [p \in Procs |-> {}]
    /\ cur' = [p \in Procs |-> AnyJob]
    /\ seen' = [p \in Procs |-> "lost"]
    /\ UNCHANGED <<job, aged, remote, host, published>>

-----------------------------------------------------------------------------
StartStep(w) == (\E j \in Jobs : StartRun(w, j)) \/ Launch(w) \/ LinkJob(w) \/ Cleanup(w) \/ AbortRun(w)

RefreshStep(w) ==
    \/ \E j \in Jobs : ReadStatus(w, j) \/ Probe(w, j)
    \/ \E h \in Hosts : ListHost(w, h) \/ Connect(w, h) \/ Abandon(w, h)
    \/ RecordCheck(w) \/ UpdateRow(w) \/ Return(w)

SyncStep(p) == ReadRun(p) \/ FinishRun(p) \/ Publish(p)

KillStep(w) == (\E j \in Jobs : BeginKill(w, j)) \/ Reach(w) \/ Inspect(w) \/ Signal(w)

MaintStep ==
    \/ BeginRound \/ Expire \/ Prune
    \/ \E h \in Hosts : SkipHost(h) \/ \E w \in Workers : ProbeHost(w, h)
    \/ \E j \in Jobs : SyncExpired(j)

HostStep == \E h \in Hosts : ArchiveHost(h) \/ UnarchiveHost(h) \/ DeleteHost(h)

WorldStep ==
    \/ \E j \in Jobs : OpenExitFile(j) \/ WriteExitFile(j) \/ Die(j) \/ Age(j)
    \/ Crash

Next ==
    \/ \E w \in Workers : StartStep(w) \/ RefreshStep(w) \/ KillStep(w)
    \/ \E p \in Procs : SyncStep(p)
    \/ MaintStep
    \/ HostStep
    \/ WorldStep

Spec == Init /\ [][Next]_vars

\* What a goroutine does between two remote calls is database work: it is
\* scheduled and its statements return (busy_timeout), so it is weakly fair.
\* Nothing remote, and no request, is assumed to happen.
Fairness ==
    /\ \A p \in Procs : WF_vars(ReadRun(p)) /\ WF_vars(FinishRun(p))
    /\ WF_vars(\E j \in Jobs : SyncExpired(j))

FairSpec == Spec /\ Fairness

-----------------------------------------------------------------------------
(* Properties *)

TypeOK ==
    /\ job \in [Jobs -> Statuses \cup {"none", "deleted"}]
    /\ run \in [Jobs -> RunEnded \cup {"none", "running"}]
    /\ remote \in [Jobs -> {"absent", "running", "opened", "exit0", "exit1", "blank", "gone"}]
    /\ host \in [Hosts -> {"active", "archived", "deleted"}]
    /\ aged \subseteq Jobs
    /\ published \in [Jobs -> Nat]
    /\ stuck \in [Hosts -> Workers \cup {None}]
    /\ failed \subseteq Jobs \X Reasons
    /\ pc \in [Procs -> Labels]
    /\ kind \in [Workers -> {"start", "status", "list", "maint", "hung", "kill"}]
    /\ batch \in [Workers -> SUBSET Jobs]
    /\ todo \in [Procs -> SUBSET Jobs]
    /\ cur \in [Procs -> Jobs]
    /\ seen \in [Procs -> Statuses]
    /\ crashes \in Nat

KeepsEnded ==
    \A j \in Jobs :
        /\ job[j] \in Ended => job'[j] \in Ended \cup {"deleted"}
        /\ job[j] = "deleted" => job'[j] = "deleted"

\* A row that has ended never says running again, and a deleted row stays
\* deleted: the probe that comes late (store/jobs.go, ExpireUncheckedJobs: a late
\* confirmation can no longer turn the row back to running) finds no way back.
EndedStaysEnded == [][KeepsEnded]_job

\* However many probes, kills and rounds find a job ended, and however the start
\* handler fails, command_finished is published at most once for a run
\* (FinishCommandRunByJob's changed result).
FinishedOnce == \A j \in Jobs : published[j] <= 1

KeepsVerdicts == \A j \in Jobs : run[j] \in RunEnded => run'[j] = run[j]

\* The status a run has ended with is never replaced: not by a second
\* synchronisation, not by the start handler, not by the recovery after a restart.
VerdictFinal == [][KeepsVerdicts]_run

\* A run is not ended behind its job's back: while the row of the job says
\* running so does the run (every path writes the job first), also across restarts.
RunEndsAfterJob ==
    ~StoreFaults => \A j \in Jobs : job[j] = "running" => run[j] = "running"

\* Somebody still has to synchronise the run of j.
SyncOwed(j) ==
    \/ \E p \in Procs : cur[p] = j /\ pc[p] \in {"read", "finish"}
    \/ j \in todo[Maint] /\ pc[Maint] # "round"

\* Without restarts and failed writes no run is left behind: when the job has
\* ended, or its row is gone, and the run still says running, a goroutine is on
\* its way to end it.
NoRunLeftBehind ==
    ~StoreFaults /\ crashes = 0 =>
        \A j \in Jobs : job[j] \in Ended \cup {"deleted"} /\ run[j] = "running" => SyncOwed(j)

\* What the rows say of the process is true: an exit code is the one in the exit
\* file, a killed job is dead, a succeeded run ended with code 0.
VerdictTruthful ==
    \A j \in Jobs :
        /\ job[j] \in {"exit0", "exit1"} => remote[j] = job[j]
        /\ job[j] = "killed" => remote[j] \notin {"running", "opened"}
        /\ run[j] = "succeeded" => remote[j] = "exit0"

\* The rows are the two ledgers of RunLedger; which ended status a job row shows,
\* and that a late writer may correct it, is below its level.
Phase == [j \in Jobs |-> IF job[j] \in Ended THEN "ended" ELSE job[j]]

Ledger == INSTANCE RunLedger WITH job <- Phase, Faulty <- StoreFaults

\* Everything the goroutines do to a run and its job, in any interleaving and
\* across restarts, is a step of the two ledgers: opened, linked, settled once
\* after the job (or closed as interrupted), announced once and only when settled.
KeepsLedger == Ledger!Spec

\* Once a job has ended its run ends too, though nobody refreshes it again, unless the gateway
\* stops in between: no later round lists the row of an ended job.
RunConverges ==
    \A j \in Jobs :
        job[j] \in Ended \cup {"deleted"} /\ run[j] = "running"
            ~> run[j] # "running" \/ crashes > 0

\* README: a run ends as succeeded or failed by the real exit code.
RealExitCode ==
    \A j \in Jobs : run[j] = "failed" /\ RowExists(j) => remote[j] # "exit0"

-----------------------------------------------------------------------------
(* The inductive invariant behind the safety properties *)

Starting == {"launch", "link", "cleanup", "abort"}
Holding  == {"record", "update", "read", "finish", "reach", "inspect", "signal"}
Deciding == {"update", "read", "finish"}

\* A job_start that has not linked its job is alone with its run, which is open.
OneStarter ==
    /\ \A w \in Workers : pc[w] \in Starting => run[cur[w]] = "running" /\ job[cur[w]] = "none"
    /\ \A v, w \in Workers :
          pc[v] \in Starting /\ pc[w] \in Starting /\ cur[v] = cur[w] => v = w

RunBeforeJob == \A j \in Jobs : run[j] = "none" => job[j] = "none"

\* Whoever refreshes, kills or expires a job found a row of it.
HeldJobs ==
    \A p \in Procs :
        /\ pc[p] \in Holding => job[cur[p]] # "none"
        /\ \A j \in todo[p] : job[j] # "none"

\* Only an ended status is ever on its way into a row or a run.
DecidedEnds == \A p \in Procs : pc[p] \in Deciding => seen[p] # "running"

\* The row is written before the run is looked at; what a round has expired has ended.
JobEndsFirst ==
    /\ pc[Maint] = "idle" => todo[Maint] = {}
    /\ pc[Maint] # "round" => \A j \in todo[Maint] : job[j] # "running"
    /\ ~StoreFaults => \A p \in Procs : pc[p] \in {"read", "finish"} => job[cur[p]] # "running"

\* Whoever is about to publish is the one that ended the run.
OnePublisher ==
    /\ \A j \in Jobs : run[j] \in {"none", "running"} => published[j] = 0
    /\ \A p \in Procs : pc[p] = "publish" => run[cur[p]] \in RunEnded /\ published[cur[p]] = 0
    /\ \A p, q \in Procs : pc[p] = "publish" /\ pc[q] = "publish" /\ cur[p] = cur[q] => p = q

\* What a goroutine carries from a host is still true when it is written down.
TrueAnswers ==
    \A p \in Procs : pc[p] \in {"record", "update", "read", "finish"} =>
        /\ seen[p] \in {"exit0", "exit1"} => remote[cur[p]] = seen[p]
        /\ seen[p] = "killed" => remote[cur[p]] \notin {"running", "opened"}

IInv ==
    /\ TypeOK
    /\ RunBeforeJob
    /\ OneStarter
    /\ HeldJobs
    /\ DecidedEnds
    /\ JobEndsFirst
    /\ OnePublisher
    /\ TrueAnswers
    /\ FinishedOnce
    /\ RunEndsAfterJob
    /\ NoRunLeftBehind
    /\ VerdictTruthful
=============================================================================
