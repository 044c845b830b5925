------------------------- MODULE JobLifecycle_proofs -------------------------
(***************************************************************************)
(* Proofs about JobLifecycle for every number of jobs, hosts and workers,  *)
(* every bound on restarts and with or without failing writes.  IInv is    *)
(* shown inductive conjunct by conjunct; each lemma has one step per       *)
(* action, an action that cannot touch the conjunct being proved together  *)
(* with its neighbours.  Safety properties, action properties and the      *)
(* refinement of RunLedger follow from it.                                 *)
(***************************************************************************)
EXTENDS JobLifecycle, TLAPS

\* The placeholder for "no job" is a job: Jobs is not empty.
LEMMA AnyJobType == AnyJob \in Jobs
BY ConstantsOK DEF AnyJob

\* syncCommandRun only ever stores one of the ended statuses of a run.
LEMMA VerdictType ==
    ASSUME NEW s
    PROVE  RunVerdict(s) \in RunEnded
BY Zenon DEF RunVerdict, RunEnded

\* The probe script answers running, exited or lost, nothing else.
LEMMA ObservedType ==
    ASSUME NEW j \in Jobs
    PROVE  Observed(j) \in {"exit0", "exit1", "exitNull", "running", "lost"}
BY Zenon DEF Observed

\* An exit code the probe reports is the one in the exit file.
LEMMA ObservedTrue ==
    ASSUME NEW j \in Jobs
    PROVE  /\ Observed(j) \in {"exit0", "exit1"} => remote[j] = Observed(j)
           /\ Observed(j) # "killed"
BY Zenon DEF Observed

\* Only exit code 0 makes a run succeed.
LEMMA SucceededOnZero ==
    ASSUME NEW s
    PROVE  RunVerdict(s) = "succeeded" => s = "exit0"
BY Zenon DEF RunVerdict

\* A kill that had nothing to signal carries an exit code that is in the
\* exit file, or lost.
LEMMA UnsignalledTrue ==
    ASSUME TypeOK, NEW w \in Workers, Unsignalled(w)
    PROVE  /\ pc' = [pc EXCEPT ![w] = "update"]
           /\ cur' = [cur EXCEPT ![w] = cur[w]]
           /\ \E s \in {"exit0", "exit1", "lost"} :
                  /\ seen' = [seen EXCEPT ![w] = s]
                  /\ s # "lost" => remote[cur[w]] = s
<1>1. cur[w] \in Jobs
  BY DEF TypeOK, Procs
<1> QED BY <1>1, ObservedTrue DEF Unsignalled, At, Goto

\* A handler that ends its loop body, or goes on in it, moves itself only.
LEMMA DoneEffect ==
    ASSUME TypeOK, NEW p \in Procs, Done(p)
    PROVE  /\ pc'[p] = "loop"
           /\ \A q \in Procs \ {p} : pc'[q] = pc[q] /\ cur'[q] = cur[q]
BY DEF TypeOK, Done, Goto, At

LEMMA ContinueEffect ==
    ASSUME TypeOK, NEW p \in Procs, NEW l, Continue(p, l)
    PROVE  /\ pc'[p] = l /\ cur'[p] = cur[p]
           /\ \A q \in Procs \ {p} : pc'[q] = pc[q] /\ cur'[q] = cur[q]
BY DEF TypeOK, Continue, Goto

\* Reading the status of one job moves one worker, to a probe or to its ended run.
LEMMA ReadStatusEffect ==
    ASSUME TypeOK, NEW w \in Workers, NEW j \in Jobs, ReadStatus(w, j)
    PROVE  /\ pc[w] = "idle" /\ RowExists(j)
           /\ \A q \in Procs \ {w} : pc'[q] = pc[q] /\ cur'[q] = cur[q] /\ todo'[q] = todo[q]
           /\ \/ pc'[w] = "connect" /\ todo'[w] = {j}
              \/ pc'[w] = "read" /\ cur'[w] = j /\ job[j] # "running"
           /\ UNCHANGED <<job, run, aged, remote, host, published, stuck, failed, crashes>>
BY DEF TypeOK, Procs, ReadStatus, Enter, At, Goto, rows

\* A job that somebody is about to end stays so while others move.
LEMMA OwedKept ==
    ASSUME NEW p \in Procs, p # Maint, todo'[Maint] = todo[Maint], Maint \in Procs,
           \A q \in Procs \ {p} : pc'[q] = pc[q] /\ cur'[q] = cur[q],
           NEW j \in Jobs, SyncOwed(j),
           pc[p] \notin {"read", "finish"}
    PROVE  SyncOwed(j)'
BY DEF SyncOwed

\* What a round does to the rows: some running ones become lost, and those
\* are what the loop over the expired rows has to handle.
LEMMA ExpireEffect ==
    ASSUME TypeOK, Expire
    PROVE  /\ \A j \in Jobs : \/ job'[j] = job[j]
                               \/ (job[j] = "running" /\ job'[j] = "lost" /\ j \in todo'[Maint])
           /\ \A j \in todo'[Maint] : job'[j] = "lost"
           /\ \A w \in Workers : todo'[w] = todo[w] /\ pc'[w] = pc[w]
           /\ pc[Maint] = "round" /\ pc'[Maint] = "loop" /\ todo[Maint] = {}
           /\ UNCHANGED <<run, remote, published, cur, seen, crashes>>
<1> DEFINE lost == {j \in Jobs : (\E r \in Reasons : <<j, r>> \in failed) /\ Expirable(j)}
<1> USE ConstantsOK
<1>1. \A j \in lost : j \in Jobs /\ job[j] = "running"
  BY DEF Expirable
<1>2. /\ pc[Maint] = "round" /\ todo[Maint] = {}
      /\ pc' = [pc EXCEPT ![Maint] = "loop"]
      /\ UNCHANGED <<run, remote, published, cur, seen, crashes>>
      /\ \/ /\ job' = [j \in Jobs |-> IF j \in lost THEN "lost" ELSE job[j]]
            /\ todo' = [todo EXCEPT ![Maint] = lost]
         \/ UNCHANGED <<job, todo>>
  BY DEF Expire, Goto
<1> HIDE DEF lost
<1>3. CASE UNCHANGED <<job, todo>>
  BY <1>2, <1>3 DEF TypeOK, Procs
<1>4. CASE /\ job' = [j \in Jobs |-> IF j \in lost THEN "lost" ELSE job[j]]
           /\ todo' = [todo EXCEPT ![Maint] = lost]
  <2>1. todo'[Maint] = lost /\ \A w \in Workers : todo'[w] = todo[w]
    BY <1>4 DEF TypeOK, Procs
  <2>2. \A j \in Jobs : job'[j] = job[j] \/ (job[j] = "running" /\ job'[j] = "lost" /\ j \in lost)
    BY <1>1, <1>4
  <2>3. \A j \in lost : job'[j] = "lost"
    BY <1>1, <1>4
  <2> QED BY <1>2, <2>1, <2>2, <2>3 DEF TypeOK, Procs
<1> QED BY <1>2, <1>3, <1>4

\* Every step keeps every variable in its type.
LEMMA TypeStep ==
    ASSUME TypeOK, [Next]_vars
    PROVE  TypeOK'
<1> USE ConstantsOK, AnyJobType DEF TypeOK, Procs
<1>1. ASSUME NEW w \in Workers, StartStep(w) PROVE TypeOK'
  <2>1. ASSUME NEW j \in Jobs, StartRun(w, j) PROVE TypeOK'
    BY <2>1 DEF StartRun, Enter, At, Goto, Labels, Statuses, locals
  <2>2. CASE Launch(w)
    BY <2>2 DEF Launch, Goto, Labels, locals, rows
  <2>3. CASE LinkJob(w)
    <3>1. job' \in [Jobs -> Statuses \cup {"none", "deleted"}]
      BY <2>3 DEF LinkJob, Statuses
    <3>2. pc' \in [Procs -> Labels] /\ cur' \in [Procs -> Jobs] /\ seen' \in [Procs -> Statuses]
      BY <2>3 DEF LinkJob, Done, Continue, At, Goto, Labels, Statuses, Ended
    <3> QED BY <2>3, <3>1, <3>2 DEF LinkJob
  <2>4. CASE Cleanup(w)
    <3>1. remote' \in [Jobs -> {"absent", "running", "opened", "exit0", "exit1", "blank", "gone"}]
      BY <2>4 DEF Cleanup
    <3>2. pc' \in [Procs -> Labels]
      BY <2>4 DEF Cleanup, Goto, Labels
    <3> QED BY <2>4, <3>1, <3>2 DEF Cleanup, locals, rows
  <2>5. CASE AbortRun(w)
    BY <2>5 DEF AbortRun, Done, Continue, At, Goto, Labels, Statuses, Ended, RunEnded
  <2> QED BY <1>1, <2>1, <2>2, <2>3, <2>4, <2>5 DEF StartStep
<1>2. ASSUME NEW w \in Workers, RefreshStep(w) PROVE TypeOK'
  <2>1. ASSUME NEW j \in Jobs, ReadStatus(w, j) PROVE TypeOK'
    <3>1. kind' = [kind EXCEPT ![w] = "status"] /\ batch' = [batch EXCEPT ![w] = {j}]
      BY <2>1 DEF ReadStatus, Enter
    <3>2. pc' \in [Procs -> Labels] /\ cur' \in [Procs -> Jobs] /\ todo' \in [Procs -> SUBSET Jobs]
      BY <2>1 DEF ReadStatus, Enter, At, Goto, Labels
    <3>3. seen' \in [Procs -> Statuses]
      BY <2>1 DEF ReadStatus, RowExists, At, Statuses, Ended
    <3>4. UNCHANGED <<rows, remote, host, published, stuck, failed, crashes>>
      BY <2>1 DEF ReadStatus
    <3> QED BY <3>1, <3>2, <3>3, <3>4 DEF rows
  <2>2. ASSUME NEW j \in Jobs, Probe(w, j) PROVE TypeOK'
    BY <2>2 DEF Probe, Observed, Unconfirmed, Continue, At, Goto, Labels, Statuses, Ended,
                Reasons, rows
  <2>3. ASSUME NEW h \in Hosts, ListHost(w, h) PROVE TypeOK'
    BY <2>3 DEF ListHost, Running, Enter, Goto, Labels, rows
  <2>4. ASSUME NEW h \in Hosts, Connect(w, h) PROVE TypeOK'
    BY <2>4 DEF Connect, Unconfirmed, Continue, Goto, Labels, Reasons, rows
  <2>5. ASSUME NEW h \in Hosts, Abandon(w, h) PROVE TypeOK'
    BY <2>5 DEF Abandon, Unconfirmed, Reasons, rows
  <2>6. CASE RecordCheck(w)
    BY <2>6 DEF RecordCheck, Done, Continue, At, Goto, Labels, Statuses, Ended
  <2>7. CASE UpdateRow(w)
    BY <2>7 DEF UpdateRow, Done, Continue, At, Goto, Labels, Statuses, Ended
  <2>8. CASE Return(w)
    BY <2>8 DEF Return, Goto, Labels, rows
  <2> QED BY <1>2, <2>1, <2>2, <2>3, <2>4, <2>5, <2>6, <2>7, <2>8 DEF RefreshStep
<1>3. ASSUME NEW p \in Procs, SyncStep(p) PROVE TypeOK'
  <2>1. CASE ReadRun(p)
    BY <2>1 DEF ReadRun, Done, Continue, At, Goto, Labels, Statuses, Ended, rows
  <2>2. CASE FinishRun(p)
    BY <2>2 DEF FinishRun, RunVerdict, RunEnded, Done, Continue, At, Goto, Labels, Statuses,
                Ended
  <2>3. CASE Publish(p)
    BY <2>3 DEF Publish, Done, At, Goto, Labels, Statuses, Ended, rows
  <2> QED BY <1>3, <2>1, <2>2, <2>3 DEF SyncStep
<1>4. ASSUME NEW w \in Workers, KillStep(w) PROVE TypeOK'
  <2>1. ASSUME NEW j \in Jobs, BeginKill(w, j) PROVE TypeOK'
    BY <2>1 DEF BeginKill, Enter, At, Goto, Labels, Statuses, rows
  <2>2. CASE Reach(w)
    BY <2>2 DEF Reach, Done, Continue, At, Goto, Labels, Statuses, Ended, rows
  <2>3. CASE Inspect(w)
    BY <2>3 DEF Inspect, Unsignalled, Done, Continue, At, Goto, Labels, Statuses, Ended, rows
  <2>4. CASE Signal(w)
    BY <2>4 DEF Signal, AfterSignal, Unsignalled, Done, At, Goto, Labels, Statuses, Ended, rows
  <2> QED BY <1>4, <2>1, <2>2, <2>3, <2>4 DEF KillStep
<1>5. CASE MaintStep
  <2>1. CASE BeginRound
    BY <2>1 DEF BeginRound, Listed, Goto, Labels, rows
  <2>2. CASE Expire
    BY <2>2 DEF Expire, Goto, Labels, Statuses, Ended
  <2>3. CASE Prune
    BY <2>3 DEF Prune, Goto, Labels, locals
  <2>4. ASSUME NEW h \in Hosts, SkipHost(h) PROVE TypeOK'
    BY <2>4 DEF SkipHost, RoundJobs, Reasons, rows
  <2>5. ASSUME NEW h \in Hosts, NEW w \in Workers, ProbeHost(w, h) PROVE TypeOK'
    BY <2>5 DEF ProbeHost, RoundJobs, Enter, Goto, Labels, rows
  <2>6. ASSUME NEW j \in Jobs, SyncExpired(j) PROVE TypeOK'
    BY <2>6 DEF SyncExpired, ExpiredStatus, At, Goto, Labels, Statuses, Ended, rows
  <2> QED BY <1>5, <2>1, <2>2, <2>3, <2>4, <2>5, <2>6 DEF MaintStep
<1>6. CASE HostStep
  BY <1>6 DEF HostStep, ArchiveHost, UnarchiveHost, DeleteHost, RowExists, Running, locals, rows
<1>7. CASE WorldStep
  <2>1. CASE Crash
    BY <2>1 DEF Crash, RunEnded, Labels, Statuses, Ended
  <2>2. ASSUME NEW j \in Jobs, OpenExitFile(j) \/ WriteExitFile(j) \/ Die(j) \/ Age(j) PROVE TypeOK'
    BY <2>2 DEF OpenExitFile, WriteExitFile, Die, Age, locals, rows
  <2> QED BY <1>7, <2>1, <2>2 DEF WorldStep
<1>8. CASE UNCHANGED vars
  BY <1>8 DEF vars
<1> QED BY <1>1, <1>2, <1>3, <1>4, <1>5, <1>6, <1>7, <1>8 DEF Next

\* A job row appears only for a run that was opened.
LEMMA RunBeforeJobStep ==
    ASSUME TypeOK, RunBeforeJob, [Next]_vars
    PROVE  RunBeforeJob'
<1> USE ConstantsOK, AnyJobType DEF RunBeforeJob, TypeOK, Procs, Statuses, Ended
<1>1. ASSUME NEW w \in Workers, StartStep(w) PROVE RunBeforeJob'
  <2>1. ASSUME NEW j \in Jobs, StartRun(w, j) PROVE RunBeforeJob'
    BY <2>1 DEF StartRun, Enter, At, Goto
  <2>2. CASE Launch(w)
    BY <2>2 DEF Launch, Goto, locals, rows
  <2>3. CASE LinkJob(w)
    BY <2>3 DEF LinkJob, Done, Continue, At, Goto
  <2>4. CASE Cleanup(w)
    BY <2>4 DEF Cleanup, Goto, locals, rows
  <2>5. CASE AbortRun(w)
    BY <2>5 DEF AbortRun, Done, Continue, At, Goto
  <2> QED BY <1>1, <2>1, <2>2, <2>3, <2>4, <2>5 DEF StartStep
<1>2. ASSUME NEW w \in Workers, RefreshStep(w) PROVE RunBeforeJob'
  <2>1. ASSUME NEW j \in Jobs, ReadStatus(w, j) PROVE RunBeforeJob'
    BY <2>1 DEF ReadStatus, RowExists, Enter, At, Goto, rows
  <2>2. ASSUME NEW j \in Jobs, Probe(w, j) PROVE RunBeforeJob'
    BY <2>2 DEF Probe, Continue, At, Goto, rows
  <2>3. ASSUME NEW h \in Hosts, ListHost(w, h) PROVE RunBeforeJob'
    BY <2>3 DEF ListHost, Running, Enter, Goto, rows
  <2>4. ASSUME NEW h \in Hosts, Connect(w, h) PROVE RunBeforeJob'
    BY <2>4 DEF Connect, Continue, Goto, rows
  <2>5. ASSUME NEW h \in Hosts, Abandon(w, h) PROVE RunBeforeJob'
    BY <2>5 DEF Abandon, rows
  <2>6. CASE RecordCheck(w)
    BY <2>6 DEF RecordCheck, Changed, Done, Continue, At, Goto
  <2>7. CASE UpdateRow(w)
    BY <2>7 DEF UpdateRow, RowExists, Done, Continue, At, Goto
  <2>8. CASE Return(w)
    BY <2>8 DEF Return, Goto, rows
  <2> QED BY <1>2, <2>1, <2>2, <2>3, <2>4, <2>5, <2>6, <2>7, <2>8 DEF RefreshStep
<1>3. ASSUME NEW p \in Procs, SyncStep(p) PROVE RunBeforeJob'
  <2>1. CASE ReadRun(p)
    BY <2>1 DEF ReadRun, Done, Continue, At, Goto, rows
  <2>2. CASE FinishRun(p)
    BY <2>2, VerdictType DEF FinishRun, StillOpen, RunEnded
  <2>3. CASE Publish(p)
    BY <2>3 DEF Publish, Done, At, Goto, rows
  <2> QED BY <1>3, <2>1, <2>2, <2>3 DEF SyncStep
<1>4. ASSUME NEW w \in Workers, KillStep(w) PROVE RunBeforeJob'
  BY <1>4 DEF KillStep, BeginKill, Enter, At, Goto, rows, Reach, Done, Continue, Inspect,
              Unsignalled, Signal
<1>5. CASE MaintStep
  BY <1>5 DEF MaintStep, BeginRound, Listed, Goto, rows, Expire, Expirable, Prune, Prunable,
              locals, SkipHost, RoundJobs, ProbeHost, Enter, SyncExpired, ExpiredStatus, At
<1>6. CASE HostStep
  BY <1>6 DEF HostStep, ArchiveHost, UnarchiveHost, locals, rows, DeleteHost, RowExists, Running
<1>7. CASE WorldStep
  BY <1>7 DEF WorldStep, OpenExitFile, WriteExitFile, Die, locals, rows, Age, Crash, Interrupted
<1>8. CASE UNCHANGED vars
  BY <1>8 DEF vars
<1> QED BY <1>1, <1>2, <1>3, <1>4, <1>5, <1>6, <1>7, <1>8 DEF Next

\* Until job_start has linked its job, nobody else touches its run or row.
LEMMA OneStarterStep ==
    ASSUME TypeOK, RunBeforeJob, OneStarter, HeldJobs, [Next]_vars
    PROVE  OneStarter'
<1> USE ConstantsOK, AnyJobType DEF RunBeforeJob, OneStarter, HeldJobs, Holding, Starting,
                                    TypeOK, Procs, Statuses, Ended
<1>1. ASSUME NEW w \in Workers, StartStep(w) PROVE OneStarter'
  <2>1. ASSUME NEW j \in Jobs, StartRun(w, j) PROVE OneStarter'
    BY <2>1 DEF StartRun, Enter, At, Goto
  <2>2. CASE Launch(w)
    BY <2>2 DEF Launch, Goto, locals, rows
  <2>3. CASE LinkJob(w)
    BY <2>3 DEF LinkJob, Done, Continue, At, Goto
  <2>4. CASE Cleanup(w)
    BY <2>4 DEF Cleanup, Goto, locals, rows
  <2>5. CASE AbortRun(w)
    BY <2>5 DEF AbortRun, Done, Continue, At, Goto
  <2> QED BY <1>1, <2>1, <2>2, <2>3, <2>4, <2>5 DEF StartStep
<1>2. ASSUME NEW w \in Workers, RefreshStep(w) PROVE OneStarter'
  <2>1. ASSUME NEW j \in Jobs, ReadStatus(w, j) PROVE OneStarter'
    <3>1. UNCHANGED <<job, run>>
      BY <2>1 DEF ReadStatus, rows
    <3>2. \A v \in Workers : pc'[v] \in Starting => v # w /\ pc'[v] = pc[v] /\ cur'[v] = cur[v]
      BY <2>1 DEF ReadStatus, RowExists, Enter, At, Goto
    <3> QED BY <3>1, <3>2
  <2>2. ASSUME NEW j \in Jobs, Probe(w, j) PROVE OneStarter'
    BY <2>2 DEF Probe, Continue, At, Goto, rows
  <2>3. ASSUME NEW h \in Hosts, ListHost(w, h) PROVE OneStarter'
    BY <2>3 DEF ListHost, Running, Enter, Goto, rows
  <2>4. ASSUME NEW h \in Hosts, Connect(w, h) PROVE OneStarter'
    BY <2>4 DEF Connect, Continue, Goto, rows
  <2>5. ASSUME NEW h \in Hosts, Abandon(w, h) PROVE OneStarter'
    BY <2>5 DEF Abandon, rows
  <2>6. CASE RecordCheck(w)
    <3>1. UNCHANGED <<job, run>>
      BY <2>6 DEF RecordCheck, rows
    <3>2. \A v \in Workers : pc'[v] \in Starting => v # w /\ pc'[v] = pc[v] /\ cur'[v] = cur[v]
      BY <2>6 DEF RecordCheck, Changed, Done, Continue, At, Goto
    <3> QED BY <3>1, <3>2
  <2>7. CASE UpdateRow(w)
    BY <2>7 DEF UpdateRow, RowExists, Done, Continue, At, Goto
  <2>8. CASE Return(w)
    BY <2>8 DEF Return, Goto, rows
  <2> QED BY <1>2, <2>1, <2>2, <2>3, <2>4, <2>5, <2>6, <2>7, <2>8 DEF RefreshStep
<1>3. ASSUME NEW p \in Procs, SyncStep(p) PROVE OneStarter'
  <2>1. CASE ReadRun(p)
    BY <2>1 DEF ReadRun, Done, Continue, At, Goto, rows
  <2>2. CASE FinishRun(p)
    BY <2>2 DEF FinishRun, StillOpen, Done, Continue, At, Goto
  <2>3. CASE Publish(p)
    BY <2>3 DEF Publish, Done, At, Goto, rows
  <2> QED BY <1>3, <2>1, <2>2, <2>3 DEF SyncStep
<1>4. ASSUME NEW w \in Workers, KillStep(w) PROVE OneStarter'
  BY <1>4 DEF KillStep, BeginKill, Enter, At, Goto, rows, Reach, Done, Continue, Inspect,
              Unsignalled, Signal
<1>5. CASE MaintStep
  <2>1. CASE BeginRound
    BY <2>1 DEF BeginRound, Listed, Goto, rows
  <2>2. CASE Expire
    BY <2>2 DEF Expire, Expirable, Goto
  <2>3. CASE Prune
    BY <2>3 DEF Prune, Prunable, Goto, locals
  <2>4. ASSUME NEW h \in Hosts, SkipHost(h) PROVE OneStarter'
    BY <2>4 DEF SkipHost, RoundJobs, rows
  <2>5. ASSUME NEW h \in Hosts, NEW w \in Workers, ProbeHost(w, h) PROVE OneStarter'
    BY <2>5 DEF ProbeHost, RoundJobs, Enter, Goto, rows
  <2>6. ASSUME NEW j \in Jobs, SyncExpired(j) PROVE OneStarter'
    BY <2>6 DEF SyncExpired, ExpiredStatus, At, Goto, rows
  <2> QED BY <1>5, <2>1, <2>2, <2>3, <2>4, <2>5, <2>6 DEF MaintStep
<1>6. CASE HostStep
  BY <1>6 DEF HostStep, ArchiveHost, UnarchiveHost, locals, rows, DeleteHost, RowExists, Running
<1>7. CASE WorldStep
  <2>1. ASSUME NEW j \in Jobs, OpenExitFile(j) \/ WriteExitFile(j) \/ Die(j) PROVE OneStarter'
    BY <2>1 DEF OpenExitFile, WriteExitFile, Die, locals, rows
  <2>2. ASSUME NEW j \in Jobs, Age(j) PROVE OneStarter'
    BY <2>2 DEF Age, locals, rows
  <2>3. CASE Crash
    BY <2>3 DEF Crash, Interrupted
  <2> QED BY <1>7, <2>1, <2>2, <2>3 DEF WorldStep
<1>8. CASE UNCHANGED vars
  BY <1>8 DEF vars
<1> QED BY <1>1, <1>2, <1>3, <1>4, <1>5, <1>6, <1>7, <1>8 DEF Next

\* Handlers other than job_start only work on jobs that got a row.
LEMMA HeldJobsStep ==
    ASSUME TypeOK, HeldJobs, [Next]_vars
    PROVE  HeldJobs'
<1> USE ConstantsOK, AnyJobType DEF HeldJobs, Holding, TypeOK, Procs, Statuses, Ended
<1>1. ASSUME NEW w \in Workers, StartStep(w) PROVE HeldJobs'
  <2>1. ASSUME NEW j \in Jobs, StartRun(w, j) PROVE HeldJobs'
    BY <2>1 DEF StartRun, Enter, At, Goto
  <2>2. CASE Launch(w)
    BY <2>2 DEF Launch, Goto, locals, rows
  <2>3. CASE LinkJob(w)
    BY <2>3 DEF LinkJob, Done, Continue, At, Goto
  <2>4. CASE Cleanup(w)
    BY <2>4 DEF Cleanup, Goto, locals, rows
  <2>5. CASE AbortRun(w)
    BY <2>5 DEF AbortRun, Done, Continue, At, Goto
  <2> QED BY <1>1, <2>1, <2>2, <2>3, <2>4, <2>5 DEF StartStep
<1>2. ASSUME NEW w \in Workers, RefreshStep(w) PROVE HeldJobs'
  <2>1. ASSUME NEW j \in Jobs, ReadStatus(w, j) PROVE HeldJobs'
    BY <2>1 DEF ReadStatus, RowExists, Enter, At, Goto, rows
  <2>2. ASSUME NEW j \in Jobs, Probe(w, j) PROVE HeldJobs'
    BY <2>2 DEF Probe, Continue, At, Goto, rows
  <2>3. ASSUME NEW h \in Hosts, ListHost(w, h) PROVE HeldJobs'
    BY <2>3 DEF ListHost, Running, Enter, Goto, rows
  <2>4. ASSUME NEW h \in Hosts, Connect(w, h) PROVE HeldJobs'
    BY <2>4 DEF Connect, Continue, Goto, rows
  <2>5. ASSUME NEW h \in Hosts, Abandon(w, h) PROVE HeldJobs'
    BY <2>5 DEF Abandon, rows
  <2>6. CASE RecordCheck(w)
    BY <2>6 DEF RecordCheck, Changed, Done, Continue, At, Goto
  <2>7. CASE UpdateRow(w)
    BY <2>7 DEF UpdateRow, RowExists, Done, Continue, At, Goto
  <2>8. CASE Return(w)
    BY <2>8 DEF Return, Goto, rows
  <2> QED BY <1>2, <2>1, <2>2, <2>3, <2>4, <2>5, <2>6, <2>7, <2>8 DEF RefreshStep
<1>3. ASSUME NEW p \in Procs, SyncStep(p) PROVE HeldJobs'
  <2>1. CASE ReadRun(p)
    BY <2>1 DEF ReadRun, Done, Continue, At, Goto, rows
  <2>2. CASE FinishRun(p)
    BY <2>2 DEF FinishRun, StillOpen, Done, Continue, At, Goto
  <2>3. CASE Publish(p)
    BY <2>3 DEF Publish, Done, At, Goto, rows
  <2> QED BY <1>3, <2>1, <2>2, <2>3 DEF SyncStep
<1>4. ASSUME NEW w \in Workers, KillStep(w) PROVE HeldJobs'
  BY <1>4 DEF KillStep, BeginKill, Enter, At, Goto, rows, Reach, Done, Continue, Inspect,
              Unsignalled, Signal
<1>5. CASE MaintStep
  <2>1. CASE BeginRound
    BY <2>1 DEF BeginRound, Listed, Goto, rows
  <2>2. CASE Expire
    BY <2>2, ExpireEffect
  <2>3. CASE Prune
    BY <2>3 DEF Prune, Prunable, Goto, locals
  <2>4. ASSUME NEW h \in Hosts, SkipHost(h) PROVE HeldJobs'
    BY <2>4 DEF SkipHost, RoundJobs, rows
  <2>5. ASSUME NEW h \in Hosts, NEW w \in Workers, ProbeHost(w, h) PROVE HeldJobs'
    BY <2>5 DEF ProbeHost, RoundJobs, Enter, Goto, rows
  <2>6. ASSUME NEW j \in Jobs, SyncExpired(j) PROVE HeldJobs'
    BY <2>6 DEF SyncExpired, ExpiredStatus, At, Goto, rows
  <2> QED BY <1>5, <2>1, <2>2, <2>3, <2>4, <2>5, <2>6 DEF MaintStep
<1>6. CASE HostStep
  BY <1>6 DEF HostStep, ArchiveHost, UnarchiveHost, locals, rows, DeleteHost, RowExists, Running
<1>7. CASE WorldStep
  <2>1. ASSUME NEW j \in Jobs, OpenExitFile(j) \/ WriteExitFile(j) \/ Die(j) PROVE HeldJobs'
    BY <2>1 DEF OpenExitFile, WriteExitFile, Die, locals, rows
  <2>2. ASSUME NEW j \in Jobs, Age(j) PROVE HeldJobs'
    BY <2>2 DEF Age, locals, rows
  <2>3. CASE Crash
    BY <2>3 DEF Crash, Interrupted
  <2> QED BY <1>7, <2>1, <2>2, <2>3 DEF WorldStep
<1>8. CASE UNCHANGED vars
  BY <1>8 DEF vars
<1> QED BY <1>1, <1>2, <1>3, <1>4, <1>5, <1>6, <1>7, <1>8 DEF Next

\* What is written into a row or a run is an ended status.
LEMMA DecidedEndsStep ==
    ASSUME TypeOK, DecidedEnds, [Next]_vars
    PROVE  DecidedEnds'
<1> USE ConstantsOK, AnyJobType DEF DecidedEnds, Deciding, TypeOK, Procs, Statuses, Ended
<1>1. ASSUME NEW w \in Workers, StartStep(w) PROVE DecidedEnds'
  BY <1>1 DEF StartStep, StartRun, Enter, At, Goto, Launch, locals, rows, LinkJob, Done,
              Continue, Cleanup, AbortRun
<1>2. ASSUME NEW w \in Workers, RefreshStep(w) PROVE DecidedEnds'
  <2>1. ASSUME NEW j \in Jobs, ReadStatus(w, j) PROVE DecidedEnds'
    BY <2>1 DEF ReadStatus, RowExists, Enter, At, Goto, rows
  <2>2. ASSUME NEW j \in Jobs, Probe(w, j) PROVE DecidedEnds'
    BY <2>2 DEF Probe, Continue, At, Goto, rows
  <2>3. ASSUME NEW h \in Hosts, ListHost(w, h) PROVE DecidedEnds'
    BY <2>3 DEF ListHost, Running, Enter, Goto, rows
  <2>4. ASSUME NEW h \in Hosts, Connect(w, h) PROVE DecidedEnds'
    BY <2>4 DEF Connect, Continue, Goto, rows
  <2>5. ASSUME NEW h \in Hosts, Abandon(w, h) PROVE DecidedEnds'
    BY <2>5 DEF Abandon, rows
  <2>6. CASE RecordCheck(w)
    BY <2>6 DEF RecordCheck, Changed, Done, Continue, At, Goto
  <2>7. CASE UpdateRow(w)
    BY <2>7 DEF UpdateRow, RowExists, Done, Continue, At, Goto
  <2>8. CASE Return(w)
    BY <2>8 DEF Return, Goto, rows
  <2> QED BY <1>2, <2>1, <2>2, <2>3, <2>4, <2>5, <2>6, <2>7, <2>8 DEF RefreshStep
<1>3. ASSUME NEW p \in Procs, SyncStep(p) PROVE DecidedEnds'
  <2>1. CASE ReadRun(p)
    BY <2>1 DEF ReadRun, Done, Continue, At, Goto, rows
  <2>2. CASE FinishRun(p)
    BY <2>2 DEF FinishRun, StillOpen, Done, Continue, At, Goto
  <2>3. CASE Publish(p)
    BY <2>3 DEF Publish, Done, At, Goto, rows
  <2> QED BY <1>3, <2>1, <2>2, <2>3 DEF SyncStep
<1>4. ASSUME NEW w \in Workers, KillStep(w) PROVE DecidedEnds'
  <2>1. ASSUME NEW j \in Jobs, BeginKill(w, j) PROVE DecidedEnds'
    BY <2>1 DEF BeginKill, Enter, At, Goto, rows
  <2>2. CASE Reach(w)
    BY <2>2 DEF Reach, Done, Continue, At, Goto, rows
  <2>3. CASE Inspect(w)
    BY <2>3 DEF Inspect, Unsignalled, Done, Continue, At, Goto, rows
  <2>4. CASE Signal(w)
    BY <2>4 DEF Signal, Unsignalled, Done, At, Goto, rows
  <2> QED BY <1>4, <2>1, <2>2, <2>3, <2>4 DEF KillStep
<1>5. CASE MaintStep
  BY <1>5 DEF MaintStep, BeginRound, Listed, Goto, rows, Expire, Expirable, Prune, Prunable,
              locals, SkipHost, RoundJobs, ProbeHost, Enter, SyncExpired, ExpiredStatus, At
<1>6. CASE HostStep
  BY <1>6 DEF HostStep, ArchiveHost, UnarchiveHost, locals, rows, DeleteHost, RowExists, Running
<1>7. CASE WorldStep
  <2>1. ASSUME NEW j \in Jobs, OpenExitFile(j) \/ WriteExitFile(j) \/ Die(j) PROVE DecidedEnds'
    BY <2>1 DEF OpenExitFile, WriteExitFile, Die, locals, rows
  <2>2. ASSUME NEW j \in Jobs, Age(j) PROVE DecidedEnds'
    BY <2>2 DEF Age, locals, rows
  <2>3. CASE Crash
    BY <2>3 DEF Crash, Interrupted
  <2> QED BY <1>7, <2>1, <2>2, <2>3 DEF WorldStep
<1>8. CASE UNCHANGED vars
  BY <1>8 DEF vars
<1> QED BY <1>1, <1>2, <1>3, <1>4, <1>5, <1>6, <1>7, <1>8 DEF Next

\* The row is ended before its run is looked at, in every handler.
LEMMA JobEndsFirstStep ==
    ASSUME TypeOK, OneStarter, HeldJobs, DecidedEnds, JobEndsFirst, [Next]_vars
    PROVE  JobEndsFirst'
<1> USE ConstantsOK, AnyJobType DEF OneStarter, HeldJobs, DecidedEnds, JobEndsFirst,
                                    Starting, Holding, Deciding, TypeOK, Procs, Statuses,
                                    Ended
<1>1. ASSUME NEW w \in Workers, StartStep(w) PROVE JobEndsFirst'
  <2>1. ASSUME NEW j \in Jobs, StartRun(w, j) PROVE JobEndsFirst'
    BY <2>1 DEF StartRun, Enter, At, Goto
  <2>2. CASE Launch(w)
    BY <2>2 DEF Launch, Goto, locals, rows
  <2>3. CASE LinkJob(w)
    <3>1. UNCHANGED todo /\ pc'[Maint] = pc[Maint] /\ w # Maint
      BY <2>3 DEF LinkJob, Done, Continue, At, Goto
    <3>2. \A j \in Jobs : job'[j] = job[j] \/ job[j] = "none"
      BY <2>3 DEF LinkJob
    <3>3. \A p \in Procs : pc'[p] \in {"read", "finish"} => pc'[p] = pc[p] /\ cur'[p] = cur[p]
      BY <2>3 DEF LinkJob, Done, Continue, At, Goto
    <3> QED BY <3>1, <3>2, <3>3
  <2>4. CASE Cleanup(w)
    BY <2>4 DEF Cleanup, Goto, locals, rows
  <2>5. CASE AbortRun(w)
    BY <2>5 DEF AbortRun, Done, Continue, At, Goto
  <2> QED BY <1>1, <2>1, <2>2, <2>3, <2>4, <2>5 DEF StartStep
<1>2. ASSUME NEW w \in Workers, RefreshStep(w) PROVE JobEndsFirst'
  <2>1. ASSUME NEW j \in Jobs, ReadStatus(w, j) PROVE JobEndsFirst'
    BY <2>1 DEF ReadStatus, RowExists, Enter, At, Goto, rows
  <2>2. ASSUME NEW j \in Jobs, Probe(w, j) PROVE JobEndsFirst'
    BY <2>2 DEF Probe, Continue, At, Goto, rows
  <2>3. ASSUME NEW h \in Hosts, ListHost(w, h) PROVE JobEndsFirst'
    BY <2>3 DEF ListHost, Running, Enter, Goto, rows
  <2>4. ASSUME NEW h \in Hosts, Connect(w, h) PROVE JobEndsFirst'
    BY <2>4 DEF Connect, Continue, Goto, rows
  <2>5. ASSUME NEW h \in Hosts, Abandon(w, h) PROVE JobEndsFirst'
    BY <2>5 DEF Abandon, rows
  <2>6. CASE RecordCheck(w)
    <3>1. UNCHANGED <<job, todo>> /\ w # Maint
      BY <2>6 DEF RecordCheck
    <3>2. pc'[w] \in {"update", "loop"} /\ \A q \in Procs \ {w} : pc'[q] = pc[q] /\ cur'[q] = cur[q]
      BY <2>6, DoneEffect, ContinueEffect DEF RecordCheck
    <3> QED BY <3>1, <3>2
  <2>7. CASE UpdateRow(w)
    BY <2>7 DEF UpdateRow, RowExists, Done, Continue, At, Goto
  <2>8. CASE Return(w)
    BY <2>8 DEF Return, Goto, rows
  <2> QED BY <1>2, <2>1, <2>2, <2>3, <2>4, <2>5, <2>6, <2>7, <2>8 DEF RefreshStep
<1>3. ASSUME NEW p \in Procs, SyncStep(p) PROVE JobEndsFirst'
  <2>1. CASE ReadRun(p)
    BY <2>1 DEF ReadRun, Done, Continue, At, Goto, rows
  <2>2. CASE FinishRun(p)
    BY <2>2 DEF FinishRun, StillOpen, Done, Continue, At, Goto
  <2>3. CASE Publish(p)
    BY <2>3 DEF Publish, Done, At, Goto, rows
  <2> QED BY <1>3, <2>1, <2>2, <2>3 DEF SyncStep
<1>4. ASSUME NEW w \in Workers, KillStep(w) PROVE JobEndsFirst'
  <2>1. ASSUME NEW j \in Jobs, BeginKill(w, j) PROVE JobEndsFirst'
    BY <2>1 DEF BeginKill, Enter, At, Goto, rows
  <2>2. CASE Reach(w)
    BY <2>2 DEF Reach, Done, Continue, At, Goto, rows
  <2>3. CASE Inspect(w)
    BY <2>3 DEF Inspect, Unsignalled, Done, Continue, At, Goto, rows
  <2>4. CASE Signal(w)
    BY <2>4 DEF Signal, Unsignalled, Done, At, Goto, rows
  <2> QED BY <1>4, <2>1, <2>2, <2>3, <2>4 DEF KillStep
<1>5. CASE MaintStep
  <2>1. CASE BeginRound
    BY <2>1 DEF BeginRound, Listed, Goto, rows
  <2>2. CASE Expire
    BY <2>2, ExpireEffect
  <2>3. CASE Prune
    BY <2>3 DEF Prune, Prunable, Goto, locals
  <2>4. ASSUME NEW h \in Hosts, SkipHost(h) PROVE JobEndsFirst'
    BY <2>4 DEF SkipHost, RoundJobs, rows
  <2>5. ASSUME NEW h \in Hosts, NEW w \in Workers, ProbeHost(w, h) PROVE JobEndsFirst'
    BY <2>5 DEF ProbeHost, RoundJobs, Enter, Goto, rows
  <2>6. ASSUME NEW j \in Jobs, SyncExpired(j) PROVE JobEndsFirst'
    BY <2>6 DEF SyncExpired, ExpiredStatus, At, Goto, rows
  <2> QED BY <1>5, <2>1, <2>2, <2>3, <2>4, <2>5, <2>6 DEF MaintStep
<1>6. CASE HostStep
  BY <1>6 DEF HostStep, ArchiveHost, UnarchiveHost, locals, rows, DeleteHost, RowExists, Running
<1>7. CASE WorldStep
  <2>1. ASSUME NEW j \in Jobs, OpenExitFile(j) \/ WriteExitFile(j) \/ Die(j) PROVE JobEndsFirst'
    BY <2>1 DEF OpenExitFile, WriteExitFile, Die, locals, rows
  <2>2. ASSUME NEW j \in Jobs, Age(j) PROVE JobEndsFirst'
    BY <2>2 DEF Age, locals, rows
  <2>3. CASE Crash
    BY <2>3 DEF Crash, Interrupted
  <2> QED BY <1>7, <2>1, <2>2, <2>3 DEF WorldStep
<1>8. CASE UNCHANGED vars
  BY <1>8 DEF vars
<1> QED BY <1>1, <1>2, <1>3, <1>4, <1>5, <1>6, <1>7, <1>8 DEF Next

\* The conditional UPDATE leaves one goroutine that publishes.
LEMMA OnePublisherStep ==
    ASSUME TypeOK, OnePublisher, [Next]_vars
    PROVE  OnePublisher'
<1> USE ConstantsOK, AnyJobType DEF OnePublisher, RunEnded, TypeOK, Procs, Statuses, Ended
<1>1. ASSUME NEW w \in Workers, StartStep(w) PROVE OnePublisher'
  <2>1. ASSUME NEW j \in Jobs, StartRun(w, j) PROVE OnePublisher'
    BY <2>1 DEF StartRun, Enter, At, Goto
  <2>2. CASE Launch(w)
    BY <2>2 DEF Launch, Goto, locals, rows
  <2>3. CASE LinkJob(w)
    BY <2>3 DEF LinkJob, Done, Continue, At, Goto
  <2>4. CASE Cleanup(w)
    BY <2>4 DEF Cleanup, Goto, locals, rows
  <2>5. CASE AbortRun(w)
    BY <2>5 DEF AbortRun, Done, Continue, At, Goto
  <2> QED BY <1>1, <2>1, <2>2, <2>3, <2>4, <2>5 DEF StartStep
<1>2. ASSUME NEW w \in Workers, RefreshStep(w) PROVE OnePublisher'
  <2>1. ASSUME NEW j \in Jobs, ReadStatus(w, j) PROVE OnePublisher'
    BY <2>1, ReadStatusEffect
  <2>2. ASSUME NEW j \in Jobs, Probe(w, j) PROVE OnePublisher'
    BY <2>2 DEF Probe, Continue, At, Goto, rows
  <2>3. ASSUME NEW h \in Hosts, ListHost(w, h) PROVE OnePublisher'
    BY <2>3 DEF ListHost, Running, Enter, Goto, rows
  <2>4. ASSUME NEW h \in Hosts, Connect(w, h) PROVE OnePublisher'
    BY <2>4 DEF Connect, Continue, Goto, rows
  <2>5. ASSUME NEW h \in Hosts, Abandon(w, h) PROVE OnePublisher'
    BY <2>5 DEF Abandon, rows
  <2>6. CASE RecordCheck(w)
    BY <2>6 DEF RecordCheck, Changed, Done, Continue, At, Goto
  <2>7. CASE UpdateRow(w)
    BY <2>7 DEF UpdateRow, RowExists, Done, Continue, At, Goto
  <2>8. CASE Return(w)
    BY <2>8 DEF Return, Goto, rows
  <2> QED BY <1>2, <2>1, <2>2, <2>3, <2>4, <2>5, <2>6, <2>7, <2>8 DEF RefreshStep
<1>3. ASSUME NEW p \in Procs, SyncStep(p) PROVE OnePublisher'
  <2>1. CASE ReadRun(p)
    BY <2>1 DEF ReadRun, Done, Continue, At, Goto, rows
  <2>2. CASE FinishRun(p)
    BY <2>2, VerdictType DEF FinishRun, StillOpen, Done, Continue, At, Goto
  <2>3. CASE Publish(p)
    BY <2>3 DEF Publish, Done, At, Goto, rows
  <2> QED BY <1>3, <2>1, <2>2, <2>3 DEF SyncStep
<1>4. ASSUME NEW w \in Workers, KillStep(w) PROVE OnePublisher'
  BY <1>4 DEF KillStep, BeginKill, Enter, At, Goto, rows, Reach, Done, Continue, Inspect,
              Unsignalled, Signal
<1>5. CASE MaintStep
  <2>1. CASE BeginRound
    BY <2>1 DEF BeginRound, Listed, Goto, rows
  <2>2. CASE Expire
    BY <2>2 DEF Expire, Expirable, Goto
  <2>3. CASE Prune
    BY <2>3 DEF Prune, Prunable, Goto, locals
  <2>4. ASSUME NEW h \in Hosts, SkipHost(h) PROVE OnePublisher'
    BY <2>4 DEF SkipHost, RoundJobs, rows
  <2>5. ASSUME NEW h \in Hosts, NEW w \in Workers, ProbeHost(w, h) PROVE OnePublisher'
    BY <2>5 DEF ProbeHost, RoundJobs, Enter, Goto, rows
  <2>6. ASSUME NEW j \in Jobs, SyncExpired(j) PROVE OnePublisher'
    BY <2>6 DEF SyncExpired, ExpiredStatus, At, Goto, rows
  <2> QED BY <1>5, <2>1, <2>2, <2>3, <2>4, <2>5, <2>6 DEF MaintStep
<1>6. CASE HostStep
  BY <1>6 DEF HostStep, ArchiveHost, UnarchiveHost, locals, rows, DeleteHost, RowExists, Running
<1>7. CASE WorldStep
  <2>1. ASSUME NEW j \in Jobs, OpenExitFile(j) \/ WriteExitFile(j) \/ Die(j) PROVE OnePublisher'
    BY <2>1 DEF OpenExitFile, WriteExitFile, Die, locals, rows
  <2>2. ASSUME NEW j \in Jobs, Age(j) PROVE OnePublisher'
    BY <2>2 DEF Age, locals, rows
  <2>3. CASE Crash
    BY <2>3 DEF Crash, Interrupted
  <2> QED BY <1>7, <2>1, <2>2, <2>3 DEF WorldStep
<1>8. CASE UNCHANGED vars
  BY <1>8 DEF vars
<1> QED BY <1>1, <1>2, <1>3, <1>4, <1>5, <1>6, <1>7, <1>8 DEF Next

\* Hence command_finished is not published a second time.
LEMMA FinishedOnceStep ==
    ASSUME TypeOK, OnePublisher, FinishedOnce, [Next]_vars
    PROVE  FinishedOnce'
<1> USE ConstantsOK, AnyJobType DEF OnePublisher, FinishedOnce, TypeOK, Procs
<1>1. ASSUME NEW w \in Workers, StartStep(w) PROVE FinishedOnce'
  BY <1>1 DEF StartStep, StartRun, Enter, At, Goto, Launch, locals, rows, LinkJob, Done,
              Continue, Cleanup, AbortRun
<1>2. ASSUME NEW w \in Workers, RefreshStep(w) PROVE FinishedOnce'
  BY <1>2 DEF RefreshStep, ReadStatus, RowExists, Enter, At, Goto, rows, Probe, Continue,
              ListHost, Running, Connect, Abandon, RecordCheck, Changed, Done, UpdateRow,
              Return
<1>3. ASSUME NEW p \in Procs, SyncStep(p) PROVE FinishedOnce'
  <2>1. CASE ReadRun(p)
    BY <2>1 DEF ReadRun, Done, Continue, At, Goto, rows
  <2>2. CASE FinishRun(p)
    BY <2>2 DEF FinishRun, StillOpen, Done, Continue, At, Goto
  <2>3. CASE Publish(p)
    BY <2>3 DEF Publish, Done, At, Goto, rows
  <2> QED BY <1>3, <2>1, <2>2, <2>3 DEF SyncStep
<1>4. ASSUME NEW w \in Workers, KillStep(w) PROVE FinishedOnce'
  BY <1>4 DEF KillStep, BeginKill, Enter, At, Goto, rows, Reach, Done, Continue, Inspect,
              Unsignalled, Signal
<1>5. CASE MaintStep
  BY <1>5 DEF MaintStep, BeginRound, Listed, Goto, rows, Expire, Expirable, Prune, Prunable,
              locals, SkipHost, RoundJobs, ProbeHost, Enter, SyncExpired, ExpiredStatus, At
<1>6. CASE HostStep
  BY <1>6 DEF HostStep, ArchiveHost, UnarchiveHost, locals, rows, DeleteHost, RowExists, Running
<1>7. CASE WorldStep
  BY <1>7 DEF WorldStep, OpenExitFile, WriteExitFile, Die, locals, rows, Age, Crash, Interrupted
<1>8. CASE UNCHANGED vars
  BY <1>8 DEF vars
<1> QED BY <1>1, <1>2, <1>3, <1>4, <1>5, <1>6, <1>7, <1>8 DEF Next

\* While the row of a job says running, so does its run.
LEMMA RunEndsAfterJobStep ==
    ASSUME TypeOK, OneStarter, HeldJobs, DecidedEnds, JobEndsFirst, RunEndsAfterJob, [Next]_vars
    PROVE  RunEndsAfterJob'
<1> USE ConstantsOK, AnyJobType DEF OneStarter, HeldJobs, DecidedEnds, JobEndsFirst,
                                    RunEndsAfterJob, Starting, Holding, Deciding, TypeOK,
                                    Procs, Statuses, Ended
<1>1. ASSUME NEW w \in Workers, StartStep(w) PROVE RunEndsAfterJob'
  <2>1. ASSUME NEW j \in Jobs, StartRun(w, j) PROVE RunEndsAfterJob'
    BY <2>1 DEF StartRun, Enter, At, Goto
  <2>2. CASE Launch(w)
    BY <2>2 DEF Launch, Goto, locals, rows
  <2>3. CASE LinkJob(w)
    BY <2>3 DEF LinkJob, Done, Continue, At, Goto
  <2>4. CASE Cleanup(w)
    BY <2>4 DEF Cleanup, Goto, locals, rows
  <2>5. CASE AbortRun(w)
    BY <2>5 DEF AbortRun, Done, Continue, At, Goto
  <2> QED BY <1>1, <2>1, <2>2, <2>3, <2>4, <2>5 DEF StartStep
<1>2. ASSUME NEW w \in Workers, RefreshStep(w) PROVE RunEndsAfterJob'
  <2>1. ASSUME NEW j \in Jobs, ReadStatus(w, j) PROVE RunEndsAfterJob'
    BY <2>1 DEF ReadStatus, RowExists, Enter, At, Goto, rows
  <2>2. ASSUME NEW j \in Jobs, Probe(w, j) PROVE RunEndsAfterJob'
    BY <2>2 DEF Probe, Continue, At, Goto, rows
  <2>3. ASSUME NEW h \in Hosts, ListHost(w, h) PROVE RunEndsAfterJob'
    BY <2>3 DEF ListHost, Running, Enter, Goto, rows
  <2>4. ASSUME NEW h \in Hosts, Connect(w, h) PROVE RunEndsAfterJob'
    BY <2>4 DEF Connect, Continue, Goto, rows
  <2>5. ASSUME NEW h \in Hosts, Abandon(w, h) PROVE RunEndsAfterJob'
    BY <2>5 DEF Abandon, rows
  <2>6. CASE RecordCheck(w)
    BY <2>6 DEF RecordCheck, Changed, Done, Continue, At, Goto
  <2>7. CASE UpdateRow(w)
    BY <2>7 DEF UpdateRow, RowExists, Done, Continue, At, Goto
  <2>8. CASE Return(w)
    BY <2>8 DEF Return, Goto, rows
  <2> QED BY <1>2, <2>1, <2>2, <2>3, <2>4, <2>5, <2>6, <2>7, <2>8 DEF RefreshStep
<1>3. ASSUME NEW p \in Procs, SyncStep(p) PROVE RunEndsAfterJob'
  <2>1. CASE ReadRun(p)
    BY <2>1 DEF ReadRun, Done, Continue, At, Goto, rows
  <2>2. CASE FinishRun(p)
    BY <2>2 DEF FinishRun, StillOpen, Done, Continue, At, Goto
  <2>3. CASE Publish(p)
    BY <2>3 DEF Publish, Done, At, Goto, rows
  <2> QED BY <1>3, <2>1, <2>2, <2>3 DEF SyncStep
<1>4. ASSUME NEW w \in Workers, KillStep(w) PROVE RunEndsAfterJob'
  BY <1>4 DEF KillStep, BeginKill, Enter, At, Goto, rows, Reach, Done, Continue, Inspect,
              Unsignalled, Signal
<1>5. CASE MaintStep
  <2>1. CASE BeginRound
    BY <2>1 DEF BeginRound, Listed, Goto, rows
  <2>2. CASE Expire
    BY <2>2 DEF Expire, Expirable, Goto
  <2>3. CASE Prune
    BY <2>3 DEF Prune, Prunable, Goto, locals
  <2>4. ASSUME NEW h \in Hosts, SkipHost(h) PROVE RunEndsAfterJob'
    BY <2>4 DEF SkipHost, RoundJobs, rows
  <2>5. ASSUME NEW h \in Hosts, NEW w \in Workers, ProbeHost(w, h) PROVE RunEndsAfterJob'
    BY <2>5 DEF ProbeHost, RoundJobs, Enter, Goto, rows
  <2>6. ASSUME NEW j \in Jobs, SyncExpired(j) PROVE RunEndsAfterJob'
    BY <2>6 DEF SyncExpired, ExpiredStatus, At, Goto, rows
  <2> QED BY <1>5, <2>1, <2>2, <2>3, <2>4, <2>5, <2>6 DEF MaintStep
<1>6. CASE HostStep
  BY <1>6 DEF HostStep, ArchiveHost, UnarchiveHost, locals, rows, DeleteHost, RowExists, Running
<1>7. CASE WorldStep
  <2>1. ASSUME NEW j \in Jobs, OpenExitFile(j) \/ WriteExitFile(j) \/ Die(j) PROVE RunEndsAfterJob'
    BY <2>1 DEF OpenExitFile, WriteExitFile, Die, locals, rows
  <2>2. ASSUME NEW j \in Jobs, Age(j) PROVE RunEndsAfterJob'
    BY <2>2 DEF Age, locals, rows
  <2>3. CASE Crash
    BY <2>3 DEF Crash, Interrupted
  <2> QED BY <1>7, <2>1, <2>2, <2>3 DEF WorldStep
<1>8. CASE UNCHANGED vars
  BY <1>8 DEF vars
<1> QED BY <1>1, <1>2, <1>3, <1>4, <1>5, <1>6, <1>7, <1>8 DEF Next

\* As long as nothing fails, an open run of an ended job has somebody on the
\* way to end it.
LEMMA NoRunLeftBehindStep ==
    ASSUME TypeOK, RunBeforeJob, OneStarter, HeldJobs, DecidedEnds, JobEndsFirst, NoRunLeftBehind,
           [Next]_vars
    PROVE  NoRunLeftBehind'
<1> USE ConstantsOK, AnyJobType DEF RunBeforeJob, OneStarter, HeldJobs, DecidedEnds,
                                    JobEndsFirst, NoRunLeftBehind, Starting, Holding,
                                    Deciding, TypeOK, Procs, Statuses, Ended
<1>1. ASSUME NEW w \in Workers, StartStep(w) PROVE NoRunLeftBehind'
  <2>1. ASSUME NEW j \in Jobs, StartRun(w, j) PROVE NoRunLeftBehind'
    <3>1. \A i \in Jobs : SyncOwed(i) => SyncOwed(i)'
      BY <2>1 DEF StartRun, Enter, At, Goto, SyncOwed
    <3> QED BY <2>1, <3>1 DEF StartRun
  <2>2. CASE Launch(w)
    BY <2>2 DEF Launch, Goto, locals, rows, SyncOwed
  <2>3. CASE LinkJob(w)
    BY <2>3 DEF LinkJob, Done, Continue, At, Goto, SyncOwed
  <2>4. CASE Cleanup(w)
    BY <2>4 DEF Cleanup, Goto, locals, rows, SyncOwed
  <2>5. CASE AbortRun(w)
    <3>1. /\ pc[w] = "abort" /\ w # Maint /\ UNCHANGED <<job, todo, crashes>>
          /\ \A j \in Jobs : run'[j] = "running" => run[j] = "running"
      BY <2>5 DEF AbortRun, RunEnded
    <3>2. \A q \in Procs \ {w} : pc'[q] = pc[q] /\ cur'[q] = cur[q]
      BY <2>5, DoneEffect, ContinueEffect DEF AbortRun
    <3>3. \A j \in Jobs : SyncOwed(j) => SyncOwed(j)'
      BY <3>1, <3>2, OwedKept
    <3> QED BY <3>1, <3>3
  <2> QED BY <1>1, <2>1, <2>2, <2>3, <2>4, <2>5 DEF StartStep
<1>2. ASSUME NEW w \in Workers, RefreshStep(w) PROVE NoRunLeftBehind'
  <2>1. ASSUME NEW j \in Jobs, ReadStatus(w, j) PROVE NoRunLeftBehind'
    <3>1. pc[w] = "idle" /\ w # Maint /\ UNCHANGED <<job, run, crashes>> /\ todo'[Maint] = todo[Maint]
      BY <2>1, ReadStatusEffect
    <3>2. \A i \in Jobs : SyncOwed(i) => SyncOwed(i)'
      BY <2>1, <3>1, ReadStatusEffect, OwedKept
    <3> QED BY <3>1, <3>2
  <2>2. ASSUME NEW j \in Jobs, Probe(w, j) PROVE NoRunLeftBehind'
    BY <2>2 DEF Probe, Continue, At, Goto, rows, SyncOwed
  <2>3. ASSUME NEW h \in Hosts, ListHost(w, h) PROVE NoRunLeftBehind'
    BY <2>3 DEF ListHost, Running, Enter, Goto, rows, SyncOwed
  <2>4. ASSUME NEW h \in Hosts, Connect(w, h) PROVE NoRunLeftBehind'
    BY <2>4 DEF Connect, Continue, Goto, rows, SyncOwed
  <2>5. ASSUME NEW h \in Hosts, Abandon(w, h) PROVE NoRunLeftBehind'
    BY <2>5 DEF Abandon, rows, SyncOwed
  <2>6. CASE RecordCheck(w)
    <3>1. pc[w] = "record" /\ w # Maint /\ UNCHANGED <<job, run, todo, crashes>>
      BY <2>6 DEF RecordCheck
    <3>2. \A q \in Procs \ {w} : pc'[q] = pc[q] /\ cur'[q] = cur[q]
      BY <2>6, DoneEffect, ContinueEffect DEF RecordCheck
    <3>3. \A j \in Jobs : SyncOwed(j) => SyncOwed(j)'
      BY <3>1, <3>2, OwedKept
    <3> QED BY <3>1, <3>3
  <2>7. CASE UpdateRow(w)
    <3>1. pc[w] = "update" /\ w # Maint /\ UNCHANGED todo
      BY <2>7 DEF UpdateRow
    <3>2. \A q \in Procs \ {w} : pc'[q] = pc[q] /\ cur'[q] = cur[q]
      BY <2>7, DoneEffect, ContinueEffect DEF UpdateRow
    <3>3. \A j \in Jobs : SyncOwed(j) => SyncOwed(j)'
      BY <3>1, <3>2, OwedKept
    <3>4. ~StoreFaults => \A j \in Jobs : j = cur[w] => SyncOwed(j)'
      BY <2>7 DEF UpdateRow, Continue, Goto, SyncOwed
    <3>5. \A j \in Jobs : j = cur[w] \/ job'[j] = job[j]
      BY <2>7 DEF UpdateRow
    <3> QED BY <2>7, <3>3, <3>4, <3>5 DEF UpdateRow
  <2>8. CASE Return(w)
    BY <2>8 DEF Return, Goto, rows, SyncOwed
  <2> QED BY <1>2, <2>1, <2>2, <2>3, <2>4, <2>5, <2>6, <2>7, <2>8 DEF RefreshStep
<1>3. ASSUME NEW p \in Procs, SyncStep(p) PROVE NoRunLeftBehind'
  <2>1. CASE ReadRun(p)
    BY <2>1 DEF ReadRun, Done, Continue, At, Goto, rows, SyncOwed
  <2>2. CASE FinishRun(p)
    <3>1. \A j \in Jobs : SyncOwed(j) /\ j # cur[p] => SyncOwed(j)'
      BY <2>2 DEF FinishRun, StillOpen, Done, Continue, At, Goto, SyncOwed
    <3>2. ~StoreFaults => run'[cur[p]] # "running"
      BY <2>2, VerdictType DEF FinishRun, StillOpen, RunEnded
    <3>3. \A j \in Jobs : j # cur[p] => run'[j] = run[j]
      BY <2>2 DEF FinishRun
    <3> QED BY <2>2, <3>1, <3>2, <3>3 DEF FinishRun
  <2>3. CASE Publish(p)
    BY <2>3 DEF Publish, Done, At, Goto, rows, SyncOwed
  <2> QED BY <1>3, <2>1, <2>2, <2>3 DEF SyncStep
<1>4. ASSUME NEW w \in Workers, KillStep(w) PROVE NoRunLeftBehind'
  <2>1. ASSUME NEW j \in Jobs, BeginKill(w, j) PROVE NoRunLeftBehind'
    BY <2>1 DEF BeginKill, Enter, At, Goto, rows, SyncOwed
  <2>2. CASE Reach(w)
    <3>1. pc[w] = "reach" /\ w # Maint /\ UNCHANGED <<job, run, todo, crashes>>
      BY <2>2 DEF Reach, rows
    <3>2. \A q \in Procs \ {w} : pc'[q] = pc[q] /\ cur'[q] = cur[q]
      BY <2>2 DEF Reach, Done, Continue, At, Goto
    <3>3. \A j \in Jobs : SyncOwed(j) => SyncOwed(j)'
      BY <3>1, <3>2, OwedKept
    <3> QED BY <3>1, <3>3
  <2>3. CASE Inspect(w)
    BY <2>3 DEF Inspect, Unsignalled, Done, Continue, At, Goto, rows, SyncOwed
  <2>4. CASE Signal(w)
    <3>1. pc[w] = "signal" /\ w # Maint /\ UNCHANGED <<job, run, todo, crashes>>
      BY <2>4 DEF Signal, rows
    <3>2. \A q \in Procs \ {w} : pc'[q] = pc[q] /\ cur'[q] = cur[q]
      BY <2>4 DEF Signal, Unsignalled, Done, At, Goto
    <3>3. \A j \in Jobs : SyncOwed(j) => SyncOwed(j)'
      BY <3>1, <3>2, OwedKept
    <3> QED BY <3>1, <3>3
  <2> QED BY <1>4, <2>1, <2>2, <2>3, <2>4 DEF KillStep
<1>5. CASE MaintStep
  <2>1. CASE BeginRound
    BY <2>1 DEF BeginRound, Listed, Goto, rows, SyncOwed
  <2>2. CASE Expire
    <3>1. \A j \in Jobs : SyncOwed(j) => SyncOwed(j)'
      BY <2>2, ExpireEffect DEF SyncOwed
    <3>2. \A j \in Jobs : j \in todo'[Maint] => SyncOwed(j)'
      BY <2>2, ExpireEffect DEF SyncOwed
    <3> QED BY <2>2, <3>1, <3>2, ExpireEffect
  <2>3. CASE Prune
    BY <2>3 DEF Prune, Prunable, Goto, locals, SyncOwed
  <2>4. ASSUME NEW h \in Hosts, SkipHost(h) PROVE NoRunLeftBehind'
    BY <2>4 DEF SkipHost, RoundJobs, rows, SyncOwed
  <2>5. ASSUME NEW h \in Hosts, NEW w \in Workers, ProbeHost(w, h) PROVE NoRunLeftBehind'
    BY <2>5 DEF ProbeHost, RoundJobs, Enter, Goto, rows, SyncOwed
  <2>6. ASSUME NEW j \in Jobs, SyncExpired(j) PROVE NoRunLeftBehind'
    BY <2>6 DEF SyncExpired, ExpiredStatus, At, Goto, rows, SyncOwed
  <2> QED BY <1>5, <2>1, <2>2, <2>3, <2>4, <2>5, <2>6 DEF MaintStep
<1>6. CASE HostStep
  <2>1. ASSUME NEW h \in Hosts, ArchiveHost(h) \/ UnarchiveHost(h) PROVE NoRunLeftBehind'
    BY <2>1 DEF ArchiveHost, UnarchiveHost, locals, rows, SyncOwed
  <2>2. ASSUME NEW h \in Hosts, DeleteHost(h) PROVE NoRunLeftBehind'
    BY <2>2 DEF DeleteHost, RowExists, Running, locals, rows, SyncOwed
  <2> QED BY <1>6, <2>1, <2>2 DEF HostStep
<1>7. CASE WorldStep
  <2>1. ASSUME NEW j \in Jobs, OpenExitFile(j) \/ WriteExitFile(j) \/ Die(j) PROVE NoRunLeftBehind'
    BY <2>1 DEF OpenExitFile, WriteExitFile, Die, locals, rows, SyncOwed
  <2>2. ASSUME NEW j \in Jobs, Age(j) PROVE NoRunLeftBehind'
    BY <2>2 DEF Age, locals, rows, SyncOwed
  <2>3. CASE Crash
    BY <2>3 DEF Crash, Interrupted, SyncOwed
  <2> QED BY <1>7, <2>1, <2>2, <2>3 DEF WorldStep
<1>8. CASE UNCHANGED vars
  BY <1>8 DEF vars, SyncOwed
<1> QED BY <1>1, <1>2, <1>3, <1>4, <1>5, <1>6, <1>7, <1>8 DEF Next

\* What a goroutine learned from the host stays true until it has written it:
\* exit files are final and dead processes do not come back.
LEMMA TrueAnswersStep ==
    ASSUME TypeOK, OneStarter, HeldJobs, VerdictTruthful, TrueAnswers, [Next]_vars
    PROVE  TrueAnswers'
<1> USE ConstantsOK, AnyJobType DEF OneStarter, HeldJobs, TrueAnswers, VerdictTruthful,
                                    Starting, Holding, TypeOK, Procs, Statuses, Ended
<1>1. ASSUME NEW w \in Workers, StartStep(w) PROVE TrueAnswers'
  <2>1. ASSUME NEW j \in Jobs, StartRun(w, j) PROVE TrueAnswers'
    BY <2>1 DEF StartRun, Enter, At, Goto
  <2>2. CASE Launch(w)
    BY <2>2 DEF Launch, Goto, locals, rows
  <2>3. CASE LinkJob(w)
    BY <2>3 DEF LinkJob, Done, Continue, At, Goto
  <2>4. CASE Cleanup(w)
    BY <2>4 DEF Cleanup, Goto, locals, rows
  <2>5. CASE AbortRun(w)
    BY <2>5 DEF AbortRun, Done, Continue, At, Goto
  <2> QED BY <1>1, <2>1, <2>2, <2>3, <2>4, <2>5 DEF StartStep
<1>2. ASSUME NEW w \in Workers, RefreshStep(w) PROVE TrueAnswers'
  <2>1. ASSUME NEW j \in Jobs, ReadStatus(w, j) PROVE TrueAnswers'
    BY <2>1 DEF ReadStatus, RowExists, Enter, At, Goto, rows
  <2>2. ASSUME NEW j \in Jobs, Probe(w, j) PROVE TrueAnswers'
    BY <2>2, ObservedTrue DEF Probe, Continue, At, Goto, rows
  <2>3. ASSUME NEW h \in Hosts, ListHost(w, h) PROVE TrueAnswers'
    BY <2>3 DEF ListHost, Running, Enter, Goto, rows
  <2>4. ASSUME NEW h \in Hosts, Connect(w, h) PROVE TrueAnswers'
    BY <2>4 DEF Connect, Continue, Goto, rows
  <2>5. ASSUME NEW h \in Hosts, Abandon(w, h) PROVE TrueAnswers'
    BY <2>5 DEF Abandon, rows
  <2>6. CASE RecordCheck(w)
    BY <2>6 DEF RecordCheck, Changed, Done, Continue, At, Goto
  <2>7. CASE UpdateRow(w)
    BY <2>7 DEF UpdateRow, RowExists, Done, Continue, At, Goto
  <2>8. CASE Return(w)
    BY <2>8 DEF Return, Goto, rows
  <2> QED BY <1>2, <2>1, <2>2, <2>3, <2>4, <2>5, <2>6, <2>7, <2>8 DEF RefreshStep
<1>3. ASSUME NEW p \in Procs, SyncStep(p) PROVE TrueAnswers'
  <2>1. CASE ReadRun(p)
    BY <2>1 DEF ReadRun, Done, Continue, At, Goto, rows
  <2>2. CASE FinishRun(p)
    BY <2>2 DEF FinishRun, StillOpen, Done, Continue, At, Goto
  <2>3. CASE Publish(p)
    BY <2>3 DEF Publish, Done, At, Goto, rows
  <2> QED BY <1>3, <2>1, <2>2, <2>3 DEF SyncStep
<1>4. ASSUME NEW w \in Workers, KillStep(w) PROVE TrueAnswers'
  <2>1. ASSUME NEW j \in Jobs, BeginKill(w, j) PROVE TrueAnswers'
    BY <2>1 DEF BeginKill, Enter, At, Goto, rows
  <2>2. CASE Reach(w)
    <3>1. UNCHANGED remote /\ pc'[w] \in {"inspect", "loop"}
      BY <2>2, DoneEffect, ContinueEffect DEF Reach
    <3>2. \A q \in Procs \ {w} : pc'[q] = pc[q] /\ cur'[q] = cur[q] /\ seen'[q] = seen[q]
      BY <2>2 DEF Reach, Done, Continue, At, Goto
    <3> QED BY <3>1, <3>2
  <2>3. CASE Inspect(w)
    <3>1. CASE Unsignalled(w)
      BY <2>3, <3>1, UnsignalledTrue DEF Inspect, rows
    <3>2. CASE ~Unsignalled(w)
      BY <2>3, <3>2 DEF Inspect, Done, Continue, At, Goto, rows
    <3> QED BY <3>1, <3>2
  <2>4. CASE Signal(w)
    <3>1. CASE remote[cur[w]] \in {"running", "opened"}
      <4>1. \A j \in Jobs : remote'[j] # remote[j] => remote[j] \in {"running", "opened"} /\ j = cur[w]
        BY <2>4, <3>1 DEF Signal
      <4>2. \A p \in Procs : p # w => pc'[p] = pc[p] /\ cur'[p] = cur[p] /\ seen'[p] = seen[p]
        BY <2>4, <3>1 DEF Signal, Done, At, Goto
      <4>3. pc'[w] = "loop" \/ (/\ cur'[w] = cur[w] /\ seen'[w] = "killed"
                                /\ remote'[cur[w]] \notin {"running", "opened"})
        BY <2>4, <3>1 DEF Signal, Alive, Done, At, Goto
      <4> QED BY <4>1, <4>2, <4>3
    <3>2. CASE remote[cur[w]] \notin {"running", "opened"} /\ Unsignalled(w)
      BY <2>4, <3>2, UnsignalledTrue DEF Signal, rows
    <3>3. CASE remote[cur[w]] \notin {"running", "opened"} /\ ~Unsignalled(w)
      BY <2>4, <3>3 DEF Signal, Done, At, Goto, rows
    <3> QED BY <3>1, <3>2, <3>3
  <2> QED BY <1>4, <2>1, <2>2, <2>3, <2>4 DEF KillStep
<1>5. CASE MaintStep
  <2>1. CASE BeginRound
    BY <2>1 DEF BeginRound, Listed, Goto, rows
  <2>2. CASE Expire
    BY <2>2 DEF Expire, Expirable, Goto
  <2>3. CASE Prune
    BY <2>3 DEF Prune, Prunable, Goto, locals
  <2>4. ASSUME NEW h \in Hosts, SkipHost(h) PROVE TrueAnswers'
    BY <2>4 DEF SkipHost, RoundJobs, rows
  <2>5. ASSUME NEW h \in Hosts, NEW w \in Workers, ProbeHost(w, h) PROVE TrueAnswers'
    BY <2>5 DEF ProbeHost, RoundJobs, Enter, Goto, rows
  <2>6. ASSUME NEW j \in Jobs, SyncExpired(j) PROVE TrueAnswers'
    BY <2>6 DEF SyncExpired, ExpiredStatus, At, Goto, rows
  <2> QED BY <1>5, <2>1, <2>2, <2>3, <2>4, <2>5, <2>6 DEF MaintStep
<1>6. CASE HostStep
  <2>1. ASSUME NEW h \in Hosts, ArchiveHost(h) \/ UnarchiveHost(h) PROVE TrueAnswers'
    BY <2>1 DEF ArchiveHost, UnarchiveHost, locals, rows
  <2>2. ASSUME NEW h \in Hosts, DeleteHost(h) PROVE TrueAnswers'
    BY <2>2 DEF DeleteHost, RowExists, Running, locals, rows
  <2> QED BY <1>6, <2>1, <2>2 DEF HostStep
<1>7. CASE WorldStep
  <2>1. ASSUME NEW j \in Jobs, OpenExitFile(j) \/ WriteExitFile(j) \/ Die(j) PROVE TrueAnswers'
    BY <2>1 DEF OpenExitFile, WriteExitFile, Die, locals, rows
  <2>2. ASSUME NEW j \in Jobs, Age(j) PROVE TrueAnswers'
    BY <2>2 DEF Age, locals, rows
  <2>3. CASE Crash
    BY <2>3 DEF Crash, Interrupted
  <2> QED BY <1>7, <2>1, <2>2, <2>3 DEF WorldStep
<1>8. CASE UNCHANGED vars
  BY <1>8 DEF vars
<1> QED BY <1>1, <1>2, <1>3, <1>4, <1>5, <1>6, <1>7, <1>8 DEF Next

\* Hence what the rows say of a process is true of it.
LEMMA VerdictTruthfulStep ==
    ASSUME TypeOK, OneStarter, HeldJobs, TrueAnswers, VerdictTruthful, [Next]_vars
    PROVE  VerdictTruthful'
<1> USE ConstantsOK, AnyJobType DEF OneStarter, HeldJobs, TrueAnswers, VerdictTruthful,
                                    Starting, Holding, TypeOK, Procs, Statuses, Ended
<1>1. ASSUME NEW w \in Workers, StartStep(w) PROVE VerdictTruthful'
  <2>1. ASSUME NEW j \in Jobs, StartRun(w, j) PROVE VerdictTruthful'
    BY <2>1 DEF StartRun, Enter, At, Goto
  <2>2. CASE Launch(w)
    BY <2>2 DEF Launch, Goto, locals, rows
  <2>3. CASE LinkJob(w)
    BY <2>3 DEF LinkJob, Done, Continue, At, Goto
  <2>4. CASE Cleanup(w)
    BY <2>4 DEF Cleanup, Goto, locals, rows
  <2>5. CASE AbortRun(w)
    BY <2>5 DEF AbortRun, Done, Continue, At, Goto
  <2> QED BY <1>1, <2>1, <2>2, <2>3, <2>4, <2>5 DEF StartStep
<1>2. ASSUME NEW w \in Workers, RefreshStep(w) PROVE VerdictTruthful'
  <2>1. ASSUME NEW j \in Jobs, ReadStatus(w, j) PROVE VerdictTruthful'
    BY <2>1 DEF ReadStatus, RowExists, Enter, At, Goto, rows
  <2>2. ASSUME NEW j \in Jobs, Probe(w, j) PROVE VerdictTruthful'
    BY <2>2 DEF Probe, Continue, At, Goto, rows
  <2>3. ASSUME NEW h \in Hosts, ListHost(w, h) PROVE VerdictTruthful'
    BY <2>3 DEF ListHost, Running, Enter, Goto, rows
  <2>4. ASSUME NEW h \in Hosts, Connect(w, h) PROVE VerdictTruthful'
    BY <2>4 DEF Connect, Continue, Goto, rows
  <2>5. ASSUME NEW h \in Hosts, Abandon(w, h) PROVE VerdictTruthful'
    BY <2>5 DEF Abandon, rows
  <2>6. CASE RecordCheck(w)
    BY <2>6 DEF RecordCheck, Changed, Done, Continue, At, Goto
  <2>7. CASE UpdateRow(w)
    BY <2>7 DEF UpdateRow, RowExists, Done, Continue, At, Goto
  <2>8. CASE Return(w)
    BY <2>8 DEF Return, Goto, rows
  <2> QED BY <1>2, <2>1, <2>2, <2>3, <2>4, <2>5, <2>6, <2>7, <2>8 DEF RefreshStep
<1>3. ASSUME NEW p \in Procs, SyncStep(p) PROVE VerdictTruthful'
  <2>1. CASE ReadRun(p)
    BY <2>1 DEF ReadRun, Done, Continue, At, Goto, rows
  <2>2. CASE FinishRun(p)
    BY <2>2, SucceededOnZero DEF FinishRun
  <2>3. CASE Publish(p)
    BY <2>3 DEF Publish, Done, At, Goto, rows
  <2> QED BY <1>3, <2>1, <2>2, <2>3 DEF SyncStep
<1>4. ASSUME NEW w \in Workers, KillStep(w) PROVE VerdictTruthful'
  <2>1. ASSUME NEW j \in Jobs, BeginKill(w, j) PROVE VerdictTruthful'
    BY <2>1 DEF BeginKill, Enter, At, Goto, rows
  <2>2. CASE Reach(w)
    BY <2>2 DEF Reach, Done, Continue, At, Goto, rows
  <2>3. CASE Inspect(w)
    BY <2>3 DEF Inspect, Unsignalled, Done, Continue, At, Goto, rows
  <2>4. CASE Signal(w)
    BY <2>4 DEF Signal, Unsignalled, Done, At, Goto, rows
  <2> QED BY <1>4, <2>1, <2>2, <2>3, <2>4 DEF KillStep
<1>5. CASE MaintStep
  <2>1. CASE BeginRound
    BY <2>1 DEF BeginRound, Listed, Goto, rows
  <2>2. CASE Expire
    BY <2>2, ExpireEffect
  <2>3. CASE Prune
    BY <2>3 DEF Prune, Prunable, Goto, locals
  <2>4. ASSUME NEW h \in Hosts, SkipHost(h) PROVE VerdictTruthful'
    BY <2>4 DEF SkipHost, RoundJobs, rows
  <2>5. ASSUME NEW h \in Hosts, NEW w \in Workers, ProbeHost(w, h) PROVE VerdictTruthful'
    BY <2>5 DEF ProbeHost, RoundJobs, Enter, Goto, rows
  <2>6. ASSUME NEW j \in Jobs, SyncExpired(j) PROVE VerdictTruthful'
    BY <2>6 DEF SyncExpired, ExpiredStatus, At, Goto, rows
  <2> QED BY <1>5, <2>1, <2>2, <2>3, <2>4, <2>5, <2>6 DEF MaintStep
<1>6. CASE HostStep
  <2>1. ASSUME NEW h \in Hosts, ArchiveHost(h) \/ UnarchiveHost(h) PROVE VerdictTruthful'
    BY <2>1 DEF ArchiveHost, UnarchiveHost, locals, rows
  <2>2. ASSUME NEW h \in Hosts, DeleteHost(h) PROVE VerdictTruthful'
    BY <2>2 DEF DeleteHost, RowExists, Running, locals, rows
  <2> QED BY <1>6, <2>1, <2>2 DEF HostStep
<1>7. CASE WorldStep
  <2>1. ASSUME NEW j \in Jobs, OpenExitFile(j) \/ WriteExitFile(j) \/ Die(j) PROVE VerdictTruthful'
    BY <2>1 DEF OpenExitFile, WriteExitFile, Die, locals, rows
  <2>2. ASSUME NEW j \in Jobs, Age(j) PROVE VerdictTruthful'
    BY <2>2 DEF Age, locals, rows
  <2>3. CASE Crash
    BY <2>3 DEF Crash, Interrupted
  <2> QED BY <1>7, <2>1, <2>2, <2>3 DEF WorldStep
<1>8. CASE UNCHANGED vars
  BY <1>8 DEF vars
<1> QED BY <1>1, <1>2, <1>3, <1>4, <1>5, <1>6, <1>7, <1>8 DEF Next

\* The invariant holds of the empty database.
LEMMA InitInv == Init => IInv
<1> USE ConstantsOK, AnyJobType
<1> SUFFICES ASSUME Init PROVE IInv
  OBVIOUS
<1>1. TypeOK
  BY DEF Init, TypeOK, Procs, Statuses, Ended, Labels
<1>2. RunBeforeJob /\ OneStarter /\ HeldJobs /\ DecidedEnds /\ JobEndsFirst /\ OnePublisher /\ TrueAnswers
  BY DEF Init, RunBeforeJob, OneStarter, HeldJobs, DecidedEnds, JobEndsFirst, OnePublisher,
         TrueAnswers, Starting, Holding, Deciding, Procs
<1>3. FinishedOnce /\ RunEndsAfterJob /\ NoRunLeftBehind /\ VerdictTruthful
  BY DEF Init, FinishedOnce, RunEndsAfterJob, NoRunLeftBehind, VerdictTruthful, Ended
<1> QED BY <1>1, <1>2, <1>3 DEF IInv

\* Every step preserves the invariant.
LEMMA Inductive == IInv /\ [Next]_vars => IInv'
BY TypeStep, RunBeforeJobStep, OneStarterStep, HeldJobsStep, DecidedEndsStep, JobEndsFirstStep,
   OnePublisherStep, FinishedOnceStep, RunEndsAfterJobStep, NoRunLeftBehindStep,
   TrueAnswersStep, VerdictTruthfulStep DEF IInv

\* The inductive invariant holds in every reachable state.
THEOREM Invariance == Spec => []IInv
BY InitInv, Inductive, PTL DEF Spec

\* Type correctness of the jobs component.
THEOREM TypeCorrect == Spec => []TypeOK
<1>1. IInv => TypeOK
  BY DEF IInv
<1> QED BY <1>1, Invariance, PTL

\* command_finished is published at most once for a run, whatever number of
\* probes, kills and rounds race to end it (FinishCommandRunByJob's changed).
THEOREM PublishedOnce == Spec => []FinishedOnce
<1>1. IInv => FinishedOnce
  BY DEF IInv
<1> QED BY <1>1, Invariance, PTL

\* Without failing writes a run never ends while its job's row says running,
\* across restarts too (RecoverInterruptedCommandRuns' job_id IS NULL).
THEOREM JobEndsBeforeRun == Spec => []RunEndsAfterJob
<1>1. IInv => RunEndsAfterJob
  BY DEF IInv
<1> QED BY <1>1, Invariance, PTL

\* Without restarts and failing writes, an open run whose job has ended is
\* always about to be ended by some goroutine (syncCommandRun's callers).
THEOREM EveryRunIsOwed == Spec => []NoRunLeftBehind
<1>1. IInv => NoRunLeftBehind
  BY DEF IInv
<1> QED BY <1>1, Invariance, PTL

\* Exit codes, killed and succeeded are true of the remote process.
THEOREM RowsAreTrue == Spec => []VerdictTruthful
<1>1. IInv => VerdictTruthful
  BY DEF IInv
<1> QED BY <1>1, Invariance, PTL

\* No step replaces the status a run has ended with.
LEMMA VerdictStep ==
    ASSUME TypeOK, [Next]_vars
    PROVE  KeepsVerdicts
<1> USE ConstantsOK, AnyJobType DEF TypeOK, Procs, KeepsVerdicts, RunEnded
<1>1. ASSUME NEW w \in Workers, StartStep(w) PROVE KeepsVerdicts
  <2>1. ASSUME NEW j \in Jobs, StartRun(w, j) PROVE KeepsVerdicts
    BY <2>1 DEF StartRun, Enter, At, Goto
  <2>2. CASE Launch(w)
    BY <2>2 DEF Launch, Goto, locals, rows
  <2>3. CASE LinkJob(w)
    BY <2>3 DEF LinkJob, Done, Continue, At, Goto
  <2>4. CASE Cleanup(w)
    BY <2>4 DEF Cleanup, Goto, locals, rows
  <2>5. CASE AbortRun(w)
    BY <2>5 DEF AbortRun, Done, Continue, At, Goto
  <2> QED BY <1>1, <2>1, <2>2, <2>3, <2>4, <2>5 DEF StartStep
<1>2. ASSUME NEW w \in Workers, RefreshStep(w) PROVE KeepsVerdicts
  BY <1>2 DEF RefreshStep, ReadStatus, RowExists, Enter, At, Goto, rows, Probe, Continue,
              ListHost, Running, Connect, Abandon, RecordCheck, Changed, Done, UpdateRow,
              Return
<1>3. ASSUME NEW p \in Procs, SyncStep(p) PROVE KeepsVerdicts
  <2>1. CASE ReadRun(p)
    BY <2>1 DEF ReadRun, Done, Continue, At, Goto, rows
  <2>2. CASE FinishRun(p)
    BY <2>2 DEF FinishRun, StillOpen, Done, Continue, At, Goto
  <2>3. CASE Publish(p)
    BY <2>3 DEF Publish, Done, At, Goto, rows
  <2> QED BY <1>3, <2>1, <2>2, <2>3 DEF SyncStep
<1>4. ASSUME NEW w \in Workers, KillStep(w) PROVE KeepsVerdicts
  BY <1>4 DEF KillStep, BeginKill, Enter, At, Goto, rows, Reach, Done, Continue, Inspect,
              Unsignalled, Signal
<1>5. CASE MaintStep
  BY <1>5 DEF MaintStep, BeginRound, Listed, Goto, rows, Expire, Expirable, Prune, Prunable,
              locals, SkipHost, RoundJobs, ProbeHost, Enter, SyncExpired, ExpiredStatus, At
<1>6. CASE HostStep
  BY <1>6 DEF HostStep, ArchiveHost, UnarchiveHost, locals, rows, DeleteHost, RowExists, Running
<1>7. CASE WorldStep
  <2>1. ASSUME NEW j \in Jobs, OpenExitFile(j) \/ WriteExitFile(j) \/ Die(j) PROVE KeepsVerdicts
    BY <2>1 DEF OpenExitFile, WriteExitFile, Die, locals, rows
  <2>2. ASSUME NEW j \in Jobs, Age(j) PROVE KeepsVerdicts
    BY <2>2 DEF Age, locals, rows
  <2>3. CASE Crash
    BY <2>3 DEF Crash, Interrupted
  <2> QED BY <1>7, <2>1, <2>2, <2>3 DEF WorldStep
<1>8. CASE UNCHANGED vars
  BY <1>8 DEF vars
<1> QED BY <1>1, <1>2, <1>3, <1>4, <1>5, <1>6, <1>7, <1>8 DEF Next

\* The status a run has ended with is final (the AND status='running' of both
\* finishing statements).
THEOREM VerdictsAreFinal == Spec => VerdictFinal
<1>1. IInv /\ [Next]_vars => [KeepsVerdicts]_run
  BY VerdictStep DEF IInv
<1> QED BY <1>1, Invariance, PTL DEF Spec, VerdictFinal

\* No step takes an ended row back to running or revives a deleted one.
LEMMA EndedStep ==
    ASSUME TypeOK, OneStarter, DecidedEnds, [Next]_vars
    PROVE  KeepsEnded
<1> USE ConstantsOK, AnyJobType DEF OneStarter, DecidedEnds, KeepsEnded, Starting, Deciding,
                                    TypeOK, Procs, Statuses, Ended
<1>1. ASSUME NEW w \in Workers, StartStep(w) PROVE KeepsEnded
  <2>1. ASSUME NEW j \in Jobs, StartRun(w, j) PROVE KeepsEnded
    BY <2>1 DEF StartRun, Enter, At, Goto
  <2>2. CASE Launch(w)
    BY <2>2 DEF Launch, Goto, locals, rows
  <2>3. CASE LinkJob(w)
    BY <2>3 DEF LinkJob, Done, Continue, At, Goto
  <2>4. CASE Cleanup(w)
    BY <2>4 DEF Cleanup, Goto, locals, rows
  <2>5. CASE AbortRun(w)
    BY <2>5 DEF AbortRun, Done, Continue, At, Goto
  <2> QED BY <1>1, <2>1, <2>2, <2>3, <2>4, <2>5 DEF StartStep
<1>2. ASSUME NEW w \in Workers, RefreshStep(w) PROVE KeepsEnded
  <2>1. ASSUME NEW j \in Jobs, ReadStatus(w, j) PROVE KeepsEnded
    BY <2>1 DEF ReadStatus, RowExists, Enter, At, Goto, rows
  <2>2. ASSUME NEW j \in Jobs, Probe(w, j) PROVE KeepsEnded
    BY <2>2 DEF Probe, Continue, At, Goto, rows
  <2>3. ASSUME NEW h \in Hosts, ListHost(w, h) PROVE KeepsEnded
    BY <2>3 DEF ListHost, Running, Enter, Goto, rows
  <2>4. ASSUME NEW h \in Hosts, Connect(w, h) PROVE KeepsEnded
    BY <2>4 DEF Connect, Continue, Goto, rows
  <2>5. ASSUME NEW h \in Hosts, Abandon(w, h) PROVE KeepsEnded
    BY <2>5 DEF Abandon, rows
  <2>6. CASE RecordCheck(w)
    BY <2>6 DEF RecordCheck, Changed, Done, Continue, At, Goto
  <2>7. CASE UpdateRow(w)
    BY <2>7 DEF UpdateRow, RowExists, Done, Continue, At, Goto
  <2>8. CASE Return(w)
    BY <2>8 DEF Return, Goto, rows
  <2> QED BY <1>2, <2>1, <2>2, <2>3, <2>4, <2>5, <2>6, <2>7, <2>8 DEF RefreshStep
<1>3. ASSUME NEW p \in Procs, SyncStep(p) PROVE KeepsEnded
  BY <1>3 DEF SyncStep, ReadRun, Done, Continue, At, Goto, rows, FinishRun, StillOpen, Publish
<1>4. ASSUME NEW w \in Workers, KillStep(w) PROVE KeepsEnded
  BY <1>4 DEF KillStep, BeginKill, Enter, At, Goto, rows, Reach, Done, Continue, Inspect,
              Unsignalled, Signal
<1>5. CASE MaintStep
  <2>1. CASE BeginRound
    BY <2>1 DEF BeginRound, Listed, Goto, rows
  <2>2. CASE Expire
    BY <2>2 DEF Expire, Expirable, Goto
  <2>3. CASE Prune
    BY <2>3 DEF Prune, Prunable, Goto, locals
  <2>4. ASSUME NEW h \in Hosts, SkipHost(h) PROVE KeepsEnded
    BY <2>4 DEF SkipHost, RoundJobs, rows
  <2>5. ASSUME NEW h \in Hosts, NEW w \in Workers, ProbeHost(w, h) PROVE KeepsEnded
    BY <2>5 DEF ProbeHost, RoundJobs, Enter, Goto, rows
  <2>6. ASSUME NEW j \in Jobs, SyncExpired(j) PROVE KeepsEnded
    BY <2>6 DEF SyncExpired, ExpiredStatus, At, Goto, rows
  <2> QED BY <1>5, <2>1, <2>2, <2>3, <2>4, <2>5, <2>6 DEF MaintStep
<1>6. CASE HostStep
  BY <1>6 DEF HostStep, ArchiveHost, UnarchiveHost, locals, rows, DeleteHost, RowExists, Running
<1>7. CASE WorldStep
  <2>1. ASSUME NEW j \in Jobs, OpenExitFile(j) \/ WriteExitFile(j) \/ Die(j) PROVE KeepsEnded
    BY <2>1 DEF OpenExitFile, WriteExitFile, Die, locals, rows
  <2>2. ASSUME NEW j \in Jobs, Age(j) PROVE KeepsEnded
    BY <2>2 DEF Age, locals, rows
  <2>3. CASE Crash
    BY <2>3 DEF Crash, Interrupted
  <2> QED BY <1>7, <2>1, <2>2, <2>3 DEF WorldStep
<1>8. CASE UNCHANGED vars
  BY <1>8 DEF vars
<1> QED BY <1>1, <1>2, <1>3, <1>4, <1>5, <1>6, <1>7, <1>8 DEF Next

\* A job row that has ended never says running again, whichever stale probe
\* comes late (the comment on ExpireUncheckedJobs).
THEOREM EndedRowsStayEnded == Spec => EndedStaysEnded
<1>1. IInv /\ [Next]_vars => [KeepsEnded]_job
  BY EndedStep DEF IInv
<1> QED BY <1>1, Invariance, PTL DEF Spec, EndedStaysEnded

\* A step of RunLedger under the refinement mapping.
LedgerStep == [Ledger!Next]_<<Phase, run, published>>

\* A step that touches neither rows nor announcements is a stutter of the ledgers.
LEMMA LedgerQuiet == UNCHANGED <<job, run, published>> => LedgerStep
BY DEF LedgerStep, Phase

\* Every step of the goroutines is a step of the two ledgers or a stutter.
LEMMA LedgerSim ==
    ASSUME TypeOK, OneStarter, HeldJobs, DecidedEnds, JobEndsFirst, OnePublisher, [Next]_vars
    PROVE  LedgerStep
<1> USE ConstantsOK, AnyJobType DEF OneStarter, HeldJobs, DecidedEnds, JobEndsFirst,
                                    Starting, Holding, Deciding, TypeOK, Procs, Statuses,
                                    Ended
<1>1. ASSUME NEW w \in Workers, StartStep(w) PROVE LedgerStep
  <2>1. ASSUME NEW j \in Jobs, StartRun(w, j) PROVE LedgerStep
    <3>1. Ledger!Open(j)
      BY <2>1 DEF StartRun, Ledger!Open, Phase
    <3> QED BY <3>1 DEF Ledger!Next, LedgerStep
  <2>2. CASE Launch(w)
    BY <2>2, LedgerQuiet DEF Launch, rows
  <2>3. CASE LinkJob(w)
    <3>1. CASE job' = [job EXCEPT ![cur[w]] = "running"] /\ run[cur[w]] = "running"
      <4>1. Ledger!Link(cur[w])
        BY <2>3, <3>1 DEF LinkJob, Ledger!Link, Phase
      <4> QED BY <4>1 DEF Ledger!Next, LedgerStep
    <3>2. CASE UNCHANGED job
      BY <2>3, <3>2, LedgerQuiet DEF LinkJob
    <3> QED BY <2>3, <3>1, <3>2 DEF LinkJob
  <2>4. CASE Cleanup(w)
    BY <2>4, LedgerQuiet DEF Cleanup, rows
  <2>5. CASE AbortRun(w)
    <3>1. CASE run[cur[w]] = "running" /\ \E s \in {"failed", "cancelled"} : run' = [run EXCEPT ![cur[w]] = s]
      <4>1. PICK v \in Ledger!Verdicts : run' = [run EXCEPT ![cur[w]] = v]
        BY <3>1 DEF Ledger!Verdicts
      <4>2. run' = [j \in Jobs |-> IF j \in {cur[w]} THEN v ELSE run[j]]
        BY <4>1
      <4>3. cur[w] \in Jobs /\ job[cur[w]] = "none" /\ UNCHANGED <<job, published>>
        BY <2>5 DEF AbortRun
      <4>4. Ledger!Interrupt({cur[w]})
        <5>1. Phase[cur[w]] = "none" /\ Phase' = Phase
          BY <4>3 DEF Phase
        <5>2. {cur[w]} \subseteq {j \in Jobs : run[j] = "running" /\ Phase[j] = "none"}
          BY <3>1, <4>3, <5>1
        <5>3. \E u \in Ledger!Verdicts : run' = [j \in Jobs |-> IF j \in {cur[w]} THEN u ELSE run[j]]
          BY <4>1, <4>2, Zenon
        <5> QED BY <4>3, <5>1, <5>2, <5>3, Zenon DEF Ledger!Interrupt
      <4> QED BY <4>3, <4>4 DEF Ledger!Next, LedgerStep
    <3>2. CASE UNCHANGED run
      BY <2>5, <3>2, LedgerQuiet DEF AbortRun
    <3> QED BY <2>5, <3>1, <3>2 DEF AbortRun
  <2> QED BY <1>1, <2>1, <2>2, <2>3, <2>4, <2>5 DEF StartStep
<1>2. ASSUME NEW w \in Workers, RefreshStep(w) PROVE LedgerStep
  <2>1. ASSUME NEW j \in Jobs, ReadStatus(w, j) PROVE LedgerStep
    BY <2>1, LedgerQuiet DEF ReadStatus, rows
  <2>2. ASSUME NEW j \in Jobs, Probe(w, j) PROVE LedgerStep
    BY <2>2, LedgerQuiet DEF Probe, rows
  <2>3. ASSUME NEW h \in Hosts, ListHost(w, h) PROVE LedgerStep
    BY <2>3, LedgerQuiet DEF ListHost, rows
  <2>4. ASSUME NEW h \in Hosts, Connect(w, h) PROVE LedgerStep
    BY <2>4, LedgerQuiet DEF Connect, rows
  <2>5. ASSUME NEW h \in Hosts, Abandon(w, h) PROVE LedgerStep
    BY <2>5, LedgerQuiet DEF Abandon, rows
  <2>6. CASE RecordCheck(w)
    BY <2>6, LedgerQuiet DEF RecordCheck
  <2>7. CASE UpdateRow(w)
    <3>1. CASE job[cur[w]] = "running" /\ job' = [job EXCEPT ![cur[w]] = seen[w]]
      <4>1. Ledger!End({cur[w]})
        BY <2>7, <3>1 DEF UpdateRow, Ledger!End, Phase
      <4> QED BY <4>1 DEF Ledger!Next, LedgerStep
    <3>2. CASE job[cur[w]] \in Ended /\ job' = [job EXCEPT ![cur[w]] = seen[w]]
      BY <2>7, <3>2 DEF UpdateRow, Phase, LedgerStep
    <3>3. CASE UNCHANGED job
      BY <2>7, <3>3, LedgerQuiet DEF UpdateRow
    <3> QED BY <2>7, <3>1, <3>2, <3>3 DEF UpdateRow, RowExists
  <2>8. CASE Return(w)
    BY <2>8, LedgerQuiet DEF Return, rows
  <2> QED BY <1>2, <2>1, <2>2, <2>3, <2>4, <2>5, <2>6, <2>7, <2>8 DEF RefreshStep
<1>3. ASSUME NEW p \in Procs, SyncStep(p) PROVE LedgerStep
  <2>1. CASE ReadRun(p)
    BY <2>1, LedgerQuiet DEF ReadRun, rows
  <2>2. CASE FinishRun(p)
    <3>1. CASE run[cur[p]] = "running" /\ run' = [run EXCEPT ![cur[p]] = RunVerdict(seen[p])]
      <4>1. job[cur[p]] \in Ended \cup {"deleted"} \/ (StoreFaults /\ job[cur[p]] = "running")
        BY <2>2 DEF FinishRun
      <4>2. RunVerdict(seen[p]) \in RunEnded
        BY VerdictType
      <4>3. Ledger!Settle(cur[p])
        BY <2>2, <3>1, <4>1, <4>2 DEF FinishRun, Ledger!Settle, Ledger!Verdicts, RunEnded, Phase
      <4> QED BY <4>3 DEF Ledger!Next, LedgerStep
    <3>2. CASE UNCHANGED run
      BY <2>2, <3>2, LedgerQuiet DEF FinishRun
    <3> QED BY <2>2, <3>1, <3>2 DEF FinishRun, StillOpen
  <2>3. CASE Publish(p)
    <3>1. published[cur[p]] = 0 /\ run[cur[p]] \in RunEnded /\ cur[p] \in Jobs
      BY <2>3 DEF Publish, OnePublisher
    <3>2. published' = [published EXCEPT ![cur[p]] = 1]
      BY <2>3, <3>1 DEF Publish
    <3>3. Ledger!Announce(cur[p])
      BY <2>3, <3>1, <3>2 DEF Publish, Ledger!Announce, Ledger!Verdicts, RunEnded, rows, Phase
    <3> QED BY <3>1, <3>3 DEF Ledger!Next, LedgerStep
  <2> QED BY <1>3, <2>1, <2>2, <2>3 DEF SyncStep
<1>4. ASSUME NEW w \in Workers, KillStep(w) PROVE LedgerStep
  <2>1. ASSUME NEW j \in Jobs, BeginKill(w, j) PROVE LedgerStep
    BY <2>1, LedgerQuiet DEF BeginKill, rows
  <2>2. CASE Reach(w)
    BY <2>2, LedgerQuiet DEF Reach, rows
  <2>3. CASE Inspect(w)
    BY <2>3, LedgerQuiet DEF Inspect, rows
  <2>4. CASE Signal(w)
    BY <2>4, LedgerQuiet DEF Signal, rows
  <2> QED BY <1>4, <2>1, <2>2, <2>3, <2>4 DEF KillStep
<1>5. CASE MaintStep
  <2>1. CASE BeginRound
    BY <2>1, LedgerQuiet DEF BeginRound, rows
  <2>2. CASE Expire
    <3> DEFINE js == {j \in Jobs : job'[j] # job[j]}
    <3>1. \A j \in js : job[j] = "running" /\ job'[j] = "lost"
      BY <2>2, ExpireEffect
    <3>2. js \subseteq {j \in Jobs : Phase[j] = "running"}
      BY <3>1 DEF Phase
    <3>3. Phase' = [j \in Jobs |-> IF j \in js THEN "ended" ELSE Phase[j]]
      BY <3>1 DEF Phase
    <3>4. Ledger!End(js)
      BY <2>2, <3>2, <3>3, ExpireEffect DEF Ledger!End
    <3> QED BY <3>4 DEF Ledger!Next, LedgerStep
  <2>3. CASE Prune
    <3> DEFINE js == {j \in Jobs : job'[j] # job[j]}
    <3>1. Ledger!Drop(js)
      BY <2>3 DEF Ledger!Drop, Prune, Prunable, Phase
    <3> QED BY <3>1 DEF Ledger!Next, LedgerStep
  <2>4. ASSUME NEW h \in Hosts, SkipHost(h) PROVE LedgerStep
    BY <2>4, LedgerQuiet DEF SkipHost, rows
  <2>5. ASSUME NEW h \in Hosts, NEW w \in Workers, ProbeHost(w, h) PROVE LedgerStep
    BY <2>5, LedgerQuiet DEF ProbeHost, rows
  <2>6. ASSUME NEW j \in Jobs, SyncExpired(j) PROVE LedgerStep
    BY <2>6, LedgerQuiet DEF SyncExpired, rows
  <2> QED BY <1>5, <2>1, <2>2, <2>3, <2>4, <2>5, <2>6 DEF MaintStep
<1>6. CASE HostStep
  <2>1. ASSUME NEW h \in Hosts, ArchiveHost(h) \/ UnarchiveHost(h) PROVE LedgerStep
    BY <2>1, LedgerQuiet DEF ArchiveHost, UnarchiveHost, rows
  <2>2. ASSUME NEW h \in Hosts, DeleteHost(h) PROVE LedgerStep
    <3> DEFINE js == {j \in Jobs : job'[j] # job[j]}
    <3>1. Ledger!Drop(js)
      BY <2>2 DEF Ledger!Drop, DeleteHost, RowExists, Running, Phase
    <3> QED BY <3>1 DEF Ledger!Next, LedgerStep
  <2> QED BY <1>6, <2>1, <2>2 DEF HostStep
<1>7. CASE WorldStep
  <2>1. ASSUME NEW j \in Jobs, OpenExitFile(j) \/ WriteExitFile(j) \/ Die(j) PROVE LedgerStep
    BY <2>1, LedgerQuiet DEF OpenExitFile, WriteExitFile, Die, rows
  <2>2. ASSUME NEW j \in Jobs, Age(j) PROVE LedgerStep
    BY <2>2, LedgerQuiet DEF Age
  <2>3. CASE Crash
    <3> DEFINE js == {j \in Jobs : Interrupted(j)}
    <3>1. CASE run' = [j \in Jobs |-> IF Interrupted(j) THEN "lost" ELSE run[j]]
      <4>1. Ledger!Interrupt(js)
        BY <2>3, <3>1 DEF Ledger!Interrupt, Ledger!Verdicts, Crash, Interrupted, Phase
      <4> QED BY <4>1 DEF Ledger!Next, LedgerStep
    <3>2. CASE UNCHANGED run
      BY <2>3, <3>2, LedgerQuiet DEF Crash
    <3> QED BY <2>3, <3>1, <3>2 DEF Crash
  <2> QED BY <1>7, <2>1, <2>2, <2>3 DEF WorldStep
<1>8. CASE UNCHANGED vars
  BY <1>8, LedgerQuiet DEF vars
<1> QED BY <1>1, <1>2, <1>3, <1>4, <1>5, <1>6, <1>7, <1>8 DEF Next

\* JobLifecycle implements RunLedger: with all its interleavings, restarts and
\* failing writes, runs and jobs move only as the two ledgers allow.
THEOREM RefinesLedger == Spec => KeepsLedger
<1>1. Init => Ledger!Init
  BY DEF Init, Ledger!Init, Phase, Ended
<1>2. IInv /\ [Next]_vars => [Ledger!Next]_<<Phase, run, published>>
  BY LedgerSim DEF IInv, LedgerStep
<1> QED BY <1>1, <1>2, Invariance, PTL DEF Spec, KeepsLedger, Ledger!Spec
=============================================================================
