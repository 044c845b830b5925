------------------------------ MODULE RunLedger ------------------------------
(***************************************************************************)
(* What the activity page may rely on, whoever works on a job and however  *)
(* often the gateway restarts: two ledgers, the command runs and the jobs  *)
(* linked to them.  A run is opened, may be linked to a job, and is settled *)
(* once, after its job has ended, or closed as interrupted if it never got *)
(* one.  The end of a run is announced at most once and only after it is   *)
(* recorded.  A job's row ends, is perhaps corrected, and is dropped.      *)
(***************************************************************************)
EXTENDS Naturals

CONSTANTS
    Jobs,
    Faulty   \* writes may fail: then a run may be settled before its job's row

VARIABLES
    job,       \* "none", "running", "ended" or "deleted"
    run,       \* "none", "running" or a verdict
    published  \* announcements of the run's end

Verdicts == {"succeeded", "failed", "cancelled", "lost"}

Init ==
    /\ job = [j \in Jobs |-> "none"]
    /\ run = [j \in Jobs |-> "none"]
    /\ published = [j \in Jobs |-> 0]

Open(j) ==
    /\ run[j] = "none"
    /\ run' = [run EXCEPT ![j] = "running"]
    /\ UNCHANGED <<job, published>>

Link(j) ==
    /\ job[j] = "none"
    /\ run[j] = "running"
    /\ job' = [job EXCEPT ![j] = "running"]
    /\ UNCHANGED <<run, published>>

\* Runs that never got a job are closed, one by its handler or all by a restart.
Interrupt(js) ==
    /\ js \subseteq {j \in Jobs : run[j] = "running" /\ job[j] = "none"}
    /\ \E v \in Verdicts : run' = [j \in Jobs |-> IF j \in js THEN v ELSE run[j]]
    /\ UNCHANGED <<job, published>>

End(js) ==
    /\ js \subseteq {j \in Jobs : job[j] = "running"}
    /\ job' = [j \in Jobs |-> IF j \in js THEN "ended" ELSE job[j]]
    /\ UNCHANGED <<run, published>>

Drop(js) ==
    /\ js \subseteq {j \in Jobs : job[j] = "ended"}
    /\ job' = [j \in Jobs |-> IF j \in js THEN "deleted" ELSE job[j]]
    /\ UNCHANGED <<run, published>>

Settle(j) ==
    /\ run[j] = "running"
    /\ job[j] \in {"ended", "deleted"} \/ (Faulty /\ job[j] = "running")
    /\ \E v \in Verdicts : run' = [run EXCEPT ![j] = v]
    /\ UNCHANGED <<job, published>>

Announce(j) ==
    /\ run[j] \in Verdicts
    /\ published[j] = 0
    /\ published' = [published EXCEPT ![j] = 1]
    /\ UNCHANGED <<job, run>>

Next ==
    \/ \E j \in Jobs : Open(j) \/ Link(j) \/ Settle(j) \/ Announce(j)
    \/ \E js \in SUBSET Jobs : Interrupt(js) \/ End(js) \/ Drop(js)

Spec == Init /\ [][Next]_<<job, run, published>>
=============================================================================
