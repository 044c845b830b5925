--------------------------------- MODULE FanOut ---------------------------------
(***************************************************************************)
(* exec_many: one goroutine per host of the input, a channel as semaphore, *)
(* a wait group and a slice of results with one place per host.  What a    *)
(* goroutine does on its host while it has a slot is module CommandRuns;   *)
(* here it takes some time and ends in a result or an error, or never, as  *)
(* the pool or a session of a host that does not answer may.               *)
(***************************************************************************)
EXTENDS Integers, FiniteSets

CONSTANTS
    Inputs,   \* length of in.Hosts
    Capacity  \* slots of the semaphore, 16 in the code

ASSUME FanConstantsOK == Inputs \in Nat \ {0} /\ Capacity \in Nat \ {0}

VARIABLES
    spawned,  \* goroutines the loop has started
    worker,   \* where each of them is
    sem,      \* values in the channel
    wg,       \* counter of the wait group
    results,  \* out.Results
    answer    \* what the caller has been given

fanVars == <<spawned, worker, sem, wg, results, answer>>

Items == 1 .. Inputs
Empty == "empty"

FanInit ==
    /\ spawned = 0
    /\ worker = [i \in Items |-> "none"]
    /\ sem = 0
    /\ wg = 0
    /\ results = [i \in Items |-> Empty]
    /\ answer = <<>>

\* wg.Add runs in the loop, before the goroutine.
Spawn ==
    /\ spawned < Inputs
    /\ spawned' = spawned + 1
    /\ wg' = wg + 1
    /\ worker' = [worker EXCEPT ![spawned + 1] = "waiting"]
    /\ UNCHANGED <<sem, results, answer>>

\* The send blocks while the channel is full; it does not look at the request's context.
Acquire(i) ==
    /\ worker[i] = "waiting"
    /\ sem < Capacity
    /\ sem' = sem + 1
    /\ worker' = [worker EXCEPT ![i] = "working"]
    /\ UNCHANGED <<spawned, wg, results, answer>>

\* Mutated Report: an error is returned instead of being written.
ReportResult(i) ==
    /\ worker[i] = "working"
    /\ results' \in {results, [results EXCEPT ![i] = "result"]}
    /\ worker' = [worker EXCEPT ![i] = "leaving"]
    /\ UNCHANGED <<spawned, sem, wg, answer>>

\* Not authorised, no row, no connection, a failed command or a result: each writes its place.
Report(i) ==
    /\ worker[i] = "working"
    /\ \E item \in {"error", "result"} : results' = [results EXCEPT ![i] = item]
    /\ worker' = [worker EXCEPT ![i] = "leaving"]
    /\ UNCHANGED <<spawned, sem, wg, answer>>

\* The work on a host that never ends keeps its slot.
Hang(i) ==
    /\ worker[i] = "working"
    /\ worker' = [worker EXCEPT ![i] = "hung"]
    /\ UNCHANGED <<spawned, sem, wg, results, answer>>

\* Mutated Release: a goroutine that met an error keeps its slot.
ReleaseResult(i) ==
    /\ worker[i] = "leaving"
    /\ sem' = IF results[i] = "error" THEN sem ELSE sem - 1
    /\ worker' = [worker EXCEPT ![i] = "released"]
    /\ UNCHANGED <<spawned, wg, results, answer>>

\* The deferred calls, last one first: the slot, then the wait group.
Release(i) ==
    /\ worker[i] = "leaving"
    /\ sem' = sem - 1
    /\ worker' = [worker EXCEPT ![i] = "released"]
    /\ UNCHANGED <<spawned, wg, results, answer>>

Done(i) ==
    /\ worker[i] = "released"
    /\ wg' = wg - 1
    /\ worker' = [worker EXCEPT ![i] = "done"]
    /\ UNCHANGED <<spawned, sem, results, answer>>

\* wg.Wait
Answer ==
    /\ spawned = Inputs
    /\ wg = 0
    /\ answer = <<>>
    /\ answer' = results
    /\ UNCHANGED <<spawned, worker, sem, wg, results>>

FanWork == Answer \/ \E i \in Items : Acquire(i) \/ Report(i) \/ Hang(i) \/ Release(i) \/ Done(i)

FanNext == Spawn \/ FanWork

\* Go's scheduler: the work on a host ends or is one that never does, and a loop that has begun
\* goes on.
FanFairness == WF_fanVars(FanWork) /\ WF_fanVars(spawned > 0 /\ Spawn)

FanSpec == FanInit /\ [][FanNext]_fanVars /\ FanFairness

-----------------------------------------------------------------------------
\* The work in progress never exceeds the slots, and the counters agree with the goroutines.
FanInv ==
    /\ sem = Cardinality({i \in Items : worker[i] \in {"working", "hung", "leaving"}})
    /\ sem <= Capacity
    /\ wg = spawned - Cardinality({i \in Items : worker[i] = "done"})
    /\ \A i \in Items : worker[i] = "none" <=> i > spawned

\* The answer has a result or an error for every host of the input, in the input's order.
EveryHostAnswered == answer # <<>> => \A i \in Items : answer[i] # Empty

Hung == {i \in Items : worker[i] = "hung"}

\* exec_many returns, with more hosts than slots too and however its hosts fail, unless the work
\* on one never ends; and such hosts cost the others nothing as long as they leave a slot.
FanoutReturns ==
    /\ spawned > 0 ~> answer # <<>> \/ Hung # {}
    /\ \A i \in Items :
          worker[i] = "waiting" ~> worker[i] \in {"done", "hung"} \/ Cardinality(Hung) >= Capacity

=============================================================================
