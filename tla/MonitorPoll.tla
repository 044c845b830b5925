------------------------------ MODULE MonitorPoll ------------------------------
(***************************************************************************)
(* Manager.Poll: at most one poll at a time, a few workers that take hosts *)
(* from an unbuffered channel, and a context that ends when the monitor is *)
(* halted.  A poll that finds another under way returns at once.           *)
(* Sampling a host that does not answer may never end: the pool and the    *)
(* start of a session do not look at the context.                          *)
(***************************************************************************)
EXTENDS Integers, FiniteSets

CONSTANTS
    Polls,      \* bound: calls of Poll, by the ticker or at the start
    Workers,    \* the limit of a poll's workers (5)
    Monitored   \* hosts that may be monitored

ASSUME PollConstantsOK == IsFiniteSet(Workers) /\ Workers # {}

VARIABLES
    halted,  \* the context of the monitor is done
    polling,  \* the flag under pollMu
    poll,     \* where each call of Poll is
    unsent,   \* hosts the poll has listed and not handed over
    sampler    \* each call's workers: idle, gone, or with a host, perhaps for ever

pollVars == <<halted, polling, poll, unsent, sampler>>

PollInit ==
    /\ halted = FALSE
    /\ polling = FALSE
    /\ poll = [p \in Polls |-> "none"]
    /\ unsent = [p \in Polls |-> {}]
    /\ sampler = [p \in Polls |-> [w \in Workers |-> "gone"]]

At(p, from, to) == poll[p] = from /\ poll' = [poll EXCEPT ![p] = to]

Tick(p) ==
    /\ At(p, "none", "called")
    /\ UNCHANGED <<halted, polling, unsent, sampler>>

\* Mutated Enter: the flag is set and not tested.
EnterAlways(p) ==
    /\ At(p, "called", "listing")
    /\ polling' = TRUE
    /\ UNCHANGED <<halted, unsent, sampler>>

\* The flag is tested and set under the mutex.
Enter(p) ==
    /\ IF halted \/ polling
       THEN At(p, "called", "ended") /\ UNCHANGED polling
       ELSE At(p, "called", "listing") /\ polling' = TRUE
    /\ UNCHANGED <<halted, unsent, sampler>>

Team(hosts) ==
    {team \in SUBSET Workers :
        Cardinality(team) = IF Cardinality(hosts) < Cardinality(Workers) THEN Cardinality(hosts)
                            ELSE Cardinality(Workers)}

\* MonitoredHosts fails or finds none, or as many workers as can have a host are started.
List(p) ==
    /\ \/ At(p, "listing", "leaving") /\ UNCHANGED <<unsent, sampler>>
       \/ /\ At(p, "listing", "sending")
          /\ \E hosts \in SUBSET Monitored \ {{}} : \E team \in Team(hosts) :
                /\ unsent' = [unsent EXCEPT ![p] = hosts]
                /\ sampler' = [sampler EXCEPT ![p] =
                                  [w \in Workers |-> IF w \in team THEN "idle" ELSE "gone"]]
    /\ UNCHANGED <<halted, polling>>

\* Sender and worker meet; a worker that finds the context done drops the host and leaves.
Send(p) ==
    /\ poll[p] = "sending"
    /\ \E h \in unsent[p], w \in Workers :
          /\ sampler[p][w] = "idle"
          /\ unsent' = [unsent EXCEPT ![p] = @ \ {h}]
          /\ sampler' = [sampler EXCEPT ![p][w] = IF halted THEN "gone" ELSE "busy"]
    /\ UNCHANGED <<halted, polling, poll>>

\* All hosts are handed over, or the loop sees that the context is done: the channel is closed.
CloseJobs(p) ==
    /\ unsent[p] = {} \/ halted
    /\ At(p, "sending", "waiting")
    /\ UNCHANGED <<halted, polling, unsent, sampler>>

\* A sample ends, with the context too if its session has started ...
EndSample(p) ==
    /\ \E w \in Workers :
          /\ sampler[p][w] = "busy"
          /\ sampler' = [sampler EXCEPT ![p][w] = "idle"]
    /\ UNCHANGED <<halted, polling, poll, unsent>>

\* ... or it is one that never ends.
HangSample(p) ==
    /\ \E w \in Workers :
          /\ sampler[p][w] = "busy"
          /\ sampler' = [sampler EXCEPT ![p][w] = "hung"]
    /\ UNCHANGED <<halted, polling, poll, unsent>>

\* A worker that asks a closed channel for a host leaves.
EndWorker(p) ==
    /\ poll[p] = "waiting"
    /\ \E w \in Workers :
          /\ sampler[p][w] = "idle"
          /\ sampler' = [sampler EXCEPT ![p][w] = "gone"]
    /\ UNCHANGED <<halted, polling, poll, unsent>>

WaitWorkers(p) ==
    /\ \A w \in Workers : sampler[p][w] = "gone"
    /\ At(p, "waiting", "leaving")
    /\ UNCHANGED <<halted, polling, unsent, sampler>>

\* The deferred reset of the flag.
Leave(p) ==
    /\ At(p, "leaving", "ended")
    /\ polling' = FALSE
    /\ UNCHANGED <<halted, unsent, sampler>>

Stop ==
    /\ ~halted
    /\ halted' = TRUE
    /\ UNCHANGED <<polling, poll, unsent, sampler>>

PollStep(p) ==
    \/ Enter(p) \/ List(p) \/ Send(p) \/ CloseJobs(p) \/ EndSample(p) \/ HangSample(p)
    \/ EndWorker(p) \/ WaitWorkers(p) \/ Leave(p)

PollNext == (\E p \in Polls : Tick(p) \/ PollStep(p)) \/ Stop

\* Go's scheduler; a sample ends or is one that never does.
PollFairness == \A p \in Polls : WF_pollVars(PollStep(p))

PollSpec == PollInit /\ [][PollNext]_pollVars /\ PollFairness

-----------------------------------------------------------------------------
PollTypeOK ==
    /\ halted \in BOOLEAN /\ polling \in BOOLEAN
    /\ poll \in [Polls -> {"none", "called", "listing", "sending", "waiting", "leaving", "ended"}]
    /\ unsent \in [Polls -> SUBSET Monitored]
    /\ sampler \in [Polls -> [Workers -> {"idle", "busy", "hung", "gone"}]]

Inside == {p \in Polls : poll[p] \notin {"none", "called", "ended"}}

\* Polls never overlap, however slow the hosts are: no worker survives its poll, not even one that
\* hangs, the flag says whether there is one, and none leaves a host out unless the monitor was
\* halted.
OnePoll ==
    /\ Cardinality(Inside) <= 1
    /\ polling <=> Inside # {}
    /\ \A p \in Polls \ Inside, w \in Workers : sampler[p][w] = "gone"
    /\ \A p \in Inside : poll[p] \in {"waiting", "leaving"} /\ unsent[p] # {} => halted

\* A poll ends, when the monitor is halted in the middle too, and its flag does not stay behind,
\* unless a sample never ends; and one that hangs does not keep the other hosts from being sampled
\* until it has taken every worker.
PollEnds ==
    \A p \in Polls :
        /\ poll[p] = "called" ~> poll[p] = "ended" \/ \E w \in Workers : sampler[p][w] = "hung"
        /\ poll[p] = "sending" ~> \/ poll[p] # "sending"
                                 \/ \A w \in Workers : sampler[p][w] \in {"hung", "gone"}

=============================================================================
