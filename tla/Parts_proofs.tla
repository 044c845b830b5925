------------------------------ MODULE Parts_proofs ------------------------------
(***************************************************************************)
(* Proofs about the parts that MCCommands runs beside CommandRuns, for any *)
(* number of hosts, calls, polls, bytes and lines: the fan-out, the session*)
(* of an exec, the polls of the monitor, and an output as it is captured,  *)
(* read in pages of bytes and read in lines.  They share no variable; the  *)
(* three about outputs share lemmas on parts of sequences.                 *)
(***************************************************************************)
EXTENDS FanOut, ExecSession, MonitorPoll, OutputCapture, OutputPaging, OutputLines,
        FiniteSetTheorems, SequenceTheorems, WellFoundedInduction, TLAPS

-----------------------------------------------------------------------------
(* FanOut *)

FanTypeOK ==
    /\ spawned \in 0 .. Inputs
    /\ worker \in [Items -> {"none", "waiting", "working", "hung", "leaving", "released",
                         "done"}]
    /\ sem \in Int /\ wg \in Int
    /\ results \in [Items -> {Empty, "error", "result"}]

\* A goroutine that has done its work has written its place.
Reported == \A i \in Items : worker[i] \in {"leaving", "released", "done"} => results[i] # Empty

FanSafe == FanTypeOK /\ FanInv /\ Reported /\ EveryHostAnswered

Holding == {i \in Items : worker[i] \in {"working", "hung", "leaving"}}
Ended   == {i \in Items : worker[i] = "done"}

\* Goroutines that hold a slot, or have ended, can be counted.
LEMMA Counted ==
    ASSUME FanTypeOK
    PROVE  /\ IsFiniteSet(Items) /\ Cardinality(Items) = Inputs
           /\ IsFiniteSet(Holding) /\ IsFiniteSet(Ended)
           /\ Cardinality(Holding) \in Nat /\ Cardinality(Ended) \in Nat
           /\ Cardinality(Ended) = Inputs => Ended = Items
<1>1. IsFiniteSet(Items) /\ Cardinality(Items) = Inputs
  BY FanConstantsOK, FS_Interval DEF Items
<1>2. Holding \in SUBSET Items /\ Ended \in SUBSET Items
  BY DEF Holding, Ended
<1> QED BY <1>1, <1>2, FS_Subset, FS_CardinalityType

\* The loop starts one more.
LEMMA SpawnKeeps ==
    ASSUME FanSafe, Spawn
    PROVE  FanSafe'
<1>1. PICK k : k = spawned + 1
  OBVIOUS
<1>2. /\ k \in Items /\ worker[k] = "none" /\ worker' = [worker EXCEPT ![k] = "waiting"]
      /\ UNCHANGED <<sem, results, answer>> /\ spawned' = k /\ wg' = wg + 1
  BY <1>1, FanConstantsOK DEF FanSafe, FanTypeOK, FanInv, Spawn, Items
<1>3. FanTypeOK' /\ Reported' /\ EveryHostAnswered'
  BY <1>1, <1>2, FanConstantsOK DEF FanSafe, FanTypeOK, Reported, EveryHostAnswered, Items
<1>4. Holding' = Holding /\ Ended' = Ended
  BY <1>2 DEF Holding, Ended, FanSafe, FanTypeOK
<1>5. FanInv'
  <2>1. /\ sem = Cardinality(Holding) /\ sem <= Capacity /\ wg = spawned - Cardinality(Ended)
    BY DEF FanSafe, FanInv, Holding, Ended
  <2>2. /\ sem' = Cardinality(Holding') /\ sem' <= Capacity /\ wg' = spawned' - Cardinality(Ended')
    BY <1>1, <1>2, <1>4, <2>1, Counted DEF FanSafe, FanTypeOK
  <2>3. \A i \in Items : worker'[i] = "none" <=> i > spawned'
    BY <1>1, <1>2, FanConstantsOK DEF FanSafe, FanTypeOK, FanInv, Items
  <2> QED BY <2>2, <2>3 DEF FanInv, Holding, Ended
<1> QED BY <1>3, <1>5 DEF FanSafe

\* A goroutine goes on: the sets that are counted get or lose one member.
LEMMA WorkerKeeps ==
    ASSUME FanSafe, NEW i \in Items, Acquire(i) \/ Report(i) \/ Hang(i) \/ Release(i) \/ Done(i)
    PROVE  FanSafe'
<1>1. /\ FanTypeOK /\ UNCHANGED <<spawned, answer>> /\ worker[i] # "none"
      /\ EveryHostAnswered'
  BY DEF FanSafe, EveryHostAnswered, Acquire, Report, Hang, Release, Done
<1>2. FanTypeOK' /\ Reported'
  BY DEF FanSafe, FanTypeOK, Reported, Acquire, Report, Hang, Release, Done, Empty
<1>3. \A k \in Items : worker'[k] = "none" <=> worker[k] = "none"
  BY DEF FanSafe, FanTypeOK, Acquire, Report, Hang, Release, Done
<1>4. /\ sem = Cardinality(Holding) /\ sem <= Capacity /\ wg = spawned - Cardinality(Ended)
  BY DEF FanSafe, FanInv, Holding, Ended
<1>5. /\ sem' = Cardinality(Holding') /\ sem' <= Capacity /\ wg' = spawned' - Cardinality(Ended')
  <2>1. CASE Acquire(i)
    <3>1. Holding' = Holding \cup {i} /\ i \notin Holding /\ Ended' = Ended
      BY <1>1, <2>1 DEF Acquire, Holding, Ended, FanTypeOK
    <3>2. Cardinality(Holding') = Cardinality(Holding) + 1
      BY <1>1, <3>1, Counted, FS_AddElement
    <3> QED BY <1>1, <1>4, <2>1, <3>1, <3>2, FanConstantsOK DEF Acquire, FanTypeOK
  <2>2. CASE Report(i) \/ Hang(i)
    <3>1. Holding' = Holding /\ Ended' = Ended
      BY <1>1, <2>2 DEF Report, Hang, Holding, Ended, FanTypeOK
    <3> QED BY <1>1, <1>4, <2>2, <3>1 DEF Report, Hang
  <2>3. CASE Release(i)
    <3>1. Holding' = Holding \ {i} /\ i \in Holding /\ Ended' = Ended
      BY <1>1, <2>3 DEF Release, Holding, Ended, FanTypeOK
    <3>2. Cardinality(Holding') = Cardinality(Holding) - 1
      BY <1>1, <3>1, Counted, FS_RemoveElement
    <3> QED BY <1>1, <1>4, <2>3, <3>1, <3>2, FanConstantsOK, Counted DEF Release, FanTypeOK
  <2>4. CASE Done(i)
    <3>1. Ended' = Ended \cup {i} /\ i \notin Ended /\ Holding' = Holding
      BY <1>1, <2>4 DEF Done, Holding, Ended, FanTypeOK
    <3>2. Cardinality(Ended') = Cardinality(Ended) + 1
      BY <1>1, <3>1, Counted, FS_AddElement
    <3> QED BY <1>1, <1>4, <2>4, <3>1, <3>2, Counted DEF Done, FanTypeOK
  <2> QED BY <2>1, <2>2, <2>3, <2>4
<1>6. FanInv'
  BY <1>1, <1>3, <1>5 DEF FanSafe, FanInv, Holding, Ended
<1> QED BY <1>1, <1>2, <1>6 DEF FanSafe

\* When the wait group is at zero, and the loop at its end, every goroutine has ended.
LEMMA AnswerKeeps ==
    ASSUME FanSafe, Answer
    PROVE  FanSafe'
<1>1. /\ FanTypeOK /\ wg = spawned - Cardinality(Ended) /\ spawned = Inputs /\ wg = 0
      /\ answer' = results /\ UNCHANGED <<spawned, worker, sem, wg, results>>
  BY DEF FanSafe, FanInv, Answer, Ended
<1>2. Cardinality(Ended) = Inputs
  BY <1>1, Counted, FanConstantsOK
<1>3. \A i \in Items : worker[i] = "done"
  BY <1>1, <1>2, Counted DEF Ended
<1>4. EveryHostAnswered'
  BY <1>1, <1>3 DEF FanSafe, Reported, EveryHostAnswered
<1> QED BY <1>1, <1>4 DEF FanSafe, FanTypeOK, FanInv, Reported

\* exec_many works on as many hosts as it has slots at the most, its counters agree with its
\* goroutines, and they have all written their places when it answers.
THEOREM FanOutSafe == FanSpec => []FanSafe
<1>1. FanInit => FanSafe
  <2> SUFFICES ASSUME FanInit PROVE FanSafe
    OBVIOUS
  <2>1. FanTypeOK /\ Reported /\ EveryHostAnswered
    BY FanConstantsOK DEF FanInit, FanTypeOK, Reported, EveryHostAnswered, Items
  <2>2. Holding = {} /\ Ended = {} /\ \A i \in Items : worker[i] = "none" /\ i > spawned
    BY FanConstantsOK DEF FanInit, Holding, Ended, Items
  <2>3. FanInv
    <3>1. /\ sem = Cardinality(Holding) /\ sem <= Capacity /\ wg = spawned - Cardinality(Ended)
      BY <2>2, FS_EmptySet, FanConstantsOK DEF FanInit
    <3> QED BY <2>2, <3>1 DEF FanInv, Holding, Ended
  <2> QED BY <2>1, <2>3 DEF FanSafe
<1>2. FanSafe /\ [FanNext]_fanVars => FanSafe'
  <2>1. FanSafe /\ UNCHANGED fanVars => FanSafe'
    BY DEF fanVars, FanSafe, FanTypeOK, FanInv, Reported, EveryHostAnswered
  <2> QED BY <2>1, SpawnKeeps, WorkerKeeps, AnswerKeeps DEF FanNext, FanWork
<1> QED BY <1>1, <1>2, PTL DEF FanSpec

\* The answer of exec_many has a result or an error for every host, however its hosts fail.
THEOREM FanOutComplete == FanSpec => []EveryHostAnswered
<1>1. FanSafe => EveryHostAnswered
  BY DEF FanSafe
<1> QED BY <1>1, FanOutSafe, PTL

-----------------------------------------------------------------------------
(* ExecSession *)

SesTypeOK ==
    /\ session \in [cwd : Dirs, env : SUBSET Callers]
    /\ calls \in [Callers -> [at : {"idle", "read", "ran", "returned", "failed"},
                              state : [cwd : Dirs, env : SUBSET Callers]]]
    /\ mixed \subseteq Callers

\* A call that none has overlapped yet is the only one under way.
Lone == \A c \in UnderWay \ mixed : UnderWay = {c}

\* What a lone setter has set is in the row, and in every copy that may become the row.
Spread ==
    \A c \in (Setters \cap Returned) \ mixed :
        c \in session.env /\ \A d \in UnderWay : c \in calls[d].state.env

SesSafe == SesTypeOK /\ Lone /\ Spread

\* Calls of one session may overlap: what a setter was told stays set unless one overlapped it.
THEOREM EnvironmentKept == SesSpec => []EnvKeptAlone
<1>1. SesInit => SesSafe
  BY SessionConstantsOK
     DEF SesInit, SesSafe, SesTypeOK, Lone, Spread, NoSession, UnderWay, Returned, Callers
<1>2. SesSafe /\ [SesNext]_sesVars => SesSafe'
  <2> SUFFICES ASSUME SesSafe, [SesNext]_sesVars PROVE SesSafe'
    OBVIOUS
  <2>1. ASSUME NEW c \in Callers, GetSession(c) PROVE SesSafe'
    <3>1. /\ SesTypeOK' /\ UnderWay' = UnderWay \cup {c} /\ Returned' = Returned
          /\ session' = session /\ calls'[c].state = session
          /\ \A d \in Callers \ {c} : calls'[d] = calls[d]
          /\ mixed \subseteq mixed' /\ (UnderWay # {} => UnderWay' \subseteq mixed')
      BY <2>1 DEF GetSession, SesSafe, SesTypeOK, UnderWay, Returned
    <3>2. Lone' /\ Spread'
      BY <3>1 DEF SesSafe, Lone, Spread, UnderWay
    <3> QED BY <3>1, <3>2 DEF SesSafe
  <2>2. ASSUME NEW c \in Callers, RunExec(c) PROVE SesSafe'
    <3>1. /\ SesTypeOK' /\ UnderWay' \subseteq UnderWay /\ Returned' = Returned
          /\ session' = session /\ mixed' = mixed
          /\ \A d \in Callers : calls'[d].state.env = calls[d].state.env
      <4>1. CASE calls' = [calls EXCEPT ![c].at = "failed"]
        BY <2>2, <4>1 DEF RunExec, SesSafe, SesTypeOK, UnderWay, Returned
      <4>2. ASSUME NEW d \in Dirs, calls' = [calls EXCEPT ![c].at = "ran", ![c].state.cwd = d]
            PROVE  /\ calls' \in [Callers -> [at : {"idle", "read", "ran", "returned", "failed"},
                                             state : [cwd : Dirs, env : SUBSET Callers]]]
                   /\ calls'[c].at = "ran" /\ calls'[c].state.env = calls[c].state.env
                   /\ \A b \in Callers \ {c} : calls'[b] = calls[b]
        <5>1. calls[c].state \in [cwd : Dirs, env : SUBSET Callers]
          BY DEF SesSafe, SesTypeOK
        <5>2. PICK e : e = [calls[c].state EXCEPT !.cwd = d]
          OBVIOUS
        <5>3. e \in [cwd : Dirs, env : SUBSET Callers] /\ e.env = calls[c].state.env
          BY <5>1, <5>2
        <5>4. PICK m : m = [calls EXCEPT ![c].at = "ran"]
          OBVIOUS
        <5>5. /\ m \in [Callers -> [at : {"idle", "read", "ran", "returned", "failed"},
                                   state : [cwd : Dirs, env : SUBSET Callers]]]
              /\ m[c].at = "ran" /\ \A b \in Callers \ {c} : m[b] = calls[b]
          BY <5>4 DEF SesSafe, SesTypeOK
        <5>6. calls' = [m EXCEPT ![c].state = e]
          BY <4>2, <5>2, <5>4 DEF SesSafe, SesTypeOK
        <5> QED BY <5>3, <5>5, <5>6
      <4> QED BY <2>2, <4>1, <4>2 DEF RunExec, SesSafe, SesTypeOK, UnderWay, Returned
    <3>2. Lone' /\ Spread'
      BY <3>1 DEF SesSafe, Lone, Spread, UnderWay
    <3> QED BY <3>1, <3>2 DEF SesSafe
  <2>3. ASSUME NEW c \in Callers, SaveExec(c) PROVE SesSafe'
    <3>1. /\ SesTypeOK' /\ UnderWay' = UnderWay \ {c} /\ Returned' = Returned \cup {c}
          /\ c \in UnderWay /\ c \notin Setters
          /\ session' \in {calls[c].state, session} /\ mixed' = mixed
          /\ \A d \in Callers : calls'[d].state = calls[d].state
      BY <2>3, SessionConstantsOK DEF SaveExec, SesSafe, SesTypeOK, UnderWay, Returned
    <3>2. Lone' /\ Spread'
      BY <3>1 DEF SesSafe, Lone, Spread, UnderWay
    <3> QED BY <3>1, <3>2 DEF SesSafe
  <2>4. ASSUME NEW c \in Callers, SaveEnv(c) PROVE SesSafe'
    <3>1. /\ SesTypeOK' /\ UnderWay' = UnderWay \ {c} /\ c \in UnderWay /\ mixed' = mixed
          /\ \A d \in Callers : calls'[d].state = calls[d].state
      BY <2>4 DEF SaveEnv, SesSafe, SesTypeOK, UnderWay
    <3>2. \/ Returned' = Returned /\ session' = session
          \/ Returned' = Returned \cup {c} /\ session'.env = calls[c].state.env \cup {c}
      BY <2>4 DEF SaveEnv, SesSafe, SesTypeOK, Returned
    <3>3. Lone' /\ Spread'
      BY <3>1, <3>2 DEF SesSafe, Lone, Spread, UnderWay
    <3> QED BY <3>1, <3>3 DEF SesSafe
  <2>5. CASE UNCHANGED sesVars
    BY <2>5 DEF sesVars, SesSafe, SesTypeOK, Lone, Spread, UnderWay, Returned
  <2> QED BY <2>1, <2>2, <2>3, <2>4, <2>5 DEF SesNext
<1>3. SesSafe => EnvKeptAlone
  BY DEF SesSafe, Spread, EnvKeptAlone
<1> QED BY <1>1, <1>2, <1>3, PTL DEF SesSpec

-----------------------------------------------------------------------------
(* MonitorPoll *)

\* Two calls of Poll are never inside at once, and the flag is set while one is.
Alone ==
    /\ \A p, q \in Inside : p = q
    /\ polling <=> Inside # {}

\* Workers exist from the listing until the poll has waited for them; what has not been listed
\* cannot be left over, and what has been, only if the monitor is halted.
Staffed ==
    \A p \in Polls :
        /\ poll[p] \notin {"sending", "waiting"} => \A w \in Workers : sampler[p][w] = "gone"
        /\ poll[p] \in {"none", "called", "listing"} => unsent[p] = {}
        /\ poll[p] \in {"waiting", "leaving"} /\ unsent[p] # {} => halted

PollSafe == PollTypeOK /\ Alone /\ Staffed

\* One poll enters, proceeds or leaves.
LEMMA PollStepKeeps ==
    ASSUME PollSafe, NEW p \in Polls, Tick(p) \/ PollStep(p)
    PROVE  PollSafe'
<1> USE DEF PollSafe, PollTypeOK, At
<1>1. PollTypeOK' /\ halted' = halted
  <2>1. CASE Tick(p) \/ Enter(p) \/ CloseJobs(p) \/ WaitWorkers(p) \/ Leave(p)
    BY <2>1 DEF Tick, Enter, CloseJobs, WaitWorkers, Leave
  <2>2. CASE List(p)
    <3>1. /\ poll' \in [Polls -> {"none", "called", "listing", "sending", "waiting", "leaving",
                                 "ended"}]
          /\ UNCHANGED <<halted, polling>>
      BY <2>2 DEF List
    <3>2. CASE UNCHANGED <<unsent, sampler>>
      BY <3>1, <3>2
    <3>3. ASSUME NEW hosts \in SUBSET Monitored, NEW team \in Team(hosts),
                 unsent' = [unsent EXCEPT ![p] = hosts],
                 sampler' = [sampler EXCEPT ![p] =
                               [w \in Workers |-> IF w \in team THEN "idle" ELSE "gone"]]
          PROVE  PollTypeOK'
      <4>1. [w \in Workers |-> IF w \in team THEN "idle" ELSE "gone"]
                \in [Workers -> {"idle", "busy", "hung", "gone"}]
        OBVIOUS
      <4> QED BY <3>1, <3>3, <4>1
    <3> QED BY <2>2, <3>1, <3>2, <3>3 DEF List
  <2>3. CASE Send(p)
    BY <2>3 DEF Send
  <2>4. CASE EndSample(p) \/ HangSample(p) \/ EndWorker(p)
    <3>1. PICK w \in Workers, to \in {"idle", "hung", "gone"} :
              sampler' = [sampler EXCEPT ![p][w] = to] /\ UNCHANGED <<halted, polling, unsent, poll>>
      BY <2>4 DEF EndSample, HangSample, EndWorker
    <3> QED BY <3>1
  <2> QED BY <2>1, <2>2, <2>3, <2>4 DEF PollStep
<1>2. /\ \A q \in Polls \ {p} : poll'[q] = poll[q] /\ unsent'[q] = unsent[q] /\ sampler'[q] = sampler[q]
  BY DEF Tick, PollStep, Enter, List, Send, CloseJobs, EndSample, HangSample,
         EndWorker, WaitWorkers, Leave
<1>3. Alone'
  <2>1. CASE Enter(p) /\ poll'[p] = "listing"
    <3>1. Inside = {} /\ Inside' = {p} /\ polling'
      BY <1>2, <2>1 DEF Enter, Alone, Inside
    <3> QED BY <3>1 DEF Alone
  <2>2. CASE Leave(p)
    <3>1. p \in Inside /\ Inside' = Inside \ {p} /\ ~polling'
      BY <1>2, <2>2 DEF Leave, Inside
    <3> QED BY <3>1 DEF Alone
  <2>3. CASE ~Leave(p) /\ ~(Enter(p) /\ poll'[p] = "listing")
    <3>1. Inside' = Inside /\ polling' = polling
      BY <1>2, <2>3 DEF Tick, PollStep, Enter, List, Send, CloseJobs, EndSample, HangSample,
                        EndWorker, WaitWorkers, Inside
    <3> QED BY <3>1 DEF Alone
  <2> QED BY <2>1, <2>2, <2>3
<1>4. Staffed'
  <2> SUFFICES
        /\ poll'[p] \notin {"sending", "waiting"} => \A w \in Workers : sampler'[p][w] = "gone"
        /\ poll'[p] \in {"none", "called", "listing"} => unsent'[p] = {}
        /\ poll'[p] \in {"waiting", "leaving"} /\ unsent'[p] # {} => halted'
    BY <1>1, <1>2 DEF Staffed
  <2>1. CASE Tick(p) \/ Enter(p) \/ CloseJobs(p) \/ WaitWorkers(p) \/ Leave(p)
    BY <2>1 DEF Staffed, Tick, Enter, CloseJobs, WaitWorkers, Leave
  <2>2. CASE List(p)
    BY <2>2 DEF Staffed, List, Team
  <2>3. CASE Send(p)
    BY <2>3 DEF Staffed, Send
  <2>4. CASE EndSample(p) \/ HangSample(p) \/ EndWorker(p)
    BY <2>4 DEF Staffed, EndSample, HangSample, EndWorker
  <2> QED BY <2>1, <2>2, <2>3, <2>4 DEF PollStep
<1> QED BY <1>1, <1>3, <1>4

\* Polls never overlap, no worker survives its poll and no host is left out, however many calls
\* of Poll there are and whenever the monitor is halted.
THEOREM PollsAlone == PollSpec => []OnePoll
<1>1. PollInit => PollSafe
  <2> SUFFICES ASSUME PollInit PROVE PollSafe
    OBVIOUS
  <2>1. PollTypeOK /\ Staffed
    BY DEF PollInit, PollTypeOK, Staffed
  <2>2. Inside = {} /\ ~polling
    BY DEF PollInit, Inside
  <2> QED BY <2>1, <2>2 DEF PollSafe, Alone
<1>2. PollSafe /\ [PollNext]_pollVars => PollSafe'
  <2> SUFFICES ASSUME PollSafe, [PollNext]_pollVars PROVE PollSafe'
    OBVIOUS
  <2>1. CASE Stop
    BY <2>1 DEF Stop, PollSafe, PollTypeOK, Alone, Staffed, Inside
  <2>2. CASE UNCHANGED pollVars
    BY <2>2 DEF pollVars, PollSafe, PollTypeOK, Alone, Staffed, Inside
  <2> QED BY <2>1, <2>2, PollStepKeeps DEF PollNext
<1>3. PollSafe => OnePoll
  <2> SUFFICES ASSUME PollSafe PROVE OnePoll
    OBVIOUS
  <2>1. Cardinality(Inside) <= 1
    <3>1. CASE Inside = {}
      BY <3>1, FS_EmptySet
    <3>2. CASE Inside # {}
      <4>1. PICK p : Inside = {p}
        BY <3>2 DEF PollSafe, Alone
      <4>2. Cardinality(Inside) = 1
        BY <4>1, FS_Singleton
      <4> QED BY <4>2
    <3> QED BY <3>1, <3>2
  <2> QED BY <2>1 DEF PollSafe, Alone, Staffed, Inside, OnePoll
<1> QED BY <1>1, <1>2, <1>3, PTL DEF PollSpec

-----------------------------------------------------------------------------
(* Numbers, and parts of sequences *)

\* A set of naturals that is not empty has a least member.
LEMMA LeastNat ==
    ASSUME NEW T \in SUBSET Nat, T # {}
    PROVE  \E n \in T : \A m \in T : n <= m
<1>1. PICK n \in T : \A m \in T : <<m, n>> \notin OpToRel(<, Nat)
  BY WFMin, NatLessThanWellFounded
<1>2. ASSUME NEW m \in T PROVE n <= m
  <2>1. ~(m < n)
    BY <1>1 DEF OpToRel
  <2> QED BY <2>1
<1> QED BY <1>2

LEMMA LesserOne ==
    ASSUME NEW a \in Int, NEW b \in Int
    PROVE  Min({a, b}) = IF a <= b THEN a ELSE b
<1>1. PICK c \in {a, b} : c = IF a <= b THEN a ELSE b
  OBVIOUS
<1>2. \A x \in {a, b} : (\A y \in {a, b} : x <= y) <=> x = c
  BY <1>1
<1> QED BY <1>1, <1>2 DEF Min

(* What lies after the a-th element of a sequence, up to the b-th *)

Within(s, a, b) == SubSeq(s, a + 1, b)

LEMMA WithinIs ==
    ASSUME NEW S, NEW s \in Seq(S), NEW b \in 0 .. Len(s), NEW a \in 0 .. b
    PROVE  /\ Within(s, a, b) \in Seq(S) /\ Len(Within(s, a, b)) = b - a
           /\ \A i \in 1 .. b - a : Within(s, a, b)[i] = s[a + i]
<1>1. Len(s) \in Nat /\ a \in Nat /\ b \in Nat /\ a <= b /\ b <= Len(s)
  OBVIOUS
<1>2. a + 1 \in Int /\ b \in Int /\ \A i \in a + 1 .. b : s[i] \in S
  BY <1>1
<1>3. PICK w : w = SubSeq(s, a + 1, b)
  OBVIOUS
<1>4. /\ w \in Seq(S) /\ Len(w) = IF a + 1 <= b THEN b - (a + 1) + 1 ELSE 0
      /\ \A i \in 1 .. b - (a + 1) + 1 : w[i] = s[(a + 1) + i - 1]
  BY ONLY <1>2, <1>3, SubSeqProperties
<1>5. Len(w) = b - a
  BY <1>1, <1>4
<1>6. \A i \in 1 .. b - a : w[i] = s[a + i]
  <2>1. b - (a + 1) + 1 = b - a /\ \A i \in 1 .. b - a : (a + 1) + i - 1 = a + i
    BY <1>1
  <2> QED BY <1>4, <2>1
<1> QED BY <1>3, <1>4, <1>5, <1>6 DEF Within

LEMMA SameSeq ==
    ASSUME NEW S, NEW s \in Seq(S), NEW t \in Seq(S), Len(s) = Len(t),
           \A i \in 1 .. Len(t) : s[i] = t[i]
    PROVE  s = t
OBVIOUS

LEMMA WithinJoin ==
    ASSUME NEW S, NEW s \in Seq(S), NEW c \in 0 .. Len(s), NEW b \in 0 .. c, NEW a \in 0 .. b
    PROVE  Within(s, a, b) \o Within(s, b, c) = Within(s, a, c)
<1>1. PICK u, v, w : u = Within(s, a, b) /\ v = Within(s, b, c) /\ w = Within(s, a, c)
  OBVIOUS
<1>2. Len(s) \in Nat /\ a \in Nat /\ b \in Nat /\ c \in Nat /\ a <= b /\ b <= c /\ c <= Len(s)
  OBVIOUS
<1>3. b \in 0 .. Len(s) /\ a \in 0 .. c
  BY <1>2
<1>4. u \in Seq(S) /\ Len(u) = b - a /\ \A i \in 1 .. b - a : u[i] = s[a + i]
  BY <1>1, <1>3, WithinIs
<1>5. v \in Seq(S) /\ Len(v) = c - b /\ \A i \in 1 .. c - b : v[i] = s[b + i]
  BY <1>1, WithinIs
<1>6. w \in Seq(S) /\ Len(w) = c - a /\ \A i \in 1 .. c - a : w[i] = s[a + i]
  BY <1>1, <1>3, WithinIs
<1>7. u \o v \in Seq(S) /\ Len(u \o v) = Len(w)
  <2>1. u \o v \in Seq(S) /\ Len(u \o v) = Len(u) + Len(v)
    BY <1>2, <1>4, <1>5, ConcatProperties
  <2>2. (b - a) + (c - b) = c - a
    BY <1>2
  <2> QED BY <1>4, <1>5, <1>6, <2>1, <2>2
<1>8. ASSUME NEW i \in 1 .. Len(w) PROVE (u \o v)[i] = w[i]
  <2>1. CASE i <= b - a
    <3>1. i \in 1 .. Len(u) /\ i \in 1 .. b - a /\ i \in 1 .. c - a
      BY <1>2, <1>4, <1>6, <2>1
    <3> QED BY <1>4, <1>5, <1>6, <3>1
  <2>2. CASE i > b - a
    <3>1. i - Len(u) \in 1 .. c - b /\ i \in 1 .. c - a /\ b + (i - Len(u)) = a + i
      BY <1>2, <1>4, <1>6, <2>2
    <3>2. (u \o v)[i] = v[i - Len(u)]
      <4>1. i \in Len(u) + 1 .. Len(u) + Len(v)
        BY ONLY <1>2, <1>4, <1>5, <1>6, <2>2, i \in 1 .. Len(w)
      <4> QED BY ONLY <1>4, <1>5, <4>1, ConcatProperties
    <3> QED BY <1>5, <1>6, <3>1, <3>2
  <2>3. i <= b - a \/ i > b - a
    BY <1>2
  <2> QED BY <2>1, <2>2, <2>3
<1>9. u \o v = w
  BY <1>6, <1>7, <1>8, SameSeq
<1> QED BY <1>1, <1>9

LEMMA WithinWithin ==
    ASSUME NEW S, NEW s \in Seq(S), NEW b \in 0 .. Len(s), NEW a \in 0 .. b,
           NEW d \in 0 .. b - a, NEW c \in 0 .. d
    PROVE  Within(Within(s, a, b), c, d) = Within(s, a + c, a + d)
<1>1. PICK u, v, w : u = Within(s, a, b) /\ v = Within(u, c, d) /\ w = Within(s, a + c, a + d)
  OBVIOUS
<1>2. /\ Len(s) \in Nat /\ a \in Nat /\ b \in Nat /\ c \in Nat /\ d \in Nat
      /\ a <= b /\ b <= Len(s) /\ c <= d /\ d <= b - a
  OBVIOUS
<1>3. u \in Seq(S) /\ Len(u) = b - a /\ \A i \in 1 .. b - a : u[i] = s[a + i]
  BY <1>1, WithinIs
<1>4. v \in Seq(S) /\ Len(v) = d - c /\ \A i \in 1 .. d - c : v[i] = u[c + i]
  <2>1. d \in 0 .. Len(u)
    BY <1>3
  <2> QED BY ONLY <1>1, <1>3, <2>1, c \in 0 .. d, WithinIs
<1>5. w \in Seq(S) /\ Len(w) = d - c /\ \A i \in 1 .. d - c : w[i] = s[(a + c) + i]
  <2>1. PICK x, y : x = a + c /\ y = a + d
    OBVIOUS
  <2>2. y \in 0 .. Len(s) /\ x \in 0 .. y /\ y - x = d - c
    BY <1>2, <2>1
  <2>3. w \in Seq(S) /\ Len(w) = y - x /\ \A i \in 1 .. y - x : w[i] = s[x + i]
    BY <1>1, <2>1, <2>2, WithinIs
  <2> QED BY <2>1, <2>2, <2>3
<1>6. ASSUME NEW i \in 1 .. Len(w) PROVE v[i] = w[i]
  <2>1. i \in 1 .. d - c /\ c + i \in 1 .. b - a /\ a + (c + i) = (a + c) + i
    BY <1>2, <1>5
  <2> QED BY <1>3, <1>4, <1>5, <2>1
<1>7. v = w
  BY <1>4, <1>5, <1>6, SameSeq
<1> QED BY <1>1, <1>7

\* Of a sequence followed by another, what lies in the first and what lies in the second.
LEMMA WithinConcat ==
    ASSUME NEW S, NEW s \in Seq(S), NEW t \in Seq(S)
    PROVE  /\ s \o t \in Seq(S) /\ Len(s \o t) = Len(s) + Len(t)
           /\ \A b \in 0 .. Len(s) : \A a \in 0 .. b : Within(s \o t, a, b) = Within(s, a, b)
           /\ \A b \in 0 .. Len(t) : \A a \in 0 .. b :
                 Within(s \o t, Len(s) + a, Len(s) + b) = Within(t, a, b)
<1>1. PICK n, m, r : n = Len(s) /\ m = Len(t) /\ r = s \o t
  OBVIOUS
<1>2. /\ n \in Nat /\ m \in Nat /\ r \in Seq(S) /\ Len(r) = n + m
      /\ \A i \in 1 .. n : r[i] = s[i]
      /\ \A i \in 1 .. m : r[n + i] = t[i]
  BY <1>1
<1>3. ASSUME NEW b \in 0 .. n, NEW a \in 0 .. b PROVE Within(r, a, b) = Within(s, a, b)
  <2>1. PICK u, v : u = Within(r, a, b) /\ v = Within(s, a, b)
    OBVIOUS
  <2>2. b \in 0 .. Len(r) /\ b \in 0 .. Len(s)
    BY <1>1, <1>2
  <2>3. u \in Seq(S) /\ Len(u) = b - a /\ \A i \in 1 .. b - a : u[i] = r[a + i]
    BY <1>2, <2>1, <2>2, WithinIs
  <2>4. v \in Seq(S) /\ Len(v) = b - a /\ \A i \in 1 .. b - a : v[i] = s[a + i]
    BY <2>1, <2>2, WithinIs
  <2>5. \A i \in 1 .. b - a : a + i \in 1 .. n
    BY <1>2
  <2>6. u = v
    BY <1>2, <2>3, <2>4, <2>5, SameSeq
  <2> QED BY <2>1, <2>6
<1>4. ASSUME NEW b \in 0 .. m, NEW a \in 0 .. b PROVE Within(r, n + a, n + b) = Within(t, a, b)
  <2>1. PICK u, v, x, y : u = Within(r, x, y) /\ v = Within(t, a, b) /\ x = n + a /\ y = n + b
    OBVIOUS
  <2>2. y \in 0 .. Len(r) /\ x \in 0 .. y /\ b \in 0 .. Len(t) /\ y - x = b - a
    BY <1>1, <1>2, <2>1
  <2>3. u \in Seq(S) /\ Len(u) = y - x /\ \A i \in 1 .. y - x : u[i] = r[x + i]
    <3>1. r \in Seq(S) /\ u = Within(r, x, y)
      BY <1>2, <2>1
    <3> QED BY ONLY <2>2, <3>1, WithinIs
  <2>4. v \in Seq(S) /\ Len(v) = b - a /\ \A i \in 1 .. b - a : v[i] = t[a + i]
    BY <2>1, <2>2, WithinIs
  <2>5. \A i \in 1 .. b - a : a + i \in 1 .. m /\ x + i = n + (a + i)
    BY <1>2, <2>1
  <2>6. \A i \in 1 .. b - a : u[i] = v[i]
    BY <1>2, <2>2, <2>3, <2>4, <2>5
  <2>7. u = v
    BY <2>2, <2>3, <2>4, <2>6, SameSeq
  <2> QED BY <2>1, <2>7
<1> QED BY <1>1, <1>2, <1>3, <1>4

LEMMA WholeWithin ==
    ASSUME NEW S, NEW s \in Seq(S)
    PROVE  Within(s, 0, Len(s)) = s /\ Within(s, 0, 0) = <<>>
BY DEF Within

-----------------------------------------------------------------------------
(* OutputCapture *)

(* What is kept: the beginning of the stream, and the end of the rest *)

CapTypeOK ==
    /\ stream \in Seq(Bytes)
    /\ stopped \in BOOLEAN
    /\ ending \in {"none", "waited", "brokenOff"} /\ flush \in {"no", "published", "over"}

TailLimit == CaptureLimit - HeadLimit

\* The first hl of n bytes, and of the others the last tl.
InHead(n, hl) == IF n < hl THEN n ELSE hl
InTail(n, hl, tl) == IF n - InHead(n, hl) < tl THEN n - InHead(n, hl) ELSE tl

Kept(s, h, t, hl, tl) ==
    /\ h = Within(s, 0, InHead(Len(s), hl))
    /\ t = Within(s, Len(s) - InTail(Len(s), hl, tl), Len(s))

LEMMA LimitsAre == HeadLimit \in Nat /\ TailLimit \in Nat /\ HeadLimit + TailLimit = CaptureLimit
BY CaptureConstantsOK DEF HeadLimit, TailLimit

\* What head and tail, of a and k bytes, take of m more: the head room of them, and the tail has
\* q bytes then.
Taking(n, m, hl, tl, a, k, room, q) ==
    /\ a = InHead(n, hl) /\ k = InTail(n, hl, tl)
    /\ room = (IF hl - a <= m THEN hl - a ELSE m)
    /\ q = (IF k + (m - room) <= tl THEN k + (m - room) ELSE tl)

Taken(n, m, hl, tl, a, k, room, q) ==
    /\ a \in Nat /\ a <= n /\ k \in Nat /\ k <= n - a
    /\ room \in Nat /\ room <= m /\ (room # 0 => a = n /\ k = 0)
    /\ InHead(n + m, hl) = a + room
    /\ q \in Nat /\ q <= k + (m - room) /\ InTail(n + m, hl, tl) = q

LEMMA KeptCounts ==
    ASSUME NEW n \in Nat, NEW m \in Nat, NEW hl \in Nat, NEW tl \in Nat,
           NEW a, NEW k, NEW room, NEW q, Taking(n, m, hl, tl, a, k, room, q)
    PROVE  Taken(n, m, hl, tl, a, k, room, q)
<1> USE DEF Taking
<1>1. a \in Nat /\ a <= n /\ a <= hl /\ (a = n \/ a = hl) /\ (n > hl => a = hl)
  BY DEF InHead
<1>2. k \in Nat /\ k <= n - a /\ k <= tl /\ (k = n - a \/ k = tl)
  BY <1>1 DEF InTail
<1>3. room \in Nat /\ room <= m /\ (room = hl - a \/ room = m) /\ room <= hl - a
  BY ONLY <1>1, n \in Nat, m \in Nat, hl \in Nat, Taking(n, m, hl, tl, a, k, room, q) DEF Taking
<1>4. room # 0 => a = n /\ k = 0
  BY <1>1, <1>2, <1>3
<1>5. InHead(n + m, hl) = a + room
  BY ONLY <1>1, <1>3, n \in Nat, m \in Nat, hl \in Nat DEF InHead
<1>6. q \in Nat /\ q <= k + (m - room) /\ q <= tl /\ (q = k + (m - room) \/ q = tl)
  BY ONLY <1>2, <1>3, n \in Nat, m \in Nat, tl \in Nat, Taking(n, m, hl, tl, a, k, room, q) DEF Taking
<1>7. InTail(n + m, hl, tl) = q
  <2>1. (n + m) - (a + room) = (n - a) + (m - room) /\ m - room \in Nat
    BY ONLY <1>1, <1>3, n \in Nat, m \in Nat
  <2> QED BY ONLY <1>1, <1>2, <1>3, <1>5, <1>6, <2>1, n \in Nat, m \in Nat, tl \in Nat DEF InTail
<1> QED BY ONLY <1>1, <1>2, <1>3, <1>4, <1>5, <1>6, <1>7 DEF Taken

LEMMA KeepKeeps ==
    ASSUME NEW S, NEW s \in Seq(S), NEW p \in Seq(S), NEW hl \in Nat, NEW tl \in Nat,
           NEW h, NEW t, Kept(s, h, t, hl, tl),
           NEW room, room = Min({hl - Len(h), Len(p)}),
           NEW rest, rest = t \o End(p, Len(p) - room),
           NEW g, g = h \o Begin(p, room),
           NEW u, u = End(rest, Min({Len(rest), tl}))
    PROVE  Kept(s \o p, g, u, hl, tl)
<1>1. PICK n, m, r, a, k : /\ n = Len(s) /\ m = Len(p) /\ r = s \o p
                           /\ a = InHead(n, hl) /\ k = InTail(n, hl, tl)
  OBVIOUS
<1>2. n \in Nat /\ m \in Nat /\ r \in Seq(S) /\ Len(r) = n + m
  BY <1>1
<1>3. a \in 0 .. n /\ a \in Int
  BY ONLY <1>1, <1>2, hl \in Nat DEF InHead
<1>4. h = Within(s, 0, a) /\ t = Within(s, n - k, n) /\ Len(h) = a
  <2>1. h = Within(s, 0, a) /\ t = Within(s, n - k, n)
    BY <1>1 DEF Kept
  <2>2. a \in 0 .. Len(s) /\ 0 \in 0 .. a /\ a - 0 = a
    BY ONLY <1>1, <1>2, <1>3
  <2>3. Len(Within(s, 0, a)) = a - 0
    BY ONLY <2>2, s \in Seq(S), WithinIs
  <2> QED BY <2>1, <2>2, <2>3
<1>5. PICK x : x = room /\ x = IF hl - a <= m THEN hl - a ELSE m
  <2>1. PICK y : y = hl - a /\ y \in Int /\ m \in Int
    BY ONLY <1>2, <1>3, hl \in Nat
  <2>2. room = Min({y, m})
    BY <1>1, <1>4, <2>1
  <2> QED BY ONLY <2>1, <2>2, LesserOne
<1>6. PICK q : q = IF k + (m - x) <= tl THEN k + (m - x) ELSE tl
  OBVIOUS
<1>7. /\ a \in Nat /\ a <= n /\ k \in Nat /\ k <= n - a
      /\ x \in Nat /\ x <= m /\ (x # 0 => a = n /\ k = 0)
      /\ InHead(n + m, hl) = a + x
      /\ q \in Nat /\ q <= k + (m - x) /\ InTail(n + m, hl, tl) = q
  <2>1. Taking(n, m, hl, tl, a, k, x, q)
    BY <1>1, <1>5, <1>6 DEF Taking
  <2>2. Taken(n, m, hl, tl, a, k, x, q)
    BY ONLY <1>2, <2>1, hl \in Nat, tl \in Nat, KeptCounts
  <2> QED BY <2>2 DEF Taken
<1>8. /\ \A d \in 0 .. n : \A c \in 0 .. d : Within(r, c, d) = Within(s, c, d)
      /\ \A d \in 0 .. m : \A c \in 0 .. d : Within(r, n + c, n + d) = Within(p, c, d)
  BY <1>1, WithinConcat
<1> USE <1>2, <1>7
<1>9. g = Within(r, 0, a + x)
  <2>1. g = Within(r, 0, a) \o Within(p, 0, x)
    <3>1. Begin(p, x) = Within(p, 0, x)
      BY ONLY TRUE DEF Begin, Within
    <3>2. Within(s, 0, a) = Within(r, 0, a)
      BY ONLY <1>2, <1>7, <1>8
    <3> QED BY <1>4, <1>5, <3>1, <3>2
  <2>2. CASE x = 0
    <3>1. a \in 0 .. Len(r) /\ 0 \in 0 .. a /\ a + x = a
      BY ONLY <1>2, <1>7, <2>2
    <3>2. Within(r, 0, a) \in Seq(S)
      BY ONLY <1>2, <3>1, WithinIs
    <3>3. Within(p, 0, x) = <<>>
      BY <2>2, WholeWithin
    <3>4. Within(r, 0, a) \o <<>> = Within(r, 0, a)
      BY ONLY <3>2
    <3> QED BY <2>1, <3>1, <3>3, <3>4
  <2>3. CASE x # 0
    <3>1. x \in 0 .. m /\ 0 \in 0 .. x /\ n + 0 = n /\ a = n
      BY ONLY <1>2, <1>7, <2>3
    <3>2. Within(p, 0, x) = Within(r, n, n + x)
      BY ONLY <1>8, <3>1
    <3>3. n + x \in 0 .. Len(r) /\ n \in 0 .. n + x /\ 0 \in 0 .. n
      BY ONLY <1>2, <1>7
    <3>4. Within(r, 0, n) \o Within(r, n, n + x) = Within(r, 0, n + x)
      BY ONLY <1>2, <3>3, WithinJoin
    <3> QED BY ONLY <2>1, <3>1, <3>2, <3>4
  <2> QED BY ONLY <2>2, <2>3
<1>10. PICK b : /\ b = n - k + x /\ b \in 0 .. n + m /\ n + m - b = k + (m - x)
  BY ONLY <1>2, <1>7
<1>11. rest = Within(r, b, n + m)
  <2>1. rest = Within(r, n - k, n) \o Within(r, n + x, n + m)
    <3>1. m - (m - x) = x
      BY ONLY <1>2, <1>7
    <3>2. End(p, m - x) = Within(p, x, m)
      BY ONLY <1>1, <3>1 DEF End, Within
    <3>3. m \in 0 .. m /\ x \in 0 .. m /\ n \in 0 .. n /\ n - k \in 0 .. n
      BY ONLY <1>2, <1>7
    <3>4. Within(p, x, m) = Within(r, n + x, n + m) /\ Within(s, n - k, n) = Within(r, n - k, n)
      BY ONLY <1>8, <3>3
    <3> QED BY <1>1, <1>4, <1>5, <3>2, <3>4
  <2>2. CASE k = 0
    <3>1. Within(r, n - k, n) = <<>>
      <4>1. n - k = n /\ n \in 0 .. Len(r) /\ n \in 0 .. n /\ n - n = 0
        BY ONLY <1>2, <2>2
      <4>2. Within(r, n, n) \in Seq(S) /\ Len(Within(r, n, n)) = n - n
        BY ONLY <1>2, <4>1, WithinIs
      <4> QED BY ONLY <4>1, <4>2, EmptySeq
    <3>2. n + m \in 0 .. Len(r) /\ n + x \in 0 .. n + m /\ b = n + x
      BY ONLY <1>2, <1>7, <1>10, <2>2
    <3>3. Within(r, n + x, n + m) \in Seq(S)
      BY ONLY <1>2, <3>2, WithinIs
    <3>4. <<>> \o Within(r, n + x, n + m) = Within(r, n + x, n + m)
      BY ONLY <3>3
    <3> QED BY ONLY <2>1, <3>1, <3>2, <3>4
  <2>3. CASE k # 0
    <3>1. n + x = n /\ b = n - k
      BY ONLY <1>2, <1>7, <1>10, <2>3
    <3>2. n + m \in 0 .. Len(r) /\ n \in 0 .. n + m /\ n - k \in 0 .. n
      BY ONLY <1>2, <1>7
    <3>3. Within(r, n - k, n) \o Within(r, n, n + m) = Within(r, n - k, n + m)
      BY ONLY <1>2, <3>2, WithinJoin
    <3> QED BY ONLY <2>1, <3>1, <3>3
  <2> QED BY ONLY <2>2, <2>3
<1>12. PICK l \in Nat : l = n + m - b /\ l = k + (m - x) /\ Len(rest) = l
  <2>1. n + m \in 0 .. Len(r) /\ b \in 0 .. n + m
    BY ONLY <1>2, <1>10
  <2>2. Len(Within(r, b, n + m)) = n + m - b
    BY ONLY <1>2, <2>1, WithinIs
  <2>3. n + m - b \in Nat
    BY ONLY <1>2, <1>10
  <2> QED BY ONLY <1>10, <1>11, <2>2, <2>3
<1>13. Min({Len(rest), tl}) = q
  <2>1. Min({l, tl}) = IF l <= tl THEN l ELSE tl
    BY ONLY l \in Nat, tl \in Nat, l \in Int, tl \in Int, LesserOne
  <2> QED BY <1>6, <1>12, <2>1
<1>14. u = Within(r, n + m - q, n + m)
  <2>1. u = Within(rest, l - q, l)
    BY <1>12, <1>13 DEF End, Within
  <2>2. /\ n + m \in 0 .. Len(r) /\ b \in 0 .. n + m
        /\ l \in 0 .. n + m - b /\ l - q \in 0 .. l
        /\ b + (l - q) = n + m - q /\ b + l = n + m
    BY ONLY <1>2, <1>7, <1>10, <1>12
  <2>3. Within(Within(r, b, n + m), l - q, l) = Within(r, b + (l - q), b + l)
    <3>1. PICK y, c : y = n + m /\ c = l - q
      OBVIOUS
    <3>2. y \in 0 .. Len(r) /\ b \in 0 .. y /\ l \in 0 .. y - b /\ c \in 0 .. l
      BY ONLY <2>2, <3>1
    <3>3. Within(Within(r, b, y), c, l) = Within(r, b + c, b + l)
      BY ONLY <1>2, <3>2, WithinWithin
    <3> QED BY ONLY <3>1, <3>3
  <2> QED BY ONLY <1>11, <2>1, <2>2, <2>3
<1> QED BY ONLY <1>1, <1>2, <1>7, <1>9, <1>14 DEF Kept

LEMMA KeptIsEnds ==
    ASSUME CapTypeOK, Kept(stream, head, tail, HeadLimit, TailLimit)
    PROVE  CapturedIsEnds
<1>1. PICK s, n, hl, tl : s = stream /\ n = Len(stream) /\ hl = HeadLimit /\ tl = TailLimit
  OBVIOUS
<1>2. s \in Seq(Bytes) /\ n \in Nat /\ n = Len(s) /\ hl \in Nat /\ tl \in Nat /\ hl + tl = CaptureLimit
  BY <1>1, LimitsAre DEF CapTypeOK
<1>3. PICK a \in 0 .. n : a = InHead(n, hl) /\ a = IF n < hl THEN n ELSE hl
  BY <1>2 DEF InHead
<1>4. PICK k \in 0 .. n - a : k = InTail(n, hl, tl) /\ k = IF n - a < tl THEN n - a ELSE tl
  <2>1. InTail(n, hl, tl) = IF n - a < tl THEN n - a ELSE tl
    BY ONLY <1>3 DEF InTail
  <2>2. CASE n - a < tl
    BY ONLY <1>2, <1>3, <2>1, <2>2
  <2>3. CASE ~(n - a < tl)
    BY ONLY <1>2, <1>3, <2>1, <2>3
  <2> QED BY <2>2, <2>3
<1>5. head = Within(s, 0, a) /\ tail = Within(s, n - k, n)
  BY <1>1, <1>3, <1>4 DEF Kept
<1>6. CASE n <= CaptureLimit
  <2>1. n - k = a
    <3>1. n - a <= tl
      BY ONLY <1>2, <1>3, <1>6
    <3>2. k = n - a
      <4>1. CASE n - a < tl
        BY <1>4, <4>1
      <4>2. CASE ~(n - a < tl)
        BY ONLY <1>2, <1>3, <1>4, <3>1, <4>2
      <4> QED BY <4>1, <4>2
    <3> QED BY ONLY <1>2, <1>3, <3>2
  <2>2. n \in 0 .. Len(s) /\ a \in 0 .. n /\ 0 \in 0 .. a
    BY <1>2, <1>3
  <2>3. Within(s, 0, a) \o Within(s, a, n) = Within(s, 0, n)
    BY <1>2, <2>2, WithinJoin
  <2>4. Within(s, 0, n) = s
    BY <1>2, WholeWithin
  <2> QED BY <1>1, <1>5, <1>6, <2>1, <2>3, <2>4 DEF CapturedIsEnds
<1>7. CASE ~(n <= CaptureLimit)
  <2>1. a = hl /\ k = tl /\ CaptureLimit - hl = tl
    BY <1>2, <1>3, <1>4, <1>7
  <2>2. Within(s, 0, a) = Begin(s, hl) /\ Within(s, n - k, n) = End(s, tl)
    BY <1>2, <2>1 DEF Within, Begin, End
  <2> QED BY <1>1, <1>5, <1>7, <2>1, <2>2 DEF CapturedIsEnds
<1> QED BY <1>6, <1>7

(* What is published *)

LEMMA MarkerIs == Marker \in Seq(Bytes) /\ Len(Marker) \in Nat /\ Len(Marker) > 0
BY CaptureConstantsOK, EmptySeq, LenProperties

LEMMA EarliestIs ==
    ASSUME NEW T \in SUBSET Nat, T # {}
    PROVE  Earliest(T) \in T /\ \A j \in T : Earliest(T) <= j
BY LeastNat DEF Earliest

LEMMA EarliestIsOne ==
    ASSUME NEW T \in SUBSET Nat, NEW e \in T, \A j \in T : e <= j
    PROVE  Earliest(T) = e
<1>1. PICK f : f = Earliest(T)
  OBVIOUS
<1>2. f \in T /\ \A j \in T : f <= j
  BY <1>1, EarliestIs
<1>3. f \in Nat /\ e \in Nat /\ f <= e /\ e <= f
  BY <1>2
<1>4. f = e
  BY ONLY <1>3
<1> QED BY <1>1, <1>4

LEMMA FoundIs ==
    ASSUME NEW s \in Seq(Bytes), NEW i \in Int
    PROVE  i \in Found(s) <=> /\ i >= 1 /\ i - 1 + Len(Marker) <= Len(s)
                              /\ Within(s, i - 1, i - 1 + Len(Marker)) = Marker
<1>1. Len(s) \in Nat /\ Len(Marker) \in Nat
  BY MarkerIs
<1>2. (i - 1) + 1 = i /\ i - 1 + Len(Marker) = i + Len(Marker) - 1
  BY <1>1
<1>3. i \in 1 .. Len(s) - Len(Marker) + 1 <=> i >= 1 /\ i - 1 + Len(Marker) <= Len(s)
  BY <1>1
<1>4. Within(s, i - 1, i - 1 + Len(Marker)) = SubSeq(s, i, i + Len(Marker) - 1)
  BY <1>2 DEF Within
<1> QED BY <1>3, <1>4 DEF Found

LEMMA FoundAreNat ==
    ASSUME NEW s \in Seq(Bytes)
    PROVE  Found(s) \in SUBSET Nat /\ \A i \in Found(s) : i \in Nat /\ i >= 1
BY MarkerIs DEF Found

\* Where the marker begins in a stream that goes on: a place of before stays one, and a new one
\* is later than the beginning of any marker that was complete.
LEMMA FoundGrows ==
    ASSUME NEW s \in Seq(Bytes), NEW p \in Seq(Bytes), NEW i \in Int
    PROVE  /\ i \in Found(s) => i \in Found(s \o p)
           /\ i \in Found(s \o p) => i \in Found(s) \/ i - 1 + Len(Marker) > Len(s)
<1>1. PICK n, r, k : n = Len(s) /\ r = s \o p /\ k = Len(Marker)
  OBVIOUS
<1>2. n \in Nat /\ k \in Nat /\ r \in Seq(Bytes) /\ Len(r) = n + Len(p) /\ Len(p) \in Nat
  BY <1>1, MarkerIs
<1>3. \A b \in 0 .. n : \A a \in 0 .. b : Within(r, a, b) = Within(s, a, b)
  BY <1>1, WithinConcat
<1>4. ASSUME i >= 1, i - 1 + k <= n
      PROVE  Within(r, i - 1, i - 1 + k) = Within(s, i - 1, i - 1 + k)
  <2>1. i - 1 + k \in 0 .. n /\ i - 1 \in 0 .. i - 1 + k
    BY ONLY <1>2, <1>4, i \in Int
  <2> QED BY ONLY <1>3, <2>1
<1>5. i \in Found(s) <=> i >= 1 /\ i - 1 + k <= n /\ Within(s, i - 1, i - 1 + k) = Marker
  BY <1>1, FoundIs
<1>6. i \in Found(r) <=> i >= 1 /\ i - 1 + k <= Len(r) /\ Within(r, i - 1, i - 1 + k) = Marker
  BY <1>1, <1>2, FoundIs
<1>7. i - 1 + k <= n => i - 1 + k <= Len(r)
  BY ONLY <1>2, i \in Int
<1>8. i - 1 + k <= n \/ i - 1 + k > n
  BY ONLY <1>2, i \in Int
<1> QED BY ONLY <1>1, <1>4, <1>5, <1>6, <1>7, <1>8

LEMMA EarliestStays ==
    ASSUME NEW s \in Seq(Bytes), NEW p \in Seq(Bytes), Found(s) # {}
    PROVE  /\ Found(s \o p) # {}
           /\ Earliest(Found(s \o p)) = Earliest(Found(s))
<1>1. PICK T, U, e, k, n : /\ T = Found(s) /\ U = Found(s \o p) /\ e = Earliest(T)
                           /\ k = Len(Marker) /\ n = Len(s)
  OBVIOUS
<1>2. s \o p \in Seq(Bytes) /\ n \in Nat /\ k \in Nat
  BY <1>1, MarkerIs
<1>3. T \in SUBSET Nat /\ U \in SUBSET Nat
  BY <1>1, <1>2, FoundAreNat
<1>4. e \in T /\ \A j \in T : e <= j
  BY <1>1, <1>3, EarliestIs
<1>5. e \in Nat /\ e - 1 + k <= n
  BY <1>1, <1>3, <1>4, FoundIs
<1>6. e \in U
  BY <1>1, <1>4, <1>5, FoundGrows
<1>7. ASSUME NEW j \in U PROVE e <= j
  <2>1. j \in Nat /\ (j \in T \/ j - 1 + k > n)
    BY <1>1, <1>3, FoundGrows
  <2> QED BY <1>2, <1>4, <1>5, <2>1
<1>8. Earliest(U) = e
  BY ONLY <1>3, <1>6, <1>7, EarliestIsOne
<1> QED BY <1>1, <1>6, <1>8

\* The places in a stream that had none before, and those in what is looked at.
LEMMA FoundLater ==
    ASSUME NEW s \in Seq(Bytes), NEW p \in Seq(Bytes), Found(s) = {},
           NEW d \in 0 .. Len(s), d = 0 \/ Len(s) - d = Len(Marker) - 1,
           NEW all, all = Within(s \o p, d, Len(s \o p)), NEW i \in Int
    PROVE  i + d \in Found(s \o p) <=> i \in Found(all)
<1>1. PICK n, r, k, m : n = Len(s) /\ r = s \o p /\ k = Len(Marker) /\ m = Len(r)
  OBVIOUS
<1>2. n \in Nat /\ k \in Nat /\ r \in Seq(Bytes) /\ m \in Nat /\ n <= m /\ d \in Nat /\ d <= n
  BY <1>1, MarkerIs
<1>3. all \in Seq(Bytes) /\ Len(all) = m - d
  <2>1. m \in 0 .. Len(r) /\ d \in 0 .. m
    BY ONLY <1>1, <1>2
  <2>2. all = Within(r, d, m)
    BY <1>1
  <2> QED BY ONLY <1>2, <2>1, <2>2, WithinIs
<1>4. i \in Found(all) <=> i >= 1 /\ i - 1 + k <= m - d /\ Within(all, i - 1, i - 1 + k) = Marker
  BY <1>1, <1>3, FoundIs
<1>5. PICK j \in Int : j = i + d
  BY <1>2
<1>6. j \in Found(r) <=> j >= 1 /\ j - 1 + k <= m /\ Within(r, j - 1, j - 1 + k) = Marker
  BY <1>1, <1>2, FoundIs
<1>7. ASSUME i >= 1, i - 1 + k <= m - d
      PROVE  Within(all, i - 1, i - 1 + k) = Within(r, j - 1, j - 1 + k)
  <2>1. PICK c, e : c = i - 1 /\ e = i - 1 + k
    OBVIOUS
  <2>2. /\ m \in 0 .. Len(r) /\ d \in 0 .. m /\ e \in 0 .. m - d /\ c \in 0 .. e
        /\ d + c = j - 1 /\ d + e = j - 1 + k
    BY ONLY <1>1, <1>2, <1>5, <1>7, <2>1, i \in Int
  <2>3. Within(Within(r, d, m), c, e) = Within(r, d + c, d + e)
    BY ONLY <1>2, <2>2, WithinWithin
  <2>4. all = Within(r, d, m)
    BY <1>1
  <2> QED BY ONLY <2>1, <2>2, <2>3, <2>4
<1>8. ASSUME j \in Found(r) PROVE i >= 1
  <2>1. j - 1 + k > n
    BY <1>1, <1>8, FoundGrows
  <2>2. d = 0 \/ n - d = k - 1
    BY <1>1
  <2>3. j >= 1
    BY <1>6, <1>8
  <2> QED BY ONLY <1>2, <1>5, <2>1, <2>2, <2>3, i \in Int
<1>9. i >= 1 => (i - 1 + k <= m - d <=> j - 1 + k <= m) /\ j >= 1
  BY ONLY <1>2, <1>5, i \in Int
<1> QED BY ONLY <1>1, <1>4, <1>5, <1>6, <1>7, <1>8, <1>9

\* Before the marker the last bytes are held back, as many as could begin one; with it the end is
\* known.
Held(n) == IF n < Len(Marker) THEN n ELSE Len(Marker) - 1

Withheld(s, held, out) ==
    /\ Found(s) = {}
    /\ held = Within(s, Len(s) - Held(Len(s)), Len(s))
    /\ out = Within(s, 0, Len(s) - Held(Len(s)))

EndKnown(s, held, out) ==
    /\ Found(s) # {} /\ held = <<>>
    /\ out = Within(s, 0, Earliest(Found(s)) - 1)

LEMMA HeldIs ==
    ASSUME NEW n \in Nat
    PROVE  /\ Held(n) \in 0 .. n /\ Held(n) < Len(Marker)
           /\ n - Held(n) = 0 \/ Held(n) = Len(Marker) - 1
BY MarkerIs DEF Held

LEMMA EndStays ==
    ASSUME NEW s \in Seq(Bytes), NEW p \in Seq(Bytes), NEW held, NEW out, EndKnown(s, held, out)
    PROVE  EndKnown(s \o p, held, out)
<1>1. PICK e : e = Earliest(Found(s))
  OBVIOUS
<1>2. Found(s \o p) # {} /\ Earliest(Found(s \o p)) = e
  BY <1>1, EarliestStays DEF EndKnown
<1>3. e - 1 \in 0 .. Len(s) /\ 0 \in 0 .. e - 1
  <2>1. e \in Found(s) /\ e \in Nat /\ e >= 1
    BY <1>1, FoundAreNat, EarliestIs DEF EndKnown
  <2>2. e - 1 + Len(Marker) <= Len(s) /\ Len(s) \in Nat /\ Len(Marker) \in Nat
    BY <2>1, FoundIs, MarkerIs
  <2> QED BY ONLY <2>1, <2>2
<1>4. Within(s \o p, 0, e - 1) = Within(s, 0, e - 1)
  BY <1>3, WithinConcat
<1> QED BY <1>1, <1>2, <1>4 DEF EndKnown

\* What a chunk adds while the marker has not been seen.
LEMMA EmitMoves ==
    ASSUME NEW s \in Seq(Bytes), NEW p \in Seq(Bytes), NEW held, NEW out, Withheld(s, held, out),
           NEW all, all = held \o p
    PROVE  /\ Found(all) # {} =>
                EndKnown(s \o p, <<>>, out \o Begin(all, Earliest(Found(all)) - 1))
           /\ Found(all) = {} =>
                LET hold == Min({Len(all), Len(Marker) - 1})
                IN Withheld(s \o p, End(all, hold), out \o Begin(all, Len(all) - hold))
<1>1. PICK n, m, r, k, h, d : /\ n = Len(s) /\ m = Len(p) /\ r = s \o p /\ k = Len(Marker)
                              /\ h = Held(n) /\ d = n - h
  OBVIOUS
<1>2. /\ n \in Nat /\ m \in Nat /\ k \in Nat /\ k > 0 /\ h \in Nat /\ h <= n /\ h < k
      /\ d \in Nat /\ d <= n /\ d = n - h /\ (d = 0 \/ h = k - 1)
      /\ r \in Seq(Bytes) /\ Len(r) = n + m
  <2>1. n \in Nat /\ m \in Nat /\ k \in Nat /\ k > 0 /\ r \in Seq(Bytes) /\ Len(r) = n + m
    BY <1>1, MarkerIs
  <2>2. h \in 0 .. n /\ h < k /\ (n - h = 0 \/ h = k - 1)
    BY <1>1, <2>1, HeldIs
  <2> QED BY ONLY <1>1, <2>1, <2>2
<1>3. held = Within(s, d, n) /\ out = Within(s, 0, d) /\ Found(s) = {}
  BY <1>1 DEF Withheld
<1>4. /\ \A b \in 0 .. n : \A a \in 0 .. b : Within(r, a, b) = Within(s, a, b)
      /\ \A b \in 0 .. m : \A a \in 0 .. b : Within(r, n + a, n + b) = Within(p, a, b)
  BY <1>1, WithinConcat
<1>5. out = Within(r, 0, d)
  <2>1. d \in 0 .. n /\ 0 \in 0 .. d
    BY ONLY <1>2
  <2> QED BY ONLY <1>3, <1>4, <2>1
<1>6. all = Within(r, d, n + m)
  <2>1. n \in 0 .. n /\ d \in 0 .. n /\ m \in 0 .. m /\ 0 \in 0 .. m /\ n + 0 = n
    BY ONLY <1>2
  <2>2. Within(s, d, n) = Within(r, d, n) /\ Within(r, n, n + m) = Within(p, 0, m)
    BY ONLY <1>4, <2>1
  <2>3. Within(p, 0, m) = p
    BY <1>1, WholeWithin
  <2>4. n + m \in 0 .. Len(r) /\ n \in 0 .. n + m /\ d \in 0 .. n
    BY ONLY <1>2
  <2>5. Within(r, d, n) \o Within(r, n, n + m) = Within(r, d, n + m)
    BY ONLY <1>2, <2>4, WithinJoin
  <2> QED BY <1>3, <2>2, <2>3, <2>5
<1>7. all \in Seq(Bytes) /\ Len(all) = n + m - d
  <2>1. n + m \in 0 .. Len(r) /\ d \in 0 .. n + m
    BY ONLY <1>2
  <2>2. PICK y : y = n + m
    OBVIOUS
  <2>3. y \in 0 .. Len(r) /\ d \in 0 .. y /\ all = Within(r, d, y)
    BY ONLY <1>6, <2>1, <2>2
  <2>4. all \in Seq(Bytes) /\ Len(all) = y - d
    BY ONLY <1>2, <2>3, WithinIs
  <2>5. y - d = n + m - d
    BY ONLY <1>2, <2>2
  <2> QED BY ONLY <2>4, <2>5
<1>8. \A i \in Int : i + d \in Found(r) <=> i \in Found(all)
  <2>1. d \in 0 .. Len(s) /\ (d = 0 \/ Len(s) - d = Len(Marker) - 1)
    BY ONLY <1>1, <1>2
  <2>2. all = Within(s \o p, d, Len(s \o p))
    BY <1>1, <1>2, <1>6
  <2>3. ASSUME NEW i \in Int PROVE i + d \in Found(s \o p) <=> i \in Found(all)
    BY ONLY <1>3, <2>1, <2>2, <2>3, s \in Seq(Bytes), p \in Seq(Bytes), FoundLater
  <2> QED BY ONLY <1>1, <2>3
<1>9. \A j \in Found(r) : j \in Nat /\ j - d \in Int /\ j - d \in Found(all)
  <2>1. \A j \in Found(r) : j \in Nat
    BY ONLY <1>2, FoundAreNat
  <2>2. \A j \in Nat : j - d \in Int /\ (j - d) + d = j
    BY ONLY <1>2
  <2> QED BY ONLY <1>8, <2>1, <2>2
\* The first e bytes of what is looked at follow what is out.
<1>10. ASSUME NEW e \in 0 .. n + m - d
       PROVE  out \o Begin(all, e) = Within(r, 0, d + e)
  <2>1. Begin(all, e) = Within(all, 0, e)
    BY ONLY TRUE DEF Begin, Within
  <2>2. /\ n + m \in 0 .. Len(r) /\ d \in 0 .. n + m /\ 0 \in 0 .. e /\ d + 0 = d
        /\ d + e \in 0 .. Len(r) /\ d \in 0 .. d + e /\ 0 \in 0 .. d
    BY ONLY <1>2, <1>10
  <2>3. Within(Within(r, d, n + m), 0, e) = Within(r, d + 0, d + e)
    <3>1. PICK y : y = n + m
      OBVIOUS
    <3>2. y \in 0 .. Len(r) /\ d \in 0 .. y /\ e \in 0 .. y - d /\ 0 \in 0 .. e
      BY ONLY <1>2, <1>10, <3>1
    <3>3. Within(Within(r, d, y), 0, e) = Within(r, d + 0, d + e)
      BY ONLY <1>2, <3>2, WithinWithin
    <3> QED BY ONLY <3>1, <3>3
  <2>4. Within(r, 0, d) \o Within(r, d, d + e) = Within(r, 0, d + e)
    BY ONLY <1>2, <2>2, WithinJoin
  <2> QED BY ONLY <1>5, <1>6, <2>1, <2>2, <2>3, <2>4
<1>11. CASE Found(all) # {}
  <2>1. PICK e : e = Earliest(Found(all))
    OBVIOUS
  <2>2. e \in Found(all) /\ e \in Nat /\ e >= 1 /\ \A j \in Found(all) : e <= j /\ j \in Nat
    BY ONLY <1>7, <1>11, <2>1, FoundAreNat, EarliestIs
  <2>3. e - 1 + k <= n + m - d
    <3>1. e \in Int
      BY ONLY <2>2
    <3> QED BY ONLY <1>1, <1>7, <2>2, <3>1, FoundIs
  <2>4. e + d \in Found(r)
    <3>1. e \in Int
      BY ONLY <2>2
    <3> QED BY ONLY <1>8, <2>2, <3>1
  <2>5. \A j \in Found(r) : e + d <= j
    <3> SUFFICES ASSUME NEW j \in Found(r) PROVE e + d <= j
      OBVIOUS
    <3>1. j \in Nat /\ e <= j - d
      BY ONLY <1>9, <2>2
    <3> QED BY ONLY <1>2, <2>2, <3>1
  <2>6. Earliest(Found(r)) = e + d
    <3>1. Found(r) \in SUBSET Nat
      BY ONLY <1>2, FoundAreNat
    <3> QED BY ONLY <2>4, <2>5, <3>1, EarliestIsOne
  <2>7. e - 1 \in 0 .. n + m - d /\ d + (e - 1) = e + d - 1
    BY ONLY <1>2, <2>2, <2>3
  <2>8. out \o Begin(all, e - 1) = Within(r, 0, e + d - 1)
    BY ONLY <1>10, <2>7
  <2>9. EndKnown(r, <<>>, out \o Begin(all, e - 1))
    <3>1. PICK x : x = e + d
      OBVIOUS
    <3>2. x - 1 = e + d - 1
      BY ONLY <1>2, <2>2, <3>1
    <3>3. x \in Found(r) /\ Earliest(Found(r)) = x
      BY ONLY <2>4, <2>6, <3>1
    <3>4. out \o Begin(all, e - 1) = Within(r, 0, x - 1)
      BY ONLY <2>8, <3>2
    <3> QED BY ONLY <3>3, <3>4 DEF EndKnown
  <2> QED BY <1>1, <1>11, <2>1, <2>9
<1>12. CASE Found(all) = {}
  <2>1. Found(r) = {}
    BY ONLY <1>9, <1>12
  <2>2. PICK l, g : l = n + m - d /\ g = Held(n + m)
    OBVIOUS
  <2>3. l \in Nat /\ l = Len(all) /\ l = h + m
    <3>1. l = Len(all)
      BY <1>7, <2>2
    <3>2. l \in Nat
      BY ONLY <1>2, <2>2
    <3>3. l = h + m
      BY ONLY <1>2, <2>2
    <3> QED BY <3>1, <3>2, <3>3
  <2>4. Min({Len(all), k - 1}) = g
    <3>1. l \in Int /\ k - 1 \in Int
      BY ONLY <1>2, <2>3
    <3>2. Min({l, k - 1}) = IF l <= k - 1 THEN l ELSE k - 1
      BY ONLY <3>1, LesserOne
    <3>3. g = IF n + m < k THEN n + m ELSE k - 1
      BY <1>1, <2>2 DEF Held
    <3>4. CASE d = 0
      <4>1. l = n + m
        BY ONLY <1>2, <2>2, <3>4
      <4> QED BY ONLY <1>2, <2>3, <3>2, <3>3, <4>1
    <3>5. CASE d # 0
      <4>1. h = k - 1 /\ n >= h /\ n # h
        BY ONLY <1>1, <1>2, <3>5
      <4> QED BY ONLY <1>2, <2>3, <3>2, <3>3, <4>1
    <3> QED BY ONLY <3>4, <3>5
  <2>5. g \in 0 .. l /\ n + m - g \in Nat
    <3>1. l \in Int /\ k - 1 \in Int
      BY ONLY <1>2, <2>3
    <3>2. g = IF l <= k - 1 THEN l ELSE k - 1
      BY ONLY <2>3, <2>4, <3>1, LesserOne
    <3> QED BY ONLY <1>2, <2>3, <3>1, <3>2
  <2>6. out \o Begin(all, l - g) = Within(r, 0, n + m - g)
    <3>1. l - g \in 0 .. n + m - d /\ d + (l - g) = n + m - g
      BY ONLY <1>2, <2>2, <2>3, <2>5
    <3> QED BY ONLY <1>10, <3>1
  <2>7. End(all, g) = Within(r, n + m - g, n + m)
    <3>1. End(all, g) = Within(all, l - g, l)
      BY ONLY <2>3 DEF End, Within
    <3>2. PICK y, c : y = n + m /\ c = l - g
      OBVIOUS
    <3>3. /\ y \in 0 .. Len(r) /\ d \in 0 .. y /\ l \in 0 .. y - d /\ c \in 0 .. l
          /\ d + c = n + m - g /\ d + l = n + m
      <4>1. y \in 0 .. Len(r) /\ d \in 0 .. y
        BY ONLY <1>2, <3>2
      <4>2. l \in 0 .. y - d /\ d + l = n + m
        BY ONLY <1>2, <2>2, <2>3, <3>2
      <4>3. c \in 0 .. l /\ d + c = n + m - g
        <5>1. l \in Nat /\ g \in Nat /\ g <= l
          BY ONLY <2>3, <2>5
        <5>2. d + (l - g) = (d + l) - g
          BY ONLY <1>2, <5>1
        <5>3. c \in 0 .. l
          BY ONLY <3>2, <5>1
        <5>4. (d + l) - g = n + m - g
          BY ONLY <1>2, <4>2, <5>1
        <5>5. d + c = d + (l - g)
          BY ONLY <3>2
        <5> QED BY ONLY <5>2, <5>3, <5>4, <5>5
      <4> QED BY <4>1, <4>2, <4>3
    <3>4. Within(Within(r, d, y), c, l) = Within(r, d + c, d + l)
      BY ONLY <1>2, <3>3, WithinWithin
    <3> QED BY ONLY <1>6, <3>1, <3>2, <3>3, <3>4
  <2>8. Withheld(r, End(all, g), out \o Begin(all, l - g))
    <3>1. PICK y : y = n + m /\ y = Len(r)
      BY <1>2
    <3>2. y - g = n + m - g
      BY ONLY <1>2, <2>5, <3>1
    <3>3. g = Held(y)
      BY ONLY <2>2, <3>1
    <3>4. out \o Begin(all, l - g) = Within(r, 0, y - g) /\ End(all, g) = Within(r, y - g, y)
      BY ONLY <2>6, <2>7, <3>1, <3>2
    <3> QED BY ONLY <2>1, <3>1, <3>3, <3>4 DEF Withheld
  <2> QED BY <1>1, <1>12, <2>3, <2>4, <2>8
<1> QED BY ONLY <1>11, <1>12

\* What has been published until finishCallback begins, and after a session that was waited for.
LiveInv ==
    /\ flush = "no" => IF stopped THEN EndKnown(stream, pending, emitted)
                      ELSE Withheld(stream, pending, emitted)
    /\ flush # "no" => ending # "none"
    /\ flush # "no" /\ ending = "waited" => emitted = Output

CapInv == CapTypeOK /\ Kept(stream, head, tail, HeadLimit, TailLimit) /\ LiveInv

LEMMA EndIsOutput ==
    ASSUME EndKnown(stream, pending, emitted) PROVE emitted = Output
<1>1. Within(stream, 0, Earliest(Found(stream)) - 1) = Begin(stream, Earliest(Found(stream)) - 1)
  BY DEF Within, Begin
<1> QED BY <1>1 DEF EndKnown, Output

LEMMA LiveFollows == CapTypeOK /\ LiveInv => LiveIsOutput
<1> SUFFICES ASSUME CapTypeOK, LiveInv PROVE LiveIsOutput
  OBVIOUS
<1>1. PICK o, k : o = Output /\ k = Len(Marker)
  OBVIOUS
<1>2. k \in Nat /\ k > 0
  BY <1>1, MarkerIs
<1>3. o \in Seq(Bytes) /\ Len(o) \in Nat
  <2>1. CASE Found(stream) = {}
    BY <1>1, <2>1 DEF Output, CapTypeOK
  <2>2. CASE Found(stream) # {}
    <3>1. PICK e : e = Earliest(Found(stream))
      OBVIOUS
    <3>2. e \in Int /\ e \in Found(stream) /\ e >= 1
      BY <2>2, <3>1, EarliestIs, FoundAreNat DEF CapTypeOK
    <3>3. e - 1 \in 0 .. Len(stream) /\ 0 \in 0 .. e - 1
      <4>1. e - 1 + Len(Marker) <= Len(stream) /\ Len(stream) \in Nat
        BY <3>2, FoundIs DEF CapTypeOK
      <4> QED BY ONLY <1>1, <1>2, <3>2, <4>1
    <3>4. Within(stream, 0, e - 1) \in Seq(Bytes)
      BY <3>3, WithinIs DEF CapTypeOK
    <3>5. Within(stream, 0, e - 1) = o
      <4>1. Within(stream, 0, e - 1) = Begin(stream, e - 1)
        BY ONLY TRUE DEF Within, Begin
      <4> QED BY <1>1, <2>2, <3>1, <4>1 DEF Output
    <3> QED BY <3>4, <3>5
  <2> QED BY <2>1, <2>2
<1>4. CASE emitted = Output
  <2>1. IsPrefix(o, o) /\ Len(o) - Len(o) < k
    BY ONLY <1>2, <1>3 DEF IsPrefix
  <2> QED BY <1>1, <1>4, <2>1 DEF LiveIsOutput
<1>5. CASE flush # "no" /\ ending = "brokenOff"
  BY <1>5 DEF LiveIsOutput
<1>6. CASE emitted # Output /\ ~(flush # "no" /\ ending = "brokenOff")
  <2>1. flush = "no" /\ Withheld(stream, pending, emitted)
    BY <1>6, EndIsOutput DEF LiveInv, CapTypeOK
  <2>2. o = stream
    BY <1>1, <2>1 DEF Withheld, Output
  <2>3. PICK n, h : n = Len(stream) /\ h = Held(n)
    OBVIOUS
  <2>4. n \in Nat /\ h \in 0 .. n /\ h < k
    BY <1>1, <1>3, <2>2, <2>3, HeldIs
  <2>5. PICK c, f : c = n - h /\ f = emitted
    OBVIOUS
  <2>6. f = Within(o, 0, c) /\ c \in 0 .. n /\ 0 \in 0 .. c /\ n = Len(o) /\ n - c < k /\ c - 0 = c
    <3>1. f = Within(stream, 0, n - h)
      BY <2>1, <2>3, <2>5 DEF Withheld
    <3>2. c \in 0 .. n /\ 0 \in 0 .. c /\ n - c < k /\ c - 0 = c
      BY ONLY <1>2, <2>4, <2>5
    <3> QED BY <2>2, <2>3, <2>5, <3>1, <3>2
  <2>7. f \in Seq(Bytes) /\ Len(f) = c
    BY ONLY <1>3, <2>6, WithinIs
  <2>8. SubSeq(f, 1, c) = f
    BY ONLY <2>6, <2>7
  <2>9. SubSeq(o, 1, c) = f
    BY ONLY <2>6 DEF Within
  <2>10. c <= n /\ IsPrefix(f, o)
    BY ONLY <2>4, <2>6, <2>7, <2>8, <2>9 DEF IsPrefix
  <2> QED BY <1>1, <2>1, <2>5, <2>6, <2>7, <2>10 DEF LiveIsOutput
<1> QED BY <1>4, <1>5, <1>6

LEMMA WriteChunkKeeps ==
    ASSUME CapInv, NEW p \in Seq(Bytes), WriteChunk(p)
    PROVE  CapInv'
<1> USE DEF CapInv
<1>1. PICK s, h, t, hl, tl : s = stream /\ h = head /\ t = tail /\ hl = HeadLimit /\ tl = TailLimit
  OBVIOUS
<1>2. s \in Seq(Bytes) /\ hl \in Nat /\ tl \in Nat /\ CaptureLimit - HeadLimit = tl
  BY <1>1, LimitsAre DEF CapTypeOK, TailLimit
<1>3. /\ stream' = s \o p /\ s \o p \in Seq(Bytes)
      /\ ending # "waited" /\ ending' = ending /\ flush' = flush
  BY <1>1, <1>2 DEF WriteChunk, CapTypeOK
<1>4. Kept(stream, head, tail, HeadLimit, TailLimit)'
  <2>1. PICK room : room = Min({hl - Len(h), Len(p)})
    OBVIOUS
  <2>2. PICK rest : rest = t \o End(p, Len(p) - room)
    OBVIOUS
  <2>3. PICK g, u : g = h \o Begin(p, room) /\ u = End(rest, Min({Len(rest), tl}))
    OBVIOUS
  <2>4. head' = g /\ tail' = u
    BY <1>1, <1>2, <2>1, <2>2, <2>3 DEF WriteChunk, Keep
  <2>5. Kept(s, h, t, hl, tl)
    BY <1>1
  <2>6. Kept(s \o p, g, u, hl, tl)
    BY ONLY <1>2, <2>1, <2>2, <2>3, <2>5, p \in Seq(Bytes), KeepKeeps
  <2>7. HeadLimit' = hl /\ TailLimit' = tl
    BY <1>1 DEF HeadLimit, TailLimit
  <2> QED BY <1>3, <2>4, <2>6, <2>7 DEF Kept
<1>5. CASE flush # "no"
  <2>1. stopped' \in BOOLEAN
    BY DEF WriteChunk, EmitCallback, CapTypeOK
  <2> QED BY <1>3, <1>4, <1>5, <2>1 DEF CapTypeOK, LiveInv
<1>6. CASE flush = "no"
  <2> USE <1>6
  <2>1. CASE stopped
    <3>1. stopped' = TRUE /\ pending' = pending /\ emitted' = emitted
      BY <2>1 DEF WriteChunk, EmitCallback
    <3>2. PICK held, out : held = pending /\ out = emitted
      OBVIOUS
    <3>3. EndKnown(s, held, out)
      BY <1>1, <1>3, <2>1, <3>2 DEF LiveInv
    <3>4. EndKnown(s \o p, held, out)
      BY ONLY <1>2, <3>3, p \in Seq(Bytes), EndStays
    <3> QED BY <1>3, <1>4, <3>1, <3>2, <3>4 DEF CapTypeOK, LiveInv, EndKnown
  <2>2. CASE ~stopped
    <3>1. PICK held, out, all : held = pending /\ out = emitted /\ all = held \o p
      OBVIOUS
    <3>2. Withheld(s, held, out)
      BY <1>1, <1>3, <2>2, <3>1 DEF LiveInv
    <3>3. PICK hold : hold = Min({Len(all), Len(Marker) - 1})
      OBVIOUS
    <3>4. /\ Found(all) # {} =>
               EndKnown(s \o p, <<>>, out \o Begin(all, Earliest(Found(all)) - 1))
          /\ Found(all) = {} => Withheld(s \o p, End(all, hold), out \o Begin(all, Len(all) - hold))
      BY ONLY <1>2, <3>1, <3>2, <3>3, p \in Seq(Bytes), EmitMoves
    <3>5. CASE Found(all) # {}
      <4>1. /\ stopped' = TRUE /\ pending' = <<>>
            /\ emitted' = out \o Begin(all, Earliest(Found(all)) - 1)
        BY <2>2, <3>1, <3>5 DEF WriteChunk, EmitCallback
      <4> QED BY <1>3, <1>4, <3>4, <3>5, <4>1 DEF CapTypeOK, LiveInv, EndKnown
    <3>6. CASE Found(all) = {}
      <4>1. /\ stopped' = FALSE /\ pending' = End(all, hold)
            /\ emitted' = out \o Begin(all, Len(all) - hold)
        BY <2>2, <3>1, <3>3, <3>6 DEF WriteChunk, EmitCallback, CapTypeOK
      <4> QED BY <1>3, <1>4, <3>4, <3>6, <4>1 DEF CapTypeOK, LiveInv, Withheld
    <3> QED BY <3>5, <3>6
  <2> QED BY <2>1, <2>2
<1> QED BY <1>5, <1>6

LEMMA EndSessionKeeps ==
    ASSUME CapInv, EndSession
    PROVE  CapInv'
<1>1. /\ UNCHANGED <<stream, head, tail, pending, stopped, emitted, flush>>
      /\ ending = "none" /\ ending' \in {"waited", "brokenOff"}
  BY DEF EndSession
<1>2. CapTypeOK' /\ Kept(stream, head, tail, HeadLimit, TailLimit)'
  BY <1>1 DEF CapInv, CapTypeOK, Kept, HeadLimit, TailLimit
<1>3. LiveInv'
  BY <1>1 DEF CapInv, LiveInv, EndKnown, Withheld
<1> QED BY <1>2, <1>3 DEF CapInv

LEMMA DropKeeps ==
    ASSUME CapInv, DropPending
    PROVE  CapInv'
<1>1. /\ UNCHANGED <<stream, head, tail, stopped, emitted, ending>>
      /\ flush = "published" /\ flush' = "over"
  BY DEF DropPending
<1>2. CapTypeOK' /\ Kept(stream, head, tail, HeadLimit, TailLimit)'
  BY <1>1 DEF CapInv, CapTypeOK, Kept, HeadLimit, TailLimit
<1>3. LiveInv'
  BY <1>1 DEF CapInv, LiveInv, Output
<1> QED BY <1>2, <1>3 DEF CapInv

\* What was held back is published: then nothing is missing, if nothing more is written.
LEMMA PublishKeeps ==
    ASSUME CapInv, PublishPending
    PROVE  CapInv'
<1>1. /\ UNCHANGED <<stream, head, tail, pending, stopped, ending>>
      /\ flush' = "published" /\ flush = "no" /\ ending # "none"
  BY DEF PublishPending
<1>2. CapTypeOK' /\ Kept(stream, head, tail, HeadLimit, TailLimit)'
  BY <1>1 DEF CapInv, CapTypeOK, Kept, HeadLimit, TailLimit
<1>3. emitted' = Output
  <2>1. CASE stopped
    BY <1>1, <2>1, EndIsOutput DEF CapInv, LiveInv, PublishPending
  <2>2. CASE ~stopped
    <3>1. PICK s, n, h : s = stream /\ n = Len(s) /\ h = Held(n)
      OBVIOUS
    <3>2. Withheld(stream, pending, emitted) /\ emitted' = emitted \o pending
      BY <1>1, <2>2 DEF CapInv, LiveInv, PublishPending
    <3>3. emitted' = Within(s, 0, n - h) \o Within(s, n - h, n) /\ Output = s
      BY <3>1, <3>2 DEF Withheld, Output
    <3>4. s \in Seq(Bytes) /\ n \in Nat
      BY <3>1 DEF CapInv, CapTypeOK
    <3>5. n \in 0 .. Len(s) /\ n - h \in 0 .. n /\ 0 \in 0 .. n - h
      <4>1. h \in 0 .. n
        BY <3>1, <3>4, HeldIs
      <4> QED BY ONLY <3>1, <3>4, <4>1
    <3>6. Within(s, 0, n - h) \o Within(s, n - h, n) = Within(s, 0, n)
      BY ONLY <3>4, <3>5, WithinJoin
    <3>7. Within(s, 0, n) = s
      BY ONLY <3>1, <3>4, WholeWithin
    <3> QED BY <3>3, <3>6, <3>7
  <2> QED BY <2>1, <2>2
<1>4. LiveInv'
  BY <1>1, <1>3 DEF LiveInv, Output
<1> QED BY <1>2, <1>4 DEF CapInv

LEMMA CapInitInv == CapInit => CapInv
<1> SUFFICES ASSUME CapInit PROVE CapInv
  OBVIOUS
<1>1. <<>> \in Seq(Bytes) /\ Len(<<>>) = 0
  OBVIOUS
<1>2. CapTypeOK
  BY <1>1 DEF CapInit, CapTypeOK
<1>3. Found(<<>>) = {}
  <2>1. \A i \in Found(<<>>) : i \in Nat /\ i >= 1 /\ i - 1 + Len(Marker) <= 0
    <3> SUFFICES ASSUME NEW i \in Found(<<>>)
                 PROVE  i \in Nat /\ i >= 1 /\ i - 1 + Len(Marker) <= 0
      OBVIOUS
    <3>1. PICK s \in Seq(Bytes) : s = <<>> /\ Len(s) = 0
      BY <1>1
    <3>2. i \in Nat /\ i >= 1 /\ i \in Int /\ i \in Found(s)
      <4>1. i \in Found(s)
        BY <3>1
      <4>2. i \in Nat /\ i >= 1
        BY ONLY <4>1, s \in Seq(Bytes), FoundAreNat
      <4> QED BY <4>1, <4>2
    <3>3. i - 1 + Len(Marker) <= Len(s)
      BY ONLY <3>2, s \in Seq(Bytes), FoundIs
    <3> QED BY <3>1, <3>2, <3>3
  <2> QED BY <2>1, MarkerIs
<1>4. Within(<<>>, 0, 0) = <<>>
  BY <1>1, WholeWithin
<1>5. InHead(0, HeadLimit) = 0 /\ InTail(0, HeadLimit, TailLimit) = 0 /\ Held(0) = 0
  <2>1. PICK hl, tl : hl = HeadLimit /\ tl = TailLimit /\ hl \in Nat /\ tl \in Nat
    BY LimitsAre
  <2>2. InHead(0, hl) = 0
    BY ONLY <2>1 DEF InHead
  <2>3. InTail(0, hl, tl) = 0
    BY ONLY <2>1, <2>2 DEF InTail
  <2> QED BY <2>1, <2>2, <2>3, MarkerIs DEF Held
<1>6. Kept(<<>>, <<>>, <<>>, HeadLimit, TailLimit)
  BY <1>1, <1>4, <1>5 DEF Kept
<1>7. Withheld(<<>>, <<>>, <<>>)
  BY <1>1, <1>3, <1>4, <1>5 DEF Withheld
<1> QED BY <1>2, <1>6, <1>7 DEF CapInit, CapInv, LiveInv

\* limitedWriter, of any length and with any marker, whatever the chunks: what is kept of a stream
\* is it or its two ends; and what is published is the output before the trailer, until
\* finishCallback begins, and after it too if the session has been waited for.
THEOREM CapturedExactly == CapSpec => []CaptureExact
<1>1. CapInv /\ [CapNext]_capVars => CapInv'
  <2> SUFFICES ASSUME CapInv, [CapNext]_capVars PROVE CapInv'
    OBVIOUS
  <2>1. ASSUME NEW p \in Chunks, WriteChunk(p) PROVE CapInv'
    <3>1. p \in Seq(Bytes)
      BY CaptureConstantsOK DEF Chunks
    <3> QED BY <2>1, <3>1, WriteChunkKeeps
  <2>2. CASE UNCHANGED capVars
    BY <2>2 DEF capVars, CapInv, CapTypeOK, Kept, LiveInv, Withheld, EndKnown, Output, HeadLimit, TailLimit
  <2> QED BY <2>1, <2>2, EndSessionKeeps, PublishKeeps, DropKeeps DEF CapNext
<1>2. CapInv => CaptureExact
  BY KeptIsEnds, LiveFollows DEF CapInv, CaptureExact
<1> QED BY <1>1, <1>2, CapInitInv, PTL DEF CapSpec

-----------------------------------------------------------------------------
(* OutputPaging *)

(* Characters of more than one byte *)

\* One of r bytes begins at the f-th byte of s.
RuneAt(s, f, r) ==
    /\ r \in {2, 3} /\ s[f] = r /\ f + r - 1 <= Len(s)
    /\ \A i \in f + 1 .. f + r - 1 : s[i] = Cont

LEMMA FromIs ==
    ASSUME NEW s \in Seq(Utf8), NEW f \in 1 .. Len(s)
    PROVE  /\ From(s, f) \in Seq(Utf8) /\ Len(From(s, f)) = Len(s) - f + 1
           /\ \A i \in 1 .. Len(s) - f + 1 : From(s, f)[i] = s[f + i - 1]
<1>1. Len(s) \in Nat /\ f \in Int /\ f <= Len(s) /\ f >= 1
  OBVIOUS
<1>2. \A i \in f .. Len(s) : s[i] \in Utf8
  BY ONLY <1>1, s \in Seq(Utf8), ElementOfSeq
<1>3. PICK u : u = SubSeq(s, f, Len(s))
  OBVIOUS
<1>4. /\ u \in Seq(Utf8) /\ Len(u) = IF f <= Len(s) THEN Len(s) - f + 1 ELSE 0
      /\ \A i \in 1 .. Len(s) - f + 1 : u[i] = s[f + i - 1]
  BY ONLY <1>1, <1>2, <1>3, SubSeqProperties
<1> QED BY <1>1, <1>3, <1>4 DEF From

LEMMA RuneSizeIs ==
    ASSUME NEW s \in Seq(Utf8), NEW f \in 1 .. Len(s), NEW k, k = RuneSize(From(s, f))
    PROVE  /\ k \in 1 .. 3 /\ f + k - 1 <= Len(s)
           /\ k # 1 => RuneAt(s, f, k)
           /\ \A r : RuneAt(s, f, r) => r = k
<1>1. PICK u, n : u = From(s, f) /\ n = Len(s)
  OBVIOUS
<1>2. n \in Nat /\ f \in Int /\ f >= 1 /\ f <= n /\ s[f] \in 0 .. 3
  <2>1. s[f] \in Utf8
    BY ElementOfSeq
  <2> QED BY <1>1, <2>1 DEF Utf8, Cont
<1>3. Len(u) = n - f + 1 /\ u[1] = s[f] /\ \A i \in 1 .. n - f + 1 : u[i] = s[f + i - 1]
  <2>1. Len(u) = n - f + 1 /\ \A i \in 1 .. n - f + 1 : u[i] = s[f + i - 1]
    BY <1>1, FromIs
  <2>2. 1 \in 1 .. n - f + 1 /\ f + 1 - 1 = f
    BY ONLY <1>2
  <2> QED BY <2>1, <2>2
<1>4. k = IF u[1] # Cont /\ Len(u) >= u[1] /\ \A i \in 2 .. u[1] : u[i] = Cont THEN u[1] ELSE 1
  BY <1>1 DEF RuneSize
<1>5. ASSUME NEW r \in 2 .. 3, s[f] = r
      PROVE  RuneAt(s, f, r) <=> Len(u) >= u[1] /\ \A i \in 2 .. u[1] : u[i] = Cont
  <2>1. Len(u) >= u[1] <=> f + r - 1 <= n
    BY ONLY <1>2, <1>3, <1>5
  <2>2. ASSUME f + r - 1 <= n
        PROVE  (\A i \in 2 .. r : u[i] = Cont) <=> \A i \in f + 1 .. f + r - 1 : s[i] = Cont
    <3>1. ASSUME NEW i \in 2 .. r PROVE f + i - 1 \in f + 1 .. f + r - 1 /\ u[i] = s[f + i - 1]
      <4>1. i \in 1 .. n - f + 1 /\ f + i - 1 \in f + 1 .. f + r - 1
        BY ONLY <1>2, <2>2, <3>1, r \in 2 .. 3
      <4> QED BY <1>3, <4>1
    <3>2. ASSUME NEW i \in f + 1 .. f + r - 1 PROVE i - f + 1 \in 2 .. r /\ u[i - f + 1] = s[i]
      <4>1. i - f + 1 \in 1 .. n - f + 1 /\ i - f + 1 \in 2 .. r /\ f + (i - f + 1) - 1 = i
        BY ONLY <1>2, <2>2, <3>2, r \in 2 .. 3
      <4> QED BY <1>3, <4>1
    <3> QED BY ONLY <3>1, <3>2
  <2>3. r \in {2, 3}
    BY ONLY r \in 2 .. 3
  <2> QED BY <1>1, <1>3, <1>5, <2>1, <2>2, <2>3 DEF RuneAt
<1>6. ASSUME NEW r, RuneAt(s, f, r) PROVE r = k /\ r \in 2 .. 3
  <2>1. r \in 2 .. 3 /\ s[f] = r
    BY <1>6 DEF RuneAt
  <2>2. Len(u) >= u[1] /\ \A i \in 2 .. u[1] : u[i] = Cont
    BY <1>5, <1>6, <2>1
  <2> QED BY ONLY <1>3, <1>4, <2>1, <2>2 DEF Cont
<1>7. CASE s[f] \in 2 .. 3 /\ RuneAt(s, f, s[f])
  <2>1. s[f] = k
    BY <1>6, <1>7
  <2> QED BY <1>6, <1>7, <2>1 DEF RuneAt
<1>8. CASE ~(s[f] \in 2 .. 3 /\ RuneAt(s, f, s[f]))
  <2>1. k = 1
    <3>1. CASE s[f] \in 0 .. 1
      BY ONLY <1>3, <1>4, <3>1 DEF Cont
    <3>2. CASE s[f] \in 2 .. 3
      <4>1. ~(Len(u) >= u[1] /\ \A i \in 2 .. u[1] : u[i] = Cont)
        BY <1>5, <1>8, <3>2
      <4> QED BY <1>4, <4>1
    <3> QED BY ONLY <1>2, <3>1, <3>2
  <2>2. \A r : ~RuneAt(s, f, r)
    <3>1. ASSUME NEW r, RuneAt(s, f, r) PROVE FALSE
      BY <1>6, <1>8, <3>1 DEF RuneAt
    <3> QED BY <3>1
  <2> QED BY ONLY <1>1, <1>2, <2>1, <2>2
<1> QED BY <1>7, <1>8

\* A character is one of a longer output too, and one that is no longer than the output was
\* already one of it.
LEMMA RuneStays ==
    ASSUME NEW s \in Seq(Utf8), NEW b \in Utf8, NEW f \in 1 .. Len(s), NEW r
    PROVE  /\ RuneAt(s, f, r) => RuneAt(Append(s, b), f, r)
           /\ RuneAt(Append(s, b), f, r) /\ f + r - 1 <= Len(s) => RuneAt(s, f, r)
<1>1. PICK t, n : t = Append(s, b) /\ n = Len(s)
  OBVIOUS
<1>2. n \in Nat /\ Len(t) = n + 1 /\ \A i \in 1 .. n : t[i] = s[i]
  BY <1>1
<1>3. ASSUME r \in {2, 3}, f + r - 1 <= n
      PROVE  f \in 1 .. n /\ f + r - 1 <= n + 1 /\ \A i \in f + 1 .. f + r - 1 : i \in 1 .. n
  BY <1>1, <1>2, <1>3
<1> QED BY <1>1, <1>2, <1>3 DEF RuneAt

(* A page *)

\* Of what is read, the byte at which the last character begins, or the first one.
Start(s) ==
    LET begins == {i \in 1 .. Len(s) : s[i] # Cont \/ i = 1}
    IN CHOOSE i \in begins : \A j \in begins : j <= i

LEMMA StartIs ==
    ASSUME NEW s \in Seq(Utf8), s # <<>>
    PROVE  /\ Start(s) \in 1 .. Len(s) /\ (Start(s) = 1 \/ s[Start(s)] # Cont)
           /\ \A i \in Start(s) + 1 .. Len(s) : s[i] = Cont
<1>1. PICK n, B : n = Len(s) /\ B = {i \in 1 .. n : s[i] # Cont \/ i = 1}
  OBVIOUS
<1>2. n \in Nat /\ 1 \in B /\ B \subseteq 1 .. n
  BY <1>1, EmptySeq
<1>3. PICK T : T = {n - i : i \in B}
  OBVIOUS
<1>4. T \in SUBSET Nat /\ T # {}
  BY <1>2, <1>3
<1>5. PICK m \in T : \A l \in T : m <= l
  BY ONLY <1>4, LeastNat
<1>6. PICK g \in B : m = n - g
  BY <1>3
<1>7. \A j \in B : j <= g
  <2> SUFFICES ASSUME NEW j \in B PROVE j <= g
    OBVIOUS
  <2>1. n - g <= n - j
    BY <1>3, <1>5, <1>6
  <2> QED BY ONLY <1>2, <2>1, g \in B, j \in B
<1>8. Start(s) = CHOOSE i \in B : \A j \in B : j <= i
  BY <1>1 DEF Start
<1>9. PICK c : c = Start(s) /\ c \in B /\ \A j \in B : j <= c
  BY <1>7, <1>8
<1>10. ASSUME NEW i \in c + 1 .. n PROVE s[i] = Cont
  <2>1. i \notin B /\ i \in 1 .. n
    BY ONLY <1>2, <1>9, i \in c + 1 .. n
  <2> QED BY ONLY <1>1, <2>1
<1> QED BY <1>1, <1>2, <1>9, <1>10

\* A page within the limit ends where a character of the output does, unless it would be empty:
\* then a character begins at its first byte that the limit is too short for.
LEMMA WithinLimit ==
    ASSUME NEW t \in Seq(Utf8), t # <<>>, NEW k, k = CompletePrefix(t, TRUE)
    PROVE  /\ k \in 0 .. Len(t)
           /\ k > 0 => \A f \in 1 .. k : \A r \in {2, 3} :
                 ~(t[f] = r /\ f + r - 1 > k /\ \A i \in f + 1 .. Len(t) : i <= f + r - 1 => t[i] = Cont)
           /\ k = 0 => Len(t) < t[1] /\ t[1] # Cont /\ \A i \in 2 .. Len(t) : t[i] = Cont
<1>1. PICK n, c, u : n = Len(t) /\ c = Start(t) /\ u = From(t, c)
  OBVIOUS
<1>2. n \in Nat /\ n >= 1
  BY <1>1, EmptySeq
<1>3. c \in 1 .. n /\ (c = 1 \/ t[c] # Cont) /\ \A i \in c + 1 .. n : t[i] = Cont
  BY <1>1, StartIs
<1>4. Len(u) = n - c + 1 /\ \A i \in 1 .. n - c + 1 : u[i] = t[c + i - 1]
  BY <1>1, <1>3, FromIs
<1>5. k = IF FullRune(u) THEN n ELSE c - 1
  <2>1. CompletePrefix(t, TRUE) = IF FullRune(From(t, Start(t))) THEN Len(t) ELSE Start(t) - 1
    BY t # <<>> DEF CompletePrefix, Start
  <2> QED BY <1>1, <2>1
<1>6. \A i \in 1 .. n : t[i] \in 0 .. 3
  <2>1. \A i \in 1 .. n : t[i] \in Utf8
    BY <1>1, ElementOfSeq
  <2> QED BY <2>1 DEF Utf8, Cont
<1>7. u # <<>> /\ u[1] = t[c]
  <2>1. 1 \in 1 .. n - c + 1 /\ c + 1 - 1 = c /\ Len(u) > 0
    BY ONLY <1>2, <1>3, <1>4
  <2> QED BY <1>4, <2>1
<1>8. CASE FullRune(u)
  <2>1. k = n
    BY <1>5, <1>8
  <2>2. ASSUME NEW f \in 1 .. n, NEW r \in {2, 3}, t[f] = r, f + r - 1 > n,
               \A i \in f + 1 .. n : i <= f + r - 1 => t[i] = Cont
        PROVE  FALSE
    <3>1. \A i \in f + 1 .. n : t[i] = Cont
      BY ONLY <1>2, <2>2
    <3>2. f = c
      <4>1. t[f] # Cont
        BY ONLY <2>2 DEF Cont
      <4>2. ~(f > c)
        BY ONLY <1>2, <1>3, <4>1, f \in 1 .. n
      <4>3. ~(f < c)
        BY ONLY <1>2, <1>3, <3>1, f \in 1 .. n
      <4> QED BY ONLY <1>2, <1>3, <4>2, <4>3, f \in 1 .. n
    <3>3. u[1] = r /\ Len(u) < r
      BY ONLY <1>2, <1>3, <1>4, <1>7, <2>2, <3>2
    <3>4. ASSUME NEW i \in 2 .. Len(u) PROVE u[i] = Cont
      <4>1. i \in 1 .. n - c + 1 /\ c + i - 1 \in c + 1 .. n
        BY ONLY <1>2, <1>3, <1>4, <3>4
      <4> QED BY ONLY <1>3, <1>4, <4>1
    <3>5. r # Cont /\ r # 1
      BY DEF Cont
    <3> QED BY ONLY <1>2, <1>3, <1>4, <1>8, <3>3, <3>4, <3>5, r \in {2, 3} DEF FullRune
  <2>3. n # 0 /\ n \in 0 .. n
    BY ONLY <1>2
  <2> QED BY ONLY <1>1, <2>1, <2>2, <2>3
<1>9. CASE ~FullRune(u)
  <2>1. k = c - 1
    BY <1>5, <1>9
  <2>2. u[1] # Cont /\ u[1] # 1 /\ ~(Len(u) >= u[1]) /\ \A i \in 2 .. Len(u) : u[i] = Cont
    BY ONLY <1>7, <1>9 DEF FullRune
  <2>3. ASSUME k > 0, NEW f \in 1 .. k, NEW r \in {2, 3}, t[f] = r, f + r - 1 > k,
               \A i \in f + 1 .. n : i <= f + r - 1 => t[i] = Cont
        PROVE  FALSE
    <3>1. c \in f + 1 .. n /\ c <= f + r - 1 /\ c # 1
      BY ONLY <1>2, <1>3, <2>1, <2>3
    <3> QED BY ONLY <1>3, <2>3, <3>1
  <2>4. k = 0 => Len(t) < t[1] /\ t[1] # Cont /\ \A i \in 2 .. Len(t) : t[i] = Cont
    <3> SUFFICES ASSUME k = 0 PROVE Len(t) < t[1] /\ t[1] # Cont /\ \A i \in 2 .. Len(t) : t[i] = Cont
      OBVIOUS
    <3>1. c = 1
      BY ONLY <1>3, <2>1, k = 0
    <3>2. n < t[1]
      <4>1. t[1] \in 0 .. 3 /\ u[1] = t[1] /\ Len(u) = n
        BY ONLY <1>2, <1>4, <1>6, <1>7, <3>1
      <4> QED BY ONLY <1>2, <2>2, <4>1
    <3> QED BY ONLY <1>1, <1>3, <1>7, <2>2, <3>1, <3>2
  <2>5. k \in 0 .. n
    BY ONLY <1>2, <1>3, <2>1
  <2> QED BY ONLY <1>1, <2>3, <2>4, <2>5
<1> QED BY <1>8, <1>9

\* What is asked of a page of k bytes after the first off of d.
GoodPage(d, off, lim, k) ==
    /\ k \in 1 .. Len(d) - off /\ k <= lim + UTFMax - 1
    /\ k > lim => RuneSize(From(d, off + 1)) = k
    /\ \A f \in off + 1 .. off + k : \A r : RuneAt(d, f, r) => f + r - 1 <= off + k

LEMMA PageIsGood ==
    ASSUME NEW d \in Seq(Utf8), NEW off \in Nat, off < Len(d), NEW lim \in Nat \ {0},
           NEW read, read = SubSeq(d, off + 1, Min({Len(d), off + lim + UTFMax - 1})),
           NEW k, k = UTF8Page(read, lim, off + Len(read) < Len(d))
    PROVE  GoodPage(d, off, lim, k)
<1>1. PICK n, z : n = Len(d) /\ z = IF n <= off + lim + 3 THEN n ELSE off + lim + 3
  OBVIOUS
<1>2. /\ n \in Nat /\ off < n /\ z \in Nat /\ z <= n /\ off < z /\ z <= off + lim + 3
      /\ (z = n \/ z = off + lim + 3) /\ off \in Nat /\ lim \in Nat /\ lim >= 1
  BY <1>1
<1>3. read = SubSeq(d, off + 1, z)
  <2>1. PICK y \in Int : y = off + lim + 3 /\ y = off + lim + UTFMax - 1
    BY <1>2 DEF UTFMax
  <2>2. Min({n, y}) = IF n <= y THEN n ELSE y
    BY ONLY <1>2, <2>1, LesserOne
  <2> QED BY <1>1, <2>1, <2>2
<1>4. read \in Seq(Utf8) /\ Len(read) = z - off /\ \A i \in 1 .. z - off : read[i] = d[off + i]
  <2>1. off + 1 \in Int /\ z \in Int /\ \A i \in off + 1 .. z : d[i] \in Utf8
    <3>1. \A i \in off + 1 .. z : i \in 1 .. Len(d)
      BY ONLY <1>1, <1>2
    <3> QED BY ONLY <1>2, <3>1, d \in Seq(Utf8), ElementOfSeq
  <2>2. PICK a : a = off + 1
    OBVIOUS
  <2>3. /\ read \in Seq(Utf8) /\ Len(read) = IF a <= z THEN z - a + 1 ELSE 0
        /\ \A i \in 1 .. z - a + 1 : read[i] = d[a + i - 1]
    BY ONLY <1>3, <2>1, <2>2, SubSeqProperties
  <2>4. a <= z /\ z - a + 1 = z - off /\ \A i \in 1 .. z - off : a + i - 1 = off + i
    BY ONLY <1>2, <2>2
  <2> QED BY ONLY <2>3, <2>4
<1>5. UTFMax = 4
  BY DEF UTFMax
<1>6. CASE Len(read) <= lim
  <2>1. z = n /\ ~(off + Len(read) < n)
    BY ONLY <1>2, <1>4, <1>6
  <2>2. k = Len(read)
    BY <1>1, <1>6, <2>1 DEF UTF8Page, CompletePrefix
  <2>3. k = n - off
    BY <1>4, <2>1, <2>2
  <2>4. k \in 1 .. n - off /\ k <= lim /\ off + k = n
    BY ONLY <1>2, <1>4, <1>6, <2>1, <2>2
  <2>5. \A f \in off + 1 .. off + k : \A r : RuneAt(d, f, r) => f + r - 1 <= off + k
    BY ONLY <1>1, <2>4 DEF RuneAt
  <2> QED BY ONLY <1>1, <1>2, <1>5, <2>4, <2>5 DEF GoodPage
<1>7. CASE Len(read) > lim
  <2>1. PICK t : t = SubSeq(read, 1, lim)
    OBVIOUS
  <2>2. t \in Seq(Utf8) /\ Len(t) = lim /\ \A i \in 1 .. lim : t[i] = read[i]
    <3>1. 1 \in Int /\ lim \in Int /\ \A i \in 1 .. lim : read[i] \in Utf8
      <4>1. \A i \in 1 .. lim : i \in 1 .. Len(read)
        BY ONLY <1>2, <1>4, <1>7
      <4> QED BY ONLY <1>2, <1>4, <4>1, ElementOfSeq
    <3>2. /\ t \in Seq(Utf8) /\ Len(t) = IF 1 <= lim THEN lim - 1 + 1 ELSE 0
          /\ \A i \in 1 .. lim - 1 + 1 : t[i] = read[1 + i - 1]
      BY ONLY <2>1, <3>1, SubSeqProperties
    <3>3. 1 <= lim /\ lim - 1 + 1 = lim /\ \A i \in 1 .. lim : 1 + i - 1 = i
      BY ONLY <1>2
    <3> QED BY ONLY <3>2, <3>3
  <2>3. t # <<>>
    BY ONLY <1>2, <2>2, EmptySeq
  <2>4. PICK p : p = CompletePrefix(t, TRUE)
    OBVIOUS
  <2>5. /\ p \in 0 .. lim
        /\ p > 0 => \A f \in 1 .. p : \A r \in {2, 3} :
              ~(t[f] = r /\ f + r - 1 > p /\ \A i \in f + 1 .. lim : i <= f + r - 1 => t[i] = Cont)
        /\ p = 0 => lim < t[1] /\ t[1] # Cont /\ \A i \in 2 .. lim : t[i] = Cont
    BY ONLY <2>2, <2>3, <2>4, WithinLimit
  <2>6. k = IF p > 0 THEN p ELSE RuneSize(read)
    <3>1. ~(Len(read) <= lim)
      BY ONLY <1>2, <1>4, <1>7
    <3> QED BY <2>1, <2>4, <3>1 DEF UTF8Page
  <2>7. \A i \in 1 .. lim : t[i] = d[off + i]
    <3>1. \A i \in 1 .. lim : i \in 1 .. z - off
      BY ONLY <1>2, <1>4, <1>7
    <3> QED BY ONLY <1>4, <2>2, <3>1
  <2>8. CASE p > 0
    <3>1. k = p /\ k \in 1 .. n - off /\ k <= lim
      BY ONLY <1>2, <1>4, <1>7, <2>5, <2>6, <2>8
    <3>2. ASSUME NEW f \in off + 1 .. off + k, NEW r, RuneAt(d, f, r), ~(f + r - 1 <= off + k)
          PROVE  FALSE
      <4>1. r \in {2, 3} /\ d[f] = r /\ \A i \in f + 1 .. f + r - 1 : d[i] = Cont
        BY <3>2 DEF RuneAt
      <4>2. PICK g \in 1 .. k : g = f - off /\ off + g = f
        BY ONLY <1>2, <3>1, f \in off + 1 .. off + k
      <4>3. g \in 1 .. lim /\ t[g] = r
        BY ONLY <2>7, <3>1, <4>1, <4>2
      <4>4. g + r - 1 > k
        BY ONLY <1>2, <3>1, <3>2, <4>1, <4>2
      <4>5. ASSUME NEW i \in g + 1 .. lim, i <= g + r - 1 PROVE t[i] = Cont
        <5>1. i \in 1 .. lim /\ off + i \in f + 1 .. f + r - 1
          BY ONLY <1>2, <4>1, <4>2, <4>5
        <5> QED BY ONLY <2>7, <4>1, <5>1
      <4> QED BY ONLY <2>5, <2>8, <3>1, <4>1, <4>3, <4>4, <4>5
    <3>3. k <= lim + UTFMax - 1 /\ ~(k > lim)
      BY ONLY <1>2, <1>5, <3>1
    <3> QED BY ONLY <1>1, <3>1, <3>2, <3>3 DEF GoodPage
  <2>9. CASE p = 0
    <3>1. k = RuneSize(read) /\ d[off + 1] = t[1] /\ t[1] = read[1]
      <4>1. 1 \in 1 .. lim
        BY ONLY <1>2
      <4> QED BY ONLY <2>2, <2>6, <2>7, <2>9, <4>1
    <3>2. k = RuneSize(From(read, 1)) /\ 1 \in 1 .. Len(read)
      <4>1. 1 \in 1 .. Len(read)
        BY ONLY <1>2, <1>4
      <4>2. From(read, 1) = read
        <5>1. read \in Seq(Utf8)
          BY ONLY <1>4
        <5> QED BY ONLY <5>1, SubSeqFull DEF From
      <4> QED BY <3>1, <4>1, <4>2
    <3>3. /\ k \in 1 .. 3 /\ 1 + k - 1 <= Len(read) /\ (k # 1 => RuneAt(read, 1, k))
          /\ \A r : RuneAt(read, 1, r) => r = k
      BY ONLY <1>4, <3>2, RuneSizeIs
    <3>4. ASSUME NEW r PROVE RuneAt(read, 1, r) <=> RuneAt(d, off + 1, r)
      <4>1. ASSUME r \in {2, 3}, d[off + 1] = r
            PROVE  1 + r - 1 <= Len(read) <=> (off + 1) + r - 1 <= n
        BY ONLY <1>2, <1>4, <4>1, <1>7
      <4>2. ASSUME r \in {2, 3}, 1 + r - 1 <= Len(read)
            PROVE  (\A i \in 1 + 1 .. 1 + r - 1 : read[i] = Cont)
                      <=> \A i \in (off + 1) + 1 .. (off + 1) + r - 1 : d[i] = Cont
        <5>1. ASSUME NEW i \in 1 + 1 .. 1 + r - 1
              PROVE  off + i \in (off + 1) + 1 .. (off + 1) + r - 1 /\ read[i] = d[off + i]
          <6>1. i \in 1 .. z - off /\ off + i \in (off + 1) + 1 .. (off + 1) + r - 1
            BY ONLY <1>2, <1>4, <4>2, <5>1
          <6> QED BY ONLY <1>4, <6>1
        <5>2. ASSUME NEW i \in (off + 1) + 1 .. (off + 1) + r - 1
              PROVE  i - off \in 1 + 1 .. 1 + r - 1 /\ read[i - off] = d[i]
          <6>1. i - off \in 1 .. z - off /\ i - off \in 1 + 1 .. 1 + r - 1 /\ off + (i - off) = i
            BY ONLY <1>2, <1>4, <4>2, <5>2
          <6> QED BY ONLY <1>4, <6>1
        <5> QED BY ONLY <5>1, <5>2
      <4> QED BY ONLY <1>1, <3>1, <4>1, <4>2 DEF RuneAt
    <3>5. PICK q : q = RuneSize(From(d, off + 1))
      OBVIOUS
    <3>6. PICK e \in 1 .. Len(d) : e = off + 1
      BY <1>1, <1>2
    <3>7. /\ q \in 1 .. 3 /\ (q # 1 => RuneAt(d, e, q))
          /\ \A r : RuneAt(d, e, r) => r = q
      <4>1. q = RuneSize(From(d, e))
        BY <3>5, <3>6
      <4> QED BY ONLY <4>1, d \in Seq(Utf8), RuneSizeIs
    <3>8. q = k
      <4>1. k # 1 => k = q
        BY ONLY <3>3, <3>4, <3>6, <3>7
      <4>2. q # 1 => q = k
        BY ONLY <3>3, <3>4, <3>6, <3>7
      <4> QED BY ONLY <4>1, <4>2
    <3>9. k \in 1 .. n - off /\ k <= lim + 3
      BY ONLY <1>2, <1>4, <3>3
    <3>10. ASSUME NEW f \in off + 1 .. off + k, NEW r, RuneAt(d, f, r) PROVE f + r - 1 <= off + k
      <4>1. CASE f = off + 1
        <5>1. r = q
          BY ONLY <3>6, <3>7, <3>10, <4>1
        <5> QED BY ONLY <1>2, <3>8, <3>9, <4>1, <5>1
      <4>2. CASE f # off + 1
        <5>1. k # 1 /\ f \in e + 1 .. e + k - 1
          BY ONLY <1>2, <3>6, <3>9, <4>2, f \in off + 1 .. off + k
        <5>2. RuneAt(d, e, k)
          BY ONLY <3>7, <3>8, <5>1
        <5>3. d[f] = Cont /\ d[f] = r /\ r \in {2, 3}
          BY ONLY <3>10, <5>1, <5>2 DEF RuneAt
        <5> QED BY ONLY <5>3 DEF Cont
      <4> QED BY <4>1, <4>2
    <3>11. k <= lim + UTFMax - 1
      BY ONLY <1>2, <1>5, <3>9
    <3> QED BY ONLY <1>1, <3>5, <3>8, <3>9, <3>10, <3>11 DEF GoodPage
  <2> QED BY ONLY <2>5, <2>8, <2>9
<1> QED BY ONLY <1>2, <1>4, <1>6, <1>7

PageTypeOK ==
    /\ data \in Seq(Utf8) /\ limit \in Nat \ {0}
    /\ pages \in Seq([from : Nat, next : Nat])
    /\ ends \in Seq(Nat) /\ Len(ends) = Len(pages)
    /\ \A i \in 1 .. Len(ends) : ends[i] <= Len(data)

PageInv == PageTypeOK /\ PagesExact

LEMMA GrowKeeps ==
    ASSUME PageInv, Grow
    PROVE  PageInv'
<1>1. PICK b \in Utf8 : data' = Append(data, b) /\ UNCHANGED <<limit, pages, ends>>
  BY DEF Grow
<1>2. PICK d, n : d = data /\ n = Len(d)
  OBVIOUS
<1>3. d \in Seq(Utf8) /\ n \in Nat /\ data' = Append(d, b) /\ Append(d, b) \in Seq(Utf8) /\ Len(data') = n + 1
  BY <1>1, <1>2 DEF PageInv, PageTypeOK
<1>4. ASSUME NEW i \in 1 .. Len(pages)
      PROVE  /\ pages[i].from \in Nat /\ pages[i].next \in Nat /\ ends[i] \in Nat /\ ends[i] <= n
             /\ pages[i].from + 1 <= pages[i].next /\ pages[i].next <= n
  <2>1. pages[i] \in [from : Nat, next : Nat]
    BY ElementOfSeq DEF PageInv, PageTypeOK
  <2>2. ends[i] \in Nat /\ ends[i] <= n
    BY <1>2, ElementOfSeq DEF PageInv, PageTypeOK
  <2>3. pages[i].next \in pages[i].from + 1 .. n
    BY <1>2 DEF PageInv, PagesExact, PagesAdvance
  <2> QED BY ONLY <1>3, <2>1, <2>2, <2>3
<1>5. PageTypeOK'
  <2>1. \A i \in 1 .. Len(ends) : ends[i] <= n + 1
    <3>1. Len(ends) = Len(pages)
      BY DEF PageInv, PageTypeOK
    <3>2. ASSUME NEW i \in 1 .. Len(pages) PROVE ends[i] <= n + 1
      <4>1. ends[i] \in Nat /\ ends[i] <= n
        BY <1>4
      <4> QED BY ONLY <1>3, <4>1
    <3> QED BY <3>1, <3>2
  <2> QED BY <1>1, <1>3, <2>1 DEF PageInv, PageTypeOK
\* A size of more than one byte stays.
<1>6. ASSUME NEW f \in 1 .. n
      PROVE  RuneSize(From(d, f)) # 1 => RuneSize(From(Append(d, b), f)) = RuneSize(From(d, f))
  <2>1. PICK k, l : k = RuneSize(From(d, f)) /\ l = RuneSize(From(Append(d, b), f))
    OBVIOUS
  <2>2. k # 1 => RuneAt(d, f, k)
    BY ONLY <1>2, <1>3, <2>1, f \in 1 .. n, RuneSizeIs
  <2>3. RuneAt(d, f, k) => RuneAt(Append(d, b), f, k)
    BY ONLY <1>2, <1>3, b \in Utf8, f \in 1 .. n, RuneStays
  <2>4. f \in 1 .. Len(Append(d, b))
    BY <1>3
  <2>5. \A r : RuneAt(Append(d, b), f, r) => r = l
    BY ONLY <1>3, <2>1, <2>4, RuneSizeIs
  <2> QED BY ONLY <2>1, <2>2, <2>3, <2>5
<1>7. PagesAdvance'
  <2> SUFFICES ASSUME NEW i \in 1 .. Len(pages)
               PROVE  /\ pages[i].from = IF i = 1 THEN 0 ELSE pages[i - 1].next
                      /\ pages[i].next \in pages[i].from + 1 .. n + 1
                      /\ pages[i].next - pages[i].from <= limit + UTFMax - 1
                      /\ pages[i].next - pages[i].from > limit =>
                            RuneSize(From(Append(d, b), pages[i].from + 1)) = pages[i].next - pages[i].from
    BY <1>1, <1>2, <1>3 DEF PagesAdvance
  <2>1. PICK a, c : a = pages[i].from /\ c = pages[i].next
    OBVIOUS
  <2>2. /\ a = (IF i = 1 THEN 0 ELSE pages[i - 1].next)
        /\ c - a <= limit + UTFMax - 1
        /\ c - a > limit => RuneSize(From(d, a + 1)) = c - a
    BY <1>2, <2>1 DEF PageInv, PagesExact, PagesAdvance
  <2>3. a \in Nat /\ c \in Nat /\ a + 1 <= c /\ c <= n
    BY <1>4, <2>1
  <2>4. limit \in Nat \ {0}
    BY DEF PageInv, PageTypeOK
  <2>5. ASSUME c - a > limit PROVE RuneSize(From(Append(d, b), a + 1)) = c - a
    <3>1. a + 1 \in 1 .. n /\ c - a # 1
      BY ONLY <1>3, <2>3, <2>4, <2>5
    <3>2. RuneSize(From(d, a + 1)) = c - a
      BY <2>2, <2>5
    <3> QED BY ONLY <1>6, <3>1, <3>2
  <2>6. c \in a + 1 .. n + 1
    BY ONLY <1>3, <2>3
  <2> QED BY <2>1, <2>2, <2>5, <2>6
<1>8. RunesWhole'
  <2> SUFFICES ASSUME NEW i \in 1 .. Len(pages), NEW m \in pages[i].next + 1 .. n + 1,
                      NEW f \in pages[i].from + 1 .. pages[i].next,
                      f + RuneSize(From(Append(d, b), f)) - 1 = m
               PROVE  m > ends[i]
    BY <1>1, <1>2, <1>3 DEF RunesWhole, Across
  <2>1. PICK k : k = RuneSize(From(Append(d, b), f))
    OBVIOUS
  <2>2. f \in 1 .. n /\ m \in Nat
    BY ONLY <1>3, <1>4, i \in 1 .. Len(pages), m \in pages[i].next + 1 .. n + 1,
            f \in pages[i].from + 1 .. pages[i].next
  <2>3. CASE m = n + 1
    BY ONLY <1>3, <1>4, <2>3, i \in 1 .. Len(pages)
  <2>4. CASE m # n + 1
    <3>1. f \in 1 .. Len(Append(d, b))
      BY <1>3, <2>2
    <3>2. k \in 1 .. 3 /\ (k # 1 => RuneAt(Append(d, b), f, k))
      BY ONLY <1>3, <2>1, <3>1, RuneSizeIs
    <3>3. k # 1 /\ f + k - 1 = m /\ m <= n
      <4>1. f + k - 1 = m
        BY <2>1
      <4>2. pages[i].next \in Nat
        BY <1>4
      <4> QED BY ONLY <1>3, <2>2, <2>4, <3>2, <4>1, <4>2, m \in pages[i].next + 1 .. n + 1,
                      f \in pages[i].from + 1 .. pages[i].next
    <3>4. RuneAt(d, f, k)
      BY ONLY <1>2, <1>3, <2>2, <3>2, <3>3, b \in Utf8, RuneStays
    <3>5. RuneSize(From(d, f)) = k
      BY ONLY <1>2, <1>3, <2>2, <3>4, RuneSizeIs
    <3>6. m \in pages[i].next + 1 .. n
      BY ONLY <1>3, <1>4, <2>2, <3>3, i \in 1 .. Len(pages), m \in pages[i].next + 1 .. n + 1
    <3>7. m \in Across(pages[i])
      BY <1>2, <3>3, <3>5, <3>6 DEF Across
    <3> QED BY <3>7 DEF PageInv, PagesExact, RunesWhole
  <2> QED BY <2>3, <2>4
<1> QED BY <1>5, <1>7, <1>8 DEF PageInv, PagesExact

LEMMA ReadKeeps ==
    ASSUME PageInv, ReadCommandOutput
    PROVE  PageInv'
<1>1. PICK d, n, off, lim, N : d = data /\ n = Len(data) /\ off = Offset /\ lim = limit /\ N = Len(pages)
  OBVIOUS
<1>2. PICK read : read = SubSeq(d, off + 1, Min({Len(d), off + lim + UTFMax - 1}))
  OBVIOUS
<1>3. PICK k : k = UTF8Page(read, lim, off + Len(read) < Len(d))
  OBVIOUS
<1>4. /\ off < n /\ pages' = Append(pages, [from |-> off, next |-> off + k])
      /\ ends' = Append(ends, n) /\ data' = d /\ limit' = lim
  BY <1>1, <1>2, <1>3 DEF ReadCommandOutput
<1>5. /\ d \in Seq(Utf8) /\ n \in Nat /\ n = Len(d) /\ lim \in Nat \ {0}
      /\ pages \in Seq([from : Nat, next : Nat]) /\ ends \in Seq(Nat) /\ Len(ends) = N /\ N \in Nat
  BY <1>1 DEF PageInv, PageTypeOK
<1>6. off \in Nat /\ off = IF N = 0 THEN 0 ELSE pages[N].next
  <2>1. CASE N = 0
    <3>1. pages = <<>>
      BY <1>1, <1>5, <2>1, EmptySeq
    <3> QED BY <1>1, <2>1, <3>1 DEF Offset
  <2>2. CASE N # 0
    <3>1. N \in 1 .. Len(pages) /\ pages # <<>>
      BY <1>1, <1>5, <2>2, EmptySeq
    <3>2. pages[N] \in [from : Nat, next : Nat]
      BY <1>5, <3>1, ElementOfSeq
    <3> QED BY <1>1, <2>2, <3>1, <3>2 DEF Offset
  <2> QED BY <2>1, <2>2
<1>7. GoodPage(d, off, lim, k)
  <2>1. off < Len(d)
    BY <1>4, <1>5
  <2> QED BY ONLY <1>2, <1>3, <1>5, <1>6, <2>1, PageIsGood
<1>8. PICK page : page = [from |-> off, next |-> off + k]
  OBVIOUS
<1>9. k \in 1 .. n - off /\ k \in Nat /\ k <= lim + UTFMax - 1 /\ page \in [from : Nat, next : Nat]
      /\ page.from = off /\ page.next = off + k
  <2>1. k \in 1 .. n - off /\ k <= lim + UTFMax - 1
    BY <1>5, <1>7 DEF GoodPage
  <2>2. k \in Nat
    BY ONLY <2>1, <1>5, <1>6
  <2>3. off + k \in Nat
    BY ONLY <1>6, <2>2
  <2> QED BY <1>6, <1>8, <2>1, <2>2, <2>3
<1> DEFINE next == off + k
<1>16. /\ n \in Nat /\ off \in Nat /\ k \in Nat /\ lim \in Nat /\ k >= 1 /\ next = off + k /\ next <= n
       /\ page.from = off /\ page.next = next
  <2>1. n \in Nat /\ off \in Nat /\ k \in Nat /\ lim \in Nat /\ k \in 1 .. n - off
    BY <1>5, <1>6, <1>9
  <2>2. k >= 1 /\ off + k <= n
    BY ONLY <2>1
  <2> QED BY <1>9, <2>1, <2>2
<1>10. /\ pages' \in Seq([from : Nat, next : Nat]) /\ Len(pages') = N + 1
       /\ pages'[N + 1] = page /\ \A i \in 1 .. N : pages'[i] = pages[i]
  BY <1>1, <1>4, <1>5, <1>8, <1>9, AppendProperties
<1>11. /\ ends' \in Seq(Nat) /\ Len(ends') = N + 1
       /\ ends'[N + 1] = n /\ \A i \in 1 .. N : ends'[i] = ends[i]
  BY <1>1, <1>4, <1>5, AppendProperties
<1>12. \A i \in 1 .. N + 1 : i \in 1 .. N \/ i = N + 1
  BY ONLY <1>5
<1>13. PageTypeOK'
  <2>1. \A i \in 1 .. N + 1 : ends'[i] <= n
    <3>1. \A i \in 1 .. N : ends[i] <= n
      BY <1>1, <1>5 DEF PageInv, PageTypeOK
    <3> QED BY <1>5, <1>11, <1>12, <3>1
  <2> QED BY <1>1, <1>4, <1>5, <1>10, <1>11, <2>1 DEF PageTypeOK
<1>14. PagesAdvance'
  <2> SUFFICES ASSUME NEW i \in 1 .. N + 1
               PROVE  /\ pages'[i].from = IF i = 1 THEN 0 ELSE pages'[i - 1].next
                      /\ pages'[i].next \in pages'[i].from + 1 .. n
                      /\ pages'[i].next - pages'[i].from <= lim + UTFMax - 1
                      /\ pages'[i].next - pages'[i].from > lim =>
                            RuneSize(From(d, pages'[i].from + 1)) = pages'[i].next - pages'[i].from
    BY <1>4, <1>5, <1>10 DEF PagesAdvance
  <2>1. CASE i \in 1 .. N
    <3>1. pages'[i] = pages[i] /\ (i # 1 => pages'[i - 1] = pages[i - 1])
      <4>1. i # 1 => i - 1 \in 1 .. N
        BY ONLY <1>5, <2>1
      <4> QED BY <1>10, <2>1, <4>1
    <3> QED BY <1>1, <2>1, <3>1 DEF PageInv, PagesExact, PagesAdvance
  <2>2. CASE i = N + 1
    <3>1. page.from = IF i = 1 THEN 0 ELSE pages'[i - 1].next
      <4>1. CASE N = 0
        BY <1>6, <1>9, <2>2, <4>1
      <4>2. CASE N # 0
        <5>1. i # 1 /\ i - 1 = N /\ N \in 1 .. N
          BY ONLY <1>5, <2>2, <4>2
        <5> QED BY <1>6, <1>9, <1>10, <4>2, <5>1
      <4> QED BY <4>1, <4>2
    <3>2. page.next - page.from = k /\ page.next \in page.from + 1 .. n
      <4>1. off + k - off = k /\ off + k \in off + 1 .. n
        BY ONLY <1>16
      <4> QED BY <1>16, <4>1
    <3>3. k > lim => RuneSize(From(d, off + 1)) = k
      BY <1>7 DEF GoodPage
    <3> QED BY <1>9, <1>10, <2>2, <3>1, <3>2, <3>3
  <2> QED BY <1>12, <2>1, <2>2
<1>15. RunesWhole'
  <2> SUFFICES ASSUME NEW i \in 1 .. N + 1, NEW m \in pages'[i].next + 1 .. n,
                      NEW f \in pages'[i].from + 1 .. pages'[i].next,
                      f + RuneSize(From(d, f)) - 1 = m
               PROVE  m > ends'[i]
    BY <1>4, <1>5, <1>10 DEF RunesWhole, Across
  <2>1. CASE i \in 1 .. N
    <3>1. pages'[i] = pages[i] /\ ends'[i] = ends[i]
      BY <1>10, <1>11, <2>1
    <3>2. m \in Across(pages[i])
      BY <1>1, <3>1 DEF Across
    <3> QED BY <1>1, <2>1, <3>1, <3>2 DEF PageInv, PagesExact, RunesWhole
  <2>2. CASE i = N + 1
    <3>1. m \in off + k + 1 .. n /\ f \in off + 1 .. off + k
      BY <1>9, <1>10, <2>2
    <3>2. PICK r : r = RuneSize(From(d, f)) /\ f + r - 1 = m
      OBVIOUS
    <3>3. f \in 1 .. Len(d)
      <4>1. f \in 1 .. n
        BY ONLY <1>16, <3>1
      <4> QED BY <1>5, <4>1
    <3>4. r \in 1 .. 3 /\ (r # 1 => RuneAt(d, f, r))
      BY ONLY <1>5, <3>2, <3>3, RuneSizeIs
    <3>5. RuneAt(d, f, r) => f + r - 1 <= off + k
      BY ONLY <1>7, <3>1 DEF GoodPage
    <3>6. r # 1
      BY ONLY <1>16, <3>1, <3>2
    <3>7. m <= off + k
      BY ONLY <3>2, <3>4, <3>5, <3>6
    <3> QED BY ONLY <1>16, <3>1, <3>7
  <2> QED BY <1>12, <2>1, <2>2
<1> QED BY <1>13, <1>14, <1>15 DEF PageInv, PagesExact

\* ReadCommandOutput, UTF8Page: whatever bytes are written and whatever the page size, following
\* the offsets reads every byte once, always gets on, and splits no character that was whole.
THEOREM PagesAreExact == PageSpec => []PagesExact
<1>1. PageInit => PageInv
  <2> SUFFICES ASSUME PageInit PROVE PageInv
    OBVIOUS
  <2>1. PageTypeOK
    <3>1. <<>> \in Seq(Utf8) /\ <<>> \in Seq([from : Nat, next : Nat]) /\ <<>> \in Seq(Nat) /\ Len(<<>>) = 0
      OBVIOUS
    <3> QED BY <3>1, PagingConstantsOK DEF PageInit, PageTypeOK
  <2>2. \A i \in 1 .. Len(pages) : FALSE
    BY DEF PageInit
  <2> QED BY <2>1, <2>2 DEF PageInv, PagesExact, PagesAdvance, RunesWhole
<1>2. PageInv /\ [PageNext]_pageVars => PageInv'
  <2> SUFFICES ASSUME PageInv, [PageNext]_pageVars PROVE PageInv'
    OBVIOUS
  <2>1. CASE UNCHANGED pageVars
    BY <2>1 DEF pageVars, PageInv, PageTypeOK, PagesExact, PagesAdvance, RunesWhole, Across
  <2> QED BY <2>1, GrowKeeps, ReadKeeps DEF PageNext
<1> QED BY <1>1, <1>2, PTL DEF PageSpec, PageInv

-----------------------------------------------------------------------------
(* OutputLines *)

LineTypeOK ==
    /\ lines \in Seq(Lines) /\ Len(lines) <= MaxLines
    /\ ended \in BOOLEAN

\* f holds, for each k up to n, the pieces g[0] to g[k] one after the other.
GatherStep(g, f, k) == IF k = 0 THEN g[0] ELSE f[k - 1] \o g[k]

Gathers(g, f, n) == f = [k \in 0 .. n |-> GatherStep(g, f, k)]

\* The recursion of Gathered has a solution.
LEMMA GatheredIs ==
    ASSUME NEW n \in Nat, NEW g
    PROVE  \E f : Gathers(g, f, n) /\ Gathered(g, n) = f[n]
<1> DEFINE Solved(k) == \E f : Gathers(g, f, k)
           Unsolved == {k \in Nat : ~Solved(k)}
<1>1. Solved(0)
  <2> DEFINE f == [k \in 0 .. 0 |-> g[0]]
  <2>1. Gathers(g, f, 0)
    BY DEF Gathers, GatherStep
  <2> QED BY <2>1
<1>2. ASSUME NEW k \in Nat, Solved(k) PROVE Solved(k + 1)
  <2>1. PICK f : Gathers(g, f, k)
    BY <1>2
  <2> DEFINE h == [i \in 0 .. k + 1 |-> GatherStep(g, f, i)]
  <2>2. f = [i \in 0 .. k |-> GatherStep(g, f, i)]
    BY <2>1 DEF Gathers
  <2>3. \A i \in 0 .. k : h[i] = f[i]
    BY <2>2
  <2>4. ASSUME NEW i \in 0 .. k + 1 PROVE GatherStep(g, f, i) = GatherStep(g, h, i)
    <3>1. i # 0 => i - 1 \in 0 .. k
      OBVIOUS
    <3>2. i # 0 => h[i - 1] = f[i - 1]
      BY <2>3, <3>1
    <3> HIDE DEF h
    <3> QED BY <3>2 DEF GatherStep
  <2>5. h = [i \in 0 .. k + 1 |-> GatherStep(g, h, i)]
    BY <2>4
  <2>6. Gathers(g, h, k + 1)
    BY <2>5 DEF Gathers
  <2> QED BY <2>6
<1>3. Unsolved = {}
  <2> SUFFICES ASSUME Unsolved # {} PROVE FALSE
    OBVIOUS
  <2> HIDE DEF Solved
  <2>1. PICK k \in Unsolved : \A l \in Unsolved : k <= l
    BY LeastNat
  <2>2. k # 0
    BY <1>1
  <2>3. k - 1 \in Nat /\ k - 1 \notin Unsolved /\ (k - 1) + 1 = k
    BY <2>1, <2>2
  <2>4. Solved((k - 1) + 1)
    BY <1>2, <2>3
  <2> QED BY <2>3, <2>4
<1>4. \E f : Gathers(g, f, n)
  <2> HIDE DEF Solved
  <2>1. Solved(n)
    BY <1>3
  <2> QED BY <2>1 DEF Solved
<1>5. Gathered(g, n) = (CHOOSE f : Gathers(g, f, n))[n]
  BY DEF Gathered, Gathers, GatherStep
<1> QED BY <1>4, <1>5

(* The lines that match *)

\* m is the numbered lines of s up to the k-th that are wanted, in order.
ListsUpTo(m, s, wanted, k) ==
    /\ m \in Seq(Int \X Lines) /\ Len(m) <= k
    /\ \A i \in 1 .. Len(m) : m[i][1] \in 1 .. k /\ m[i][2] = s[m[i][1]] /\ m[i][2] \in wanted
    /\ \A i, j \in 1 .. Len(m) : i < j => m[i][1] < m[j][1]
    /\ \A n \in 1 .. k : s[n] \in wanted => \E i \in 1 .. Len(m) : m[i] = <<n, s[n]>>

LEMMA ListsMore ==
    ASSUME NEW s \in Seq(Lines), NEW wanted, NEW k \in 1 .. Len(s),
           NEW m, ListsUpTo(m, s, wanted, k - 1), NEW r,
           r = m \o (IF s[k] \in wanted THEN <<<<k, s[k]>>>> ELSE <<>>)
    PROVE  ListsUpTo(r, s, wanted, k)
<1>1. m \in Seq(Int \X Lines) /\ Len(m) \in Nat /\ Len(m) <= k - 1 /\ k \in Nat /\ s[k] \in Lines
  BY ElementOfSeq DEF ListsUpTo
<1>2. CASE s[k] \notin wanted
  <2>1. r = m
    BY <1>1, <1>2
  <2>2. Len(m) <= k /\ \A i \in 1 .. k - 1 : i \in 1 .. k
    BY <1>1
  <2>3. \A n \in 1 .. k : s[n] \in wanted => n \in 1 .. k - 1
    BY <1>1, <1>2
  <2> QED BY <2>1, <2>2, <2>3 DEF ListsUpTo
<1>3. CASE s[k] \in wanted
  <2>1. PICK e : e = <<k, s[k]>>
    OBVIOUS
  <2>2. e \in Int \X Lines /\ e[1] = k /\ e[2] = s[k]
    BY <1>1, <2>1
  <2>3. /\ r \in Seq(Int \X Lines) /\ Len(r) = Len(m) + 1 /\ r[Len(m) + 1] = e
        /\ \A i \in 1 .. Len(m) : r[i] = m[i]
    BY <1>1, <1>3, <2>1, <2>2
  <2>4. \A i \in 1 .. Len(r) : i \in 1 .. Len(m) \/ i = Len(m) + 1
    BY <1>1, <2>3
  <2>5. \A i \in 1 .. Len(r) : r[i][1] \in 1 .. k /\ r[i][2] = s[r[i][1]] /\ r[i][2] \in wanted
    BY <1>1, <1>3, <2>2, <2>3, <2>4 DEF ListsUpTo
  <2>6. \A i, j \in 1 .. Len(r) : i < j => r[i][1] < r[j][1]
    BY <1>1, <2>2, <2>3, <2>4 DEF ListsUpTo
  <2>7. ASSUME NEW n \in 1 .. k, s[n] \in wanted
        PROVE  \E i \in 1 .. Len(r) : r[i] = <<n, s[n]>>
    <3>1. CASE n = k
      <4>1. Len(m) + 1 \in 1 .. Len(r) /\ r[Len(m) + 1] = <<n, s[n]>>
        BY <1>1, <2>1, <2>3, <3>1
      <4> QED BY <4>1
    <3>2. CASE n # k
      <4>1. n \in 1 .. k - 1
        BY <1>1, <3>2
      <4>2. PICK i \in 1 .. Len(m) : m[i] = <<n, s[n]>>
        BY <2>7, <4>1 DEF ListsUpTo
      <4>3. i \in 1 .. Len(r) /\ r[i] = m[i]
        BY <1>1, <2>3
      <4> QED BY <4>2, <4>3
    <3> QED BY <3>1, <3>2
  <2>8. r \in Seq(Int \X Lines) /\ Len(r) <= k
    BY <1>1, <2>3
  <2> QED BY <2>5, <2>6, <2>7, <2>8 DEF ListsUpTo
<1> QED BY <1>2, <1>3

LEMMA MatchingLists ==
    ASSUME LineTypeOK, NEW wanted
    PROVE  ListsUpTo(Matching(wanted), lines, wanted, Len(lines))
<1>1. PICK s, n : s = lines /\ n = Len(lines)
  OBVIOUS
<1>2. s \in Seq(Lines) /\ n \in Nat /\ n = Len(s)
  BY <1>1 DEF LineTypeOK
<1>3. PICK g : g = [i \in 0 .. n |-> IF i > 0 /\ s[i] \in wanted THEN <<<<i, s[i]>>>> ELSE <<>>]
  OBVIOUS
<1>4. Matching(wanted) = Gathered(g, n)
  BY <1>1, <1>3 DEF Matching
<1>5. PICK f : Gathers(g, f, n) /\ Gathered(g, n) = f[n]
  BY <1>2, GatheredIs
<1>6. f[0] = <<>> /\ \A k \in 1 .. n : f[k] = f[k - 1] \o g[k]
  <2>1. f = [k \in 0 .. n |-> GatherStep(g, f, k)]
    BY <1>5 DEF Gathers
  <2>2. f[0] = g[0] /\ g[0] = <<>>
    BY <1>2, <1>3, <2>1 DEF GatherStep
  <2>3. ASSUME NEW k \in 1 .. n PROVE f[k] = f[k - 1] \o g[k]
    <3>1. k \in 0 .. n /\ k # 0
      BY <1>2
    <3> QED BY <2>1, <3>1 DEF GatherStep
  <2> QED BY <2>2, <2>3
<1> DEFINE Wrong == {k \in 0 .. n : ~ListsUpTo(f[k], s, wanted, k)}
<1>7. Wrong = {}
  <2> SUFFICES ASSUME Wrong # {} PROVE FALSE
    OBVIOUS
  <2>0. Wrong \in SUBSET Nat
    BY <1>2
  <2>1. PICK k \in Wrong : \A l \in Wrong : k <= l
    <3> HIDE DEF Wrong
    <3> QED BY <2>0, LeastNat
  <2>2. ListsUpTo(f[0], s, wanted, 0)
    BY <1>6 DEF ListsUpTo
  <2>3. k \in 1 .. n /\ k - 1 \in 0 .. n /\ k - 1 \notin Wrong
    BY <1>2, <2>1, <2>2
  <2>4. g[k] = IF s[k] \in wanted THEN <<<<k, s[k]>>>> ELSE <<>>
    BY <1>2, <1>3, <2>3
  <2>5. ListsUpTo(f[k - 1], s, wanted, k - 1)
    BY <2>3
  <2>6. f[k] = f[k - 1] \o g[k]
    BY <1>6, <2>3
  <2>7. ListsUpTo(f[k], s, wanted, k)
    BY ONLY <1>2, <2>3, <2>4, <2>5, <2>6, ListsMore
  <2> QED BY <2>1, <2>7
<1>8. ListsUpTo(f[n], s, wanted, n)
  BY <1>2, <1>7
<1> QED BY <1>1, <1>4, <1>5, <1>8

(* Pages of lines *)

LEMMA SubSeqJoin ==
    ASSUME NEW S, NEW m \in Seq(S), NEW c \in 0 .. Len(m), NEW a \in 0 .. c
    PROVE  SubSeq(m, 1, a) \o SubSeq(m, a + 1, c) = SubSeq(m, 1, c)
<1>1. 0 \in 0 .. a /\ Within(m, 0, a) \o Within(m, a, c) = Within(m, 0, c)
  BY WithinJoin
<1>2. 0 + 1 = 1
  OBVIOUS
<1> QED BY <1>1, <1>2 DEF Within

\* The pages of a list up to the k-th are its beginning.
LEMMA PagesAreAll ==
    ASSUME NEW S, NEW m \in Seq(S), NEW last \in Nat, Len(m) <= last, NEW count \in Nat \ {0},
           NEW g, g = [k \in 0 .. last |-> Some(m, k * count + 1, k * count + count)]
    PROVE  Gathered(g, last) = m
<1>1. PICK f : Gathers(g, f, last) /\ Gathered(g, last) = f[last]
  BY GatheredIs
<1>2. f = [k \in 0 .. last |-> GatherStep(g, f, k)]
  BY <1>1 DEF Gathers
<1> DEFINE First(n) == SubSeq(m, 1, IF n < Len(m) THEN n ELSE Len(m))
           Wrong == {k \in 0 .. last : f[k] # First(k * count + count)}
<1>3. Len(m) \in Nat /\ \A k \in 0 .. last : k * count \in Nat
  OBVIOUS
<1>4. f[0] = First(0 * count + count)
  <2>1. 0 * count = 0
    OBVIOUS
  <2>2. f[0] = Some(m, 1, count)
    BY <1>2, <2>1 DEF GatherStep
  <2> QED BY <2>1, <2>2 DEF Some
<1>5. ASSUME NEW a \in Nat, NEW b \in Nat, a <= b
      PROVE  First(a) \o Some(m, a + 1, b) = First(b)
  <2>1. PICK n \in Nat : n = Len(m)
    OBVIOUS
  <2>2. PICK u : u = Some(m, a + 1, b)
    OBVIOUS
  <2>3. CASE a >= n
    <3>1. First(a) = SubSeq(m, 1, n) /\ First(b) = SubSeq(m, 1, n) /\ u = SubSeq(m, a + 1, n)
      BY <1>5, <2>1, <2>2, <2>3 DEF Some
    <3>2. a + 1 \in Int /\ n < a + 1
      BY <2>1, <2>3
    <3>3. u = <<>> /\ SubSeq(m, 1, n) = m
      BY <2>1, <3>1, <3>2, SubSeqEmpty
    <3>4. m \o <<>> = m
      OBVIOUS
    <3> HIDE DEF First
    <3> QED BY <2>2, <3>1, <3>3, <3>4
  <2>4. CASE a < n
    <3>1. PICK c \in a .. n : c = IF b < n THEN b ELSE n
      BY <1>5, <2>4
    <3>2. First(a) = SubSeq(m, 1, a) /\ First(b) = SubSeq(m, 1, c) /\ u = SubSeq(m, a + 1, c)
      BY <1>5, <2>1, <2>2, <2>4, <3>1 DEF Some
    <3>3. SubSeq(m, 1, a) \o SubSeq(m, a + 1, c) = SubSeq(m, 1, c)
      <4>1. a \in 0 .. c /\ c \in 0 .. Len(m)
        BY <2>1, <2>4, <3>1
      <4> QED BY <4>1, SubSeqJoin
    <3> HIDE DEF First
    <3> QED BY <2>2, <3>2, <3>3
  <2>5. a >= n \/ a < n
    BY <2>1
  <2> QED BY <2>3, <2>4, <2>5
<1>6. Wrong = {}
  <2> SUFFICES ASSUME Wrong # {} PROVE FALSE
    OBVIOUS
  <2>0. Wrong \in SUBSET Nat
    OBVIOUS
  <2>1. PICK k \in Wrong : \A l \in Wrong : k <= l
    <3> HIDE DEF Wrong
    <3> QED BY <2>0, LeastNat
  <2>2. k \in 1 .. last /\ k - 1 \in 0 .. last /\ k - 1 \notin Wrong
    <3>1. k \in 0 .. last /\ k # 0
      BY <1>4
    <3>2. k - 1 \in 0 .. last /\ ~(k <= k - 1)
      BY <3>1
    <3> HIDE DEF Wrong
    <3> QED BY <2>1, <3>1, <3>2
  <2>3. PICK a \in Nat : a = k * count /\ a = (k - 1) * count + count
    BY <1>3, <2>2
  <2>4. f[k - 1] = First(a)
    BY <2>2, <2>3
  <2>5. g[k] = Some(m, a + 1, a + count)
    BY <2>2, <2>3
  <2>6. f[k] = f[k - 1] \o g[k]
    <3>1. k \in 0 .. last /\ k # 0
      BY <2>2
    <3> QED BY <1>2, <3>1 DEF GatherStep
  <2>7. f[k] = First(a + count)
    <3>1. a + count \in Nat /\ a <= a + count
      BY <2>3
    <3> HIDE DEF First
    <3> QED BY <1>5, <2>3, <2>4, <2>5, <2>6, <3>1
  <2> QED BY <2>1, <2>3, <2>7
<1>7. f[last] = First(last * count + count)
  <2>1. last \in 0 .. last
    OBVIOUS
  <2> HIDE DEF First
  <2> QED BY <1>6, <2>1
<1>8. last * count + count >= Len(m)
  <2>1. PICK a \in Nat : a = last * count
    OBVIOUS
  <2>2. a >= last
    BY <2>1
  <2> QED BY ONLY <1>3, <2>1, <2>2, Len(m) <= last, count \in Nat, last \in Nat
<1>9. First(last * count + count) = m
  <2>1. PICK a \in Nat : a = last * count + count /\ a >= Len(m)
    BY <1>3, <1>8
  <2>2. First(a) = SubSeq(m, 1, Len(m)) /\ SubSeq(m, 1, Len(m)) = m
    BY <1>3, <2>1
  <2> QED BY <2>1, <2>2
<1> HIDE DEF First
<1> QED BY <1>1, <1>7, <1>9

LEMMA AnswerHasFirst == LineTypeOK => HeadIsFirstLines
<1> SUFFICES ASSUME LineTypeOK, NEW max \in 1 .. MaxLines
             PROVE  LET s == SelectLines(max, FALSE)
                    IN /\ s.cut <=> s.total > max
                       /\ s.cut => s.kept = Some(lines, 1, max)
                       /\ ~s.cut => Some(s.kept, 1, s.total) = lines
  BY DEF HeadIsFirstLines
<1>1. PICK l, p, n : l = lines /\ n = Len(lines) /\ p = IF ended THEN Append(lines, Blank) ELSE lines
  OBVIOUS
<1>2. l \in Seq(Lines) /\ n \in Nat /\ n = Len(l) /\ max \in Nat
  BY <1>1, LinesConstantsOK DEF LineTypeOK
<1>3. p \in Seq(Lines) /\ Len(p) >= n /\ Len(p) \in Nat /\ \A i \in 1 .. n : p[i] = l[i]
  BY <1>1, <1>2, LinesConstantsOK
<1>4. PICK s : s = SelectLines(max, FALSE)
  OBVIOUS
<1>5. s.total = n /\ (s.cut <=> n > max) /\ s.kept = IF n > max THEN SubSeq(p, 1, max) ELSE p
  BY <1>1, <1>4 DEF SelectLines
<1>6. ASSUME NEW c \in 0 .. n PROVE SubSeq(p, 1, c) = SubSeq(l, 1, c)
  BY <1>2, <1>3, <1>6
<1>7. s.cut => s.kept = Some(lines, 1, max)
  <2>1. n > max => max \in 0 .. n
    BY <1>2
  <2> QED BY <1>1, <1>2, <1>5, <1>6, <2>1 DEF Some
<1>8. ASSUME ~s.cut PROVE Some(s.kept, 1, s.total) = lines
  <2>1. Some(p, 1, n) = SubSeq(p, 1, n)
    BY <1>2, <1>3 DEF Some
  <2>2. SubSeq(l, 1, n) = l
    BY <1>2
  <2>3. SubSeq(p, 1, n) = SubSeq(l, 1, n)
    BY <1>2, <1>6
  <2> QED BY <1>1, <1>2, <1>5, <1>8, <2>1, <2>2, <2>3
<1> QED BY <1>2, <1>4, <1>5, <1>7, <1>8

LEMMA PagesHaveAll == LineTypeOK => ArtifactPages
<1> SUFFICES ASSUME LineTypeOK, NEW count \in 1 .. MaxLines, NEW wanted \in SUBSET Lines, NEW all,
                    all = Gathered([k \in 0 .. MaxLines |->
                                       ReadArtifact(k * count + 1, count, wanted)], MaxLines)
             PROVE  /\ \A n \in 1 .. Len(lines) :
                          lines[n] \in wanted => \E i \in 1 .. Len(all) : all[i] = <<n, lines[n]>>
                    /\ \A i \in 1 .. Len(all) : /\ all[i][1] \in 1 .. Len(lines)
                                                /\ all[i][2] = lines[all[i][1]]
                                                /\ all[i][2] \in wanted
                    /\ \A i, j \in 1 .. Len(all) : i < j => all[i][1] < all[j][1]
  BY DEF ArtifactPages
<1>1. MaxLines \in Nat /\ count \in Nat \ {0}
  BY LinesConstantsOK
<1>2. PICK m : m = Matching(wanted)
  OBVIOUS
<1>3. ListsUpTo(m, lines, wanted, Len(lines))
  BY <1>2, MatchingLists
<1>4. m \in Seq(Int \X Lines) /\ Len(m) <= MaxLines
  <2>1. m \in Seq(Int \X Lines) /\ Len(m) <= Len(lines) /\ Len(lines) <= MaxLines
    BY <1>3 DEF ListsUpTo, LineTypeOK
  <2>2. Len(m) \in Nat /\ Len(lines) \in Nat
    BY <2>1 DEF LineTypeOK
  <2> QED BY <1>1, <2>1, <2>2
<1>5. PICK g : g = [k \in 0 .. MaxLines |-> Some(m, k * count + 1, k * count + count)]
  OBVIOUS
<1>6. ASSUME NEW k \in 0 .. MaxLines
      PROVE  ReadArtifact(k * count + 1, count, wanted) = Some(m, k * count + 1, k * count + count)
  <2>1. PICK a \in Nat : a = k * count
    BY <1>1
  <2>2. ReadArtifact(a + 1, count, wanted) = Some(m, a + 1, a + count)
    BY <1>2 DEF ReadArtifact
  <2> QED BY <2>1, <2>2
<1>7. all = Gathered(g, MaxLines)
  BY <1>5, <1>6
<1>8. all = m
  BY ONLY <1>1, <1>4, <1>5, <1>7, PagesAreAll
<1> QED BY <1>3, <1>8 DEF ListsUpTo

\* selectLines and ReadArtifact: the answer has the first lines and says truthfully whether some
\* are missing, and the pages of a pattern have each line that matches once, in order and with its
\* number, for any output, page size and pattern.
THEOREM LinesAnswered == LineSpec => []LinesExact
<1>1. LineInit => LineTypeOK
  <2>1. <<>> \in Seq(Lines) /\ Len(<<>>) = 0 /\ 0 <= MaxLines
    BY LinesConstantsOK
  <2> QED BY <2>1 DEF LineInit, LineTypeOK
<1>2. LineTypeOK /\ [LineNext]_lineVars => LineTypeOK'
  <2> SUFFICES ASSUME LineTypeOK, [LineNext]_lineVars PROVE LineTypeOK'
    OBVIOUS
  <2>1. CASE PrintLine
    BY <2>1, LinesConstantsOK DEF PrintLine, LineTypeOK
  <2>2. CASE EndLine
    BY <2>2 DEF EndLine, LineTypeOK
  <2>3. CASE UNCHANGED lineVars
    BY <2>3 DEF lineVars, LineTypeOK
  <2> QED BY <2>1, <2>2, <2>3 DEF LineNext
<1>3. LineTypeOK => LinesExact
  BY AnswerHasFirst, PagesHaveAll DEF LinesExact
<1> QED BY <1>1, <1>2, <1>3, PTL DEF LineSpec

=============================================================================
