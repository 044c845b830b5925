------------------------------ MODULE MCCommands ------------------------------
(***************************************************************************)
(* Running commands, their output and the polls of the monitor: the parts  *)
(* share no variable, so that one run checks them side by side instead of  *)
(* multiplying their states.  A behaviour is one of one part, chosen at    *)
(* the start; the others stay as they were.                                *)
(***************************************************************************)
EXTENDS CommandRuns, FanOut, ExecSession, OutputCapture, OutputPaging, OutputLines,
        MonitorPoll

VARIABLE part

allVars == <<part, cmdVars, fanVars, sesVars, capVars, pageVars, lineVars, pollVars>>

\* The marker is a line end, a name and a colon.
TrailerMarker == <<"lf", "id", ":">>

Init ==
    /\ part \in {"command", "fanout", "session", "capture", "pages", "lines", "poll"}
    /\ CmdInit /\ FanInit /\ SesInit /\ CapInit /\ PageInit /\ LineInit /\ PollInit
    /\ part = "pages" \/ limit = 1   \* one start is enough for the others

Next ==
    /\ UNCHANGED part
    /\ \/ part = "command" /\ CmdNext
       \/ part # "command" /\ UNCHANGED cmdVars
    /\ \/ part = "fanout" /\ FanNext
       \/ part # "fanout" /\ UNCHANGED fanVars
    /\ \/ part = "session" /\ SesNext
       \/ part # "session" /\ UNCHANGED sesVars
    /\ \/ part = "capture" /\ CapNext
       \/ part # "capture" /\ UNCHANGED capVars
    /\ \/ part = "pages" /\ PageNext
       \/ part # "pages" /\ UNCHANGED pageVars
    /\ \/ part = "lines" /\ LineNext
       \/ part # "lines" /\ UNCHANGED lineVars
    /\ \/ part = "poll" /\ PollNext
       \/ part # "poll" /\ UNCHANGED pollVars

\* A part whose turn it is not stays at its start, where none of these actions is enabled.
Spec == Init /\ [][Next]_allVars /\ CmdFairness /\ FanFairness /\ PollFairness

\* What nothing on a host can hold up does end: a call once its session has started, the other
\* hosts of a fan-out or a poll, and these two themselves unless a host hangs.
EverythingReturns == CallsReturn /\ FanoutReturns /\ PollEnds

=============================================================================
