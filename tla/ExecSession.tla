------------------------------ MODULE ExecSession ------------------------------
(***************************************************************************)
(* The persistent session of a token on a host: a row with the working     *)
(* directory and the environment.  An exec reads it, runs for up to ten    *)
(* minutes and writes the row back with the directory it ended in;         *)
(* session_env reads it, changes the environment and writes it back.       *)
(* SaveSession is an upsert of the whole row.                              *)
(***************************************************************************)
EXTENDS Integers

CONSTANTS
    Execs,   \* exec calls in the session
    Setters, \* session_env calls in it, each of which sets a variable of its own
    Dirs,    \* directories that a command can end in
    Home     \* where a session without a row begins

ASSUME SessionConstantsOK == Home \in Dirs /\ Execs \cap Setters = {}

VARIABLES
    session,  \* the row, or the defaults that GetSession gives without one
    calls,    \* each call: where it is, and its copy of the row
    mixed     \* history: calls that another one on the session has overlapped

sesVars == <<session, calls, mixed>>

Callers == Execs \cup Setters
NoSession == [cwd |-> Home, env |-> {}]

SesInit ==
    /\ session = NoSession
    /\ calls = [c \in Callers |-> [at |-> "idle", state |-> NoSession]]
    /\ mixed = {}

UnderWay == {c \in Callers : calls[c].at \in {"read", "ran"}}

GetSession(c) ==
    /\ calls[c].at = "idle"
    /\ calls' = [calls EXCEPT ![c] = [at |-> "read", state |-> session]]
    /\ mixed' = IF UnderWay = {} THEN mixed ELSE mixed \cup UnderWay \cup {c}
    /\ UNCHANGED session

\* Only a result without error and not broken off by its timer is saved; without a trailer
\* its directory is the one the command was started in.
RunExec(c) ==
    /\ c \in Execs /\ calls[c].at = "read"
    /\ \/ \E d \in Dirs : calls' = [calls EXCEPT ![c].at = "ran", ![c].state.cwd = d]
       \/ calls' = [calls EXCEPT ![c].at = "failed"]
    /\ UNCHANGED <<session, mixed>>

\* Mutated SaveExec: the new row has the directory alone.
SaveDirectory(c) ==
    /\ c \in Execs /\ calls[c].at = "ran"
    /\ session' = [NoSession EXCEPT !.cwd = calls[c].state.cwd]
    /\ calls' = [calls EXCEPT ![c].at = "returned"]
    /\ UNCHANGED mixed

\* An error of SaveSession is ignored here.
SaveExec(c) ==
    /\ c \in Execs /\ calls[c].at = "ran"
    /\ session' \in {calls[c].state, session}
    /\ calls' = [calls EXCEPT ![c].at = "returned"]
    /\ UNCHANGED mixed

\* ... and reported here.
SaveEnv(c) ==
    /\ c \in Setters /\ calls[c].at = "read"
    /\ \/ /\ session' = [calls[c].state EXCEPT !.env = @ \cup {c}]
          /\ calls' = [calls EXCEPT ![c].at = "returned"]
       \/ /\ calls' = [calls EXCEPT ![c].at = "failed"]
          /\ UNCHANGED session
    /\ UNCHANGED mixed

SesNext == \E c \in Callers : GetSession(c) \/ RunExec(c) \/ SaveExec(c) \/ SaveEnv(c)

SesSpec == SesInit /\ [][SesNext]_sesVars

-----------------------------------------------------------------------------
Returned == {c \in Callers : calls[c].at = "returned"}

\* What a setter was told stays set whatever is called later, also by calls that overlap one
\* another, as long as none overlapped the setter's own.  (RunExec, SaveSession)
EnvKeptAlone == (Setters \cap Returned) \ mixed \subseteq session.env

=============================================================================
