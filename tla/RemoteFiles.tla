------------------------------ MODULE RemoteFiles ------------------------------
(***************************************************************************)
(* Files on a host: file_write, file_edit and file_transfer on one path.   *)
(* Each writes a temporary file of its own, closes it, sets its mode and   *)
(* renames it over the target; a server whose rename does not replace is   *)
(* dealt with by removing the target first.  Nothing locks the path.       *)
(*                                                                         *)
(* A content is the set of calls whose text is in it.  Every operation on  *)
(* the host may be refused, without effect, or the link may break during   *)
(* it: the operation may have happened, and no later one of the call does. *)
(* The gateway may stop between any two operations; one that was on its    *)
(* way then is one whose link broke before.                                *)
(***************************************************************************)
EXTENDS Integers, FiniteSets

CONSTANTS
    Writers,  \* calls of Write and of Transfer: their content does not depend on the target
    Editors,  \* calls of Edit
    Transfers \* the writers that are transfers

\* The last line: a content is known by the call that made it, and two marks are no call's.
ASSUME FileConstantsOK ==
    /\ Writers \cap Editors = {} /\ Transfers \subseteq Writers
    /\ {"none", "partial"} \cap (Writers \cup Editors) = {}

VARIABLES
    replaces, \* whether the server's rename replaces an existing target
    target,   \* content of the path
    temp,     \* temporary file of each call
    data,     \* content each call is to write
    step,     \* where each call is
    broken,   \* calls whose link is gone
    claim,    \* what Verified said of a transfer
    remover,  \* history: the call whose Remove took the target away last
    kept      \* history: calls whose temporary file the host did not remove when told to

fileVars == <<replaces, target, temp, data, step, broken, claim, remover, kept>>

FileCalls == Writers \cup Editors
None    == {"none"}    \* no such file
Partial == {"partial"} \* a file that was not written to its end

FileInit ==
    /\ replaces \in BOOLEAN
    /\ target \in {{}, None}
    /\ temp = [c \in FileCalls |-> None]
    /\ data = [c \in FileCalls |-> {c}]
    /\ step = [c \in FileCalls |-> "idle"]
    /\ broken = {}
    /\ claim = [c \in Transfers |-> "none"]
    /\ remover = "none" /\ kept = {}

Goto(c, s) == step' = [step EXCEPT ![c] = s]

\* An operation on the host succeeds and the call goes on to ok; or it gives an error and the
\* call goes on to ko, the effect not there, or there when the link broke before the answer.
Attempt(c, effect, nothing, ok, ko) ==
    \/ c \notin broken /\ effect /\ Goto(c, ok) /\ UNCHANGED broken
    \/ nothing /\ Goto(c, ko) /\ broken' \in {broken, broken \cup {c}}
    \/ c \notin broken /\ effect /\ Goto(c, ko) /\ broken' = broken \cup {c}

\* Edit reads the whole file and compares its hash with the one the caller read before.
BeginEdit(c) ==
    /\ c \in Editors /\ step[c] = "idle"
    /\ \/ /\ target # None
          /\ data' = [data EXCEPT ![c] = target \cup {c}]
          /\ Goto(c, "open")
       \/ Goto(c, "failed") /\ UNCHANGED data   \* no file, a conflict or an edit that does not match
    /\ UNCHANGED <<replaces, target, temp, broken, claim, remover, kept>>

BeginWrite(c) ==
    /\ c \in Writers /\ step[c] = "idle"
    /\ \/ Goto(c, "open") \/ Goto(c, "failed")
    /\ UNCHANGED <<replaces, target, temp, data, broken, claim, remover, kept>>

OpenTemp(c) ==
    /\ step[c] = "open"
    /\ Attempt(c, temp' = [temp EXCEPT ![c] = Partial], UNCHANGED temp, "copy", "failed")
    /\ UNCHANGED <<replaces, target, data, claim, remover, kept>>

\* Mutated CopyTemp: the error of Close is not looked at.
CopyUnchecked(c) ==
    /\ step[c] = "copy"
    /\ Attempt(c, temp' = [temp EXCEPT ![c] = data[c]], UNCHANGED temp, "rename", "rename")
    /\ UNCHANGED <<replaces, target, data, claim, remover, kept>>

\* io.Copy, Close and Chmod: an error of any of them sends the call to remove its file.
CopyTemp(c) ==
    /\ step[c] = "copy"
    /\ Attempt(c, temp' = [temp EXCEPT ![c] = data[c]], UNCHANGED temp, "rename", "discard")
    /\ UNCHANGED <<replaces, target, data, claim, remover, kept>>

MoveTemp(c) ==
    /\ replaces \/ target = None
    /\ target' = temp[c]
    /\ temp' = [temp EXCEPT ![c] = None]

\* The error of the first rename, whatever it is, leads to the fallback.
Rename(c) ==
    /\ step[c] = "rename"
    /\ Attempt(c, MoveTemp(c), UNCHANGED <<target, temp>>, "written", "remove")
    /\ UNCHANGED <<replaces, data, claim, remover, kept>>

Unlink(c) == target # None /\ target' = None /\ remover' = c

\* The error of this Remove is ignored.
RemoveTarget(c) ==
    /\ step[c] = "remove"
    /\ Attempt(c, Unlink(c), UNCHANGED <<target, remover>>, "again", "again")
    /\ UNCHANGED <<replaces, temp, data, claim, kept>>

RenameAgain(c) ==
    /\ step[c] = "again"
    /\ Attempt(c, MoveTemp(c), UNCHANGED <<target, temp>>, "written", "discard")
    /\ UNCHANGED <<replaces, data, claim, remover, kept>>

\* The temporary file is removed; the error of this Remove is ignored too.
Discard(c) ==
    /\ step[c] = "discard"
    /\ Attempt(c, temp' = [temp EXCEPT ![c] = None] /\ UNCHANGED kept,
                  kept' = kept \cup {c} /\ UNCHANGED temp, "failed", "failed")
    /\ UNCHANGED <<replaces, target, data, claim, remover>>

\* Write answers; Transfer compares the hash of what is at the path now, if the host can tell.
Answer(c) ==
    /\ step[c] = "written"
    /\ Goto(c, "ok")
    /\ IF c \in Transfers
       THEN claim' \in {[claim EXCEPT ![c] = IF target = data[c] THEN "verified" ELSE "differs"],
                        [claim EXCEPT ![c] = "unknown"]}
       ELSE UNCHANGED claim
    /\ UNCHANGED <<replaces, target, temp, data, broken, remover, kept>>

FileStep(c) ==
    \/ BeginEdit(c) \/ BeginWrite(c) \/ OpenTemp(c) \/ CopyTemp(c) \/ Rename(c)
    \/ RemoveTarget(c) \/ RenameAgain(c) \/ Discard(c) \/ Answer(c)

\* Nothing of a call survives the process, and nothing takes it up again.
GatewayStops ==
    /\ step' = [c \in FileCalls |-> IF step[c] \in {"idle", "ok", "failed"} THEN step[c]
                                    ELSE "stopped"]
    /\ step' # step
    /\ UNCHANGED <<replaces, target, temp, data, broken, claim, remover, kept>>

FileNext == GatewayStops \/ \E c \in FileCalls : FileStep(c)

FileSpec == FileInit /\ [][FileNext]_fileVars

-----------------------------------------------------------------------------
\* Whoever reads the path gets a whole content or none, never the beginning of one.  If a file is
\* gone, the very call that took it away is between its Remove and its answer, has answered with an
\* error, or stopped with the gateway: no call loses a file and reports success.  And no call
\* leaves its temporary file behind before it answers, unless its link broke or the host did not
\* remove it.
FilesWhole ==
    /\ target # Partial
    /\ target = None /\ remover # "none" =>
           step[remover] \in {"again", "discard", "failed", "stopped"}
    /\ \A c \in FileCalls : step[c] \in {"ok", "failed"} /\ temp[c] # None => c \in broken \cup kept

=============================================================================
