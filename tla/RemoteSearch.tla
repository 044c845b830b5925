------------------------------ MODULE RemoteSearch ------------------------------
(***************************************************************************)
(* grep and find on a host: the tool of the host, else a helper program    *)
(* uploaded to /tmp, else a walk over SFTP.  The gateway remembers for     *)
(* each host whether the helper works, and on which connection it learned  *)
(* that.  One host is modelled; its searches run beside each other.        *)
(*                                                                         *)
(* Connections are numbered.  uname, the upload and the helper each take   *)
(* the connection of the pool anew, so it may be a later one than that of  *)
(* the probe, and another connection may replace it while they use it.     *)
(***************************************************************************)
EXTENDS Integers

CONSTANTS
    Searches, \* calls of grep and find
    MaxConns  \* bound: connections to the host

ASSUME SearchConstantsOK == MaxConns \in Nat \ {0}

VARIABLES
    platform, \* whether there is a helper for the host's platform
    conn,     \* the connection in the pool
    helper,   \* what is remembered: a connection and whether the helper works
    search,   \* each search: where it is, the connection it probed, and the one its present
              \* step got from the pool (0: none could be had)
    file,     \* its helper in /tmp
    failures, \* history: the connection a failing step ran on, and the one its search had probed
    unremoved \* history: searches whose removal of the helper the host refused

searchVars == <<platform, conn, helper, search, file, failures, unremoved>>

NoHelper == [client |-> 0, usable |-> FALSE]

SearchInit ==
    /\ platform \in BOOLEAN
    /\ conn = 1
    /\ helper = NoHelper
    /\ search = [s \in Searches |-> [at |-> "idle", client |-> 0, on |-> 0]]
    /\ file = [s \in Searches |-> "none"]
    /\ failures = {} /\ unremoved = {}

Moved(s, from, to) == search[s].at = from /\ search' = [search EXCEPT ![s].at = to]

\* The link breaks or the pool drops it; the next to ask dials.
Reconnect ==
    /\ conn < MaxConns
    /\ conn' = conn + 1
    /\ UNCHANGED <<platform, helper, search, file, failures, unremoved>>

\* rg or fd answers or fails; or it is not installed, and with a valid pattern and the helper
\* enabled the search goes on to the probe.
Native(s) ==
    /\ Moved(s, "idle", "returned") \/ Moved(s, "idle", "probe") \/ Moved(s, "idle", "sftp")
    /\ UNCHANGED <<platform, conn, helper, file, failures, unremoved>>

\* Pool.Get, which may fail.
ProbeGet(s) ==
    /\ \/ /\ search[s].at = "probe"
          /\ search' = [search EXCEPT ![s] = [at |-> "lookup", client |-> conn, on |-> 0]]
       \/ Moved(s, "probe", "sftp")
    /\ UNCHANGED <<platform, conn, helper, file, failures, unremoved>>

\* What is remembered holds for the connection it was learned on.
ProbeCached(s) ==
    /\ IF helper.client # search[s].client THEN Moved(s, "lookup", "uname")
       ELSE Moved(s, "lookup", IF helper.usable THEN "stage" ELSE "sftp")
    /\ UNCHANGED <<platform, conn, helper, file, failures, unremoved>>

\* A step on the host asks the pool for a connection, which may fail.
AskPool(s, from, to) ==
    /\ search[s].at = from
    /\ \E c \in {conn, 0} :
          search' = [search EXCEPT ![s] = [at |-> to, client |-> search[s].client, on |-> c]]

TakeConnection(s) ==
    /\ \/ AskPool(s, "uname", "asking")
       \/ AskPool(s, "stage", "staging")
       \/ AskPool(s, "run", "running")
    /\ UNCHANGED <<platform, conn, helper, file, failures, unremoved>>

\* A step has failed: on the connection it ran on, of a search that has probed that one or an
\* earlier one.
Noted(s) == failures \cup {[met |-> search[s].on, probed |-> search[s].client]}

\* Without an answer of uname (no connection, a broken link, the timer, a cancelled request) the
\* helper counts as unusable on the connection that was probed.
ProbeRemote(s) ==
    /\ \E answered \in {FALSE, search[s].on # 0} :
          LET usable == answered /\ platform
          IN /\ helper' = [client |-> search[s].client, usable |-> usable]
             /\ Moved(s, "asking", IF usable THEN "stage" ELSE "sftp")
             /\ failures' = IF usable THEN failures ELSE Noted(s)
    /\ UNCHANGED <<platform, conn, file, unremoved>>

\* Mutated MarkUnusable: whatever connection is remembered by now.
MarkAny(s) == helper' = [helper EXCEPT !.usable = FALSE]

\* markHelperUnusable: only what is still said of the connection that this search has probed.
MarkUnusable(s) ==
    helper' = IF helper.client = search[s].client THEN [helper EXCEPT !.usable = FALSE] ELSE helper

Failed(s) ==
    /\ MarkUnusable(s)
    /\ failures' = Noted(s)

\* The file is removed; or the host cannot be reached or refuses, and it stays.
Removed(s) ==
    \/ file' = [file EXCEPT ![s] = "none"] /\ UNCHANGED unremoved
    \/ UNCHANGED file /\ unremoved' = unremoved \cup {s}

\* Helpers that look old: the age is that of the host's clock by the gateway's.
Stale(s) == {t \in Searches \ {s} : file[t] # "none"}

\* Old helpers are swept away, a new one is created, written, closed and made executable.
StageHelper(s) ==
    /\ search[s].on # 0
    /\ \E swept \in SUBSET Stale(s), written \in BOOLEAN :
          file' = [t \in Searches |-> IF t \in swept THEN "none"
                                      ELSE IF t # s THEN file[t]
                                      ELSE IF written THEN "ready" ELSE "partial"]
    /\ Moved(s, "staging", IF file'[s] = "ready" THEN "run" ELSE "unstage")
    /\ UNCHANGED <<platform, conn, helper, failures, unremoved>>

\* There was no SFTP client, so that nothing has been created ...
StageFailed(s) ==
    /\ Moved(s, "staging", "sftp")
    /\ Failed(s)
    /\ UNCHANGED <<platform, conn, file, unremoved>>

\* ... or one of the four steps has failed and what there is of the file is removed.
Unstage(s) ==
    /\ Moved(s, "unstage", "sftp")
    /\ Failed(s)
    /\ Removed(s)
    /\ UNCHANGED <<platform, conn>>

\* The first thing the helper does is to remove its own file.
HelperStarts(s) ==
    /\ search[s].at = "running" /\ search[s].on # 0 /\ file[s] = "ready"
    /\ file' = [file EXCEPT ![s] = "none"]
    /\ UNCHANGED <<platform, conn, helper, search, failures, unremoved>>

\* A response or its error is the answer, and so is the end of the context; a helper that could
\* not run or answers nonsense is marked and SFTP takes over.
RunHelper(s) ==
    /\ \/ Moved(s, "running", "answered") /\ UNCHANGED <<helper, failures>>
       \/ Moved(s, "running", "refused") /\ Failed(s)
    /\ UNCHANGED <<platform, conn, file, unremoved>>

\* The deferred removal, under a context of its own.
Cleanup(s) ==
    /\ Moved(s, "answered", "returned") \/ Moved(s, "refused", "sftp")
    /\ Removed(s)
    /\ UNCHANGED <<platform, conn, helper, failures>>

SearchSFTP(s) ==
    /\ Moved(s, "sftp", "returned")
    /\ UNCHANGED <<platform, conn, helper, file, failures, unremoved>>

SearchStep(s) ==
    \/ Native(s) \/ ProbeGet(s) \/ ProbeCached(s) \/ TakeConnection(s) \/ ProbeRemote(s)
    \/ StageHelper(s) \/ StageFailed(s) \/ Unstage(s) \/ HelperStarts(s) \/ RunHelper(s)
    \/ Cleanup(s) \/ SearchSFTP(s)

SearchNext == Reconnect \/ \E s \in Searches : SearchStep(s)

SearchSpec == SearchInit /\ [][SearchNext]_searchVars

-----------------------------------------------------------------------------
\* A helper that is thought unusable has failed a search that had probed the connection this is
\* remembered for, on that connection or one that replaced it, or for want of any: a failure on an
\* earlier connection is never held against a later one, however the searches and reconnections
\* overlap.  (The code does hold one that was met on a successor against the connection probed.)
\* And a helper is never thought usable on a platform without one.
VerdictOfConnection ==
    helper.client # 0 =>
        IF helper.usable THEN platform
        ELSE \E f \in failures : f.probed = helper.client /\ (f.met = 0 \/ f.met >= f.probed)

\* A search that has gone on or returned leaves no helper in /tmp, whichever of its steps failed,
\* unless the host would not remove it.
HelperGone ==
    \A s \in Searches : search[s].at \in {"sftp", "returned"} /\ file[s] # "none" => s \in unremoved

\* Both: what is remembered of the helper is what was learned, and none of it stays behind.
HelperHonest == VerdictOfConnection /\ HelperGone

=============================================================================
