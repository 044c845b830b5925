----------------------------- MODULE HostRegistry -----------------------------
(***************************************************************************)
(* The hosts table and the requests of hostmanager.Manager that change it. *)
(* An update or a creation checks its jump host in several queries         *)
(* (hostFromInput) before the one statement that writes, and drops the     *)
(* pooled connections afterwards, one by one; archiving, unarchiving and   *)
(* deleting check and write in one transaction.                            *)
(*                                                                         *)
(* A host is its name: renaming and the reuse of ids are left out, a name  *)
(* can be used again after its host has been deleted.  Fields other than   *)
(* the jump host appear as the revision of the row.                        *)
(***************************************************************************)
EXTENDS Naturals, FiniteSets, FiniteSetsExt

CONSTANTS
    Hosts,      \* host names
    Admins,     \* management requests of the console and of MCP tools
    None,
    MayJump,    \* the jump hosts that requests ask for: pairs <<host, jump host>>
    MaxChain,   \* maxJumpChain
    MaxWrites   \* bound: writes to rows

ASSUME RegistryConstantsOK ==
    /\ None \notin Hosts
    /\ MayJump \subseteq Hosts \X Hosts
    /\ MaxChain \in Nat
    /\ MaxWrites \in Nat

VARIABLES
    present,   \* rows of hosts
    jump,      \* jump_host_id
    archived,  \* archived_at IS NOT NULL
    rev,       \* writes to the row so far, those of earlier hosts of the name included
    step,      \* where a request is
    req,       \* what it asks for and has read
    owed,      \* names whose pooled connection it has yet to drop
    raced      \* history: a row was written while another request was checking

table    == <<present, jump, archived, rev>>
requests == <<step, req, owed>>
regVars  == <<table, requests, raced>>

Steps == {"idle", "find", "walk", "write", "list", "delete", "drop", "dropLast", "dropFirst"}

\* Local variables of hostFromInput: the host to write, its jump host, whether it
\* is a new host, whether it was archived when read, the rows of the chain passed,
\* the row cur of the chain and the jump host read with it.
Requests ==
    [host : Hosts \cup {None}, want : Hosts \cup {None}, new : BOOLEAN, wasArchived : BOOLEAN,
     seen : SUBSET Hosts, cur : Hosts \cup {None}, next : Hosts \cup {None}]

NoRequest ==
    [host |-> None, want |-> None, new |-> FALSE, wasArchived |-> FALSE,
     seen |-> {}, cur |-> None, next |-> None]

RegInit ==
    /\ present = {}
    /\ jump = [h \in Hosts |-> None]
    /\ archived = {}
    /\ rev = [h \in Hosts |-> 0]
    /\ step = [a \in Admins |-> "idle"]
    /\ req = [a \in Admins |-> NoRequest]
    /\ owed = [a \in Admins |-> {}]
    /\ raced = FALSE

-----------------------------------------------------------------------------
Dependents(h) == {d \in present : jump[d] = h}

Goto(a, s) == step' = [step EXCEPT ![a] = s]

\* The request a is answered.
Reply(a) ==
    /\ Goto(a, "idle")
    /\ req' = [req EXCEPT ![a] = NoRequest]
    /\ owed' = [owed EXCEPT ![a] = {}]

\* The names hs are to be dropped from the pool before the request goes on.
Owe(a, hs, s) ==
    /\ owed' = [owed EXCEPT ![a] = hs]
    /\ Goto(a, s)

-----------------------------------------------------------------------------
(* Update and Create *)

Wanted(h, j) == j = None \/ <<h, j>> \in MayJump

BeginUpdate(a, h, j) ==
    /\ step[a] = "idle"
    /\ h \in present /\ Wanted(h, j)
    /\ req' = [req EXCEPT ![a] = [NoRequest EXCEPT !.host = h, !.want = j, !.wasArchived = h \in archived]]
    /\ Goto(a, IF j = None THEN "write" ELSE "find")
    /\ UNCHANGED <<table, owed>>

BeginCreate(a, h, j) ==
    /\ step[a] = "idle"
    /\ Wanted(h, j)
    /\ req' = [req EXCEPT ![a] = [NoRequest EXCEPT !.host = h, !.want = j, !.new = TRUE]]
    /\ Goto(a, IF j = None THEN "write" ELSE "find")
    /\ UNCHANGED <<table, owed>>

\* Mutated BadJump: archived jump hosts are accepted.
MissingJump(a) == req[a].want \notin present

\* The jump host is refused: unknown, or archived while the host is not.
BadJump(a) ==
    \/ req[a].want \notin present
    \/ req[a].want \in archived /\ ~req[a].wasArchived

FindJump(a) ==
    /\ step[a] = "find"
    /\ IF BadJump(a)
       THEN Reply(a)
       ELSE /\ req' = [req EXCEPT ![a].cur = req[a].want, ![a].next = jump[req[a].want]]
            /\ Goto(a, "walk")
            /\ UNCHANGED owed
    /\ UNCHANGED table

\* Mutated BadLink: the host itself is not looked for.
SeenLink(a) == req[a].cur \in req[a].seen \/ Cardinality(req[a].seen) >= MaxChain

\* A row of the chain is refused: it closes a cycle or is one too many.
BadLink(a) ==
    \/ ~req[a].new /\ req[a].cur = req[a].host
    \/ req[a].cur \in req[a].seen
    \/ Cardinality(req[a].seen) >= MaxChain

\* One round of the loop over the chain of the jump host.
Walk(a) ==
    LET r == req[a] IN
    /\ step[a] = "walk"
    /\ \/ /\ BadLink(a) \/ r.next \notin present \cup {None}
          /\ Reply(a)
       \/ /\ ~BadLink(a) /\ r.next = None
          /\ Goto(a, "write")
          /\ req' = [req EXCEPT ![a].seen = @ \cup {r.cur}]
          /\ UNCHANGED owed
       \/ /\ ~BadLink(a) /\ r.next \in present
          /\ req' = [req EXCEPT ![a].seen = @ \cup {r.cur}, ![a].cur = r.next, ![a].next = jump[r.next]]
          /\ UNCHANGED <<step, owed>>
    /\ UNCHANGED table

\* Mutated Referenced: without the foreign key.
AnyReference(a) == TRUE

\* jump_host_id REFERENCES hosts(id)
Referenced(a) == req[a].want \in present \cup {None}

Writes == MapThenSumSet(LAMBDA h : rev[h], Hosts)

WriteRow(a) ==
    /\ Writes < MaxWrites
    /\ jump' = [jump EXCEPT ![req[a].host] = req[a].want]
    /\ rev' = [rev EXCEPT ![req[a].host] = @ + 1]

\* Mutated Connections: the connection of the host itself is kept.
KeptConnection(a) ==
    /\ req' = [req EXCEPT ![a] = [NoRequest EXCEPT !.host = req[a].host]]
    /\ Owe(a, {}, "list")

\* The rest of Update knows the host only.
Connections(a) ==
    /\ req' = [req EXCEPT ![a] = [NoRequest EXCEPT !.host = req[a].host]]
    /\ Owe(a, {req[a].host}, "drop")

\* UpdateHost does not notice that the row has gone.
WriteUpdate(a) ==
    /\ step[a] = "write" /\ ~req[a].new
    /\ \/ /\ req[a].host \in present /\ Referenced(a)
          /\ WriteRow(a)
          /\ Connections(a)
          /\ UNCHANGED <<present, archived>>
       \/ /\ req[a].host \notin present
          /\ Connections(a)
          /\ UNCHANGED table
       \/ /\ req[a].host \in present /\ ~Referenced(a)
          /\ Reply(a)
          /\ UNCHANGED table

WriteCreate(a) ==
    /\ step[a] = "write" /\ req[a].new
    /\ IF req[a].host \notin present /\ Referenced(a)
       THEN /\ WriteRow(a)
            /\ present' = present \cup {req[a].host}
            /\ UNCHANGED archived
       ELSE UNCHANGED table
    /\ Reply(a)

\* Mutated Affected: the hosts that connect through h keep their connections.
AffectedNone(h) == {}

\* JumpDependentNames
Affected(h) == Dependents(h)

\* A failure (a cancelled request) is ignored: the names are then never dropped.
ListDependents(a) ==
    /\ step[a] = "list"
    /\ \/ Reply(a)
       \/ /\ Affected(req[a].host) # {}
          /\ Owe(a, Affected(req[a].host), "dropLast")
          /\ UNCHANGED req
    /\ UNCHANGED table

-----------------------------------------------------------------------------
(* Delete, Archive, Unarchive, ResetFingerprint and Test *)

\* Delete drops the connection before the row.
BeginDelete(a, h) ==
    /\ step[a] = "idle" /\ h \in present
    /\ req' = [req EXCEPT ![a] = [NoRequest EXCEPT !.host = h]]
    /\ Owe(a, {h}, "dropFirst")
    /\ UNCHANGED table

\* DeleteHost; a running job is the other reason to refuse.
DeleteRow(a) ==
    LET h == req[a].host IN
    /\ step[a] = "delete"
    /\ \/ /\ h \in present /\ Dependents(h) = {}
          /\ present' = present \ {h}
          /\ jump' = [jump EXCEPT ![h] = None]
          /\ archived' = archived \ {h}
          /\ UNCHANGED rev
       \/ UNCHANGED table
    /\ Reply(a)

Archive(a, h) ==
    /\ step[a] = "idle"
    /\ h \in present /\ Dependents(h) \subseteq archived
    /\ archived' = archived \cup {h}
    /\ req' = [req EXCEPT ![a] = [NoRequest EXCEPT !.host = h]]
    /\ Owe(a, {h}, "dropLast")
    /\ UNCHANGED <<present, jump, rev>>

Unarchive(a, h) ==
    /\ step[a] = "idle"
    /\ h \in archived /\ jump[h] \notin archived
    /\ archived' = archived \ {h}
    /\ UNCHANGED <<present, jump, rev, requests>>

\* ResetFingerprint and Test drop the connection and leave the rest of the row.
Reconnect(a, h) ==
    /\ step[a] = "idle" /\ h \in present
    /\ req' = [req EXCEPT ![a] = [NoRequest EXCEPT !.host = h]]
    /\ Owe(a, {h}, "dropLast")
    /\ UNCHANGED table

\* Pool.Invalidate of one name, as far as the request is concerned; after the last
\* one the request goes on.
Dropped(a, h) ==
    /\ h \in owed[a]
    /\ IF owed[a] = {h} /\ step[a] = "dropLast"
       THEN Reply(a)
       ELSE /\ Owe(a, owed[a] \ {h}, IF owed[a] # {h} THEN step[a]
                                     ELSE IF step[a] = "drop" THEN "list" ELSE "delete")
            /\ UNCHANGED req
    /\ UNCHANGED table

-----------------------------------------------------------------------------
ReadStep(a) ==
    \/ \E h \in Hosts, j \in Hosts \cup {None} : BeginUpdate(a, h, j) \/ BeginCreate(a, h, j)
    \/ \E h \in Hosts : BeginDelete(a, h) \/ Reconnect(a, h)
    \/ FindJump(a) \/ Walk(a) \/ ListDependents(a)

WriteStep(a) ==
    \/ WriteUpdate(a) \/ WriteCreate(a) \/ DeleteRow(a)
    \/ \E h \in Hosts : Archive(a, h) \/ Unarchive(a, h)

Checking == {"find", "walk", "write"}

HostRequest(a) ==
    /\ ReadStep(a) \/ WriteStep(a)
    /\ raced' = (raced \/ (table' # table /\ \E b \in Admins : step'[b] \in Checking))

DroppedStep(a, h) == Dropped(a, h) /\ UNCHANGED raced

RegNext == \E a \in Admins : HostRequest(a) \/ \E h \in Hosts : DroppedStep(a, h)

RegSpec == RegInit /\ [][RegNext]_regVars

-----------------------------------------------------------------------------
(* Properties.  The checks of an update or creation precede its write, so *)
(* the write of another request in between can break the rules below: they *)
(* hold until that happens for the first time.                             *)

RegTypeOK ==
    /\ present \subseteq Hosts
    /\ jump \in [Hosts -> Hosts \cup {None}]
    /\ archived \subseteq present
    /\ rev \in [Hosts -> Nat]
    /\ step \in [Admins -> Steps]
    /\ req \in [Admins -> Requests]
    /\ owed \in [Admins -> SUBSET Hosts]
    /\ raced \in BOOLEAN
    /\ \A h \in Hosts : jump[h] # None => h \in present /\ jump[h] \in present
    /\ \A a \in Admins :
          /\ IF step[a] = "idle" THEN owed[a] = {} ELSE req[a].host \in Hosts
          /\ step[a] = "walk" => req[a].cur \in Hosts

\* README: jump hosts must not form a cycle (the test of jump host validation).
NoCycle == \A S \in SUBSET Hosts : S # {} => \E h \in S : jump[h] \notin S

Acyclic == ~raced => NoCycle

\* Comment in hostFromInput, shared with ArchiveHost and UnarchiveHost: a host that
\* is not archived does not connect through an archived one.
ActiveViaActive == ~raced => \A h \in present \ archived : jump[h] \notin archived

\* What a request has established about the chain of its jump host.
Chain(a) ==
    LET r == req[a] IN
    /\ step[a] \in {"walk", "write"} =>
          /\ r.host # None
          /\ r.seen \subseteq present
          /\ r.wasArchived => ~r.new /\ r.host \in archived
          /\ r.want \in archived => r.wasArchived
          /\ ~r.new => r.host \in present \ r.seen
    /\ step[a] = "walk" =>
          /\ r.cur \in present /\ r.next = jump[r.cur]
          /\ r.want \in r.seen \cup {r.cur}
          /\ \A s \in r.seen : jump[s] \in r.seen \cup {r.cur}
    /\ step[a] = "write" =>
          /\ r.want # None => r.want \in r.seen
          /\ \A s \in r.seen : jump[s] \in r.seen \cup {None}

\* A request that looks for its jump host has read the archive flag of its host.
Finding(a) ==
    step[a] = "find" =>
        /\ req[a].host # None /\ req[a].want # None /\ req[a].seen = {}
        /\ ~req[a].new => req[a].host \in present
        /\ req[a].wasArchived => ~req[a].new /\ req[a].host \in archived

\* The inductive invariant behind them.
RegInv ==
    /\ RegTypeOK
    /\ Acyclic
    /\ ActiveViaActive
    /\ ~raced => \A a \in Admins : Chain(a) /\ Finding(a)
=============================================================================
