------------------------------- MODULE Migrations -------------------------------
(***************************************************************************)
(* Opening the database: migrate applies the versions the database has not *)
(* recorded, each in an immediate transaction of its own.  A gateway may   *)
(* die in the middle of one, and a second one may open the same database,  *)
(* as during an upgrade.  The database may come from any earlier gateway,  *)
(* and may have columns whose version was never recorded.                  *)
(*                                                                         *)
(* A change of the schema is a version and a number: a version that finds  *)
(* a change already made fails, unless the change is a guarded one, a      *)
(* column or table that is only added where it is missing.                 *)
(***************************************************************************)
EXTENDS Integers

CONSTANTS
    Openers,   \* processes that open the database
    LastVersion,
    Changes,   \* changes of the schema: <<version, number>>
    Guarded    \* those that are only made where they are missing

Versions == 1 .. LastVersion
Nobody   == "nobody"

ASSUME MigrationConstantsOK ==
    /\ LastVersion \in Nat
    /\ Nobody \notin Openers
    /\ Guarded \subseteq Changes
    /\ \A c \in Changes : c[1] \in Versions

VARIABLES
    recorded,  \* versions in schema_migrations
    schema,    \* changes that have been made
    writer,    \* who holds the write lock
    draft,     \* changes made in the transaction under way
    opener     \* each process: what it does, and at which version

migVars == <<recorded, schema, writer, draft, opener>>

Of(v) == {c \in Changes : c[1] = v}

MigInit ==
    /\ \E k \in 0 .. LastVersion, found \in SUBSET Guarded :
          /\ recorded = 1 .. k
          /\ schema = {c \in Changes : c[1] <= k} \cup found
    /\ writer = Nobody
    /\ draft = {}
    /\ opener = [p \in Openers |-> [at |-> "closed", version |-> 1]]

OpenDB(p) ==
    /\ opener[p].at = "closed"
    /\ opener' = [opener EXCEPT ![p] = [at |-> "next", version |-> 1]]
    /\ UNCHANGED <<recorded, schema, writer, draft>>

\* BEGIN IMMEDIATE takes the write lock before anything is read.
BeginMigration(p) ==
    /\ opener[p].at = "next" /\ opener[p].version \in Versions
    /\ writer = Nobody
    /\ writer' = p
    /\ draft' = {}
    /\ opener' = [opener EXCEPT ![p].at = "begun"]
    /\ UNCHANGED <<recorded, schema>>

Commit(p) ==
    /\ writer' = Nobody
    /\ draft' = {}
    /\ opener' = [opener EXCEPT ![p] = [at |-> "next", version |-> @.version + 1]]

\* The version has been recorded: there is nothing to do.
SkipVersion(p) ==
    /\ opener[p].at = "begun"
    /\ opener[p].version \in recorded
    /\ Commit(p)
    /\ UNCHANGED <<recorded, schema>>

\* One change after the other, guarded ones passed over where they are there.  Another that is
\* there already is an error, now and at every later start.
Apply(p) ==
    /\ opener[p].at = "begun"
    /\ opener[p].version \notin recorded
    /\ \E c \in Of(opener[p].version) \ draft :
          IF c \in schema \ Guarded
          THEN /\ opener' = [opener EXCEPT ![p].at = "stuck"]
               /\ writer' = Nobody
               /\ draft' = {}
          ELSE /\ draft' = draft \cup {c}
               /\ UNCHANGED <<writer, opener>>
    /\ UNCHANGED <<recorded, schema>>

\* Mutated RecordVersion: the changes are committed before the version is recorded.
CommitChanges(p) ==
    /\ opener[p].at = "begun"
    /\ opener[p].version \notin recorded
    /\ Of(opener[p].version) \subseteq draft
    /\ schema' = schema \cup draft
    /\ recorded' \in {recorded, recorded \cup {opener[p].version}}
    /\ Commit(p)

\* The record of the version is in the same transaction as its changes.
RecordVersion(p) ==
    /\ opener[p].at = "begun"
    /\ opener[p].version \notin recorded
    /\ Of(opener[p].version) \subseteq draft
    /\ schema' = schema \cup draft
    /\ recorded' = recorded \cup {opener[p].version}
    /\ Commit(p)

Opened(p) ==
    /\ opener[p].at = "next" /\ opener[p].version \notin Versions
    /\ opener' = [opener EXCEPT ![p].at = "open"]
    /\ UNCHANGED <<recorded, schema, writer, draft>>

\* The process dies, or any statement fails, the one for the lock too: what was not committed is
\* rolled back, and the gateway is started again.
Rollback(p) ==
    /\ opener[p].at \in {"next", "begun", "open"}
    /\ opener' = [opener EXCEPT ![p].at = "closed"]
    /\ writer' = IF writer = p THEN Nobody ELSE writer
    /\ draft' = IF writer = p THEN {} ELSE draft
    /\ UNCHANGED <<recorded, schema>>

MigNext == \E p \in Openers :
    \/ OpenDB(p) \/ BeginMigration(p) \/ SkipVersion(p) \/ Apply(p)
    \/ RecordVersion(p) \/ Opened(p) \/ Rollback(p)

MigSpec == MigInit /\ [][MigNext]_migVars

-----------------------------------------------------------------------------
\* The recorded versions are the first ones, the schema has what they make and nothing else but
\* guarded columns, and whoever has opened the database has the whole schema.  However often a
\* start is broken off, and whoever else opens the database meanwhile, the next one can go on:
\* no change is ever tried a second time.
RecordedIsMade ==
    /\ \A v \in recorded : 1 .. v \subseteq recorded /\ Of(v) \subseteq schema
    /\ \A c \in schema \ Guarded : c[1] \in recorded
    /\ \A p \in Openers : opener[p].at = "open" => schema = Changes
    /\ \A p \in Openers : opener[p].at # "stuck"

=============================================================================
