--------------------------- MODULE Services_proofs ----------------------------
(***************************************************************************)
(* Proofs about the services that one process shares among its callers:    *)
(* the opening of the database, the files of hosts, the tools a token sees,*)
(* the memory bank and the event bus, for any number of callers of each.   *)
(* They share no variable and no lemma but the one on sums.                *)
(***************************************************************************)
EXTENDS Migrations, RemoteFiles, ToolAccess, MemoryBank, EventBus, FiniteSetsExt,
        FiniteSetTheorems, SequenceTheorems, WellFoundedInduction, TLAPS

-----------------------------------------------------------------------------
(* Migrations *)

MigTypeOK ==
    /\ recorded \subseteq Versions
    /\ schema \subseteq Changes
    /\ writer \in Openers \cup {Nobody}
    /\ draft \subseteq Changes
    /\ opener \in [Openers -> [at : {"closed", "next", "begun", "open", "stuck"},
                               version : 1 .. LastVersion + 1]]

\* One process at a time is in a transaction, and its draft is of its version.
LockInv ==
    /\ \A p \in Openers : opener[p].at = "begun" <=> writer = p
    /\ \A p \in Openers : opener[p].at = "begun" => opener[p].version \in Versions
    /\ \A p \in Openers : writer = p => draft \subseteq Of(opener[p].version)

\* A process that has got to a version has seen those before it recorded.
ProgressInv ==
    \A p \in Openers :
        /\ opener[p].at \in {"next", "begun", "open"} =>
              1 .. opener[p].version - 1 \subseteq recorded
        /\ opener[p].at = "open" => opener[p].version = LastVersion + 1

MadeInv ==
    /\ \A v \in recorded : 1 .. v \subseteq recorded /\ Of(v) \subseteq schema
    /\ \A c \in schema \ Guarded : c[1] \in recorded

NotStuck == \A p \in Openers : opener[p].at # "stuck"

MigInv == MigTypeOK /\ LockInv /\ ProgressInv /\ MadeInv /\ NotStuck

-----------------------------------------------------------------------------
\* A database of an earlier gateway has its versions and guarded columns.
LEMMA MigInitInv == MigInit => MigInv
<1> SUFFICES ASSUME MigInit PROVE MigInv
  OBVIOUS
<1> USE MigrationConstantsOK DEF MigInit, Versions
<1>1. PICK k \in 0 .. LastVersion, found \in SUBSET Guarded :
        /\ recorded = 1 .. k
        /\ schema = {c \in Changes : c[1] <= k} \cup found
  OBVIOUS
<1>2. MigTypeOK
  BY <1>1 DEF MigTypeOK
<1>3. LockInv /\ ProgressInv /\ NotStuck
  BY DEF LockInv, ProgressInv, NotStuck
<1>4. MadeInv
  <2>1. ASSUME NEW v \in recorded PROVE 1 .. v \subseteq recorded /\ Of(v) \subseteq schema
    BY <1>1, <2>1 DEF Of
  <2>2. ASSUME NEW c \in schema \ Guarded PROVE c[1] \in recorded
    <3>1. c \in Changes /\ c[1] <= k /\ c[1] \in 1 .. LastVersion
      BY <1>1
    <3> QED BY <1>1, <3>1
  <2> QED BY <2>1, <2>2 DEF MadeInv
<1> QED BY <1>2, <1>3, <1>4 DEF MigInv

\* A process that only moves on by itself, outside of a transaction.
LEMMA OutsideStep ==
    ASSUME MigInv, NEW p \in Openers, OpenDB(p) \/ Opened(p)
    PROVE  MigInv'
<1> USE MigrationConstantsOK DEF MigInv, Versions
<1>1. MigTypeOK'
  BY DEF MigTypeOK, OpenDB, Opened
<1>2. LockInv'
  BY DEF MigTypeOK, LockInv, OpenDB, Opened
<1>3. ProgressInv'
  <2>1. CASE OpenDB(p)
    BY <2>1 DEF MigTypeOK, ProgressInv, OpenDB
  <2>2. CASE Opened(p)
    BY <2>2 DEF MigTypeOK, ProgressInv, Opened
  <2> QED BY <2>1, <2>2
<1>4. MadeInv' /\ NotStuck'
  BY DEF MigTypeOK, MadeInv, NotStuck, OpenDB, Opened
<1> QED BY <1>1, <1>2, <1>3, <1>4

\* The lock is taken while nobody has it.
LEMMA BeginStep ==
    ASSUME MigInv, NEW p \in Openers, BeginMigration(p)
    PROVE  MigInv'
<1> USE MigrationConstantsOK DEF MigInv, Versions, BeginMigration
<1>1. MigTypeOK'
  BY DEF MigTypeOK
<1>2. LockInv'
  BY DEF MigTypeOK, LockInv
<1>3. ProgressInv' /\ MadeInv' /\ NotStuck'
  BY DEF MigTypeOK, ProgressInv, MadeInv, NotStuck
<1> QED BY <1>1, <1>2, <1>3

\* Skipping a recorded version, the next one is the next to look at.
LEMMA SkipStep ==
    ASSUME MigInv, NEW p \in Openers, SkipVersion(p)
    PROVE  MigInv'
<1> USE MigrationConstantsOK DEF MigInv, Versions, SkipVersion, Commit
<1>1. opener[p].version \in 1 .. LastVersion
  BY DEF LockInv
<1>2. MigTypeOK'
  BY <1>1 DEF MigTypeOK
<1>3. LockInv'
  BY DEF MigTypeOK, LockInv
<1>4. ProgressInv'
  BY <1>1 DEF MigTypeOK, ProgressInv, MadeInv
<1>5. MadeInv' /\ NotStuck'
  BY DEF MigTypeOK, MadeInv, NotStuck
<1> QED BY <1>2, <1>3, <1>4, <1>5

\* No change of a version that is not recorded can be there, unless it is a guarded one.
LEMMA ApplyStep ==
    ASSUME MigInv, NEW p \in Openers, Apply(p)
    PROVE  MigInv'
<1> USE MigrationConstantsOK DEF MigInv, Versions, Apply
<1>1. PICK c \in Of(opener[p].version) \ draft :
        IF c \in schema \ Guarded
        THEN opener' = [opener EXCEPT ![p].at = "stuck"] /\ writer' = Nobody /\ draft' = {}
        ELSE draft' = draft \cup {c} /\ UNCHANGED <<writer, opener>>
  OBVIOUS
<1>2. c \notin schema \ Guarded
  BY <1>1 DEF MadeInv, Of
<1>3. draft' = draft \cup {c} /\ UNCHANGED <<writer, opener, recorded, schema>>
  BY <1>1, <1>2
<1>4. LockInv'
  BY <1>1, <1>3 DEF MigTypeOK, LockInv, Of
<1> QED BY <1>1, <1>3, <1>4 DEF MigTypeOK, ProgressInv, MadeInv, NotStuck, Of

\* The changes and the record of their version come together.
LEMMA RecordStep ==
    ASSUME MigInv, NEW p \in Openers, RecordVersion(p)
    PROVE  MigInv'
<1> USE MigrationConstantsOK DEF MigInv, Versions, RecordVersion, Commit
<1>1. opener[p].version \in 1 .. LastVersion /\ draft \subseteq Of(opener[p].version)
  BY DEF LockInv
<1>2. MigTypeOK'
  <2>1. recorded' \subseteq 1 .. LastVersion /\ schema' \subseteq Changes
    BY <1>1 DEF MigTypeOK
  <2>2. opener' \in [Openers -> [at : {"closed", "next", "begun", "open", "stuck"},
                                version : 1 .. LastVersion + 1]]
    BY <1>1 DEF MigTypeOK
  <2> QED BY <2>1, <2>2 DEF MigTypeOK
<1>3. LockInv'
  BY DEF MigTypeOK, LockInv
<1>4. 1 .. opener[p].version \subseteq recorded'
  BY <1>1 DEF MigTypeOK, ProgressInv
<1>5. ProgressInv'
  BY <1>1, <1>4 DEF MigTypeOK, ProgressInv
<1>6. MadeInv'
  <2>1. ASSUME NEW v \in recorded' PROVE 1 .. v \subseteq recorded' /\ Of(v) \subseteq schema'
    BY <1>4, <2>1 DEF MadeInv
  <2>2. ASSUME NEW c \in schema' \ Guarded PROVE c[1] \in recorded'
    BY <1>1, <2>2 DEF MadeInv, Of
  <2> QED BY <2>1, <2>2 DEF MadeInv
<1> QED BY <1>2, <1>3, <1>5, <1>6 DEF MigTypeOK, NotStuck

\* What was not committed leaves no trace.
LEMMA RollbackStep ==
    ASSUME MigInv, NEW p \in Openers, Rollback(p)
    PROVE  MigInv'
<1> USE MigrationConstantsOK DEF MigInv, Versions, Rollback
<1>1. MigTypeOK'
  BY DEF MigTypeOK
<1>2. LockInv'
  BY DEF MigTypeOK, LockInv
<1>3. ProgressInv' /\ MadeInv' /\ NotStuck'
  BY DEF MigTypeOK, ProgressInv, MadeInv, NotStuck
<1> QED BY <1>1, <1>2, <1>3

\* MigInv holds of every reachable state.
THEOREM MigInvariant == MigSpec => []MigInv
<1>1. MigInit => MigInv
  BY MigInitInv
<1>2. MigInv /\ [MigNext]_migVars => MigInv'
  <2> SUFFICES ASSUME MigInv, [MigNext]_migVars PROVE MigInv'
    OBVIOUS
  <2>1. CASE MigNext
    BY <2>1, OutsideStep, BeginStep, SkipStep, ApplyStep, RecordStep, RollbackStep DEF MigNext
  <2>2. CASE UNCHANGED migVars
    BY <2>2 DEF migVars, MigInv, MigTypeOK, LockInv, ProgressInv, MadeInv, NotStuck
  <2> QED BY <2>1, <2>2
<1> QED BY <1>1, <1>2, PTL DEF MigSpec

\* However many processes open a database of whatever earlier version, and wherever they die or
\* fail: what is recorded is made, who has opened it has all of it, and none is ever stuck.
THEOREM MigrationsRecordedIsMade == MigSpec => []RecordedIsMade
<1>1. MigInv => RecordedIsMade
  <2> SUFFICES ASSUME MigInv PROVE RecordedIsMade
    OBVIOUS
  <2>1. ASSUME NEW p \in Openers, opener[p].at = "open" PROVE schema = Changes
    <3>1. 1 .. LastVersion \subseteq recorded
      BY <2>1, MigrationConstantsOK DEF MigInv, ProgressInv
    <3>2. ASSUME NEW c \in Changes PROVE c \in schema
      BY <3>1, MigrationConstantsOK DEF MigInv, MadeInv, Of, Versions
    <3> QED BY <3>2 DEF MigInv, MigTypeOK
  <2> QED BY <2>1 DEF MigInv, MadeInv, NotStuck, RecordedIsMade
<1> QED BY <1>1, MigInvariant, PTL

-----------------------------------------------------------------------------
(* RemoteFiles *)

FileContents == (SUBSET FileCalls) \cup {None, Partial}

FileTypeOK ==
    /\ replaces \in BOOLEAN
    /\ target \in FileContents
    /\ temp \in [FileCalls -> FileContents]
    /\ data \in [FileCalls -> SUBSET FileCalls]
    /\ step \in [FileCalls -> {"idle", "open", "copy", "rename", "remove", "again", "written",
                               "discard", "ok", "failed", "stopped"}]
    /\ broken \subseteq FileCalls
    /\ remover \in FileCalls \cup {"none"}
    /\ kept \subseteq FileCalls
    /\ claim \in [Transfers -> {"none", "verified", "differs", "unknown"}]

\* A call is on its way to write a content of its own, which is neither none nor partial.
OwnContent == \A c \in FileCalls : c \in data[c]

\* What the temporary file of a call holds at each of its steps.
TempFits(c) ==
    /\ step[c] \in {"idle", "open", "written", "ok"} => temp[c] = None
    /\ step[c] = "rename" => c \notin broken
    /\ step[c] \in {"rename", "remove", "again"} /\ c \notin broken => temp[c] = data[c]

FilesInv ==
    /\ FileTypeOK
    /\ OwnContent
    /\ \A c \in FileCalls : TempFits(c)
    /\ FilesWhole

\* A call that has taken the target away is one of these as long as it is gone.
Owned == {"again", "discard", "failed", "stopped"}

\* What c is to write is a whole content.
LEMMA ContentIsWhole ==
    ASSUME FileTypeOK, OwnContent, NEW c \in FileCalls
    PROVE  data[c] # None /\ data[c] # Partial /\ data[c] \in FileContents
BY FileConstantsOK DEF FileTypeOK, OwnContent, None, Partial, FileContents, FileCalls

\* A rename that is carried out puts the whole content of c at the target.
LEMMA MoveKeeps ==
    ASSUME FilesInv, NEW c \in FileCalls, step[c] \in {"rename", "again"}, c \notin broken,
           MoveTemp(c), UNCHANGED <<replaces, data, claim, remover, kept>>,
           NEW s \in {"written", "remove", "discard"},
           Goto(c, s), (broken' = broken /\ s = "written") \/ broken' = broken \cup {c}
    PROVE  FilesInv'
<1>1. target' = data[c] /\ target' # None /\ target' # Partial /\ target' \in FileContents
  BY ContentIsWhole DEF FilesInv, TempFits, MoveTemp
<1>2. temp' = [temp EXCEPT ![c] = None] /\ None \in FileContents
  BY DEF MoveTemp, FileContents
<1>3. broken' \subseteq FileCalls /\ broken \subseteq broken'
  BY DEF FilesInv, FileTypeOK
<1>4. FileTypeOK' /\ OwnContent'
  BY <1>1, <1>2, <1>3 DEF FilesInv, FileTypeOK, OwnContent, Goto
<1>5. ASSUME NEW d \in FileCalls PROVE TempFits(d)'
  <2>1. CASE d = c
    BY <2>1, <1>2, <1>3 DEF FilesInv, FileTypeOK, TempFits, Goto
  <2>2. CASE d # c
    <3>1. step'[d] = step[d] /\ temp'[d] = temp[d] /\ data'[d] = data[d] /\ (d \in broken' <=> d \in broken)
      BY <2>2, <1>2 DEF FilesInv, FileTypeOK, Goto
    <3> QED BY <3>1 DEF FilesInv, TempFits
  <2> QED BY <2>1, <2>2
<1>6. \A d \in FileCalls :
          step'[d] \in {"ok", "failed"} /\ temp'[d] # None => d \in broken' \cup kept'
  BY <1>2, <1>3 DEF FilesInv, FileTypeOK, FilesWhole, Goto
<1>7. FilesWhole'
  BY <1>1, <1>6 DEF FilesWhole, Partial, None
<1> QED BY <1>4, <1>5, <1>7 DEF FilesInv

\* A step of c that leaves the target alone keeps what fits, if its own temporary file still does.
LEMMA QuietKeeps ==
    ASSUME FilesInv, NEW c \in FileCalls, NEW s, Goto(c, s), FileTypeOK', OwnContent',
           UNCHANGED <<target, remover>>, TempFits(c)', kept \subseteq kept',
           broken \subseteq broken', broken' \subseteq broken \cup {c},
           \A d \in FileCalls \ {c} : temp'[d] = temp[d] /\ data'[d] = data[d],
           step[c] \in Owned => s \in Owned,
           s \in {"ok", "failed"} /\ temp'[c] # None => c \in broken' \cup kept'
    PROVE  FilesInv'
<1>1. ASSUME NEW d \in FileCalls \ {c}
      PROVE  step'[d] = step[d] /\ temp'[d] = temp[d] /\ data'[d] = data[d] /\ (d \in broken' <=> d \in broken)
  BY DEF FilesInv, FileTypeOK, Goto
<1>2. step'[c] = s
  BY DEF FilesInv, FileTypeOK, Goto
<1>3. \A d \in FileCalls : TempFits(d)'
  BY <1>1 DEF FilesInv, TempFits
<1>4. target' # Partial
  BY DEF FilesInv, FilesWhole, Partial
<1>5. ASSUME target' = None, remover' # "none" PROVE step'[remover'] \in Owned
  <2>1. remover \in FileCalls /\ step[remover] \in Owned
    BY <1>5 DEF FilesInv, FilesWhole, FileTypeOK, None, Owned
  <2> QED BY <2>1, <1>1, <1>2
<1>6. \A d \in FileCalls :
          step'[d] \in {"ok", "failed"} /\ temp'[d] # None => d \in broken' \cup kept'
  BY <1>1, <1>2 DEF FilesInv, FilesWhole
<1>7. FilesWhole'
  BY <1>4, <1>5, <1>6 DEF FilesWhole, Partial, None, Owned
<1> QED BY <1>3, <1>7 DEF FilesInv

LEMMA FilesStepKeeps ==
    ASSUME FilesInv, NEW c \in FileCalls, FileStep(c)
    PROVE  FilesInv'
<1> USE DEF FilesInv
<1>0. None \in FileContents /\ Partial \in FileContents /\ data[c] \in FileContents
      /\ data[c] # None /\ data[c] # Partial
  BY ContentIsWhole DEF FileContents
<1>1. CASE BeginEdit(c)
  <2>1. CASE /\ target # None
             /\ data' = [data EXCEPT ![c] = target \cup {c}] /\ Goto(c, "open")
    <3>1. target \in SUBSET FileCalls
      BY <2>1 DEF FileTypeOK, FilesWhole, FileContents
    <3>2. FileTypeOK' /\ OwnContent'
      BY <1>1, <2>1, <3>1 DEF BeginEdit, Goto, FileTypeOK, OwnContent, FileContents, None, Partial
    <3>3. TempFits(c)' /\ \A d \in FileCalls \ {c} : temp'[d] = temp[d] /\ data'[d] = data[d]
      BY <1>1, <2>1 DEF BeginEdit, Goto, FileTypeOK, TempFits
    <3> QED BY <1>1, <2>1, <3>2, <3>3, QuietKeeps DEF BeginEdit, Owned
  <2>2. CASE Goto(c, "failed") /\ UNCHANGED data
    <3>1. FileTypeOK' /\ OwnContent' /\ TempFits(c)' /\ temp'[c] = None
      BY <1>1, <2>2 DEF BeginEdit, Goto, FileTypeOK, OwnContent, TempFits
    <3> QED BY <1>1, <2>2, <3>1, QuietKeeps DEF BeginEdit, Owned
  <2> QED BY <1>1, <2>1, <2>2 DEF BeginEdit
<1>2. CASE BeginWrite(c)
  <2>1. PICK s \in {"open", "failed"} : Goto(c, s)
    BY <1>2 DEF BeginWrite
  <2>2. FileTypeOK' /\ OwnContent' /\ TempFits(c)' /\ temp'[c] = None
    BY <1>2, <2>1 DEF BeginWrite, Goto, FileTypeOK, OwnContent, TempFits
  <2> QED BY <1>2, <2>1, <2>2, QuietKeeps DEF BeginWrite, Owned
<1>3. CASE OpenTemp(c)
  <2> DEFINE effect == temp' = [temp EXCEPT ![c] = Partial]
  <2>1. /\ step[c] = "open" /\ UNCHANGED <<replaces, target, data, claim, remover, kept>>
        /\ \/ c \notin broken /\ effect /\ Goto(c, "copy") /\ UNCHANGED broken
           \/ UNCHANGED temp /\ Goto(c, "failed") /\ broken' \in {broken, broken \cup {c}}
           \/ c \notin broken /\ effect /\ Goto(c, "failed") /\ broken' = broken \cup {c}
    BY <1>3 DEF OpenTemp, Attempt
  <2>2. FileTypeOK' /\ OwnContent'
    BY <1>0, <2>1 DEF Goto, FileTypeOK, OwnContent
  <2>3. PICK s \in {"copy", "failed"} : Goto(c, s) /\ (s = "failed" => temp'[c] = None \/ c \in broken')
    BY <2>1 DEF FileTypeOK, TempFits
  <2>4. TempFits(c)' /\ \A d \in FileCalls \ {c} : temp'[d] = temp[d]
    BY <2>1 DEF Goto, FileTypeOK, TempFits
  <2> HIDE DEF effect
  <2> QED BY <2>1, <2>2, <2>3, <2>4, QuietKeeps DEF Owned
<1>4. CASE CopyTemp(c)
  <2> DEFINE effect == temp' = [temp EXCEPT ![c] = data[c]]
  <2>1. /\ step[c] = "copy" /\ UNCHANGED <<replaces, target, data, claim, remover, kept>>
        /\ \/ c \notin broken /\ effect /\ Goto(c, "rename") /\ UNCHANGED broken
           \/ UNCHANGED temp /\ Goto(c, "discard") /\ broken' \in {broken, broken \cup {c}}
           \/ c \notin broken /\ effect /\ Goto(c, "discard") /\ broken' = broken \cup {c}
    BY <1>4 DEF CopyTemp, Attempt
  <2>2. FileTypeOK' /\ OwnContent'
    BY <1>0, <2>1 DEF Goto, FileTypeOK, OwnContent
  <2>3. PICK s \in {"rename", "discard"} : Goto(c, s)
    BY <2>1
  <2>4. TempFits(c)' /\ \A d \in FileCalls \ {c} : temp'[d] = temp[d]
    BY <2>1 DEF Goto, FileTypeOK, TempFits
  <2> HIDE DEF effect
  <2> QED BY <2>1, <2>2, <2>3, <2>4, QuietKeeps DEF Owned
<1>5. CASE Rename(c)
  <2>1. /\ step[c] = "rename" /\ UNCHANGED <<replaces, data, claim, remover, kept>>
        /\ \/ c \notin broken /\ MoveTemp(c) /\ Goto(c, "written") /\ UNCHANGED broken
           \/ UNCHANGED <<target, temp>> /\ Goto(c, "remove") /\ broken' \in {broken, broken \cup {c}}
           \/ c \notin broken /\ MoveTemp(c) /\ Goto(c, "remove") /\ broken' = broken \cup {c}
    BY <1>5 DEF Rename, Attempt
  <2>2. CASE /\ c \notin broken /\ MoveTemp(c)
             /\ \/ Goto(c, "written") /\ UNCHANGED broken
                \/ Goto(c, "remove") /\ broken' = broken \cup {c}
    BY <2>1, <2>2, MoveKeeps
  <2>3. CASE UNCHANGED <<target, temp>> /\ Goto(c, "remove") /\ broken' \in {broken, broken \cup {c}}
    <3>1. FileTypeOK' /\ OwnContent' /\ TempFits(c)'
      BY <2>1, <2>3 DEF Goto, FileTypeOK, OwnContent, TempFits
    <3> QED BY <2>1, <2>3, <3>1, QuietKeeps DEF Owned
  <2> QED BY <2>1, <2>2, <2>3
<1>6. CASE RemoveTarget(c)
  <2>1. /\ step[c] = "remove" /\ UNCHANGED <<replaces, temp, data, claim, kept>>
        /\ Goto(c, "again") /\ broken' \in {broken, broken \cup {c}}
        /\ (target' = None /\ remover' = c) \/ UNCHANGED <<target, remover>>
    BY <1>6 DEF RemoveTarget, Unlink, Attempt
  <2>2. FileTypeOK' /\ OwnContent' /\ step'[c] = "again" /\ TempFits(c)'
    BY <1>0, <2>1 DEF Goto, FileTypeOK, OwnContent, TempFits
  <2>3. CASE UNCHANGED <<target, remover>>
    BY <2>1, <2>2, <2>3, QuietKeeps DEF Owned
  <2>4. CASE target' = None /\ remover' = c
    <3>1. ASSUME NEW d \in FileCalls PROVE TempFits(d)'
      BY <2>1 DEF Goto, FileTypeOK, TempFits
    <3>2. \A d \in FileCalls :
              step'[d] \in {"ok", "failed"} /\ temp'[d] # None => d \in broken' \cup kept'
      BY <2>1 DEF FilesWhole, Goto, FileTypeOK
    <3> QED BY <2>2, <2>4, <3>1, <3>2 DEF FilesWhole, None, Partial
  <2> QED BY <2>1, <2>3, <2>4
<1>7. CASE RenameAgain(c)
  <2>1. /\ step[c] = "again" /\ UNCHANGED <<replaces, data, claim, remover, kept>>
        /\ \/ c \notin broken /\ MoveTemp(c) /\ Goto(c, "written") /\ UNCHANGED broken
           \/ UNCHANGED <<target, temp>> /\ Goto(c, "discard") /\ broken' \in {broken, broken \cup {c}}
           \/ c \notin broken /\ MoveTemp(c) /\ Goto(c, "discard") /\ broken' = broken \cup {c}
    BY <1>7 DEF RenameAgain, Attempt
  <2>2. CASE /\ c \notin broken /\ MoveTemp(c)
             /\ \/ Goto(c, "written") /\ UNCHANGED broken
                \/ Goto(c, "discard") /\ broken' = broken \cup {c}
    BY <2>1, <2>2, MoveKeeps
  <2>3. CASE UNCHANGED <<target, temp>> /\ Goto(c, "discard") /\ broken' \in {broken, broken \cup {c}}
    <3>1. FileTypeOK' /\ OwnContent' /\ TempFits(c)'
      BY <2>1, <2>3 DEF Goto, FileTypeOK, OwnContent, TempFits
    <3> QED BY <2>1, <2>3, <3>1, QuietKeeps DEF Owned
  <2> QED BY <2>1, <2>2, <2>3
<1>8. CASE Discard(c)
  <2>1. /\ step[c] = "discard" /\ Goto(c, "failed")
        /\ UNCHANGED <<replaces, target, data, claim, remover>>
        /\ broken' \in {broken, broken \cup {c}}
        /\ \/ temp' = [temp EXCEPT ![c] = None] /\ kept' = kept
           \/ kept' = kept \cup {c} /\ temp' = temp
    BY <1>8 DEF Discard, Attempt
  <2>2. FileTypeOK' /\ OwnContent' /\ TempFits(c)'
    BY <1>0, <2>1 DEF Goto, FileTypeOK, OwnContent, TempFits
  <2>3. /\ temp'[c] # None => c \in broken' \cup kept'
        /\ \A d \in FileCalls \ {c} : temp'[d] = temp[d]
    BY <2>1 DEF FileTypeOK
  <2> QED BY <2>1, <2>2, <2>3, QuietKeeps DEF Owned
<1>9. CASE Answer(c)
  <2>1. step[c] = "written" /\ Goto(c, "ok") /\ UNCHANGED <<replaces, target, temp, data, broken, remover, kept>>
    BY <1>9 DEF Answer
  <2>2. claim' \in [Transfers -> {"none", "verified", "differs", "unknown"}]
    BY <1>9 DEF Answer, FileTypeOK
  <2>3. FileTypeOK' /\ OwnContent' /\ TempFits(c)' /\ temp'[c] = None
    BY <2>1, <2>2 DEF Goto, FileTypeOK, OwnContent, TempFits
  <2> QED BY <2>1, <2>3, QuietKeeps DEF Owned
<1> QED BY <1>1, <1>2, <1>3, <1>4, <1>5, <1>6, <1>7, <1>8, <1>9 DEF FileStep

\* A stop of the gateway touches no file, and a call it stops has not answered.
LEMMA GatewayStopsKeeps ==
    ASSUME FilesInv, GatewayStops
    PROVE  FilesInv'
<1> USE DEF FilesInv, GatewayStops
<1>1. \A c \in FileCalls : step'[c] = step[c] \/ step'[c] = "stopped"
  OBVIOUS
<1>2. FileTypeOK' /\ OwnContent'
  BY DEF FileTypeOK, OwnContent
<1>3. \A c \in FileCalls : TempFits(c)'
  BY <1>1 DEF TempFits
<1>4. ASSUME target' = None, remover' # "none"
      PROVE  step'[remover'] \in {"again", "discard", "failed", "stopped"}
  BY <1>1, <1>4 DEF FileTypeOK, FilesWhole, None
<1>5. FilesWhole'
  BY <1>1, <1>4 DEF FilesWhole, None, Partial
<1> QED BY <1>2, <1>3, <1>5

\* FilesWhole: whoever reads the path gets a whole content or none, the call that took the file
\* away reports it or stops with the gateway, and a temporary file outlives its call only on a broken
\* link or where the host did not remove it.  For any writers and editors, refusals and link
\* failures at any operation, and stops of the gateway between any two.
THEOREM NothingPartial == FileSpec => []FilesWhole
<1>1. FileInit => FilesInv
  BY FileConstantsOK DEF FileInit, FilesInv, FileTypeOK, FileContents, OwnContent, TempFits, FilesWhole, None, Partial, FileCalls
<1>2. FilesInv /\ [FileNext]_fileVars => FilesInv'
  <2> SUFFICES ASSUME FilesInv, [FileNext]_fileVars PROVE FilesInv'
    OBVIOUS
  <2>1. CASE FileNext
    BY <2>1, FilesStepKeeps, GatewayStopsKeeps DEF FileNext
  <2>2. CASE UNCHANGED fileVars
    BY <2>2 DEF fileVars, FilesInv, FileTypeOK, FileContents, OwnContent, TempFits, FilesWhole, None, Partial
  <2> QED BY <2>1, <2>2
<1>3. FilesInv => FilesWhole
  BY DEF FilesInv
<1> QED BY <1>1, <1>2, <1>3, PTL DEF FileSpec

-----------------------------------------------------------------------------
(* ToolAccess *)

\* Rows that Bearer lets in.
Found == Lists \cup [kind : {"unknown"}, groups : {{}}]

\* Request r ended with what the handler of one method answers to the row it has found.
Answered(r) ==
    \E found \in Found, method \in Methods : \E g \in Asked(method) :
       r = [at |-> "answered", found |-> found, method |-> method, asked |-> g,
            groups |-> AnswerTo(method, g, EffectiveDisabled(found))]

AccessInv ==
    /\ instance \subseteq Groups
    /\ token \in Found \cup [kind : {"null", "gone"}, groups : {{}}]
    /\ request = [q \in Requests |-> request[q]]
    /\ \A q \in Requests :
          \/ request[q].at \in {"idle", "unauthorized"}
          \/ request[q].at = "begun" /\ request[q].found \in Found
          \/ Answered(request[q])

\* A token switches off at least what the instance does, and an unknown group everything.
LEMMA DisabledOf ==
    ASSUME instance \subseteq Groups, NEW found \in Found
    PROVE  /\ instance \subseteq EffectiveDisabled(found)
           /\ found.kind = "unknown" => Groups \subseteq EffectiveDisabled(found)
BY DEF EffectiveDisabled

\* What the six methods answer, told apart by what is switched off.
LEMMA AnswersAgree ==
    ASSUME instance \subseteq Groups, NEW disabled, instance \subseteq disabled, NEW g \in Groups
    PROVE  /\ g \in AnswerTo("initialize", Exec, disabled) => AnswerTo("tools/call", g, disabled) # {}
           /\ g \in AnswerTo("tools/list", Exec, disabled) <=> AnswerTo("tools/call", g, disabled) # {}
           /\ g \in AnswerTo("resources/list", Exec, disabled) => AnswerTo("resources/read", g, disabled) # {}
           /\ AnswerTo("templates/list", Exec, disabled) = {} => AnswerTo("resources/read", g, disabled) = {}
<1>1. g \in AnswerTo("initialize", Exec, disabled) => AnswerTo("tools/call", g, disabled) # {}
  BY DEF AnswerTo, ServerInstructions, Registered
<1>2. g \in AnswerTo("tools/list", Exec, disabled) <=> AnswerTo("tools/call", g, disabled) # {}
  BY DEF AnswerTo, FilterTools
<1>3. g \in AnswerTo("resources/list", Exec, disabled) => AnswerTo("resources/read", g, disabled) # {}
  BY DEF AnswerTo, FilterResources
<1>4. AnswerTo("templates/list", Exec, disabled) = {} => AnswerTo("resources/read", g, disabled) = {}
  BY DEF AnswerTo, FilterTemplates, HasPermittedApp
<1> QED BY <1>1, <1>2, <1>3, <1>4

\* The template of cards is shown only where a card can be read.
LEMMA TemplateIsUsable ==
    ASSUME NEW disabled, AnswerTo("templates/list", Exec, disabled) # {}
    PROVE  \E g \in Groups : AnswerTo("resources/read", g, disabled) # {}
<1>1. PICK g : g \in Cards \ disabled
  BY DEF AnswerTo, FilterTemplates, HasPermittedApp
<1>2. g \in Groups
  BY <1>1 DEF Cards, Registered
<1> QED BY <1>1, <1>2 DEF AnswerTo

\* Nothing that is switched off is in an answer, and where everything is, nothing.
LEMMA AnswersAllowed ==
    ASSUME NEW method \in Methods, NEW g, NEW disabled, instance \subseteq disabled
    PROVE  /\ AnswerTo(method, g, disabled) \cap instance = {}
           /\ Groups \subseteq disabled => AnswerTo(method, g, disabled) = {}
<1>1. Cards \subseteq Registered /\ Registered \subseteq Groups /\ Registered \cap instance = {}
  BY DEF Cards, Registered
<1>2. CASE method = "initialize"
  BY <1>2 DEF AnswerTo, ServerInstructions
<1>3. CASE method = "tools/list"
  BY <1>1, <1>3 DEF AnswerTo, FilterTools
<1>4. CASE method = "resources/list"
  BY <1>1, <1>4 DEF AnswerTo, FilterResources
<1>5. CASE method = "templates/list"
  <2>1. AnswerTo(method, g, disabled) = FilterTemplates(disabled)
    BY <1>5 DEF AnswerTo
  <2>2. Groups \subseteq disabled => disabled # {} /\ Cards \ disabled = {}
    BY <1>1, AccessConstantsOK
  <2> QED BY <1>1, <2>1, <2>2 DEF FilterTemplates, HasPermittedApp
<1>6. CASE method = "tools/call"
  BY <1>1, <1>6 DEF AnswerTo
<1>7. CASE method = "resources/read"
  BY <1>1, <1>7 DEF AnswerTo
<1> QED BY <1>2, <1>3, <1>4, <1>5, <1>6, <1>7 DEF Methods

\* So two requests that found the same row agree.
LEMMA AccessInvTruthful == AccessInv => AccessTruthful
<1> SUFFICES ASSUME AccessInv PROVE AccessTruthful
  OBVIOUS
<1> DEFINE D(q) == EffectiveDisabled(request[q].found)
<1>1. ASSUME NEW q \in Requests, request[q].at = "answered"
      PROVE  /\ request[q].found \in Found /\ request[q].method \in Methods
             /\ request[q].asked \in Asked(request[q].method)
             /\ request[q].groups = AnswerTo(request[q].method, request[q].asked, D(q))
             /\ instance \subseteq D(q)
  <2>1. Answered(request[q])
    BY <1>1 DEF AccessInv
  <2>2. PICK found \in Found, method \in Methods : \E g \in Asked(method) :
           request[q] = [at |-> "answered", found |-> found, method |-> method, asked |-> g,
                         groups |-> AnswerTo(method, g, EffectiveDisabled(found))]
    BY <2>1 DEF Answered
  <2>3. PICK g \in Asked(method) :
           request[q] = [at |-> "answered", found |-> found, method |-> method, asked |-> g,
                         groups |-> AnswerTo(method, g, EffectiveDisabled(found))]
    BY <2>2
  <2> QED BY <2>3, DisabledOf DEF AccessInv
<1>2. ASSUME NEW p \in Requests, Told(p)
      PROVE  /\ request[p].asked = Exec /\ request[p].method \in Methods
             /\ request[p].groups = AnswerTo(request[p].method, Exec, D(p))
  BY <1>1, <1>2 DEF Told, Asked
<1>3. ASSUME NEW q \in Requests, NEW method \in {"tools/call", "resources/read"}, Tried(q, method)
      PROVE  /\ request[q].asked \in Groups /\ instance \subseteq D(q)
             /\ request[q].groups = AnswerTo(method, request[q].asked, D(q))
  BY <1>1, <1>3 DEF Tried, Asked
<1> HIDE DEF D
<1>4. ASSUME NEW p \in Requests, NEW q \in Requests, request[p].found = request[q].found
      PROVE  D(p) = D(q)
  BY <1>4 DEF D
<1>5. ASSUME NEW p \in Requests, NEW q \in Requests,
             Told(p), Tried(q, "tools/call"), request[p].found = request[q].found
      PROVE  /\ request[p].method \in {"initialize", "tools/list"} =>
                   (request[q].asked \in request[p].groups => request[q].groups # {})
             /\ request[p].method = "tools/list" =>
                   (request[q].asked \notin request[p].groups => request[q].groups = {})
  <2>1. /\ request[q].asked \in Groups /\ instance \subseteq D(q)
        /\ request[q].groups = AnswerTo("tools/call", request[q].asked, D(q))
        /\ request[p].groups = AnswerTo(request[p].method, Exec, D(q))
    BY <1>2, <1>3, <1>4, <1>5
  <2> QED BY <2>1, AnswersAgree DEF AccessInv
<1>6. ASSUME NEW p \in Requests, NEW q \in Requests,
             Told(p), Tried(q, "resources/read"), request[p].found = request[q].found
      PROVE  /\ request[p].method = "resources/list" /\ request[q].asked \in request[p].groups =>
                   request[q].groups # {}
             /\ request[p].method = "templates/list" /\ request[p].groups = {} =>
                   request[q].groups = {}
  <2>1. /\ request[q].asked \in Groups /\ instance \subseteq D(q)
        /\ request[q].groups = AnswerTo("resources/read", request[q].asked, D(q))
        /\ request[p].groups = AnswerTo(request[p].method, Exec, D(q))
    BY <1>2, <1>3, <1>4, <1>6
  <2> QED BY <2>1, AnswersAgree DEF AccessInv
<1>7. ASSUME NEW p \in Requests, Tried(p, "templates/list"), request[p].groups # {}
      PROVE  \E g \in Groups : AnswerTo("resources/read", g, EffectiveDisabled(request[p].found)) # {}
  <2>1. Told(p) /\ request[p].method = "templates/list"
    BY <1>7 DEF Told, Tried
  <2> QED BY <1>2, <1>7, <2>1, TemplateIsUsable DEF D
<1>8. ASSUME NEW q \in Requests, request[q].at = "answered"
      PROVE  /\ request[q].groups \cap instance = {}
             /\ request[q].found.kind = "unknown" => request[q].groups = {}
  BY <1>1, <1>8, AnswersAllowed, DisabledOf DEF AccessInv, D
<1> QED BY <1>5, <1>6, <1>7, <1>8 DEF AccessTruthful

\* What a request was answered stays its answer: the switches do not move.
LEMMA AnswersStay ==
    ASSUME UNCHANGED <<instance, apps>>, NEW r, Answered(r)
    PROVE  Answered(r)'
<1>2. ASSUME NEW method, NEW g, NEW disabled
      PROVE  AnswerTo(method, g, disabled)' = AnswerTo(method, g, disabled)
  BY DEF AnswerTo, ServerInstructions, FilterTools, FilterResources, FilterTemplates,
         HasPermittedApp, Cards, Registered
<1>1. PICK found \in Found, method \in Methods : \E g \in Asked(method) :
         r = [at |-> "answered", found |-> found, method |-> method, asked |-> g,
              groups |-> AnswerTo(method, g, EffectiveDisabled(found))]
  BY DEF Answered
<1>3. PICK g \in Asked(method) :
         r = [at |-> "answered", found |-> found, method |-> method, asked |-> g,
              groups |-> AnswerTo(method, g, EffectiveDisabled(found))]
  BY <1>1
<1>4. EffectiveDisabled(found)' = EffectiveDisabled(found)
  BY DEF EffectiveDisabled
<1>5. AnswerTo(method, g, EffectiveDisabled(found))' = AnswerTo(method, g, EffectiveDisabled(found))
  <2>1. PICK d : d = EffectiveDisabled(found)
    OBVIOUS
  <2> QED BY <1>2, <1>4, <2>1
<1>6. Found' = Found /\ Methods' = Methods /\ Asked(method)' = Asked(method)
  BY DEF Found, Lists, Methods, Asked
<1> QED BY <1>3, <1>5, <1>6 DEF Answered

\* AccessTruthful: what a client is told of is what it can call or read, an unreadable row opens
\* nothing.  For any groups, rows, switches and numbers of requests.
THEOREM ToldIsUsable == AccessSpec => []AccessTruthful
<1>1. AccessInit => AccessInv
  BY DEF AccessInit, AccessInv, Found, Idle
<1>2. AccessInv /\ [AccessNext]_accessVars => AccessInv'
  <2> SUFFICES ASSUME AccessInv, [AccessNext]_accessVars PROVE AccessInv'
    OBVIOUS
  <2>1. UNCHANGED <<instance, apps>> /\ instance' \subseteq Groups
    BY DEF AccessInv, AccessNext, UpdateToken, ChangeOutside, Bearer, Handle, accessVars
  <2>2. ASSUME NEW q \in Requests, Answered(request[q]), request'[q] = request[q]
        PROVE  Answered(request[q])'
    <3>1. PICK r : r = request[q]
      OBVIOUS
    <3> QED BY <2>1, <2>2, <3>1, AnswersStay
  <2>3. ASSUME NEW q \in Requests, request'[q] = request[q]
        PROVE  \/ request'[q].at \in {"idle", "unauthorized"}
               \/ request'[q].at = "begun" /\ request'[q].found \in Found
               \/ Answered(request[q])'
    BY <2>2, <2>3 DEF AccessInv
  <2> DEFINE TokenTyped == token \in Found \cup [kind : {"null", "gone"}, groups : {{}}]
  <2>4. CASE UpdateToken \/ ChangeOutside \/ UNCHANGED accessVars
    <3>1. TokenTyped'
      BY <2>4 DEF UpdateToken, ChangeOutside, accessVars, AccessInv, Found
    <3>2. UNCHANGED request
      BY <2>4 DEF UpdateToken, ChangeOutside, accessVars
    <3> QED BY <2>1, <2>3, <3>1, <3>2 DEF AccessInv, Found, Lists
  <2>5. CASE \E q \in Requests : Bearer(q)
    <3>1. PICK q \in Requests : Bearer(q)
      BY <2>5
    <3>2. /\ request' = [request EXCEPT ![q] =
                IF token.kind \in {"null", "gone"} THEN [at |-> "unauthorized"]
                ELSE [at |-> "begun", found |-> token]]
          /\ UNCHANGED token
      BY <3>1 DEF Bearer
    <3>3. request'[q].at = "unauthorized" \/ (request'[q].at = "begun" /\ request'[q].found \in Found)
      BY <3>2 DEF AccessInv
    <3>4. \A p \in Requests \ {q} : request'[p] = request[p]
      BY <3>2 DEF AccessInv
    <3>5. request' = [p \in Requests |-> request'[p]]
      BY <3>2 DEF AccessInv
    <3>6. TokenTyped'
      BY <3>2 DEF AccessInv
    <3> QED BY <2>1, <2>3, <3>3, <3>4, <3>5, <3>6 DEF AccessInv, Found, Lists
  <2>6. CASE \E q \in Requests : Handle(q)
    <3>1. PICK q \in Requests : Handle(q)
      BY <2>6
    <3>11. PICK method \in Methods : \E g \in Asked(method) :
             request' = [request EXCEPT ![q] =
                [at |-> "answered", found |-> request[q].found, method |-> method, asked |-> g,
                 groups |-> AnswerTo(method, g, EffectiveDisabled(request[q].found))]]
      BY <3>1 DEF Handle
    <3>2. PICK g \in Asked(method) :
             request' = [request EXCEPT ![q] =
                [at |-> "answered", found |-> request[q].found, method |-> method, asked |-> g,
                 groups |-> AnswerTo(method, g, EffectiveDisabled(request[q].found))]]
      BY <3>11
    <3>3. request[q].at = "begun" /\ UNCHANGED token
      BY <3>1 DEF Handle
    <3>4. request[q].found \in Found
      BY <3>3 DEF AccessInv, Answered
    <3>5. PICK r : r = [at |-> "answered", found |-> request[q].found, method |-> method, asked |-> g,
                        groups |-> AnswerTo(method, g, EffectiveDisabled(request[q].found))]
      OBVIOUS
    <3>6. Answered(r)'
      <4>1. Answered(r)
        BY <3>4, <3>5 DEF Answered
      <4> QED BY <2>1, <4>1, AnswersStay
    <3>7. request'[q] = r /\ \A p \in Requests \ {q} : request'[p] = request[p]
      BY <3>2, <3>5 DEF AccessInv
    <3>8. request' = [p \in Requests |-> request'[p]]
      BY <3>2 DEF AccessInv
    <3>9. TokenTyped'
      BY <3>3 DEF AccessInv
    <3>10. Answered(request[q])'
      BY <3>6, <3>7
    <3> QED BY <2>1, <2>3, <3>7, <3>8, <3>9, <3>10 DEF AccessInv, Found, Lists
  <2> QED BY <2>4, <2>5, <2>6 DEF AccessNext
<1> QED BY <1>1, <1>2, AccessInvTruthful, PTL DEF AccessSpec

-----------------------------------------------------------------------------
(* Sums over finite sets, which MemoryBank counts with *)

\* A set of naturals that is not empty has a least member.
LEMMA LeastNat ==
    ASSUME NEW T \in SUBSET Nat, T # {}
    PROVE  \E n \in T : \A m \in T : n <= m
<1>1. PICK n \in T : \A m \in T : <<m, n>> \notin OpToRel(<, Nat)
  BY WFMin, NatLessThanWellFounded
<1>2. ASSUME NEW m \in T PROVE n <= m
  <2>1. ~(m < n)
    BY <1>1 DEF OpToRel
  <2> QED BY <2>1
<1> QED BY <1>2

\* A finite set of naturals that is not empty has a greatest member.
LEMMA GreatestNat ==
    ASSUME NEW T \in SUBSET Nat, T # {}, IsFiniteSet(T)
    PROVE  \E n \in T : \A m \in T : m <= n
<1> DEFINE Above(n) == {m \in T : m > n}
           Sizes == {Cardinality(Above(n)) : n \in T}
<1>1. ASSUME NEW n \in T PROVE IsFiniteSet(Above(n)) /\ Cardinality(Above(n)) \in Nat
  BY FS_Subset, FS_CardinalityType
<1>2. PICK n \in T : \A m \in T : Cardinality(Above(n)) <= Cardinality(Above(m))
  <2>1. Sizes \in SUBSET Nat /\ Sizes # {}
    BY <1>1
  <2>2. PICK k \in Sizes : \A l \in Sizes : k <= l
    BY <2>1, LeastNat
  <2> QED BY <2>2
<1>3. ASSUME NEW m \in T, m > n PROVE FALSE
  <2>3. \A x, y, z \in Nat : x > y /\ y > z => x > z
    OBVIOUS
  <2>4. m \in Nat /\ n \in Nat /\ ~(m > m)
    OBVIOUS
  <2>1. Above(m) \subseteq Above(n) /\ m \in Above(n) \ Above(m)
    BY <1>3, <2>3, <2>4
  <2>2. Cardinality(Above(m)) < Cardinality(Above(n))
    BY <1>1, <2>1, FS_Subset
  <2> QED BY <1>1, <1>2, <2>2
<1> QED BY <1>3

-----------------------------------------------------------------------------
Pick(s) == CHOOSE x \in s : TRUE

SumStep(fun, g, s) == IF s = {} THEN 0 ELSE fun[Pick(s)] + g[s \ {Pick(s)}]

Summed(S, fun, n) ==
    \E g \in [{s \in SUBSET S : Cardinality(s) <= n} -> Nat] :
       \A s \in SUBSET S : Cardinality(s) <= n => g[s] = SumStep(fun, g, s)

\* The recursion of a sum over the sets of at most n indices has a solution.
LEMMA SumUpTo ==
    ASSUME NEW S, IsFiniteSet(S), NEW fun \in [S -> Nat], NEW n \in Nat
    PROVE  Summed(S, fun, n)
<1> DEFINE Small(k) == {s \in SUBSET S : Cardinality(s) <= k}
           Solved(k) == \E g \in [Small(k) -> Nat] : \A s \in Small(k) : g[s] = SumStep(fun, g, s)
           Unsolved == {k \in Nat : ~Solved(k)}
<1>1. \A s \in SUBSET S : IsFiniteSet(s) /\ Cardinality(s) \in Nat
  BY FS_Subset, FS_CardinalityType
<1>2. ASSUME NEW s \in SUBSET S, s # {}
      PROVE  /\ Pick(s) \in S /\ s \ {Pick(s)} \in SUBSET S
             /\ Cardinality(s \ {Pick(s)}) = Cardinality(s) - 1
  BY <1>1, <1>2, FS_RemoveElement DEF Pick
<1>3. Solved(0)
  <2>1. \A s \in Small(0) : s = {}
    BY <1>1, FS_EmptySet
  <2> DEFINE g == [s \in Small(0) |-> 0]
  <2>2. g \in [Small(0) -> Nat] /\ \A s \in Small(0) : g[s] = SumStep(fun, g, s)
    BY <2>1 DEF SumStep
  <2> QED BY <2>2
<1>4. ASSUME NEW k \in Nat, Solved(k) PROVE Solved(k + 1)
  <2>1. PICK g \in [Small(k) -> Nat] : \A s \in Small(k) : g[s] = SumStep(fun, g, s)
    BY <1>4
  <2> DEFINE h == [s \in Small(k + 1) |-> SumStep(fun, g, s)]
  <2>2. \A s \in Small(k + 1) : s # {} => s \ {Pick(s)} \in Small(k)
    BY <1>1, <1>2
  <2>3. \A s \in Small(k + 1) : SumStep(fun, g, s) \in Nat
    BY <1>2, <2>2 DEF SumStep
  <2>4. h \in [Small(k + 1) -> Nat]
    BY <2>3
  <2>5. \A s \in Small(k) : s \in Small(k + 1) /\ h[s] = g[s]
    BY <1>1, <2>1
  <2>6. \A s \in Small(k + 1) : h[s] = SumStep(fun, h, s)
    BY <2>2, <2>5 DEF SumStep
  <2> QED BY <2>4, <2>6
<1>5. Unsolved = {}
  <2> SUFFICES ASSUME Unsolved # {} PROVE FALSE
    OBVIOUS
  <2> HIDE DEF Solved
  <2>1. PICK k \in Unsolved : \A l \in Unsolved : k <= l
    BY LeastNat
  <2>2. k # 0
    BY <1>3
  <2>3. k - 1 \in Nat /\ k - 1 \notin Unsolved
    BY <2>1, <2>2
  <2>4. Solved((k - 1) + 1)
    BY <1>4, <2>3
  <2>5. (k - 1) + 1 = k
    BY <2>1
  <2> QED BY <2>4, <2>5
<1>6. Solved(n)
  <2> HIDE DEF Solved
  <2> QED BY <1>5
<1> QED BY <1>6 DEF Summed

\* The sum over a finite set is a number, and no summand is greater.
LEMMA SumBounds ==
    ASSUME NEW S, IsFiniteSet(S), NEW fun \in [S -> Nat]
    PROVE  SumFunction(fun) \in Nat /\ \A x \in S : fun[x] <= SumFunction(fun)
<1> DEFINE Solves(g) == g = [s \in SUBSET S |-> SumStep(fun, g, s)]
<1>1. \A s \in SUBSET S : IsFiniteSet(s) /\ Cardinality(s) \in Nat /\ Cardinality(s) <= Cardinality(S)
  BY FS_Subset, FS_CardinalityType
<1>2. PICK g : Solves(g) /\ SumFunction(fun) = g[S]
  <2>1. \E g : Solves(g)
    <3>1. PICK n \in Nat : \A s \in SUBSET S : Cardinality(s) <= n
      BY <1>1, FS_CardinalityType
    <3>2. Summed(S, fun, n)
      BY SumUpTo
    <3>3. {s \in SUBSET S : Cardinality(s) <= n} = SUBSET S
      BY <3>1
    <3>4. PICK g \in [SUBSET S -> Nat] : \A s \in SUBSET S : g[s] = SumStep(fun, g, s)
      BY <3>1, <3>2, <3>3 DEF Summed
    <3>5. g = [s \in SUBSET S |-> SumStep(fun, g, s)]
      BY <3>4
    <3> QED BY <3>5
  <2>2. DOMAIN fun = S
    OBVIOUS
  <2>3. SumFunction(fun) = (CHOOSE g : Solves(g))[S]
    BY <2>2 DEF SumFunction, SumFunctionOnSet, FoldFunctionOnSet, MapThenFoldSet, Pick, SumStep
  <2> HIDE DEF Solves
  <2> QED BY <2>1, <2>3
<1> DEFINE Good(s) == g[s] \in Nat /\ \A x \in s : fun[x] <= g[s]
           Bad == {s \in SUBSET S : ~Good(s)}
           Sizes == {Cardinality(s) : s \in Bad}
<1>3. ASSUME NEW s \in SUBSET S, s # {}, Good(s \ {Pick(s)})
      PROVE  Good(s)
  <2>1. Pick(s) \in s /\ fun[Pick(s)] \in Nat
    BY <1>3 DEF Pick
  <2>2. g[s] = fun[Pick(s)] + g[s \ {Pick(s)}]
    BY <1>2, <1>3 DEF SumStep
  <2>3. ASSUME NEW x \in s PROVE fun[x] <= g[s]
    <3>1. fun[x] \in Nat
      BY <1>3
    <3> QED BY <1>3, <2>1, <2>2, <2>3, <3>1
  <2> QED BY <1>3, <2>1, <2>2, <2>3
<1>4. Good({})
  BY <1>2 DEF SumStep
<1> HIDE DEF Good, Solves
<1>5. Bad = {}
  <2> SUFFICES ASSUME Bad # {} PROVE FALSE
    OBVIOUS
  <2>1. Sizes \in SUBSET Nat /\ Sizes # {}
    BY <1>1
  <2>2. PICK s \in Bad : \A t \in Bad : Cardinality(s) <= Cardinality(t)
    <3>1. PICK k \in Sizes : \A l \in Sizes : k <= l
      BY <2>1, LeastNat
    <3> QED BY <3>1
  <2>3. s # {} /\ s \in SUBSET S
    BY <1>4
  <2>4. s \ {Pick(s)} \in SUBSET S /\ Cardinality(s \ {Pick(s)}) < Cardinality(s)
    <3>1. Pick(s) \in s /\ IsFiniteSet(s) /\ Cardinality(s) \in Nat
      BY <1>1, <2>3 DEF Pick
    <3>2. Cardinality(s \ {Pick(s)}) = Cardinality(s) - 1
      BY <3>1, FS_RemoveElement
    <3> QED BY <2>3, <3>1, <3>2
  <2>5. s \ {Pick(s)} \notin Bad
    BY <1>1, <2>2, <2>3, <2>4
  <2> QED BY <1>3, <2>3, <2>4, <2>5
<1>6. Good(S)
  BY <1>5
<1> QED BY <1>2, <1>6 DEF Good

-----------------------------------------------------------------------------
(* MemoryBank *)

MemCalls == Rememberers \cup Updaters

MemCallRows ==
    {NoCall} \cup [at : {"add"}, row : MemRows]
             \cup [at : {"write"}, id : MemIds, content : Texts, importance : {0, 1},
                   embedding : Texts \cup {NoVector}]

MemTypeOK ==
    /\ hostsLeft \subseteq Banks
    /\ memory \in [MemIds -> MemRows \cup {NoMemory}]
    /\ calls \in [MemCalls -> MemCallRows]

\* What a call is to write has a vector of its own text.
VectorsOnTheWay ==
    \A c \in MemCalls :
       /\ calls[c].at = "add" => calls[c].row.embedding \in Vectors(calls[c].row.content)
       /\ calls[c].at = "write" => calls[c].embedding \in Vectors(calls[c].content)

MemInv == MemTypeOK /\ EmbeddingMatches /\ VectorsOnTheWay

-----------------------------------------------------------------------------
\* A row is not NoMemory, and counting caps.
LEMMA RowsAreRows ==
    ASSUME MemTypeOK
    PROVE  \A i \in MemIds : i \in Ids(memory) <=> memory[i] \in MemRows
<1>1. NoMemory \notin MemRows
  <2>1. DOMAIN NoMemory = {"bank"} /\ "content" \notin {"bank"}
    BY DEF NoMemory
  <2>2. \A r \in MemRows : "content" \in DOMAIN r
    BY DEF MemRows
  <2> QED BY <2>1, <2>2
<1> QED BY <1>1 DEF MemTypeOK, Ids

LEMMA CountedCaps ==
    ASSUME NEW n \in Nat
    PROVE  /\ Counted(n) \in 0 .. MaxRecalls
           /\ \A k \in 0 .. MaxRecalls : k <= n => k <= Counted(n)
<1>1. Counted(n) \in {n, MaxRecalls} /\ Counted(n) <= n /\ Counted(n) <= MaxRecalls
  <2>1. \E x \in {n, MaxRecalls} : \A y \in {n, MaxRecalls} : x <= y
    BY MemoryConstantsOK
  <2> QED BY <2>1 DEF Counted, Min
<1> QED BY <1>1, MemoryConstantsOK

\* Of rows with the same text exactly one is the keeper, and it has the recalls of all.
LEMMA KeeperOfTwins ==
    ASSUME MemTypeOK, NEW i \in Ids(memory),
           NEW twins, twins = SameText(memory, memory[i].bank, memory[i].content)
    PROVE  /\ Keeper(twins) \in twins
           /\ LET sum == SumFunction([j \in twins |-> memory[j].recalls])
              IN sum \in Nat /\ \A j \in twins : memory[j].recalls <= sum
<1>1. i \in twins /\ twins \subseteq Ids(memory) /\ twins \in SUBSET MemIds /\ MemIds \in SUBSET Nat
  BY MemoryConstantsOK DEF SameText, Ids, MemIds
<1>2. IsFiniteSet(twins)
  <2>1. IsFiniteSet(MemIds)
    BY MemoryConstantsOK, FS_Interval DEF MemIds
  <2> QED BY <1>1, <2>1, FS_Subset
<1>3. \A j \in twins : memory[j] \in MemRows
  BY <1>1, RowsAreRows
<1> DEFINE best == {j \in twins : \A k \in twins : memory[k].importance <= memory[j].importance}
<1>4. best # {}
  <2>1. \A j \in twins : memory[j].importance \in {0, 1}
    BY <1>3 DEF MemRows
  <2>2. CASE \E j \in twins : memory[j].importance = 1
    BY <2>1, <2>2
  <2>3. CASE \A j \in twins : memory[j].importance = 0
    BY <1>1, <2>3
  <2> QED BY <2>1, <2>2, <2>3
<1>5. PICK j \in best : \A k \in best : j <= k
  <2>1. best \in SUBSET Nat
    BY <1>1
  <2> QED BY <1>4, <2>1, LeastNat
<1>6. Keeper(twins) \in best
  BY <1>5 DEF Keeper, Min
<1>7. [j1 \in twins |-> memory[j1].recalls] \in [twins -> Nat]
  BY <1>3, MemoryConstantsOK DEF MemRows
<1> HIDE DEF best
<1>8. /\ SumFunction([j1 \in twins |-> memory[j1].recalls]) \in Nat
      /\ \A k \in twins : [j1 \in twins |-> memory[j1].recalls][k] <= SumFunction([j1 \in twins |-> memory[j1].recalls])
  BY ONLY <1>2, <1>7, SumBounds
<1> QED BY <1>6, <1>8 DEF best

-----------------------------------------------------------------------------
\* A row that may lie in the table.
GoodRow(r) == r \in MemRows /\ r.embedding \in Vectors(r.content)

\* The table stays good if every row is an old one, a good one or none.
LEMMA TableKeeps ==
    ASSUME MemInv, UNCHANGED calls, hostsLeft' \subseteq Banks,
           memory' = [i \in MemIds |-> memory'[i]],
           \A i \in MemIds : memory'[i] = memory[i] \/ memory'[i] = NoMemory \/ GoodRow(memory'[i])
    PROVE  MemInv'
<1>1. MemTypeOK'
  BY DEF MemInv, MemTypeOK, GoodRow
<1>2. \A i \in MemIds : memory'[i] # NoMemory => memory'[i].embedding \in Vectors(memory'[i].content)
  BY DEF MemInv, EmbeddingMatches, GoodRow, Ids
<1>3. EmbeddingMatches'
  BY <1>2 DEF EmbeddingMatches, Ids
<1>4. VectorsOnTheWay'
  BY DEF MemInv, VectorsOnTheWay
<1> QED BY <1>1, <1>3, <1>4 DEF MemInv

\* Nor do calls write anything else.
LEMMA CallKeeps ==
    ASSUME MemInv, UNCHANGED <<hostsLeft, memory>>, NEW c \in MemCalls, NEW r \in MemCallRows,
           calls' = [calls EXCEPT ![c] = r],
           r.at = "add" => r.row.embedding \in Vectors(r.row.content),
           r.at = "write" => r.embedding \in Vectors(r.content)
    PROVE  MemInv'
<1>1. MemTypeOK'
  BY DEF MemInv, MemTypeOK
<1>2. EmbeddingMatches'
  BY DEF MemInv, EmbeddingMatches, Ids
<1>3. calls'[c] = r /\ \A d \in MemCalls \ {c} : calls'[d] = calls[d]
  BY DEF MemInv, MemTypeOK
<1>4. VectorsOnTheWay'
  BY <1>3 DEF MemInv, VectorsOnTheWay
<1> QED BY <1>1, <1>2, <1>4 DEF MemInv

\* A write of calls[c] into row i, and its return.
LEMMA WriteKeeps ==
    ASSUME MemInv, UNCHANGED hostsLeft, NEW c \in MemCalls,
           calls' = [calls EXCEPT ![c] = NoCall],
           NEW i \in MemIds, NEW r, GoodRow(r), memory' = [memory EXCEPT ![i] = r]
    PROVE  MemInv'
<1>1. MemTypeOK'
  BY DEF MemInv, MemTypeOK, GoodRow, MemCallRows
<1>2. \A j \in MemIds : memory'[j] # NoMemory => memory'[j].embedding \in Vectors(memory'[j].content)
  BY DEF MemInv, MemTypeOK, EmbeddingMatches, GoodRow, Ids
<1>3. EmbeddingMatches'
  BY <1>2 DEF EmbeddingMatches, Ids
<1>4. calls'[c].at = "idle" /\ \A d \in MemCalls \ {c} : calls'[d] = calls[d]
  BY DEF MemInv, MemTypeOK, NoCall
<1>5. VectorsOnTheWay'
  BY <1>4 DEF MemInv, VectorsOnTheWay
<1> QED BY <1>1, <1>3, <1>5 DEF MemInv

LEMMA GoodRows ==
    ASSUME MemInv
    PROVE  \A i \in Ids(memory) : i \in MemIds /\ GoodRow(memory[i])
<1>1. \A i \in Ids(memory) : i \in MemIds
  BY DEF Ids
<1> QED BY <1>1, RowsAreRows DEF MemInv, EmbeddingMatches, GoodRow

LEMMA RememberKeeps ==
    ASSUME MemInv, NEW c \in Rememberers, Remember(c)
    PROVE  MemInv'
<1>1. PICK bank \in hostsLeft \cup {GlobalBank}, text \in Texts, importance \in {0, 1} :
         calls' \in
             IF SameText(memory, bank, text) = {}
             THEN {[calls EXCEPT ![c] =
                     [at |-> "add",
                      row |-> [bank |-> bank, content |-> text, importance |-> importance,
                               embedding |-> v, recalls |-> 0]]] : v \in Vectors(text)}
             ELSE {[calls EXCEPT ![c] =
                     WholeRow(i, memory[i].content, Max({importance, memory[i].importance}),
                           memory[i].embedding)]
                     : i \in SameText(memory, bank, text)}
  BY DEF Remember
<1>2. CASE SameText(memory, bank, text) = {}
  <2>1. PICK v \in Vectors(text) :
           calls' = [calls EXCEPT ![c] =
                     [at |-> "add",
                      row |-> [bank |-> bank, content |-> text, importance |-> importance,
                               embedding |-> v, recalls |-> 0]]]
    BY <1>1, <1>2
  <2> DEFINE row == [bank |-> bank, content |-> text, importance |-> importance,
                     embedding |-> v, recalls |-> 0]
  <2>2. row \in MemRows /\ row.embedding \in Vectors(row.content)
    BY MemoryConstantsOK DEF MemRows, Vectors, MemInv, MemTypeOK
  <2> HIDE DEF row
  <2>3. PICK r : r = [at |-> "add", row |-> row]
    OBVIOUS
  <2>4. r \in MemCallRows /\ r.at = "add" /\ r.row = row
    BY <2>2, <2>3 DEF MemCallRows
  <2>5. calls' = [calls EXCEPT ![c] = r]
    BY <2>1, <2>3 DEF row
  <2>6. c \in MemCalls /\ UNCHANGED <<hostsLeft, memory>>
    BY DEF MemCalls, Remember
  <2> QED BY <2>2, <2>4, <2>5, <2>6, CallKeeps
<1>3. CASE SameText(memory, bank, text) # {}
  <2>1. PICK i \in SameText(memory, bank, text) :
           calls' = [calls EXCEPT ![c] =
                     WholeRow(i, memory[i].content, Max({importance, memory[i].importance}),
                           memory[i].embedding)]
    BY <1>1, <1>3
  <2>2. i \in MemIds /\ GoodRow(memory[i])
    BY GoodRows DEF SameText
  <2>3. Max({importance, memory[i].importance}) \in {0, 1}
    <3>1. memory[i].importance \in {0, 1}
      BY <2>2 DEF GoodRow, MemRows
    <3>2. \E x \in {importance, memory[i].importance} :
             \A y \in {importance, memory[i].importance} : x >= y
      BY <3>1
    <3> QED BY <3>1, <3>2 DEF Max
  <2>4. PICK r : r = WholeRow(i, memory[i].content, Max({importance, memory[i].importance}),
                              memory[i].embedding)
    OBVIOUS
  <2>5. r \in MemCallRows /\ r.at = "write" /\ r.embedding \in Vectors(r.content)
    BY <2>2, <2>3, <2>4 DEF WholeRow, MemCallRows, GoodRow, MemRows
  <2>6. c \in MemCalls /\ UNCHANGED <<hostsLeft, memory>> /\ calls' = [calls EXCEPT ![c] = r]
    BY <2>1, <2>4 DEF MemCalls, Remember
  <2> QED BY <2>5, <2>6, CallKeeps
<1> QED BY <1>2, <1>3

LEMMA UpdateKeeps ==
    ASSUME MemInv, NEW c \in Updaters, Update(c)
    PROVE  MemInv'
<1>1. PICK i \in Ids(memory), text \in Texts, importance \in {0, 1} :
         \E v \in IF text = memory[i].content THEN {memory[i].embedding} ELSE Vectors(text) :
             calls' = [calls EXCEPT ![c] = WholeRow(i, text, importance, v)]
  BY DEF Update
<1>2. PICK v \in IF text = memory[i].content THEN {memory[i].embedding} ELSE Vectors(text) :
             calls' = [calls EXCEPT ![c] = WholeRow(i, text, importance, v)]
  BY <1>1
<1>3. i \in MemIds /\ GoodRow(memory[i])
  BY GoodRows
<1>4. v \in Vectors(text) /\ v \in Texts \cup {NoVector}
  BY <1>2, <1>3 DEF GoodRow, Vectors
<1>5. PICK r : r = WholeRow(i, text, importance, v)
  OBVIOUS
<1>6. r \in MemCallRows /\ r.at = "write" /\ r.embedding \in Vectors(r.content)
  BY <1>3, <1>4, <1>5 DEF WholeRow, MemCallRows
<1>7. c \in MemCalls /\ UNCHANGED <<hostsLeft, memory>> /\ calls' = [calls EXCEPT ![c] = r]
  BY <1>2, <1>5 DEF MemCalls, Update
<1> QED BY <1>6, <1>7, CallKeeps

LEMMA MemWriteKeeps ==
    ASSUME MemInv, NEW c \in MemCalls, (c \in Rememberers /\ AddMemory(c)) \/ UpdateMemory(c)
    PROVE  MemInv'
<1>1. NoCall \in MemCallRows /\ NoCall.at = "idle" /\ calls[c] \in MemCallRows
  BY DEF MemCallRows, NoCall, MemInv, MemTypeOK
<1>2. calls' = [calls EXCEPT ![c] = NoCall] /\ UNCHANGED hostsLeft
  BY DEF AddMemory, UpdateMemory
<1>3. CASE UNCHANGED memory
  BY <1>1, <1>2, <1>3, CallKeeps
<1>4. CASE AddMemory(c) /\ memory' = [memory EXCEPT ![NextId] = calls[c].row]
  <2>1. calls[c].at = "add" /\ NextId \in MemIds
    BY <1>4 DEF AddMemory
  <2>2. PICK r, i : r = calls[c].row /\ i = NextId
    OBVIOUS
  <2>3. GoodRow(r)
    BY <1>1, <2>1, <2>2 DEF MemCallRows, NoCall, MemInv, VectorsOnTheWay, GoodRow
  <2> QED BY <1>2, <1>4, <2>1, <2>2, <2>3, WriteKeeps
<1>5. CASE /\ UpdateMemory(c) /\ calls[c].id \in Ids(memory)
           /\ memory' = [memory EXCEPT ![calls[c].id].content = calls[c].content,
                                       ![calls[c].id].importance = calls[c].importance,
                                       ![calls[c].id].embedding = calls[c].embedding]
  <2>1. PICK i, call : i = calls[c].id /\ call = calls[c]
    OBVIOUS
  <2>2. call.at = "write" /\ call \in MemCallRows /\ call.embedding \in Vectors(call.content)
    BY <1>1, <1>5, <2>1 DEF UpdateMemory, MemInv, VectorsOnTheWay
  <2>3. call.content \in Texts /\ call.importance \in {0, 1} /\ call.embedding \in Texts \cup {NoVector}
    BY <2>2 DEF MemCallRows, NoCall
  <2>4. i \in MemIds /\ GoodRow(memory[i])
    BY <1>5, <2>1, GoodRows
  <2>5. PICK r : r = [memory[i] EXCEPT !.content = call.content, !.importance = call.importance,
                                       !.embedding = call.embedding]
    OBVIOUS
  <2>6. GoodRow(r)
    BY <2>2, <2>3, <2>4, <2>5 DEF GoodRow, MemRows
  <2>7. memory' = [memory EXCEPT ![i] = r]
    BY <1>5, <2>1, <2>4, <2>5 DEF MemInv, MemTypeOK
  <2> QED BY <1>2, <2>4, <2>6, <2>7, WriteKeeps
<1> QED BY <1>3, <1>4, <1>5 DEF AddMemory, UpdateMemory

\* A row keeps its text and vector when its importance or recalls change.
LEMMA ChangedRow ==
    ASSUME NEW r, GoodRow(r)
    PROVE  /\ \A n \in 0 .. MaxRecalls : GoodRow([r EXCEPT !.recalls = n])
           /\ GoodRow([r EXCEPT !.importance = 0])
BY DEF GoodRow, MemRows

LEMMA RecallKeeps ==
    ASSUME MemInv, NEW bank, Recall(bank)
    PROVE  MemInv'
<1>1. PICK hits \in SUBSET Ids(memory) :
         memory' = [i \in MemIds |-> IF i \in hits
                                     THEN [memory[i] EXCEPT !.recalls = Counted(@ + 1)]
                                     ELSE memory[i]]
  BY DEF Recall
<1>2. ASSUME NEW i \in hits PROVE GoodRow([memory[i] EXCEPT !.recalls = Counted(@ + 1)])
  <2>1. i \in MemIds /\ GoodRow(memory[i])
    BY GoodRows
  <2>2. memory[i].recalls + 1 \in Nat
    BY <2>1, MemoryConstantsOK DEF GoodRow, MemRows
  <2> QED BY <2>1, <2>2, CountedCaps, ChangedRow
<1>3. \A i \in MemIds : memory'[i] = memory[i] \/ GoodRow(memory'[i])
  BY <1>1, <1>2
<1>4. UNCHANGED calls /\ hostsLeft' \subseteq Banks /\ memory' = [i \in MemIds |-> memory'[i]]
  BY <1>1 DEF Recall, MemInv, MemTypeOK
<1> QED BY <1>3, <1>4, TableKeeps

\* What Sleep leaves of the row i: nothing, the row, or the row with another importance or with
\* the recalls of its twins.
LEMMA SleepKeeps ==
    ASSUME MemInv, NEW bank, Sleep(bank)
    PROVE  MemInv'
<1>1. UNCHANGED calls /\ hostsLeft' \subseteq Banks /\ memory' = [i \in MemIds |-> memory'[i]]
  BY DEF Sleep, DedupeMemories, DecayMemories, PruneMemories, MemInv, MemTypeOK
<1>2. ASSUME NEW i \in MemIds
      PROVE  memory'[i] = memory[i] \/ memory'[i] = NoMemory \/ GoodRow(memory'[i])
  <2>1. CASE DedupeMemories(bank)
    <3> DEFINE twins == SameText(memory, memory[i].bank, memory[i].content)
               sum == SumFunction([j \in twins |-> memory[j].recalls])
    <3>1. \/ memory'[i] = memory[i] \/ memory'[i] = NoMemory
          \/ i \in Ids(memory) /\ memory'[i] = [memory[i] EXCEPT !.recalls = Counted(sum)]
      BY <2>1 DEF DedupeMemories
    <3>2. ASSUME i \in Ids(memory) PROVE sum \in Nat
      BY <3>2, KeeperOfTwins DEF MemInv
    <3> HIDE DEF sum
    <3>3. ASSUME i \in Ids(memory) PROVE GoodRow([memory[i] EXCEPT !.recalls = Counted(sum)])
      <4>1. GoodRow(memory[i])
        BY <3>3, GoodRows
      <4>2. Counted(sum) \in 0 .. MaxRecalls
        BY <3>2, <3>3, CountedCaps
      <4> QED BY <4>1, <4>2, ChangedRow
    <3> QED BY <3>1, <3>3
  <2>2. CASE DecayMemories(bank)
    <3>1. memory'[i] = memory[i] \/ (i \in Ids(memory) /\ memory'[i] = [memory[i] EXCEPT !.importance = 0])
      BY <2>2 DEF DecayMemories
    <3> QED BY <3>1, ChangedRow, GoodRows
  <2>3. CASE PruneMemories(bank)
    BY <2>3 DEF PruneMemories
  <2> QED BY <2>1, <2>2, <2>3 DEF Sleep
<1> QED BY <1>1, <1>2, TableKeeps

LEMMA MemStepKeeps ==
    ASSUME MemInv, MemNext
    PROVE  MemInv'
<1>1. CASE \E c \in Rememberers : Remember(c)
  BY <1>1, RememberKeeps
<1>2. CASE \E c \in Updaters : Update(c)
  BY <1>2, UpdateKeeps
<1>3. CASE (\E c \in Rememberers : AddMemory(c)) \/ \E c \in MemCalls : UpdateMemory(c)
  BY <1>3, MemWriteKeeps DEF MemCalls
<1>4. CASE \E bank \in hostsLeft \cup {GlobalBank} : Recall(bank) \/ Sleep(bank)
  BY <1>4, RecallKeeps, SleepKeeps
<1>5. CASE \E i \in MemIds : DeleteMemory(i)
  <2>1. PICK i \in MemIds : DeleteMemory(i)
    BY <1>5
  <2>2. /\ UNCHANGED calls /\ hostsLeft' \subseteq Banks /\ memory' = [j \in MemIds |-> memory'[j]]
        /\ \A j \in MemIds : memory'[j] \in {memory[j], NoMemory}
    BY <2>1 DEF DeleteMemory, MemInv, MemTypeOK
  <2> QED BY <2>2, TableKeeps
<1>6. CASE \E bank \in Banks : DropBank(bank)
  <2>1. PICK bank \in Banks : DropBank(bank)
    BY <1>6
  <2>2. /\ UNCHANGED calls /\ hostsLeft' \subseteq Banks /\ memory' = [j \in MemIds |-> memory'[j]]
        /\ \A j \in MemIds : memory'[j] \in {memory[j], NoMemory}
    BY <2>1 DEF DropBank, MemInv, MemTypeOK
  <2> QED BY <2>2, TableKeeps
<1> QED BY <1>1, <1>2, <1>3, <1>4, <1>5, <1>6 DEF MemNext, MemCalls

LEMMA MemInvariance == MemSpec => []MemInv
<1>1. MemInit => MemInv
  BY DEF MemInit, MemInv, MemTypeOK, EmbeddingMatches, VectorsOnTheWay, MemCallRows, MemCalls, NoCall, NoMemory, Ids
<1>2. MemInv /\ [MemNext]_memVars => MemInv'
  <2> SUFFICES ASSUME MemInv, [MemNext]_memVars PROVE MemInv'
    OBVIOUS
  <2>1. CASE UNCHANGED memVars
    BY <2>1 DEF memVars, MemInv, MemTypeOK, EmbeddingMatches, VectorsOnTheWay, Ids
  <2> QED BY <2>1, MemStepKeeps
<1> QED BY <1>1, <1>2, PTL DEF MemSpec

\* EmbeddingMatches: a vector is that of the text beside it, for any number of rows, banks, texts
\* and overlapping calls.
THEOREM VectorsOfTexts == MemSpec => []EmbeddingMatches
<1>1. MemInv => EmbeddingMatches
  BY DEF MemInv
<1> QED BY <1>1, MemInvariance, PTL

-----------------------------------------------------------------------------
\* The text of a recalled memory survives each of the three statements, and no statement goes
\* beyond its bank.
LEMMA DedupeSaves ==
    ASSUME MemInv, NEW bank, DedupeMemories(bank), NEW i \in Ids(memory)
    PROVE  /\ \E j \in SameText(memory', memory[i].bank, memory[i].content) :
                 memory'[j].recalls >= memory[i].recalls
           /\ memory[i].bank # bank => memory'[i] = memory[i]
<1>1. i \in MemIds /\ GoodRow(memory[i]) /\ memory[i].recalls \in 0 .. MaxRecalls
  BY GoodRows DEF GoodRow, MemRows
<1>2. CASE memory[i].bank # bank
  <2>1. memory'[i] = memory[i]
    BY <1>1, <1>2 DEF DedupeMemories
  <2>2. i \in SameText(memory', memory[i].bank, memory[i].content)
    BY <1>1, <2>1 DEF SameText, Ids
  <2> QED BY <1>1, <2>1, <2>2, MemoryConstantsOK
<1>3. CASE memory[i].bank = bank
  <2> DEFINE Twins(k) == SameText(memory, memory[k].bank, memory[k].content)
  <2>1. PICK twins : twins = Twins(i)
    OBVIOUS
  <2>2. PICK k \in twins : k = Keeper(twins)
    BY <2>1, KeeperOfTwins DEF MemInv
  <2>3. PICK sum \in Nat : sum = SumFunction([j \in twins |-> memory[j].recalls])
                           /\ \A j \in twins : memory[j].recalls <= sum
    BY <2>1, KeeperOfTwins DEF MemInv
  <2>4. /\ i \in twins /\ k \in Ids(memory) /\ k \in MemIds
        /\ memory[k].bank = bank /\ memory[k].content = memory[i].content
    BY <1>1, <1>3, <2>1 DEF SameText, Ids
  <2>5. Twins(k) = twins
    BY <1>3, <2>1, <2>4
  <2>6. memory'[k] = [memory[k] EXCEPT !.recalls = Counted(SumFunction([j \in Twins(k) |-> memory[j].recalls]))]
    <3> HIDE DEF Twins
    <3>1. k = Keeper(Twins(k))
      BY <2>2, <2>5
    <3> QED BY <2>4, <3>1 DEF DedupeMemories, Twins
  <2>7. memory'[k] = [memory[k] EXCEPT !.recalls = Counted(sum)]
    BY <2>3, <2>5, <2>6
  <2>8. GoodRow(memory[k]) /\ Counted(sum) \in 0 .. MaxRecalls
    BY <2>3, <2>4, CountedCaps, GoodRows
  <2>9. memory'[k] \in MemRows
    BY <2>7, <2>8, ChangedRow DEF GoodRow
  <2>10. memory'[k].bank = memory[i].bank /\ memory'[k].content = memory[i].content
         /\ memory'[k].recalls = Counted(sum)
    BY <1>3, <2>4, <2>7, <2>8 DEF GoodRow, MemRows
  <2>11. memory'[k] # NoMemory
    <3>1. "content" \in DOMAIN memory'[k] /\ "content" \notin DOMAIN NoMemory
      BY <2>9 DEF MemRows, NoMemory
    <3> QED BY <3>1
  <2>12. k \in SameText(memory', memory[i].bank, memory[i].content)
    BY <2>4, <2>10, <2>11 DEF SameText, Ids
  <2>13. memory[i].recalls <= Counted(sum)
    BY <1>1, <2>3, <2>4, CountedCaps
  <2> QED BY <1>1, <1>3, <2>8, <2>10, <2>12, <2>13, MemoryConstantsOK
<1> QED BY <1>2, <1>3

LEMMA AgeingSaves ==
    ASSUME MemInv, NEW bank, DecayMemories(bank) \/ PruneMemories(bank), NEW i \in Ids(memory)
    PROVE  /\ memory[i].recalls > 0 =>
                 \E j \in SameText(memory', memory[i].bank, memory[i].content) :
                    memory'[j].recalls >= memory[i].recalls
           /\ memory[i].bank # bank => memory'[i] = memory[i]
<1>1. i \in MemIds /\ GoodRow(memory[i]) /\ memory[i].recalls \in 0 .. MaxRecalls
  BY GoodRows DEF GoodRow, MemRows
<1>2. memory[i].bank # bank => memory'[i] = memory[i]
  BY <1>1 DEF DecayMemories, PruneMemories, Prunable
<1>3. ASSUME memory[i].recalls > 0
      PROVE  memory'[i] = memory[i] \/ memory'[i] = [memory[i] EXCEPT !.importance = 0]
  BY <1>1, <1>3 DEF DecayMemories, PruneMemories, Prunable
<1>4. ASSUME memory[i].recalls > 0
      PROVE  /\ memory'[i] # NoMemory /\ memory'[i].bank = memory[i].bank
             /\ memory'[i].content = memory[i].content /\ memory'[i].recalls = memory[i].recalls
  <2>1. GoodRow(memory'[i])
    BY <1>1, <1>3, <1>4, ChangedRow
  <2>2. "content" \in DOMAIN memory'[i] /\ "content" \notin DOMAIN NoMemory
    BY <2>1 DEF GoodRow, MemRows, NoMemory
  <2> QED BY <1>1, <1>3, <1>4, <2>2 DEF GoodRow, MemRows
<1>5. memory[i].recalls > 0 => i \in SameText(memory', memory[i].bank, memory[i].content)
  BY <1>1, <1>4 DEF SameText, Ids
<1> QED BY <1>1, <1>2, <1>4, <1>5, MemoryConstantsOK

\* SleepKeepsRecalled: a text that has been recalled is still there after each statement of Sleep,
\* with at least as many recalls, and memories of other banks are as they were.
THEOREM RecalledIsKept == MemSpec => SleepKeepsRecalled
<1> DEFINE Saved ==
       \A bank \in Banks \cup {GlobalBank} : Sleep(bank) =>
          /\ \A i \in Ids(memory) : memory[i].recalls > 0 =>
                \E j \in SameText(memory', memory[i].bank, memory[i].content) :
                   memory'[j].recalls >= memory[i].recalls
          /\ \A i \in Ids(memory) : memory[i].bank # bank => memory'[i] = memory[i]
<1>1. MemInv => Saved
  BY DedupeSaves, AgeingSaves DEF Sleep
<1>2. MemInv /\ [MemNext]_memVars => [Saved]_memVars
  BY <1>1
<1> HIDE DEF Saved
<1>3. MemSpec => [][Saved]_memVars
  BY <1>2, MemInvariance, PTL DEF MemSpec
<1> QED BY <1>3 DEF SleepKeepsRecalled, Saved

-----------------------------------------------------------------------------
(* EventBus *)

Events == [by : Publishers, n : Nat]

BusTypeOK ==
    /\ subs \subseteq Subscribers /\ closed \subseteq Subscribers
    /\ queue \in [Subscribers -> Seq(Events)]
    /\ pub \in [Publishers -> [n : Nat, todo : SUBSET Subscribers, busy : BOOLEAN]]
    /\ seen \in [Subscribers -> [Publishers -> Nat]]

\* An event goes to subscribers of the map only, whose channels are open while it is published.
Locked ==
    /\ subs \cap closed = {}
    /\ \A p \in Publishers : /\ pub[p].todo \subseteq subs
                             /\ ~pub[p].busy => pub[p].todo = {}

\* Nothing newer than the publisher's last event is about, and that one not before it is offered.
NotAhead ==
    \A s \in Subscribers, p \in Publishers :
        /\ seen[s][p] <= pub[p].n
        /\ s \in pub[p].todo => seen[s][p] < pub[p].n
        /\ \A i \in 1 .. Len(queue[s]) : queue[s][i].by = p =>
              /\ queue[s][i].n <= pub[p].n
              /\ s \in pub[p].todo => queue[s][i].n < pub[p].n

BusSafe == BusTypeOK /\ Locked /\ NotAhead /\ Delivery

\* A publisher numbers its next event.
LEMMA BeginPublishKeeps ==
    ASSUME BusSafe, NEW p \in Publishers, BeginPublish(p)
    PROVE  BusSafe'
<1>1. /\ pub'[p].n = pub[p].n + 1 /\ pub'[p].todo = subs /\ pub'[p].busy
      /\ \A q \in Publishers \ {p} : pub'[q] = pub[q]
      /\ UNCHANGED <<subs, closed, queue, seen>> /\ pub[p].n \in Nat
      /\ pub' \in [Publishers -> [n : Nat, todo : SUBSET Subscribers, busy : BOOLEAN]]
  BY DEF BusSafe, BusTypeOK, BeginPublish
<1>2. BusTypeOK' /\ Locked'
  BY <1>1 DEF BusSafe, BusTypeOK, Locked
<1>3. NotAhead'
  <2> SUFFICES ASSUME NEW s \in Subscribers, NEW q \in Publishers
               PROVE  /\ seen[s][q] <= pub'[q].n
                      /\ s \in pub'[q].todo => seen[s][q] < pub'[q].n
                      /\ \A i \in 1 .. Len(queue[s]) : queue[s][i].by = q =>
                            /\ queue[s][i].n <= pub'[q].n
                            /\ s \in pub'[q].todo => queue[s][i].n < pub'[q].n
    BY <1>1 DEF NotAhead
  <2>1. /\ seen[s][q] <= pub[q].n
        /\ s \in pub[q].todo => seen[s][q] < pub[q].n
        /\ \A i \in 1 .. Len(queue[s]) : queue[s][i].by = q =>
              /\ queue[s][i].n <= pub[q].n
              /\ s \in pub[q].todo => queue[s][i].n < pub[q].n
    BY DEF BusSafe, NotAhead
  <2>2. seen[s][q] \in Nat /\ \A i \in 1 .. Len(queue[s]) : queue[s][i].n \in Nat
    <3>1. queue[s] \in Seq(Events) /\ seen[s][q] \in Nat
      BY DEF BusSafe, BusTypeOK
    <3>2. \A i \in 1 .. Len(queue[s]) : queue[s][i] \in Events
      BY <3>1, ElementOfSeq
    <3> QED BY <3>1, <3>2 DEF Events
  <2>3. CASE q = p
    BY <1>1, <2>1, <2>2, <2>3
  <2>4. CASE q # p
    BY <1>1, <2>1, <2>4
  <2> QED BY <2>3, <2>4
<1>4. Delivery'
  BY <1>1 DEF BusSafe, Locked, Delivery, NoSendOnClosed, InOrder
<1> QED BY <1>2, <1>3, <1>4 DEF BusSafe

\* It offers it to one subscriber, whose channel takes it unless it is full.
LEMMA OfferKeeps ==
    ASSUME BusSafe, NEW p \in Publishers, Offer(p)
    PROVE  BusSafe'
<1>1. PICK s \in pub[p].todo :
         /\ pub' = [pub EXCEPT ![p].todo = @ \ {s}]
         /\ queue' = IF Len(queue[s]) < Buffer
                     THEN [queue EXCEPT ![s] = Append(@, [by |-> p, n |-> pub[p].n])]
                     ELSE queue
  BY DEF Offer
<1>2. PICK e : e = [by |-> p, n |-> pub[p].n]
  OBVIOUS
<1>3. /\ s \in Subscribers /\ BusTypeOK /\ UNCHANGED <<subs, closed, seen>>
      /\ pub'[p].n = pub[p].n /\ pub'[p].busy = pub[p].busy /\ pub'[p].todo = pub[p].todo \ {s}
      /\ \A q \in Publishers \ {p} : pub'[q] = pub[q]
      /\ pub' \in [Publishers -> [n : Nat, todo : SUBSET Subscribers, busy : BOOLEAN]]
  BY <1>1 DEF BusSafe, BusTypeOK, Offer
<1>4. e \in Events /\ e.by = p /\ e.n = pub[p].n
  BY <1>2, <1>3 DEF BusTypeOK, Events
<1>5. PICK k : k = Len(queue[s])
  OBVIOUS
<1>6. /\ queue[s] \in Seq(Events) /\ k \in Nat
      /\ \A i \in 1 .. k : queue[s][i] \in Events /\ queue[s][i].n \in Nat
  <2>1. queue[s] \in Seq(Events)
    BY <1>3 DEF BusTypeOK
  <2>2. k \in Nat /\ \A i \in 1 .. k : queue[s][i] \in Events
    BY <1>5, <2>1, LenProperties, ElementOfSeq
  <2> QED BY <2>1, <2>2 DEF Events
<1>7. Locked'
  BY <1>3 DEF BusSafe, Locked
<1>8. CASE k < Buffer
  <2>1. /\ Append(queue[s], e) \in Seq(Events) /\ Len(Append(queue[s], e)) = k + 1
        /\ \A i \in 1 .. k : Append(queue[s], e)[i] = queue[s][i]
        /\ Append(queue[s], e)[k + 1] = e
    BY <1>4, <1>5, <1>6, AppendProperties
  <2>2. queue' = [queue EXCEPT ![s] = Append(queue[s], e)]
    BY <1>1, <1>2, <1>5, <1>8
  <2>3. /\ queue' \in [Subscribers -> Seq(Events)] /\ queue'[s] = Append(queue[s], e)
        /\ \A x \in Subscribers \ {s} : queue'[x] = queue[x]
    BY <1>3, <2>1, <2>2 DEF BusTypeOK
  <2>4. /\ Len(queue'[s]) = k + 1 /\ queue'[s][k + 1] = e
        /\ \A i \in 1 .. k : queue'[s][i] = queue[s][i]
        /\ \A i \in 1 .. k + 1 : i \in 1 .. k \/ i = k + 1
    BY <1>6, <2>1, <2>3
  <2>5. /\ seen[s][p] < e.n
        /\ \A i \in 1 .. k : queue[s][i].by = p => queue[s][i].n < e.n
    BY <1>1, <1>3, <1>4, <1>5 DEF BusSafe, NotAhead
  <2>6. NotAhead'
    <3>1. ASSUME NEW q \in Publishers, NEW i \in 1 .. k + 1, queue'[s][i].by = q
          PROVE  /\ queue'[s][i].n <= pub'[q].n
                 /\ s \in pub'[q].todo => queue'[s][i].n < pub'[q].n
      <4>1. CASE i \in 1 .. k
        BY <1>3, <1>5, <2>4, <3>1, <4>1 DEF BusSafe, NotAhead
      <4>2. CASE i = k + 1
        BY <1>3, <1>4, <2>4, <3>1, <4>2 DEF BusTypeOK
      <4> QED BY <2>4, <4>1, <4>2
    <3>2. ASSUME NEW x \in Subscribers, NEW q \in Publishers
          PROVE  /\ seen'[x][q] <= pub'[q].n
                 /\ x \in pub'[q].todo => seen'[x][q] < pub'[q].n
      BY <1>3 DEF BusSafe, NotAhead
    <3>3. ASSUME NEW x \in Subscribers \ {s}, NEW q \in Publishers,
                 NEW i \in 1 .. Len(queue'[x]), queue'[x][i].by = q
          PROVE  /\ queue'[x][i].n <= pub'[q].n
                 /\ x \in pub'[q].todo => queue'[x][i].n < pub'[q].n
      BY <1>3, <2>3, <3>3 DEF BusSafe, NotAhead
    <3> QED BY <2>4, <3>1, <3>2, <3>3 DEF NotAhead
  <2>7. NoSendOnClosed'
    <3>1. k + 1 <= Buffer
      BY <1>6, <1>8, BusConstantsOK
    <3>2. \A q \in Publishers : pub'[q].todo \cap closed' = {}
      BY <1>3 DEF BusSafe, Delivery, NoSendOnClosed
    <3>3. \A x \in Subscribers : Len(queue'[x]) <= Buffer
      BY <2>3, <2>4, <3>1 DEF BusSafe, Delivery, NoSendOnClosed
    <3> QED BY <3>2, <3>3 DEF NoSendOnClosed
  <2>8. InOrder'
    <3>1. ASSUME NEW i \in 1 .. k + 1
          PROVE  /\ queue'[s][i].n > seen[s][queue'[s][i].by]
                 /\ \A j \in 1 .. i - 1 :
                       queue'[s][j].by = queue'[s][i].by => queue'[s][j].n < queue'[s][i].n
      <4>1. CASE i \in 1 .. k
        <5>1. \A j \in 1 .. i - 1 : j \in 1 .. k
          BY <1>6, <4>1
        <5>2. /\ queue[s][i].n > seen[s][queue[s][i].by]
              /\ \A j \in 1 .. i - 1 : queue[s][j].by = queue[s][i].by => queue[s][j].n < queue[s][i].n
          BY <1>3, <1>5, <4>1 DEF BusSafe, Delivery, InOrder
        <5> QED BY <2>4, <4>1, <5>1, <5>2
      <4>2. CASE i = k + 1
        <5>1. \A j \in 1 .. i - 1 : j \in 1 .. k
          BY <1>6, <4>2
        <5>2. seen[s][p] \in Nat /\ e.n \in Nat
          BY <1>3, <1>4 DEF BusTypeOK, Events
        <5> QED BY <1>4, <2>4, <2>5, <4>2, <5>1, <5>2
      <4> QED BY <2>4, <4>1, <4>2
    <3>2. ASSUME NEW x \in Subscribers \ {s}, NEW i \in 1 .. Len(queue'[x])
          PROVE  /\ queue'[x][i].n > seen'[x][queue'[x][i].by]
                 /\ \A j \in 1 .. i - 1 :
                       queue'[x][j].by = queue'[x][i].by => queue'[x][j].n < queue'[x][i].n
      BY <1>3, <2>3 DEF BusSafe, Delivery, InOrder
    <3> QED BY <1>3, <2>4, <3>1, <3>2 DEF InOrder
  <2>9. BusTypeOK'
    BY <1>3, <2>3 DEF BusTypeOK
  <2> QED BY <1>7, <2>6, <2>7, <2>8, <2>9 DEF BusSafe, Delivery
<1>9. CASE ~(k < Buffer)
  <2>1. queue' = queue
    BY <1>1, <1>5, <1>9
  <2>2. BusTypeOK' /\ Delivery'
    BY <1>3, <2>1 DEF BusSafe, BusTypeOK, Delivery, NoSendOnClosed, InOrder
  <2>3. NotAhead'
    BY <1>3, <2>1 DEF BusSafe, NotAhead
  <2> QED BY <1>7, <2>2, <2>3 DEF BusSafe
<1> QED BY <1>8, <1>9

\* The reader takes the oldest event of its channel.
LEMMA ReadKeeps ==
    ASSUME BusSafe, NEW s \in Subscribers, Read(s)
    PROVE  BusSafe'
<1>1. PICK e, k : e = Head(queue[s]) /\ k = Len(queue[s])
  OBVIOUS
<1>2. /\ BusTypeOK /\ UNCHANGED <<subs, closed, pub>> /\ queue[s] \in Seq(Events) /\ queue[s] # <<>>
      /\ queue' = [queue EXCEPT ![s] = Tail(queue[s])]
      /\ seen' = [seen EXCEPT ![s][e.by] = e.n]
  BY <1>1 DEF BusSafe, BusTypeOK, Read
<1>3. /\ k \in Nat \ {0} /\ e = queue[s][1] /\ e \in Events /\ e.by \in Publishers /\ e.n \in Nat
      /\ Tail(queue[s]) \in Seq(Events) /\ Len(Tail(queue[s])) = k - 1
      /\ \A i \in 1 .. k - 1 : Tail(queue[s])[i] = queue[s][i + 1]
      /\ \A i \in 1 .. k : queue[s][i] \in Events /\ queue[s][i].by \in Publishers
                           /\ queue[s][i].n \in Nat
  <2>1. /\ k \in Nat \ {0} /\ Tail(queue[s]) \in Seq(Events) /\ Len(Tail(queue[s])) = k - 1
        /\ \A i \in 1 .. k - 1 : Tail(queue[s])[i] = queue[s][i + 1]
        /\ e = queue[s][1]
    BY <1>1, <1>2, EmptySeq, LenProperties, HeadTailProperties
  <2>2. \A i \in 1 .. k : queue[s][i] \in Events
    BY <1>1, <1>2, ElementOfSeq
  <2>3. 1 \in 1 .. k
    BY <2>1
  <2> QED BY <2>1, <2>2, <2>3 DEF Events
<1>4. /\ queue' \in [Subscribers -> Seq(Events)] /\ queue'[s] = Tail(queue[s])
      /\ \A x \in Subscribers \ {s} : queue'[x] = queue[x]
  BY <1>2, <1>3 DEF BusTypeOK
<1>5. /\ seen' \in [Subscribers -> [Publishers -> Nat]]
      /\ \A q \in Publishers : seen'[s][q] = IF q = e.by THEN e.n ELSE seen[s][q]
      /\ \A x \in Subscribers \ {s} : seen'[x] = seen[x]
  BY <1>2, <1>3 DEF BusTypeOK
<1>6. /\ Len(queue'[s]) = k - 1
      /\ \A i \in 1 .. k - 1 : queue'[s][i] = queue[s][i + 1] /\ i + 1 \in 1 .. k
  BY <1>3, <1>4
<1>7. NotAhead'
  <2>1. ASSUME NEW q \in Publishers
        PROVE  /\ seen'[s][q] <= pub[q].n
               /\ s \in pub[q].todo => seen'[s][q] < pub[q].n
               /\ \A i \in 1 .. k - 1 : queue'[s][i].by = q =>
                     /\ queue'[s][i].n <= pub[q].n
                     /\ s \in pub[q].todo => queue'[s][i].n < pub[q].n
    <3>1. /\ seen[s][q] <= pub[q].n
          /\ s \in pub[q].todo => seen[s][q] < pub[q].n
          /\ \A i \in 1 .. k : queue[s][i].by = q =>
                /\ queue[s][i].n <= pub[q].n
                /\ s \in pub[q].todo => queue[s][i].n < pub[q].n
      BY <1>1 DEF BusSafe, NotAhead
    <3>2. 1 \in 1 .. k
      BY <1>3
    <3>3. \A i \in 1 .. k - 1 : queue'[s][i].by = q =>
             /\ queue'[s][i].n <= pub[q].n
             /\ s \in pub[q].todo => queue'[s][i].n < pub[q].n
      BY <1>6, <3>1
    <3>4. q = e.by => e.n <= pub[q].n /\ (s \in pub[q].todo => e.n < pub[q].n)
      BY <1>3, <3>1, <3>2
    <3> QED BY <1>5, <3>1, <3>3, <3>4
  <2>2. ASSUME NEW x \in Subscribers \ {s}, NEW q \in Publishers
        PROVE  /\ seen'[x][q] <= pub'[q].n
               /\ x \in pub'[q].todo => seen'[x][q] < pub'[q].n
               /\ \A i \in 1 .. Len(queue'[x]) : queue'[x][i].by = q =>
                     /\ queue'[x][i].n <= pub'[q].n
                     /\ x \in pub'[q].todo => queue'[x][i].n < pub'[q].n
    BY <1>2, <1>4, <1>5 DEF BusSafe, NotAhead
  <2> QED BY <1>2, <1>6, <2>1, <2>2 DEF NotAhead
<1>8. NoSendOnClosed'
  <2>1. k <= Buffer => k - 1 <= Buffer
    BY <1>3, BusConstantsOK
  <2> QED BY <1>1, <1>2, <1>4, <1>6, <2>1 DEF BusSafe, Delivery, NoSendOnClosed
<1>9. InOrder'
  <2>1. ASSUME NEW i \in 1 .. k - 1
        PROVE  /\ queue'[s][i].n > seen'[s][queue'[s][i].by]
               /\ \A j \in 1 .. i - 1 :
                     queue'[s][j].by = queue'[s][i].by => queue'[s][j].n < queue'[s][i].n
    <3>1. i + 1 \in 1 .. k /\ 1 \in 1 .. (i + 1) - 1
          /\ \A j \in 1 .. i - 1 : j \in 1 .. k - 1 /\ j + 1 \in 1 .. (i + 1) - 1
      BY <1>3
    <3>2. PICK f : f = queue[s][i + 1]
      OBVIOUS
    <3>3. /\ f.n > seen[s][f.by]
          /\ \A j \in 1 .. (i + 1) - 1 : queue[s][j].by = f.by => queue[s][j].n < f.n
      BY <1>1, <3>1, <3>2 DEF BusSafe, Delivery, InOrder
    <3>4. queue'[s][i] = f /\ f.by \in Publishers /\ f.n \in Nat
      BY <1>3, <1>6, <3>1, <3>2
    <3>5. f.n > seen'[s][f.by]
      <4>1. CASE f.by = e.by
        <5>1. e.n < f.n
          BY <1>3, <3>1, <3>3, <4>1
        <5> QED BY <1>3, <1>5, <3>4, <4>1, <5>1
      <4>2. CASE f.by # e.by
        BY <1>5, <3>3, <3>4, <4>2
      <4> QED BY <4>1, <4>2
    <3>6. \A j \in 1 .. i - 1 : queue'[s][j].by = f.by => queue'[s][j].n < f.n
      BY <1>6, <3>1, <3>3
    <3> QED BY <3>4, <3>5, <3>6
  <2>2. ASSUME NEW x \in Subscribers \ {s}, NEW i \in 1 .. Len(queue'[x])
        PROVE  /\ queue'[x][i].n > seen'[x][queue'[x][i].by]
               /\ \A j \in 1 .. i - 1 :
                     queue'[x][j].by = queue'[x][i].by => queue'[x][j].n < queue'[x][i].n
    BY <1>4, <1>5 DEF BusSafe, Delivery, InOrder
  <2> QED BY <1>6, <2>1, <2>2 DEF InOrder
<1>10. BusTypeOK' /\ Locked'
  BY <1>2, <1>4, <1>5 DEF BusSafe, BusTypeOK, Locked
<1> QED BY <1>7, <1>8, <1>9, <1>10 DEF BusSafe, Delivery

\* The map changes while nobody publishes, or a publisher is through with it.
LEMMA SubscribersKeep ==
    ASSUME BusSafe,
           \/ \E s \in Subscribers : Subscribe(s) \/ Unsubscribe(s)
           \/ \E p \in Publishers : EndPublish(p)
    PROVE  BusSafe'
<1>1. CASE \E s \in Subscribers : Subscribe(s) \/ Unsubscribe(s)
  <2>1. PICK s \in Subscribers : Subscribe(s) \/ Unsubscribe(s)
    BY <1>1
  <2>2. /\ \A p \in Publishers : pub[p].todo = {}
        /\ UNCHANGED <<queue, pub, seen>>
    BY <2>1 DEF BusSafe, BusTypeOK, Locked, Readers, Subscribe, Unsubscribe
  <2>3. BusTypeOK' /\ Locked'
    BY <2>1, <2>2 DEF BusSafe, BusTypeOK, Locked, Subscribe, Unsubscribe
  <2> QED BY <2>2, <2>3 DEF BusSafe, NotAhead, Delivery, NoSendOnClosed, InOrder
<1>2. CASE \E p \in Publishers : EndPublish(p)
  <2>1. PICK p \in Publishers : EndPublish(p)
    BY <1>2
  <2>2. /\ UNCHANGED <<subs, closed, queue, seen>>
        /\ \A q \in Publishers : pub'[q].n = pub[q].n /\ pub'[q].todo = pub[q].todo
        /\ \A q \in Publishers \ {p} : pub'[q] = pub[q]
        /\ pub[p].todo = {}
        /\ pub' \in [Publishers -> [n : Nat, todo : SUBSET Subscribers, busy : BOOLEAN]]
    BY <2>1 DEF BusSafe, BusTypeOK, EndPublish
  <2>3. BusTypeOK' /\ Locked'
    BY <2>2 DEF BusSafe, BusTypeOK, Locked
  <2> QED BY <2>2, <2>3 DEF BusSafe, NotAhead, Delivery, NoSendOnClosed, InOrder
<1> QED BY <1>1, <1>2

\* However publishers, subscriptions and readers interleave: no event is sent on a channel that
\* has been closed, and a reader gets the events of one publisher in their order.
THEOREM EventsInOrder == BusSpec => []Delivery
<1>1. BusInit => BusSafe
  BY BusConstantsOK DEF BusInit, BusSafe, BusTypeOK, Locked, NotAhead, Delivery, NoSendOnClosed, InOrder
<1>2. BusSafe /\ [BusNext]_busVars => BusSafe'
  <2>1. BusSafe /\ UNCHANGED busVars => BusSafe'
    BY DEF busVars, BusSafe, BusTypeOK, Locked, NotAhead, Delivery, NoSendOnClosed, InOrder
  <2> QED BY <2>1, BeginPublishKeeps, OfferKeeps, ReadKeeps, SubscribersKeep DEF BusNext
<1>3. BusSafe => Delivery
  BY DEF BusSafe
<1> QED BY <1>1, <1>2, <1>3, PTL DEF BusSpec

=============================================================================
