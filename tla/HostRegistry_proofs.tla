------------------------- MODULE HostRegistry_proofs -------------------------
(***************************************************************************)
(* Proofs about HostRegistry for any number of hosts and requests.  Until  *)
(* a row is written while another request is checking its own (raced), a   *)
(* request that is about to write has read a chain of rows that is still   *)
(* as it was, and does not contain its host.                               *)
(***************************************************************************)
EXTENDS HostRegistry, TLAPS

USE RegistryConstantsOK

-----------------------------------------------------------------------------
(* Type correctness *)

\* The tables and requests start empty.
LEMMA InitInv == RegInit => RegInv
<1> SUFFICES ASSUME RegInit PROVE RegInv
  OBVIOUS
<1>1. RegTypeOK
  BY DEF RegInit, RegTypeOK, Requests, NoRequest, Steps
<1>2. ASSUME NEW S \in SUBSET Hosts, S # {} PROVE \E h \in S : jump[h] \notin S
  BY <1>2 DEF RegInit
<1>3. ActiveViaActive /\ \A a \in Admins : Chain(a) /\ Finding(a)
  BY DEF RegInit, ActiveViaActive, Chain, Finding
<1> QED BY <1>1, <1>2, <1>3 DEF RegInv, Acyclic, NoCycle

\* A step of request a concerns no other request.
Touches(a) ==
    /\ step' = [step EXCEPT ![a] = step'[a]]
    /\ req' = [req EXCEPT ![a] = req'[a]]
    /\ owed' = [owed EXCEPT ![a] = owed'[a]]

\* What a step leaves in the variables of request a.
Fits(a) ==
    /\ step'[a] \in Steps /\ req'[a] \in Requests /\ owed'[a] \subseteq Hosts
    /\ IF step'[a] = "idle" THEN owed'[a] = {} ELSE req'[a].host \in Hosts
    /\ step'[a] = "walk" => req'[a].cur \in Hosts

\* The row that a new request for a host starts with.
LEMMA NewRequest ==
    ASSUME NEW h \in Hosts, NEW j \in Hosts \cup {None}, NEW w \in BOOLEAN
    PROVE  /\ [NoRequest EXCEPT !.host = h] \in Requests
           /\ [NoRequest EXCEPT !.host = h].host = h
           /\ [NoRequest EXCEPT !.host = h, !.want = j, !.wasArchived = w] \in Requests
           /\ [NoRequest EXCEPT !.host = h, !.want = j, !.wasArchived = w].host = h
           /\ [NoRequest EXCEPT !.host = h, !.want = j, !.new = TRUE] \in Requests
           /\ [NoRequest EXCEPT !.host = h, !.want = j, !.new = TRUE].host = h
BY DEF NoRequest, Requests

\* An answered request is well typed.
LEMMA TypeReply ==
    ASSUME RegTypeOK, NEW a \in Admins, Reply(a)
    PROVE  Touches(a) /\ Fits(a)
BY DEF RegTypeOK, Reply, Goto, Touches, Fits, Requests, NoRequest, Steps

\* Steps of a request that only read leave the table alone.
LEMMA TypeRead ==
    ASSUME RegTypeOK, NEW a \in Admins, ReadStep(a)
    PROVE  Touches(a) /\ Fits(a) /\ UNCHANGED table
<1> USE DEF RegTypeOK, Goto, Owe, Touches, Fits
<1>1. ASSUME NEW h \in Hosts, NEW j \in Hosts \cup {None}, BeginUpdate(a, h, j)
      PROVE  Touches(a) /\ Fits(a) /\ UNCHANGED table
  <2> DEFINE w == h \in archived
             r == [NoRequest EXCEPT !.host = h, !.want = j, !.wasArchived = w]
  <2>1. w \in BOOLEAN
    OBVIOUS
  <2>2. r \in Requests /\ r.host = h
    BY <2>1, NewRequest
  <2>3. req' = [req EXCEPT ![a] = r]
    BY <1>1 DEF BeginUpdate
  <2> HIDE DEF r
  <2> QED BY <1>1, <2>2, <2>3 DEF BeginUpdate, Steps
<1>2. ASSUME NEW h \in Hosts, NEW j \in Hosts \cup {None}, BeginCreate(a, h, j)
      PROVE  Touches(a) /\ Fits(a) /\ UNCHANGED table
  <2> DEFINE r == [NoRequest EXCEPT !.host = h, !.want = j, !.new = TRUE]
  <2>1. r \in Requests /\ r.host = h
    BY NewRequest
  <2>2. req' = [req EXCEPT ![a] = r]
    BY <1>2 DEF BeginCreate
  <2> HIDE DEF r
  <2> QED BY <1>2, <2>1, <2>2 DEF BeginCreate, Steps
<1>3. ASSUME NEW h \in Hosts, BeginDelete(a, h) \/ Reconnect(a, h)
      PROVE  Touches(a) /\ Fits(a) /\ UNCHANGED table
  <2> DEFINE r == [NoRequest EXCEPT !.host = h]
  <2>1. r \in Requests /\ r.host = h
    BY NewRequest
  <2>2. req' = [req EXCEPT ![a] = r]
    BY <1>3 DEF BeginDelete, Reconnect
  <2> HIDE DEF r
  <2> QED BY <1>3, <2>1, <2>2 DEF BeginDelete, Reconnect, Steps
<1>4. ASSUME FindJump(a)
      PROVE  Touches(a) /\ Fits(a) /\ UNCHANGED table
  <2>1. CASE BadJump(a)
    BY <1>4, <2>1, TypeReply DEF FindJump
  <2>2. CASE ~BadJump(a)
    <3> DEFINE r == [req[a] EXCEPT !.cur = req[a].want, !.next = jump[req[a].want]]
    <3>1. req[a] \in Requests /\ req[a].host \in Hosts /\ req[a].want \in present
      BY <1>4, <2>2 DEF FindJump, BadJump
    <3>2. r \in Requests /\ r.host = req[a].host /\ r.cur \in Hosts
      BY <3>1 DEF Requests
    <3>3. req' = [req EXCEPT ![a] = r]
      BY <1>4, <2>2 DEF FindJump
    <3> HIDE DEF r
    <3> QED BY <1>4, <2>2, <3>1, <3>2, <3>3 DEF FindJump, Steps
  <2> QED BY <2>1, <2>2
<1>5. ASSUME Walk(a)
      PROVE  Touches(a) /\ Fits(a) /\ UNCHANGED table
  <2>1. CASE Reply(a)
    BY <1>5, <2>1, TypeReply DEF Walk
  <2>2. CASE ~Reply(a)
    <3> DEFINE r == [req[a] EXCEPT !.seen = @ \cup {req[a].cur}]
               q == [req[a] EXCEPT !.seen = @ \cup {req[a].cur}, !.cur = req[a].next, !.next = jump[req[a].next]]
    <3>1. req[a] \in Requests /\ req[a].host \in Hosts /\ req[a].cur \in Hosts
      BY <1>5 DEF Walk
    <3>2. r \in Requests /\ r.host = req[a].host
      BY <3>1 DEF Requests
    <3>3. ASSUME req[a].next \in present PROVE q \in Requests /\ q.host = req[a].host /\ q.cur \in Hosts
      <4>1. req[a].next \in Hosts /\ jump[req[a].next] \in Hosts \cup {None}
        BY <3>3
      <4> HIDE DEF RegTypeOK
      <4> QED BY <3>1, <4>1 DEF Requests
    <3>4. \/ req' = [req EXCEPT ![a] = r] /\ step'[a] = "write"
          \/ req' = [req EXCEPT ![a] = q] /\ step' = step /\ req[a].next \in present
      BY <1>5, <2>2 DEF Walk
    <3>5. step' = [step EXCEPT ![a] = step'[a]] /\ owed' = owed /\ UNCHANGED table
      BY <1>5, <2>2 DEF Walk
    <3> HIDE DEF r, q
    <3> QED BY <1>5, <3>1, <3>2, <3>3, <3>4, <3>5 DEF Walk, Steps
  <2> QED BY <2>1, <2>2
<1>6. ASSUME ListDependents(a)
      PROVE  Touches(a) /\ Fits(a) /\ UNCHANGED table
  BY <1>6, TypeReply DEF ListDependents, Affected, Dependents, Steps
<1> QED BY <1>1, <1>2, <1>3, <1>4, <1>5, <1>6 DEF ReadStep

\* Steps that write a row change that row only and keep the table well typed.
LEMMA TypeWrite ==
    ASSUME RegTypeOK, NEW a \in Admins, WriteStep(a), raced' \in BOOLEAN
    PROVE  RegTypeOK' /\ Touches(a)
<1> USE DEF RegTypeOK, table, requests, Goto, Owe, Touches, Fits
<1>1. ASSUME Fits(a), Touches(a),
             /\ present' \subseteq Hosts
             /\ jump' \in [Hosts -> Hosts \cup {None}]
             /\ archived' \subseteq present'
             /\ rev' \in [Hosts -> Nat]
             /\ \A h \in Hosts : jump'[h] # None => h \in present' /\ jump'[h] \in present'
      PROVE  RegTypeOK'
  BY <1>1
<1>2. ASSUME Fits(a), Touches(a), UNCHANGED table PROVE RegTypeOK'
  BY <1>2
<1>3. CASE WriteUpdate(a)
  <2> DEFINE r == [NoRequest EXCEPT !.host = req[a].host]
  <2>1. req[a].host \in Hosts /\ req[a].want \in Hosts \cup {None}
    BY <1>3 DEF WriteUpdate, Requests
  <2>2. r \in Requests /\ r.host = req[a].host
    BY <2>1, NewRequest
  <2>3. CASE Connections(a)
    <3>1. req' = [req EXCEPT ![a] = r]
      BY <2>3 DEF Connections
    <3>2. Fits(a) /\ Touches(a)
      <4> HIDE DEF r
      <4> QED BY <2>1, <2>2, <2>3, <3>1 DEF Connections, Steps
    <3>3. CASE UNCHANGED table
      BY <1>2, <3>2, <3>3
    <3>4. CASE WriteRow(a) /\ Referenced(a) /\ req[a].host \in present /\ UNCHANGED <<present, archived>>
      BY <1>1, <2>1, <3>2, <3>4 DEF WriteRow, Referenced
    <3> QED BY <1>3, <2>3, <3>2, <3>3, <3>4, TypeReply DEF WriteUpdate
  <2>4. CASE ~Connections(a)
    BY <1>2, <1>3, <2>4, TypeReply DEF WriteUpdate
  <2> QED BY <2>3, <2>4
<1>4. CASE WriteCreate(a)
  <2>1. req[a].host \in Hosts /\ req[a].want \in Hosts \cup {None}
    BY <1>4 DEF WriteCreate, Requests
  <2>2. Fits(a) /\ Touches(a)
    BY <1>4, TypeReply DEF WriteCreate
  <2> QED BY <1>1, <1>2, <1>4, <2>1, <2>2 DEF WriteCreate, WriteRow, Referenced
<1>5. CASE DeleteRow(a)
  <2>1. Fits(a) /\ Touches(a)
    BY <1>5, TypeReply DEF DeleteRow
  <2> QED BY <1>1, <1>2, <1>5, <2>1 DEF DeleteRow, Dependents
<1>6. ASSUME NEW h \in Hosts, Archive(a, h) PROVE RegTypeOK' /\ Touches(a)
  <2> DEFINE r == [NoRequest EXCEPT !.host = h]
  <2>1. r \in Requests /\ r.host = h
    BY NewRequest
  <2>2. req' = [req EXCEPT ![a] = r]
    BY <1>6 DEF Archive
  <2>3. Fits(a) /\ Touches(a)
    <3> HIDE DEF r
    <3> QED BY <1>6, <2>1, <2>2 DEF Archive, Steps
  <2> QED BY <1>1, <1>6, <2>3 DEF Archive
<1>7. ASSUME NEW h \in Hosts, Unarchive(a, h) PROVE RegTypeOK' /\ Touches(a)
  BY <1>7 DEF Unarchive
<1> QED BY <1>3, <1>4, <1>5, <1>6, <1>7 DEF WriteStep

\* A dropped name concerns no row.
LEMMA TypeDropped ==
    ASSUME RegTypeOK, NEW a \in Admins, NEW h \in Hosts, DroppedStep(a, h)
    PROVE  Touches(a) /\ Fits(a) /\ UNCHANGED table
BY TypeReply DEF RegTypeOK, Goto, Owe, DroppedStep, Dropped, Touches, Fits, Steps

\* Every step keeps everything well typed.
LEMMA TypeStep == RegTypeOK /\ [RegNext]_regVars => RegTypeOK'
<1> SUFFICES ASSUME RegTypeOK, [RegNext]_regVars PROVE RegTypeOK'
  OBVIOUS
<1>1. ASSUME NEW a \in Admins, Touches(a), Fits(a), UNCHANGED table, raced' \in BOOLEAN PROVE RegTypeOK'
  BY <1>1 DEF RegTypeOK, Touches, Fits, table
<1>2. ASSUME NEW a \in Admins, HostRequest(a) PROVE RegTypeOK'
  <2>1. raced' \in BOOLEAN
    BY <1>2 DEF HostRequest, RegTypeOK
  <2> QED BY <1>1, <1>2, <2>1, TypeRead, TypeWrite DEF HostRequest
<1>3. ASSUME NEW a \in Admins, NEW h \in Hosts, DroppedStep(a, h) PROVE RegTypeOK'
  <2>1. raced' \in BOOLEAN
    BY <1>3 DEF DroppedStep, RegTypeOK
  <2> QED BY <1>1, <1>3, <2>1, TypeDropped
<1>4. CASE UNCHANGED regVars
  BY <1>4 DEF RegTypeOK, regVars, table, requests
<1> QED BY <1>2, <1>3, <1>4 DEF RegNext

\* The tables are well typed: every jump host is a row, and so is every archived host.
THEOREM Typing == RegSpec => []RegTypeOK
<1>1. RegInit => RegTypeOK
  BY InitInv DEF RegInv
<1> QED BY <1>1, TypeStep, PTL DEF RegSpec

-----------------------------------------------------------------------------
(* What a request knows when it writes *)

\* Steps of other requests that leave the table alone leave what b has found.
LEMMA Undisturbed ==
    ASSUME RegTypeOK, NEW a \in Admins, NEW b \in Admins \ {a}, Touches(a), UNCHANGED table, Chain(b), Finding(b)
    PROVE  Chain(b)' /\ Finding(b)'
<1>1. step'[b] = step[b] /\ req'[b] = req[b]
  BY DEF RegTypeOK, Touches
<1> QED BY <1>1 DEF Chain, Finding, table

\* A step that reads adds to the chain what it has read.
LEMMA ChainRead ==
    ASSUME RegTypeOK, NEW a \in Admins, ReadStep(a), Chain(a), Finding(a)
    PROVE  Chain(a)' /\ Finding(a)'
<1> USE DEF RegTypeOK, Goto, Owe
<1>1. UNCHANGED table
  BY TypeRead
<1>2. ASSUME step'[a] \notin Checking PROVE Chain(a)' /\ Finding(a)'
  BY <1>2 DEF Checking, Chain, Finding
<1>3. ASSUME NEW h \in Hosts, NEW j \in Hosts \cup {None}, BeginUpdate(a, h, j)
      PROVE  Chain(a)' /\ Finding(a)'
  <2>1. /\ req'[a].host = h /\ req'[a].want = j /\ req'[a].seen = {}
        /\ req'[a].new = FALSE /\ req'[a].wasArchived = (h \in archived)
    BY <1>3 DEF BeginUpdate, NoRequest
  <2>2. step'[a] = IF j = None THEN "write" ELSE "find"
    BY <1>3 DEF BeginUpdate
  <2> QED BY <1>1, <1>3, <2>1, <2>2 DEF BeginUpdate, Chain, Finding, table
<1>4. ASSUME NEW h \in Hosts, NEW j \in Hosts \cup {None}, BeginCreate(a, h, j)
      PROVE  Chain(a)' /\ Finding(a)'
  <2>1. /\ req'[a].host = h /\ req'[a].want = j /\ req'[a].seen = {}
        /\ req'[a].new = TRUE /\ req'[a].wasArchived = FALSE
    BY <1>4 DEF BeginCreate, NoRequest
  <2>2. step'[a] = IF j = None THEN "write" ELSE "find"
    BY <1>4 DEF BeginCreate
  <2> QED BY <1>1, <1>4, <2>1, <2>2 DEF BeginCreate, Chain, Finding, table
<1>5. ASSUME NEW h \in Hosts, BeginDelete(a, h) \/ Reconnect(a, h) PROVE Chain(a)' /\ Finding(a)'
  BY <1>2, <1>5 DEF BeginDelete, Reconnect, Checking
<1>6. ASSUME FindJump(a) PROVE Chain(a)' /\ Finding(a)'
  <2>1. CASE BadJump(a)
    BY <1>2, <1>6, <2>1 DEF FindJump, Reply, Checking
  <2>2. CASE ~BadJump(a)
    <3>1. req' = [req EXCEPT ![a].cur = req[a].want, ![a].next = jump[req[a].want]] /\ step'[a] = "walk" /\ step[a] = "find"
      BY <1>6, <2>2 DEF FindJump
    <3>2. /\ req'[a].cur = req[a].want /\ req'[a].next = jump[req[a].want] /\ req'[a].host = req[a].host
          /\ req'[a].want = req[a].want /\ req'[a].seen = req[a].seen
          /\ req'[a].new = req[a].new /\ req'[a].wasArchived = req[a].wasArchived
      BY <3>1 DEF Requests
    <3> QED BY <1>1, <2>2, <3>1, <3>2 DEF BadJump, Chain, Finding, table
  <2> QED BY <2>1, <2>2
<1>7. ASSUME Walk(a) PROVE Chain(a)' /\ Finding(a)'
  <2>1. CASE Reply(a)
    BY <1>2, <2>1 DEF Reply, Checking
  <2>2. CASE ~Reply(a)
    <3>1. ~BadLink(a) /\ step[a] = "walk" /\ step'[a] \in {"walk", "write"} /\ req[a] \in Requests
      BY <1>7, <2>2 DEF Walk
    <3>2. /\ req'[a].host = req[a].host /\ req'[a].want = req[a].want
          /\ req'[a].seen = req[a].seen \cup {req[a].cur}
          /\ req'[a].new = req[a].new /\ req'[a].wasArchived = req[a].wasArchived
      BY <1>7, <2>2, <3>1 DEF Walk, Requests
    <3>3. CASE step'[a] = "write"
      <4>1. req[a].next = None
        BY <1>7, <2>2, <3>1, <3>3 DEF Walk
      <4> QED BY <1>1, <3>1, <3>2, <3>3, <4>1 DEF BadLink, Chain, Finding, table
    <3>4. CASE step'[a] = "walk"
      <4>1. req[a].next \in present /\ req'[a].cur = req[a].next /\ req'[a].next = jump[req[a].next]
        BY <1>7, <2>2, <3>1, <3>4 DEF Walk, Requests
      <4> QED BY <1>1, <3>1, <3>2, <3>4, <4>1 DEF BadLink, Chain, Finding, table
    <3> QED BY <3>1, <3>3, <3>4
  <2> QED BY <2>1, <2>2
<1>8. ASSUME ListDependents(a) PROVE Chain(a)' /\ Finding(a)'
  BY <1>2, <1>8 DEF ListDependents, Reply, Checking
<1> QED BY <1>3, <1>4, <1>5, <1>6, <1>7, <1>8 DEF ReadStep

-----------------------------------------------------------------------------
(* What a write does to the jump hosts *)

\* The heart of the argument: a cycle through the new edge h -> j contains a cycle of
\* the rows walked from j, none of which is h, and that cycle was there before.
LEMMA NoNewCycle ==
    ASSUME RegTypeOK, NoCycle,
           NEW h \in Hosts, NEW j \in Hosts \cup {None}, NEW seen \in SUBSET Hosts,
           h \notin seen,
           j # None => j \in seen,
           \A s \in seen : jump[s] \in seen \cup {None},
           jump' = [jump EXCEPT ![h] = j]
    PROVE  NoCycle'
<1> SUFFICES ASSUME NEW S \in SUBSET Hosts, S # {}, \A x \in S : jump'[x] \in S
             PROVE  FALSE
  BY DEF NoCycle
<1>1. \A x \in Hosts : jump'[x] = IF x = h THEN j ELSE jump[x]
  BY DEF RegTypeOK
<1>2. CASE h \notin S
  BY <1>1, <1>2 DEF NoCycle
<1>3. CASE h \in S
  <2> DEFINE T == S \cap seen
  <2>1. j \in T
    BY <1>1, <1>3
  <2>2. \A t \in T : jump[t] \in T
    BY <1>1
  <2> QED BY <2>1, <2>2 DEF NoCycle
<1> QED BY <1>2, <1>3

\* Dropping an edge closes no cycle.
LEMMA NoCycleLess ==
    ASSUME RegTypeOK, NoCycle, NEW h \in Hosts, jump' = [jump EXCEPT ![h] = None]
    PROVE  NoCycle'
<1> DEFINE seen == {}
<1>1. seen \in SUBSET Hosts /\ h \notin seen /\ (None # None => None \in seen) /\ \A s \in seen : jump[s] \in seen \cup {None}
  OBVIOUS
<1> QED BY <1>1, NoNewCycle

\* A write by a request whose findings still hold closes no cycle.
LEMMA AcyclicWrite ==
    ASSUME RegTypeOK, NoCycle, NEW a \in Admins, Chain(a), WriteStep(a)
    PROVE  NoCycle'
<1>1. ASSUME UNCHANGED jump PROVE NoCycle'
  BY <1>1 DEF NoCycle
<1>2. ASSUME WriteRow(a), step[a] = "write", req[a].host \notin req[a].seen PROVE NoCycle'
  <2>1. req[a].host \in Hosts /\ req[a].want \in Hosts \cup {None} /\ req[a].seen \in SUBSET Hosts
    BY <1>2 DEF RegTypeOK, Requests
  <2>2. jump' = [jump EXCEPT ![req[a].host] = req[a].want]
    BY <1>2 DEF WriteRow
  <2> QED BY <1>2, <2>1, <2>2, NoNewCycle DEF Chain
<1>3. CASE WriteUpdate(a)
  BY <1>1, <1>2, <1>3 DEF WriteUpdate, Chain, table
<1>4. CASE WriteCreate(a)
  BY <1>1, <1>2, <1>4 DEF WriteCreate, Chain, table
<1>5. CASE DeleteRow(a)
  BY <1>1, <1>5, NoCycleLess DEF DeleteRow, RegTypeOK, table
<1>6. ASSUME NEW h \in Hosts, Archive(a, h) \/ Unarchive(a, h) PROVE NoCycle'
  BY <1>1, <1>6 DEF Archive, Unarchive
<1> QED BY <1>3, <1>4, <1>5, <1>6 DEF WriteStep

\* A host that is not archived does not connect through an archived one.
UsableJumps == \A h \in present \ archived : jump[h] \notin archived

\* Nor does a write by a request whose findings still hold change that.
LEMMA UsableWrite ==
    ASSUME RegTypeOK, UsableJumps, NEW a \in Admins, Chain(a), WriteStep(a)
    PROVE  UsableJumps'
<1> USE DEF RegTypeOK, UsableJumps
<1>1. ASSUME UNCHANGED table PROVE UsableJumps'
  BY <1>1 DEF table
<1>2. CASE WriteUpdate(a)
  BY <1>1, <1>2 DEF WriteUpdate, WriteRow, Chain
<1>3. CASE WriteCreate(a)
  BY <1>1, <1>3 DEF WriteCreate, WriteRow, Chain
<1>4. CASE DeleteRow(a)
  BY <1>1, <1>4 DEF DeleteRow, Dependents
<1>5. ASSUME NEW h \in Hosts, Archive(a, h) PROVE UsableJumps'
  BY <1>5 DEF Archive, Dependents
<1>6. ASSUME NEW h \in Hosts, Unarchive(a, h) PROVE UsableJumps'
  BY <1>6 DEF Unarchive
<1> QED BY <1>2, <1>3, <1>4, <1>5, <1>6 DEF WriteStep

-----------------------------------------------------------------------------
(* The invariant *)

LEMMA InvStep == RegInv /\ [RegNext]_regVars => RegInv'
<1> SUFFICES ASSUME RegInv, [RegNext]_regVars PROVE RegInv'
  OBVIOUS
<1>1. RegTypeOK /\ RegTypeOK'
  BY TypeStep DEF RegInv
<1> DEFINE Good == NoCycle /\ UsableJumps /\ \A b \in Admins : Chain(b) /\ Finding(b)
<1>2. (~raced => Good) <=> Acyclic /\ ActiveViaActive /\ (~raced => \A b \in Admins : Chain(b) /\ Finding(b))
  BY DEF Acyclic, ActiveViaActive, UsableJumps
<1>3. (~raced' => Good') <=> Acyclic' /\ ActiveViaActive' /\ (~raced' => \A b \in Admins : Chain(b)' /\ Finding(b)')
  BY DEF Acyclic, ActiveViaActive, UsableJumps
<1>4. ~raced => Good
  BY <1>2 DEF RegInv
<1>5. ASSUME NEW a \in Admins, Touches(a), UNCHANGED table, ~raced, Chain(a)' /\ Finding(a)'
      PROVE  Good'
  <2>1. NoCycle' /\ UsableJumps'
    BY <1>4, <1>5 DEF NoCycle, UsableJumps, table
  <2>2. \A b \in Admins \ {a} : Chain(b)' /\ Finding(b)'
    BY <1>1, <1>4, <1>5, Undisturbed
  <2> QED BY <1>5, <2>1, <2>2
<1>6. ASSUME NEW a \in Admins, HostRequest(a), ~raced' PROVE Good'
  <2>1. ~raced
    BY <1>6 DEF HostRequest
  <2>2. CASE ReadStep(a)
    BY <1>1, <1>4, <1>5, <2>1, <2>2, TypeRead, ChainRead
  <2>3. CASE WriteStep(a) /\ UNCHANGED table
    <3>1. Touches(a)
      BY <1>1, <2>3, TypeWrite DEF RegTypeOK
    <3>2. step'[a] \notin Checking
      BY <1>1, <2>3 DEF RegTypeOK, WriteStep, WriteUpdate, WriteCreate, DeleteRow, Archive, Unarchive,
         Connections, Reply, Owe, Goto, requests, Checking
    <3> QED BY <1>5, <2>1, <2>3, <3>1, <3>2 DEF Checking, Chain, Finding
  <2>4. CASE WriteStep(a) /\ table' # table
    <3>1. NoCycle' /\ UsableJumps'
      BY <1>1, <1>4, <2>1, <2>4, AcyclicWrite, UsableWrite
    <3>2. \A b \in Admins : step'[b] \notin Checking
      BY <1>6, <2>4 DEF HostRequest
    <3>3. \A b \in Admins : Chain(b)' /\ Finding(b)'
      BY <3>2 DEF Checking, Chain, Finding
    <3> QED BY <3>1, <3>3
  <2> QED BY <1>6, <2>2, <2>3, <2>4 DEF HostRequest
<1>7. ASSUME NEW a \in Admins, NEW h \in Hosts, DroppedStep(a, h), ~raced' PROVE Good'
  <2>1. ~raced /\ Touches(a) /\ UNCHANGED table
    BY <1>1, <1>7, TypeDropped DEF DroppedStep
  <2>2. (step'[a] = step[a] /\ req'[a] = req[a]) \/ step'[a] \notin Checking
    BY <1>1, <1>7 DEF RegTypeOK, DroppedStep, Dropped, Reply, Owe, Goto, Checking
  <2> QED BY <1>4, <1>5, <2>1, <2>2 DEF Checking, Chain, Finding, table
<1>8. CASE UNCHANGED regVars
  <2>1. (~raced' => Good') <=> (~raced => Good)
    BY <1>8 DEF regVars, table, requests, NoCycle, UsableJumps, Chain, Finding
  <2> QED BY <1>1, <1>3, <1>4, <2>1 DEF RegInv
<1> QED
  <2> HIDE DEF Good
  <2>1. CASE ~UNCHANGED regVars
    <3>1. \E a \in Admins : HostRequest(a) \/ \E h \in Hosts : DroppedStep(a, h)
      BY <2>1 DEF RegNext
    <3>2. ~raced' => Good'
      BY <1>6, <1>7, <3>1
    <3> QED BY <1>1, <1>3, <3>2 DEF RegInv
  <2> QED BY <1>8, <2>1

\* The inductive invariant holds in every reachable state.
THEOREM RegInvariance == RegSpec => []RegInv
BY InitInv, InvStep, PTL DEF RegSpec

\* As long as no row is written between the checks of another request and its write,
\* no chain of jump hosts closes.
THEOREM JumpHostsAcyclic == RegSpec => []Acyclic
<1>1. RegInv => Acyclic
  BY DEF RegInv
<1> QED BY <1>1, RegInvariance, PTL

\* Nor does a host that is in use connect through one that is archived.
THEOREM ActiveHostsReachable == RegSpec => []ActiveViaActive
<1>1. RegInv => ActiveViaActive
  BY DEF RegInv
<1> QED BY <1>1, RegInvariance, PTL
=============================================================================
