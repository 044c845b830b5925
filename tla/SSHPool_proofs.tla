------------------------------ MODULE SSHPool_proofs ------------------------------
(***************************************************************************)
(* Proofs about SSHPool for any number of hosts, requests and connections. *)
(* Nothing is handed out that was dialled from an old row, although dials  *)
(* read the row long before they pool their connection: whoever wrote the  *)
(* row still owes the connection, and cannot drop it before the dial is    *)
(* over, because the dial holds the entry's lock.                          *)
(***************************************************************************)
EXTENDS SSHPool, HostRegistry_proofs, SequenceTheorems

\* Frame i of request g holds the row of its host; all frames below the innermost do.
Filled(g, i) ==
    /\ i \in DOMAIN stack[g]
    /\ i = Len(stack[g]) => stage[g] \in {"dial", "tunnel", "failed"}

\* The update that has made a row of h old has yet to drop the connection of h itself.
DropOwed(h) == \E a \in Admins : step[a] = "drop" /\ req[a].host = h /\ h \in owed[a]

\* A revision r of h, read with the jump host j, is the present one or is to be dropped.
FromRow(h, r, j) ==
    /\ r <= rev[h]
    /\ h \in present /\ r = rev[h] => j = jump[h]
    /\ h \in present /\ r \in base[h] .. (rev[h] - 1) => DropOwed(h)

\* A host request owes connections only while it drops some, an update first its own.
AdminsFit ==
    \A a \in Admins :
        /\ owed[a] # {} => step[a] \in {"drop", "dropLast", "dropFirst"}
        /\ step[a] = "drop" => owed[a] = {req[a].host}

\* An entry is online when it has a connection, and has none while it is locked.
EntriesFit ==
    \A h \in Hosts : /\ client[h] # None <=> h \in online
                     /\ lock[h] # None => client[h] = None

FramesFit ==
    \A g \in Getters : \A i \in DOMAIN stack[g] :
        Filled(g, i) => FromRow(stack[g][i].host, stack[g][i].rev, stack[g][i].jump)

\* A call of get inside another is about the jump host of that one.
Linked ==
    \A g \in Getters : \A i \in DOMAIN stack[g] :
        i < Len(stack[g]) => stack[g][i + 1].host = stack[g][i].jump

PooledFit ==
    \A h \in Hosts : client[h] # None =>
        LET c == conn[client[h]] IN
        /\ c.host = h /\ keepalive[client[h]] # "none"
        /\ FromRow(h, c.rev, c.via)
        /\ c.via \in Hosts => c.viaRev <= rev[c.via]

\* An open connection is pooled by its host, and watched.
OpenFit ==
    \A c \in open : /\ keepalive[c] # "none"
                    /\ conn[c].host \in Hosts
                    /\ client[conn[c].host] = c

\* What a call is given to dial through is a connection to its jump host, or closed by now.
JumpFit ==
    \A g \in Getters :
        /\ jumpConn[g] # None <=> stage[g] = "tunnel"
        /\ jumpConn[g] \in open => conn[jumpConn[g]].host = Top(g).jump

PoolInv ==
    /\ PoolTypeOK /\ HoldsChain /\ CurrentTunnels
    /\ AdminsFit /\ EntriesFit /\ FramesFit /\ Linked /\ PooledFit /\ OpenFit /\ JumpFit

-----------------------------------------------------------------------------
(* Stacks *)

Frames == [host : Hosts, rev : Nat, jump : Hosts \cup {None}]

\* The last element and the ones before it.
LEMMA FrontOf ==
    ASSUME NEW S, NEW s \in Seq(S), s # <<>>
    PROVE  /\ Len(s) \in Nat \ {0} /\ DOMAIN s = 1 .. Len(s)
           /\ Front(s) \in Seq(S) /\ Len(Front(s)) = Len(s) - 1
           /\ DOMAIN Front(s) = 1 .. Len(s) - 1
           /\ \A i \in 1 .. Len(s) - 1 : Front(s)[i] = s[i]
           /\ Last(s) = s[Len(s)] /\ Last(s) \in S
<1>1. /\ Len(s) \in Nat \ {0} /\ DOMAIN s = 1 .. Len(s)
      /\ \A i \in 1 .. Len(s) : s[i] \in S
  BY EmptySeq, LenProperties, ElementOfSeq
<1> DEFINE n == Len(s) - 1
<1>2. n \in Nat /\ Front(s) = SubSeq(s, 1, n)
  BY <1>1 DEF Front
<1>3. /\ Front(s) \in Seq(S) /\ Len(Front(s)) = n
      /\ \A i \in 1 .. n : Front(s)[i] = s[i]
  BY <1>1, <1>2, SubSeqProperties
<1>4. DOMAIN Front(s) = 1 .. n
  BY <1>3, LenProperties
<1> QED BY <1>1, <1>3, <1>4 DEF Last

\* One more element.
LEMMA AppendOf ==
    ASSUME NEW S, NEW s \in Seq(S), NEW e \in S
    PROVE  /\ Append(s, e) \in Seq(S) /\ Len(Append(s, e)) = Len(s) + 1
           /\ DOMAIN s = 1 .. Len(s) /\ Len(s) \in Nat
           /\ DOMAIN Append(s, e) = 1 .. Len(s) + 1
           /\ \A i \in 1 .. Len(s) : Append(s, e)[i] = s[i]
           /\ Append(s, e)[Len(s) + 1] = e
           /\ Last(Append(s, e)) = e
BY DEF Last

\* The stack of a call in progress.
LEMMA StackOf ==
    ASSUME PoolTypeOK, HoldsChain, NEW g \in Getters, stage[g] # "idle"
    PROVE  /\ stack[g] \in Seq(Frames) /\ stack[g] # <<>>
           /\ Len(stack[g]) \in Nat \ {0} /\ DOMAIN stack[g] = 1 .. Len(stack[g])
           /\ Front(stack[g]) \in Seq(Frames) /\ Len(Front(stack[g])) = Len(stack[g]) - 1
           /\ DOMAIN Front(stack[g]) = 1 .. Len(stack[g]) - 1
           /\ \A i \in 1 .. Len(stack[g]) - 1 : Front(stack[g])[i] = stack[g][i]
           /\ Top(g) = stack[g][Len(stack[g])] /\ Top(g) \in Frames
           /\ Top(g).host \in Hosts /\ Top(g).jump \in Hosts \cup {None} /\ Top(g).rev \in Nat
<1>1. stack[g] \in Seq(Frames) /\ stack[g] # <<>>
  BY DEF PoolTypeOK, HoldsChain, Frames
<1>2. Last(stack[g]) \in Frames /\ Top(g) = stack[g][Len(stack[g])]
  BY <1>1, FrontOf DEF Top
<1>3. Top(g).host \in Hosts /\ Top(g).jump \in Hosts \cup {None} /\ Top(g).rev \in Nat
  BY <1>2 DEF Top, Frames
<1> QED BY <1>1, <1>2, <1>3, FrontOf DEF Top

\* No two requests hold one lock, and a waiting call holds none.
LEMMA HolderOf ==
    ASSUME PoolTypeOK, HoldsChain, NEW q \in Getters, NEW i \in DOMAIN stack[q],
           i = Len(stack[q]) => stage[q] # "lock"
    PROVE  stack[q][i].host \in Hosts /\ lock[stack[q][i].host] = q
<1>1. stage[q] # "idle"
  BY DEF HoldsChain
<1>2. stack[q][i] \in Frames
  BY <1>1, StackOf, ElementOfSeq
<1> QED BY <1>2 DEF HoldsChain, Frames

\* What a call that returns leaves behind: its lock is free, the calls around it are as they were.
LEMMA Leaving ==
    ASSUME PoolTypeOK, HoldsChain, Linked,
           NEW g \in Getters, stage[g] # "idle",
           NEW s \in {"tunnel", "failed"}, NEW c \in Conns \cup {None}, Leave(g, s, c),
           stage[g] = "lock" => lock[Top(g).host] = None
    PROVE  /\ lock' \in [Hosts -> Getters \cup {None}]
           /\ stack' \in [Getters -> Seq(Frames)]
           /\ stage' \in [Getters -> {"idle", "lock", "look", "dial", "tunnel", "failed"}]
           /\ jumpConn' \in [Getters -> Conns \cup {None}]
           /\ HoldsChain' /\ Linked'
           /\ \A q \in Getters : \A i \in DOMAIN stack'[q] :
                 /\ i \in DOMAIN stack[q] /\ stack'[q][i] = stack[q][i]
                 /\ Filled(q, i)' => Filled(q, i)
           /\ \A h \in Hosts : lock'[h] = IF h = Top(g).host THEN None ELSE lock[h]
           /\ \A q \in Getters \ {g} :
                 stack'[q] = stack[q] /\ stage'[q] = stage[q] /\ jumpConn'[q] = jumpConn[q]
           /\ \/ stage'[g] = "idle" /\ jumpConn'[g] = None
              \/ stage'[g] = s /\ jumpConn'[g] = c /\ Top(g)'.jump = Top(g).host
<1> DEFINE n == Len(stack[g])
           t == Top(g).host
<1>1. /\ n \in Nat \ {0} /\ t = stack[g][n].host /\ t \in Hosts
      /\ DOMAIN stack[g] = 1 .. n /\ stack[g] \in Seq(Frames)
  BY StackOf
<1>2. /\ \A h \in Hosts : lock'[h] = IF h = t THEN None ELSE lock[h]
      /\ lock' \in [Hosts -> Getters \cup {None}]
  BY <1>1 DEF Leave, PoolTypeOK
<1>3. /\ stage' \in [Getters -> {"idle", "lock", "look", "dial", "tunnel", "failed"}]
      /\ stage'[g] = IF n > 1 THEN s ELSE "idle"
      /\ \A q \in Getters \ {g} : stage'[q] = stage[q]
  BY DEF Leave, Stage, PoolTypeOK
<1>4. /\ jumpConn' \in [Getters -> Conns \cup {None}]
      /\ jumpConn'[g] = IF n > 1 THEN c ELSE None
      /\ \A q \in Getters \ {g} : jumpConn'[q] = jumpConn[q]
  BY DEF Leave, PoolTypeOK
<1>5. /\ stack'[g] = Front(stack[g])
      /\ \A q \in Getters \ {g} : stack'[q] = stack[q]
      /\ stack' \in [Getters -> Seq(Frames)]
  <2>1. Front(stack[g]) \in Seq(Frames) /\ stack \in [Getters -> Seq(Frames)]
    BY StackOf DEF PoolTypeOK, Frames
  <2> QED BY ONLY <2>1, Leave(g, s, c), g \in Getters DEF Leave
<1>6. /\ DOMAIN stack'[g] = 1 .. n - 1 /\ Len(stack'[g]) = n - 1
      /\ \A i \in 1 .. n - 1 : stack'[g][i] = stack[g][i]
  BY <1>5, StackOf
<1>7. \A q \in Getters : \A i \in DOMAIN stack'[q] :
         /\ i \in DOMAIN stack[q] /\ stack'[q][i] = stack[q][i]
         /\ Filled(q, i)' => Filled(q, i)
  <2>1. ASSUME NEW i \in DOMAIN stack'[g]
        PROVE  i \in DOMAIN stack[g] /\ stack'[g][i] = stack[g][i] /\ Filled(g, i)
    <3>1. i \in 1 .. n /\ i # n
      BY <1>1, <1>6
    <3> QED BY <1>1, <1>6, <3>1 DEF Filled
  <2> QED BY <1>3, <1>5, <2>1 DEF Filled
<1>8. Linked'
  <2>1. ASSUME NEW i \in DOMAIN stack'[g], i < Len(stack'[g])
        PROVE  stack'[g][i + 1].host = stack'[g][i].jump
    <3>1. i \in 1 .. n - 1 /\ i + 1 \in 1 .. n - 1 /\ i < n
      BY <1>1, <1>6, <2>1
    <3>2. stack[g][i + 1].host = stack[g][i].jump
      BY <1>1, <3>1 DEF Linked
    <3> QED BY <1>6, <3>1, <3>2
  <2> QED BY <1>5, <2>1 DEF Linked
<1>9. HoldsChain'
  <2>1. \A i, j \in 1 .. n : stack[g][i].host = stack[g][j].host => i = j
    BY <1>1 DEF HoldsChain
  <2>2. stage'[g] = "idle" <=> stack'[g] = <<>>
    <3>1. n > 1 => stack'[g] # <<>>
      BY <1>1, <1>6
    <3>2. n = 1 => stack'[g] = <<>>
      BY <1>5, <1>6, EmptySeq
    <3>3. n > 1 \/ n = 1
      <4>1. \A k \in Nat \ {0} : k > 1 \/ k = 1
        OBVIOUS
      <4> QED BY <1>1, <4>1
    <3>4. s # "idle"
      OBVIOUS
    <3> QED BY ONLY <1>3, <3>1, <3>2, <3>3, <3>4
  <2>3. \A i, j \in DOMAIN stack'[g] : stack'[g][i].host = stack'[g][j].host => i = j
    BY <1>1, <1>6, <2>1
  <2>4. ASSUME NEW h \in Hosts
        PROVE  lock'[h] = g <=> \E i \in DOMAIN stack'[g] :
                  stack'[g][i].host = h /\ (i = Len(stack'[g]) => stage'[g] # "lock")
    <3>1. \A i \in 1 .. n - 1 : stack[g][i].host # t
      BY <1>1, <2>1
    <3>2. stage'[g] # "lock"
      BY <1>3
    <3>3. \A i \in 1 .. n - 1 : lock[stack[g][i].host] = g
      BY <1>1, HolderOf
    <3>4. None # g
      BY PoolConstantsOK
    <3>5. h # t /\ lock[h] = g => \E i \in 1 .. n - 1 : stack[g][i].host = h
      BY <1>1 DEF HoldsChain
    <3> QED BY <1>2, <1>6, <3>1, <3>2, <3>3, <3>4, <3>5
  <2>5. ASSUME NEW q \in Getters \ {g}
        PROVE  /\ stage'[q] = "idle" <=> stack'[q] = <<>>
               /\ \A i, j \in DOMAIN stack'[q] : stack'[q][i].host = stack'[q][j].host => i = j
               /\ \A h \in Hosts : lock'[h] = q <=> \E i \in DOMAIN stack'[q] :
                     stack'[q][i].host = h /\ (i = Len(stack'[q]) => stage'[q] # "lock")
    <3>1. lock[t] \in {None, g}
      BY <1>1, HolderOf
    <3>2. None # q
      BY PoolConstantsOK
    <3>3. \A h \in Hosts : lock'[h] = q <=> lock[h] = q
      BY <1>2, <3>1, <3>2
    <3>4. stage'[q] = stage[q] /\ stack'[q] = stack[q]
      BY <1>3, <1>5
    <3>5. /\ stage[q] = "idle" <=> stack[q] = <<>>
          /\ \A i, j \in DOMAIN stack[q] : stack[q][i].host = stack[q][j].host => i = j
      BY DEF HoldsChain
    <3>6. \A h \in Hosts : lock[h] = q <=> \E i \in DOMAIN stack[q] :
             stack[q][i].host = h /\ (i = Len(stack[q]) => stage[q] # "lock")
      BY DEF HoldsChain
    <3> QED BY ONLY <3>3, <3>4, <3>5, <3>6
  <2> QED BY <2>2, <2>3, <2>4, <2>5 DEF HoldsChain
<1>10. n > 1 => Top(g)'.jump = t
  <2> SUFFICES ASSUME n > 1 PROVE Top(g)'.jump = t
    OBVIOUS
  <2>1. n - 1 \in 1 .. n /\ n - 1 \in 1 .. n - 1 /\ n - 1 < n /\ (n - 1) + 1 = n
    BY <1>1
  <2>2. Top(g)' = stack[g][n - 1]
    BY <1>6, <2>1 DEF Top, Last
  <2>3. stack[g][(n - 1) + 1].host = stack[g][n - 1].jump
    BY <1>1, <2>1 DEF Linked
  <2> QED BY <1>1, <2>1, <2>2, <2>3
<1> QED BY <1>2, <1>3, <1>4, <1>5, <1>7, <1>8, <1>9, <1>10

-----------------------------------------------------------------------------
(* Host requests *)

\* A request that reads or writes the table owes nothing when it does; afterwards an update
\* owes its own connection.
LEMMA OwesNothing ==
    ASSUME RegTypeOK, AdminsFit, NEW a \in Admins, HostRequest(a)
    PROVE  /\ owed[a] = {} /\ step[a] # "drop"
           /\ owed'[a] # {} => step'[a] \in {"drop", "dropLast", "dropFirst"}
           /\ step'[a] = "drop" => owed'[a] = {req'[a].host}
<1> USE DEF RegTypeOK, AdminsFit, Goto, Owe, Reply
<1>1. owed[a] = {} /\ step[a] # "drop"
  BY DEF HostRequest, ReadStep, WriteStep, BeginUpdate, BeginCreate, BeginDelete, Reconnect, FindJump,
         Walk, ListDependents, WriteUpdate, WriteCreate, DeleteRow, Archive, Unarchive
<1>2. ASSUME ReadStep(a)
      PROVE  /\ owed'[a] # {} => step'[a] \in {"drop", "dropLast", "dropFirst"}
             /\ step'[a] = "drop" => owed'[a] = {req'[a].host}
  <2>1. CASE \E h \in Hosts, j \in Hosts \cup {None} : BeginUpdate(a, h, j) \/ BeginCreate(a, h, j)
    BY <1>1, <2>1 DEF BeginUpdate, BeginCreate
  <2>2. CASE \E h \in Hosts : BeginDelete(a, h) \/ Reconnect(a, h)
    BY <1>1, <2>2 DEF BeginDelete, Reconnect
  <2>3. CASE FindJump(a)
    BY <1>1, <2>3 DEF FindJump
  <2>4. CASE Walk(a)
    BY <1>1, <2>4 DEF Walk
  <2>5. CASE ListDependents(a)
    BY <1>1, <2>5 DEF ListDependents
  <2> QED BY <1>2, <2>1, <2>2, <2>3, <2>4, <2>5 DEF ReadStep
<1>3. ASSUME WriteStep(a)
      PROVE  /\ owed'[a] # {} => step'[a] \in {"drop", "dropLast", "dropFirst"}
             /\ step'[a] = "drop" => owed'[a] = {req'[a].host}
  <2>1. CASE WriteUpdate(a)
    BY <1>1, <2>1 DEF WriteUpdate, Connections, NoRequest
  <2>2. CASE WriteCreate(a)
    BY <1>1, <2>2 DEF WriteCreate
  <2>3. CASE DeleteRow(a)
    BY <1>1, <2>3 DEF DeleteRow
  <2>4. CASE \E h \in Hosts : Archive(a, h) \/ Unarchive(a, h)
    BY <1>1, <2>4 DEF Archive, Unarchive, requests
  <2> QED BY <1>3, <2>1, <2>2, <2>3, <2>4 DEF WriteStep
<1> QED BY <1>1, <1>2, <1>3 DEF HostRequest

\* What a request does to the rows: a new row has a new revision; an old one keeps its revision
\* and jump host, or has been updated by the request, which now owes its connection.
LEMMA RowsAfter ==
    ASSUME RegTypeOK, NEW a \in Admins, HostRequest(a)
    PROVE  \A h \in Hosts :
              /\ rev[h] \in Nat /\ rev'[h] \in Nat /\ rev[h] <= rev'[h]
              /\ h \in present' \ present => rev[h] < rev'[h]
              /\ h \in present' \cap present =>
                    \/ rev'[h] = rev[h] /\ jump'[h] = jump[h]
                    \/ rev[h] < rev'[h] /\ step'[a] = "drop" /\ req'[a].host = h
<1> USE DEF RegTypeOK, Goto, Owe, Reply
<1>1. CASE ReadStep(a)
  BY <1>1, TypeRead DEF table
<1>2. CASE WriteUpdate(a)
  BY <1>2 DEF WriteUpdate, WriteRow, Connections, NoRequest, table
<1>3. CASE WriteCreate(a)
  BY <1>3 DEF WriteCreate, WriteRow, table
<1>4. CASE DeleteRow(a)
  BY <1>4 DEF DeleteRow, table
<1>5. CASE \E h \in Hosts : Archive(a, h) \/ Unarchive(a, h)
  BY <1>5 DEF Archive, Unarchive
<1> QED BY <1>1, <1>2, <1>3, <1>4, <1>5 DEF HostRequest, WriteStep

\* The request of nobody else is concerned, and the table stays well typed.
LEMMA RaceAfter ==
    ASSUME RegTypeOK, NEW a \in Admins, HostRequest(a)
    PROVE  RegTypeOK' /\ Touches(a)
<1>1. raced' \in BOOLEAN
  BY DEF HostRequest, RegTypeOK
<1>2. RegTypeOK'
  BY TypeStep DEF RegNext
<1> QED BY <1>1, <1>2, TypeRead, TypeWrite DEF HostRequest

\* What has been read of a row stays present or owed across a host request.
LEMMA FromRowAfter ==
    ASSUME PoolTypeOK, AdminsFit, NEW a \in Admins, HostStep(a),
           NEW h \in Hosts, NEW r \in Nat, NEW j, FromRow(h, r, j)
    PROVE  FromRow(h, r, j)'
<1>1. RegTypeOK /\ HostRequest(a)
  BY DEF PoolTypeOK, HostStep
<1>2. /\ rev[h] \in Nat /\ rev'[h] \in Nat /\ rev[h] <= rev'[h]
      /\ h \in present' \ present => rev[h] < rev'[h]
      /\ h \in present' \cap present =>
            \/ rev'[h] = rev[h] /\ jump'[h] = jump[h]
            \/ rev[h] < rev'[h] /\ step'[a] = "drop" /\ req'[a].host = h
  BY <1>1, RowsAfter
<1>3. base'[h] = IF h \in present' \ present THEN rev'[h] ELSE base[h]
  BY DEF HostStep
<1>4. base[h] \in Nat
  BY DEF PoolTypeOK
<1>5. ASSUME DropOwed(h) PROVE DropOwed(h)'
  <2>1. PICK b \in Admins : step[b] = "drop" /\ req[b].host = h /\ h \in owed[b]
    BY <1>5 DEF DropOwed
  <2>2. b # a
    BY <1>1, <2>1, OwesNothing
  <2>3. step'[b] = step[b] /\ req'[b] = req[b] /\ owed'[b] = owed[b]
    BY <1>1, <2>2, RaceAfter DEF Touches, RegTypeOK
  <2> QED BY <2>1, <2>3 DEF DropOwed
<1>6. ASSUME step'[a] = "drop", req'[a].host = h PROVE DropOwed(h)'
  BY <1>1, <1>6, OwesNothing DEF DropOwed
<1>7. r <= rev[h] /\ (h \in present /\ r = rev[h] => j = jump[h])
      /\ (h \in present /\ r \in base[h] .. (rev[h] - 1) => DropOwed(h))
  BY DEF FromRow
<1>8. CASE h \notin present'
  BY <1>2, <1>7, <1>8 DEF FromRow
<1>9. CASE h \in present' \ present
  BY <1>2, <1>3, <1>7, <1>9 DEF FromRow
<1>10. CASE h \in present' \cap present
  BY <1>2, <1>3, <1>4, <1>5, <1>6, <1>7, <1>10 DEF FromRow
<1> QED BY <1>8, <1>9, <1>10

\* The update of a host that others connect through: until it is answered they are not forgotten.
LEMMA ListAfter ==
    ASSUME RegTypeOK, NEW a \in Admins, HostStep(a), step[a] = "list"
    PROVE  /\ UNCHANGED table
           /\ \/ req[a].host \in missed'
              \/ owed'[a] = Dependents(req[a].host)
<1>1. ListDependents(a)
  BY DEF HostStep, HostRequest, ReadStep, WriteStep, BeginUpdate, BeginCreate, BeginDelete, Reconnect,
         FindJump, Walk, WriteUpdate, WriteCreate, DeleteRow, Archive, Unarchive
<1>2. CASE Reply(a)
  BY <1>1, <1>2 DEF ListDependents, Reply, Goto, RegTypeOK, HostStep, ListingFails, Affected
<1>3. CASE Owe(a, Affected(req[a].host), "dropLast")
  BY <1>1, <1>3 DEF ListDependents, Owe, RegTypeOK, Affected
<1> QED BY <1>1, <1>2, <1>3 DEF ListDependents

\* An update of the jump host of a pooled connection finds it among the hosts that depend on it.
LEMMA TunnelsAfter ==
    ASSUME PoolInv, NEW a \in Admins, HostStep(a)
    PROVE  CurrentTunnels'
<1>0. client' = client /\ conn' = conn /\ present' \subseteq Hosts
  BY RaceAfter DEF PoolInv, PoolTypeOK, RegTypeOK, HostStep, pool, entries, conns
<1> SUFFICES ASSUME NEW h \in present', client[h] # None,
                    NEW c, c = conn[client[h]],
                    c.via \in present', c.rev >= base'[h],
                    c.viaRev \in base'[c.via] .. (rev'[c.via] - 1)
             PROVE  Pending(h)' \/ Updating(c.via)' \/ c.via \in missed'
  BY <1>0 DEF CurrentTunnels
<1>1. /\ PoolTypeOK /\ RegTypeOK /\ RegTypeOK' /\ AdminsFit /\ HostRequest(a) /\ Touches(a)
      /\ owed[a] = {} /\ step[a] # "drop"
      /\ owed'[a] # {} => step'[a] \in {"drop", "dropLast", "dropFirst"}
      /\ step'[a] = "drop" => owed'[a] = {req'[a].host}
  BY RaceAfter, OwesNothing DEF PoolInv, PoolTypeOK, HostStep
<1>2. h \in Hosts /\ c.via \in Hosts
  BY <1>1 DEF RegTypeOK
<1>3. /\ c.rev \in Nat /\ c.viaRev \in Nat
      /\ FromRow(h, c.rev, c.via) /\ c.viaRev <= rev[c.via]
  BY <1>1, <1>2 DEF PoolInv, PooledFit, PoolTypeOK
<1>4. \A x \in Hosts :
         /\ rev[x] \in Nat /\ rev'[x] \in Nat /\ rev[x] <= rev'[x] /\ base[x] \in Nat
         /\ x \in present' \ present => rev[x] < rev'[x]
         /\ x \in present' \cap present =>
               \/ rev'[x] = rev[x] /\ jump'[x] = jump[x]
               \/ rev[x] < rev'[x] /\ step'[a] = "drop" /\ req'[a].host = x
         /\ base'[x] = IF x \in present' \ present THEN rev'[x] ELSE base[x]
  BY <1>1, RowsAfter DEF PoolTypeOK, HostStep
<1>5. h \in present /\ base'[h] = base[h]
  BY <1>2, <1>3, <1>4 DEF FromRow
<1>6. c.via \in present /\ base'[c.via] = base[c.via]
  BY <1>2, <1>3, <1>4
<1>7. CASE rev'[c.via] # rev[c.via]
  <2>1. step'[a] = "drop" /\ req'[a].host = c.via
    BY <1>2, <1>4, <1>6, <1>7
  <2> QED BY <2>1 DEF Updating
<1>8. CASE rev'[c.via] = rev[c.via]
  <2>1. Pending(h) \/ Updating(c.via) \/ c.via \in missed
    BY <1>5, <1>6, <1>8 DEF PoolInv, CurrentTunnels
  <2>2. \A b \in Admins \ {a} : step'[b] = step[b] /\ req'[b] = req[b] /\ owed'[b] = owed[b]
    BY <1>1 DEF Touches, RegTypeOK
  <2>3. \A b \in Admins : h \in owed[b] => b # a
    BY <1>1
  <2>4. Pending(h) => Pending(h)'
    BY <2>2, <2>3 DEF Pending
  <2>5. missed \subseteq missed'
    BY DEF HostStep
  <2>6. CASE Updating(c.via)
    <3>1. PICK b \in Admins : req[b].host = c.via /\ step[b] \in {"drop", "list"}
      BY <2>6 DEF Updating
    <3>2. CASE b # a
      BY <2>2, <3>1, <3>2 DEF Updating
    <3>3. CASE b = a
      <4>1. step[a] = "list" /\ req[a].host = c.via
        BY <1>1, <3>1, <3>3
      <4>2. UNCHANGED table /\ (c.via \in missed' \/ owed'[a] = Dependents(c.via))
        BY <1>1, <4>1, ListAfter
      <4>3. CASE c.rev = rev[h]
        <5>1. h \in Dependents(c.via)
          BY <1>3, <1>5, <4>3 DEF FromRow, Dependents
        <5> QED BY <4>2, <5>1 DEF Pending
      <4>4. CASE c.rev # rev[h]
        <5>1. c.rev \in base[h] .. (rev[h] - 1)
          BY <1>2, <1>3, <1>4, <1>5, <4>4 DEF FromRow
        <5>2. Pending(h)
          BY <1>3, <1>5, <5>1 DEF FromRow, DropOwed, Pending
        <5> QED BY <2>4, <5>2
      <4> QED BY <4>3, <4>4
    <3> QED BY <3>2, <3>3
  <2> QED BY <2>1, <2>4, <2>5, <2>6
<1> QED BY <1>7, <1>8

\* A host request leaves the pool as it was.
LEMMA HostStepKeeps ==
    ASSUME PoolInv, NEW a \in Admins, HostStep(a)
    PROVE  PoolInv'
<1>1. /\ PoolTypeOK /\ RegTypeOK /\ RegTypeOK' /\ AdminsFit /\ HostRequest(a) /\ Touches(a)
  BY RaceAfter DEF PoolInv, PoolTypeOK, HostStep
<1>2. UNCHANGED <<lock, client, online, conn, open, keepalive, stack, stage, jumpConn>>
  BY DEF HostStep, pool, entries, conns, calls
<1>3. PoolTypeOK'
  <2>1. base' \in [Hosts -> Nat]
    BY <1>1 DEF HostStep, PoolTypeOK, RegTypeOK
  <2>2. missed' \subseteq Hosts
    BY <1>1 DEF HostStep, ListingFails, PoolTypeOK, RegTypeOK
  <2> QED BY <1>1, <1>2, <2>1, <2>2 DEF PoolTypeOK
<1>4. HoldsChain' /\ EntriesFit' /\ Linked' /\ OpenFit' /\ JumpFit'
  BY <1>2 DEF PoolInv, HoldsChain, EntriesFit, Linked, OpenFit, JumpFit, Top
<1>5. CurrentTunnels'
  BY TunnelsAfter
<1>6. AdminsFit'
  <2>1. \A b \in Admins \ {a} : step'[b] = step[b] /\ req'[b] = req[b] /\ owed'[b] = owed[b]
    BY <1>1 DEF Touches, RegTypeOK
  <2> QED BY <1>1, <2>1, OwesNothing DEF AdminsFit
<1>7. FramesFit'
  <2> SUFFICES ASSUME NEW g \in Getters, NEW i \in DOMAIN stack[g], Filled(g, i)
               PROVE  FromRow(stack[g][i].host, stack[g][i].rev, stack[g][i].jump)'
    BY <1>2 DEF FramesFit, Filled
  <2>1. stack[g] \in Seq(Frames)
    BY <1>1 DEF PoolTypeOK, Frames
  <2>2. PICK e \in Frames : e = stack[g][i]
    BY <2>1, ElementOfSeq, LenProperties
  <2>3. FromRow(e.host, e.rev, e.jump) /\ e.host \in Hosts /\ e.rev \in Nat
    BY <2>2 DEF PoolInv, FramesFit, Frames
  <2>4. FromRow(e.host, e.rev, e.jump)'
    BY <1>1, <2>3, FromRowAfter
  <2> QED BY <1>2, <2>2, <2>4
<1>8. PooledFit'
  <2> SUFFICES ASSUME NEW h \in Hosts, client[h] # None, NEW c, c = conn[client[h]]
               PROVE  /\ c.host = h /\ keepalive[client[h]] # "none"
                      /\ FromRow(h, c.rev, c.via)'
                      /\ c.via \in Hosts => c.viaRev <= rev'[c.via]
    BY <1>2 DEF PooledFit
  <2>1. c.rev \in Nat /\ c.via \in Hosts \cup {None} /\ c.viaRev \in Nat
    BY <1>1 DEF PoolTypeOK
  <2>2. /\ c.host = h /\ keepalive[client[h]] # "none" /\ FromRow(h, c.rev, c.via)
        /\ c.via \in Hosts => c.viaRev <= rev[c.via]
    BY DEF PoolInv, PooledFit
  <2>3. FromRow(h, c.rev, c.via)'
    BY <1>1, <2>1, <2>2, FromRowAfter
  <2>4. c.via \in Hosts =>
           rev[c.via] \in Nat /\ rev'[c.via] \in Nat /\ rev[c.via] <= rev'[c.via]
    BY <1>1, RowsAfter
  <2> QED BY <2>1, <2>2, <2>3, <2>4
<1> QED BY <1>3, <1>4, <1>5, <1>6, <1>7, <1>8 DEF PoolInv

-----------------------------------------------------------------------------
(* Dropping a connection *)

\* The entry of h is emptied; whoever owed others still owes them.
LEMMA InvalidateKeeps ==
    ASSUME PoolInv, NEW h \in Hosts, Invalidate(h), UNCHANGED <<table, base, missed>>,
           RegTypeOK', AdminsFit',
           \A x \in Hosts \ {h} : /\ DropOwed(x) => DropOwed(x)'
                                  /\ Pending(x) => Pending(x)',
           \A x \in Hosts : Updating(x) => Updating(x)'
    PROVE  PoolInv'
<1>1. PoolTypeOK /\ HoldsChain /\ PoolTypeOK'
  BY DEF PoolInv, PoolTypeOK, Invalidate, calls
<1>2. /\ lock[h] = None /\ client'[h] = None /\ h \notin online'
      /\ \A x \in Hosts \ {h} : client'[x] = client[x] /\ (x \in online' <=> x \in online)
      /\ UNCHANGED <<lock, conn, keepalive, stack, stage, jumpConn>>
      /\ UNCHANGED <<present, jump, rev, base, missed>>
      /\ open' = open \ {client[h]}
  BY <1>1 DEF Invalidate, calls, table, PoolTypeOK
<1>3. HoldsChain' /\ Linked' /\ EntriesFit' /\ JumpFit'
  BY <1>2 DEF PoolInv, HoldsChain, Linked, EntriesFit, JumpFit, Top
<1>4. ASSUME NEW x \in Hosts \ {h}, NEW r \in Nat, NEW j, FromRow(x, r, j)
      PROVE  FromRow(x, r, j)'
  BY <1>2, <1>4 DEF FromRow
<1>5. FramesFit'
  <2> SUFFICES ASSUME NEW g \in Getters, NEW i \in DOMAIN stack[g], Filled(g, i)
               PROVE  FromRow(stack[g][i].host, stack[g][i].rev, stack[g][i].jump)'
    BY <1>2 DEF FramesFit, Filled
  <2>1. stack[g] \in Seq(Frames)
    BY <1>1 DEF PoolTypeOK, Frames
  <2>2. PICK e \in Frames : e = stack[g][i]
    BY <2>1, ElementOfSeq, LenProperties
  <2>3. FromRow(e.host, e.rev, e.jump) /\ e.host \in Hosts /\ e.rev \in Nat
    BY <2>2 DEF PoolInv, FramesFit, Frames
  <2>4. lock[e.host] = g
    BY <1>1, <2>2, HolderOf DEF Filled
  <2>5. e.host # h
    BY <1>2, <2>4, PoolConstantsOK
  <2>6. FromRow(e.host, e.rev, e.jump)'
    BY <1>4, <2>3, <2>5
  <2> QED BY <1>2, <2>2, <2>6
<1>6. PooledFit'
  <2> SUFFICES ASSUME NEW x \in Hosts \ {h}, client[x] # None, NEW c, c = conn[client[x]]
               PROVE  /\ c.host = x /\ keepalive[client[x]] # "none"
                      /\ FromRow(x, c.rev, c.via)'
                      /\ c.via \in Hosts => c.viaRev <= rev[c.via]
    BY <1>2 DEF PooledFit
  <2>1. c.rev \in Nat
    BY <1>1 DEF PoolTypeOK
  <2>2. /\ c.host = x /\ keepalive[client[x]] # "none" /\ FromRow(x, c.rev, c.via)
        /\ c.via \in Hosts => c.viaRev <= rev[c.via]
    BY DEF PoolInv, PooledFit
  <2> QED BY <1>4, <2>1, <2>2
<1>7. OpenFit'
  <2> SUFFICES ASSUME NEW c \in open, c # client[h]
               PROVE  /\ keepalive[c] # "none"
                      /\ conn[c].host \in Hosts
                      /\ client'[conn[c].host] = c
    BY <1>2 DEF OpenFit
  <2>1. keepalive[c] # "none" /\ conn[c].host \in Hosts /\ client[conn[c].host] = c
    BY DEF PoolInv, OpenFit
  <2> QED BY <1>2, <2>1
<1>8. CurrentTunnels'
  <2> SUFFICES ASSUME NEW x \in present \ {h}, client[x] # None, NEW c, c = conn[client[x]],
                      c.via \in present, c.rev >= base[x],
                      c.viaRev \in base[c.via] .. (rev[c.via] - 1)
               PROVE  Pending(x)' \/ Updating(c.via)' \/ c.via \in missed
    BY <1>1, <1>2 DEF CurrentTunnels, PoolTypeOK, RegTypeOK
  <2>1. x \in Hosts /\ c.via \in Hosts
    BY <1>1 DEF PoolTypeOK, RegTypeOK
  <2>2. Pending(x) \/ Updating(c.via) \/ c.via \in missed
    BY DEF PoolInv, CurrentTunnels
  <2> QED BY <2>1, <2>2
<1> QED BY <1>1, <1>3, <1>5, <1>6, <1>7, <1>8 DEF PoolInv

\* A connection without SFTP is dropped on nobody's account.
LEMMA NoSftpKeeps ==
    ASSUME PoolInv, NEW h \in Hosts, NoSftp(h)
    PROVE  PoolInv'
<1>1. /\ Invalidate(h) /\ UNCHANGED <<table, base, missed>>
      /\ UNCHANGED <<present, jump, archived, rev, step, req, owed, raced>>
  BY DEF NoSftp, hosts, regVars, table, requests
<1>2. RegTypeOK' /\ AdminsFit'
  BY <1>1 DEF PoolInv, PoolTypeOK, RegTypeOK, AdminsFit
<1>3. /\ \A x \in Hosts \ {h} : (DropOwed(x) => DropOwed(x)') /\ (Pending(x) => Pending(x)')
      /\ \A x \in Hosts : Updating(x) => Updating(x)'
  BY <1>1 DEF DropOwed, Pending, Updating
<1> QED BY <1>1, <1>2, <1>3, InvalidateKeeps

\* A request that has dropped one name still owes the others.
LEMMA DropKeeps ==
    ASSUME PoolInv, NEW a \in Admins, NEW h \in Hosts, Drop(a, h)
    PROVE  PoolInv'
<1>1. Invalidate(h) /\ UNCHANGED <<base, missed>> /\ DroppedStep(a, h) /\ RegTypeOK
  BY DEF Drop, PoolInv, PoolTypeOK
<1>2. Touches(a) /\ UNCHANGED table
  BY <1>1, TypeDropped
<1>3. RegTypeOK'
  BY <1>1, TypeStep DEF RegNext
<1>4. \A b \in Admins \ {a} : step'[b] = step[b] /\ req'[b] = req[b] /\ owed'[b] = owed[b]
  BY <1>1, <1>2 DEF Touches, RegTypeOK
<1>5. /\ step[a] \in {"drop", "dropLast", "dropFirst"} /\ h \in owed[a]
      /\ step[a] = "drop" => owed[a] = {req[a].host}
  BY <1>1 DEF PoolInv, AdminsFit, DroppedStep, Dropped
<1>6. /\ owed'[a] = owed[a] \ {h}
      /\ owed[a] \ {h} # {} => step'[a] = step[a] /\ req'[a] = req[a]
      /\ step[a] = "drop" => step'[a] = "list" /\ req'[a] = req[a]
      /\ owed[a] = {h} => step'[a] \in {"idle", "list", "delete"}
  BY <1>1, <1>5 DEF DroppedStep, Dropped, Reply, Owe, Goto, RegTypeOK
<1>7. AdminsFit'
  BY <1>4, <1>5, <1>6 DEF PoolInv, AdminsFit
<1>8. ASSUME NEW x \in Hosts \ {h}
      PROVE  (DropOwed(x) => DropOwed(x)') /\ (Pending(x) => Pending(x)')
  BY <1>4, <1>5, <1>6 DEF DropOwed, Pending
<1>9. ASSUME NEW x \in Hosts, Updating(x) PROVE Updating(x)'
  <2>1. PICK b \in Admins : req[b].host = x /\ step[b] \in {"drop", "list"}
    BY <1>9 DEF Updating
  <2>2. CASE b # a
    BY <1>4, <2>1, <2>2 DEF Updating
  <2>3. CASE b = a
    BY <1>5, <1>6, <2>1, <2>3 DEF Updating
  <2> QED BY <2>2, <2>3
<1> QED BY <1>1, <1>2, <1>3, <1>7, <1>8, <1>9, InvalidateKeeps

-----------------------------------------------------------------------------
(* Requests that need a connection *)

\* Without a host request nothing is read or owed otherwise than before.
LEMMA HostsSame ==
    ASSUME PoolInv, UNCHANGED hosts
    PROVE  /\ RegTypeOK' /\ AdminsFit'
           /\ base' \in [Hosts -> Nat] /\ missed' \subseteq Hosts
           /\ \A h \in Hosts, r \in Nat : \A j : FromRow(h, r, j) => FromRow(h, r, j)'
           /\ \A h \in Hosts : (Pending(h) => Pending(h)') /\ (Updating(h) => Updating(h)')
<1>1. UNCHANGED <<present, jump, archived, rev, step, req, owed, raced, base, missed>>
  BY DEF hosts, regVars, table, requests
<1>2. RegTypeOK' /\ AdminsFit' /\ base' \in [Hosts -> Nat] /\ missed' \subseteq Hosts
  BY <1>1 DEF PoolInv, PoolTypeOK, RegTypeOK, AdminsFit
<1>3. \A h \in Hosts, r \in Nat : \A j : FromRow(h, r, j) => FromRow(h, r, j)'
  BY <1>1 DEF FromRow, DropOwed
<1> QED BY <1>1, <1>2, <1>3 DEF Pending, Updating

\* A step that touches no connection keeps what is said of those.
LEMMA ConnsSame ==
    ASSUME PoolInv, UNCHANGED <<hosts, client, conns>>
    PROVE  PooledFit' /\ OpenFit' /\ CurrentTunnels'
<1>1. /\ UNCHANGED <<present, rev, step, req, owed, base, missed>>
      /\ UNCHANGED <<client, conn, open, keepalive>>
  BY DEF hosts, regVars, table, requests, conns
<1>2. PooledFit'
  <2> SUFFICES ASSUME NEW h \in Hosts, client[h] # None, NEW c, c = conn[client[h]]
               PROVE  /\ c.host = h /\ keepalive[client[h]] # "none"
                      /\ FromRow(h, c.rev, c.via)'
                      /\ c.via \in Hosts => c.viaRev <= rev[c.via]
    BY <1>1 DEF PooledFit
  <2>1. c.rev \in Nat
    BY DEF PoolInv, PoolTypeOK
  <2>2. /\ c.host = h /\ keepalive[client[h]] # "none" /\ FromRow(h, c.rev, c.via)
        /\ c.via \in Hosts => c.viaRev <= rev[c.via]
    BY DEF PoolInv, PooledFit
  <2> QED BY <2>1, <2>2, HostsSame
<1>3. OpenFit'
  BY <1>1 DEF PoolInv, OpenFit
<1>4. CurrentTunnels'
  BY <1>1 DEF PoolInv, CurrentTunnels, Pending, Updating
<1> QED BY <1>2, <1>3, <1>4

\* Frames that have been there before, and filled, still hold what was read.
LEMMA FramesSame ==
    ASSUME PoolInv, UNCHANGED hosts,
           \A g \in Getters : \A i \in DOMAIN stack'[g] :
              Filled(g, i)' => Filled(g, i) /\ stack'[g][i] = stack[g][i]
    PROVE  FramesFit'
<1> SUFFICES ASSUME NEW g \in Getters, NEW i, i \in DOMAIN stack'[g], Filled(g, i)'
             PROVE  FromRow(stack[g][i].host, stack[g][i].rev, stack[g][i].jump)'
  BY DEF FramesFit
<1>1. Filled(g, i) /\ stack'[g][i] = stack[g][i]
  OBVIOUS
<1>2. stack[g] \in Seq(Frames) /\ i \in DOMAIN stack[g]
  BY <1>1 DEF PoolInv, PoolTypeOK, Frames, Filled
<1>3. PICK e \in Frames : e = stack[g][i]
  BY <1>2, ElementOfSeq, LenProperties
<1>4. FromRow(e.host, e.rev, e.jump) /\ e.host \in Hosts /\ e.rev \in Nat
  BY <1>1, <1>2, <1>3 DEF PoolInv, FramesFit, Frames
<1>5. FromRow(e.host, e.rev, e.jump)'
  BY <1>4, HostsSame
<1> QED BY <1>1, <1>3, <1>5

\* A request begins.
LEMMA GetKeeps ==
    ASSUME PoolInv, NEW g \in Getters, NEW h \in Hosts, Get(g, h)
    PROVE  PoolInv'
<1>1. /\ PoolTypeOK /\ HoldsChain /\ stage[g] = "idle" /\ stack[g] = <<>>
      /\ UNCHANGED <<hosts, entries, conns, jumpConn>>
      /\ UNCHANGED <<lock, client, online, conn, open, keepalive>>
  BY DEF PoolInv, Get, HoldsChain, entries, conns
<1>2. Frame(h) \in Frames /\ Frame(h).host = h
  BY DEF Frame, Frames
<1>3. /\ stack' = [stack EXCEPT ![g] = <<Frame(h)>>]
      /\ stage' = [stage EXCEPT ![g] = "lock"]
  BY DEF Get, Stage
<1>4. /\ stack'[g] = <<Frame(h)>> /\ stage'[g] = "lock"
      /\ \A q \in Getters \ {g} : stack'[q] = stack[q] /\ stage'[q] = stage[q]
  BY <1>1, <1>3 DEF PoolTypeOK
<1>5. /\ Len(<<Frame(h)>>) = 1 /\ DOMAIN <<Frame(h)>> = {1} /\ <<Frame(h)>>[1] = Frame(h)
      /\ <<Frame(h)>> \in Seq(Frames) /\ <<Frame(h)>> # <<>>
  BY <1>2
<1>6. PoolTypeOK'
  <2>1. stack' \in [Getters -> Seq(Frames)]
    BY <1>1, <1>3, <1>5 DEF PoolTypeOK, Frames
  <2>2. stage' \in [Getters -> {"idle", "lock", "look", "dial", "tunnel", "failed"}]
    BY <1>1, <1>3 DEF PoolTypeOK
  <2> QED BY <1>1, <2>1, <2>2, HostsSame DEF PoolTypeOK, Frames
<1>7. HoldsChain'
  <2>1. \A x \in Hosts : lock[x] # g
    BY <1>1 DEF HoldsChain
  <2>2. /\ stage'[g] = "idle" <=> stack'[g] = <<>>
        /\ \A i, j \in DOMAIN stack'[g] : stack'[g][i].host = stack'[g][j].host => i = j
        /\ \A x \in Hosts : lock'[x] = g <=> \E i \in DOMAIN stack'[g] :
              stack'[g][i].host = x /\ (i = Len(stack'[g]) => stage'[g] # "lock")
    BY <1>1, <1>4, <1>5, <2>1
  <2>3. \A q \in Getters \ {g} :
        /\ stage'[q] = "idle" <=> stack'[q] = <<>>
        /\ \A i, j \in DOMAIN stack'[q] : stack'[q][i].host = stack'[q][j].host => i = j
        /\ \A x \in Hosts : lock'[x] = q <=> \E i \in DOMAIN stack'[q] :
              stack'[q][i].host = x /\ (i = Len(stack'[q]) => stage'[q] # "lock")
    BY <1>1, <1>4 DEF HoldsChain
  <2> QED BY <2>2, <2>3 DEF HoldsChain
<1>8. Linked' /\ EntriesFit'
  BY <1>1, <1>4, <1>5 DEF PoolInv, Linked, EntriesFit
<1>9. JumpFit'
  <2>1. jumpConn[g] = None /\ jumpConn' = jumpConn /\ open' = open /\ conn' = conn
    BY <1>1 DEF PoolInv, JumpFit
  <2>2. None \notin open
    BY <1>1, PoolConstantsOK DEF PoolTypeOK
  <2>3. /\ jumpConn'[g] # None <=> stage'[g] = "tunnel"
        /\ jumpConn'[g] \notin open'
    BY <1>4, <2>1, <2>2
  <2>4. \A q \in Getters \ {g} :
           /\ jumpConn'[q] # None <=> stage'[q] = "tunnel"
           /\ jumpConn'[q] \in open' => conn'[jumpConn'[q]].host = Top(q)'.jump
    BY <1>4, <2>1 DEF PoolInv, JumpFit, Top
  <2> QED BY <2>3, <2>4 DEF JumpFit
<1>10. FramesFit'
  BY <1>1, <1>4, <1>5, FramesSame DEF Filled
<1> QED BY <1>1, <1>6, <1>7, <1>8, <1>9, <1>10, HostsSame, ConnsSame DEF PoolInv

\* It takes the lock of an entry without connection.
LEMMA LockKeeps ==
    ASSUME PoolInv, NEW g \in Getters, Lock(g)
    PROVE  PoolInv'
<1> DEFINE t == Top(g).host
<1>1. /\ PoolTypeOK /\ HoldsChain /\ stage[g] = "lock" /\ lock[t] = None
      /\ UNCHANGED <<hosts, client, online, conns, stack, jumpConn>>
      /\ UNCHANGED <<conn, open, keepalive>>
      /\ lock' = [lock EXCEPT ![t] = g] /\ stage' = [stage EXCEPT ![g] = "look"]
  BY DEF PoolInv, Lock, Stage, conns
<1>2. /\ t \in Hosts /\ t = stack[g][Len(stack[g])]. host /\ Len(stack[g]) \in DOMAIN stack[g]
      /\ g # None
  BY <1>1, StackOf, PoolConstantsOK
<1>3. client[t] = None
  BY <1>2 DEF PoolInv, EntriesFit, Lock, Usable
<1>4. /\ lock'[t] = g /\ \A x \in Hosts \ {t} : lock'[x] = lock[x]
      /\ stage'[g] = "look" /\ \A q \in Getters \ {g} : stage'[q] = stage[q]
      /\ stack' = stack
  BY <1>1, <1>2 DEF PoolTypeOK
<1>5. PoolTypeOK'
  <2>1. /\ lock' \in [Hosts -> Getters \cup {None}]
        /\ stage' \in [Getters -> {"idle", "lock", "look", "dial", "tunnel", "failed"}]
    BY <1>1 DEF PoolTypeOK
  <2> QED BY <1>1, <2>1, HostsSame DEF PoolTypeOK
<1>6. HoldsChain'
  <2>1. /\ stage'[g] = "idle" <=> stack'[g] = <<>>
        /\ \A i, j \in DOMAIN stack'[g] : stack'[g][i].host = stack'[g][j].host => i = j
    BY <1>1, <1>4 DEF HoldsChain
  <2>2. ASSUME NEW x \in Hosts
        PROVE  lock'[x] = g <=> \E i \in DOMAIN stack'[g] :
                  stack'[g][i].host = x /\ (i = Len(stack'[g]) => stage'[g] # "lock")
    <3>1. lock[x] = g <=> \E i \in DOMAIN stack[g] : stack[g][i].host = x /\ i # Len(stack[g])
      BY <1>1 DEF HoldsChain
    <3>2. x = t <=> stack[g][Len(stack[g])].host = x
      BY <1>2
    <3> QED BY <1>2, <1>4, <3>1, <3>2
  <2>3. ASSUME NEW q \in Getters \ {g}
        PROVE  /\ stage'[q] = "idle" <=> stack'[q] = <<>>
               /\ \A i, j \in DOMAIN stack'[q] : stack'[q][i].host = stack'[q][j].host => i = j
               /\ \A x \in Hosts : lock'[x] = q <=> \E i \in DOMAIN stack'[q] :
                     stack'[q][i].host = x /\ (i = Len(stack'[q]) => stage'[q] # "lock")
    <3>1. \A x \in Hosts : lock'[x] = q <=> lock[x] = q
      BY <1>1, <1>4, PoolConstantsOK
    <3>2. /\ stage[q] = "idle" <=> stack[q] = <<>>
          /\ \A i, j \in DOMAIN stack[q] : stack[q][i].host = stack[q][j].host => i = j
          /\ \A x \in Hosts : lock[x] = q <=> \E i \in DOMAIN stack[q] :
                stack[q][i].host = x /\ (i = Len(stack[q]) => stage[q] # "lock")
      BY <1>1 DEF HoldsChain
    <3> QED BY ONLY <1>4, <3>1, <3>2
  <2> QED BY <2>1, <2>2, <2>3 DEF HoldsChain
<1>7. Linked' /\ EntriesFit' /\ JumpFit'
  <2>1. Linked'
    BY <1>4 DEF PoolInv, Linked
  <2>2. EntriesFit'
    BY <1>1, <1>3, <1>4 DEF PoolInv, EntriesFit
  <2>3. JumpFit'
    BY <1>1, <1>4 DEF PoolInv, JumpFit, Top
  <2> QED BY <2>1, <2>2, <2>3
<1>8. FramesFit'
  BY <1>1, <1>4, FramesSame DEF Filled
<1> QED BY <1>1, <1>5, <1>6, <1>7, <1>8, HostsSame, ConnsSame DEF PoolInv

\* It reads the row that it connects to.
LEMMA ReadRowKeeps ==
    ASSUME PoolInv, NEW g \in Getters, ReadRow(g)
    PROVE  PoolInv'
<1> DEFINE t == Top(g).host
           n == Len(stack[g])
<1>1. PICK e : e = [host |-> t, rev |-> rev[t], jump |-> jump[t]]
  OBVIOUS
<1>2. /\ PoolTypeOK /\ HoldsChain /\ stage[g] = "look" /\ t \in present
      /\ UNCHANGED <<hosts, entries, conns, jumpConn>>
      /\ UNCHANGED <<lock, client, online, conn, open, keepalive>>
      /\ stack' = [stack EXCEPT ![g][n] = e] /\ stage' = [stage EXCEPT ![g] = "dial"]
  BY <1>1 DEF PoolInv, ReadRow, Stage, conns, entries
<1>3. /\ t \in Hosts /\ t = stack[g][n].host /\ n \in 1 .. Len(stack[g]) /\ n \in Nat \ {0}
      /\ stack[g] \in Seq(Frames) /\ DOMAIN stack[g] = 1 .. n
  BY <1>2, StackOf
<1>4. e \in Frames /\ e.host = t /\ e.rev = rev[t] /\ e.jump = jump[t]
  BY <1>1, <1>2, <1>3 DEF PoolTypeOK, RegTypeOK, Frames
<1>5. /\ [stack[g] EXCEPT ![n] = e] \in Seq(Frames)
      /\ Len([stack[g] EXCEPT ![n] = e]) = n
      /\ \A i \in 1 .. n : [stack[g] EXCEPT ![n] = e][i] = IF i = n THEN e ELSE stack[g][i]
  BY ONLY <1>3, <1>4, ExceptSeq
<1>6. /\ stack'[g] = [stack[g] EXCEPT ![n] = e]
      /\ \A q \in Getters \ {g} : stack'[q] = stack[q]
      /\ stack' \in [Getters -> Seq(Frames)]
  <2>1. stack \in [Getters -> Seq(Frames)]
    BY <1>2 DEF PoolTypeOK, Frames
  <2> QED BY ONLY <1>2, <1>5, <2>1, g \in Getters
<1>7. /\ DOMAIN stack'[g] = 1 .. n /\ Len(stack'[g]) = n /\ stack'[g][n] = e
      /\ \A i \in 1 .. n - 1 : stack'[g][i] = stack[g][i]
      /\ \A i \in 1 .. n : stack'[g][i].host = stack[g][i].host
  <2>1. DOMAIN stack'[g] = 1 .. n
    BY <1>3, <1>6
  <2> QED BY <1>3, <1>4, <1>5, <1>6, <2>1
<1>8. stage'[g] = "dial" /\ \A q \in Getters \ {g} : stage'[q] = stage[q]
  BY <1>2 DEF PoolTypeOK
<1>9. PoolTypeOK'
  <2>1. stage' \in [Getters -> {"idle", "lock", "look", "dial", "tunnel", "failed"}]
    BY <1>2 DEF PoolTypeOK
  <2> QED BY <1>2, <1>6, <2>1, HostsSame DEF PoolTypeOK, Frames
<1>10. HoldsChain'
  <2>1. stage'[g] = "idle" <=> stack'[g] = <<>>
    BY <1>3, <1>7, <1>8
  <2>2. \A i, j \in DOMAIN stack'[g] : stack'[g][i].host = stack'[g][j].host => i = j
    BY <1>2, <1>3, <1>7 DEF HoldsChain
  <2>3. \A x \in Hosts : lock'[x] = g <=> \E i \in DOMAIN stack'[g] :
           stack'[g][i].host = x /\ (i = Len(stack'[g]) => stage'[g] # "lock")
    BY <1>2, <1>3, <1>7, <1>8 DEF HoldsChain
  <2>4. \A q \in Getters \ {g} :
        /\ stage'[q] = "idle" <=> stack'[q] = <<>>
        /\ \A i, j \in DOMAIN stack'[q] : stack'[q][i].host = stack'[q][j].host => i = j
        /\ \A x \in Hosts : lock'[x] = q <=> \E i \in DOMAIN stack'[q] :
              stack'[q][i].host = x /\ (i = Len(stack'[q]) => stage'[q] # "lock")
    BY <1>2, <1>6, <1>8 DEF HoldsChain
  <2> QED BY <2>1, <2>2, <2>3, <2>4 DEF HoldsChain
<1>11. Linked'
  <2>1. ASSUME NEW i \in DOMAIN stack'[g], i < Len(stack'[g])
        PROVE  stack'[g][i + 1].host = stack'[g][i].jump
    <3>1. i \in 1 .. n - 1 /\ i + 1 \in 1 .. n /\ i \in DOMAIN stack[g] /\ i < Len(stack[g])
      BY <1>3, <1>7, <2>1
    <3>2. stack[g][i + 1].host = stack[g][i].jump
      BY <3>1 DEF PoolInv, Linked
    <3> QED BY <1>7, <3>1, <3>2
  <2> QED BY <1>6, <2>1 DEF PoolInv, Linked
<1>12. EntriesFit' /\ JumpFit'
  <2>1. EntriesFit'
    BY <1>2 DEF PoolInv, EntriesFit
  <2>2. None \notin open
    BY <1>2, PoolConstantsOK DEF PoolTypeOK
  <2>3. jumpConn'[g] = None /\ open' = open
    BY <1>2 DEF PoolInv, JumpFit
  <2>4. \A q \in Getters \ {g} :
           /\ jumpConn'[q] # None <=> stage'[q] = "tunnel"
           /\ jumpConn'[q] \in open' => conn'[jumpConn'[q]].host = Top(q)'.jump
    BY <1>2, <1>6, <1>8 DEF PoolInv, JumpFit, Top
  <2> QED BY <1>8, <2>1, <2>2, <2>3, <2>4 DEF JumpFit
<1>13. FramesFit'
  <2>1. ASSUME NEW q \in Getters, NEW i \in DOMAIN stack'[q], Filled(q, i)', ~(q = g /\ i = n)
        PROVE  FromRow(stack[q][i].host, stack[q][i].rev, stack[q][i].jump)'
    <3>1. Filled(q, i) /\ stack'[q][i] = stack[q][i] /\ i \in DOMAIN stack[q]
      <4>1. CASE q = g
        <5>1. i \in 1 .. n - 1
          BY <1>3, <1>7, <2>1, <4>1
        <5> QED BY <1>3, <1>7, <2>1, <4>1, <5>1 DEF Filled
      <4>2. CASE q # g
        BY <1>6, <1>8, <2>1, <4>2 DEF Filled
      <4> QED BY <4>1, <4>2
    <3>2. stack[q] \in Seq(Frames)
      BY <1>2 DEF PoolTypeOK, Frames
    <3>3. PICK f \in Frames : f = stack[q][i]
      BY <3>1, <3>2, ElementOfSeq, LenProperties
    <3>4. FromRow(f.host, f.rev, f.jump) /\ f.host \in Hosts /\ f.rev \in Nat
      BY <3>1, <3>3 DEF PoolInv, FramesFit, Frames
    <3>5. FromRow(f.host, f.rev, f.jump)'
      BY <1>2, <3>4, HostsSame
    <3> QED BY <3>1, <3>3, <3>5
  <2>2. FromRow(e.host, e.rev, e.jump)'
    <3>1. PICK h, r, j : h = t /\ r = rev[t] /\ j = jump[t]
      OBVIOUS
    <3>2. UNCHANGED <<present, jump, rev, base>> /\ r \in Nat /\ base[h] \in Nat /\ h \in Hosts
      BY <1>2, <1>3, <3>1 DEF hosts, regVars, table, PoolTypeOK, RegTypeOK
    <3>3. FromRow(h, r, j)'
      BY <3>1, <3>2 DEF FromRow
    <3> QED BY <1>4, <3>1, <3>3
  <2>3. ASSUME NEW i, i = n
        PROVE  FromRow(stack[g][i].host, stack[g][i].rev, stack[g][i].jump)'
    BY <1>7, <2>2, <2>3
  <2> QED BY <2>1, <2>3 DEF FramesFit
<1> QED BY <1>2, <1>9, <1>10, <1>11, <1>12, <1>13, HostsSame, ConnsSame DEF PoolInv

\* It needs a connection to the jump host first, whose name it is not yet connecting.
LEMMA EnterJumpKeeps ==
    ASSUME PoolInv, NEW g \in Getters, EnterJump(g)
    PROVE  PoolInv'
<1> DEFINE j == Top(g).jump
           n == Len(stack[g])
<1>1. PICK e : e = Frame(j)
  OBVIOUS
<1>2. /\ PoolTypeOK /\ HoldsChain /\ stage[g] = "dial" /\ j \in present /\ j \notin Names(stack[g])
      /\ UNCHANGED <<hosts, entries, conns, jumpConn>>
      /\ UNCHANGED <<lock, client, online, conn, open, keepalive>>
      /\ stack' = [stack EXCEPT ![g] = Append(@, e)] /\ stage' = [stage EXCEPT ![g] = "lock"]
  BY <1>1 DEF PoolInv, EnterJump, Refused, Stage, conns, entries
<1>3. /\ j \in Hosts /\ j = stack[g][n].jump /\ n \in Nat \ {0}
      /\ stack[g] \in Seq(Frames) /\ DOMAIN stack[g] = 1 .. n
  BY <1>2, StackOf DEF PoolTypeOK, RegTypeOK
<1>4. e \in Frames /\ e.host = j
  BY <1>1, <1>3 DEF Frame, Frames
<1>5. /\ Append(stack[g], e) \in Seq(Frames) /\ Len(Append(stack[g], e)) = n + 1
      /\ DOMAIN Append(stack[g], e) = 1 .. n + 1
      /\ \A i \in 1 .. n : Append(stack[g], e)[i] = stack[g][i]
      /\ Append(stack[g], e)[n + 1] = e
  BY <1>3, <1>4, AppendOf
<1>6. /\ stack'[g] = Append(stack[g], e)
      /\ \A q \in Getters \ {g} : stack'[q] = stack[q]
      /\ stack' \in [Getters -> Seq(Frames)]
  <2>1. stack \in [Getters -> Seq(Frames)]
    BY <1>2 DEF PoolTypeOK, Frames
  <2> QED BY ONLY <1>2, <1>5, <2>1, g \in Getters
<1>7. /\ DOMAIN stack'[g] = 1 .. n + 1 /\ Len(stack'[g]) = n + 1 /\ stack'[g][n + 1] = e
      /\ \A i \in 1 .. n : stack'[g][i] = stack[g][i]
  BY <1>5, <1>6
<1>8. stage'[g] = "lock" /\ \A q \in Getters \ {g} : stage'[q] = stage[q]
  BY <1>2 DEF PoolTypeOK
<1>9. PoolTypeOK'
  <2>1. stage' \in [Getters -> {"idle", "lock", "look", "dial", "tunnel", "failed"}]
    BY <1>2 DEF PoolTypeOK
  <2> QED BY <1>2, <1>6, <2>1, HostsSame DEF PoolTypeOK, Frames
<1>10. \A i \in 1 .. n + 1 : (i \in 1 .. n /\ i # n + 1) \/ i = n + 1
  BY <1>3
<1>11. HoldsChain'
  <2>1. stage'[g] = "idle" <=> stack'[g] = <<>>
    <3>1. n + 1 # 0
      BY <1>3
    <3> QED BY <1>7, <1>8, <3>1
  <2>2. \A i, k \in 1 .. n : stack[g][i].host = stack[g][k].host => i = k
    BY <1>2, <1>3 DEF HoldsChain
  <2>3. \A i \in 1 .. n : stack[g][i].host # j
    BY <1>2, <1>3 DEF Names
  <2>4. \A i, k \in DOMAIN stack'[g] : stack'[g][i].host = stack'[g][k].host => i = k
    BY <1>4, <1>7, <1>10, <2>2, <2>3
  <2>5. \A x \in Hosts : lock[x] = g <=> \E i \in 1 .. n : stack[g][i].host = x
    BY <1>2, <1>3 DEF HoldsChain
  <2>6. ASSUME NEW x \in Hosts
        PROVE  lock'[x] = g <=> \E i \in DOMAIN stack'[g] :
                  stack'[g][i].host = x /\ (i = Len(stack'[g]) => stage'[g] # "lock")
    <3>1. \A i \in 1 .. n : i \in 1 .. n + 1 /\ i # n + 1
      BY <1>3
    <3> QED BY <1>2, <1>7, <1>8, <1>10, <2>5, <3>1
  <2>7. \A q \in Getters \ {g} :
        /\ stage'[q] = "idle" <=> stack'[q] = <<>>
        /\ \A i, k \in DOMAIN stack'[q] : stack'[q][i].host = stack'[q][k].host => i = k
        /\ \A x \in Hosts : lock'[x] = q <=> \E i \in DOMAIN stack'[q] :
              stack'[q][i].host = x /\ (i = Len(stack'[q]) => stage'[q] # "lock")
    BY <1>2, <1>6, <1>8 DEF HoldsChain
  <2> QED BY <2>1, <2>4, <2>6, <2>7 DEF HoldsChain
<1>12. Linked'
  <2>1. ASSUME NEW i \in DOMAIN stack'[g], i < Len(stack'[g])
        PROVE  stack'[g][i + 1].host = stack'[g][i].jump
    <3>1. i \in 1 .. n /\ (i = n \/ (i < n /\ i + 1 \in 1 .. n))
      BY <1>3, <1>7, <2>1
    <3>2. CASE i = n
      BY <1>3, <1>4, <1>7, <3>1, <3>2
    <3>3. CASE i < n /\ i + 1 \in 1 .. n
      <4>1. stack[g][i + 1].host = stack[g][i].jump
        BY <1>3, <3>1, <3>3 DEF PoolInv, Linked
      <4> QED BY <1>7, <3>1, <3>3, <4>1
    <3> QED BY <3>1, <3>2, <3>3
  <2> QED BY <1>6, <2>1 DEF PoolInv, Linked
<1>13. EntriesFit' /\ JumpFit'
  <2>1. EntriesFit'
    BY <1>2 DEF PoolInv, EntriesFit
  <2>2. None \notin open
    BY <1>2, PoolConstantsOK DEF PoolTypeOK
  <2>3. jumpConn'[g] = None /\ open' = open
    BY <1>2 DEF PoolInv, JumpFit
  <2>4. \A q \in Getters \ {g} :
           /\ jumpConn'[q] # None <=> stage'[q] = "tunnel"
           /\ jumpConn'[q] \in open' => conn'[jumpConn'[q]].host = Top(q)'.jump
    BY <1>2, <1>6, <1>8 DEF PoolInv, JumpFit, Top
  <2> QED BY <1>8, <2>1, <2>2, <2>3, <2>4 DEF JumpFit
<1>14. FramesFit'
  <2>1. ASSUME NEW q \in Getters, NEW i \in DOMAIN stack'[q], Filled(q, i)'
        PROVE  Filled(q, i) /\ stack'[q][i] = stack[q][i]
    <3>1. CASE q = g
      <4>1. i \in 1 .. n
        BY <1>7, <1>8, <1>10, <2>1, <3>1 DEF Filled
      <4> QED BY <1>2, <1>3, <1>7, <3>1, <4>1 DEF Filled
    <3>2. CASE q # g
      BY <1>6, <1>8, <2>1, <3>2 DEF Filled
    <3> QED BY <3>1, <3>2
  <2> QED BY <1>2, <2>1, FramesSame
<1> QED BY <1>2, <1>9, <1>11, <1>12, <1>13, <1>14, HostsSame, ConnsSame DEF PoolInv

\* A call that returns without having dialled: what it returns is pooled, or nothing.
LEMMA LeaveKeeps ==
    ASSUME PoolInv, NEW g \in Getters, stage[g] # "idle",
           NEW s \in {"tunnel", "failed"}, NEW c \in Conns \cup {None}, Leave(g, s, c),
           stage[g] = "lock" => lock[Top(g).host] = None,
           UNCHANGED <<hosts, client, online, conns>>,
           s = "tunnel" <=> c # None, c \in open => conn[c].host = Top(g).host
    PROVE  PoolInv'
<1>1. /\ PoolTypeOK /\ HoldsChain /\ Linked /\ UNCHANGED <<conn, open, keepalive, client, online>>
      /\ Top(g).host \in Hosts
  BY StackOf DEF PoolInv, conns
<1>2. PoolTypeOK' /\ HoldsChain' /\ Linked'
  BY <1>1, Leaving, HostsSame DEF PoolTypeOK, Frames
<1>3. EntriesFit'
  <2>1. \A h \in Hosts : lock'[h] = IF h = Top(g).host THEN None ELSE lock[h]
    BY <1>1, Leaving
  <2> QED BY <1>1, <2>1 DEF PoolInv, EntriesFit
<1>4. JumpFit'
  <2>1. None \notin open
    BY <1>1, PoolConstantsOK DEF PoolTypeOK
  <2>2. ASSUME NEW q \in Getters \ {g}
        PROVE  /\ jumpConn'[q] # None <=> stage'[q] = "tunnel"
               /\ jumpConn'[q] \in open' => conn'[jumpConn'[q]].host = Top(q)'.jump
    <3>1. stack'[q] = stack[q] /\ stage'[q] = stage[q] /\ jumpConn'[q] = jumpConn[q]
      BY <1>1, Leaving
    <3> QED BY <1>1, <3>1 DEF PoolInv, JumpFit, Top
  <2>3. \/ stage'[g] = "idle" /\ jumpConn'[g] = None
        \/ stage'[g] = s /\ jumpConn'[g] = c /\ Top(g)'.jump = Top(g).host
    BY <1>1, Leaving
  <2>4. /\ jumpConn'[g] # None <=> stage'[g] = "tunnel"
        /\ jumpConn'[g] \in open' => conn'[jumpConn'[g]].host = Top(g)'.jump
    BY <1>1, <2>1, <2>3
  <2> QED BY <2>2, <2>4 DEF JumpFit
<1>5. FramesFit'
  <2>1. \A q \in Getters : \A i \in DOMAIN stack'[q] :
           Filled(q, i)' => Filled(q, i) /\ stack'[q][i] = stack[q][i]
    BY <1>1, Leaving
  <2> QED BY <2>1, FramesSame
<1> QED BY <1>2, <1>3, <1>4, <1>5, HostsSame, ConnsSame DEF PoolInv

\* The pooled connection is handed out.
LEMMA HitKeeps ==
    ASSUME PoolInv, NEW g \in Getters, Hit(g)
    PROVE  PoolInv'
<1>1. PICK c : c = client[Top(g).host]
  OBVIOUS
<1>2. /\ stage[g] = "lock" /\ lock[Top(g).host] = None /\ Top(g).host \in Hosts
      /\ Leave(g, "tunnel", c) /\ UNCHANGED <<hosts, client, online, conns>>
      /\ c \in Conns /\ c # None
  BY <1>1, StackOf, PoolConstantsOK DEF Hit, Usable, PoolInv, PoolTypeOK
<1>3. conn[c].host = Top(g).host
  BY <1>1, <1>2 DEF PoolInv, PooledFit
<1> QED BY <1>2, <1>3, LeaveKeeps

\* There is no such host.
LEMMA NoRowKeeps ==
    ASSUME PoolInv, NEW g \in Getters, NoRow(g)
    PROVE  PoolInv'
<1>1. /\ stage[g] = "look" /\ Leave(g, "failed", None) /\ UNCHANGED <<hosts, client, online, conns>>
      /\ None \notin open
  BY PoolConstantsOK DEF NoRow, PoolInv, PoolTypeOK
<1> QED BY <1>1, LeaveKeeps

\* The dial fails: the entry, which has been empty, stays so.
LEMMA FailKeeps ==
    ASSUME PoolInv, NEW g \in Getters, Fail(g)
    PROVE  PoolInv'
<1>1. /\ stage[g] \in {"dial", "tunnel", "failed"} /\ Leave(g, "failed", None)
      /\ UNCHANGED <<hosts, client, conns>> /\ online' = online \ {Top(g).host}
      /\ None \notin open
  BY PoolConstantsOK DEF Fail, PoolInv, PoolTypeOK
<1>2. lock[Top(g).host] = g /\ Top(g).host \in Hosts /\ g # None
  BY <1>1, StackOf, HolderOf, PoolConstantsOK DEF PoolInv
<1>3. online' = online
  BY <1>1, <1>2 DEF PoolInv, EntriesFit
<1> QED BY <1>1, <1>3, LeaveKeeps

\* The connection through which g dials, if it is still open, is the one its jump host has in
\* the pool: dialled from a row that is current, or on whose behalf it is yet to be dropped.
LEMMA DialledThrough ==
    ASSUME PoolInv, NEW g \in Getters, Reachable(g), NEW d, d = jumpConn[g],
           NEW v, v = Top(g).jump
    PROVE  \/ stage[g] = "dial" /\ v = None /\ d = None
           \/ /\ stage[g] = "tunnel" /\ v \in Hosts /\ d \in Conns /\ d # None
              /\ conn[d].rev \in Nat /\ conn[d].rev <= rev[v]
              /\ v \in present /\ conn[d].rev \in base[v] .. (rev[v] - 1) => DropOwed(v)
<1>1. CASE stage[g] = "dial"
  BY <1>1 DEF Reachable, PoolInv, JumpFit
<1>2. CASE stage[g] = "tunnel" /\ d \in open
  <2>1. d \in Conns /\ d # None /\ conn[d].rev \in Nat
    BY <1>2, PoolConstantsOK DEF PoolInv, PoolTypeOK
  <2>2. v = conn[d].host /\ v \in Hosts /\ client[v] = d
    BY <1>2 DEF PoolInv, JumpFit, OpenFit
  <2>3. PICK r, j : r = conn[d].rev /\ j = conn[d].via
    OBVIOUS
  <2>4. FromRow(v, r, j)
    BY <2>1, <2>2, <2>3 DEF PoolInv, PooledFit
  <2> QED BY <1>2, <2>1, <2>2, <2>3, <2>4 DEF FromRow
<1> QED BY <1>1, <1>2 DEF Reachable

\* A dial succeeds.
LEMMA ConnectKeeps ==
    ASSUME PoolInv, NEW g \in Getters, NEW c \in Conns, Connect(g, c)
    PROVE  PoolInv'
<1>1. PICK t, r, v, d : t = Top(g).host /\ r = Top(g).rev /\ v = Top(g).jump /\ d = jumpConn[g]
  OBVIOUS
<1>2. PICK w : w = IF d = None THEN 0 ELSE conn[d].rev
  OBVIOUS
<1>3. /\ PoolTypeOK /\ HoldsChain /\ Linked /\ Reachable(g) /\ Fresh(c)
      /\ conn' = [conn EXCEPT ![c] = [host |-> t, rev |-> r, via |-> v, viaRev |-> w]]
      /\ open' = open \cup {c} /\ keepalive' = [keepalive EXCEPT ![c] = "watching"]
      /\ client' = [client EXCEPT ![t] = c] /\ online' = online \cup {t}
      /\ Leave(g, "tunnel", c) /\ UNCHANGED hosts
      /\ stage[g] \in {"dial", "tunnel"} /\ c # None
  BY <1>1, <1>2, PoolConstantsOK DEF Connect, PoolInv, Reachable
<1>4. /\ t \in Hosts /\ v \in Hosts \cup {None} /\ r \in Nat
      /\ Len(stack[g]) \in DOMAIN stack[g] /\ Top(g) = stack[g][Len(stack[g])]
  BY <1>1, <1>3, StackOf
<1>5. lock[t] = g /\ client[t] = None /\ FromRow(t, r, v)
  <2>1. lock[t] = g /\ g # None
    BY <1>1, <1>3, <1>4, HolderOf, PoolConstantsOK
  <2>2. Filled(g, Len(stack[g]))
    BY <1>3, <1>4 DEF Filled
  <2>3. FromRow(t, r, v)
    BY <1>1, <1>4, <2>2 DEF PoolInv, FramesFit
  <2> QED BY <1>4, <2>1, <2>3 DEF PoolInv, EntriesFit
<1>6. /\ w \in Nat
      /\ v \in Hosts => w <= rev[v]
      /\ v \in present /\ w \in base[v] .. (rev[v] - 1) => DropOwed(v)
  <2>1. \/ stage[g] = "dial" /\ v = None /\ d = None
        \/ /\ stage[g] = "tunnel" /\ v \in Hosts /\ d \in Conns /\ d # None
           /\ conn[d].rev \in Nat /\ conn[d].rev <= rev[v]
           /\ v \in present /\ conn[d].rev \in base[v] .. (rev[v] - 1) => DropOwed(v)
    BY <1>1, <1>3, DialledThrough
  <2>2. CASE v = None /\ d = None
    <3>1. v \notin Hosts /\ v \notin present /\ w = 0
      BY <1>2, <1>3, <2>2, RegistryConstantsOK DEF PoolTypeOK, RegTypeOK
    <3> QED BY <3>1
  <2>3. CASE d # None
    <3>1. w = conn[d].rev
      BY <1>2, <2>3
    <3> QED BY <2>1, <2>3, <3>1
  <2> QED BY <2>1, <2>2, <2>3
<1>7. /\ conn'[c].host = t /\ conn'[c].rev = r /\ conn'[c].via = v /\ conn'[c].viaRev = w
      /\ keepalive'[c] = "watching" /\ client'[t] = c
      /\ \A x \in Conns \ {c} : conn'[x] = conn[x] /\ keepalive'[x] = keepalive[x]
      /\ \A h \in Hosts \ {t} : client'[h] = client[h] /\ client[h] # c
  BY <1>3, <1>4 DEF PoolTypeOK, Fresh
<1>8. UNCHANGED <<present, jump, rev, step, req, owed, base, missed>>
  BY <1>3 DEF hosts, regVars, table, requests
<1>9. PoolTypeOK' /\ HoldsChain' /\ Linked'
  <2>1. /\ conn' \in [Conns -> [host : Hosts \cup {None}, rev : Nat,
                                via : Hosts \cup {None}, viaRev : Nat]]
        /\ open' \subseteq Conns /\ online' \subseteq Hosts
        /\ client' \in [Hosts -> Conns \cup {None}]
        /\ keepalive' \in [Conns -> {"none", "watching", "failed"}]
    BY <1>3, <1>4, <1>6 DEF PoolTypeOK
  <2>2. /\ lock' \in [Hosts -> Getters \cup {None}]
        /\ stack' \in [Getters -> Seq(Frames)]
        /\ stage' \in [Getters -> {"idle", "lock", "look", "dial", "tunnel", "failed"}]
        /\ jumpConn' \in [Getters -> Conns \cup {None}]
        /\ HoldsChain' /\ Linked'
    BY <1>3, Leaving
  <2> QED BY <1>3, <2>1, <2>2, HostsSame DEF PoolTypeOK, Frames
<1>10. EntriesFit'
  <2>1. \A h \in Hosts : lock'[h] = IF h = t THEN None ELSE lock[h]
    BY <1>1, <1>3, Leaving
  <2> QED BY <1>3, <1>4, <1>7, <2>1 DEF PoolInv, EntriesFit
<1>11. c \notin open /\ None \notin open
  BY <1>3, PoolConstantsOK DEF Fresh, PoolInv, OpenFit, PoolTypeOK
<1>12. JumpFit'
  <2>1. ASSUME NEW q \in Getters \ {g}
        PROVE  /\ jumpConn'[q] # None <=> stage'[q] = "tunnel"
               /\ jumpConn'[q] \in open' => conn'[jumpConn'[q]].host = Top(q)'.jump
    <3>1. stack'[q] = stack[q] /\ stage'[q] = stage[q] /\ jumpConn'[q] = jumpConn[q]
      BY <1>3, Leaving
    <3>2. jumpConn[q] # c
      BY <1>3 DEF Fresh
    <3>3. jumpConn[q] \in open' => jumpConn[q] \in open /\ conn'[jumpConn[q]] = conn[jumpConn[q]]
      BY <1>3, <1>7, <3>2 DEF PoolTypeOK
    <3> QED BY <3>1, <3>3 DEF PoolInv, JumpFit, Top
  <2>2. \/ stage'[g] = "idle" /\ jumpConn'[g] = None
        \/ stage'[g] = "tunnel" /\ jumpConn'[g] = c /\ Top(g)'.jump = t
    BY <1>1, <1>3, Leaving
  <2>3. /\ jumpConn'[g] # None <=> stage'[g] = "tunnel"
        /\ jumpConn'[g] \in open' => conn'[jumpConn'[g]].host = Top(g)'.jump
    BY <1>3, <1>7, <1>11, <2>2
  <2> QED BY <2>1, <2>3 DEF JumpFit
<1>13. FramesFit'
  <2>1. \A q \in Getters : \A i \in DOMAIN stack'[q] :
           Filled(q, i)' => Filled(q, i) /\ stack'[q][i] = stack[q][i]
    BY <1>3, Leaving
  <2> QED BY <1>3, <2>1, FramesSame
<1>14. PooledFit'
  <2>1. /\ conn'[c].host = t /\ keepalive'[c] # "none"
        /\ FromRow(t, r, v)' /\ (v \in Hosts => w <= rev'[v])
    BY <1>3, <1>4, <1>5, <1>6, <1>7, <1>8, HostsSame
  <2>2. ASSUME NEW h \in Hosts \ {t}, client[h] # None, NEW k, k = client[h], NEW f, f = conn[k]
        PROVE  /\ f.host = h /\ keepalive'[k] # "none" /\ FromRow(h, f.rev, f.via)'
               /\ f.via \in Hosts => f.viaRev <= rev'[f.via]
    <3>1. k \in Conns \ {c} /\ f.rev \in Nat
      BY <1>3, <1>7, <2>2 DEF PoolTypeOK
    <3>2. /\ f.host = h /\ keepalive[k] # "none" /\ FromRow(h, f.rev, f.via)
          /\ f.via \in Hosts => f.viaRev <= rev[f.via]
      BY <2>2 DEF PoolInv, PooledFit
    <3> QED BY <1>3, <1>7, <1>8, <3>1, <3>2, HostsSame
  <2>3. ASSUME NEW h \in Hosts, client'[h] # None, NEW k, k = client'[h], NEW f, f = conn'[k]
        PROVE  /\ f.host = h /\ keepalive'[k] # "none" /\ FromRow(h, f.rev, f.via)'
               /\ f.via \in Hosts => f.viaRev <= rev'[f.via]
    <3>1. CASE h = t
      BY <1>7, <2>1, <2>3, <3>1
    <3>2. CASE h # t
      <4>1. k = client[h] /\ k # None /\ k \in Conns \ {c} /\ f = conn[k]
        BY <1>3, <1>7, <2>3, <3>2 DEF PoolTypeOK
      <4> QED BY <2>2, <3>2, <4>1
    <3> QED BY <3>1, <3>2
  <2> QED BY <2>3 DEF PooledFit
<1>15. OpenFit'
  <2>1. ASSUME NEW x \in open
        PROVE  keepalive'[x] # "none" /\ conn'[x].host \in Hosts /\ client'[conn'[x].host] = x
    <3>1. x \in Conns \ {c} /\ x # None
      BY <1>3, <1>11 DEF PoolTypeOK
    <3>2. keepalive[x] # "none" /\ conn[x].host \in Hosts /\ client[conn[x].host] = x
      BY DEF PoolInv, OpenFit
    <3>3. conn[x].host # t
      BY <1>5, <3>1, <3>2
    <3> QED BY <1>7, <3>1, <3>2, <3>3
  <2>2. keepalive'[c] # "none" /\ conn'[c].host \in Hosts /\ client'[conn'[c].host] = c
    BY <1>4, <1>7
  <2> QED BY <1>3, <2>1, <2>2 DEF OpenFit
<1>16. CurrentTunnels'
  <2> SUFFICES ASSUME NEW h \in present, client'[h] # None, NEW f, f = conn'[client'[h]],
                      f.via \in present, f.rev >= base[h],
                      f.viaRev \in base[f.via] .. (rev[f.via] - 1)
               PROVE  Pending(h)' \/ Updating(f.via)' \/ f.via \in missed'
    BY <1>3, <1>8 DEF CurrentTunnels, PoolTypeOK, RegTypeOK
  <2>1. h \in Hosts /\ f.via \in Hosts
    BY <1>3 DEF PoolTypeOK, RegTypeOK
  <2>2. CASE h = t
    <3>1. f.via = v /\ f.viaRev = w
      BY <1>7, <2>2
    <3>2. DropOwed(v)
      BY <1>6, <3>1
    <3>3. Updating(v)
      BY <3>2 DEF DropOwed, Updating
    <3> QED BY <1>3, <2>1, <3>1, <3>3, HostsSame
  <2>3. CASE h # t
    <3>1. f = conn[client[h]] /\ client[h] # None
      BY <1>3, <1>7, <2>1, <2>3 DEF PoolTypeOK
    <3>2. Pending(h) \/ Updating(f.via) \/ f.via \in missed
      BY <2>1, <3>1 DEF PoolInv, CurrentTunnels
    <3> QED BY <1>3, <1>8, <2>1, <3>2, HostsSame
  <2> QED BY <2>2, <2>3
<1> QED BY <1>3, <1>9, <1>10, <1>12, <1>13, <1>14, <1>15, <1>16, HostsSame DEF PoolInv

-----------------------------------------------------------------------------
(* Keepalives *)

\* A keepalive has no answer.
LEMMA KeepaliveFailsKeeps ==
    ASSUME PoolInv, NEW c \in Conns, KeepaliveFails(c)
    PROVE  PoolInv'
<1>1. /\ PoolTypeOK /\ keepalive[c] = "watching"
      /\ keepalive' = [keepalive EXCEPT ![c] = "failed"]
      /\ UNCHANGED hosts /\ UNCHANGED <<lock, client, online, conn, open, stack, stage, jumpConn>>
      /\ UNCHANGED <<present, jump, rev, step, req, owed, base, missed>>
  BY DEF KeepaliveFails, PoolInv, hosts, regVars, table, requests, entries, calls
<1>2. \A x \in Conns : keepalive[x] # "none" => keepalive'[x] # "none"
  BY <1>1 DEF PoolTypeOK
<1>3. PoolTypeOK'
  <2>1. keepalive' \in [Conns -> {"none", "watching", "failed"}]
    BY <1>1 DEF PoolTypeOK
  <2> QED BY <1>1, <2>1, HostsSame DEF PoolTypeOK
<1>4. HoldsChain' /\ CurrentTunnels' /\ EntriesFit' /\ Linked' /\ JumpFit'
  BY <1>1 DEF PoolInv, HoldsChain, CurrentTunnels, EntriesFit, Linked, JumpFit, Top, Pending, Updating
<1>5. FramesFit'
  BY <1>1, FramesSame DEF Filled
<1>6. PooledFit'
  <2> SUFFICES ASSUME NEW h \in Hosts, client[h] # None, NEW f, f = conn[client[h]]
               PROVE  /\ f.host = h /\ keepalive'[client[h]] # "none"
                      /\ FromRow(h, f.rev, f.via)'
                      /\ f.via \in Hosts => f.viaRev <= rev[f.via]
    BY <1>1 DEF PooledFit
  <2>1. f.rev \in Nat /\ client[h] \in Conns
    BY <1>1 DEF PoolTypeOK
  <2>2. /\ f.host = h /\ keepalive[client[h]] # "none" /\ FromRow(h, f.rev, f.via)
        /\ f.via \in Hosts => f.viaRev <= rev[f.via]
    BY DEF PoolInv, PooledFit
  <2> QED BY <1>1, <1>2, <2>1, <2>2, HostsSame
<1>7. OpenFit'
  BY <1>1, <1>2 DEF PoolInv, OpenFit, PoolTypeOK
<1> QED BY <1>1, <1>3, <1>4, <1>5, <1>6, <1>7, HostsSame DEF PoolInv

\* Its goroutine closes the connection, and empties the entry that has it.
LEMMA KeepaliveDropsKeeps ==
    ASSUME PoolInv, NEW c \in Conns, KeepaliveDrops(c)
    PROVE  PoolInv'
<1> DEFINE h == conn[c].host
<1>1. /\ PoolTypeOK /\ HoldsChain /\ keepalive[c] = "failed" /\ lock[h] = None /\ c # None
      /\ UNCHANGED hosts /\ UNCHANGED <<lock, stack, stage, jumpConn>>
      /\ UNCHANGED <<present, jump, rev, step, req, owed, base, missed>>
      /\ open' = open \ {c} /\ keepalive' = [keepalive EXCEPT ![c] = "none"]
      /\ conn' = [conn EXCEPT ![c] = NoConn]
  BY PoolConstantsOK DEF KeepaliveDrops, PoolInv, hosts, regVars, table, requests, calls
<1>2. /\ client' \in [Hosts -> Conns \cup {None}] /\ online' \subseteq Hosts
      /\ \A x \in Hosts : client'[x] = IF client[x] = c THEN None ELSE client[x]
      /\ \A x \in Hosts : x \in online' <=> x \in online /\ client[x] # c
  <2>1. \A x \in Hosts : client[x] = c => x = h
    BY <1>1 DEF PoolInv, PooledFit
  <2>2. CASE client[h] = c
    <3>1. client' = [client EXCEPT ![h] = None] /\ online' = online \ {h}
      BY <2>2 DEF KeepaliveDrops, Own
    <3> QED BY <1>1, <2>1, <2>2, <3>1 DEF PoolTypeOK
  <2>3. CASE client[h] # c
    <3>1. client' = client /\ online' = online
      BY <2>3 DEF KeepaliveDrops, Own
    <3> QED BY <1>1, <2>1, <2>3, <3>1 DEF PoolTypeOK
  <2> QED BY <2>2, <2>3
<1>3. \A x \in Conns \ {c} : conn'[x] = conn[x] /\ keepalive'[x] = keepalive[x]
  BY <1>1 DEF PoolTypeOK
<1>4. PoolTypeOK'
  <2>1. /\ keepalive' \in [Conns -> {"none", "watching", "failed"}]
        /\ conn' \in [Conns -> [host : Hosts \cup {None}, rev : Nat,
                                via : Hosts \cup {None}, viaRev : Nat]]
        /\ open' \subseteq Conns
    BY <1>1 DEF PoolTypeOK, NoConn
  <2> QED BY <1>1, <1>2, <2>1, HostsSame DEF PoolTypeOK
<1>5. HoldsChain' /\ Linked' /\ EntriesFit' /\ JumpFit'
  <2>1. HoldsChain' /\ Linked'
    BY <1>1 DEF PoolInv, HoldsChain, Linked
  <2>2. EntriesFit'
    BY <1>1, <1>2 DEF PoolInv, EntriesFit
  <2>3. JumpFit'
    <3>1. ASSUME NEW q \in Getters, jumpConn[q] \in open'
          PROVE  conn'[jumpConn[q]].host = Top(q).jump
      <4>1. jumpConn[q] \in open /\ jumpConn[q] \in Conns \ {c}
        BY <1>1, <3>1 DEF PoolTypeOK
      <4> QED BY <1>3, <4>1 DEF PoolInv, JumpFit
    <3>2. \A q \in Getters : jumpConn[q] # None <=> stage[q] = "tunnel"
      BY DEF PoolInv, JumpFit
    <3> QED BY <1>1, <3>1, <3>2 DEF JumpFit, Top
  <2> QED BY <2>1, <2>2, <2>3
<1>6. FramesFit'
  BY <1>1, FramesSame DEF Filled
<1>7. \A x \in Hosts : client'[x] # None =>
         /\ client'[x] = client[x] /\ client[x] \in Conns \ {c} /\ conn'[client[x]] = conn[client[x]]
         /\ keepalive'[client[x]] = keepalive[client[x]]
  BY <1>1, <1>2, <1>3 DEF PoolTypeOK
<1>8. PooledFit'
  <2> SUFFICES ASSUME NEW x \in Hosts, client'[x] # None, NEW f, f = conn'[client'[x]]
               PROVE  /\ f.host = x /\ keepalive'[client'[x]] # "none"
                      /\ FromRow(x, f.rev, f.via)'
                      /\ f.via \in Hosts => f.viaRev <= rev[f.via]
    BY <1>1 DEF PooledFit
  <2>1. f = conn[client[x]] /\ client[x] # None /\ f.rev \in Nat
    BY <1>1, <1>7 DEF PoolTypeOK
  <2>2. /\ f.host = x /\ keepalive[client[x]] # "none" /\ FromRow(x, f.rev, f.via)
        /\ f.via \in Hosts => f.viaRev <= rev[f.via]
    BY <2>1 DEF PoolInv, PooledFit
  <2> QED BY <1>1, <1>7, <2>1, <2>2, HostsSame
<1>9. OpenFit'
  <2> SUFFICES ASSUME NEW x \in open \ {c}
               PROVE  keepalive'[x] # "none" /\ conn'[x].host \in Hosts /\ client'[conn'[x].host] = x
    BY <1>1 DEF OpenFit
  <2>1. keepalive[x] # "none" /\ conn[x].host \in Hosts /\ client[conn[x].host] = x
    BY DEF PoolInv, OpenFit
  <2>2. x \in Conns \ {c}
    BY <1>1 DEF PoolTypeOK
  <2> QED BY <1>2, <1>3, <2>1, <2>2
<1>10. CurrentTunnels'
  <2> SUFFICES ASSUME NEW x \in present, client'[x] # None, NEW f, f = conn'[client'[x]],
                      f.via \in present, f.rev >= base[x],
                      f.viaRev \in base[f.via] .. (rev[f.via] - 1)
               PROVE  Pending(x)' \/ Updating(f.via)' \/ f.via \in missed'
    BY <1>1 DEF CurrentTunnels, PoolTypeOK, RegTypeOK
  <2>1. x \in Hosts /\ f.via \in Hosts
    BY <1>1 DEF PoolTypeOK, RegTypeOK
  <2>2. f = conn[client[x]] /\ client[x] # None
    BY <1>7, <2>1
  <2>3. Pending(x) \/ Updating(f.via) \/ f.via \in missed
    BY <2>1, <2>2 DEF PoolInv, CurrentTunnels
  <2> QED BY <1>1, <2>1, <2>3, HostsSame
<1> QED BY <1>1, <1>4, <1>5, <1>6, <1>8, <1>9, <1>10, HostsSame DEF PoolInv

-----------------------------------------------------------------------------
(* The theorems *)

\* Nothing is pooled, locked or owed at the start.
LEMMA InitPoolInv == Init => PoolInv
<1> SUFFICES ASSUME Init PROVE PoolInv
  OBVIOUS
<1> USE PoolConstantsOK, RegistryConstantsOK
<1>1. RegTypeOK
  BY InitInv DEF Init, RegInv
<1>2. PoolTypeOK
  BY <1>1 DEF Init, PoolTypeOK, NoConn
<1>3. HoldsChain /\ Linked /\ FramesFit
  BY DEF Init, HoldsChain, Linked, FramesFit, Filled
<1>4. CurrentTunnels
  BY <1>1 DEF Init, CurrentTunnels, RegTypeOK
<1>5. AdminsFit /\ EntriesFit /\ PooledFit /\ OpenFit /\ JumpFit
  BY DEF Init, RegInit, AdminsFit, EntriesFit, PooledFit, OpenFit, JumpFit
<1> QED BY <1>2, <1>3, <1>4, <1>5 DEF PoolInv

\* Steps that change nothing.
LEMMA StutterKeeps ==
    ASSUME PoolInv, UNCHANGED vars
    PROVE  PoolInv'
<1>1. /\ UNCHANGED <<hosts, client, conns>>
      /\ UNCHANGED <<lock, client, online, conn, open, keepalive, stack, stage, jumpConn>>
  BY DEF vars, hosts, pool, entries, conns, calls
<1>2. PoolTypeOK' /\ HoldsChain' /\ EntriesFit' /\ Linked' /\ JumpFit'
  <2>1. PoolTypeOK'
    BY <1>1, HostsSame DEF PoolInv, PoolTypeOK
  <2>2. HoldsChain' /\ EntriesFit' /\ Linked'
    BY <1>1 DEF PoolInv, HoldsChain, EntriesFit, Linked
  <2>3. JumpFit'
    BY <1>1 DEF PoolInv, JumpFit, Top
  <2> QED BY <2>1, <2>2, <2>3
<1>3. FramesFit'
  BY <1>1, FramesSame DEF Filled
<1> QED BY <1>1, <1>2, <1>3, HostsSame, ConnsSame DEF PoolInv

\* Every step of requests, keepalives and administrators keeps the strengthened invariant: a row
\* that a dial has read is current, or whoever wrote it still owes the connection and waits for
\* the lock of the dial; a connection that is open is the one its host has in the pool.
THEOREM PoolInvariance == Spec => []PoolInv
<1>1. Init => PoolInv
  BY InitPoolInv
<1>2. PoolInv /\ [Next]_vars => PoolInv'
  <2> SUFFICES ASSUME PoolInv, [Next]_vars PROVE PoolInv'
    OBVIOUS
  <2>1. CASE \E a \in Admins : HostStep(a) \/ \E h \in Hosts : Drop(a, h)
    BY <2>1, HostStepKeeps, DropKeeps
  <2>2. CASE \E g \in Getters : GetStep(g) \/ \E h \in Hosts : Get(g, h)
    BY <2>2, GetKeeps, LockKeeps, HitKeeps, ReadRowKeeps, NoRowKeeps, EnterJumpKeeps, FailKeeps,
       ConnectKeeps DEF GetStep
  <2>3. CASE \E c \in Conns : ConnStep(c)
    BY <2>3, KeepaliveFailsKeeps, KeepaliveDropsKeeps DEF ConnStep
  <2>4. CASE \E h \in Hosts : NoSftp(h)
    BY <2>4, NoSftpKeeps
  <2>5. CASE UNCHANGED vars
    BY <2>5, StutterKeeps
  <2> QED BY <2>1, <2>2, <2>3, <2>4, <2>5 DEF Next
<1> QED BY <1>1, <1>2, PTL DEF Spec

\* The state of the pool and of the hosts table is well typed.
THEOREM PoolTyped == Spec => []PoolTypeOK
<1>1. PoolInv => PoolTypeOK
  BY DEF PoolInv
<1> QED BY <1>1, PoolInvariance, PTL

\* A request that needs a connection holds the locks of its chain of jump hosts, a name once,
\* and no others, whichever way its calls end (get's deferred Unlock).
THEOREM ChainsHeld == Spec => []HoldsChain
<1>1. PoolInv => HoldsChain
  BY DEF PoolInv
<1> QED BY <1>1, PoolInvariance, PTL

\* No connection goes on with nobody to close it, whatever the order in which keepalives,
\* invalidations and dials of its successors touch the entry.
THEOREM NothingOrphaned == Spec => []NoOrphans
<1>1. PoolInv => NoOrphans
  BY DEF PoolInv, OpenFit, NoOrphans
<1> QED BY <1>1, PoolInvariance, PTL

\* After the answer to an update of a host, no connection dialled from its old row is pooled.
THEOREM RowsCurrent == Spec => []CurrentRows
<1>1. PoolInv => CurrentRows
  <2> SUFFICES ASSUME PoolInv, NEW h \in present, client[h] # None, NEW f, f = conn[client[h]],
                      f.rev \in base[h] .. (rev[h] - 1)
               PROVE  Pending(h)
    BY DEF CurrentRows, PoolInv, PoolTypeOK, RegTypeOK
  <2>1. h \in Hosts
    BY DEF PoolInv, PoolTypeOK, RegTypeOK
  <2>2. FromRow(h, f.rev, f.via)
    BY <2>1 DEF PoolInv, PooledFit
  <2> QED BY <2>2 DEF FromRow, DropOwed, Pending
<1> QED BY <1>1, PoolInvariance, PTL

\* Nor one that leads through a connection to a jump host from before its update, unless the
\* hosts that connect through it could not be listed.
THEOREM TunnelsCurrent == Spec => []CurrentTunnels
<1>1. PoolInv => CurrentTunnels
  BY DEF PoolInv
<1> QED BY <1>1, PoolInvariance, PTL

=============================================================================
