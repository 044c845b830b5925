-------------------------------- MODULE SSHPool --------------------------------
(***************************************************************************)
(* The connection pool, beside the host requests that make it drop         *)
(* connections.  An entry is locked for as long as its connection is being *)
(* dialled, the connection of its jump host included: a request holds the  *)
(* locks of a whole chain.  A keepalive goroutine per connection, an SFTP  *)
(* session that cannot be opened and the host requests take one lock at a  *)
(* time and release it at once.                                            *)
(*                                                                         *)
(* Pool.mu is held for one map look-up and Close runs only at a normal end *)
(* of main, which the server does not have: both are left out.  Requests   *)
(* and administrators share nothing else.                                  *)
(***************************************************************************)
EXTENDS HostRegistry, SequencesExt

CONSTANTS
    Getters,  \* requests that need a connection
    Conns     \* bound: connections that exist at once

ASSUME PoolConstantsOK == None \notin Getters \cup Conns

VARIABLES
    lock,       \* entry.mu: the request that holds it
    client,     \* entry.client
    online,     \* entry.online
    conn,       \* each connection: its host, the row and jump connection it was dialled with
    open,       \* connections on which Close has not been called
    keepalive,  \* goroutine of each connection; "failed" when it has had no answer
    base,       \* revision with which the present host of a name was created
    missed,     \* history: updated hosts whose dependents could not be listed
    stack,      \* calls of get in progress: name, and the row read from the table
    stage,      \* where the innermost call is
    jumpConn    \* connection of the jump host, returned to the call that dials

entries == <<lock, client, online>>
conns   == <<conn, open, keepalive>>
calls   == <<stack, stage, jumpConn>>
pool    == <<entries, conns, calls>>
vars    == <<regVars, base, missed, pool>>
hosts   == <<regVars, base, missed>>

NoConn == [host |-> None, rev |-> 0, via |-> None, viaRev |-> 0]

Init ==
    /\ RegInit
    /\ base = [h \in Hosts |-> 0]
    /\ missed = {}
    /\ lock = [h \in Hosts |-> None]
    /\ client = [h \in Hosts |-> None]
    /\ online = {}
    /\ conn = [c \in Conns |-> NoConn]
    /\ open = {}
    /\ keepalive = [c \in Conns |-> "none"]
    /\ stack = [g \in Getters |-> <<>>]
    /\ stage = [g \in Getters |-> "idle"]
    /\ jumpConn = [g \in Getters |-> None]

-----------------------------------------------------------------------------
(* Pool.get and Pool.dial *)

Frame(h) == [host |-> h, rev |-> 0, jump |-> None]
Top(g)   == Last(stack[g])
Names(s) == {s[i].host : i \in DOMAIN s}
Stage(g, s) == stage' = [stage EXCEPT ![g] = s]

Get(g, h) ==
    /\ stage[g] = "idle"
    /\ stack' = [stack EXCEPT ![g] = <<Frame(h)>>]
    /\ Stage(g, "lock")
    /\ UNCHANGED <<hosts, entries, conns, jumpConn>>

\* Mutated Leave: a failed call returns without unlocking.
LeaveLocked(g, s, c) ==
    /\ lock' = [lock EXCEPT ![Top(g).host] = IF s = "failed" THEN @ ELSE None]
    /\ stack' = [stack EXCEPT ![g] = Front(@)]
    /\ jumpConn' = [jumpConn EXCEPT ![g] = IF Len(stack[g]) > 1 THEN c ELSE None]
    /\ Stage(g, IF Len(stack[g]) > 1 THEN s ELSE "idle")

\* The innermost call unlocks and returns to the one that dials through it.
Leave(g, s, c) ==
    /\ lock' = [lock EXCEPT ![Top(g).host] = None]
    /\ stack' = [stack EXCEPT ![g] = Front(@)]
    /\ jumpConn' = [jumpConn EXCEPT ![g] = IF Len(stack[g]) > 1 THEN c ELSE None]
    /\ Stage(g, IF Len(stack[g]) > 1 THEN s ELSE "idle")

\* Pooled and not known to have failed; nobody asks whether it still works.
Usable(h) == client[h] # None /\ h \in online

\* The pooled connection is handed out.  Nobody touches an entry that is locked, so
\* taking the lock, looking and unlocking are one step.
Hit(g) ==
    /\ stage[g] = "lock"
    /\ lock[Top(g).host] = None
    /\ Usable(Top(g).host)
    /\ Leave(g, "tunnel", client[Top(g).host])
    /\ UNCHANGED <<hosts, client, online, conns>>

\* There is none: the lock is kept until one is dialled.
Lock(g) ==
    /\ stage[g] = "lock"
    /\ lock[Top(g).host] = None
    /\ ~Usable(Top(g).host)
    /\ lock' = [lock EXCEPT ![Top(g).host] = g]
    /\ Stage(g, "look")
    /\ UNCHANGED <<hosts, client, online, conns, stack, jumpConn>>

\* GetHostByName
ReadRow(g) ==
    LET h == Top(g).host IN
    /\ stage[g] = "look"
    /\ h \in present
    /\ stack' = [stack EXCEPT ![g][Len(stack[g])] = [host |-> h, rev |-> rev[h], jump |-> jump[h]]]
    /\ Stage(g, "dial")
    /\ UNCHANGED <<hosts, entries, conns, jumpConn>>

\* No such host, or the request has been cancelled.
NoRow(g) ==
    /\ stage[g] = "look"
    /\ Leave(g, "failed", None)
    /\ UNCHANGED <<hosts, client, online, conns>>

\* get refuses a name it is already connecting, and too long a way.
Refused(g) == Top(g).jump \in Names(stack[g]) \/ Len(stack[g]) > MaxChain

\* The jump host is looked up and needs a connection first.
EnterJump(g) ==
    /\ stage[g] = "dial"
    /\ Top(g).jump \in present
    /\ ~Refused(g)
    /\ stack' = [stack EXCEPT ![g] = Append(@, Frame(Top(g).jump))]
    /\ Stage(g, "lock")
    /\ UNCHANGED <<hosts, entries, conns, jumpConn>>

\* The way to the server is open: directly, or through a connection that works.
Reachable(g) ==
    \/ stage[g] = "dial" /\ Top(g).jump = None
    \/ stage[g] = "tunnel" /\ jumpConn[g] \in open /\ keepalive[jumpConn[g]] = "watching"

Fresh(c) ==
    /\ keepalive[c] = "none"
    /\ \A h \in Hosts : client[h] # c
    /\ \A g \in Getters : jumpConn[g] # c

\* The handshake succeeds: the connection is pooled, its keepalive started.
Connect(g, c) ==
    LET h == Top(g).host IN
    /\ Reachable(g)
    /\ Fresh(c)
    /\ conn' = [conn EXCEPT ![c] =
          [host |-> h, rev |-> Top(g).rev, via |-> Top(g).jump,
           viaRev |-> IF jumpConn[g] = None THEN 0 ELSE conn[jumpConn[g]].rev]]
    /\ open' = open \cup {c}
    /\ keepalive' = [keepalive EXCEPT ![c] = "watching"]
    /\ client' = [client EXCEPT ![h] = c]
    /\ online' = online \cup {h}
    /\ Leave(g, "tunnel", c)
    /\ UNCHANGED hosts

\* No credentials, jump host missing or refused or not connected, no route, time-out,
\* cancellation, another key: what was opened is closed, the entry is marked and
\* unlocked, the caller fails in its turn.
Fail(g) ==
    /\ stage[g] \in {"dial", "tunnel", "failed"}
    /\ online' = online \ {Top(g).host}
    /\ Leave(g, "failed", None)
    /\ UNCHANGED <<hosts, client, conns>>

-----------------------------------------------------------------------------
(* Keepalive, Invalidate *)

\* The transport fails or has been closed, and SendRequest has no answer.
KeepaliveFails(c) ==
    /\ keepalive[c] = "watching"
    /\ keepalive' = [keepalive EXCEPT ![c] = "failed"]
    /\ UNCHANGED <<hosts, entries, conn, open, calls>>

\* Mutated Own: a failed keepalive clears the entry whatever is in it.
Anything(h, c) == TRUE

\* The entry still has the connection whose keepalive failed.
Own(h, c) == client[h] = c

KeepaliveDrops(c) ==
    LET h == conn[c].host IN
    /\ keepalive[c] = "failed"
    /\ lock[h] = None
    /\ IF Own(h, c)
       THEN /\ client' = [client EXCEPT ![h] = None]
            /\ online' = online \ {h}
       ELSE UNCHANGED <<client, online>>
    /\ open' = open \ {c}
    /\ keepalive' = [keepalive EXCEPT ![c] = "none"]
    /\ conn' = [conn EXCEPT ![c] = NoConn]
    /\ UNCHANGED <<hosts, lock, calls>>

Invalidate(h) ==
    /\ lock[h] = None
    /\ open' = open \ {client[h]}
    /\ client' = [client EXCEPT ![h] = None]
    /\ online' = online \ {h}
    /\ UNCHANGED <<lock, conn, keepalive, calls>>

\* ClientPool.Get: no SFTP session on the connection.
NoSftp(h) ==
    /\ client[h] # None
    /\ Invalidate(h)
    /\ UNCHANGED hosts

\* A host request drops one of the names it owes.
Drop(a, h) == DroppedStep(a, h) /\ Invalidate(h) /\ UNCHANGED <<base, missed>>

-----------------------------------------------------------------------------
ListingFails(a) == step[a] = "list" /\ step'[a] = "idle" /\ Affected(req[a].host) # {}

\* A host request reads or writes the table.
HostStep(a) ==
    /\ HostRequest(a)
    /\ base' = [h \in Hosts |-> IF h \in present' \ present THEN rev'[h] ELSE base[h]]
    /\ missed' = IF ListingFails(a) THEN missed \cup {req[a].host} ELSE missed
    /\ UNCHANGED pool

GetStep(g) ==
    \/ Lock(g) \/ Hit(g) \/ ReadRow(g) \/ NoRow(g) \/ EnterJump(g) \/ Fail(g)
    \/ \E c \in Conns : Connect(g, c)

ConnStep(c) == KeepaliveFails(c) \/ KeepaliveDrops(c)

Next ==
    \/ \E a \in Admins : HostStep(a) \/ \E h \in Hosts : Drop(a, h)
    \/ \E g \in Getters : GetStep(g) \/ \E h \in Hosts : Get(g, h)
    \/ \E c \in Conns : ConnStep(c)
    \/ \E h \in Hosts : NoSftp(h)

Spec == Init /\ [][Next]_vars

-----------------------------------------------------------------------------
(* Properties *)

PoolTypeOK ==
    /\ RegTypeOK
    /\ base \in [Hosts -> Nat]
    /\ missed \subseteq Hosts
    /\ lock \in [Hosts -> Getters \cup {None}]
    /\ client \in [Hosts -> Conns \cup {None}]
    /\ online \subseteq Hosts
    /\ conn \in [Conns -> [host : Hosts \cup {None}, rev : Nat,
                            via : Hosts \cup {None}, viaRev : Nat]]
    /\ open \subseteq Conns
    /\ keepalive \in [Conns -> {"none", "watching", "failed"}]
    /\ stack \in [Getters -> Seq([host : Hosts, rev : Nat, jump : Hosts \cup {None}])]
    /\ stage \in [Getters -> {"idle", "lock", "look", "dial", "tunnel", "failed"}]
    /\ jumpConn \in [Getters -> Conns \cup {None}]

\* A request holds the locks of its calls, a name once, and no others.
HoldsChain ==
    \A g \in Getters :
        /\ stage[g] = "idle" <=> stack[g] = <<>>
        /\ \A i, j \in DOMAIN stack[g] : stack[g][i].host = stack[g][j].host => i = j
        /\ \A h \in Hosts : lock[h] = g <=>
              \E i \in DOMAIN stack[g] : stack[g][i].host = h /\ (i = Len(stack[g]) => stage[g] # "lock")

\* Every connection is closed or pooled, however keepalives, invalidations and
\* dials of its successors interleave: none goes on with nobody to close it.
NoOrphans == \A c \in open : client[conn[c].host] = c

Pending(h) == \E a \in Admins : h \in owed[a]

Updating(h) == \E a \in Admins : req[a].host = h /\ step[a] \in {"drop", "list"}

\* Once an update of a host has been answered nobody is given a connection that was
\* dialled from the row as it was before (Update drops the entry after the write).
CurrentRows ==
    \A h \in present \ {x \in Hosts : client[x] = None} :
        conn[client[h]].rev \in base[h]..(rev[h] - 1) => Pending(h)

\* Nor one that leads through a connection to a jump host as it was before its update.
CurrentTunnels ==
    \A h \in present \ {x \in Hosts : client[x] = None} :
        LET c == conn[client[h]] IN
        c.via \in present /\ c.rev >= base[h] /\ c.viaRev \in base[c.via]..(rev[c.via] - 1)
            => Pending(h) \/ Updating(c.via) \/ c.via \in missed

\* README: jump hosts must not form a cycle; a Get that is cancelled returns (test of
\* the handshake through a jump host).  No requests wait for each other in a ring.
NoWaitCycle ==
    \A G \in SUBSET Getters : G # {} =>
        \E g \in G : ~(stage[g] = "lock" /\ lock[Top(g).host] \in G)
=============================================================================
