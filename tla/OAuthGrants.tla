----------------------------- MODULE OAuthGrants -----------------------------
(***************************************************************************)
(* OAuth grants in the store: authorisation codes, the access and refresh  *)
(* tokens a code is exchanged for and rotated into, the administrator's    *)
(* edits and deletions, and the deletion and creation of hosts underneath. *)
(* Every store call is one immediate transaction, hence one action; what   *)
(* interleaves are the requests: clients repeat codes and refresh tokens   *)
(* of any age, and the console checks the hosts it was given one by one    *)
(* before it writes.                                                       *)
(*                                                                         *)
(* An access token and the refresh token that come out of one exchange or  *)
(* rotation are written together: one element of Pairs.  The grant id      *)
(* minted by an exchange is named after the first pair of the grant.       *)
(*                                                                         *)
(* A host id is reused by SQLite once its row is gone.  A right to a host  *)
(* is the id and the number of the host that bore it when the right was    *)
(* given; the code only ever sees the id.  Everything stands for all_hosts *)
(* (manage_hosts and disabled_tools are copied along the same way).        *)
(***************************************************************************)
EXTENDS Naturals, FiniteSets

CONSTANTS
    Codes,       \* authorisation codes
    Pairs,       \* access token and refresh token of one exchange or rotation
    Admins,      \* requests of the administrator's console
    MaxHosts,    \* bound: host ids
    MaxTenants,  \* bound: hosts that bear the same id, one after the other
    Everything,  \* the all_hosts flag
    None         \* no grant

HostIds == 1..MaxHosts
Refs    == HostIds \X (1..MaxTenants)
Rights  == SUBSET (Refs \cup {Everything})

ASSUME GrantConstantsOK ==
    /\ MaxHosts \in Nat
    /\ MaxTenants \in Nat
    /\ None \notin Pairs
    /\ Everything \notin Refs
    /\ Codes \cap Pairs = {}

VARIABLES
    code,           \* rows of oauth_authorization_codes
    grantOf,        \* grant_id of a code that has been used
    asked,          \* host_ids_json and all_hosts of a code
    access,         \* rows of tokens; "expired" when expires_at has passed
    tokenRights,    \* all_hosts and the rows of token_hosts of an access token
    refresh,        \* rows of oauth_refresh_tokens: used_at
    revoked,        \* and revoked_at
    grant,          \* and grant_id
    refreshRights,  \* and host_ids_json, all_hosts
    outdated,       \* codes and refresh tokens whose expires_at has passed
    present,        \* host ids with a row in hosts
    tenant,         \* how many hosts have borne an id so far
    picked          \* hosts a console request has validated so far

secrets == <<code, grantOf, asked>>
tokens  == <<access, tokenRights, refresh, revoked, grant, refreshRights>>
hosts   == <<present, tenant>>
vars    == <<secrets, tokens, outdated, hosts, picked>>

Init ==
    /\ code = [c \in Codes |-> "none"]
    /\ grantOf = [c \in Codes |-> None]
    /\ asked = [c \in Codes |-> {}]
    /\ access = [p \in Pairs |-> "none"]
    /\ tokenRights = [p \in Pairs |-> {}]
    /\ refresh = [p \in Pairs |-> "none"]
    /\ revoked = {}
    /\ grant = [p \in Pairs |-> p]
    /\ refreshRights = [p \in Pairs |-> {}]
    /\ outdated = {}
    /\ present = {}
    /\ tenant = [h \in HostIds |-> 0]
    /\ picked = [a \in Admins |-> {}]

-----------------------------------------------------------------------------
Ref(h)         == <<h, tenant[h]>>
Named(h, rs)   == \E r \in rs \cap Refs : r[1] = h
Without(h, rs) == {r \in rs : r \in Refs => r[1] # h}
Unspent(p)     == refresh[p] = "fresh" /\ p \notin revoked

\* Mutated Members: used refresh tokens, and their access tokens, are spared.
UnusedMembers(g) == {p \in Pairs : refresh[p] = "fresh" /\ grant[p] = g}

\* The rows revokeOAuthGrantTx finds for a grant id.
Members(g) == {p \in Pairs : refresh[p] # "none" /\ grant[p] = g}

\* Mutated Redeemable: a used token is rotated again.
RedeemableTwice(p) == refresh[p] # "none" /\ p \notin revoked /\ p \notin outdated

\* The refresh token p would be rotated: not used, not revoked, not expired.
Redeemable(p) == Unspent(p) /\ p \notin outdated

\* A refresh token that is refused because it has been used.
Replayable(p) == refresh[p] = "used" /\ p \notin revoked /\ p \notin outdated

\* Mutated Condemned: only the refresh tokens that name the host are revoked.
CondemnedDirectly(h) == {p \in Pairs : refresh[p] # "none" /\ Named(h, refreshRights[p])}

\* Mutated Condemned: the host leaves the lists, the grants go on.
CondemnedNone(h) == {}

\* Members of the grants of which a restricted refresh token names the host.
Condemned(h) ==
    {p \in Pairs :
        /\ refresh[p] # "none"
        /\ \E q \in Members(grant[p]) : Everything \notin refreshRights[q] /\ Named(h, refreshRights[q])}

\* revokeOAuthGrantTx and the same two statements of DeleteHost.
Revoke(ps) ==
    /\ access' = [p \in Pairs |-> IF p \in ps /\ access[p] = "live" THEN "expired" ELSE access[p]]
    /\ revoked' = revoked \cup ps

\* createTokenTx and insertOAuthRefreshTokenTx.
Issue(p, g, rs) ==
    /\ access' = [access EXCEPT ![p] = "live"]
    /\ tokenRights' = [tokenRights EXCEPT ![p] = rs]
    /\ grant' = [grant EXCEPT ![p] = g]
    /\ refreshRights' = [refreshRights EXCEPT ![p] = rs]

-----------------------------------------------------------------------------
(* The console *)

\* ValidateHostIDs looks each host up once; all_hosts needs no look-up.
Pick(a, r) ==
    /\ r = Everything \/ \E h \in present : r = Ref(h) /\ ~Named(h, picked[a])
    /\ picked' = [picked EXCEPT ![a] = @ \cup {r}]
    /\ UNCHANGED <<secrets, tokens, outdated, hosts>>

\* all_hosts drops the list.
Granted(a) == IF Everything \in picked[a] THEN {Everything} ELSE picked[a]

Drop(a) == picked' = [picked EXCEPT ![a] = {}]

\* AuthorizationDecision "approve"; with manage_hosts the list may be empty.
Approve(a, c) ==
    /\ code[c] = "none"
    /\ code' = [code EXCEPT ![c] = "issued"]
    /\ asked' = [asked EXCEPT ![c] = Granted(a)]
    /\ Drop(a)
    /\ UNCHANGED <<grantOf, tokens, outdated, hosts>>

\* Mutated Synced: the refresh token keeps its old rights.
NotSynced(p) == FALSE

\* The WHERE clause with which UpdateToken takes the refresh token along.
Synced(p) == Unspent(p)

\* UpdateToken replaces the rights of a token, of any age, and those of its
\* refresh token if that has not been used or revoked.
UpdateToken(a, p) ==
    /\ access[p] \in {"live", "expired"}
    /\ tokenRights' = [tokenRights EXCEPT ![p] = Granted(a)]
    /\ refreshRights' = [refreshRights EXCEPT ![p] = IF Synced(p) THEN Granted(a) ELSE @]
    /\ Drop(a)
    /\ UNCHANGED <<secrets, access, refresh, revoked, grant, outdated, hosts>>

\* DeleteToken revokes the token's grant and removes the row.
DeleteToken(p) ==
    /\ access[p] \in {"live", "expired"}
    /\ LET ps == Members(grant[p]) IN
       /\ access' = [q \in Pairs |-> IF q = p THEN "deleted"
                                     ELSE IF q \in ps /\ access[q] = "live" THEN "expired" ELSE access[q]]
       /\ revoked' = revoked \cup ps
    /\ tokenRights' = [tokenRights EXCEPT ![p] = {}]
    /\ UNCHANGED <<secrets, refresh, grant, refreshRights, outdated, hosts, picked>>

\* The id SQLite gives a new row: one more than the largest in the table.
NextId(h) == h \notin present /\ \A i \in present : i < h /\ (h = 1 \/ h - 1 \in present)

CreateHost(h) ==
    /\ NextId(h)
    /\ tenant[h] < MaxTenants
    /\ present' = present \cup {h}
    /\ tenant' = [tenant EXCEPT ![h] = @ + 1]
    /\ UNCHANGED <<secrets, tokens, outdated, picked>>

\* DeleteHost of a host without running jobs that is nobody's jump host: revokes
\* the grants that name it and drops it from every list of an access token;
\* host_ids_json, of codes too, keeps its id.
DeleteHost(h) ==
    /\ h \in present
    /\ Revoke(Condemned(h))
    /\ tokenRights' = [p \in Pairs |-> Without(h, tokenRights[p])]
    /\ present' = present \ {h}
    /\ UNCHANGED <<secrets, refresh, grant, refreshRights, outdated, tenant, picked>>

-----------------------------------------------------------------------------
(* The token endpoint *)

\* ExchangeOAuthAuthorizationCode, first use.  An answer that gets lost leaves
\* everything written.
Exchange(c, p) ==
    /\ code[c] = "issued"
    /\ c \notin outdated
    /\ refresh[p] = "none"
    /\ Issue(p, p, asked[c])
    /\ refresh' = [refresh EXCEPT ![p] = "fresh"]
    /\ code' = [code EXCEPT ![c] = "used"]
    /\ grantOf' = [grantOf EXCEPT ![c] = p]
    /\ UNCHANGED <<asked, revoked, outdated, hosts, picked>>

\* The same code again: the grant of the first use is revoked.
ReplayCode(c) ==
    /\ code[c] = "used"
    /\ c \notin outdated
    /\ Revoke(Members(grantOf[c]))
    /\ UNCHANGED <<secrets, tokenRights, refresh, grant, refreshRights, outdated, hosts, picked>>

\* RotateOAuthRefreshToken: the old access token stays in force until it expires.
Rotate(p, q) ==
    /\ Redeemable(p)
    /\ refresh[q] = "none"
    /\ Issue(q, grant[p], refreshRights[p])
    /\ refresh' = [refresh EXCEPT ![p] = "used", ![q] = "fresh"]
    /\ UNCHANGED <<secrets, revoked, outdated, hosts, picked>>

\* A rotated token again: the whole grant is revoked.
ReplayRefresh(p) ==
    /\ Replayable(p)
    /\ Revoke(Members(grant[p]))
    /\ UNCHANGED <<secrets, tokenRights, refresh, grant, refreshRights, outdated, hosts, picked>>

-----------------------------------------------------------------------------
(* Time: a code lives five minutes, an access token an hour, a refresh token *)
(* thirty days, each from when it was written.                               *)

OutdateCode(c) ==
    /\ code[c] # "none"
    /\ outdated' = outdated \cup {c}
    /\ UNCHANGED <<secrets, tokens, hosts, picked>>

ExpireAccess(p) ==
    /\ access[p] = "live"
    /\ \A c \in Codes : grantOf[c] = grant[p] => c \in outdated
    /\ access' = [access EXCEPT ![p] = "expired"]
    /\ UNCHANGED <<secrets, tokenRights, refresh, revoked, grant, refreshRights, outdated, hosts, picked>>

OutdateRefresh(p) ==
    /\ refresh[p] # "none"
    /\ access[p] # "live"
    /\ outdated' = outdated \cup {p}
    /\ UNCHANGED <<secrets, tokens, hosts, picked>>

-----------------------------------------------------------------------------
ConsoleStep ==
    \/ \E a \in Admins :
          \/ \E r \in Refs \cup {Everything} : Pick(a, r)
          \/ \E c \in Codes : Approve(a, c)
          \/ \E p \in Pairs : UpdateToken(a, p)
    \/ \E p \in Pairs : DeleteToken(p)
    \/ \E h \in HostIds : CreateHost(h) \/ DeleteHost(h)

ClientStep ==
    \/ \E c \in Codes : ReplayCode(c) \/ \E p \in Pairs : Exchange(c, p)
    \/ \E p \in Pairs : ReplayRefresh(p) \/ \E q \in Pairs : Rotate(p, q)

TimeStep ==
    \/ \E c \in Codes : OutdateCode(c)
    \/ \E p \in Pairs : ExpireAccess(p) \/ OutdateRefresh(p)

Next == ConsoleStep \/ ClientStep \/ TimeStep

Spec == Init /\ [][Next]_vars

-----------------------------------------------------------------------------
(* Properties *)

TypeOK ==
    /\ code \in [Codes -> {"none", "issued", "used"}]
    /\ grantOf \in [Codes -> Pairs \cup {None}]
    /\ asked \in [Codes -> Rights]
    /\ access \in [Pairs -> {"none", "live", "expired", "deleted"}]
    /\ tokenRights \in [Pairs -> Rights]
    /\ refresh \in [Pairs -> {"none", "fresh", "used"}]
    /\ revoked \subseteq Pairs
    /\ grant \in [Pairs -> Pairs]
    /\ refreshRights \in [Pairs -> Rights]
    /\ outdated \subseteq Codes \cup Pairs
    /\ present \subseteq HostIds
    /\ tenant \in [HostIds -> 0..MaxTenants]
    /\ \A h \in present : tenant[h] > 0
    /\ picked \in [Admins -> Rights]

\* A grant lives or dies as a whole (README: a replayed refresh token revokes all
\* access and refresh tokens of its family): when one of its refresh tokens is
\* revoked all are, those of rotations yet to come included, and no access token
\* of it is in force.
WholeGrants ==
    \A p \in revoked : \A q \in Members(grant[p]) : q \in revoked /\ access[q] # "live"

\* However often codes and refresh tokens are presented and answers get lost, a
\* grant has at most one refresh token that can still be redeemed.
OneHeir ==
    \A p, q \in Pairs : Unspent(p) /\ Unspent(q) /\ grant[p] = grant[q] => p = q

\* README (PUT /api/v1/tokens): an edit of the current access token reaches the
\* tokens of later rotations.  What a rotation hands out is what the console shows
\* for the access token it replaces.
InheritsShown ==
    \A p, q \in Pairs :
        Unspent(p) /\ access[p] # "deleted" /\ refresh'[p] = "used" /\ refresh[q] = "none" /\ refresh'[q] = "fresh"
            => tokenRights'[q] = tokenRights[p]

Inheritance == [][InheritsShown]_vars

EndsWithHost ==
    \A h \in present \ present' : \A p \in Pairs :
        /\ access'[p] = "live" => ~Named(h, tokenRights'[p])
        /\ Redeemable(p)' => ~Named(h, refreshRights'[p])

\* When a host is deleted nothing in force names its id any more (the test of
\* DeleteHost), neither directly nor through a later rotation of a grant whose
\* rights were edited in between.
HostDeletionEnds == [][EndsWithHost]_vars

\* The five tables seen as the families of TokenFamily.
Issued == {c \in Codes : code[c] # "none"} \cup {p \in Pairs : refresh[p] # "none"}
Spent  == {c \in Codes : code[c] = "used"} \cup {p \in Pairs : refresh[p] = "used"}
Closed == {grant[p] : p \in revoked}
Keys   == {p \in Pairs : access[p] = "live"}

Family == INSTANCE TokenFamily WITH
    Tokens <- Pairs, issued <- Issued, spent <- Spent, family <- grant, closed <- Closed, keys <- Keys

\* Codes and refresh tokens are redeemed once, into one successor of the same
\* family, and a revoked family never has a token in force again, whatever is
\* replayed, edited, deleted or expires in between (README: codes are used once).
KeepsFamilies == Family!Spec

\* The test of DeleteHost: the authorisation of an old token does not attach to a
\* new host that is given the id of a deleted one.
NoInheritedHost ==
    \A p \in Pairs : access[p] = "live" =>
        \A r \in tokenRights[p] \cap Refs : r[1] \in present => r = Ref(r[1])

-----------------------------------------------------------------------------
(* The inductive invariant behind the safety properties *)

\* Rows come in pairs, every grant has its first pair, and a deleted access
\* token has taken its grant with it.
Registered ==
    /\ \A p \in Pairs :
          /\ refresh[p] = "none" <=> access[p] = "none"
          /\ refresh[p] = "none" => p \notin revoked /\ grant[p] = p
          /\ refresh[p] # "none" => refresh[grant[p]] # "none"
          /\ access[p] = "deleted" => p \in revoked
    /\ \A c \in Codes : code[c] = "used" =>
          /\ grantOf[c] \in Pairs
          /\ refresh[grantOf[c]] # "none"
          /\ grant[grantOf[c]] = grantOf[c]

\* all_hosts and a list of hosts exclude each other.
AllOrListed(rs) == Everything \in rs => rs = {Everything}

ProperRights ==
    /\ \A c \in Codes : AllOrListed(asked[c])
    /\ \A p \in Pairs : AllOrListed(tokenRights[p]) /\ AllOrListed(refreshRights[p])

\* A refresh token that may still be rotated carries what its access token shows.
InStep == \A p \in Pairs : Unspent(p) => refreshRights[p] = tokenRights[p]

IInv ==
    /\ TypeOK
    /\ Registered
    /\ ProperRights
    /\ InStep
    /\ WholeGrants
    /\ OneHeir
=============================================================================
