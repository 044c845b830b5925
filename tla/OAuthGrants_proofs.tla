-------------------------- MODULE OAuthGrants_proofs --------------------------
(***************************************************************************)
(* Proofs about OAuthGrants for any number of codes, tokens, hosts and     *)
(* console requests: the inductive invariant, the two action properties    *)
(* and the refinement of TokenFamily.                                      *)
(***************************************************************************)
EXTENDS OAuthGrants, TLAPS

USE GrantConstantsOK

\* A reference to a host that is there is well formed.
LEMMA RefType ==
    ASSUME TypeOK, NEW h \in present
    PROVE  Ref(h) \in Refs /\ Ref(h)[1] = h
BY DEF TypeOK, Ref, Refs, HostIds

\* What the console has validated is a set of rights, and so is what it grants.
LEMMA GrantedType ==
    ASSUME TypeOK, NEW a \in Admins
    PROVE  Granted(a) \in Rights /\ AllOrListed(Granted(a))
BY DEF TypeOK, Granted, Rights, AllOrListed

-----------------------------------------------------------------------------
(* Initial states and type correctness *)

\* The tables start empty.
LEMMA InitInv == Init => IInv
<1> SUFFICES ASSUME Init PROVE IInv
  OBVIOUS
<1>1. TypeOK
  BY DEF Init, TypeOK, Rights, HostIds
<1>2. Registered /\ ProperRights
  BY DEF Init, Registered, ProperRights, AllOrListed
<1>3. InStep /\ WholeGrants /\ OneHeir
  BY DEF Init, InStep, WholeGrants, OneHeir, Unspent
<1> QED BY <1>1, <1>2, <1>3 DEF IInv

\* Steps of the console keep the tables well typed.
LEMMA TypeConsole ==
    ASSUME TypeOK, Registered, ConsoleStep
    PROVE  TypeOK'
<1>1. ASSUME NEW a \in Admins, NEW r \in Refs \cup {Everything}, Pick(a, r) PROVE TypeOK'
  BY <1>1 DEF TypeOK, Pick, secrets, tokens, hosts, Rights
<1>2. ASSUME NEW a \in Admins, NEW c \in Codes, Approve(a, c) PROVE TypeOK'
  BY <1>2, GrantedType DEF TypeOK, Approve, Drop, tokens, hosts, Rights
<1>3. ASSUME NEW a \in Admins, NEW p \in Pairs, UpdateToken(a, p) PROVE TypeOK'
  BY <1>3, GrantedType DEF TypeOK, UpdateToken, Drop, secrets, hosts, Rights
<1>4. ASSUME NEW p \in Pairs, DeleteToken(p) PROVE TypeOK'
  BY <1>4 DEF TypeOK, DeleteToken, Members, secrets, hosts, Rights
<1>5. ASSUME NEW h \in HostIds, CreateHost(h) PROVE TypeOK'
  BY <1>5 DEF TypeOK, CreateHost, secrets, tokens, HostIds
<1>6. ASSUME NEW h \in HostIds, DeleteHost(h) PROVE TypeOK'
  BY <1>6 DEF TypeOK, DeleteHost, Revoke, Condemned, Without, secrets, Rights
<1> QED BY <1>1, <1>2, <1>3, <1>4, <1>5, <1>6 DEF ConsoleStep

\* Steps of the clients and of time keep the tables well typed.
LEMMA TypeClient ==
    ASSUME TypeOK, Registered, ClientStep \/ TimeStep
    PROVE  TypeOK'
<1>1. ASSUME NEW c \in Codes, ReplayCode(c) PROVE TypeOK'
  BY <1>1 DEF TypeOK, ReplayCode, Revoke, Members, secrets, hosts
<1>2. ASSUME NEW c \in Codes, NEW p \in Pairs, Exchange(c, p) PROVE TypeOK'
  BY <1>2 DEF TypeOK, Exchange, Issue, hosts
<1>3. ASSUME NEW p \in Pairs, ReplayRefresh(p) PROVE TypeOK'
  BY <1>3 DEF TypeOK, ReplayRefresh, Revoke, Members, secrets, hosts
<1>4. ASSUME NEW p \in Pairs, NEW q \in Pairs, Rotate(p, q) PROVE TypeOK'
  BY <1>4 DEF TypeOK, Rotate, Issue, secrets, hosts
<1>5. ASSUME NEW c \in Codes, OutdateCode(c) PROVE TypeOK'
  BY <1>5 DEF TypeOK, OutdateCode, secrets, tokens, hosts
<1>6. ASSUME NEW p \in Pairs, ExpireAccess(p) PROVE TypeOK'
  BY <1>6 DEF TypeOK, ExpireAccess, secrets, hosts
<1>7. ASSUME NEW p \in Pairs, OutdateRefresh(p) PROVE TypeOK'
  BY <1>7 DEF TypeOK, OutdateRefresh, secrets, tokens, hosts
<1> QED BY <1>1, <1>2, <1>3, <1>4, <1>5, <1>6, <1>7 DEF ClientStep, TimeStep

-----------------------------------------------------------------------------
(* The rest of the invariant *)

\* Every row keeps its partner and every grant its first pair.
LEMMA RegisteredStep ==
    ASSUME IInv, [Next]_vars
    PROVE  Registered'
<1> USE DEF IInv, TypeOK, Registered
<1>1. CASE ConsoleStep
  <2>1. ASSUME NEW a \in Admins, NEW r \in Refs \cup {Everything}, Pick(a, r) PROVE Registered'
    BY <2>1 DEF Pick, secrets, tokens
  <2>2. ASSUME NEW a \in Admins, NEW c \in Codes, Approve(a, c) PROVE Registered'
    BY <2>2 DEF Approve, tokens
  <2>3. ASSUME NEW a \in Admins, NEW p \in Pairs, UpdateToken(a, p) PROVE Registered'
    BY <2>3 DEF UpdateToken, secrets
  <2>4. ASSUME NEW p \in Pairs, DeleteToken(p) PROVE Registered'
    BY <2>4 DEF DeleteToken, Members, secrets
  <2>5. ASSUME NEW h \in HostIds, CreateHost(h) PROVE Registered'
    BY <2>5 DEF CreateHost, secrets, tokens
  <2>6. ASSUME NEW h \in HostIds, DeleteHost(h) PROVE Registered'
    BY <2>6 DEF DeleteHost, Revoke, Condemned, secrets
  <2> QED BY <1>1, <2>1, <2>2, <2>3, <2>4, <2>5, <2>6 DEF ConsoleStep
<1>2. CASE ClientStep
  <2>1. ASSUME NEW c \in Codes, ReplayCode(c) PROVE Registered'
    BY <2>1 DEF ReplayCode, Revoke, Members, secrets
  <2>2. ASSUME NEW c \in Codes, NEW p \in Pairs, Exchange(c, p) PROVE Registered'
    BY <2>2 DEF Exchange, Issue
  <2>3. ASSUME NEW p \in Pairs, ReplayRefresh(p) PROVE Registered'
    BY <2>3 DEF ReplayRefresh, Revoke, Members, secrets
  <2>4. ASSUME NEW p \in Pairs, NEW q \in Pairs, Rotate(p, q) PROVE Registered'
    BY <2>4 DEF Rotate, Redeemable, Unspent, Issue, secrets
  <2> QED BY <1>2, <2>1, <2>2, <2>3, <2>4 DEF ClientStep
<1>3. CASE TimeStep
  BY <1>3 DEF TimeStep, OutdateCode, ExpireAccess, OutdateRefresh, secrets, tokens
<1>4. CASE UNCHANGED vars
  BY <1>4 DEF vars, secrets, tokens
<1> QED BY <1>1, <1>2, <1>3, <1>4 DEF Next

\* Taking a host out of proper rights leaves proper rights.
LEMMA WithoutProper ==
    ASSUME NEW h, NEW rs, AllOrListed(rs)
    PROVE  AllOrListed(Without(h, rs))
BY DEF AllOrListed, Without

\* Rights are all hosts or a list, wherever they are stored.
LEMMA ProperStep ==
    ASSUME IInv, [Next]_vars
    PROVE  ProperRights'
<1> USE DEF IInv, TypeOK, ProperRights
<1>1. CASE ConsoleStep
  <2>1. ASSUME NEW a \in Admins, NEW r \in Refs \cup {Everything}, Pick(a, r) PROVE ProperRights'
    BY <2>1 DEF Pick, secrets, tokens, AllOrListed
  <2>2. ASSUME NEW a \in Admins, NEW c \in Codes, Approve(a, c) PROVE ProperRights'
    BY <2>2, GrantedType DEF Approve, tokens, AllOrListed
  <2>3. ASSUME NEW a \in Admins, NEW p \in Pairs, UpdateToken(a, p) PROVE ProperRights'
    BY <2>3, GrantedType DEF UpdateToken, secrets, AllOrListed
  <2>4. ASSUME NEW p \in Pairs, DeleteToken(p) PROVE ProperRights'
    BY <2>4 DEF DeleteToken, secrets, AllOrListed
  <2>5. ASSUME NEW h \in HostIds, CreateHost(h) PROVE ProperRights'
    BY <2>5 DEF CreateHost, secrets, tokens, AllOrListed
  <2>6. ASSUME NEW h \in HostIds, DeleteHost(h) PROVE ProperRights'
    BY <2>6, WithoutProper DEF DeleteHost, secrets, AllOrListed
  <2> QED BY <1>1, <2>1, <2>2, <2>3, <2>4, <2>5, <2>6 DEF ConsoleStep
<1>2. CASE ClientStep
  BY <1>2 DEF ClientStep, ReplayCode, Exchange, ReplayRefresh, Rotate, Issue, secrets, AllOrListed
<1>3. CASE TimeStep
  BY <1>3 DEF TimeStep, OutdateCode, ExpireAccess, OutdateRefresh, secrets, tokens, AllOrListed
<1>4. CASE UNCHANGED vars
  BY <1>4 DEF vars, secrets, tokens, AllOrListed
<1> QED BY <1>1, <1>2, <1>3, <1>4 DEF Next

\* Rights that do not name a host are not changed by taking it out.
LEMMA WithoutUnnamed ==
    ASSUME NEW h, NEW rs, ~Named(h, rs)
    PROVE  Without(h, rs) = rs
BY DEF Named, Without

\* A refresh token that is still good after its host list lost a host never
\* named that host: all others are condemned.
LEMMA SparedUnnamed ==
    ASSUME IInv, NEW p \in Pairs, NEW h, Unspent(p), p \notin Condemned(h)
    PROVE  ~Named(h, refreshRights[p])
<1>1. p \in Members(grant[p])
  BY DEF Unspent, Members
<1>2. Everything \in refreshRights[p] => refreshRights[p] \cap Refs = {}
  BY DEF IInv, ProperRights, AllOrListed
<1> QED BY <1>1, <1>2 DEF Condemned, Named, Unspent

\* Access token and refresh token change their rights together.
LEMMA InStepStep ==
    ASSUME IInv, [Next]_vars
    PROVE  InStep'
<1> USE DEF IInv, TypeOK, InStep, Unspent
<1>1. CASE ConsoleStep
  <2>1. ASSUME NEW a \in Admins, NEW r \in Refs \cup {Everything}, Pick(a, r) PROVE InStep'
    BY <2>1 DEF Pick, tokens
  <2>2. ASSUME NEW a \in Admins, NEW c \in Codes, Approve(a, c) PROVE InStep'
    BY <2>2 DEF Approve, tokens
  <2>3. ASSUME NEW a \in Admins, NEW p \in Pairs, UpdateToken(a, p) PROVE InStep'
    BY <2>3 DEF UpdateToken, Synced
  <2>4. ASSUME NEW p \in Pairs, DeleteToken(p) PROVE InStep'
    BY <2>4 DEF DeleteToken, Members, Registered
  <2>5. ASSUME NEW h \in HostIds, CreateHost(h) PROVE InStep'
    BY <2>5 DEF CreateHost, tokens
  <2>6. ASSUME NEW h \in HostIds, DeleteHost(h) PROVE InStep'
    <3> SUFFICES ASSUME NEW p \in Pairs, Unspent(p)'
                 PROVE  refreshRights'[p] = tokenRights'[p]
      OBVIOUS
    <3>1. Unspent(p) /\ p \notin Condemned(h)
      BY <2>6 DEF DeleteHost, Revoke
    <3>2. ~Named(h, refreshRights[p])
      BY <3>1, SparedUnnamed
    <3> QED BY <2>6, <3>1, <3>2, WithoutUnnamed DEF DeleteHost
  <2> QED BY <1>1, <2>1, <2>2, <2>3, <2>4, <2>5, <2>6 DEF ConsoleStep
<1>2. CASE ClientStep
  <2>1. ASSUME NEW c \in Codes, ReplayCode(c) PROVE InStep'
    BY <2>1 DEF ReplayCode, Revoke
  <2>2. ASSUME NEW c \in Codes, NEW p \in Pairs, Exchange(c, p) PROVE InStep'
    BY <2>2 DEF Exchange, Issue
  <2>3. ASSUME NEW p \in Pairs, ReplayRefresh(p) PROVE InStep'
    BY <2>3 DEF ReplayRefresh, Revoke
  <2>4. ASSUME NEW p \in Pairs, NEW q \in Pairs, Rotate(p, q) PROVE InStep'
    BY <2>4 DEF Rotate, Issue
  <2> QED BY <1>2, <2>1, <2>2, <2>3, <2>4 DEF ClientStep
<1>3. CASE TimeStep
  BY <1>3 DEF TimeStep, OutdateCode, ExpireAccess, OutdateRefresh, tokens
<1>4. CASE UNCHANGED vars
  BY <1>4 DEF vars, tokens
<1> QED BY <1>1, <1>2, <1>3, <1>4 DEF Next

\* Revocation takes all rows of a grant, and nothing joins a revoked grant.
LEMMA WholeStep ==
    ASSUME IInv, [Next]_vars
    PROVE  WholeGrants'
<1> USE DEF IInv, TypeOK, WholeGrants, Members
<1>1. CASE ConsoleStep
  <2>1. ASSUME NEW a \in Admins, NEW r \in Refs \cup {Everything}, Pick(a, r) PROVE WholeGrants'
    BY <2>1 DEF Pick, tokens
  <2>2. ASSUME NEW a \in Admins, NEW c \in Codes, Approve(a, c) PROVE WholeGrants'
    BY <2>2 DEF Approve, tokens
  <2>3. ASSUME NEW a \in Admins, NEW p \in Pairs, UpdateToken(a, p) PROVE WholeGrants'
    BY <2>3 DEF UpdateToken
  <2>4. ASSUME NEW p \in Pairs, DeleteToken(p) PROVE WholeGrants'
    BY <2>4 DEF DeleteToken
  <2>5. ASSUME NEW h \in HostIds, CreateHost(h) PROVE WholeGrants'
    BY <2>5 DEF CreateHost, tokens
  <2>6. ASSUME NEW h \in HostIds, DeleteHost(h) PROVE WholeGrants'
    BY <2>6 DEF DeleteHost, Revoke, Condemned
  <2> QED BY <1>1, <2>1, <2>2, <2>3, <2>4, <2>5, <2>6 DEF ConsoleStep
<1>2. CASE ClientStep
  <2>1. ASSUME NEW c \in Codes, ReplayCode(c) PROVE WholeGrants'
    BY <2>1 DEF ReplayCode, Revoke
  <2>2. ASSUME NEW c \in Codes, NEW p \in Pairs, Exchange(c, p) PROVE WholeGrants'
    BY <2>2 DEF Exchange, Issue, Registered
  <2>3. ASSUME NEW p \in Pairs, ReplayRefresh(p) PROVE WholeGrants'
    BY <2>3 DEF ReplayRefresh, Revoke
  <2>4. ASSUME NEW p \in Pairs, NEW q \in Pairs, Rotate(p, q) PROVE WholeGrants'
    BY <2>4 DEF Rotate, Redeemable, Unspent, Issue, Registered
  <2> QED BY <1>2, <2>1, <2>2, <2>3, <2>4 DEF ClientStep
<1>3. CASE TimeStep
  BY <1>3 DEF TimeStep, OutdateCode, ExpireAccess, OutdateRefresh, tokens
<1>4. CASE UNCHANGED vars
  BY <1>4 DEF vars, tokens
<1> QED BY <1>1, <1>2, <1>3, <1>4 DEF Next

\* A rotation uses up the heir it replaces, an exchange starts a grant of its own.
LEMMA OneHeirStep ==
    ASSUME IInv, [Next]_vars
    PROVE  OneHeir'
<1> USE DEF IInv, TypeOK, OneHeir, Unspent
<1>1. CASE ConsoleStep
  BY <1>1 DEF ConsoleStep, Pick, Approve, UpdateToken, DeleteToken, CreateHost, DeleteHost, Revoke,
              tokens
<1>2. CASE ClientStep
  <2>1. ASSUME NEW c \in Codes, ReplayCode(c) PROVE OneHeir'
    BY <2>1 DEF ReplayCode, Revoke
  <2>2. ASSUME NEW c \in Codes, NEW p \in Pairs, Exchange(c, p) PROVE OneHeir'
    BY <2>2 DEF Exchange, Issue, Registered
  <2>3. ASSUME NEW p \in Pairs, ReplayRefresh(p) PROVE OneHeir'
    BY <2>3 DEF ReplayRefresh, Revoke
  <2>4. ASSUME NEW p \in Pairs, NEW q \in Pairs, Rotate(p, q) PROVE OneHeir'
    BY <2>4 DEF Rotate, Redeemable, Issue
  <2> QED BY <1>2, <2>1, <2>2, <2>3, <2>4 DEF ClientStep
<1>3. CASE TimeStep
  BY <1>3 DEF TimeStep, OutdateCode, ExpireAccess, OutdateRefresh, tokens
<1>4. CASE UNCHANGED vars
  BY <1>4 DEF vars, tokens
<1> QED BY <1>1, <1>2, <1>3, <1>4 DEF Next

\* Every step keeps the invariant.
LEMMA StepInv ==
    ASSUME IInv, [Next]_vars
    PROVE  IInv'
<1>1. TypeOK'
  <2>1. CASE UNCHANGED vars
    BY <2>1 DEF IInv, TypeOK, vars, secrets, tokens, hosts
  <2> QED BY <2>1, TypeConsole, TypeClient DEF IInv, Next
<1> QED BY <1>1, RegisteredStep, ProperStep, InStepStep, WholeStep, OneHeirStep DEF IInv

-----------------------------------------------------------------------------
(* Theorems *)

\* The inductive invariant holds in every reachable state.
THEOREM GrantInvariance == Spec => []IInv
<1>1. Init => IInv
  BY InitInv
<1>2. IInv /\ [Next]_vars => IInv'
  BY StepInv
<1> QED BY <1>1, <1>2, PTL DEF Spec

\* A grant lives or dies as a whole, whatever is replayed, edited or deleted.
THEOREM GrantsDieWhole == Spec => []WholeGrants
<1>1. IInv => WholeGrants
  BY DEF IInv
<1> QED BY <1>1, GrantInvariance, PTL

\* A grant has at most one refresh token that can still be redeemed.
THEOREM HeirIsUnique == Spec => []OneHeir
<1>1. IInv => OneHeir
  BY DEF IInv
<1> QED BY <1>1, GrantInvariance, PTL

\* What is used up in a step was used by a rotation.
LEMMA UsedByRotate ==
    ASSUME TypeOK, Next, NEW p \in Pairs, refresh[p] = "fresh", refresh'[p] = "used",
           NEW q \in Pairs, refresh[q] = "none", refresh'[q] = "fresh"
    PROVE  Rotate(p, q)
<1>1. CASE ConsoleStep
  BY <1>1 DEF ConsoleStep, Pick, Approve, UpdateToken, DeleteToken, CreateHost, DeleteHost, tokens
<1>2. CASE TimeStep
  BY <1>2 DEF TimeStep, OutdateCode, ExpireAccess, OutdateRefresh, tokens
<1>3. CASE ClientStep
  <2>1. ASSUME NEW c \in Codes, ReplayCode(c) PROVE FALSE
    BY <2>1 DEF ReplayCode
  <2>2. ASSUME NEW c \in Codes, NEW r \in Pairs, Exchange(c, r) PROVE FALSE
    BY <2>2 DEF Exchange, TypeOK
  <2>3. ASSUME NEW r \in Pairs, ReplayRefresh(r) PROVE FALSE
    BY <2>3 DEF ReplayRefresh
  <2>4. ASSUME NEW r \in Pairs, NEW t \in Pairs, Rotate(r, t) PROVE r = p /\ t = q
    BY <2>4 DEF Rotate, Redeemable, Unspent, TypeOK
  <2> QED BY <1>3, <2>1, <2>2, <2>3, <2>4 DEF ClientStep
<1> QED BY <1>1, <1>2, <1>3 DEF Next

\* A rotation hands out the rights the console shows for the token it replaces.
THEOREM EditsAreInherited == Spec => Inheritance
<1>1. IInv /\ [Next]_vars => [InheritsShown]_vars
  <2> SUFFICES ASSUME IInv, Next PROVE InheritsShown
    BY DEF InheritsShown
  <2> SUFFICES ASSUME NEW p \in Pairs, NEW q \in Pairs, Unspent(p), refresh'[p] = "used",
                      refresh[q] = "none", refresh'[q] = "fresh"
               PROVE  tokenRights'[q] = tokenRights[p]
    BY DEF InheritsShown
  <2>1. Rotate(p, q)
    BY UsedByRotate DEF IInv, Unspent
  <2> QED BY <2>1 DEF Rotate, Issue, IInv, InStep, TypeOK
<1> QED BY <1>1, GrantInvariance, PTL DEF Spec, Inheritance

\* Only the deletion of a host removes its row.
LEMMA GoneByDelete ==
    ASSUME Next, NEW h \in present \ present', present \subseteq HostIds
    PROVE  DeleteHost(h)
<1>1. CASE ConsoleStep
  <2>1. ASSUME NEW i \in HostIds, CreateHost(i) PROVE FALSE
    BY <2>1 DEF CreateHost
  <2>2. ASSUME NEW i \in HostIds, DeleteHost(i) PROVE i = h
    BY <2>2 DEF DeleteHost
  <2> QED BY <1>1, <2>1, <2>2 DEF ConsoleStep, Pick, Approve, UpdateToken, DeleteToken, hosts
<1>2. CASE ClientStep \/ TimeStep
  BY <1>2 DEF ClientStep, TimeStep, ReplayCode, Exchange, ReplayRefresh, Rotate,
              OutdateCode, ExpireAccess, OutdateRefresh, hosts
<1> QED BY <1>1, <1>2 DEF Next

\* No right that is in force when a host has been deleted names it.
THEOREM DeletedHostsAreUnnamed == Spec => HostDeletionEnds
<1>1. IInv /\ [Next]_vars => [EndsWithHost]_vars
  <2> SUFFICES ASSUME IInv, Next, NEW h \in present \ present', NEW p \in Pairs
               PROVE  /\ access'[p] = "live" => ~Named(h, tokenRights'[p])
                      /\ Redeemable(p)' => ~Named(h, refreshRights'[p])
    BY DEF EndsWithHost
  <2>1. DeleteHost(h)
    BY GoneByDelete DEF IInv, TypeOK
  <2>2. ~Named(h, tokenRights'[p])
    BY <2>1 DEF DeleteHost, Without, Named
  <2>3. ASSUME Redeemable(p)' PROVE ~Named(h, refreshRights'[p])
    <3>1. Unspent(p) /\ p \notin Condemned(h)
      BY <2>1, <2>3 DEF DeleteHost, Revoke, Redeemable, Unspent
    <3> QED BY <2>1, <3>1, SparedUnnamed DEF DeleteHost
  <2> QED BY <2>2, <2>3
<1> QED BY <1>1, GrantInvariance, PTL DEF Spec, HostDeletionEnds

-----------------------------------------------------------------------------
(* Refinement *)

FamilyVars == <<Issued, Spent, grant, Closed, Keys>>

\* Revoking whole grants closes their families.
LEMMA RevokeCloses ==
    ASSUME IInv, NEW gs \in SUBSET Pairs, NEW ps \in SUBSET Pairs,
           \A p \in Pairs : p \in ps <=> refresh[p] # "none" /\ grant[p] \in gs,
           \A g \in gs : \E p \in ps : grant[p] = g,
           revoked' = revoked \cup ps,
           Keys' = Keys \ ps,
           UNCHANGED <<code, refresh, grant>>
    PROVE  Family!Close(gs)
<1>1. Closed' = Closed \cup gs
  BY DEF Closed, IInv, TypeOK
<1>2. Keys' = {k \in Keys : grant[k] \notin gs}
  BY DEF Keys, IInv, Registered
<1>3. UNCHANGED <<Issued, Spent, grant>>
  BY DEF Issued, Spent
<1> QED BY <1>1, <1>2, <1>3 DEF Family!Close

\* The case of one grant.
LEMMA WholeGrantCloses ==
    ASSUME IInv, NEW g \in Pairs, NEW p \in Members(g),
           revoked' = revoked \cup Members(g),
           Keys' = Keys \ Members(g),
           UNCHANGED <<code, refresh, grant>>
    PROVE  Family!Close({g})
<1> DEFINE ps == Members(g)
<1>1. ps \in SUBSET Pairs /\ {g} \in SUBSET Pairs
  BY DEF Members
<1>2. \A q \in Pairs : q \in ps <=> refresh[q] # "none" /\ grant[q] \in {g}
  BY DEF Members
<1>3. \A f \in {g} : \E q \in ps : grant[q] = f
  BY DEF Members
<1> QED BY <1>1, <1>2, <1>3, RevokeCloses

\* A revocation leaves the other access tokens in force.
LEMMA RevokeKeys ==
    ASSUME TypeOK, NEW ps \in SUBSET Pairs, Revoke(ps)
    PROVE  Keys' = Keys \ ps /\ revoked' = revoked \cup ps
BY DEF Revoke, Keys, TypeOK

\* Every step of the tables is a step of the families.
LEMMA FamilyStep ==
    ASSUME IInv, [Next]_vars
    PROVE  [Family!Next]_FamilyVars
<1> USE DEF FamilyVars
<1>1. CASE ConsoleStep
  <2>1. ASSUME NEW a \in Admins, NEW r \in Refs \cup {Everything}, Pick(a, r) PROVE UNCHANGED FamilyVars
    BY <2>1 DEF Pick, secrets, tokens, Issued, Spent, Closed, Keys
  <2>2. ASSUME NEW a \in Admins, NEW c \in Codes, Approve(a, c) PROVE Family!Grant(c)
    BY <2>2 DEF Approve, tokens, Family!Grant, Issued, Spent, Closed, Keys, IInv, TypeOK
  <2>3. ASSUME NEW a \in Admins, NEW p \in Pairs, UpdateToken(a, p) PROVE UNCHANGED FamilyVars
    BY <2>3 DEF UpdateToken, secrets, Issued, Spent, Closed, Keys
  <2>4. ASSUME NEW p \in Pairs, DeleteToken(p) PROVE Family!Close({grant[p]})
    <3>1. p \in Members(grant[p])
      BY <2>4 DEF DeleteToken, Members, IInv, Registered
    <3>2. Keys' = Keys \ Members(grant[p])
      BY <2>4, <3>1 DEF DeleteToken, Keys, IInv, TypeOK
    <3>3. revoked' = revoked \cup Members(grant[p]) /\ UNCHANGED <<code, refresh, grant>>
      BY <2>4 DEF DeleteToken, secrets
    <3> QED BY <3>1, <3>2, <3>3, WholeGrantCloses DEF IInv, TypeOK
  <2>5. ASSUME NEW h \in HostIds, CreateHost(h) PROVE UNCHANGED FamilyVars
    BY <2>5 DEF CreateHost, secrets, tokens, Issued, Spent, Closed, Keys
  <2>6. ASSUME NEW h \in HostIds, DeleteHost(h)
        PROVE  Family!Close({grant[p] : p \in Condemned(h)})
    <3> DEFINE ps == Condemned(h)
               gs == {grant[p] : p \in ps}
    <3>1. ps \in SUBSET Pairs /\ gs \in SUBSET Pairs
      BY DEF Condemned, IInv, TypeOK
    <3>2. \A p \in Pairs : p \in ps <=> refresh[p] # "none" /\ grant[p] \in gs
      BY DEF Condemned, Members
    <3>3. Keys' = Keys \ ps /\ revoked' = revoked \cup ps
      BY <2>6, <3>1, RevokeKeys DEF DeleteHost, IInv
    <3> QED BY <2>6, <3>1, <3>2, <3>3, RevokeCloses DEF DeleteHost, secrets
  <2>7. ASSUME NEW p \in Pairs, DeleteToken(p) PROVE Family!Next
    <3>1. {grant[p]} \in SUBSET Pairs
      BY DEF IInv, TypeOK
    <3> QED BY <2>4, <2>7, <3>1 DEF Family!Next
  <2>8. ASSUME NEW h \in HostIds, DeleteHost(h) PROVE Family!Next
    <3>1. {grant[p] : p \in Condemned(h)} \in SUBSET Pairs
      BY DEF Condemned, IInv, TypeOK
    <3> QED BY <2>6, <2>8, <3>1 DEF Family!Next
  <2>9. ASSUME NEW a \in Admins, NEW c \in Codes, Approve(a, c) PROVE Family!Next
    BY <2>2, <2>9 DEF Family!Next
  <2> HIDE DEF FamilyVars
  <2> QED BY <1>1, <2>1, <2>3, <2>5, <2>7, <2>8, <2>9 DEF ConsoleStep
<1>2. CASE ClientStep
  <2>1. ASSUME NEW c \in Codes, ReplayCode(c) PROVE Family!Close({grantOf[c]})
    <3>1. grantOf[c] \in Pairs /\ grantOf[c] \in Members(grantOf[c])
      BY <2>1 DEF ReplayCode, IInv, Registered, Members
    <3>2. Keys' = Keys \ Members(grantOf[c]) /\ revoked' = revoked \cup Members(grantOf[c])
      BY <2>1, RevokeKeys DEF ReplayCode, IInv, Members
    <3> QED BY <2>1, <3>1, <3>2, WholeGrantCloses DEF ReplayCode, secrets
  <2>2. ASSUME NEW c \in Codes, NEW p \in Pairs, Exchange(c, p) PROVE Family!Found(c, p)
    <3>1. c \in Issued \ Spent /\ p \notin Issued
      BY <2>2 DEF Exchange, Issued, Spent
    <3>2. p \notin Closed
      BY <2>2 DEF Exchange, Closed, IInv, Registered, TypeOK
    <3>3. Issued' = Issued \cup {p} /\ Spent' = Spent \cup {c}
      BY <2>2 DEF Exchange, Issued, Spent, IInv, TypeOK
    <3>4. Keys' = Keys \cup {p} /\ grant' = [grant EXCEPT ![p] = p]
      BY <2>2 DEF Exchange, Issue, Keys, IInv, TypeOK
    <3>5. Closed' = Closed
      BY <2>2 DEF Exchange, Issue, Closed, IInv, Registered, TypeOK
    <3> QED BY <3>1, <3>2, <3>3, <3>4, <3>5 DEF Family!Found, Family!Redeem
  <2>3. ASSUME NEW p \in Pairs, ReplayRefresh(p) PROVE Family!Close({grant[p]})
    <3>1. grant[p] \in Pairs /\ p \in Members(grant[p])
      BY <2>3 DEF ReplayRefresh, Replayable, IInv, TypeOK, Members
    <3>2. Keys' = Keys \ Members(grant[p]) /\ revoked' = revoked \cup Members(grant[p])
      BY <2>3, RevokeKeys DEF ReplayRefresh, IInv, Members
    <3> QED BY <2>3, <3>1, <3>2, WholeGrantCloses DEF ReplayRefresh, secrets
  <2>4. ASSUME NEW p \in Pairs, NEW q \in Pairs, Rotate(p, q) PROVE Family!Renew(p, q)
    <3>1. p \in Issued \ Spent /\ q \notin Issued
      BY <2>4 DEF Rotate, Redeemable, Unspent, Issued, Spent
    <3>2. grant[p] \notin Closed
      BY <2>4 DEF Rotate, Redeemable, Unspent, Closed, IInv, WholeGrants, Members
    <3>3. Issued' = Issued \cup {q} /\ Spent' = Spent \cup {p}
      BY <2>4 DEF Rotate, Redeemable, Unspent, Issued, Spent, secrets, IInv, TypeOK
    <3>4. Keys' = Keys \cup {q} /\ grant' = [grant EXCEPT ![q] = grant[p]]
      BY <2>4 DEF Rotate, Issue, Keys, IInv, TypeOK
    <3>5. Closed' = Closed
      BY <2>4 DEF Rotate, Issue, Closed, IInv, Registered, TypeOK
    <3> QED BY <3>1, <3>2, <3>3, <3>4, <3>5 DEF Family!Renew, Family!Redeem
  <2>5. ASSUME NEW c \in Codes, ReplayCode(c) PROVE Family!Next
    <3>1. {grantOf[c]} \in SUBSET Pairs
      BY <2>5 DEF ReplayCode, IInv, Registered
    <3> QED BY <2>1, <2>5, <3>1 DEF Family!Next
  <2>6. ASSUME NEW p \in Pairs, ReplayRefresh(p) PROVE Family!Next
    <3>1. {grant[p]} \in SUBSET Pairs
      BY DEF IInv, TypeOK
    <3> QED BY <2>3, <2>6, <3>1 DEF Family!Next
  <2>7. ASSUME NEW c \in Codes, NEW p \in Pairs, Exchange(c, p) PROVE Family!Next
    BY <2>2, <2>7 DEF Family!Next
  <2>8. ASSUME NEW p \in Pairs, NEW q \in Pairs, Rotate(p, q) PROVE Family!Next
    BY <2>4, <2>8 DEF Family!Next
  <2> HIDE DEF FamilyVars
  <2> QED BY <1>2, <2>5, <2>6, <2>7, <2>8 DEF ClientStep
<1>3. CASE TimeStep
  <2>1. ASSUME NEW c \in Codes, OutdateCode(c) PROVE UNCHANGED FamilyVars
    BY <2>1 DEF OutdateCode, secrets, tokens, Issued, Spent, Closed, Keys
  <2>2. ASSUME NEW p \in Pairs, ExpireAccess(p) PROVE Family!Lapse(p)
    BY <2>2 DEF ExpireAccess, secrets, Family!Lapse, Issued, Spent, Closed, Keys, IInv, TypeOK
  <2>3. ASSUME NEW p \in Pairs, OutdateRefresh(p) PROVE UNCHANGED FamilyVars
    BY <2>3 DEF OutdateRefresh, secrets, tokens, Issued, Spent, Closed, Keys
  <2> QED BY <1>3, <2>1, <2>2, <2>3 DEF TimeStep, Family!Next
<1>4. CASE UNCHANGED vars
  BY <1>4 DEF vars, secrets, tokens, Issued, Spent, Closed, Keys
<1> QED BY <1>1, <1>2, <1>3, <1>4 DEF Next

\* The grant tables implement TokenFamily.
THEOREM RefinesFamilies == Spec => KeepsFamilies
<1>1. Init => Family!Init
  BY DEF Init, Family!Init, Issued, Spent, Closed, Keys
<1>2. IInv /\ [Next]_vars => [Family!Next]_FamilyVars
  BY FamilyStep
<1> QED BY <1>1, <1>2, GrantInvariance, PTL DEF Spec, KeepsFamilies, Family!Spec, FamilyVars
=============================================================================
