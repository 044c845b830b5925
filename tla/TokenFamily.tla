----------------------------- MODULE TokenFamily -----------------------------
(***************************************************************************)
(* What an authorised client and the administrator may rely on: secrets    *)
(* (authorisation codes and refresh tokens) are redeemed once, each into   *)
(* one successor of the same family with a key (an access token); a family *)
(* that has been closed has no key and gives none out ever again.          *)
(***************************************************************************)
CONSTANTS Codes, Tokens

VARIABLES
    issued,  \* secrets handed out
    spent,   \* secrets redeemed
    family,  \* the family a token belongs to, named by its first token
    closed,  \* families that have been revoked
    keys     \* tokens whose access token is in force

Init ==
    /\ issued = {}
    /\ spent = {}
    /\ family = [t \in Tokens |-> t]
    /\ closed = {}
    /\ keys = {}

Grant(c) ==
    /\ c \notin issued
    /\ issued' = issued \cup {c}
    /\ UNCHANGED <<spent, family, closed, keys>>

\* A secret s is redeemed into t, in family f.
Redeem(s, t, f) ==
    /\ s \in issued \ spent
    /\ t \notin issued
    /\ f \notin closed
    /\ issued' = issued \cup {t}
    /\ spent' = spent \cup {s}
    /\ family' = [family EXCEPT ![t] = f]
    /\ keys' = keys \cup {t}
    /\ UNCHANGED closed

Found(c, t) == Redeem(c, t, t)

Renew(s, t) == s \in Tokens /\ Redeem(s, t, family[s])

Close(fs) ==
    /\ closed' = closed \cup fs
    /\ keys' = {k \in keys : family[k] \notin fs}
    /\ UNCHANGED <<issued, spent, family>>

Lapse(k) ==
    /\ keys' = keys \ {k}
    /\ UNCHANGED <<issued, spent, family, closed>>

Next ==
    \/ \E c \in Codes : Grant(c) \/ \E t \in Tokens : Found(c, t)
    \/ \E s, t \in Tokens : Renew(s, t)
    \/ \E fs \in SUBSET Tokens : Close(fs)
    \/ \E k \in Tokens : Lapse(k)

Spec == Init /\ [][Next]_<<issued, spent, family, closed, keys>>
=============================================================================
