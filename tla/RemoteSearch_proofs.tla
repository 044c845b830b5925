------------------------- MODULE RemoteSearch_proofs --------------------------
(***************************************************************************)
(* Proofs about a search on a host, for any number of searches, of lines   *)
(* and of entries.  HelperHonest of RemoteSearch becomes inductive with    *)
(* two facts: a search has no helper on the host before it has staged one, *)
(* and its steps run on no connection older than the one it has probed;    *)
(* ContextExact of GrepScan with what the buffer of lines holds and how far*)
(* the last match still reaches, and WalkHonest of SearchWalk with what    *)
(* each call of the walk has still to look at.                             *)
(***************************************************************************)
EXTENDS RemoteSearch, GrepScan, SearchWalk, FiniteSetTheorems, SequenceTheorems,
        WellFoundedInduction, TLAPS

-----------------------------------------------------------------------------
(* RemoteSearch *)

Places == {"idle", "probe", "lookup", "uname", "asking", "stage", "staging", "unstage", "run",
           "running", "answered", "refused", "sftp", "returned"}

SearchTypeOK ==
    /\ platform \in BOOLEAN
    /\ conn \in Nat
    /\ helper \in [client : Nat, usable : BOOLEAN]
    /\ search \in [Searches -> [at : Places, client : Nat, on : Nat]]
    /\ file \in [Searches -> {"none", "partial", "ready"}]

NotYet ==
    \A s \in Searches :
        search[s].at \in {"idle", "probe", "lookup", "uname", "asking", "stage", "staging"} =>
            file[s] = "none"

\* Connections are numbered as they are dialled: what a step runs on is what its search has
\* probed, or came after it.
Ordered ==
    \A s \in Searches : /\ search[s].client <= conn
                        /\ search[s].on = 0 \/ search[s].on >= search[s].client

SearchInv == SearchTypeOK /\ VerdictOfConnection /\ NotYet /\ Ordered /\ HelperGone

-----------------------------------------------------------------------------

\* What is noted of a failing step of s: its search had probed that connection or an earlier one.
LEMMA NotedFits ==
    ASSUME SearchInv, NEW s \in Searches
    PROVE  \E f \in Noted(s) : f.probed = search[s].client /\ (f.met = 0 \/ f.met >= f.probed)
<1> DEFINE f == [met |-> search[s].on, probed |-> search[s].client]
<1>1. f \in Noted(s)
  BY DEF Noted
<1>2. f.probed = search[s].client /\ (f.met = 0 \/ f.met >= f.probed)
  BY DEF SearchInv, Ordered
<1> QED BY <1>1, <1>2

\* The search ends with the tool of the host, or goes on.
LEMMA NativeStep ==
    ASSUME SearchInv, NEW s \in Searches, Native(s)
    PROVE  SearchInv'
<1> USE SearchConstantsOK DEF SearchInv, Native, Moved
<1>1. SearchTypeOK'
  BY DEF SearchTypeOK, Places
<1>2. VerdictOfConnection'
  BY DEF SearchTypeOK, Ordered, VerdictOfConnection
<1>3. NotYet'
  BY DEF SearchTypeOK, NotYet
<1>4. Ordered'
  BY DEF SearchTypeOK, Ordered
<1>5. HelperGone'
  BY DEF SearchTypeOK, NotYet, HelperGone
<1> QED BY <1>1, <1>2, <1>3, <1>4, <1>5

\* The connection that is asked for is noted.
LEMMA ProbeGetStep ==
    ASSUME SearchInv, NEW s \in Searches, ProbeGet(s)
    PROVE  SearchInv'
<1> USE SearchConstantsOK DEF SearchInv, ProbeGet, Moved
<1>1. SearchTypeOK'
  BY DEF SearchTypeOK, Places
<1>2. VerdictOfConnection'
  BY DEF SearchTypeOK, Ordered, VerdictOfConnection
<1>3. NotYet'
  BY DEF SearchTypeOK, NotYet
<1>4. Ordered'
  BY DEF SearchTypeOK, Ordered
<1>5. HelperGone'
  BY DEF SearchTypeOK, NotYet, HelperGone
<1> QED BY <1>1, <1>2, <1>3, <1>4, <1>5

\* What is remembered decides; nothing is learned.
LEMMA ProbeCachedStep ==
    ASSUME SearchInv, NEW s \in Searches, ProbeCached(s)
    PROVE  SearchInv'
<1> USE SearchConstantsOK DEF SearchInv, ProbeCached, Moved
<1>1. SearchTypeOK'
  BY DEF SearchTypeOK, Places
<1>2. VerdictOfConnection'
  BY DEF SearchTypeOK, Ordered, VerdictOfConnection
<1>3. NotYet'
  BY DEF SearchTypeOK, NotYet
<1>4. Ordered'
  BY DEF SearchTypeOK, Ordered
<1>5. HelperGone'
  BY DEF SearchTypeOK, NotYet, HelperGone
<1> QED BY <1>1, <1>2, <1>3, <1>4, <1>5

\* A step on the host gets a connection no older than the one that was probed.
LEMMA TakeConnectionStep ==
    ASSUME SearchInv, NEW s \in Searches, TakeConnection(s)
    PROVE  SearchInv'
<1> USE SearchConstantsOK DEF SearchInv, TakeConnection, AskPool
<1>1. SearchTypeOK'
  BY DEF SearchTypeOK, Places
<1>2. VerdictOfConnection'
  BY DEF VerdictOfConnection
<1>3. NotYet'
  BY DEF SearchTypeOK, NotYet
<1>4. Ordered'
  BY DEF SearchTypeOK, Ordered
<1>5. HelperGone'
  BY DEF SearchTypeOK, NotYet, HelperGone
<1> QED BY <1>1, <1>2, <1>3, <1>4, <1>5

\* What is learned is noted for the connection that was asked for.
LEMMA ProbeRemoteStep ==
    ASSUME SearchInv, NEW s \in Searches, ProbeRemote(s)
    PROVE  SearchInv'
<1> USE SearchConstantsOK DEF SearchInv, ProbeRemote, Noted, Moved
<1>1. SearchTypeOK'
  BY DEF SearchTypeOK, Places
<1>2. VerdictOfConnection'
  <2>1. PICK usable \in BOOLEAN :
            /\ helper' = [client |-> search[s].client, usable |-> usable]
            /\ usable => platform
            /\ failures' = IF usable THEN failures ELSE Noted(s)
    BY DEF SearchTypeOK
  <2>2. CASE usable
    BY <2>1, <2>2 DEF VerdictOfConnection
  <2>3. CASE ~usable
    <3>1. PICK f \in failures' : f.probed = search[s].client /\ (f.met = 0 \/ f.met >= f.probed)
      BY <2>1, <2>3, NotedFits
    <3> QED BY <2>1, <2>3, <3>1 DEF VerdictOfConnection
  <2> QED BY <2>2, <2>3
<1>3. NotYet'
  BY DEF SearchTypeOK, NotYet
<1>4. Ordered'
  BY DEF SearchTypeOK, Ordered
<1>5. HelperGone'
  BY DEF SearchTypeOK, NotYet, HelperGone
<1> QED BY <1>1, <1>2, <1>3, <1>4, <1>5

\* A helper is staged by a search that has yet to run or to remove it.
LEMMA StageHelperStep ==
    ASSUME SearchInv, NEW s \in Searches, StageHelper(s)
    PROVE  SearchInv'
<1> USE SearchConstantsOK DEF SearchInv, StageHelper, Stale, Moved
<1>1. SearchTypeOK'
  BY DEF SearchTypeOK, Places
<1>2. VerdictOfConnection'
  BY DEF SearchTypeOK, Ordered, VerdictOfConnection
<1>3. NotYet'
  BY DEF SearchTypeOK, NotYet
<1>4. Ordered'
  BY DEF SearchTypeOK, Ordered
<1>5. HelperGone'
  BY DEF SearchTypeOK, NotYet, HelperGone
<1> QED BY <1>1, <1>2, <1>3, <1>4, <1>5

\* Nothing has been staged, so that there is nothing to remove.
LEMMA StageFailedStep ==
    ASSUME SearchInv, NEW s \in Searches, StageFailed(s)
    PROVE  SearchInv'
<1> USE SearchConstantsOK DEF SearchInv, StageFailed, Failed, Noted, MarkUnusable, Moved
<1>1. SearchTypeOK'
  BY DEF SearchTypeOK, Places
<1>2. VerdictOfConnection'
  <2>1. PICK f \in failures' : f.probed = search[s].client /\ (f.met = 0 \/ f.met >= f.probed)
    BY NotedFits DEF Failed
  <2>2. /\ failures \subseteq failures' /\ platform' = platform
        /\ helper' = IF helper.client = search[s].client THEN [helper EXCEPT !.usable = FALSE]
                     ELSE helper
    BY DEF Failed, MarkUnusable, Noted
  <2>3. CASE helper.client = search[s].client
    <3>1. helper'.client = search[s].client /\ helper'.usable = FALSE
      BY <2>2, <2>3 DEF SearchTypeOK
    <3> QED BY <2>1, <3>1 DEF VerdictOfConnection
  <2>4. CASE helper.client # search[s].client
    BY <2>2, <2>4 DEF VerdictOfConnection
  <2> QED BY <2>3, <2>4
<1>3. NotYet'
  BY DEF SearchTypeOK, NotYet
<1>4. Ordered'
  BY DEF SearchTypeOK, Ordered
<1>5. HelperGone'
  BY DEF SearchTypeOK, NotYet, HelperGone
<1> QED BY <1>1, <1>2, <1>3, <1>4, <1>5

\* What has been staged is removed, or the host would not.
LEMMA UnstageStep ==
    ASSUME SearchInv, NEW s \in Searches, Unstage(s)
    PROVE  SearchInv'
<1> USE SearchConstantsOK DEF SearchInv, Unstage, Failed, Noted, MarkUnusable, Removed, Moved
<1>1. SearchTypeOK'
  BY DEF SearchTypeOK, Places
<1>2. VerdictOfConnection'
  <2>1. PICK f \in failures' : f.probed = search[s].client /\ (f.met = 0 \/ f.met >= f.probed)
    BY NotedFits DEF Failed
  <2>2. /\ failures \subseteq failures' /\ platform' = platform
        /\ helper' = IF helper.client = search[s].client THEN [helper EXCEPT !.usable = FALSE]
                     ELSE helper
    BY DEF Failed, MarkUnusable, Noted
  <2>3. CASE helper.client = search[s].client
    <3>1. helper'.client = search[s].client /\ helper'.usable = FALSE
      BY <2>2, <2>3 DEF SearchTypeOK
    <3> QED BY <2>1, <3>1 DEF VerdictOfConnection
  <2>4. CASE helper.client # search[s].client
    BY <2>2, <2>4 DEF VerdictOfConnection
  <2> QED BY <2>3, <2>4
<1>3. NotYet'
  BY DEF SearchTypeOK, NotYet
<1>4. Ordered'
  BY DEF SearchTypeOK, Ordered
<1>5. HelperGone'
  BY DEF SearchTypeOK, NotYet, HelperGone
<1> QED BY <1>1, <1>2, <1>3, <1>4, <1>5

\* A helper that starts is gone.
LEMMA HelperStartsStep ==
    ASSUME SearchInv, NEW s \in Searches, HelperStarts(s)
    PROVE  SearchInv'
<1> USE SearchConstantsOK DEF SearchInv, HelperStarts, Moved
<1>1. SearchTypeOK'
  BY DEF SearchTypeOK, Places
<1>2. VerdictOfConnection'
  BY DEF SearchTypeOK, Ordered, VerdictOfConnection
<1>3. NotYet'
  BY DEF SearchTypeOK, NotYet
<1>4. Ordered'
  BY DEF SearchTypeOK, Ordered
<1>5. HelperGone'
  BY DEF SearchTypeOK, NotYet, HelperGone
<1> QED BY <1>1, <1>2, <1>3, <1>4, <1>5

\* A helper that fails is held against the connection that was probed.
LEMMA RunHelperStep ==
    ASSUME SearchInv, NEW s \in Searches, RunHelper(s)
    PROVE  SearchInv'
<1> USE SearchConstantsOK DEF SearchInv, RunHelper, Failed, Noted, MarkUnusable, Moved
<1>1. SearchTypeOK'
  <2>1. search' \in [Searches -> [at : Places, client : Nat, on : Nat]]
    BY DEF SearchTypeOK, Places
  <2>2. helper' \in [client : Nat, usable : BOOLEAN]
    BY DEF SearchTypeOK
  <2> QED BY <2>1, <2>2 DEF SearchTypeOK
<1>2. VerdictOfConnection'
  <2>0. CASE UNCHANGED <<helper, failures>>
    BY <2>0 DEF VerdictOfConnection
  <2> SUFFICES ASSUME Failed(s) PROVE VerdictOfConnection'
    BY <2>0
  <2>1. PICK f \in failures' : f.probed = search[s].client /\ (f.met = 0 \/ f.met >= f.probed)
    BY NotedFits DEF Failed
  <2>2. /\ failures \subseteq failures' /\ platform' = platform
        /\ helper' = IF helper.client = search[s].client THEN [helper EXCEPT !.usable = FALSE]
                     ELSE helper
    BY DEF Failed, MarkUnusable, Noted
  <2>3. CASE helper.client = search[s].client
    <3>1. helper'.client = search[s].client /\ helper'.usable = FALSE
      BY <2>2, <2>3 DEF SearchTypeOK
    <3> QED BY <2>1, <3>1 DEF VerdictOfConnection
  <2>4. CASE helper.client # search[s].client
    BY <2>2, <2>4 DEF VerdictOfConnection
  <2> QED BY <2>3, <2>4
<1>3. NotYet'
  BY DEF SearchTypeOK, NotYet
<1>4. Ordered'
  BY DEF SearchTypeOK, Ordered
<1>5. HelperGone'
  BY DEF SearchTypeOK, NotYet, HelperGone
<1> QED BY <1>1, <1>2, <1>3, <1>4, <1>5

\* The helper is removed before the search goes on or returns.
LEMMA CleanupStep ==
    ASSUME SearchInv, NEW s \in Searches, Cleanup(s)
    PROVE  SearchInv'
<1> USE SearchConstantsOK DEF SearchInv, Cleanup, Removed, Moved
<1>1. SearchTypeOK'
  BY DEF SearchTypeOK, Places
<1>2. VerdictOfConnection'
  BY DEF SearchTypeOK, Ordered, VerdictOfConnection
<1>3. NotYet'
  BY DEF SearchTypeOK, NotYet
<1>4. Ordered'
  BY DEF SearchTypeOK, Ordered
<1>5. HelperGone'
  BY DEF SearchTypeOK, NotYet, HelperGone
<1> QED BY <1>1, <1>2, <1>3, <1>4, <1>5

\* The walk has no helper to leave behind.
LEMMA SearchSFTPStep ==
    ASSUME SearchInv, NEW s \in Searches, SearchSFTP(s)
    PROVE  SearchInv'
<1> USE SearchConstantsOK DEF SearchInv, SearchSFTP, Moved
<1>1. SearchTypeOK'
  BY DEF SearchTypeOK, Places
<1>2. VerdictOfConnection'
  BY DEF SearchTypeOK, Ordered, VerdictOfConnection
<1>3. NotYet'
  BY DEF SearchTypeOK, NotYet
<1>4. Ordered'
  BY DEF SearchTypeOK, Ordered
<1>5. HelperGone'
  BY DEF SearchTypeOK, NotYet, HelperGone
<1> QED BY <1>1, <1>2, <1>3, <1>4, <1>5

-----------------------------------------------------------------------------
\* SearchInv holds of every reachable state.
THEOREM SearchInvariant == SearchSpec => []SearchInv
<1>1. SearchInit => SearchInv
  BY DEF SearchInit, SearchInv, SearchTypeOK, Places, VerdictOfConnection, NotYet, Ordered, HelperGone,
         NoHelper
<1>2. SearchInv /\ [SearchNext]_searchVars => SearchInv'
  <2> SUFFICES ASSUME SearchInv, [SearchNext]_searchVars PROVE SearchInv'
    OBVIOUS
  <2>1. CASE Reconnect
    BY <2>1 DEF Reconnect, SearchInv, SearchTypeOK, VerdictOfConnection, NotYet, Ordered, HelperGone
  <2>2. ASSUME NEW s \in Searches, SearchStep(s) PROVE SearchInv'
    BY <2>2, NativeStep, ProbeGetStep, ProbeCachedStep, TakeConnectionStep, ProbeRemoteStep,
       StageHelperStep, StageFailedStep, UnstageStep, HelperStartsStep, RunHelperStep, CleanupStep, SearchSFTPStep
       DEF SearchStep
  <2>3. CASE UNCHANGED searchVars
    BY <2>3 DEF searchVars, SearchInv, SearchTypeOK, VerdictOfConnection, NotYet, Ordered, HelperGone
  <2> QED BY <2>1, <2>2, <2>3 DEF SearchNext
<1> QED BY <1>1, <1>2, PTL DEF SearchSpec

\* However many searches overlap, and whatever breaks: a verdict against the helper comes from a
\* search that had probed the connection it is remembered for, and from no connection before it;
\* and no helper is left behind that the host would have removed.
THEOREM SearchHelperHonest == SearchSpec => []HelperHonest
<1>1. SearchInv => HelperHonest
  BY DEF SearchInv, HelperHonest
<1> QED BY <1>1, SearchInvariant, PTL

-----------------------------------------------------------------------------
(* GrepScan *)

Rising(s) == \A i, j \in 1 .. Len(s) : i < j => s[i] < s[j]

\* The numbers after low, one by one; and numbers up to it.
RunAfter(t, low) == \A i \in 1 .. Len(t) : t[i] = low + i
UpTo(s, low) == \A x \in Numbers(s) : x <= low

Joinable(s, t, low, k) ==
    /\ s \in Seq(Nat) /\ t \in Seq(Nat) /\ low \in Nat /\ k \in 0 .. Len(t)
    /\ Rising(s) /\ RunAfter(t, low) /\ UpTo(s, low)

Joined(r, s, low, k) ==
    /\ r \in Seq(Nat) /\ Rising(r)
    /\ Numbers(r) = Numbers(s) \cup (low + 1 .. low + k)

ScanTypeOK ==
    /\ context \in Nat /\ matchLimit \in Nat \ {0}
    /\ matched \in Seq(BOOLEAN) /\ previous \in Seq(Nat) /\ found \in Seq(Nat)
    /\ after \in Nat /\ lastEmitted \in Nat /\ matches \in Nat
    /\ scan \in {"reading", "stopped", "incomplete", "ended"}

\* The buffer holds the numbers of the last lines read.
Kept == IF context < Len(matched) THEN context ELSE Len(matched)

Window ==
    /\ Len(previous) = Kept
    /\ \A k \in 1 .. Kept : previous[k] = Len(matched) - Kept + k

\* As many lines are still to come as the last match reaches further.
Reach ==
    \A d \in Nat \ {0} :
       d <= after <=> \E j \in 1 .. Len(matched) : matched[j] /\ Len(matched) + d - j <= context

\* lastEmitted is the greatest number given out.
LastGiven ==
    /\ lastEmitted \in Numbers(found) \cup {0}
    /\ \A l \in Numbers(found) : l <= lastEmitted

Reading == matches < matchLimit /\ Window /\ Reach /\ LastGiven

ScanInv == ScanTypeOK /\ ContextExact /\ (scan = "reading" => Reading)

-----------------------------------------------------------------------------
\* A rising sequence continued by the first k of greater ones that rise by one.
LEMMA RunAppended ==
    ASSUME NEW s, NEW t, NEW low, NEW k, Joinable(s, t, low, k)
    PROVE  Joined(s \o SubSeq(t, 1, k), s, low, k)
<1>0. PICK r : r = s \o SubSeq(t, 1, k)
  OBVIOUS
<1> USE DEF RunAfter, UpTo, Joinable
<1>1. Len(t) \in Nat /\ Len(s) \in Nat /\ k \in Nat
  OBVIOUS
<1>2. PICK u : u = SubSeq(t, 1, k)
  OBVIOUS
<1>3. u \in Seq(Nat) /\ Len(u) = k /\ \A i \in 1 .. k : u[i] = low + i
  BY <1>1, <1>2, SubSeqProperties
<1>4. /\ r \in Seq(Nat) /\ Len(r) = Len(s) + k
      /\ \A i \in 1 .. Len(s) : r[i] = s[i]
      /\ \A i \in 1 .. k : r[Len(s) + i] = low + i
  BY <1>0, <1>1, <1>2, <1>3
<1>5. ASSUME NEW i \in 1 .. Len(r)
      PROVE  \/ i \in 1 .. Len(s) /\ r[i] = s[i] /\ r[i] \in Numbers(s)
             \/ i - Len(s) \in 1 .. k /\ r[i] = low + (i - Len(s))
  <2>1. i \in 1 .. Len(s) \/ (i - Len(s) \in 1 .. k /\ i = Len(s) + (i - Len(s)))
    BY <1>1, <1>4
  <2> QED BY <1>4, <2>1 DEF Numbers
<1>6. \A x \in Numbers(s) : x \in Nat
  BY ElementOfSeq DEF Numbers
<1>7. Rising(r)
  <2> SUFFICES ASSUME NEW i \in 1 .. Len(r), NEW j \in 1 .. Len(r), i < j
               PROVE  r[i] < r[j]
    BY DEF Rising
  <2>1. CASE i \in 1 .. Len(s) /\ j \in 1 .. Len(s)
    BY <1>4, <2>1 DEF Rising
  <2>2. CASE i \in 1 .. Len(s) /\ j \notin 1 .. Len(s)
    <3>1. s[i] \in Nat /\ s[i] <= low /\ r[i] = s[i]
      BY <1>4, <1>6, <2>2 DEF Numbers
    <3>2. j - Len(s) \in 1 .. k /\ r[j] = low + (j - Len(s))
      BY <1>5, <2>2
    <3> QED BY <1>1, <3>1, <3>2
  <2>3. CASE i \notin 1 .. Len(s)
    <3>1. i - Len(s) \in 1 .. k /\ r[i] = low + (i - Len(s)) /\ j \notin 1 .. Len(s)
      BY <1>1, <1>5, <2>3
    <3>2. r[j] = low + (j - Len(s))
      BY <1>5, <3>1
    <3> QED BY <1>1, <3>1, <3>2
  <2> QED BY <2>1, <2>2, <2>3
<1>8. Numbers(r) = Numbers(s) \cup (low + 1 .. low + k)
  <2>1. ASSUME NEW x \in Numbers(r) PROVE x \in Numbers(s) \cup (low + 1 .. low + k)
    <3>1. PICK i \in 1 .. Len(r) : x = r[i]
      BY DEF Numbers
    <3> QED BY <1>1, <1>5, <3>1
  <2>2. ASSUME NEW x \in Numbers(s) PROVE x \in Numbers(r)
    <3>1. PICK i \in 1 .. Len(s) : x = s[i]
      BY DEF Numbers
    <3>2. i \in 1 .. Len(r) /\ x = r[i]
      BY <1>1, <1>4, <3>1
    <3> QED BY <3>2 DEF Numbers
  <2>3. ASSUME NEW x \in low + 1 .. low + k PROVE x \in Numbers(r)
    <3>1. x - low \in 1 .. k /\ x = low + (x - low)
      OBVIOUS
    <3>2. Len(s) + (x - low) \in 1 .. Len(r)
      BY <1>1, <1>4, <3>1
    <3>3. r[Len(s) + (x - low)] = x
      BY ONLY <1>4, <3>1
    <3> QED BY <3>2, <3>3 DEF Numbers
  <2> QED BY <2>1, <2>2, <2>3
<1> QED BY <1>0, <1>4, <1>7, <1>8 DEF Joined

\* The lines a new line brings are the last p up to it, all after those given out, and they are
\* what it adds to the lines around matches.
LEMMA NewLinesRun ==
    ASSUME ScanTypeOK, ContextExact, Reading, scan = "reading",
           NEW m \in BOOLEAN, matched' = Append(matched, m), UNCHANGED context
    PROVE  \E p \in 0 .. Len(matched) + 1 :
              /\ NewLines(m) \in Seq(Nat) /\ Len(NewLines(m)) = p
              /\ \A i \in 1 .. p : NewLines(m)[i] = Len(matched) + 1 - p + i
              /\ lastEmitted <= Len(matched) + 1 - p
              /\ Around' = Around \cup (Len(matched) + 2 - p .. Len(matched) + 1)
              /\ m => p > 0
              /\ ~m => p <= 1 /\ (p = 1 <=> after > 0)
<1>1. PICK n, c : n = Len(matched) /\ c = context
  OBVIOUS
<1>2. n \in Nat /\ c \in Nat
  BY <1>1 DEF ScanTypeOK
<1>3. /\ Len(matched') = n + 1 /\ matched'[n + 1] = m /\ \A j \in 1 .. n : matched'[j] = matched[j]
  BY <1>1 DEF ScanTypeOK
<1>4. Around = {i \in 1 .. n : \E j \in 1 .. n : matched[j] /\ i - j <= c /\ j - i <= c}
  BY <1>1 DEF Around
<1>5. Around' = {i \in 1 .. n + 1 : \E j \in 1 .. n + 1 : matched'[j] /\ i - j <= c /\ j - i <= c}
  BY <1>1, <1>3 DEF Around
<1>6. Numbers(found) = Around
  BY DEF ContextExact
<1>7. lastEmitted \in Nat /\ lastEmitted <= n /\ (lastEmitted > 0 => lastEmitted \in Around)
      /\ \A l \in Around : l <= lastEmitted
  BY <1>1, <1>2, <1>4, <1>6 DEF Reading, LastGiven, ScanTypeOK
<1>8. CASE ~m /\ ~(after > 0)
  <2>1. NewLines(m) = <<>>
    BY <1>8 DEF NewLines
  <2>2. ~\E j \in 1 .. n : matched[j] /\ n + 1 - j <= c
    BY <1>1, <1>8 DEF Reading, Reach, ScanTypeOK
  <2>3. Around' = Around
    BY <1>2, <1>3, <1>4, <1>5, <1>8, <2>2
  <2>4. Around' = Around \cup (n + 2 .. n + 1)
    BY <1>2, <2>3
  <2> QED BY <1>1, <1>2, <1>7, <1>8, <2>1, <2>4
<1>9. CASE ~m /\ after > 0
  <2>1. NewLines(m) = <<n + 1>>
    BY <1>1, <1>9 DEF NewLines
  <2>2. \E j \in 1 .. n : matched[j] /\ n + 1 - j <= c
    BY <1>1, <1>9 DEF Reading, Reach, ScanTypeOK
  <2>3. Around' = Around \cup {n + 1}
    BY <1>2, <1>3, <1>4, <1>5, <1>9, <2>2
  <2>4. Around' = Around \cup (n + 1 .. n + 1)
    BY <1>2, <2>3
  <2> QED BY <1>1, <1>2, <1>7, <1>9, <2>1, <2>4
<1>10. CASE m
  <2>1. PICK w : w = Kept
    OBVIOUS
  <2>2. /\ w \in Nat /\ w <= n /\ w <= c /\ (w = n \/ w = c)
        /\ Len(previous) = w /\ \A k \in 1 .. w : previous[k] = n - w + k
    <3>1. w \in Nat /\ w <= n /\ w <= c /\ (w = n \/ w = c)
      BY <1>1, <1>2, <2>1 DEF Kept
    <3>2. Len(previous) = w /\ \A k \in 1 .. w : previous[k] = n - w + k
      BY <1>1, <2>1 DEF Reading, Window
    <3> QED BY <3>1, <3>2
  <2>3. PICK q \in 0 .. w : /\ q = 0 => lastEmitted <= n - w
                            /\ q > 0 => q = lastEmitted - (n - w)
    <3>1. CASE lastEmitted <= n - w
      BY <2>2, <3>1
    <3>2. CASE lastEmitted > n - w
      <4>1. lastEmitted - (n - w) \in 0 .. w /\ lastEmitted - (n - w) > 0
        BY <1>2, <1>7, <2>2, <3>2
      <4> QED BY <4>1
    <3> QED BY <1>2, <1>7, <2>2, <3>1, <3>2
  <2>4. {i \in 1 .. w : previous[i] <= lastEmitted} = 1 .. q
    BY <1>2, <1>7, <2>2, <2>3
  <2>5. Cardinality(1 .. q) = q
    BY FS_Interval
  <2>6. PICK b : b = SubSeq(previous, q + 1, w)
    OBVIOUS
  <2>7. NotEmitted = b
    BY <2>2, <2>4, <2>5, <2>6 DEF NotEmitted
  <2>8. b \in Seq(Nat) /\ Len(b) = w - q /\ \A i \in 1 .. w - q : b[i] = n - w + q + i
    <3>1. previous \in Seq(Nat) /\ q \in Nat /\ q <= w
      BY <2>2 DEF ScanTypeOK
    <3>2. b \in Seq(Nat) /\ Len(b) = w - q
      BY <2>2, <2>6, <3>1, SubSeqProperties
    <3>3. \A i \in 1 .. w - q : b[i] = previous[q + i]
      BY <2>2, <2>6, <3>1, SubSeqProperties
    <3>4. \A i \in 1 .. w - q : q + i \in 1 .. w
      BY <2>2, <3>1
    <3>5. \A i \in 1 .. w - q : b[i] = n - w + (q + i)
      BY <2>2, <3>3, <3>4
    <3> QED BY <1>2, <2>2, <3>1, <3>2, <3>5
  <2>9. NewLines(m) = Append(b, n + 1)
    BY <1>1, <1>10, <2>7 DEF NewLines
  <2>10. PICK p \in Nat : p = w - q + 1 /\ p <= n + 1
    BY <1>2, <2>2, <2>3
  <2>11. /\ NewLines(m) \in Seq(Nat) /\ Len(NewLines(m)) = p
         /\ \A i \in 1 .. p : NewLines(m)[i] = n + 1 - p + i
    <3>1. /\ NewLines(m) \in Seq(Nat) /\ Len(NewLines(m)) = w - q + 1
          /\ \A i \in 1 .. w - q : NewLines(m)[i] = b[i]
          /\ NewLines(m)[w - q + 1] = n + 1
      BY <1>2, <2>8, <2>9
    <3>2. ASSUME NEW i \in 1 .. p PROVE NewLines(m)[i] = n + 1 - p + i
      <4>1. i \in 1 .. w - q \/ i = w - q + 1
        BY <2>2, <2>3, <2>10
      <4>2. CASE i \in 1 .. w - q
        <5>1. NewLines(m)[i] = n - w + q + i
          BY <2>8, <3>1, <4>2
        <5> QED BY <1>2, <2>2, <2>3, <2>10, <5>1
      <4>3. CASE i = w - q + 1
        BY <1>2, <2>2, <2>3, <2>10, <3>1, <4>3
      <4> QED BY <4>1, <4>2, <4>3
    <3> QED BY <2>10, <3>1, <3>2
  <2>12. lastEmitted <= n + 1 - p
    BY <1>2, <1>7, <2>2, <2>3, <2>10
  <2>13. ASSUME NEW i \in 1 .. n + 1
         PROVE  i \in Around' <=> i \in Around \/ n + 1 - i <= c
    BY <1>2, <1>3, <1>4, <1>5, <1>10
  <2>14. ASSUME NEW i \in 1 .. n + 1
         PROVE  i \in Around \/ n + 1 - i <= c <=> i \in Around \/ i \in n + 2 - p .. n + 1
    <3>1. CASE n + 1 - i <= c /\ i < n + 2 - p
      <4>1. i \in 1 .. n /\ i <= lastEmitted /\ lastEmitted > 0
        BY <1>2, <1>7, <2>2, <2>3, <2>10, <3>1
      <4>2. PICK j \in 1 .. n : matched[j] /\ lastEmitted - j <= c /\ j - lastEmitted <= c
        BY <1>4, <1>7, <4>1
      <4>3. j \in Around
        BY <1>2, <1>4, <4>2
      <4>4. j <= lastEmitted
        BY <1>7, <4>3
      <4>5. i - j <= c /\ j - i <= c
        BY <1>2, <1>7, <3>1, <4>1, <4>2, <4>4
      <4>6. i \in Around
        BY <1>4, <4>1, <4>2, <4>5
      <4> QED BY <4>6
    <3>2. CASE i >= n + 2 - p
      BY <1>2, <2>2, <2>3, <2>10, <3>2
    <3>3. CASE ~(n + 1 - i <= c) /\ i < n + 2 - p
      BY <1>2, <2>10, <3>3
    <3> QED BY <1>2, <2>10, <3>1, <3>2, <3>3
  <2>15. Around' = Around \cup (n + 2 - p .. n + 1)
    <3>1. Around' \subseteq 1 .. n + 1 /\ Around \subseteq 1 .. n + 1
      BY <1>2, <1>4, <1>5
    <3>2. n + 2 - p .. n + 1 \subseteq 1 .. n + 1
      BY <1>2, <2>10
    <3> QED BY <2>13, <2>14, <3>1, <3>2
  <2>16. p \in 0 .. n + 1 /\ p > 0
    BY <1>2, <2>2, <2>3, <2>10
  <2> QED BY <1>1, <1>10, <2>11, <2>12, <2>15, <2>16
<1> QED BY <1>8, <1>9, <1>10

\* The lines given out, followed by the first of the new ones.
LEMMA GivenOut ==
    ASSUME ScanTypeOK, ContextExact, Reading, scan = "reading",
           NEW m \in BOOLEAN, matched' = Append(matched, m), UNCHANGED context,
           NEW room \in 0 .. Len(NewLines(m)),
           NEW r, r = found \o SubSeq(NewLines(m), 1, room)
    PROVE  /\ r \in Seq(Nat) /\ Rising(r)
           /\ Numbers(r) \subseteq Around'
           /\ \A l \in Around' \ Numbers(r) : \A g \in Numbers(r) : g < l
           /\ room = Len(NewLines(m)) =>
                /\ Numbers(r) = Around'
                /\ IF NewLines(m) = <<>> THEN Numbers(r) = Numbers(found)
                   ELSE /\ Len(matched') \in Numbers(r)
                        /\ \A l \in Numbers(r) : l <= Len(matched')
<1>1. PICK p \in 0 .. Len(matched) + 1 :
         /\ NewLines(m) \in Seq(Nat) /\ Len(NewLines(m)) = p
         /\ \A i \in 1 .. p : NewLines(m)[i] = Len(matched) + 1 - p + i
         /\ lastEmitted <= Len(matched) + 1 - p
         /\ Around' = Around \cup (Len(matched) + 2 - p .. Len(matched) + 1)
  BY NewLinesRun
<1>2. PICK n, low : n = Len(matched) /\ low = Len(matched) + 1 - p
  OBVIOUS
<1>3. n \in Nat /\ low \in Nat /\ low + 1 = n + 2 - p /\ low + p = n + 1 /\ Len(matched') = n + 1
  BY <1>1, <1>2 DEF ScanTypeOK
<1>4. \A x \in Numbers(found) : x \in Nat /\ x <= low
  <2>1. lastEmitted \in Nat /\ lastEmitted <= low /\ low \in Nat
    BY <1>1, <1>2, <1>3 DEF ScanTypeOK
  <2>2. \A x \in Numbers(found) : x \in Nat
    BY ElementOfSeq DEF Numbers, ScanTypeOK
  <2>3. \A x \in Numbers(found) : x <= lastEmitted
    BY DEF Reading, LastGiven
  <2> QED BY <2>1, <2>2, <2>3
<1>5. room \in 0 .. p /\ Rising(found) /\ found \in Seq(Nat)
  BY <1>1 DEF ContextExact, ScanTypeOK, Rising
<1>6. PICK t : t = NewLines(m) /\ t \in Seq(Nat) /\ Len(t) = p /\ \A i \in 1 .. Len(t) : t[i] = low + i
  BY <1>1, <1>2
<1>7. /\ r \in Seq(Nat) /\ Rising(r)
      /\ Numbers(r) = Numbers(found) \cup (low + 1 .. low + room)
  <2>1. PICK f : f = found
    OBVIOUS
  <2>2. f \in Seq(Nat) /\ Rising(f) /\ UpTo(f, low)
    BY <1>4, <1>5, <2>1 DEF UpTo
  <2>3. r = f \o SubSeq(t, 1, room) /\ room \in 0 .. Len(t)
    BY <1>5, <1>6, <2>1
  <2>4. t \in Seq(Nat) /\ RunAfter(t, low)
    BY <1>6 DEF RunAfter
  <2>5. Joinable(f, t, low, room)
    BY <1>3, <2>2, <2>3, <2>4 DEF Joinable
  <2>6. Joined(f \o SubSeq(t, 1, room), f, low, room)
    BY ONLY <2>5, RunAppended
  <2> QED BY <2>1, <2>3, <2>6 DEF Joined
<1>8. Numbers(found) = Around /\ Around' = Around \cup (low + 1 .. low + p)
  BY <1>1, <1>2, <1>3 DEF ContextExact
<1>9. ASSUME NEW l \in Around' \ Numbers(r), NEW g \in Numbers(r) PROVE g < l
  <2>1. l \in low + 1 .. low + p /\ l > low + room
    BY <1>3, <1>5, <1>7, <1>8
  <2>2. g \in Nat /\ g <= low + room
    BY <1>3, <1>4, <1>5, <1>7
  <2> QED BY <1>3, <1>5, <2>1, <2>2
<1>10. Numbers(r) \subseteq Around'
  BY <1>3, <1>5, <1>7, <1>8
<1>11. ASSUME room = Len(NewLines(m))
       PROVE  /\ Numbers(r) = Around'
              /\ IF NewLines(m) = <<>> THEN Numbers(r) = Numbers(found)
                 ELSE /\ Len(matched') \in Numbers(r)
                      /\ \A l \in Numbers(r) : l <= Len(matched')
  <2>1. room = p /\ (NewLines(m) = <<>> <=> p = 0)
    BY <1>1, <1>11, EmptySeq
  <2>2. p # 0 => n + 1 \in low + 1 .. low + p
    BY <1>1, <1>3
  <2>3. p = 0 => low + 1 .. low + p = {}
    BY <1>3
  <2>4. \A l \in Numbers(r) : l <= n + 1
    BY <1>1, <1>2, <1>3, <1>4, <1>7, <2>1
  <2> QED BY <1>3, <1>7, <1>8, <2>1, <2>2, <2>3, <2>4
<1> QED BY <1>7, <1>9, <1>10, <1>11

\* The window moves on.
LEMMA WindowSlides ==
    ASSUME ScanTypeOK, Window, NEW m \in BOOLEAN, matched' = Append(matched, m), UNCHANGED context,
           Slide(Len(matched'))
    PROVE  Window' /\ previous' \in Seq(Nat)
<1>1. PICK n, c, w : n = Len(matched) /\ c = context /\ w = Kept
  OBVIOUS
<1>2. n \in Nat /\ c \in Nat /\ Len(matched') = n + 1 /\ w \in Nat
  BY <1>1 DEF ScanTypeOK, Kept
<1>3. w = IF c < n THEN c ELSE n
  BY <1>1 DEF Kept
<1>4. Kept' = IF c < n + 1 THEN c ELSE n + 1
  BY <1>1, <1>2 DEF Kept
<1>5. previous \in Seq(Nat) /\ Len(previous) = w /\ \A k \in 1 .. w : previous[k] = n - w + k
  BY <1>1 DEF Window, ScanTypeOK
<1>6. CASE c = 0
  <2>1. Kept' = 0 /\ w = 0 /\ previous' = previous
    BY <1>1, <1>2, <1>3, <1>4, <1>6 DEF Slide
  <2> QED BY <1>5, <2>1 DEF Window
<1>7. CASE c # 0 /\ w = c
  <2>1. previous' = Append(Tail(previous), n + 1)
    BY <1>1, <1>2, <1>5, <1>7 DEF Slide
  <2>2. /\ Tail(previous) \in Seq(Nat) /\ Len(Tail(previous)) = c - 1
        /\ \A k \in 1 .. c - 1 : Tail(previous)[k] = previous[k + 1]
    BY <1>2, <1>5, <1>7, HeadTailProperties, EmptySeq
  <2>3. /\ previous' \in Seq(Nat) /\ Len(previous') = c
        /\ \A k \in 1 .. c - 1 : previous'[k] = previous[k + 1]
        /\ previous'[c] = n + 1
    BY <1>2, <2>1, <2>2
  <2>4. Kept' = c /\ c <= n
    BY <1>2, <1>3, <1>4, <1>7
  <2>5. ASSUME NEW k \in 1 .. c PROVE previous'[k] = n + 1 - c + k
    <3>1. CASE k = c
      BY <1>2, <2>3, <3>1
    <3>2. CASE k # c
      <4>1. k \in 1 .. c - 1 /\ k + 1 \in 1 .. w
        BY <1>2, <1>7, <3>2
      <4> QED BY <1>2, <1>5, <1>7, <2>3, <4>1
    <3> QED BY <3>1, <3>2
  <2> QED BY <1>2, <2>3, <2>4, <2>5 DEF Window
<1>8. CASE c # 0 /\ w # c
  <2>1. w = n /\ n < c
    BY <1>2, <1>3, <1>8
  <2>2. previous' = Append(previous, n + 1)
    BY <1>1, <1>2, <1>5, <1>8 DEF Slide
  <2>3. /\ previous' \in Seq(Nat) /\ Len(previous') = n + 1
        /\ \A k \in 1 .. n : previous'[k] = previous[k]
        /\ previous'[n + 1] = n + 1
    BY <1>2, <1>5, <2>1, <2>2
  <2>4. Kept' = n + 1
    BY <1>2, <1>4, <2>1
  <2>5. \A k \in 1 .. n + 1 : previous'[k] = n + 1 - (n + 1) + k
    BY <1>2, <1>5, <2>1, <2>3
  <2> QED BY <1>2, <2>3, <2>4, <2>5 DEF Window
<1> QED BY <1>6, <1>7, <1>8

\* The lines still to come after a line that matches, or after one that does not.
LEMMA ReachMoves ==
    ASSUME ScanTypeOK, Reach, NEW m \in BOOLEAN, matched' = Append(matched, m), UNCHANGED context,
           after' = IF m THEN context ELSE IF after > 0 THEN after - 1 ELSE 0
    PROVE  Reach' /\ after' \in Nat
<1>1. PICK n, c : n = Len(matched) /\ c = context
  OBVIOUS
<1>2. /\ n \in Nat /\ c \in Nat /\ after \in Nat
      /\ Len(matched') = n + 1 /\ matched'[n + 1] = m /\ \A j \in 1 .. n : matched'[j] = matched[j]
  BY <1>1 DEF ScanTypeOK
<1>3. ASSUME NEW d \in Nat \ {0}
      PROVE  d <= after' <=> \E j \in 1 .. n + 1 : matched'[j] /\ n + 1 + d - j <= c
  <2>1. CASE m
    BY <1>1, <1>2, <2>1
  <2>2. CASE ~m
    <3>1. d + 1 \in Nat \ {0} /\ (d <= after' <=> d + 1 <= after)
      BY <1>2, <2>2
    <3>2. d + 1 <= after <=> \E j \in 1 .. n : matched[j] /\ n + (d + 1) - j <= c
      BY <1>1, <3>1 DEF Reach
    <3> QED BY <1>2, <2>2, <3>1, <3>2
  <2> QED BY <2>1, <2>2
<1>4. Len(matched)' = n + 1 /\ context' = c
  BY <1>1, <1>2
<1>5. Reach'
  BY <1>3, <1>4 DEF Reach
<1> QED BY <1>1, <1>2, <1>5

LEMMA ScanLineKeeps ==
    ASSUME ScanInv, NEW m \in BOOLEAN, ScanLine(m)
    PROVE  ScanInv'
<1>1. /\ scan = "reading" /\ matched' = Append(matched, m) /\ UNCHANGED <<context, matchLimit>>
      /\ ScanTypeOK /\ ContextExact /\ Reading
  BY DEF ScanInv, ScanLine
<1>2. PICK p \in 0 .. Len(matched) + 1 : NewLines(m) \in Seq(Nat) /\ Len(NewLines(m)) = p
  BY <1>1, NewLinesRun
<1>3. matched' \in Seq(BOOLEAN) /\ Len(matched') \in Nat
  BY <1>1 DEF ScanTypeOK
<1>4. CASE /\ \E room \in 0 .. Len(NewLines(m)) - 1 :
                 found' = found \o SubSeq(NewLines(m), 1, room)
           /\ scan' = "stopped"
           /\ UNCHANGED <<previous, after, lastEmitted, matches>>
  <2>1. PICK room \in 0 .. Len(NewLines(m)) : found' = found \o SubSeq(NewLines(m), 1, room)
    <3>1. Len(NewLines(m)) \in Nat
      BY <1>2
    <3>2. 0 .. Len(NewLines(m)) - 1 \subseteq 0 .. Len(NewLines(m))
      BY <3>1
    <3>3. \E room \in 0 .. Len(NewLines(m)) - 1 : found' = found \o SubSeq(NewLines(m), 1, room)
      BY <1>4
    <3> QED BY ONLY <3>2, <3>3
  <2>2. PICK r : r = found'
    OBVIOUS
  <2>3. /\ r \in Seq(Nat) /\ Rising(r)
        /\ Numbers(r) \subseteq Around'
        /\ \A l \in Around' \ Numbers(r) : \A g \in Numbers(r) : g < l
    BY <1>1, <2>1, <2>2, GivenOut
  <2>4. ScanTypeOK'
    BY <1>1, <1>3, <1>4, <2>2, <2>3 DEF ScanTypeOK
  <2>5. Numbers(found)' = Numbers(r)
    BY <2>2 DEF Numbers
  <2>6. matches' <= matchLimit'
    BY <1>1, <1>4 DEF ContextExact
  <2>7. ContextExact'
    BY <1>4, <2>2, <2>3, <2>5, <2>6 DEF ContextExact, Rising
  <2> QED BY <1>4, <2>4, <2>7 DEF ScanInv
<1>5. CASE /\ found' = found \o NewLines(m)
           /\ matches' = IF m THEN matches + 1 ELSE matches
           /\ scan' = IF m /\ matches' >= matchLimit THEN "stopped" ELSE scan
           /\ lastEmitted' = IF NewLines(m) = <<>> THEN lastEmitted ELSE Len(matched')
           /\ after' = IF m THEN context ELSE IF after > 0 THEN after - 1 ELSE 0
           /\ Slide(Len(matched'))
  <2>1. PICK r : r = found'
    OBVIOUS
  <2>2. SubSeq(NewLines(m), 1, p) = NewLines(m)
    BY <1>2
  <2>3. r = found \o SubSeq(NewLines(m), 1, p)
    BY <1>5, <2>1, <2>2
  <2>4. /\ r \in Seq(Nat) /\ Rising(r) /\ Numbers(r) = Around'
        /\ IF NewLines(m) = <<>> THEN Numbers(r) = Numbers(found)
           ELSE /\ Len(matched') \in Numbers(r)
                /\ \A l \in Numbers(r) : l <= Len(matched')
    <3>1. p \in 0 .. Len(NewLines(m)) /\ p = Len(NewLines(m))
      BY <1>2
    <3> QED BY <1>1, <2>3, <3>1, GivenOut
  <2>5. Window' /\ previous' \in Seq(Nat) /\ Reach' /\ after' \in Nat
    BY <1>1, <1>5, WindowSlides, ReachMoves DEF Reading
  <2>6. Numbers(found)' = Numbers(r)
    BY <2>1 DEF Numbers
  <2>7. LastGiven'
    BY <1>1, <1>5, <2>4, <2>6 DEF LastGiven, Reading
  <2>8. /\ matches' \in Nat /\ matches' <= matchLimit' /\ scan' \in {"reading", "stopped"}
        /\ scan' = "reading" => matches' < matchLimit'
    BY <1>1, <1>5 DEF ScanTypeOK, Reading
  <2>9. ScanTypeOK'
    BY <1>1, <1>3, <1>5, <2>1, <2>4, <2>5, <2>8 DEF ScanTypeOK
  <2>10. ContextExact'
    BY <2>1, <2>4, <2>6, <2>8 DEF ContextExact, Rising
  <2> QED BY <2>5, <2>7, <2>8, <2>9, <2>10 DEF ScanInv, Reading
<1> QED BY <1>4, <1>5 DEF ScanLine

\* ContextExact: the answer has the matches of a file and the lines around them, each once and in
\* order, and a search that was stopped lacks only later ones.  For any file, width of the context
\* and limit.
THEOREM AnswerIsContext == ScanSpec => []ContextExact
<1>1. ScanInit => ScanInv
  <2> SUFFICES ASSUME ScanInit PROVE ScanInv
    OBVIOUS
  <2>1. ScanTypeOK
    BY ScanConstantsOK DEF ScanInit, ScanTypeOK
  <2>2. Numbers(found) = {} /\ Around = {} /\ Len(found) = 0
    BY DEF ScanInit, Numbers, Around
  <2>3. ContextExact
    BY <2>1, <2>2 DEF ScanInit, ContextExact, ScanTypeOK
  <2>4. Reading
    BY <2>1, <2>2 DEF ScanInit, Reading, Window, Kept, Reach, LastGiven, ScanTypeOK
  <2> QED BY <2>1, <2>3, <2>4 DEF ScanInv
<1>2. ScanInv /\ [ScanNext]_scanVars => ScanInv'
  <2> SUFFICES ASSUME ScanInv, [ScanNext]_scanVars PROVE ScanInv'
    OBVIOUS
  <2>1. CASE \E m \in BOOLEAN : ScanLine(m)
    BY <2>1, ScanLineKeeps
  <2>2. CASE EndFile
    <3>1. ScanTypeOK' /\ scan = "reading" /\ scan' # "reading"
      BY <2>2 DEF EndFile, ScanInv, ScanTypeOK
    <3>2. Around' = Around /\ Numbers(found)' = Numbers(found)
      BY <2>2 DEF EndFile, Around, Numbers
    <3>3. ContextExact'
      BY <2>2, <3>1, <3>2 DEF EndFile, ScanInv, ContextExact
    <3> QED BY <3>1, <3>3 DEF ScanInv
  <2>3. CASE UNCHANGED scanVars
    <3>1. ScanTypeOK'
      BY <2>3 DEF scanVars, ScanInv, ScanTypeOK
    <3>2. ContextExact'
      <4>1. UNCHANGED <<context, matchLimit, matched, found, matches, scan>> /\ ContextExact
        BY <2>3 DEF scanVars, ScanInv
      <4>2. Around' = Around /\ Numbers(found)' = Numbers(found)
        BY ONLY <4>1 DEF Around, Numbers
      <4> QED BY ONLY <4>1, <4>2 DEF ContextExact
    <3>3. scan' = "reading" => Reading'
      BY <2>3 DEF scanVars, ScanInv, Reading, Window, Kept, Reach, LastGiven, Numbers
    <3> QED BY <3>1, <3>2, <3>3 DEF ScanInv
  <2> QED BY <2>1, <2>2, <2>3 DEF ScanNext
<1>3. ScanInv => ContextExact
  BY DEF ScanInv
<1> QED BY <1>1, <1>2, <1>3, PTL DEF ScanSpec

-----------------------------------------------------------------------------
(* SearchWalk *)

\* A set of naturals that is not empty has a least member.
LEMMA LeastNat ==
    ASSUME NEW T \in SUBSET Nat, T # {}
    PROVE  \E n \in T : \A m \in T : n <= m
<1>1. PICK n \in T : \A m \in T : <<m, n>> \notin OpToRel(<, Nat)
  BY WFMin, NatLessThanWellFounded
<1>2. ASSUME NEW m \in T PROVE n <= m
  <2>1. ~(m < n)
    BY <1>1 DEF OpToRel
  <2> QED BY <2>1
<1> QED BY <1>2

(* The tree *)

TreeOK ==
    /\ kind \in [Entries -> {"dir", "file", "link", "vcs"}]
    /\ parent \in [Entries -> 0 .. Size]
    /\ \A n \in Entries : parent[n] < n /\ parent[n] \in Directories

LEMMA EntriesAre ==
    ASSUME NEW n
    PROVE  n \in Entries <=> n \in 0 .. Size /\ n # 0
BY WalkConstantsOK DEF Entries

LEMMA ParentIs ==
    ASSUME TreeOK, NEW n \in Entries
    PROVE  /\ n \in Nat /\ parent[n] \in Nat /\ parent[n] < n /\ parent[n] \in 0 .. Size
           /\ parent[n] # 0 => parent[n] \in Entries /\ kind[parent[n]] \in {"dir", "vcs"}
<1>1. n \in Nat /\ parent[n] \in 0 .. Size /\ parent[n] < n /\ parent[n] \in Directories
  BY WalkConstantsOK DEF TreeOK, Entries
<1>2. parent[n] # 0 => parent[n] \in Entries
  BY <1>1, EntriesAre
<1> QED BY <1>1, <1>2, WalkConstantsOK DEF Directories

ToStep(f, d) == IF d = 0 THEN rules[0] ELSE f[parent[d]] \o rules[d]

\* f gathers the rules on the way to each directory up to k.
Collects(f, k) == f = [d \in 0 .. k |-> ToStep(f, d)]

\* The recursion of RulesTo has a solution, for the directory of an entry has a lower number.
LEMMA RulesToIs ==
    ASSUME TreeOK
    PROVE  \A d \in 0 .. Size : RulesTo[d] = IF d = 0 THEN rules[0] ELSE RulesTo[parent[d]] \o rules[d]
<1> DEFINE Solved(k) == \E f : Collects(f, k)
           Unsolved == {k \in Nat : k <= Size /\ ~Solved(k)}
<1>1. Solved(0)
  <2> DEFINE f == [d \in 0 .. 0 |-> rules[0]]
  <2>1. Collects(f, 0)
    BY DEF Collects, ToStep
  <2> QED BY <2>1
<1>2. ASSUME NEW k \in Nat, k + 1 <= Size, Solved(k) PROVE Solved(k + 1)
  <2>1. PICK f : Collects(f, k)
    BY <1>2
  <2> DEFINE h == [d \in 0 .. k + 1 |-> ToStep(f, d)]
  <2>2. f = [d \in 0 .. k |-> ToStep(f, d)]
    BY <2>1 DEF Collects
  <2>3. \A d \in 0 .. k : h[d] = f[d]
    BY <2>2
  <2>4. ASSUME NEW d \in 0 .. k + 1 PROVE ToStep(f, d) = ToStep(h, d)
    <3>1. d # 0 => parent[d] \in 0 .. k
      <4>1. d # 0 => d \in Entries
        BY <1>2, EntriesAre, WalkConstantsOK
      <4> QED BY <4>1, ParentIs
    <3>2. d # 0 => h[parent[d]] = f[parent[d]]
      BY <2>3, <3>1
    <3> HIDE DEF h
    <3> QED BY <3>2 DEF ToStep
  <2>5. h = [d \in 0 .. k + 1 |-> ToStep(h, d)]
    BY <2>4
  <2>6. Collects(h, k + 1)
    BY <2>5 DEF Collects
  <2> QED BY <2>6
<1>3. Unsolved = {}
  <2> SUFFICES ASSUME Unsolved # {} PROVE FALSE
    OBVIOUS
  <2> HIDE DEF Solved
  <2>1. PICK k \in Unsolved : \A l \in Unsolved : k <= l
    <3>1. Unsolved \in SUBSET Nat
      OBVIOUS
    <3> HIDE DEF Unsolved
    <3> QED BY <3>1, LeastNat
  <2>2. k # 0
    BY <1>1
  <2>3. k - 1 \in Nat /\ k - 1 \notin Unsolved /\ (k - 1) + 1 = k /\ k <= Size
    BY <2>1, <2>2
  <2>4. Solved((k - 1) + 1)
    BY <1>2, <2>3, WalkConstantsOK
  <2> QED BY <2>3, <2>4
<1>4. \E f : Collects(f, Size)
  <2> HIDE DEF Solved
  <2>1. Solved(Size)
    BY <1>3, WalkConstantsOK
  <2> QED BY <2>1 DEF Solved
<1>5. RulesTo = CHOOSE f : Collects(f, Size)
  BY DEF RulesTo, Collects, ToStep
<1>6. Collects(RulesTo, Size)
  BY <1>4, <1>5
<1>7. RulesTo = [d \in 0 .. Size |-> ToStep(RulesTo, d)]
  BY <1>6 DEF Collects
<1> QED BY <1>7 DEF ToStep

LEMMA SearchableIs ==
    ASSUME TreeOK, NEW n \in Entries
    PROVE  n \in Searchable <=> Plain(n) /\ parent[n] \in Searchable \cup {0}
<1>1. ASSUME n \in Searchable PROVE Plain(n) /\ parent[n] \in Searchable \cup {0}
  <2>1. PICK seen \in SUBSET Entries :
            n \in seen /\ \A m \in seen : Plain(m) /\ parent[m] \in seen \cup {0}
    BY <1>1 DEF Searchable
  <2>2. seen \subseteq Searchable
    BY <2>1 DEF Searchable
  <2> QED BY <2>1, <2>2
<1>2. ASSUME Plain(n), parent[n] \in Searchable \cup {0} PROVE n \in Searchable
  <2>1. PICK seen \in SUBSET Entries :
            /\ parent[n] \in seen \cup {0}
            /\ \A m \in seen : Plain(m) /\ parent[m] \in seen \cup {0}
    <3>1. CASE parent[n] = 0
      <4>1. {} \in SUBSET Entries /\ \A m \in {} : Plain(m) /\ parent[m] \in {} \cup {0}
        OBVIOUS
      <4> QED BY <3>1, <4>1
    <3>2. CASE parent[n] \in Searchable
      BY <3>2 DEF Searchable
    <3> QED BY <1>2, <3>1, <3>2
  <2>2. seen \cup {n} \in SUBSET Entries
        /\ \A m \in seen \cup {n} : Plain(m) /\ parent[m] \in (seen \cup {n}) \cup {0}
    BY <1>2, <2>1
  <2> QED BY <2>2 DEF Searchable
<1> QED BY <1>1, <1>2

LEMMA SearchableFinite ==
    Searchable \subseteq Entries /\ IsFiniteSet(Searchable) /\ Cardinality(Searchable) \in Nat
<1>1. Searchable \subseteq Entries
  BY DEF Searchable
<1>2. IsFiniteSet(Entries)
  BY WalkConstantsOK, FS_Interval DEF Entries
<1> QED BY <1>1, <1>2, FS_Subset, FS_CardinalityType

(* The calls under way *)

Frames == [dir : 0 .. Size, left : SUBSET Entries, rules : {RulesTo[d] : d \in 0 .. Size}]

\* The calls of fs lead from the root into directories that were met; what they have left are
\* entries of theirs, none of which is among those met, V.
Stack(fs, V) ==
    /\ fs \in Seq(Frames) /\ Len(fs) # 0
    /\ \A k \in 1 .. Len(fs) :
          /\ fs[k].left \subseteq Children(fs[k].dir) \ V
          /\ fs[k].rules = RulesTo[fs[k].dir]
          /\ fs[k].dir \in V \cup {0}
    /\ \A j, k \in 1 .. Len(fs) : j < k => fs[j].dir < fs[k].dir
    /\ \A n \in V : parent[n] \in V \cup {0}

Waiting(fs, n) == \E k \in 1 .. Len(fs) : n \in fs[k].left

\* Of a directory that was met, each entry was or is waiting.
NoneLost(fs, V) ==
    \A n \in Searchable : parent[n] \in V \cup {0} => n \in V \/ Waiting(fs, n)

\* ps are the calls of fs after the last has taken n.
Takes(ps, fs, n) ==
    /\ ps \in Seq(Frames) /\ Len(ps) = Len(fs)
    /\ \A k \in 1 .. Len(fs) - 1 : ps[k] = fs[k]
    /\ ps[Len(fs)] = [fs[Len(fs)] EXCEPT !.left = @ \ {n}]

\* n is an entry that the last call has left.
Ready(fs, V, n) == V \in SUBSET Entries /\ Stack(fs, V) /\ n \in fs[Len(fs)].left

LEMMA ReadyIs ==
    ASSUME TreeOK, NEW V, NEW fs, NEW n, Ready(fs, V, n)
    PROVE  /\ n \in Entries /\ n \notin V /\ parent[n] = fs[Len(fs)].dir /\ parent[n] \in V \cup {0}
           /\ fs[Len(fs)].rules = RulesTo[parent[n]]
<1>1. PICK N : N = Len(fs) /\ N \in 1 .. N
  BY DEF Ready, Stack
<1>2. n \in Entries /\ n \notin V /\ parent[n] = fs[N].dir
  BY <1>1 DEF Ready, Stack, Children
<1> QED BY <1>1, <1>2 DEF Ready, Stack

LEMMA TakenIs ==
    ASSUME TreeOK, NEW V \in SUBSET Entries, NEW fs, Stack(fs, V), NEW n \in fs[Len(fs)].left
    PROVE  /\ n \in Entries /\ n \notin V /\ parent[n] = fs[Len(fs)].dir /\ parent[n] \in V \cup {0}
           /\ fs[Len(fs)].rules = RulesTo[parent[n]]
           /\ \A k \in 1 .. Len(fs) : n \in fs[k].left => k = Len(fs)
           /\ \A k \in 1 .. Len(fs) : fs[k].dir < n
           /\ Len(fs) \in Nat /\ Len(fs) \in 1 .. Len(fs)
<1>1. Len(fs) \in Nat /\ Len(fs) \in 1 .. Len(fs)
  BY DEF Stack
<1>2. PICK N : N = Len(fs)
  OBVIOUS
<1>3. Ready(fs, V, n)
  BY DEF Ready
<1>4. n \in Entries /\ n \notin V /\ parent[n] = fs[N].dir
  BY <1>2, <1>3, ReadyIs
<1>5. parent[n] \in V \cup {0} /\ fs[N].rules = RulesTo[parent[n]]
  BY <1>2, <1>3, ReadyIs
<1>6. ASSUME NEW k \in 1 .. N, n \in fs[k].left PROVE k = N
  <2>1. fs[k].dir = fs[N].dir
    BY <1>2, <1>4, <1>6 DEF Stack, Children
  <2>2. fs[N].dir \in Nat
    BY <1>4, ParentIs
  <2>3. k < N => fs[k].dir < fs[N].dir
    BY <1>1, <1>2 DEF Stack
  <2> QED BY ONLY <1>1, <1>2, <2>1, <2>2, <2>3, k \in 1 .. N
<1>7. ASSUME NEW k \in 1 .. N PROVE fs[k].dir < n
  <2>1. n \in Nat /\ fs[N].dir \in Nat /\ fs[N].dir < n
    BY <1>4, ParentIs
  <2>2. k < N => fs[k].dir < fs[N].dir
    BY <1>1, <1>2 DEF Stack
  <2>3. fs[k].dir \in Nat
    <3>1. fs[k] \in Frames
      BY <1>2, ElementOfSeq DEF Stack
    <3> QED BY <3>1, WalkConstantsOK DEF Frames
  <2> QED BY ONLY <1>1, <1>2, <2>1, <2>2, <2>3, k \in 1 .. N
<1> QED BY <1>1, <1>2, <1>4, <1>5, <1>6, <1>7

\* The entry taken is passed over, or added to those met.
LEMMA TakeKeepsStack ==
    ASSUME TreeOK, NEW V \in SUBSET Entries, NEW fs, Stack(fs, V), NEW n \in fs[Len(fs)].left,
           NEW ps, Takes(ps, fs, n)
    PROVE  Stack(ps, V) /\ Stack(ps, V \cup {n})
<1>1. PICK N : N = Len(fs) /\ N \in Nat /\ N \in 1 .. N
  BY TakenIs
<1>2. n \in Entries /\ n \notin V /\ parent[n] \in V \cup {0} /\ \A k \in 1 .. N : n \in fs[k].left => k = N
  BY <1>1, TakenIs
<1>3. /\ ps \in Seq(Frames) /\ Len(ps) = N /\ \A k \in 1 .. N - 1 : ps[k] = fs[k]
      /\ ps[N] = [fs[N] EXCEPT !.left = @ \ {n}]
  BY <1>1 DEF Takes
<1>4. ASSUME NEW k \in 1 .. N
      PROVE  ps[k].dir = fs[k].dir /\ ps[k].rules = fs[k].rules /\ ps[k].left = fs[k].left \ {n}
  <2>1. CASE k = N
    <3>1. fs[N] \in Frames
      BY <1>1, ElementOfSeq DEF Stack
    <3> QED BY <1>3, <2>1, <3>1 DEF Frames
  <2>2. CASE k # N
    <3>1. k \in 1 .. N - 1
      BY <1>1, <2>2
    <3> QED BY <1>2, <1>3, <2>2, <3>1
  <2> QED BY <2>1, <2>2
<1>5. \A W : W \in {V, V \cup {n}} => Stack(ps, W)
  <2> SUFFICES ASSUME NEW W, W \in {V, V \cup {n}} PROVE Stack(ps, W)
    OBVIOUS
  <2>1. \A k \in 1 .. N : /\ ps[k].left \subseteq Children(ps[k].dir) \ W
                          /\ ps[k].rules = RulesTo[ps[k].dir] /\ ps[k].dir \in W \cup {0}
    BY <1>1, <1>4 DEF Stack
  <2>2. \A j, k \in 1 .. N : j < k => ps[j].dir < ps[k].dir
    BY <1>1, <1>4 DEF Stack
  <2>3. \A m \in W : parent[m] \in W \cup {0}
    BY <1>2 DEF Stack
  <2> QED BY <1>1, <1>3, <2>1, <2>2, <2>3 DEF Stack
<1> QED BY <1>5

\* Nobody but the entry taken has stopped waiting.
LEMMA TakeLosesOne ==
    ASSUME TreeOK, NEW V \in SUBSET Entries, NEW fs, Stack(fs, V), NEW n \in fs[Len(fs)].left,
           NEW ps, Takes(ps, fs, n)
    PROVE  \A m : m # n /\ Waiting(fs, m) => Waiting(ps, m)
<1> SUFFICES ASSUME NEW m, m # n, NEW k \in 1 .. Len(fs), m \in fs[k].left PROVE Waiting(ps, m)
  BY DEF Waiting
<1>1. Len(fs) \in Nat /\ Len(ps) = Len(fs) /\ \A i \in 1 .. Len(fs) - 1 : ps[i] = fs[i]
  BY TakenIs DEF Takes
<1>2. CASE k # Len(fs)
  <2>1. k \in 1 .. Len(fs) - 1
    BY <1>1, <1>2
  <2> QED BY <1>1, <2>1 DEF Waiting
<1>3. CASE k = Len(fs)
  <2>1. fs[k] \in Frames
    BY ElementOfSeq DEF Stack
  <2>2. m \in ps[k].left
    BY <1>3, <2>1 DEF Takes, Frames
  <2> QED BY <1>1, <2>2 DEF Waiting
<1> QED BY <1>2, <1>3

LEMMA SkipKeeps ==
    ASSUME TreeOK, NEW V \in SUBSET Entries, NEW fs, Stack(fs, V), NEW n \in fs[Len(fs)].left,
           NEW ps, Takes(ps, fs, n), n \notin Searchable, NoneLost(fs, V)
    PROVE  NoneLost(ps, V)
BY TakeLosesOne DEF NoneLost

\* A file has no entries.
LEMMA FileKeeps ==
    ASSUME TreeOK, NEW V \in SUBSET Entries, NEW fs, Stack(fs, V), NEW n \in fs[Len(fs)].left,
           NEW ps, Takes(ps, fs, n), kind[n] = "file", NoneLost(fs, V)
    PROVE  NoneLost(ps, V \cup {n})
<1>1. \A m \in Searchable : parent[m] # n
  <2> SUFFICES ASSUME NEW m \in Searchable, parent[m] = n PROVE FALSE
    OBVIOUS
  <2>1. m \in Entries
    BY SearchableFinite
  <2>2. Ready(fs, V, n)
    BY DEF Ready
  <2>3. n \in Entries
    BY ONLY <2>2, TreeOK, ReadyIs
  <2>4. n # 0
    BY <2>3, EntriesAre
  <2> QED BY <2>1, <2>4, ParentIs
<1> QED BY <1>1, TakeLosesOne DEF NoneLost

\* The call for a directory that has been met has all its entries left.
LEMMA EnterKeeps ==
    ASSUME TreeOK, NEW V \in SUBSET Entries, NEW fs, Stack(fs, V), NEW n \in fs[Len(fs)].left,
           NEW ps, Takes(ps, fs, n), NEW call,
           call = [dir |-> n, left |-> Children(n), rules |-> fs[Len(fs)].rules \o rules[n]]
    PROVE  /\ Stack(Append(ps, call), V \cup {n})
           /\ NoneLost(fs, V) => NoneLost(Append(ps, call), V \cup {n})
<1>1. PICK N : N = Len(fs) /\ N \in Nat /\ N \in 1 .. N
  BY TakenIs
<1>2. /\ n \in Entries /\ n \notin V /\ parent[n] \in V \cup {0} /\ fs[N].rules = RulesTo[parent[n]]
      /\ \A k \in 1 .. N : fs[k].dir < n
  BY <1>1, TakenIs
<1>3. Stack(ps, V \cup {n}) /\ Stack(ps, V)
  BY TakeKeepsStack
<1>4. ps \in Seq(Frames) /\ Len(ps) = N
  BY <1>1 DEF Takes
<1>5. call.dir = n /\ call.left = Children(n) /\ call.rules = RulesTo[n] /\ call \in Frames
  <2>1. n # 0 /\ n \in 0 .. Size
    BY <1>2, EntriesAre
  <2>2. RulesTo[n] = RulesTo[parent[n]] \o rules[n]
    BY <2>1, RulesToIs
  <2> QED BY <1>1, <1>2, <2>1, <2>2 DEF Frames, Children
<1>6. PICK cs : cs = Append(ps, call)
  OBVIOUS
<1>7. /\ cs \in Seq(Frames) /\ Len(cs) = N + 1 /\ cs[N + 1] = call
      /\ \A k \in 1 .. N : cs[k] = ps[k]
  <2>1. call \in Frames
    BY <1>5
  <2>2. /\ cs \in Seq(Frames) /\ Len(cs) = Len(ps) + 1 /\ cs[Len(ps) + 1] = call
        /\ \A k \in 1 .. Len(ps) : cs[k] = ps[k]
    BY ONLY <1>4, <1>6, <2>1, AppendProperties
  <2> QED BY ONLY <1>4, <2>2
<1>8. \A k \in 1 .. N + 1 : k \in 1 .. N \/ k = N + 1
  BY <1>1
<1>9. Children(n) \cap (V \cup {n}) = {}
  <2> SUFFICES ASSUME NEW c \in Children(n), c \in V \cup {n} PROVE FALSE
    OBVIOUS
  <2>1. c \in Entries /\ parent[c] = n
    BY DEF Children
  <2>2. c # n /\ n # 0
    BY <1>2, <2>1, ParentIs, EntriesAre
  <2>3. c \in V => n \in V \cup {0}
    BY <2>1 DEF Stack
  <2> QED BY <1>2, <2>2, <2>3
<1>10. \A k \in 1 .. N : ps[k].dir < n
  <2> SUFFICES ASSUME NEW k \in 1 .. N PROVE ps[k].dir = fs[k].dir
    BY <1>2
  <2>1. CASE k # N
    <3>1. k \in 1 .. Len(fs) - 1
      BY <1>1, <2>1
    <3> QED BY <3>1 DEF Takes
  <2>2. CASE k = N
    <3>1. fs[N] \in Frames
      BY <1>1, ElementOfSeq DEF Stack
    <3> QED BY <1>1, <2>2, <3>1 DEF Takes, Frames
  <2> QED BY <2>1, <2>2
<1>11. Stack(cs, V \cup {n})
  <2>1. \A k \in 1 .. N + 1 : /\ cs[k].left \subseteq Children(cs[k].dir) \ (V \cup {n})
                              /\ cs[k].rules = RulesTo[cs[k].dir]
                              /\ cs[k].dir \in (V \cup {n}) \cup {0}
    <3>1. \A k \in 1 .. N : /\ ps[k].left \subseteq Children(ps[k].dir) \ (V \cup {n})
                            /\ ps[k].rules = RulesTo[ps[k].dir]
                            /\ ps[k].dir \in (V \cup {n}) \cup {0}
      BY <1>3, <1>4 DEF Stack
    <3>2. /\ cs[N + 1].left \subseteq Children(cs[N + 1].dir) \ (V \cup {n})
          /\ cs[N + 1].rules = RulesTo[cs[N + 1].dir] /\ cs[N + 1].dir \in (V \cup {n}) \cup {0}
      BY <1>5, <1>7, <1>9
    <3> QED BY ONLY <1>7, <1>8, <3>1, <3>2
  <2>2. ASSUME NEW j \in 1 .. N + 1, NEW k \in 1 .. N + 1, j < k PROVE cs[j].dir < cs[k].dir
    <3>1. j \in 1 .. N
      BY <1>1, <2>2
    <3>2. CASE k \in 1 .. N
      BY <1>3, <1>4, <1>7, <2>2, <3>1, <3>2 DEF Stack
    <3>3. CASE k = N + 1
      BY <1>5, <1>7, <1>10, <3>1, <3>3
    <3> QED BY <1>8, <3>2, <3>3
  <2>3. \A m \in V \cup {n} : parent[m] \in (V \cup {n}) \cup {0}
    BY <1>3 DEF Stack
  <2>4. N + 1 # 0
    BY <1>1
  <2> QED BY <1>7, <2>1, <2>2, <2>3, <2>4 DEF Stack
<1>12. ASSUME NoneLost(fs, V), NEW m \in Searchable, parent[m] \in (V \cup {n}) \cup {0}, m \notin V \cup {n}
       PROVE  Waiting(cs, m)
  <2>1. CASE parent[m] = n
    <3>1. m \in call.left
      BY <1>5, <2>1, SearchableFinite DEF Children
    <3>2. N + 1 \in 1 .. Len(cs)
      BY <1>1, <1>7
    <3> QED BY <1>7, <3>1, <3>2 DEF Waiting
  <2>2. CASE parent[m] # n
    <3>1. Waiting(ps, m)
      BY <1>12, <2>2, TakeLosesOne DEF NoneLost
    <3>2. PICK k \in 1 .. N : m \in ps[k].left
      BY <1>4, <3>1 DEF Waiting
    <3>3. k \in 1 .. Len(cs) /\ m \in cs[k].left
      BY <1>1, <1>7, <3>2
    <3> QED BY <3>3 DEF Waiting
  <2> QED BY <2>1, <2>2
<1> QED BY <1>6, <1>11, <1>12 DEF NoneLost

\* A call that has nothing left returns.
LEMMA LeaveKeeps ==
    ASSUME TreeOK, NEW V \in SUBSET Entries, NEW fs, Stack(fs, V), Len(fs) > 1, fs[Len(fs)].left = {},
           NEW os, os = SubSeq(fs, 1, Len(fs) - 1)
    PROVE  Stack(os, V) /\ (NoneLost(fs, V) => NoneLost(os, V))
<1>1. PICK N : N = Len(fs) /\ N \in Nat /\ N > 1 /\ fs \in Seq(Frames)
  BY DEF Stack
<1>2. os \in Seq(Frames) /\ Len(os) = N - 1 /\ \A k \in 1 .. N - 1 : os[k] = fs[k]
  <2>1. 1 \in Int /\ N - 1 \in Int /\ \A k \in 1 .. N - 1 : fs[k] \in Frames
    BY <1>1, ElementOfSeq
  <2>2. /\ os \in Seq(Frames) /\ Len(os) = IF 1 <= N - 1 THEN (N - 1) - 1 + 1 ELSE 0
        /\ \A k \in 1 .. (N - 1) - 1 + 1 : os[k] = fs[1 + k - 1]
    BY ONLY <1>1, <2>1, os = SubSeq(fs, 1, Len(fs) - 1), SubSeqProperties
  <2>3. 1 <= N - 1 /\ (N - 1) - 1 + 1 = N - 1 /\ \A k \in 1 .. N - 1 : 1 + k - 1 = k
    BY <1>1
  <2> QED BY ONLY <2>2, <2>3
<1>3. Stack(os, V)
  <2>1. \A k \in 1 .. N - 1 : k \in 1 .. N
    BY <1>1
  <2>2. N - 1 # 0
    BY <1>1
  <2> QED BY <1>1, <1>2, <2>1, <2>2 DEF Stack
<1>4. ASSUME NEW m, Waiting(fs, m) PROVE Waiting(os, m)
  <2>1. PICK k \in 1 .. N : m \in fs[k].left
    BY <1>1, <1>4 DEF Waiting
  <2>2. k \in 1 .. N - 1
    BY <1>1, <2>1
  <2> QED BY <1>2, <2>1, <2>2 DEF Waiting
<1> QED BY <1>3, <1>4 DEF NoneLost

\* When the root has nothing left, everything has been met.
LEMMA LastMeetsAll ==
    ASSUME TreeOK, NEW V \in SUBSET Entries, NEW fs, Stack(fs, V), Len(fs) = 1, fs[1].left = {},
           NoneLost(fs, V)
    PROVE  Searchable \subseteq V
<1> DEFINE Unmet == Searchable \ V
<1> SUFFICES ASSUME Unmet # {} PROVE FALSE
  OBVIOUS
<1>1. Unmet \in SUBSET Nat
  BY SearchableFinite DEF Entries
<1>2. PICK n \in Unmet : \A m \in Unmet : n <= m
  <2> HIDE DEF Unmet
  <2> QED BY <1>1, LeastNat
<1>3. n \in Entries /\ n \in Searchable /\ n \notin V
  BY SearchableFinite
<1>4. parent[n] \in Searchable \cup {0} /\ parent[n] \in Nat /\ parent[n] < n /\ n \in Nat
  BY <1>3, SearchableIs, ParentIs
<1>5. parent[n] \notin Unmet
  <2> HIDE DEF Unmet
  <2> QED BY <1>2, <1>4
<1>6. parent[n] \in V \cup {0}
  BY <1>4, <1>5
<1>7. ~Waiting(fs, n)
  BY DEF Waiting
<1> QED BY <1>3, <1>6, <1>7 DEF NoneLost

(* The walk *)

Met == {visited[i] : i \in 1 .. Len(visited)}

WalkInv ==
    /\ TreeOK /\ counted \in Nat /\ truncated \in BOOLEAN /\ walk \in {"walking", "done", "failed"}
    /\ visited \in Seq(Entries) /\ Met \subseteq Searchable
    /\ IsFiniteSet(Met) /\ Cardinality(Met) = Len(visited)
    /\ walk = "walking" => Stack(frames, Met) /\ (truncated \/ NoneLost(frames, Met))
    /\ walk = "done" /\ ~truncated => Searchable \subseteq Met

LEMMA TreeStays ==
    ASSUME TreeOK, UNCHANGED tree
    PROVE  /\ TreeOK' /\ Searchable' = Searchable
           /\ \A fs, V : (Stack(fs, V)' <=> Stack(fs, V)) /\ (NoneLost(fs, V)' <=> NoneLost(fs, V))
<1>1. kind' = kind /\ parent' = parent /\ rules' = rules
  BY DEF tree
<1>2. RulesTo' = RulesTo
  BY <1>1 DEF RulesTo
<1>3. \A n : Plain(n)' <=> Plain(n)
  BY <1>1, <1>2 DEF Plain, IgnoredPath
<1>4. Searchable' = Searchable
  BY <1>1, <1>3 DEF Searchable
<1>5. TreeOK'
  BY <1>1 DEF TreeOK, Directories
<1>6. \A fs, V : Stack(fs, V)' <=> Stack(fs, V)
  BY <1>1, <1>2 DEF Stack, Frames, Children
<1>7. \A fs, V : NoneLost(fs, V)' <=> NoneLost(fs, V)
  BY <1>1, <1>4 DEF NoneLost, Waiting
<1> QED BY <1>4, <1>5, <1>6, <1>7

LEMMA NextIs ==
    ASSUME WalkInv, walk = "walking", Frame.left # {}
    PROVE  /\ NextEntry \in frames[Len(frames)].left /\ Takes(Passed, frames, NextEntry)
           /\ Frame.rules = RulesTo[parent[NextEntry]] /\ Met \in SUBSET Entries
           /\ NextEntry \in Entries /\ NextEntry \notin Met /\ parent[NextEntry] \in Searchable \cup {0}
<1>1. PICK N : N = Len(frames) /\ N \in Nat /\ N \in 1 .. N
  BY DEF WalkInv, Stack
<1>2. frames \in Seq(Frames) /\ frames[N] \in Frames /\ Frame = frames[N]
  BY <1>1, ElementOfSeq DEF WalkInv, Stack, Frame
<1>3. Met \in SUBSET Entries /\ Stack(frames, Met) /\ TreeOK
  BY SearchableFinite DEF WalkInv
<1>4. NextEntry \in frames[N].left
  <2>1. frames[N].left \in SUBSET Nat /\ frames[N].left # {}
    BY <1>2, WalkConstantsOK DEF Frames, Entries
  <2>2. \E n \in frames[N].left : \A m \in frames[N].left : n <= m
    BY <2>1, LeastNat
  <2> QED BY <1>2, <2>2 DEF NextEntry
<1>5. PICK n, f : n = NextEntry /\ f = [frames[N] EXCEPT !.left = @ \ {n}]
  OBVIOUS
<1>6. PICK os : os = SubSeq(frames, 1, N - 1)
  OBVIOUS
<1>7. os \in Seq(Frames) /\ Len(os) = N - 1 /\ \A k \in 1 .. N - 1 : os[k] = frames[k]
  <2>1. 1 \in Int /\ N - 1 \in Int /\ \A k \in 1 .. N - 1 : frames[k] \in Frames
    <3>1. \A k \in 1 .. N - 1 : k \in 1 .. Len(frames)
      BY <1>1
    <3> QED BY <1>1, <1>2, <3>1, ElementOfSeq
  <2>2. /\ os \in Seq(Frames) /\ Len(os) = IF 1 <= N - 1 THEN (N - 1) - 1 + 1 ELSE 0
        /\ \A k \in 1 .. (N - 1) - 1 + 1 : os[k] = frames[1 + k - 1]
    BY ONLY <1>6, <2>1, SubSeqProperties
  <2>3. (N - 1) - 1 + 1 = N - 1 /\ (~(1 <= N - 1) => N - 1 = 0) /\ \A k \in 1 .. N - 1 : 1 + k - 1 = k
    BY <1>1
  <2> QED BY ONLY <2>2, <2>3
<1>8. f \in Frames
  BY <1>2, <1>5 DEF Frames
<1>9. Passed = Append(os, f)
  BY <1>1, <1>2, <1>5, <1>6 DEF Passed, Outer
<1>10. Takes(Passed, frames, n)
  <2>1. /\ Append(os, f) \in Seq(Frames) /\ Len(Append(os, f)) = Len(os) + 1
        /\ Append(os, f)[Len(os) + 1] = f /\ \A k \in 1 .. Len(os) : Append(os, f)[k] = os[k]
    BY ONLY <1>7, <1>8, AppendProperties
  <2>2. (N - 1) + 1 = N
    BY <1>1
  <2> QED BY <1>1, <1>5, <1>7, <1>9, <2>1, <2>2 DEF Takes
<1>11. n \in frames[Len(frames)].left
  BY <1>1, <1>4, <1>5
<1>12. /\ n \in Entries /\ n \notin Met /\ parent[n] \in Met \cup {0}
       /\ frames[Len(frames)].rules = RulesTo[parent[n]]
  <2>1. Ready(frames, Met, n)
    BY <1>3, <1>11 DEF Ready
  <2> QED BY ONLY <1>3, <2>1, ReadyIs
<1>13. Met \subseteq Searchable
  BY DEF WalkInv
<1> QED BY <1>1, <1>2, <1>3, <1>5, <1>10, <1>11, <1>12, <1>13

\* What is ignored, and what is no file and no directory, is not to be seen; the rest is.
LEMMA NextSearchable ==
    ASSUME WalkInv, walk = "walking", Frame.left # {}
    PROVE  NextEntry \in Searchable <=>
              kind[NextEntry] \in {"dir", "file"} /\ ~IgnoredPath(Frame.rules, NextEntry)
<1>1. TreeOK
  BY DEF WalkInv
<1> QED BY <1>1, NextIs, SearchableIs DEF Plain

\* One entry more has been met.
LEMMA MeetsOne ==
    ASSUME WalkInv, NEW n \in Searchable, n \notin Met, visited' = Append(visited, n)
    PROVE  /\ visited' \in Seq(Entries) /\ Met' = Met \cup {n}
           /\ IsFiniteSet(Met') /\ Cardinality(Met') = Len(visited')
<1>1. PICK N : N = Len(visited) /\ N \in Nat /\ visited \in Seq(Entries) /\ n \in Entries
  BY SearchableFinite DEF WalkInv
<1>2. /\ visited' \in Seq(Entries) /\ Len(visited') = N + 1 /\ visited'[N + 1] = n
      /\ \A i \in 1 .. N : visited'[i] = visited[i]
  BY <1>1, AppendProperties
<1>3. \A i : i \in 1 .. N + 1 <=> i \in 1 .. N \/ i = N + 1
  BY <1>1
<1>4. Met' = Met \cup {n}
  BY <1>1, <1>2, <1>3 DEF Met
<1>5. IsFiniteSet(Met \cup {n}) /\ Cardinality(Met \cup {n}) = Cardinality(Met) + 1
  BY FS_AddElement DEF WalkInv
<1> QED BY <1>1, <1>2, <1>4, <1>5 DEF WalkInv

LEMMA WalkEntryKeeps ==
    ASSUME WalkInv, WalkEntry
    PROVE  WalkInv'
<1>1. PICK n, fs, ps, V : n = NextEntry /\ fs = frames /\ ps = Passed /\ V = Met
  OBVIOUS
<1>2. /\ walk = "walking" /\ Frame.left # {} /\ UNCHANGED tree /\ counted' \in Nat
      /\ TreeOK /\ Stack(fs, V) /\ (truncated \/ NoneLost(fs, V))
  BY <1>1 DEF WalkEntry, EndWalk, Skip, Visit, VisitLast, WalkInv
<1>3. /\ n \in fs[Len(fs)].left /\ Takes(ps, fs, n) /\ V \in SUBSET Entries /\ n \notin V
  BY <1>1, <1>2, NextIs
<1>4. /\ TreeOK' /\ Searchable' = Searchable
      /\ \A gs, W : (Stack(gs, W)' <=> Stack(gs, W)) /\ (NoneLost(gs, W)' <=> NoneLost(gs, W))
  BY <1>2, TreeStays
<1>5. CASE truncated' = TRUE /\ EndWalk("done") /\ UNCHANGED visited
  BY <1>2, <1>4, <1>5 DEF WalkInv, EndWalk, Met
<1>6. CASE Skip
  <2>1. n \notin Searchable
    BY <1>1, <1>2, <1>6, NextSearchable DEF Skip
  <2>2. frames' = ps /\ Met' = V /\ UNCHANGED <<visited, truncated, walk>>
    BY <1>1, <1>6 DEF Skip, Met
  <2>3. Stack(ps, V) /\ (truncated \/ NoneLost(ps, V))
    BY <1>2, <1>3, <2>1, TakeKeepsStack, SkipKeeps
  <2>4. Stack(frames, Met)' /\ (truncated \/ NoneLost(frames, Met))'
    BY <1>4, <2>2, <2>3
  <2> QED BY <1>1, <1>2, <1>4, <2>2, <2>4 DEF WalkInv
<1>7. CASE Visit \/ VisitLast
  <2>1. n \in Searchable /\ visited' = Append(visited, n)
    BY <1>1, <1>2, <1>7, NextSearchable DEF Visit, VisitLast
  <2>2. /\ visited' \in Seq(Entries) /\ Met' = V \cup {n} /\ Met' \subseteq Searchable'
        /\ IsFiniteSet(Met') /\ Cardinality(Met') = Len(visited')
    BY <1>1, <1>3, <1>4, <2>1, MeetsOne DEF WalkInv
  <2>3. CASE VisitLast
    BY <1>2, <1>4, <2>2, <2>3 DEF WalkInv, VisitLast, EndWalk
  <2>4. CASE Visit
    <3>1. walk' = walk /\ truncated' \in BOOLEAN /\ (truncated => truncated')
      BY <2>4 DEF Visit, WalkInv
    <3>2. Stack(frames', V \cup {n}) /\ (truncated' \/ NoneLost(frames', V \cup {n}))
      <4>1. CASE kind[n] = "dir" /\ Len(fs) < MaxDepth
        <5>1. PICK call : call = [dir |-> n, left |-> Children(n), rules |-> fs[Len(fs)].rules \o rules[n]]
          OBVIOUS
        <5>2. frames' = Append(ps, call)
          BY <1>1, <2>4, <4>1, <5>1 DEF Visit, Frame
        <5> QED BY ONLY <1>2, <1>3, <3>1, <5>1, <5>2, EnterKeeps
      <4>2. CASE ~(kind[n] = "dir" /\ Len(fs) < MaxDepth)
        <5>1. frames' = ps
          BY <1>1, <2>4, <4>2 DEF Visit
        <5>2. Stack(ps, V \cup {n})
          BY <1>2, <1>3, TakeKeepsStack
        <5>3. CASE kind[n] = "file"
          BY <1>2, <1>3, <3>1, <5>1, <5>2, <5>3, FileKeeps
        <5>4. CASE kind[n] = "dir"
          <6>1. Len(fs) >= MaxDepth
            <7>1. Len(fs) \in Nat
              BY <1>2 DEF Stack
            <7> QED BY <4>2, <5>4, <7>1, WalkConstantsOK
          <6>2. truncated'
            BY <1>1, <2>4, <5>4, <6>1 DEF Visit
          <6> QED BY <5>1, <5>2, <6>2
        <5> QED BY <1>1, <2>4, <5>3, <5>4 DEF Visit
      <4> QED BY <4>1, <4>2
    <3>3. Stack(frames, Met)' /\ (truncated \/ NoneLost(frames, Met))'
      BY <1>4, <2>2, <3>2
    <3> QED BY <1>2, <1>4, <2>2, <3>1, <3>3 DEF WalkInv
  <2> QED BY <1>7, <2>3, <2>4
<1> QED BY <1>5, <1>6, <1>7 DEF WalkEntry

LEMMA LeaveDirKeeps ==
    ASSUME WalkInv, LeaveDir
    PROVE  WalkInv'
<1>1. PICK fs, V : fs = frames /\ V = Met
  OBVIOUS
<1>2. /\ walk = "walking" /\ fs[Len(fs)].left = {} /\ UNCHANGED tree /\ V \in SUBSET Entries
      /\ TreeOK /\ Stack(fs, V) /\ (truncated \/ NoneLost(fs, V)) /\ Len(fs) \in Nat /\ Len(fs) # 0
      /\ UNCHANGED <<counted, visited, truncated>> /\ Met' = V
  <2>1. /\ walk = "walking" /\ fs[Len(fs)].left = {} /\ UNCHANGED tree
        /\ UNCHANGED <<counted, visited, truncated>>
    BY <1>1 DEF LeaveDir, Frame
  <2>2. TreeOK /\ Stack(fs, V) /\ (truncated \/ NoneLost(fs, V)) /\ V \in SUBSET Entries
    BY <1>1, <2>1, SearchableFinite DEF WalkInv
  <2>3. Len(fs) \in Nat /\ Len(fs) # 0
    BY <2>2 DEF Stack
  <2>4. Met' = V
    BY <1>1, <2>1 DEF Met
  <2> QED BY <2>1, <2>2, <2>3, <2>4
<1>3. /\ TreeOK' /\ Searchable' = Searchable
      /\ \A gs, W : (Stack(gs, W)' <=> Stack(gs, W)) /\ (NoneLost(gs, W)' <=> NoneLost(gs, W))
  BY <1>2, TreeStays
<1>4. CASE Len(fs) > 1
  <2>1. PICK os : os = SubSeq(fs, 1, Len(fs) - 1)
    OBVIOUS
  <2>2. frames' = os /\ walk' = "walking"
    BY <1>1, <1>4, <2>1 DEF LeaveDir, Outer
  <2>3. Stack(os, V) /\ (truncated \/ NoneLost(os, V))
    BY ONLY <1>2, <1>4, <2>1, LeaveKeeps
  <2>4. Stack(frames, Met)' /\ (truncated \/ NoneLost(frames, Met))'
    BY <1>2, <1>3, <2>2, <2>3
  <2> QED BY <1>1, <1>2, <1>3, <2>2, <2>4 DEF WalkInv
<1>5. CASE ~(Len(fs) > 1)
  <2>1. Len(fs) = 1 /\ fs[1].left = {}
    <3>1. Len(fs) = 1
      <4>1. PICK N \in Nat : N = Len(fs)
        BY <1>2
      <4>2. N # 0 /\ ~(N > 1)
        BY <1>2, <1>5, <4>1
      <4>3. N = 1
        BY ONLY <4>2, N \in Nat
      <4> QED BY <4>1, <4>3
    <3> QED BY <1>2, <3>1
  <2>2. walk' = "done"
    BY <1>1, <1>5 DEF LeaveDir
  <2>3. truncated \/ Searchable \subseteq V
    BY <1>2, <2>1, LastMeetsAll
  <2> QED BY <1>1, <1>2, <1>3, <2>2, <2>3 DEF WalkInv
<1> QED BY <1>4, <1>5

\* walkDir, in the helper and over SFTP: what a search sees is not ignored, is no link and lies below
\* no such thing, and comes once; and unless the answer says truncated, that is all there is to see;
\* for any tree, ignore files, limit of entries and depth.
THEOREM WalkedHonestly == WalkSpec => []WalkHonest
<1>1. WalkInit => WalkInv
  <2> SUFFICES ASSUME WalkInit PROVE WalkInv
    OBVIOUS
  <2>1. TreeOK
    BY DEF WalkInit, TreeOK
  <2>2. PICK call : call = [dir |-> 0, left |-> Children(0), rules |-> rules[0]]
    OBVIOUS
  <2>3. Met = {} /\ visited = <<>> /\ frames = <<call>> /\ walk = "walking" /\ truncated = FALSE /\ counted = 0
    BY <2>2 DEF WalkInit, Met
  <2>4. call.dir = 0 /\ call.left = Children(0) /\ call.rules = RulesTo[0] /\ call \in Frames
    <3>1. 0 \in 0 .. Size
      BY WalkConstantsOK
    <3>2. RulesTo[0] = rules[0]
      BY <2>1, <3>1, RulesToIs
    <3> QED BY <2>2, <3>1, <3>2 DEF Frames, Children
  <2>5. frames \in Seq(Frames) /\ Len(frames) = 1 /\ frames[1] = call
    BY <2>3, <2>4
  <2>6. Stack(frames, {})
    <3>1. \A k \in 1 .. 1 : k = 1
      OBVIOUS
    <3> QED BY <2>4, <2>5, <3>1 DEF Stack
  <2>7. NoneLost(frames, {})
    <3> SUFFICES ASSUME NEW n \in Searchable, parent[n] = 0 PROVE Waiting(frames, n)
      BY DEF NoneLost
    <3>1. n \in call.left
      BY <2>4, SearchableFinite DEF Children
    <3> QED BY <2>5, <3>1 DEF Waiting
  <2>8. IsFiniteSet({}) /\ Cardinality({}) = 0 /\ <<>> \in Seq(Entries) /\ Len(<<>>) = 0
    BY FS_EmptySet
  <2>9. /\ IsFiniteSet(Met) /\ Cardinality(Met) = Len(visited) /\ visited \in Seq(Entries)
        /\ Met \subseteq Searchable
    BY <2>3, <2>8
  <2>10. Stack(frames, Met) /\ NoneLost(frames, Met)
    BY <2>3, <2>6, <2>7
  <2> QED BY <2>1, <2>3, <2>9, <2>10 DEF WalkInv
<1>2. WalkInv /\ [WalkNext]_walkVars => WalkInv'
  <2> SUFFICES ASSUME WalkInv, [WalkNext]_walkVars PROVE WalkInv'
    OBVIOUS
  <2>1. CASE UNCHANGED walkVars
    <3>1. /\ UNCHANGED tree /\ UNCHANGED <<frames, counted, visited, truncated, walk>> /\ TreeOK
      BY <2>1 DEF walkVars, WalkInv
    <3>2. /\ TreeOK' /\ Searchable' = Searchable /\ Met' = Met
          /\ \A gs, W : (Stack(gs, W)' <=> Stack(gs, W)) /\ (NoneLost(gs, W)' <=> NoneLost(gs, W))
      BY <3>1, TreeStays DEF Met
    <3>3. (Stack(frames, Met)' <=> Stack(frames, Met)) /\ (NoneLost(frames, Met)' <=> NoneLost(frames, Met))
      BY <3>1, <3>2
    <3> QED BY <3>1, <3>2, <3>3 DEF WalkInv
  <2>2. CASE WalkFails
    <3>1. UNCHANGED tree /\ walk' = "failed" /\ UNCHANGED <<counted, visited, truncated>> /\ TreeOK
      BY <2>2 DEF WalkFails, EndWalk, WalkInv
    <3>2. TreeOK' /\ Searchable' = Searchable /\ Met' = Met
      BY <3>1, TreeStays DEF Met
    <3> QED BY <3>1, <3>2 DEF WalkInv
  <2> QED BY <2>1, <2>2, WalkEntryKeeps, LeaveDirKeeps DEF WalkNext
<1>3. WalkInv => WalkHonest
  <2> SUFFICES ASSUME WalkInv PROVE WalkHonest
    OBVIOUS
  <2>1. \A i \in 1 .. Len(visited) : visited[i] \in Searchable
    BY DEF WalkInv, Met
  <2>2. Cardinality({visited[i] : i \in 1 .. Len(visited)}) = Len(visited)
    BY DEF WalkInv, Met
  <2>3. walk = "done" /\ ~truncated => Len(visited) = Cardinality(Searchable)
    <3>1. walk = "done" /\ ~truncated => Met = Searchable
      BY DEF WalkInv
    <3> QED BY <3>1 DEF WalkInv
  <2> QED BY <2>1, <2>2, <2>3 DEF WalkHonest
<1> QED BY <1>1, <1>2, <1>3, PTL DEF WalkSpec

=============================================================================
