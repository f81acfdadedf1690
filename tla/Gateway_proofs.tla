--------------------------- MODULE Gateway_proofs ---------------------------
(***************************************************************************)
(* The gateway for any number of concurrent requests, any quota and any    *)
(* number of commands in a push; and the egress proxy in front of it for   *)
(* any number of connections, slots and lines of the audit queue.          *)
(***************************************************************************)
EXTENDS Gateway, Egress, FiniteSetTheorems, TLAPS

(* The handlers that have taken from the quota and not answered yet.       *)
Spending == {r \in Reqs : pc[r] = "create"}

Places == {"idle", "fetch", "push", "branch", "quota", "create"}
SentRecord == [draft : BOOLEAN, repo : Repos, branch : Refs]
PullRecord == [asked : SentRecord, draft : BOOLEAN, audit : {"", "not-draft", "failed"}]
MadeBy(d, made, answer, told) ==
  [asked |-> JSON(d), draft |-> made, audit |-> Reason(answer, told)]

GatewayType ==
  /\ pc \in [Reqs -> Places]
  /\ push \in [Reqs -> SUBSET Refs]
  /\ left \in Nat
  /\ pulls \in Seq(PullRecord)

(* What was taken from the quota is a pull request, an attempt under way,  *)
(* or lost for good.                                                       *)
Spent == Len(pulls) + left + Cardinality(Spending) <= PRQuota

(* A push that is relayed names only refs of the session.                  *)
Checked == ~foreign /\ \A r \in Reqs : push[r] \subseteq {"mine"}

GInv == GatewayType /\ Spent /\ Checked

-----------------------------------------------------------------------------
(* The commands that ReadPush lets through name only the session's refs.   *)
LEMMA PushesOwn == \A refs \in Pushes : refs \subseteq {"mine"}
<1> SUFFICES ASSUME NEW q \in Relayed, q.op = "receive-pack", NEW i \in DOMAIN q.cmds
             PROVE  q.cmds[i].ref = "mine"
  BY DEF Pushes
<1>1. ReadPush(q.cmds, q.more)
  BY DEF Relayed
<1> QED
  BY <1>1 DEF ReadPush, Check, CheckRef

(* A handler takes up or gives up its part of the quota.                   *)
LEMMA SpendingFinite == IsFiniteSet(Spending) /\ Cardinality(Spending) \in Nat
<1>1. IsFiniteSet(Reqs) /\ Spending \in SUBSET Reqs
  BY GatewayAssumption DEF Spending
<1>2. IsFiniteSet(Spending)
  BY <1>1, FS_Subset
<1> QED
  BY <1>2, FS_CardinalityType

LEMMA SpendingGoto ==
  ASSUME GatewayType, NEW r \in Reqs, NEW l, pc' = [pc EXCEPT ![r] = l]
  PROVE  Spending' = IF l = "create" THEN Spending \cup {r} ELSE Spending \ {r}
  BY DEF GatewayType, Spending

(* Unless a handler takes from the quota, the attempts under way get fewer *)
(* or stay; one that ends is no longer among them.                         *)
LEMMA SpendingShrinks ==
  ASSUME GatewayType, NEW r \in Reqs, NEW l, l # "create",
         pc' = [pc EXCEPT ![r] = l]
  PROVE  /\ Cardinality(Spending') \in Nat
         /\ Cardinality(Spending') <= Cardinality(Spending)
         /\ pc[r] = "create" => Cardinality(Spending') = Cardinality(Spending) - 1
<1>1. Spending' = Spending \ {r}
  BY SpendingGoto
<1>2. /\ IsFiniteSet(Spending \ {r})
      /\ Cardinality(Spending \ {r}) = IF r \in Spending THEN Cardinality(Spending) - 1
                                       ELSE Cardinality(Spending)
  BY SpendingFinite, FS_RemoveElement
<1>3. Cardinality(Spending \ {r}) \in Nat
  BY <1>2, FS_CardinalityType
<1>4. pc[r] = "create" => r \in Spending
  BY DEF Spending
<1> QED
  BY <1>1, <1>2, <1>3, <1>4, SpendingFinite

(* A new attempt is one more under way.                                    *)
LEMMA SpendingGrows ==
  ASSUME GatewayType, NEW r \in Reqs, pc[r] # "create", pc' = [pc EXCEPT ![r] = "create"]
  PROVE  /\ Cardinality(Spending') \in Nat
         /\ Cardinality(Spending') = Cardinality(Spending) + 1
<1>1. Spending' = Spending \cup {r}
  BY SpendingGoto
<1>2. r \notin Spending
  BY DEF Spending
<1>3. Cardinality(Spending \cup {r}) = Cardinality(Spending) + 1
  BY <1>2, SpendingFinite, FS_AddElement
<1> QED
  BY <1>1, <1>3, SpendingFinite

(* A step that leaves the requests alone leaves the attempts alone.        *)
LEMMA SpendingSame == ASSUME UNCHANGED pc PROVE Spending' = Spending
  BY DEF Spending

(* A handler that goes on without the quota keeps Spent.                   *)
LEMMA SpentKept ==
  ASSUME GatewayType, Spent, NEW r \in Reqs, NEW l, l # "create",
         pc' = [pc EXCEPT ![r] = l], left' = left, pulls' = pulls
  PROVE  Spent'
<1>1. /\ Cardinality(Spending) \in Nat /\ Cardinality(Spending') \in Nat
      /\ Cardinality(Spending') <= Cardinality(Spending)
  BY SpendingShrinks, SpendingFinite
<1>2. Len(pulls) \in Nat /\ left \in Nat /\ PRQuota \in Nat
  BY GatewayAssumption DEF GatewayType
<1> QED
  BY <1>1, <1>2 DEF Spent

(* Refs that were checked, or none, are handed to a handler.               *)
LEMMA PushKept ==
  ASSUME GatewayType, Checked, NEW r \in Reqs, NEW refs \in SUBSET {"mine"},
         push' \in {push, [push EXCEPT ![r] = refs]}
  PROVE  /\ push' \in [Reqs -> SUBSET Refs]
         /\ \A s \in Reqs : push'[s] \subseteq {"mine"}
  BY DEF GatewayType, Checked, Refs

-----------------------------------------------------------------------------
(* A step of a request that changes nothing at GitHub but the push itself. *)
LEMMA QuietStep ==
  ASSUME GInv, NEW r \in Reqs, NEW l \in Places, l # "create",
         NEW refs \in SUBSET {"mine"},
         pc' = [pc EXCEPT ![r] = l], push' \in {push, [push EXCEPT ![r] = refs]},
         left' = left, pulls' = pulls, ~foreign'
  PROVE  GInv'
<1>1. GatewayType /\ Spent /\ Checked
  BY DEF GInv
<1>2. Spent'
  BY <1>1, SpentKept
<1>3. /\ push' \in [Reqs -> SUBSET Refs]
      /\ \A s \in Reqs : push'[s] \subseteq {"mine"}
  BY <1>1, PushKept
<1>4. pc' \in [Reqs -> Places] /\ left' \in Nat /\ pulls' \in Seq(PullRecord)
  BY <1>1 DEF GatewayType
<1>5. GatewayType'
  BY <1>3, <1>4 DEF GatewayType
<1>6. Checked'
  BY <1>3 DEF Checked
<1> QED
  BY <1>2, <1>5, <1>6 DEF GInv

(* The steps of the cage's requests up to GitHub.                          *)
LEMMA CageStep ==
  ASSUME GInv, NEW r \in Reqs, Cage(r)
  PROVE  GInv'
<1>1. left' = left /\ pulls' = pulls
  BY DEF Cage, serveGit, servePull, github
<1>2. ~foreign'
  BY DEF GInv, Checked, Cage, serveGit, servePull, github
<1>3. CASE serveGit(r)
  <2>1. \E l \in {"fetch", "push"}, refs \in SUBSET {"mine"} :
            pc' = [pc EXCEPT ![r] = l] /\ push' \in {push, [push EXCEPT ![r] = refs]}
    BY <1>3, PushesOwn DEF serveGit, Goto
  <2> QED
    BY <1>1, <1>2, <2>1, QuietStep DEF Places
<1>4. CASE servePull(r)
  <2>1. \E l \in {"branch", "quota"} : pc' = [pc EXCEPT ![r] = l] /\ push' = push
    BY <1>4 DEF servePull, Goto
  <2> QED
    BY <1>1, <1>2, <2>1, QuietStep DEF Places
<1> QED
  BY <1>3, <1>4 DEF Cage

(* What GitHub makes of the body that relayPull sends: if it is no draft,  *)
(* then against what was asked, and not with a plain line in the audit.    *)
Told(x) == ~x.draft => x.asked.draft /\ x.audit # ""

LEMMA MadeFits ==
  ASSUME NEW d \in BOOLEAN, NEW made \in {JSON(d).draft, FALSE}, NEW answer \in Responses,
         NEW told \in BOOLEAN, told => made
  PROVE  MadeBy(d, made, answer, told) \in PullRecord /\ Told(MadeBy(d, made, answer, told))
<1>1. JSON(d) \in SentRecord /\ JSON(d).draft
  BY DEF JSON, SentRecord, Repos, Refs
<1>2. made \in BOOLEAN
  BY <1>1
<1>3. /\ Reason(answer, told) \in {"", "not-draft", "failed"}
      /\ ~made => Reason(answer, told) # ""
  BY DEF Reason
<1> QED
  BY <1>1, <1>2, <1>3 DEF MadeBy, PullRecord, Told

LEMMA PullMade ==
  ASSUME NEW r \in Reqs, NEW d \in BOOLEAN, relayPull(r, d)
  PROVE  pulls' = pulls \/ \E x \in PullRecord : Told(x) /\ pulls' = Append(pulls, x)
<1>1. CASE UNCHANGED github
  BY <1>1 DEF github
<1>2. CASE \E made \in {JSON(d).draft, FALSE}, answer \in Responses, told \in BOOLEAN :
             (told => made) /\ pulls' = Append(pulls, MadeBy(d, made, answer, told))
  <2>1. PICK made \in {JSON(d).draft, FALSE}, answer \in Responses, told \in BOOLEAN :
           (told => made) /\ pulls' = Append(pulls, MadeBy(d, made, answer, told))
    BY <1>2
  <2> DEFINE x == MadeBy(d, made, answer, told)
  <2>2. x \in PullRecord /\ Told(x)
    BY <2>1, MadeFits
  <2>3. pulls' = Append(pulls, x)
    BY <2>1
  <2> HIDE DEF x
  <2> QED
    BY <2>2, <2>3
<1> QED
  BY <1>1, <1>2 DEF relayPull, MadeBy

(* The steps that ask GitHub for something and answer.                     *)
LEMMA HandlerStep ==
  ASSUME GInv, NEW r \in Reqs, Handler(r)
  PROVE  GInv'
<1>1. GatewayType /\ Spent /\ Checked
  BY DEF GInv
<1>2. CASE relayFetch(r) \/ defaultBranch(r)
  <2>1. \E l \in {"idle", "quota"} :
            pc' = [pc EXCEPT ![r] = l] /\ push' \in {push, [push EXCEPT ![r] = {}]}
    BY <1>2 DEF relayFetch, defaultBranch, Reply, Goto
  <2>2. left' = left /\ pulls' = pulls
    BY <1>2 DEF relayFetch, defaultBranch, github
  <2>3. ~foreign'
    BY <1>1, <1>2 DEF Checked, relayFetch, defaultBranch, github
  <2> QED
    BY <2>1, <2>2, <2>3, QuietStep DEF Places
<1>3. CASE relayPush(r)
  <2>1. \E l \in {"idle"} :
            pc' = [pc EXCEPT ![r] = l] /\ push' \in {push, [push EXCEPT ![r] = {}]}
    BY <1>3 DEF relayPush, Reply
  <2>2. left' = left /\ pulls' = pulls
    BY <1>3 DEF relayPush, github
  <2>3. "main" \notin push[r]
    BY <1>1 DEF Checked
  <2>4. ~foreign'
    BY <1>1, <1>3, <2>3 DEF Checked, relayPush, github
  <2> QED
    BY <2>1, <2>2, <2>4, QuietStep DEF Places
<1>4. CASE Take(r) /\ left = 0
  <2>1. \E l \in {"idle"} :
            pc' = [pc EXCEPT ![r] = l] /\ push' \in {push, [push EXCEPT ![r] = {}]}
    BY <1>4 DEF Take, Reply
  <2>2. left' = left /\ pulls' = pulls
    BY <1>4 DEF Take, github
  <2>3. ~foreign'
    BY <1>1, <1>4 DEF Checked, Take, github
  <2> QED
    BY <2>1, <2>2, <2>3, QuietStep DEF Places
<1>5. CASE Take(r) /\ left # 0
  <2>1. /\ pc[r] # "create" /\ pc' = [pc EXCEPT ![r] = "create"] /\ push' = push
        /\ left' = left - 1 /\ left > 0
    BY <1>5 DEF Take, Goto
  <2>2. pulls' = pulls
    BY <1>5 DEF Take, github
  <2>3. ~foreign'
    BY <1>1, <1>5 DEF Checked, Take, github
  <2>4. /\ Cardinality(Spending') = Cardinality(Spending) + 1
        /\ Cardinality(Spending) \in Nat
    BY <1>1, <2>1, SpendingGrows, SpendingFinite
  <2>5. Len(pulls) \in Nat /\ left \in Nat /\ left' \in Nat /\ PRQuota \in Nat
    BY <1>1, <2>1, GatewayAssumption DEF GatewayType
  <2>6. Spent'
    BY <1>1, <2>1, <2>2, <2>4, <2>5 DEF Spent
  <2>7. GatewayType'
    BY <1>1, <2>1, <2>2, <2>3, <2>5 DEF GatewayType, Places
  <2>8. Checked'
    BY <1>1, <2>1, <2>3 DEF Checked
  <2> QED
    BY <2>6, <2>7, <2>8 DEF GInv
<1>6. ASSUME NEW d \in BOOLEAN, relayPull(r, d)
      PROVE  GInv'
  <2>1. /\ pc[r] = "create" /\ pc' = [pc EXCEPT ![r] = "idle"]
        /\ push' = [push EXCEPT ![r] = {}] /\ left' = left
    BY <1>6 DEF relayPull, Reply, AfterRelay
  <2>2. ~foreign'
    BY <1>1, <1>6 DEF Checked, relayPull, github
  <2>3. pulls' = pulls \/ \E x \in PullRecord : pulls' = Append(pulls, x)
    BY <1>6, PullMade DEF relayPull, github
  <2>5. /\ pulls' \in Seq(PullRecord)
        /\ Len(pulls) \in Nat /\ Len(pulls') \in Nat /\ Len(pulls') <= Len(pulls) + 1
    <3>1. CASE pulls' = pulls
      BY <1>1, <3>1 DEF GatewayType
    <3>2. ASSUME NEW x \in PullRecord, pulls' = Append(pulls, x)
          PROVE  /\ pulls' \in Seq(PullRecord)
                 /\ Len(pulls) \in Nat /\ Len(pulls') \in Nat /\ Len(pulls') <= Len(pulls) + 1
      BY <1>1, <3>2 DEF GatewayType
    <3> QED
      BY <2>3, <3>1, <3>2
  <2>6. /\ Cardinality(Spending') = Cardinality(Spending) - 1
        /\ Cardinality(Spending') \in Nat /\ Cardinality(Spending) \in Nat
    BY <1>1, <2>1, SpendingShrinks, SpendingFinite
  <2>7. left \in Nat /\ PRQuota \in Nat
    BY <1>1, GatewayAssumption DEF GatewayType
  <2>8. Spent'
    BY <1>1, <2>1, <2>5, <2>6, <2>7 DEF Spent
  <2>9. /\ push' \in [Reqs -> SUBSET Refs]
        /\ \A s \in Reqs : push'[s] \subseteq {"mine"}
    BY <1>1, <2>1, PushKept
  <2>10. GatewayType'
    BY <1>1, <2>1, <2>2, <2>5, <2>9 DEF GatewayType, Places
  <2> QED
    BY <2>2, <2>8, <2>9, <2>10 DEF GInv, Checked
<1> QED
  BY <1>2, <1>3, <1>4, <1>5, <1>6 DEF Handler

(* The checks at GitHub and goronation pr ready make no pull request.      *)
LEMMA HostStep ==
  ASSUME GInv, (\E n \in Commits : CheckRuns(n)) \/ runPrReady \/ UNCHANGED vars
  PROVE  GInv'
<1>1. GatewayType /\ Spent /\ Checked
  BY DEF GInv
<1>2. pc' = pc /\ push' = push /\ left' = left
  BY DEF CheckRuns, runPrReady, getPullRequest, Ready, vars
<1>3. ~foreign'
  BY <1>1 DEF Checked, CheckRuns, runPrReady, getPullRequest, Ready, github, vars
<1>4. pulls' = pulls \/ pulls' = [pulls EXCEPT ![seen.n].draft = FALSE]
  BY DEF CheckRuns, runPrReady, getPullRequest, Ready, github, vars
<1>5. pulls' \in Seq(PullRecord) /\ Len(pulls') = Len(pulls)
  <2>1. CASE pulls' = pulls
    BY <1>1, <2>1 DEF GatewayType
  <2>2. CASE pulls' = [pulls EXCEPT ![seen.n].draft = FALSE]
    <3>1. pulls \in [1..Len(pulls) -> PullRecord] /\ Len(pulls) \in Nat
      BY <1>1 DEF GatewayType
    <3>2. \A x \in PullRecord : [x EXCEPT !.draft = FALSE] \in PullRecord
      BY DEF PullRecord
    <3>3. pulls' \in [1..Len(pulls) -> PullRecord]
      BY <2>2, <3>1, <3>2
    <3> QED
      BY <3>1, <3>3
  <2> QED
    BY <1>4, <2>1, <2>2
<1>6. Spent'
  BY <1>1, <1>2, <1>5, SpendingSame DEF Spent
<1>7. GatewayType'
  BY <1>1, <1>2, <1>3, <1>5 DEF GatewayType
<1>8. Checked'
  BY <1>1, <1>2, <1>3 DEF Checked
<1> QED
  BY <1>6, <1>7, <1>8 DEF GInv

(* GInv is inductive.                                                      *)
THEOREM GatewayInvariance == Spec => []GInv
<1>1. Init => GInv
  <2> SUFFICES ASSUME Init PROVE GInv
    OBVIOUS
  <2>1. Spending = {}
    BY DEF Init, Spending
  <2>2. Len(pulls) = 0 /\ left = PRQuota /\ left \in Nat
    BY GatewayAssumption DEF Init
  <2>3. Spent
    BY <2>1, <2>2, FS_EmptySet DEF Spent
  <2>4. GatewayType
    <3>1. pc \in [Reqs -> Places] /\ push \in [Reqs -> SUBSET Refs]
      BY DEF Init, Places
    <3>2. pulls \in Seq(PullRecord)
      <4>1. pulls = <<>>
        BY DEF Init
      <4> QED
        BY <4>1
    <3> QED
      BY <2>2, <3>1, <3>2 DEF GatewayType
  <2>5. Checked
    BY DEF Init, Checked
  <2> QED
    BY <2>3, <2>4, <2>5 DEF GInv
<1>2. GInv /\ [Next]_vars => GInv'
  BY CageStep, HandlerStep, HostStep DEF Next
<1> QED
  BY <1>1, <1>2, PTL DEF Spec

(* Quota.Take: the cage makes no more pull requests than its quota,        *)
(* however many requests run at once and whatever answers are lost.        *)
THEOREM QuotaIsKept == Spec => []QuotaHolds
<1>1. GInv => QuotaHolds
  BY SpendingFinite, GatewayAssumption DEF GInv, Spent, GatewayType, QuotaHolds
<1> QED
  BY <1>1, GatewayInvariance, PTL

(* Policy.Check: no ref outside of the session's namespace is changed, for *)
(* any number of commands in a push.                                       *)
THEOREM NamespaceIsKept == Spec => []OwnNamespace
<1>1. GInv => OwnNamespace
  BY DEF GInv, Checked, OwnNamespace
<1> QED
  BY <1>1, GatewayInvariance, PTL

(* Pull.JSON, relayPull and Ready: a pull request that is no draft was     *)
(* made so by GitHub against what the gateway asked for, with a line in    *)
(* the audit that is not a plain success, or was made ready by the host    *)
(* after a look at its checks.                                             *)
THEOREM ReadyOnlyByHost == Spec => ReadyByHost
<1> DEFINE Fair(n) == ~pulls'[n].draft =>
                         \/ n \in DOMAIN pulls /\ ~pulls[n].draft
                         \/ n \notin DOMAIN pulls /\ pulls'[n].asked.draft /\ pulls'[n].audit # ""
                         \/ seen.n = n /\ seen.state \in {"", "SUCCESS"}
<1>1. ASSUME GatewayType, Next, NEW n \in DOMAIN pulls' PROVE Fair(n)
  <2>1. CASE UNCHANGED pulls
    BY <1>1, <2>1
  <2>2. ASSUME NEW x \in PullRecord, Told(x), pulls' = Append(pulls, x) PROVE Fair(n)
    <3>2. /\ DOMAIN pulls = 1..Len(pulls) /\ DOMAIN pulls' = 1..(Len(pulls) + 1)
          /\ Len(pulls) \in Nat
          /\ \A i \in 1..Len(pulls) : pulls'[i] = pulls[i]
          /\ pulls'[Len(pulls) + 1] = x
      BY <1>1, <2>2 DEF GatewayType
    <3>3. CASE n \in 1..Len(pulls)
      <4>1. pulls'[n] = pulls[n] /\ n \in DOMAIN pulls
        BY <3>2, <3>3
      <4> QED
        BY <4>1
    <3>4. CASE n = Len(pulls) + 1
      <4>1. pulls'[n] = x /\ n \notin DOMAIN pulls
        BY <3>2, <3>4
      <4> QED
        BY <2>2, <4>1 DEF Told
    <3>5. n \in 1..Len(pulls) \/ n = Len(pulls) + 1
      BY <1>1, <3>2
    <3> QED
      BY <3>3, <3>4, <3>5
  <2>3. CASE Green /\ pulls' = [pulls EXCEPT ![seen.n].draft = FALSE]
    BY <1>1, <2>3 DEF GatewayType, Green
  <2>4. CASE \E r \in Reqs, d \in BOOLEAN : relayPull(r, d)
    BY <2>1, <2>2, <2>4, PullMade
  <2> QED
    BY <1>1, <2>1, <2>3, <2>4
    DEF Next, Cage, Handler, serveGit, servePull, relayFetch, relayPush, defaultBranch, Take,
        CheckRuns, runPrReady, getPullRequest, Ready, github
<1>2. GInv /\ [Next]_vars
        => [\A n \in DOMAIN pulls' :
              ~pulls'[n].draft =>
                 \/ n \in DOMAIN pulls /\ ~pulls[n].draft
                 \/ n \notin DOMAIN pulls /\ pulls'[n].asked.draft /\ pulls'[n].audit # ""
                 \/ seen.n = n /\ seen.state \in {"", "SUCCESS"}]_vars
  BY <1>1 DEF GInv
<1> QED
  BY <1>2, GatewayInvariance, PTL DEF Spec, ReadyByHost

-----------------------------------------------------------------------------
(* The egress proxy that takes the connections and hands those of the      *)
(* gateway on (ServeBoth): any number of them, of slots and of lines in    *)
(* the queue of the audit log.                                             *)

(* Where Server.wg counts a connection, and the lines counted as dropped.  *)
Handled == {"read", "dial", "grant", "answer", "relay", "leave", "release"}
Counted == {c \in Conns : at[c] \in Handled}
Lost == {c \in Conns : line[c] = "dropped"}

ProxyType ==
  /\ at \in [Conns -> Handled \cup {"out", "sniff", "slot", "head", "body", "handler", "finish",
                               "gone", "done"}]
  /\ up \in [Conns -> {"public", "private", NoAddr}]
  /\ line \in [Conns -> {"none", "queued", "written", "dropped", "lost"}]
  /\ closer \in {"idle", "mark", "cancel", "wait", "audit", "drain", "returned"}

Tracked == conns = {c \in Conns : at[c] \in Handled \ {"release"}}

(* An upstream connection is open, and a line is written, only at certain  *)
(* places of the handler.                                                  *)
PlaceOK(l, u, x) ==
  /\ u # NoAddr => l \in {"grant", "answer", "relay"}
  /\ l \in {"out", "sniff", "slot", "read", "dial", "grant", "head", "body", "handler"} => x = "none"
  /\ l \in {"answer", "relay"} => x \in {"queued", "written", "dropped"}

(* What Close has done when it stands where it stands.                     *)
Stages ==
  /\ closer \notin {"idle", "mark"} => closed
  /\ closer \in {"audit", "drain", "returned"} => Counted = {}
  /\ auditClosed => closer \in {"drain", "returned"}

PInv ==
  /\ ProxyType /\ Tracked /\ Stages
  /\ wg = Cardinality(Counted) /\ dropped = Cardinality(Lost)
  /\ \A c \in Conns : PlaceOK(at[c], up[c], line[c])

LEMMA CountMoves ==
  ASSUME IsFiniteSet(Conns), ProxyType, NEW c \in Conns, NEW l, at' = [at EXCEPT ![c] = l]
  PROVE  /\ Counted' = IF l \in Handled THEN Counted \cup {c} ELSE Counted \ {c}
         /\ Cardinality(Counted) \in Nat
         /\ Cardinality(Counted') =
              IF at[c] \notin Handled /\ l \in Handled THEN Cardinality(Counted) + 1
              ELSE IF at[c] \in Handled /\ l \notin Handled THEN Cardinality(Counted) - 1
              ELSE Cardinality(Counted)
<1>1. Counted' = IF l \in Handled THEN Counted \cup {c} ELSE Counted \ {c}
  BY DEF Counted, ProxyType
<1>2. IsFiniteSet(Counted) /\ Cardinality(Counted) \in Nat
  <2>1. Counted \in SUBSET Conns
    BY DEF Counted
  <2> QED
    BY <2>1, FS_Subset, FS_CardinalityType
<1>3. c \in Counted <=> at[c] \in Handled
  BY DEF Counted
<1>4. /\ Cardinality(Counted \cup {c}) = IF c \in Counted THEN Cardinality(Counted)
                                         ELSE Cardinality(Counted) + 1
      /\ Cardinality(Counted \ {c}) = IF c \in Counted THEN Cardinality(Counted) - 1
                                      ELSE Cardinality(Counted)
  BY <1>2, FS_AddElement, FS_RemoveElement
<1> QED
  BY <1>1, <1>2, <1>3, <1>4

LEMMA LostMoves ==
  ASSUME IsFiniteSet(Conns), ProxyType, NEW c \in Conns, NEW x, line[c] # "dropped",
         line' = [line EXCEPT ![c] = x]
  PROVE  /\ Cardinality(Lost) \in Nat
         /\ Cardinality(Lost') = IF x = "dropped" THEN Cardinality(Lost) + 1 ELSE Cardinality(Lost)
<1>1. Lost' = IF x = "dropped" THEN Lost \cup {c} ELSE Lost
  BY DEF Lost, ProxyType
<1>2. IsFiniteSet(Lost) /\ Cardinality(Lost) \in Nat /\ c \notin Lost
  <2>1. Lost \in SUBSET Conns /\ c \notin Lost
    BY DEF Lost
  <2> QED
    BY <2>1, FS_Subset, FS_CardinalityType
<1>3. Cardinality(Lost \cup {c}) = Cardinality(Lost) + 1
  BY <1>2, FS_AddElement
<1> QED
  BY <1>1, <1>2, <1>3

(* What a Write of the audit log does to a connection without a line.      *)
LineMoves(c) ==
  \/ UNCHANGED <<line, dropped>>
  \/ /\ \E x \in {"queued", "written", "dropped", "lost"} : line' = [line EXCEPT ![c] = x]
     /\ dropped' = IF line'[c] = "dropped" THEN dropped + 1 ELSE dropped
     /\ line'[c] = "lost" => auditClosed

LEMMA WriteMoves ==
  ASSUME ProxyType, NEW c \in Conns, Write(c)
  PROVE  LineMoves(c) /\ line'[c] \in {"queued", "dropped", "lost"}
  BY DEF Write, LineMoves, ProxyType

(* One connection moves on, from a place where it has no line to a place   *)
(* where it may have one.                                                  *)
LEMMA ConnMoves ==
  ASSUME IsFiniteSet(Conns), PInv, NEW c \in Conns,
         NEW l \in Handled \cup {"sniff", "slot", "head", "body", "handler", "finish", "gone", "done"},
         at' = [at EXCEPT ![c] = l],
         LineMoves(c), UNCHANGED <<line, dropped>> \/ line[c] = "none",
         NEW u \in {"public", "private", NoAddr}, up' = [up EXCEPT ![c] = u],
         UNCHANGED <<closer, closed, auditClosed>>,
         conns' = IF l \in Handled \ {"release"} THEN conns \cup {c} ELSE conns \ {c},
         wg' = IF at[c] \notin Handled /\ l \in Handled THEN wg + 1
               ELSE IF at[c] \in Handled /\ l \notin Handled THEN wg - 1 ELSE wg,
         at[c] \notin Handled /\ l \in Handled => ~closed,
         PlaceOK(l, u, line'[c])
  PROVE  PInv'
<1> USE DEF PInv
<1>1. ProxyType'
  BY DEF ProxyType, LineMoves
<1>2. Tracked'
  BY DEF Tracked, ProxyType
<1>3. wg' = Cardinality(Counted')
  BY CountMoves
<1>4. dropped' = Cardinality(Lost')
  <2>1. CASE UNCHANGED <<line, dropped>>
    BY <2>1 DEF Lost
  <2>2. CASE ~UNCHANGED <<line, dropped>>
    <3>1. PICK x \in {"queued", "written", "dropped", "lost"} : line' = [line EXCEPT ![c] = x]
      BY <2>2 DEF LineMoves
    <3>2. /\ line'[c] = x /\ line[c] # "dropped"
          /\ dropped' = IF x = "dropped" THEN dropped + 1 ELSE dropped
      BY <2>2, <3>1 DEF LineMoves, ProxyType
    <3> QED
      BY <3>1, <3>2, LostMoves
  <2> QED
    BY <2>1, <2>2
<1>5. Stages'
  BY CountMoves DEF Stages, Counted
<1>6. \A d \in Conns : d # c => at'[d] = at[d] /\ up'[d] = up[d] /\ line'[d] = line[d]
  BY DEF ProxyType, LineMoves
<1>7. at'[c] = l /\ up'[c] = u
  BY DEF ProxyType
<1>8. \A d \in Conns : PlaceOK(at'[d], up'[d], line'[d])
  BY <1>6, <1>7
<1> QED
  BY <1>1, <1>2, <1>3, <1>4, <1>5, <1>8

(* The conjuncts that an action leaves alone, or changes as ConnMoves      *)
(* expects.                                                                *)
LEMMA AcceptStep ==
  ASSUME IsFiniteSet(Conns), PInv, NEW c \in Conns, Accept(c) \/ dispatch(c)
  PROVE  PInv'
<1>1. /\ at[c] \in {"out", "sniff"} /\ line[c] = "none" /\ up[c] = NoAddr /\ ProxyType
      /\ c \notin conns /\ at[c] \notin Handled
  BY DEF PInv, PlaceOK, Tracked, Handled, Accept, dispatch
<1>2. /\ UNCHANGED <<up, conns, wg, closed, closer, auditClosed>>
      /\ \/ accepted(c) \/ refuse(c, "done")
         \/ /\ UNCHANGED <<line, dropped>>
            /\ MoveTo(c, "sniff") \/ MoveTo(c, "head") \/ MoveTo(c, "done")
  BY DEF Accept, dispatch, Serve, ServeBoth
<1>3. \E l \in {"sniff", "slot", "head", "done"} :
        /\ at' = [at EXCEPT ![c] = l]
        /\ LineMoves(c)
        /\ UNCHANGED <<line, dropped>> \/ l = "done"
  <2>1. CASE Write(c) /\ at' = [at EXCEPT ![c] = "done"]
    BY <1>1, <2>1, WriteMoves
  <2>2. CASE UNCHANGED <<line, dropped>>
    BY <1>2, <2>2 DEF LineMoves, accepted, refuse, MoveTo
  <2> QED
    BY <1>2, <2>1, <2>2 DEF accepted, refuse, MoveTo
<1>4. PICK l \in {"sniff", "slot", "head", "done"} :
        /\ at' = [at EXCEPT ![c] = l]
        /\ LineMoves(c)
        /\ UNCHANGED <<line, dropped>> \/ l = "done"
  BY <1>3
<1>5. /\ l \notin Handled /\ up' = [up EXCEPT ![c] = NoAddr] /\ conns' = conns \ {c}
      /\ l \in Handled \cup {"sniff", "slot", "head", "body", "handler", "finish", "gone", "done"}
  BY <1>1, <1>2 DEF Handled, ProxyType
<1>6. PlaceOK(l, NoAddr, line'[c])
  BY <1>1, <1>4 DEF PlaceOK
<1> QED
  BY <1>1, <1>2, <1>4, <1>5, <1>6, ConnMoves

LEMMA AddConnStep ==
  ASSUME IsFiniteSet(Conns), PInv, NEW c \in Conns, AddConn(c)
  PROVE  PInv'
<1>1. /\ at[c] = "slot" /\ line[c] = "none" /\ up[c] = NoAddr /\ ProxyType
      /\ c \notin conns /\ at[c] \notin Handled
  BY DEF PInv, PlaceOK, Tracked, Handled, AddConn
<1>2. UNCHANGED <<up, line, dropped, closed, closer, auditClosed>> /\ LineMoves(c)
  BY DEF AddConn, host, LineMoves
<1>3. up' = [up EXCEPT ![c] = NoAddr]
  BY <1>1, <1>2 DEF ProxyType
<1>4. CASE /\ ~closed /\ conns' = conns \cup {c} /\ wg' = wg + 1 /\ at' = [at EXCEPT ![c] = "read"]
  <2> DEFINE l == "read"
  <2>1. l \in Handled /\ l # "release" /\ PlaceOK(l, NoAddr, line'[c])
    BY <1>1, <1>2 DEF Handled, PlaceOK
  <2> HIDE DEF l
  <2>2. at' = [at EXCEPT ![c] = l]
    BY <1>4 DEF l
  <2> QED
    BY <1>1, <1>2, <1>3, <1>4, <2>1, <2>2, ConnMoves
<1>5. CASE UNCHANGED <<conns, wg>> /\ at' = [at EXCEPT ![c] = "done"]
  <2> DEFINE l == "done"
  <2>1. /\ l \notin Handled /\ PlaceOK(l, NoAddr, line'[c]) /\ conns' = conns \ {c}
        /\ l \in Handled \cup {"sniff", "slot", "head", "body", "handler", "finish", "gone", "done"}
    BY <1>1, <1>2, <1>5 DEF Handled, PlaceOK
  <2> HIDE DEF l
  <2>2. at' = [at EXCEPT ![c] = l]
    BY <1>5 DEF l
  <2> QED
    BY <1>1, <1>2, <1>3, <1>5, <2>1, <2>2, ConnMoves
<1> QED
  BY <1>4, <1>5 DEF AddConn, addConn, MoveTo

(* A CONNECT on its way through handle: it stays counted and tracked.      *)
LEMMA HandleStep ==
  ASSUME IsFiniteSet(Conns), PInv, NEW c \in Conns,
         readRequest(c) \/ Dial(c) \/ Grant(c) \/ Answer(c) \/ EndRelay(c)
  PROVE  PInv'
<1>1. /\ at[c] \in {"read", "dial", "grant", "answer", "relay"} /\ ProxyType
      /\ PlaceOK(at[c], up[c], line[c]) /\ c \in conns /\ at[c] \in Handled
  BY DEF PInv, Tracked, Handled, readRequest, Dial, Grant, Answer, EndRelay
<1>2. UNCHANGED <<conns, wg, closed, closer, auditClosed>>
  BY DEF readRequest, Dial, Grant, Answer, EndRelay, server, host
<1>3. ~auditClosed
  BY <1>1 DEF PInv, Stages, Counted
<1>4. ASSUME NEW l \in {"dial", "grant", "answer", "relay", "leave"},
             NEW u \in {"public", "private", NoAddr}, at' = [at EXCEPT ![c] = l],
             up' = [up EXCEPT ![c] = u], LineMoves(c),
             UNCHANGED <<line, dropped>> \/ line[c] = "none", PlaceOK(l, u, line'[c])
      PROVE  PInv'
  <2>1. l \in Handled /\ l # "release"
    BY DEF Handled
  <2>2. conns' = conns \cup {c}
    BY <1>1, <1>2
  <2> QED
    BY <1>1, <1>2, <1>4, <2>1, <2>2, ConnMoves
<1>5. UNCHANGED up => up' = [up EXCEPT ![c] = up[c]] /\ up[c] \in {"public", "private", NoAddr}
  BY <1>1 DEF ProxyType
<1>6. UNCHANGED <<line, dropped>> => LineMoves(c)
  BY DEF LineMoves
<1>w. Write(c) => LineMoves(c) /\ line'[c] \in {"queued", "dropped"}
  <2> SUFFICES ASSUME Write(c) PROVE LineMoves(c) /\ line'[c] \in {"queued", "dropped"}
    OBVIOUS
  <2>1. LineMoves(c) /\ line'[c] \in {"queued", "dropped", "lost"}
    BY <1>1, WriteMoves
  <2>2. line'[c] # "lost"
    BY <1>1, <1>3 DEF Write, ProxyType
  <2> QED
    BY <2>1, <2>2
<1>7. CASE readRequest(c)
  <2>1. line[c] = "none" /\ up[c] = NoAddr /\ UNCHANGED up
    BY <1>1, <1>7 DEF PlaceOK, readRequest
  <2>2. CASE at' = [at EXCEPT ![c] = "dial"] /\ UNCHANGED <<line, dropped>>
    BY <1>4, <1>5, <1>6, <2>1, <2>2 DEF PlaceOK
  <2>3. CASE at' = [at EXCEPT ![c] = "leave"] /\ Write(c)
    BY <1>4, <1>5, <1>w, <2>1, <2>3 DEF PlaceOK
  <2> QED
    BY <1>7, <2>2, <2>3 DEF readRequest, refuse, MoveTo
<1>8. CASE Dial(c)
  <2>1. line[c] = "none" /\ up[c] = NoAddr
    BY <1>1, <1>8 DEF PlaceOK, Dial
  <2>2. ASSUME NEW u \in {"public", "private"}, up' = [up EXCEPT ![c] = u],
               at' = [at EXCEPT ![c] = "grant"], UNCHANGED <<line, dropped>>
        PROVE  PInv'
    <3>1. PlaceOK("grant", u, line'[c])
      BY <2>1, <2>2 DEF PlaceOK
    <3> QED
      BY <1>4, <1>6, <2>1, <2>2, <3>1
  <2>3. CASE at' = [at EXCEPT ![c] = "leave"] /\ Write(c) /\ UNCHANGED up
    BY <1>4, <1>5, <1>w, <2>1, <2>3 DEF PlaceOK
  <2>4. CASE at' = [at EXCEPT ![c] = "leave"] /\ UNCHANGED <<up, line, dropped>>
    BY <1>4, <1>5, <1>6, <2>1, <2>4 DEF PlaceOK
  <2> QED
    BY <1>8, <2>2, <2>3, <2>4 DEF Dial, refuse, MoveTo, dialUpstream, Addrs
<1>9. CASE Grant(c)
  <2>1. line[c] = "none"
    BY <1>1, <1>9 DEF PlaceOK, Grant
  <2>2. at' = [at EXCEPT ![c] = "answer"] /\ Write(c) /\ UNCHANGED up
    BY <1>9 DEF Grant, MoveTo
  <2> QED
    BY <1>4, <1>5, <1>w, <2>1, <2>2 DEF PlaceOK
<1>10. CASE Answer(c) \/ EndRelay(c)
  <2>1. line[c] \in {"queued", "written", "dropped"} /\ UNCHANGED <<line, dropped>>
    BY <1>1, <1>10 DEF PlaceOK, Answer, EndRelay, host
  <2>2. CASE at' = [at EXCEPT ![c] = "relay"] /\ UNCHANGED up
    BY <1>4, <1>5, <1>6, <2>1, <2>2 DEF PlaceOK
  <2>3. CASE at' = [at EXCEPT ![c] = "leave"] /\ up' = [up EXCEPT ![c] = NoAddr]
    BY <1>4, <1>6, <2>1, <2>3 DEF PlaceOK
  <2> QED
    BY <1>10, <2>2, <2>3 DEF Answer, EndRelay, MoveTo
<1> QED
  BY <1>7, <1>8, <1>9, <1>10

(* A connection that leaves, and those of the gateway, which Close neither *)
(* closes nor awaits.                                                      *)
LEMMA LeaveStep ==
  ASSUME IsFiniteSet(Conns), PInv, NEW c \in Conns, removeConn(c) \/ Release(c)
  PROVE  PInv'
<1>1. /\ at[c] \in {"leave", "release"} /\ at[c] \in Handled /\ up[c] = NoAddr /\ ProxyType
  BY DEF PInv, PlaceOK, Handled, removeConn, Release
<1>2. UNCHANGED <<up, line, dropped, closed, closer, auditClosed>> /\ LineMoves(c)
  BY DEF removeConn, Release, host, LineMoves
<1>3. up' = [up EXCEPT ![c] = NoAddr]
  BY <1>1, <1>2 DEF ProxyType
<1>4. CASE removeConn(c)
  <2> DEFINE l == "release"
  <2>1. l \in Handled /\ l \notin Handled \ {"release"} /\ PlaceOK(l, NoAddr, line'[c])
    BY DEF Handled, PlaceOK
  <2> HIDE DEF l
  <2>2. at' = [at EXCEPT ![c] = l] /\ conns' = conns \ {c} /\ wg' = wg
    BY <1>4 DEF l, removeConn, MoveTo
  <2> QED
    BY <1>1, <1>2, <1>3, <2>1, <2>2, ConnMoves
<1>5. CASE Release(c)
  <2> DEFINE l == "done"
  <2>1. /\ l \notin Handled /\ PlaceOK(l, NoAddr, line'[c])
        /\ l \in Handled \cup {"sniff", "slot", "head", "body", "handler", "finish", "gone", "done"}
    BY DEF Handled, PlaceOK
  <2> HIDE DEF l
  <2>2. at' = [at EXCEPT ![c] = l] /\ wg' = wg - 1
    BY <1>5 DEF l, Release, MoveTo
  <2>3. conns' = conns \ {c}
    BY <1>5 DEF PInv, Tracked, Release
  <2> QED
    BY <1>1, <1>2, <1>3, <2>1, <2>2, <2>3, ConnMoves
<1> QED
  BY <1>4, <1>5

GatewayMove(c) ==
  ReadHeader(c) \/ Read(c) \/ ReadReturns(c) \/ ReadTimesOut(c) \/ EndHandler(c)
  \/ finishRequest(c) \/ ConnClosed(c)

LEMMA GatewayStep ==
  ASSUME IsFiniteSet(Conns), PInv, NEW c \in Conns, GatewayMove(c)
  PROVE  PInv'
<1>1. /\ at[c] \in {"head", "body", "handler", "finish", "gone"} /\ at[c] \notin Handled
      /\ up[c] = NoAddr /\ ProxyType /\ c \notin conns
      /\ at[c] \notin {"finish", "gone"} => line[c] = "none"
  <2>1. at[c] \in {"head", "body", "handler", "finish", "gone"}
    BY DEF GatewayMove, ReadHeader, Read, ReadReturns, ReadTimesOut, EndHandler, finishRequest,
           ConnClosed
  <2> QED
    BY <2>1 DEF PInv, PlaceOK, Tracked, Handled
<1>2. /\ UNCHANGED <<up, conns, wg, closed, closer, auditClosed>>
      /\ (EndHandler(c) /\ Write(c)) \/ UNCHANGED <<line, dropped>>
  BY DEF GatewayMove, ReadHeader, Read, ReadReturns, ReadTimesOut, EndHandler, finishRequest,
         ConnClosed, server, host
<1>3. LineMoves(c)
  BY <1>1, <1>2, WriteMoves DEF LineMoves, EndHandler
<1>4. PICK l \in {"body", "handler", "finish", "gone", "done"} :
        /\ at' = [at EXCEPT ![c] = l]
        /\ l \in {"body", "handler"} => at[c] \notin {"finish", "gone"} /\ UNCHANGED <<line, dropped>>
  <2>1. CASE ReadHeader(c)
    BY <2>1 DEF ReadHeader, MoveTo, host
  <2>2. CASE Read(c)
    BY <2>2 DEF Read, MoveTo, host
  <2>3. CASE ReadReturns(c) \/ ReadTimesOut(c)
    BY <2>3 DEF ReadReturns, ReadTimesOut, MoveTo, host
  <2>4. CASE EndHandler(c)
    BY <2>4 DEF EndHandler, MoveTo
  <2>5. CASE finishRequest(c)
    BY <2>5 DEF finishRequest, MoveTo
  <2>6. CASE ConnClosed(c)
    BY <2>6 DEF ConnClosed, MoveTo
  <2> QED
    BY <2>1, <2>2, <2>3, <2>4, <2>5, <2>6 DEF GatewayMove
<1>5. /\ l \notin Handled /\ up' = [up EXCEPT ![c] = NoAddr] /\ conns' = conns \ {c}
      /\ l \in Handled \cup {"sniff", "slot", "head", "body", "handler", "finish", "gone", "done"}
  BY <1>1, <1>2 DEF Handled, ProxyType
<1>6. PlaceOK(l, NoAddr, line'[c])
  BY <1>1, <1>4 DEF PlaceOK
<1>7. UNCHANGED <<line, dropped>> \/ line[c] = "none"
  BY <1>1, <1>2 DEF EndHandler
<1> QED
  BY <1>1, <1>2, <1>3, <1>4, <1>5, <1>6, <1>7, ConnMoves

(* The goroutine of the audit log, the deadlines of a body, and Close.     *)
LEMMA WriteLineStep ==
  ASSUME IsFiniteSet(Conns), PInv, NEW c \in Conns, WriteLine(c)
  PROVE  PInv'
<1>1. ProxyType /\ line[c] = "queued" /\ PlaceOK(at[c], up[c], line[c])
  BY DEF PInv, WriteLine
<1>2. UNCHANGED <<at, up, conns, wg, closed, closer, auditClosed>>
  BY DEF WriteLine, server
<1>3. PICK x \in {"written", "dropped"} :
        /\ line' = [line EXCEPT ![c] = x]
        /\ dropped' = IF x = "dropped" THEN dropped + 1 ELSE dropped
  BY DEF WriteLine
<1>4. dropped' = Cardinality(Lost')
  BY <1>1, <1>3, LostMoves DEF PInv
<1>5. ProxyType'
  BY <1>1, <1>2, <1>3 DEF ProxyType
<1>6. \A d \in Conns : PlaceOK(at'[d], up'[d], line'[d])
  <2>1. \A d \in Conns : line'[d] = IF d = c THEN x ELSE line[d]
    BY <1>1, <1>3 DEF ProxyType
  <2> QED
    BY <1>1, <1>2, <2>1 DEF PInv, PlaceOK
<1> QED
  BY <1>2, <1>4, <1>5, <1>6 DEF PInv, Tracked, Stages, Counted

LEMMA BodyStep ==
  ASSUME PInv, NEW c \in Conns, Late(c) \/ Stall(c)
  PROVE  PInv'
<1>1. UNCHANGED <<at, up, line, conns, wg, closed, closer, auditClosed, dropped>>
  BY DEF Late, Stall, server, host
<1> QED
  BY <1>1 DEF PInv, ProxyType, Tracked, Stages, Counted, Lost

LEMMA CloseSteps ==
  ASSUME IsFiniteSet(Conns), PInv, Closing
  PROVE  PInv'
<1>1. UNCHANGED <<at, up, line, conns, wg, dropped>>
  BY DEF Closing, CloseListener, MarkClosed, Cancel, Wait, CloseAudit, Drain,
         conn, server
<1>2. ProxyType'
  BY <1>1 DEF PInv, ProxyType, Closing, CloseListener, MarkClosed, Cancel, Wait,
              CloseAudit, AuditAfter, Drain
<1>3. Wait => Counted = {}
  <2>1. Counted \in SUBSET Conns
    BY DEF Counted
  <2>2. IsFiniteSet(Counted)
    BY <2>1, FS_Subset
  <2> QED
    BY <2>2, FS_EmptySet DEF PInv, Wait
<1>4. Stages'
  <2>1. Counted' = Counted
    BY <1>1 DEF Counted
  <2>2. CASE CloseListener \/ MarkClosed \/ Cancel
    BY <2>1, <2>2 DEF PInv, Stages, CloseListener, MarkClosed, Cancel, server
  <2>3. CASE Wait
    BY <1>3, <2>1, <2>3 DEF PInv, Stages, Wait, server
  <2>4. CASE CloseAudit \/ Drain
    BY <2>1, <2>4 DEF PInv, Stages, CloseAudit, AuditAfter, Drain, server
  <2> QED
    BY <2>2, <2>3, <2>4 DEF Closing
<1> QED
  BY <1>1, <1>2, <1>4 DEF PInv, Tracked, Counted, Lost

LEMMA InitPInv ==
  ASSUME ProxyInit
  PROVE  PInv
<1>1. Counted = {} /\ Lost = {}
  BY DEF ProxyInit, Counted, Lost, Handled
<1>2. Cardinality({}) = 0
  BY FS_EmptySet
<1>3. ProxyType /\ Tracked /\ Stages
  BY <1>1 DEF ProxyInit, ProxyType, Tracked, Stages, Handled
<1> QED
  BY <1>1, <1>2, <1>3 DEF ProxyInit, PInv, PlaceOK

LEMMA NextPInv ==
  ASSUME IsFiniteSet(Conns), PInv, [ProxyNext]_proxyVars
  PROVE  PInv'
<1>1. CASE UNCHANGED proxyVars
  BY <1>1 DEF proxyVars, conn, server, host, PInv, ProxyType, Tracked, Stages, Counted, Lost
<1>2. ASSUME NEW c \in Conns,
             \/ Accept(c) \/ Handle(c) \/ EndRelay(c)
             \/ Read(c) \/ Stall(c) \/ Late(c) \/ ReadReturns(c) \/ EndHandler(c)
             \/ finishRequest(c) \/ WriteLine(c)
      PROVE  PInv'
  BY <1>2, AcceptStep, AddConnStep, HandleStep, LeaveStep, GatewayStep, WriteLineStep, BodyStep
  DEF Handle, GatewayMove
<1> QED
  BY <1>1, <1>2, CloseSteps DEF ProxyNext

LEMMA PInvImplies ==
  ASSUME PInv
  PROVE  Accounted /\ ClosedMeansClosed
<1>1. Accounted
  <2>1. \A c \in Conns : Granted(c) => line[c] \in {"queued", "written", "dropped"}
    BY DEF PInv, PlaceOK, Granted
  <2> QED
    BY <2>1 DEF PInv, Accounted, Lost
<1>2. ClosedMeansClosed
  BY DEF PInv, PlaceOK, Stages, Tracked, Counted, Handled, ClosedMeansClosed
<1> QED
  BY <1>1, <1>2

(* PInv is inductive: addConn, removeConn, the slots of the connections    *)
(* and the steps of hostProxy.Close keep the counts and places in step.      *)
THEOREM ProxyInvariance == ProxySpec => []PInv
<1>1. ProxyInit => PInv
  BY InitPInv
<1>2. PInv /\ [ProxyNext]_proxyVars => PInv'
  BY EgressAssumption, NextPInv DEF EgressAssumption
<1> QED
  BY <1>1, <1>2, PTL DEF ProxySpec

(* Of any finite number of connections: the line of a granted tunnel is in *)
(* the queue, in the file or counted as dropped (auditLog.Write), however  *)
(* the tunnel's goroutine and hostProxy.Close interleave.                  *)
THEOREM TunnelsAreAccounted == ProxySpec => []Accounted
<1>1. PInv => Accounted
  BY PInvImplies
<1> QED
  BY <1>1, ProxyInvariance, PTL

(* Once Close has waited no connection is tracked and no tunnel is open,   *)
(* and none is opened later by one that was being accepted.                *)
THEOREM ClosedStaysClosed == ProxySpec => []ClosedMeansClosed
<1>1. PInv => ClosedMeansClosed
  BY PInvImplies
<1> QED
  BY <1>1, ProxyInvariance, PTL
=============================================================================
