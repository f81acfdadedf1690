------------------------------ MODULE Gateway -------------------------------
(* The git and GitHub gateway of one session (src/egress/gateway, git and    *)
(* github) with the two ends that use it: the cage, which pushes and asks    *)
(* for pull requests, and the host, which makes one ready for review         *)
(* (goronation pr ready, cmd/internal/ghapi).  GitHub is external: what it   *)
(* does with a request is any of its possible outcomes, and the answer may   *)
(* be lost although the request was carried out.                             *)
EXTENDS Integers, Sequences, FiniteSets

CONSTANTS Reqs,         \* goroutines of the gateway
          MaxCommands,  \* Limits.MaxCommands
          PRQuota,      \* Config.PRQuota
          MaxCommits    \* bound of the model: commits pushed to the session's branch

ASSUME GatewayAssumption ==
    /\ IsFiniteSet(Reqs)
    /\ MaxCommands \in Nat \ {0} /\ PRQuota \in Nat \ {0} /\ MaxCommits \in Nat

VARIABLES pc,      \* pc[r]: where the handler stands
          push,    \* push[r]: the refs of the push it relays
          left,    \* Quota.left
          head,    \* GitHub: the newest commit of the session's branch, 0 for none
          foreign, \* GitHub: a ref outside of the session's namespace was changed
          pulls,   \* GitHub: the pull requests the session has made, in order
          checks,  \* GitHub: checks[n], the state of the checks of commit n
          seen     \* goronation pr ready: what getPullRequest has returned

github == <<head, foreign, pulls, checks>>
vars   == <<pc, push, left, head, foreign, pulls, checks, seen>>

Commits == 1..MaxCommits
CheckState == {"", "PENDING", "SUCCESS", "FAILURE"}
Unseen == [n |-> 0, draft |-> FALSE, state |-> ""]

Init ==
    /\ pc = [r \in Reqs |-> "idle"]
    /\ push = [r \in Reqs |-> {}]
    /\ left = PRQuota
    /\ head = 0 /\ foreign = FALSE /\ pulls = <<>>
    /\ checks = [n \in Commits |-> ""]
    /\ seen = Unseen

-----------------------------------------------------------------------------
(* What the cage may send.  The repository of the session is "own", its      *)
(* namespace refs/heads/goronation/<Session>/ holds the ref "mine".          *)

Repos == {"own", "other"}
Refs  == {"mine", "main"}
\* A line of the command part: an update, or "shallow" and the like; with
\* capabilities after a NUL, or without.
Update(ref, delete, form, caps) ==
    [ref |-> ref, delete |-> delete, form |-> form, caps |-> caps]
Commands == {Update(ref, FALSE, "update", caps) : ref \in Refs, caps \in {"none", "allowed"}}
            \cup {Update("mine", TRUE, "update", "none"),
                  Update("mine", FALSE, "shallow", "none"),
                  Update("mine", FALSE, "update", "unknown")}
Bodies == UNION {[1..n -> Commands] : n \in 0..(MaxCommands + 1)}
Ops == {"advertise", "upload-pack", "receive-pack"}

\* A git request: its route, and of a receive-pack if it is compressed, its
\* commands, and if more follows them.
GitRequests == [repo : Repos, op : Ops \cup {"none"}, encoded : BOOLEAN,
                cmds : Bodies, more : BOOLEAN]

PullFields == [repo : Repos, fields : {"known", "unknown", "twice"}, text : BOOLEAN,
               branch : Refs, owner : {"none", "own", "other"},
               base : {"absent", "good", "bad"}]

-----------------------------------------------------------------------------
(* git.Policy.                                                               *)

\* Owner and name are compared without their case; the model has one spelling.
CheckRepo(repo) == repo = "own"

ParseRoute(op) == op \in Ops

AuthorizedRoute(repo, op) == ParseRoute(op) /\ CheckRepo(repo)

\* Under the prefix of the session, and made of valid segments.
CheckRef(ref) == ref = "mine"

CheckBranch(name) == CheckRef(name)

\* Capabilities come with the first line only, and only known ones.
parseLine(c, first) ==
    c.form = "update" /\ (c.caps # "none" => first /\ c.caps = "allowed")

\* The command part, up to its flush; more is the body after it.  A body
\* without commands is a probe and must end there.
ParseCommands(cmds, more) ==
    /\ Len(cmds) <= MaxCommands
    /\ \A i \in DOMAIN cmds : parseLine(cmds[i], i = 1)
    /\ cmds = <<>> => ~more

\* Mutant: the first command speaks for all.
CheckFirst(cmds) == cmds = <<>> \/ (~cmds[1].delete /\ CheckRef(cmds[1].ref))

\* One command that is out of bounds refuses them all.
Check(cmds) == \A i \in DOMAIN cmds : ~cmds[i].delete /\ CheckRef(cmds[i].ref)

ReadPush(cmds, more) == ParseCommands(cmds, more) /\ Check(cmds)

-----------------------------------------------------------------------------
(* github.PullPolicy; Targets is empty, as startProxy leaves it.             *)

ParsePullRoute(p) == p.repo \in Repos

target(repo) == CheckRepo(repo)

\* "branch" or "owner:branch".
PullHead(p) == CheckBranch(p.branch) /\ p.owner \in {"none", "own"}

\* No field that is not known, and none twice: upstream cannot read another.
decodeFields(p) == p.fields = "known"

\* No control or invisible characters, and not too long.
checkText(p) == p.text

ParsePull(p) == /\ target(p.repo) /\ decodeFields(p) /\ checkText(p)
                /\ PullHead(p) /\ p.base # "bad"

\* Mutant: the draft field of the request is sent on.
AsAsked(d) == [draft |-> d, repo |-> "own", branch |-> "mine"]

\* Pull.JSON: made from the checked values; it always asks for a draft.
JSON(d) == [draft |-> TRUE, repo |-> "own", branch |-> "mine"]

-----------------------------------------------------------------------------
(* The handlers.                                                             *)

Goto(r, l) == pc' = [pc EXCEPT ![r] = l] /\ UNCHANGED push

\* The answer and its line in the audit; of what it says nothing depends here.
Reply(r) ==
    /\ pc' = [pc EXCEPT ![r] = "idle"]
    /\ push' = [push EXCEPT ![r] = {}]

\* serveGit and serveReceivePack up to the first request to GitHub; a request
\* that is refused changes nothing.
Relayed == {q \in GitRequests :
                /\ AuthorizedRoute(q.repo, q.op)
                /\ q.op = "receive-pack" => ~q.encoded /\ ReadPush(q.cmds, q.more)}
Fetches == {q.op : q \in {x \in Relayed : x.op # "receive-pack"}}
Pushes  == {{q.cmds[i].ref : i \in DOMAIN q.cmds} : q \in {x \in Relayed : x.op = "receive-pack"}}

serveGit(r) ==
    /\ pc[r] = "idle"
    /\ \/ Fetches # {} /\ Goto(r, "fetch")
       \/ \E refs \in Pushes : /\ pc' = [pc EXCEPT ![r] = "push"]
                               /\ push' = [push EXCEPT ![r] = refs]
    /\ UNCHANGED <<left, github, seen>>

\* relayGit for a fetch: nothing changes at GitHub.
relayFetch(r) ==
    /\ pc[r] = "fetch"
    /\ Reply(r)
    /\ UNCHANGED <<left, github, seen>>

\* relayGit for a push: the bytes that were checked, and the pack.
relayPush(r) ==
    /\ pc[r] = "push"
    /\ \/ UNCHANGED github            \* credential, upstream, pack-too-large, or a probe
       \/ /\ push[r] # {}              \* done, even if the answer is lost
          /\ head < MaxCommits
          /\ head' = IF "mine" \in push[r] THEN head + 1 ELSE head
          /\ foreign' = (foreign \/ "main" \in push[r])
          /\ UNCHANGED <<pulls, checks>>
    /\ Reply(r)
    /\ UNCHANGED <<left, seen>>

Pulls == {p \in PullFields : ParsePullRoute(p) /\ ParsePull(p)}

servePull(r) ==
    /\ pc[r] = "idle"
    /\ \E p \in Pulls : Goto(r, IF p.base = "absent" THEN "branch" ELSE "quota")
    /\ UNCHANGED <<left, github, seen>>

\* What comes back from GitHub, and what is made of it: the name of a branch,
\* and the number and address of a pull request of the repository.
Responses == {"none", "unfit", "fit"}
DefaultBranch(body) == body = "fit"
ParseResult(body) == body = "fit"

\* The default branch of the repository is asked for, and checked.
defaultBranch(r) ==
    /\ pc[r] = "branch"
    /\ \E body \in Responses : IF DefaultBranch(body) THEN Goto(r, "quota") ELSE Reply(r)
    /\ UNCHANGED <<left, github, seen>>

Take(r) ==
    /\ pc[r] = "quota"
    /\ \/ left > 0 /\ left' = left - 1 /\ Goto(r, "create")
       \/ left = 0 /\ UNCHANGED left /\ Reply(r)
    /\ UNCHANGED <<github, seen>>

\* Mutant: an attempt that failed is given back.
AfterRelayRefund(ok) == left' = IF ok THEN left ELSE left + 1

\* A failed attempt counts as well.
AfterRelay(ok) == UNCHANGED left

\* The reason in the line of the audit: the answer failed or was unfit, or it
\* does not say that the pull request is a draft (Result.Draft).
Reason(body, draft) ==
    IF ~ParseResult(body) THEN "failed" ELSE IF draft THEN "" ELSE "not-draft"

\* GitHub needs a branch to make a pull request from.  It may not honour the
\* draft; its answer calls no other a draft.  What it has made stays.
relayPull(r, draft) ==
    /\ pc[r] = "create"
    /\ \/ /\ AfterRelay(FALSE)
          /\ UNCHANGED github
       \/ /\ head > 0
          /\ \E made \in {JSON(draft).draft, FALSE}, body \in Responses, told \in BOOLEAN :
                /\ told => made
                /\ pulls' = Append(pulls, [asked |-> JSON(draft), draft |-> made,
                                           audit |-> Reason(body, told)])
                /\ AfterRelay(ParseResult(body))
          /\ UNCHANGED <<head, foreign, checks>>
    /\ Reply(r)
    /\ UNCHANGED seen

-----------------------------------------------------------------------------
(* The checks run at GitHub.                                                 *)

CheckRuns(n) ==
    /\ n <= head
    /\ \/ checks[n] = "" /\ checks' = [checks EXCEPT ![n] = "PENDING"]
       \/ /\ checks[n] = "PENDING"
          /\ \E s \in {"SUCCESS", "FAILURE"} : checks' = [checks EXCEPT ![n] = s]
    /\ UNCHANGED <<pc, push, left, head, foreign, pulls, seen>>

-----------------------------------------------------------------------------
(* goronation pr ready on the host: a query and a mutation.                  *)

getPullRequest(n) ==
    /\ seen = Unseen
    /\ n \in DOMAIN pulls
    /\ seen' = [n |-> n, draft |-> pulls[n].draft, state |-> checks[head]]
    /\ UNCHANGED <<pc, push, left, github>>

\* Ready goes on when every check has succeeded, or there is none.
Green == seen.state \in {"", "SUCCESS"}

\* Ready ends: already ready, not green, or the mutation, which may fail.
Ready ==
    /\ seen # Unseen
    /\ seen' = Unseen
    /\ \/ /\ seen.draft /\ Green
          /\ pulls' = [pulls EXCEPT ![seen.n].draft = FALSE]
       \/ UNCHANGED pulls
    /\ UNCHANGED <<pc, push, left, head, foreign, checks>>

runPrReady == (\E n \in 1..(PRQuota + 1) : getPullRequest(n)) \/ Ready

-----------------------------------------------------------------------------
Handler(r) ==
    relayFetch(r) \/ relayPush(r) \/ defaultBranch(r) \/ Take(r)
    \/ \E d \in BOOLEAN : relayPull(r, d)

Cage(r) == serveGit(r) \/ servePull(r)

Next ==
    \/ \E r \in Reqs : Cage(r) \/ Handler(r)
    \/ \E n \in Commits : CheckRuns(n)
    \/ runPrReady

\* A handler that has begun goes on: its request to GitHub is bound to the
\* context of the cage's request, which ends.
Spec == Init /\ [][Next]_vars /\ \A r \in Reqs : WF_vars(Handler(r))

-----------------------------------------------------------------------------
(* However many requests run at once, and whatever answers are lost, the     *)
(* cage makes no more pull requests than its quota.                          *)
QuotaHolds == Len(pulls) + left <= PRQuota

(* Nothing outside of the session's namespace is ever changed: a push that   *)
(* names such a ref anywhere does nothing at all.                            *)
OwnNamespace == ~foreign

(* The cage cannot make a pull request ready for review: the gateway asks    *)
(* for a draft whatever the cage asks for, and one that is no draft is so by *)
(* GitHub, which did not honour this (then the line that relayPull writes to *)
(* the audit is not that of a plain success), or by the host, which has      *)
(* looked at its checks and found none that failed or still runs.            *)
ReadyByHost ==
    [][\A n \in DOMAIN pulls' :
          ~pulls'[n].draft =>
             \/ n \in DOMAIN pulls /\ ~pulls[n].draft
             \/ n \notin DOMAIN pulls /\ pulls'[n].asked.draft /\ pulls'[n].audit # ""
             \/ seen.n = n /\ seen.state \in {"", "SUCCESS"}]_vars

=============================================================================
