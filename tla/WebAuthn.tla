------------------------------ MODULE WebAuthn ------------------------------
(* The passkeys of goronation web (cmd/internal/webauthn): the state file    *)
(* behind credfile, the ceremonies whose challenge travels in a signed state *)
(* token, the operations that a second passkey authorises, the sessions, and *)
(* the command "web token", which changes the same file from a process of    *)
(* its own.  Signatures are ideal: a passkey answers exactly the challenge   *)
(* it was given, and what is signed with a secret key only its owner can     *)
(* sign.  A file that "web token" has never written has no key: there a      *)
(* signature says nothing.                                                   *)
EXTENDS Integers, FiniteSets

CONSTANTS Creds,           \* passkeys
          Reqs,            \* request IDs of the caller
          Handlers,        \* HTTP requests in flight in the web process
          Registered,      \* passkeys of a state file that already exists
          NoOne,           \* Store.mu is free
          maxCredentials, challengeTTL, SessionTTL, BootstrapTTL,
          MaxTime,         \* bounds of the model: the clock,
          MaxChallenges,   \* challenges drawn
          MaxEpoch,        \* how often sessions are revoked,
          MaxIssued,       \* how often "web token" runs,
          MaxUnsigned      \* and, without a secret, the claims taken in and the challenges

ASSUME WebAuthnAssumption ==
    /\ {challengeTTL, SessionTTL, BootstrapTTL, MaxTime, MaxChallenges, MaxEpoch, MaxIssued, MaxUnsigned}
          \subseteq Nat
    /\ maxCredentials \in Nat \ {0}
    /\ Registered \subseteq Creds
    /\ NoOne \notin Handlers

VARIABLES file,      \* persistedState: Credentials, SessionSecret, BootstrapToken, SessionEpoch
          mu,        \* who holds Store.mu
          job,       \* job[h]: what handler h has loaded and is about to save
          cli,       \* the state "web token" has loaded, or NoState
          tokens,    \* state tokens in the hands of the browsers
          used,      \* Store.used
          proofs,    \* Assertions that OpAuthFinish has returned
          cands,     \* Candidates that AddFinish has returned
          sessions,  \* session tokens in the hands of the browsers
          drawn,     \* challenges drawn
          issued,    \* runs of "web token"
          now,       \* the clock
          revoked,   \* history: how often all sessions were revoked
          raced,     \* history: "web token" has written over a newer state
          unsigned   \* history: the file has held passkeys without a SessionSecret

vars == <<file, mu, job, cli, tokens, used, proofs, cands, sessions, drawn, issued, now, revoked, raced, unsigned>>

Challenges == 1..MaxChallenges
Times      == 0..(MaxTime + SessionTTL + BootstrapTTL + challengeTTL)
Ops        == {"unlock", "add-credential", "remove-credential"}
NoBoot     == -1
NoTarget   == NoOne
NoSecret   == 0
Secrets    == 1..(MaxIssued + 1)      \* the first is that of a file that already exists
persistedState == [creds : SUBSET Creds, secret : Secrets \cup {NoSecret},
                   boot : Times \cup {NoBoot}, epoch : 0..MaxEpoch]
NoState    == [creds |-> {}, secret |-> NoSecret, boot |-> NoBoot, epoch |-> -1]
\* A file at rest: the "web token" before its first passkey has left it a secret.
NewFile(C, k) == [creds |-> C, secret |-> k, boot |-> NoBoot, epoch |-> 0]
\* What a handler hands out once its save has succeeded.
Nothing == [kind |-> "nothing"]
Idle    == [pc |-> "idle", state |-> NoState, gives |-> Nothing]

Init ==
    /\ file \in {NewFile(C, IF C = {} THEN NoSecret ELSE 1) : C \in SUBSET Registered}
    /\ mu = NoOne
    /\ job = [h \in Handlers |-> Idle]
    /\ cli = NoState
    /\ tokens = {} /\ used = {} /\ proofs = {} /\ cands = {} /\ sessions = {}
    /\ drawn = 0 /\ issued = 0 /\ now = 0 /\ revoked = 0
    /\ raced = FALSE /\ unsigned = FALSE

-----------------------------------------------------------------------------
(* Read, change, save under Store.mu; the save may fail.                     *)

\* A read is the file of one moment: save renames a whole file into place, and
\* a read that meets the rename starts again.
readOnce == file
load     == readOnce

\* signToken: with the secret of the file, or with the empty key.
Token(purpose, op, target, req, allowed) ==
    [purpose |-> purpose, challenge |-> drawn + 1, exp |-> now + challengeTTL, secret |-> load.secret,
     op |-> op, target |-> target, req |-> req, allowed |-> allowed]

\* Mutant: a path that does not take Store.mu.
TakenByNobody(h) == UNCHANGED mu

Take(h) == mu = NoOne /\ mu' = h

Update(h, s, gives) ==
    /\ Take(h)
    /\ job' = [job EXCEPT ![h] = [pc |-> "save", state |-> s, gives |-> gives]]

\* A session that is signed with the empty key is left out of sessions: no
\* VerifySession accepts it, with an empty SessionSecret or with a later one.
save(h) ==
    /\ job[h].pc = "save"
    /\ mu' = NoOne
    /\ job' = [job EXCEPT ![h] = Idle]
    /\ LET g == job[h].gives IN
       \/ /\ file' = job[h].state
          /\ unsigned' = (unsigned \/ (file'.creds # {} /\ file'.secret = NoSecret))
          /\ revoked' = IF g.kind = "revocation" THEN revoked + 1 ELSE revoked
          /\ sessions' = sessions \cup {s \in {g} : g.kind = "session" /\ g.secret # NoSecret}
          /\ proofs' = proofs \cup {a \in {g} : g.kind = "assertion"}
       \/ UNCHANGED <<file, unsigned, revoked, sessions, proofs>>
    /\ UNCHANGED <<cli, tokens, used, cands, drawn, issued, now, raced>>

\* Only what was signed with the secret of the file; with no secret in it, the
\* empty key fits everything.  Then the purpose and the time.
Signed(t) == t \in tokens /\ load.secret # NoSecret /\ t.secret = load.secret
verifyToken(t) == load.secret = NoSecret \/ Signed(t)
verifyStateToken(t, purpose) == verifyToken(t) /\ t.purpose = purpose /\ now <= t.exp

\* The passkey's answer to the challenge of a token, new or registered.
verifyAttestation(uv, requireUV) == requireUV => uv
verifyAssertion(uv, requireUV) == requireUV => uv

\* What a request can bring as its token: one that was handed out, or, while
\* the key is empty, claims of any content, with a challenge that was drawn or
\* that nobody drew (0).
stateClaims ==
    [purpose : {"register", "authenticate", "op-auth", "add-register"}, challenge : {0, drawn},
     exp : {now + challengeTTL}, secret : {NoSecret}, op : Ops, target : Creds \cup {NoTarget},
     req : Reqs, allowed : {load.creds}]
Presented ==
    tokens \cup (IF load.secret = NoSecret /\ Cardinality(used) < MaxUnsigned THEN stateClaims ELSE {})

Issue(t) ==
    /\ drawn < MaxChallenges /\ (unsigned => drawn < MaxUnsigned)
    /\ drawn' = drawn + 1
    /\ tokens' = tokens \cup {t}
    /\ UNCHANGED <<file, mu, job, cli, used, proofs, cands, sessions, issued, now, revoked, raced, unsigned>>

-----------------------------------------------------------------------------
(* The first passkey, with the bootstrap token.                              *)

checkBootstrapToken == load.boot # NoBoot /\ now <= load.boot

RegisterBegin ==
    /\ load.creds = {} /\ checkBootstrapToken
    /\ Issue(Token("register", "unlock", NoTarget, NoOne, {}))

RegisterFinish(h, t, c) ==
    /\ job[h] = Idle
    /\ load.creds = {}
    /\ verifyStateToken(t, "register")
    /\ verifyAttestation(FALSE, FALSE)
    /\ Update(h, [load EXCEPT !.creds = {c}, !.boot = NoBoot],
                 [kind |-> "first", signed |-> Signed(t)])
    /\ UNCHANGED <<file, cli, tokens, used, proofs, cands, sessions, drawn, issued, now, revoked, raced, unsigned>>

-----------------------------------------------------------------------------
(* Sessions.                                                                 *)

AuthenticateBegin ==
    /\ load.creds # {}
    /\ Issue(Token("authenticate", "unlock", NoTarget, NoOne, load.creds))

AuthenticateFinish(h, t, c, uv) ==
    /\ job[h] = Idle
    /\ verifyStateToken(t, "authenticate")
    /\ c \in load.creds
    /\ verifyAssertion(uv, FALSE)
    /\ Update(h, load, [kind |-> "session", exp |-> now + SessionTTL, epoch |-> load.epoch,
                        secret |-> load.secret, revoked |-> revoked])
    /\ UNCHANGED <<file, cli, tokens, used, proofs, cands, sessions, drawn, issued, now, revoked, raced, unsigned>>

VerifySession(s) ==
    load.secret # NoSecret /\ s.secret = load.secret /\ now <= s.exp /\ s.epoch = load.epoch

\* handleLogout: the session is verified first, without Store.mu.
handleLogout(h) ==
    /\ job[h] = Idle
    /\ \E s \in sessions : VerifySession(s)
    /\ job' = [job EXCEPT ![h] = [Idle EXCEPT !.pc = "logout"]]
    /\ UNCHANGED <<file, mu, cli, tokens, used, proofs, cands, sessions, drawn, issued, now, revoked, raced, unsigned>>

Logout(h) ==
    /\ job[h].pc = "logout"
    /\ load.epoch < MaxEpoch /\ revoked < MaxEpoch
    /\ Update(h, [load EXCEPT !.epoch = @ + 1], [kind |-> "revocation"])
    /\ UNCHANGED <<file, cli, tokens, used, proofs, cands, sessions, drawn, issued, now, revoked, raced, unsigned>>

-----------------------------------------------------------------------------
(* Operations that a registered passkey authorises.                          *)

checkOpTarget(op, target) ==
    /\ op = "add-credential" => /\ target \notin load.creds
                                /\ Cardinality(load.creds) < maxCredentials
    /\ op = "remove-credential" => /\ target \in load.creds
                                   /\ Cardinality(load.creds) > 1

\* Who may answer: the passkeys with a PRF evaluation, or all; never the one
\* that is to be removed.
Allowed(op, target, evals) ==
    (IF evals = {} THEN load.creds ELSE evals) \ (IF op = "remove-credential" THEN {target} ELSE {})

validate(op, target) == (op = "unlock") = (target = NoTarget)

OpAuthBegin(op, target, req, evals) ==
    /\ validate(op, target)
    /\ load.creds # {}
    /\ checkOpTarget(op, target)
    /\ evals \subseteq load.creds
    /\ Allowed(op, target, evals) # {}
    /\ Issue(Token("op-auth", op, target, req, Allowed(op, target, evals)))

\* Mutant: a challenge is forgotten in the second in which it still counts.
ForgottenEarly(u) == u.exp <= now

Forgotten(u) == u.exp < now

consumeLocked(key, exp) ==
    LET kept == {u \in used : ~Forgotten(u)} IN
    /\ \A u \in kept : u.key # key
    /\ used' = kept \cup {[key |-> key, exp |-> exp]}

\* The sign count is saved only if it is positive: counts says whether it is.
OpAuthFinish(h, t, c, counts) ==
    /\ job[h] = Idle
    /\ verifyStateToken(t, "op-auth")
    /\ validate(t.op, t.target)
    /\ c \in load.creds /\ c \in t.allowed
    /\ checkOpTarget(t.op, t.target)
    /\ verifyAssertion(TRUE, TRUE)
    /\ consumeLocked(<<"op", t.challenge>>, t.exp)
    /\ LET a == [kind |-> "assertion", challenge |-> t.challenge, cred |-> c, op |-> t.op,
                 target |-> t.target, req |-> t.req, at |-> now, signed |-> Signed(t),
                 nth |-> Cardinality(proofs)] IN
       \/ counts /\ Update(h, load, a) /\ UNCHANGED proofs
       \/ ~counts /\ mu = NoOne /\ proofs' = proofs \cup {a} /\ UNCHANGED <<mu, job>>
    /\ UNCHANGED <<file, cli, tokens, cands, sessions, drawn, issued, now, revoked, raced, unsigned>>

AddBegin(req) ==
    /\ load.creds # {} /\ Cardinality(load.creds) < maxCredentials
    /\ Issue(Token("add-register", "unlock", NoTarget, req, {}))

AddFinish(t, c) ==
    /\ verifyStateToken(t, "add-register")
    /\ verifyAttestation(TRUE, TRUE)
    /\ c \notin load.creds
    /\ mu = NoOne
    /\ consumeLocked(<<"add", t.challenge>>, t.exp)
    /\ cands' = cands \cup {[cred |-> c, req |-> t.req, at |-> now]}
    /\ UNCHANGED <<file, mu, job, cli, tokens, proofs, sessions, drawn, issued, now, revoked, raced, unsigned>>

\* The authorisation is recent, and its passkey is still registered.
InForce(a) == now - a.at <= challengeTTL /\ a.cred \in load.creds

CommitAdd(h, cand, a) ==
    /\ job[h] = Idle
    /\ a.op = "add-credential" /\ a.target = cand.cred /\ a.req = cand.req
    /\ InForce(a) /\ now - cand.at <= 2 * challengeTTL
    /\ checkOpTarget(a.op, a.target)
    /\ Update(h, [load EXCEPT !.creds = @ \cup {cand.cred}], Nothing)
    /\ UNCHANGED <<file, cli, tokens, used, proofs, cands, sessions, drawn, issued, now, revoked, raced, unsigned>>

\* Mutant: the sessions of the removed passkey stay.
RemoveCredentialOnly(h, target, a) ==
    /\ job[h] = Idle
    /\ a.op = "remove-credential" /\ a.target = target /\ a.cred # target
    /\ InForce(a)
    /\ checkOpTarget(a.op, target)
    /\ Update(h, [load EXCEPT !.creds = @ \ {target}], [kind |-> "revocation"])
    /\ UNCHANGED <<file, cli, tokens, used, proofs, cands, sessions, drawn, issued, now, revoked, raced, unsigned>>

RemoveCredential(h, target, a) ==
    /\ job[h] = Idle
    /\ a.op = "remove-credential" /\ a.target = target /\ a.cred # target
    /\ InForce(a)
    /\ checkOpTarget(a.op, target)
    /\ load.epoch < MaxEpoch /\ revoked < MaxEpoch
    /\ Update(h, [load EXCEPT !.creds = @ \ {target}, !.epoch = @ + 1], [kind |-> "revocation"])
    /\ UNCHANGED <<file, cli, tokens, used, proofs, cands, sessions, drawn, issued, now, revoked, raced, unsigned>>

-----------------------------------------------------------------------------
(* goronation web token: another process, which Store.mu does not hold back. *)

IssueBootstrapToken ==
    /\ cli = NoState
    /\ issued < MaxIssued
    /\ issued' = issued + 1
    /\ cli' = load
    /\ UNCHANGED <<file, mu, job, tokens, used, proofs, cands, sessions, drawn, now, revoked, raced, unsigned>>

ensureSessionSecret == IF cli.secret = NoSecret THEN issued + 1 ELSE cli.secret

CliSave ==
    /\ cli # NoState
    /\ cli' = NoState
    /\ \/ /\ file' = [cli EXCEPT !.boot = now + BootstrapTTL, !.secret = ensureSessionSecret]
          /\ raced' = (raced \/ cli # file \/ \E h \in Handlers : job[h].pc = "save")
       \/ UNCHANGED <<file, raced>>
    /\ UNCHANGED <<mu, job, tokens, used, proofs, cands, sessions, drawn, issued, now, revoked, unsigned>>

\* The web process ends and starts again: what is only in memory is gone.
Restart ==
    /\ mu' = NoOne
    /\ job' = [h \in Handlers |-> Idle]
    /\ used' = {} /\ proofs' = {} /\ cands' = {}
    /\ UNCHANGED <<file, cli, tokens, sessions, drawn, issued, now, revoked, raced, unsigned>>

\* Tokens and sessions that have expired are of no use to anybody any more.
Tick ==
    /\ now < MaxTime
    /\ now' = now + 1
    /\ tokens' = {t \in tokens : now' <= t.exp}
    /\ sessions' = {s \in sessions : now' <= s.exp}
    /\ UNCHANGED <<file, mu, job, cli, used, proofs, cands, drawn, issued, revoked, raced, unsigned>>

Handle(h) ==
    \/ \E t \in Presented, c \in Creds :
          \/ RegisterFinish(h, t, c)
          \/ \E b \in BOOLEAN : AuthenticateFinish(h, t, c, b) \/ OpAuthFinish(h, t, c, b)
    \/ handleLogout(h) \/ Logout(h)
    \/ \E a \in proofs : (\E d \in cands : CommitAdd(h, d, a)) \/ RemoveCredential(h, a.target, a)
    \/ save(h)

Next ==
    \/ RegisterBegin \/ AuthenticateBegin
    \/ \E op \in Ops, target \in Creds \cup {NoTarget}, req \in Reqs, E \in SUBSET file.creds :
          OpAuthBegin(op, target, req, E)
    \/ \E req \in Reqs : AddBegin(req)
    \/ \E t \in Presented, c \in Creds : AddFinish(t, c)
    \/ \E h \in Handlers : Handle(h)
    \/ IssueBootstrapToken \/ CliSave \/ Restart \/ Tick

Spec == Init /\ [][Next]_vars

-----------------------------------------------------------------------------
(* Type correctness of the file and of what the web process holds.           *)
TypeOK ==
    /\ file \in persistedState
    /\ cli \in persistedState \cup {NoState}
    /\ mu \in Handlers \cup {NoOne}
    /\ \A h \in Handlers : job[h].pc \in {"idle", "save", "logout"}
    /\ drawn \in 0..MaxChallenges /\ now \in 0..MaxTime /\ issued \in 0..MaxIssued
    /\ \A t \in tokens : t.challenge \in 1..drawn
    /\ raced \in BOOLEAN /\ unsigned \in BOOLEAN

(* A ceremony authorises once: of all Assertions the process holds whose     *)
(* state token it had signed, no two come from the same challenge, however   *)
(* often and late its answer is sent.  An Assertion that was given while the *)
(* file had no SessionSecret is not among them: the expiry in its claims,    *)
(* and so the time for which it is remembered, is anybody's.                 *)
OnceOnly ==
    \A a, b \in proofs : a.signed /\ b.signed /\ a.challenge = b.challenge => a = b

(* After Logout or the removal of a passkey has been saved, no session that  *)
(* was issued before is valid again, whatever other requests were between    *)
(* their load and their save; only "web token", in another process, may undo *)
(* it by writing over a newer state.                                         *)
RevokedForGood ==
    \A s \in sessions : VerifySession(s) /\ ~raced => s.revoked = revoked

\* The first passkey is saved by a RegisterFinish whose state token this store
\* had signed, in a RegisterBegin that was shown the bootstrap token.
FirstPasskey ==
    \E h \in Handlers :
        /\ job[h].pc = "save" /\ file' = job[h].state
        /\ job[h].gives.kind = "first" /\ job[h].gives.signed
        /\ \E c \in Creds : file'.creds = {c}

\* One passkey comes or goes by an Assertion for just this, of a passkey that is
\* registered before and after the change.
ByPasskey(a) ==
    /\ a.cred \in file.creds \cap file'.creds
    /\ a.signed \/ unsigned
    /\ \/ a.op = "add-credential" /\ file'.creds = file.creds \cup {a.target}
       \/ a.op = "remove-credential" /\ file'.creds = file.creds \ {a.target}

(* The set of passkeys changes by one: the first with the bootstrap token,   *)
(* every other by the authority of a passkey that is registered before and   *)
(* after the change; so the last one can never go, even if two passkeys      *)
(* remove each other.  There are two exceptions.  A file without a           *)
(* SessionSecret ("web token" was never run) takes its first passkey from a  *)
(* RegisterFinish with any claims, and until "web token" is run the claims   *)
(* of the later ceremonies are anybody's too (unsigned), though a registered *)
(* passkey must still answer.  And "web token" may write over a newer state  *)
(* (raced).                                                                  *)
ChangeAuthorised ==
    [][file'.creds # file.creds /\ ~raced' =>
          IF file.creds = {} THEN file.secret # NoSecret => FirstPasskey
                             ELSE \E a \in proofs : ByPasskey(a)]_vars
=============================================================================
