-------------------------- MODULE WebAuthn_proofs --------------------------
(***************************************************************************)
(* The passkeys for any number of passkeys, requests in flight, challenges *)
(* and any times to live: an answer counts once, a revoked session stays   *)
(* revoked, and passkeys change only by the authority of a passkey.        *)
(***************************************************************************)
EXTENDS WebAuthn, TLAPS

(* What is known of every record the process holds or has handed out; a    *)
(* token that has expired is gone.                                         *)
WType ==
  /\ TypeOK
  /\ job = [h \in Handlers |-> job[h]]
  /\ \A t \in tokens : t.exp \in Nat /\ now <= t.exp
  /\ \A t1, t2 \in tokens : t1.challenge = t2.challenge => t1 = t2
  /\ \A d \in cands : d.cred \in Creds

(* Only the request that holds Store.mu is between its load and its save.  *)
MInv == \A h \in Handlers : job[h].pc = "save" <=> mu = h

(* A challenge was answered, and Store.used still knows it if its token    *)
(* can be sent again.                                                      *)
Spent(ch) ==
  /\ ch \in 1..drawn
  /\ \A t \in tokens : t.challenge = ch =>
       \E u \in used : u.key = <<"op", ch>> /\ u.exp = t.exp

(* The change of the passkeys is the first registration, by a token this   *)
(* store has signed if it has a secret, or one a passkey has authorised.   *)
Told(a, old, new) ==
  /\ a.cred \in old \cap new
  /\ a.signed \/ unsigned
  /\ \/ a.op = "add-credential" /\ new = old \cup {a.target}
     \/ a.op = "remove-credential" /\ new = old \ {a.target}

Founded(g, new) == g.kind = "first" /\ g.signed /\ \E c \in Creds : new = {c}

Authorised(old, new, g) ==
  \/ new = old
  \/ old = {} /\ (file.secret # NoSecret => Founded(g, new))
  \/ \E a \in proofs : Told(a, old, new)

(* What a request is about to save comes from the file as it is now.       *)
Derived(j) ==
  /\ j.state.epoch = IF j.gives.kind = "revocation" THEN file.epoch + 1 ELSE file.epoch
  /\ j.gives.kind = "session" => j.gives.epoch = j.gives.revoked
  /\ Authorised(file.creds, j.state.creds, j.gives)

(* An Assertion that is about to be handed out: its challenge is spent.    *)
Fresh(g) == g.signed => Spent(g.challenge) /\ \A a \in proofs : a.signed => a.challenge # g.challenge

JInv(h) ==
  job[h].pc = "save" =>
    /\ job[h].state \in persistedState
    /\ job[h].gives.kind = "assertion" => Fresh(job[h].gives) /\ (job[h].gives.signed \/ unsigned)
    /\ ~raced => Derived(job[h])

(* Passkeys and a secret are in the file together, and every Assertion     *)
(* comes from a token this store has signed, until the file has held       *)
(* passkeys without a secret.                                              *)
SInv == ~unsigned => /\ file.creds # {} => file.secret # NoSecret
                     /\ \A a \in proofs : a.signed

(* Without a race the epoch of the file counts the revocations, and a      *)
(* session carries the count of its time.                                  *)
EInv == ~raced => /\ file.epoch = revoked
                  /\ \A s \in sessions : s.epoch = s.revoked

PInv == \A a \in proofs : a.signed => Spent(a.challenge)

WInv == WType /\ MInv /\ EInv /\ SInv /\ PInv /\ OnceOnly /\ \A h \in Handlers : JInv(h)

-----------------------------------------------------------------------------
LEMMA Clock ==
  ASSUME TypeOK
  PROVE  now \in Nat /\ drawn \in Nat /\ issued \in Nat /\ challengeTTL \in Nat /\ MaxTime \in Nat
         /\ BootstrapTTL \in Nat /\ MaxChallenges \in Nat /\ MaxEpoch \in Nat /\ MaxIssued \in Nat
  BY WebAuthnAssumption DEF TypeOK

(* Store.used forgets a challenge only when its token has expired.         *)
LEMMA ConsumeSpent ==
  ASSUME WType, NEW key, NEW exp, consumeLocked(key, exp), UNCHANGED <<tokens, drawn>>
  PROVE  \A ch : Spent(ch) => Spent(ch)'
<1> SUFFICES ASSUME NEW ch, Spent(ch), NEW t \in tokens, t.challenge = ch
             PROVE  \E u \in used' : u.key = <<"op", ch>> /\ u.exp = t.exp
  BY DEF Spent
<1>1. PICK u \in used : u.key = <<"op", ch>> /\ u.exp = t.exp
  BY DEF Spent
<1>2. t.exp \in Nat /\ now <= t.exp /\ now \in Nat
  BY Clock DEF WType
<1>3. ~Forgotten(u)
  BY <1>1, <1>2 DEF Forgotten
<1>4. u \in used'
  BY <1>3 DEF consumeLocked
<1> QED
  BY <1>1, <1>4

(* A challenge that is consumed was not spent before and is afterwards.    *)
LEMMA ConsumeNew ==
  ASSUME WType, NEW t \in tokens, consumeLocked(<<"op", t.challenge>>, t.exp),
         UNCHANGED <<tokens, drawn>>
  PROVE  ~Spent(t.challenge) /\ Spent(t.challenge)'
<1>1. ~Spent(t.challenge)
  <2> SUFFICES ASSUME Spent(t.challenge) PROVE FALSE
    OBVIOUS
  <2>1. PICK u \in used : u.key = <<"op", t.challenge>> /\ u.exp = t.exp
    BY DEF Spent
  <2>2. t.exp \in Nat /\ now <= t.exp /\ now \in Nat
    BY Clock DEF WType
  <2>3. ~Forgotten(u)
    BY <2>1, <2>2 DEF Forgotten
  <2> QED
    BY <2>1, <2>3 DEF consumeLocked
<1>2. Spent(t.challenge)'
  <2>1. t.challenge \in (1..drawn)'
    BY DEF WType, TypeOK
  <2>2. ASSUME NEW t2 \in tokens, t2.challenge = t.challenge PROVE t2 = t
    BY <2>2 DEF WType
  <2>3. [key |-> <<"op", t.challenge>>, exp |-> t.exp] \in used'
    BY DEF consumeLocked
  <2> QED
    BY <2>1, <2>2, <2>3 DEF Spent
<1> QED
  BY <1>1, <1>2

(* What the others, and the assertions, keep through a step.               *)
LEMMA PInvStep ==
  ASSUME PInv, \A ch : Spent(ch) => Spent(ch)', proofs' \subseteq proofs
  PROVE  PInv'
  BY DEF PInv

LEMMA SameDerived ==
  ASSUME NEW j, Derived(j), file' = file, proofs' = proofs, unsigned' = unsigned
  PROVE  Derived(j)'
  BY DEF Derived, Authorised, Told

LEMMA KeepJob ==
  ASSUME WInv, NEW h \in Handlers, job'[h] = job[h], \A ch : Spent(ch) => Spent(ch)',
         file' = file, proofs' = proofs, raced' = raced, unsigned' = unsigned
  PROVE  JInv(h)'
<1> SUFFICES ASSUME job[h].pc = "save" PROVE JInv(h)'
  BY DEF JInv
<1>1. JInv(h)
  BY DEF WInv
<1>2. ~raced => Derived(job[h])'
  BY <1>1, SameDerived DEF JInv
<1>3. job[h].gives.kind = "assertion" => Fresh(job[h].gives)'
  BY <1>1 DEF JInv, Fresh
<1> QED
  BY <1>1, <1>2, <1>3 DEF JInv

(* A request takes Store.mu, has loaded and is about to save.              *)
LEMMA UpdateInv ==
  ASSUME WInv, NEW h \in Handlers, NEW s \in persistedState, NEW g, Update(h, s, g),
         \A ch : Spent(ch) => Spent(ch)',
         g.kind = "assertion" => Fresh(g)' /\ (g.signed \/ unsigned),
         ~raced => Derived([pc |-> "save", state |-> s, gives |-> g]),
         UNCHANGED <<file, cli, tokens, proofs, cands, sessions, drawn, issued, now, revoked, raced, unsigned>>
  PROVE  WInv'
<1>1. mu = NoOne /\ mu' = h
      /\ job' = [job EXCEPT ![h] = [pc |-> "save", state |-> s, gives |-> g]]
  BY DEF Update, Take
<1>2. job'[h] = [pc |-> "save", state |-> s, gives |-> g]
      /\ \A k \in Handlers \ {h} : job'[k] = job[k]
  BY <1>1 DEF WInv, WType
<1>3. WType'
  <2>1. TypeOK'
    BY <1>1, <1>2 DEF WInv, WType, TypeOK
  <2>2. job' = [k \in Handlers |-> job'[k]]
    BY <1>1 DEF WInv, WType
  <2> QED
    BY <2>1, <2>2 DEF WInv, WType
<1>4. MInv'
  <2>1. \A k \in Handlers : job[k].pc # "save"
    BY <1>1, WebAuthnAssumption DEF WInv, MInv
  <2> QED
    BY <1>1, <1>2, <2>1 DEF MInv
<1>5. EInv' /\ SInv' /\ PInv' /\ OnceOnly'
  BY PInvStep DEF WInv, EInv, SInv, OnceOnly
<1>6. JInv(h)'
  <2>1. ~raced => Derived([pc |-> "save", state |-> s, gives |-> g])'
    BY SameDerived
  <2> QED
    BY <1>2, <2>1 DEF JInv
<1>7. ASSUME NEW k \in Handlers, k # h PROVE JInv(k)'
  BY <1>2, <1>7, KeepJob
<1> QED
  BY <1>3, <1>4, <1>5, <1>6, <1>7 DEF WInv

(* A challenge is drawn that no token and no assertion has.                *)
LEMMA IssueInv ==
  ASSUME WInv, NEW t, t.challenge = drawn + 1, t.exp = now + challengeTTL, Issue(t)
  PROVE  WInv'
<1>1. /\ drawn' = drawn + 1 /\ tokens' = tokens \cup {t} /\ drawn < MaxChallenges
      /\ UNCHANGED <<file, mu, job, cli, used, proofs, cands, sessions, issued, now, revoked, raced, unsigned>>
  BY DEF Issue
<1>2. now \in Nat /\ drawn \in Nat /\ challengeTTL \in Nat /\ MaxChallenges \in Nat
  BY Clock DEF WInv, WType
<1>3. \A x \in tokens : x.challenge \in 1..drawn
  BY DEF WInv, WType, TypeOK
<1>4. WType'
  <2>1. TypeOK'
    BY <1>1, <1>2, <1>3 DEF WInv, WType, TypeOK
  <2>2. \A x \in tokens' : x.exp \in Nat /\ now <= x.exp
    BY <1>1, <1>2 DEF WInv, WType
  <2>3. \A t1, t2 \in tokens' : t1.challenge = t2.challenge => t1 = t2
    BY <1>1, <1>2, <1>3 DEF WInv, WType
  <2> QED
    BY <1>1, <2>1, <2>2, <2>3 DEF WInv, WType
<1>5. ASSUME NEW ch, Spent(ch) PROVE Spent(ch)'
  <2>1. ch \in 1..drawn
    BY <1>5 DEF Spent
  <2>2. ch \in 1..drawn' /\ t.challenge # ch
    BY <1>1, <1>2, <2>1
  <2> QED
    BY <1>1, <1>5, <2>2 DEF Spent
<1>6. MInv' /\ EInv' /\ SInv' /\ PInv' /\ OnceOnly'
  BY <1>1, <1>5, PInvStep DEF WInv, MInv, EInv, SInv, OnceOnly
<1>7. ASSUME NEW k \in Handlers PROVE JInv(k)'
  BY <1>1, <1>5, KeepJob
<1> QED
  BY <1>4, <1>6, <1>7 DEF WInv

LEMMA BeginInv ==
  ASSUME WInv,
         \/ RegisterBegin \/ AuthenticateBegin
         \/ \E op \in Ops, target \in Creds \cup {NoTarget}, req \in Reqs, E \in SUBSET file.creds :
               OpAuthBegin(op, target, req, E)
         \/ \E req \in Reqs : AddBegin(req)
  PROVE  WInv'
<1>1. \A purpose, op, target, req, allowed :
        /\ Token(purpose, op, target, req, allowed).challenge = drawn + 1
        /\ Token(purpose, op, target, req, allowed).exp = now + challengeTTL
  BY DEF Token
<1>2. PICK purpose, op, target, req, allowed : Issue(Token(purpose, op, target, req, allowed))
  BY DEF RegisterBegin, AuthenticateBegin, OpAuthBegin, AddBegin
<1> QED
  BY <1>1, <1>2, IssueInv

-----------------------------------------------------------------------------
(* The requests that take Store.mu.                                        *)
LEMMA Unspent ==
  ASSUME WInv, NEW h \in Handlers, UNCHANGED <<tokens, used, drawn>>
  PROVE  \A ch : Spent(ch) => Spent(ch)'
  BY DEF Spent

LEMMA RegisterFinishInv ==
  ASSUME WInv, NEW h \in Handlers, NEW t, NEW c \in Creds, RegisterFinish(h, t, c)
  PROVE  WInv'
<1> DEFINE s == [file EXCEPT !.creds = {c}, !.boot = NoBoot]
           g == [kind |-> "first", signed |-> Signed(t)]
<1>1. Update(h, s, g) /\ file.creds = {}
  BY DEF RegisterFinish, load, readOnce
<1>2. file \in persistedState
  BY DEF WInv, WType, TypeOK
<1>3. s \in persistedState /\ s.epoch = file.epoch /\ s.creds = {c}
  BY <1>2 DEF persistedState
<1>4. file.secret # NoSecret => Signed(t)
  BY DEF RegisterFinish, verifyStateToken, verifyToken, load, readOnce
<1>5. g.kind = "first" /\ (file.secret # NoSecret => g.signed)
  BY <1>4
<1> HIDE DEF s, g
<1>6. Derived([pc |-> "save", state |-> s, gives |-> g])
  BY <1>1, <1>3, <1>5 DEF Derived, Authorised, Founded
<1>7. UNCHANGED <<file, cli, tokens, used, proofs, cands, sessions, drawn, issued, now, revoked, raced, unsigned>>
  BY DEF RegisterFinish
<1> QED
  BY <1>1, <1>3, <1>5, <1>6, <1>7, Unspent, UpdateInv

LEMMA AuthenticateFinishInv ==
  ASSUME WInv, NEW h \in Handlers, NEW t, NEW c \in Creds, NEW uv \in BOOLEAN,
         AuthenticateFinish(h, t, c, uv)
  PROVE  WInv'
<1> DEFINE g == [kind |-> "session", exp |-> now + SessionTTL, epoch |-> file.epoch,
                 secret |-> file.secret, revoked |-> revoked]
<1>1. Update(h, file, g)
  BY DEF AuthenticateFinish, load, readOnce
<1>2. file \in persistedState
  BY DEF WInv, WType, TypeOK
<1>3. ~raced => Derived([pc |-> "save", state |-> file, gives |-> g])
  BY DEF WInv, EInv, Derived, Authorised
<1>4. g.kind # "assertion"
  OBVIOUS
<1> HIDE DEF g
<1>5. UNCHANGED <<file, cli, tokens, used, proofs, cands, sessions, drawn, issued, now, revoked, raced, unsigned>>
  BY DEF AuthenticateFinish
<1> QED
  BY <1>1, <1>2, <1>3, <1>4, <1>5, Unspent, UpdateInv

LEMMA LogoutInv ==
  ASSUME WInv, NEW h \in Handlers, Logout(h)
  PROVE  WInv'
<1> DEFINE s == [file EXCEPT !.epoch = @ + 1]
           g == [kind |-> "revocation"]
<1>1. Update(h, s, g) /\ file.epoch < MaxEpoch
  BY DEF Logout, load, readOnce
<1>2. file \in persistedState /\ MaxEpoch \in Nat
  BY Clock DEF WInv, WType, TypeOK
<1>3. s \in persistedState /\ s.epoch = file.epoch + 1 /\ s.creds = file.creds
  BY <1>1, <1>2 DEF persistedState
<1>4. g.kind = "revocation"
  OBVIOUS
<1> HIDE DEF s, g
<1>5. Derived([pc |-> "save", state |-> s, gives |-> g])
  BY <1>3, <1>4 DEF Derived, Authorised
<1>6. UNCHANGED <<file, cli, tokens, used, proofs, cands, sessions, drawn, issued, now, revoked, raced, unsigned>>
  BY DEF Logout
<1> QED
  BY <1>1, <1>3, <1>4, <1>5, <1>6, Unspent, UpdateInv

LEMMA CommitAddInv ==
  ASSUME WInv, NEW h \in Handlers, NEW a \in proofs, NEW cand \in cands, CommitAdd(h, cand, a)
  PROVE  WInv'
<1> DEFINE s == [file EXCEPT !.creds = @ \cup {cand.cred}]
<1>1. /\ Update(h, s, Nothing)
      /\ a.op = "add-credential" /\ a.target = cand.cred /\ a.cred \in file.creds
      /\ a.signed \/ unsigned
  BY DEF CommitAdd, InForce, load, readOnce, WInv, SInv
<1>2. file \in persistedState /\ cand.cred \in Creds
  BY DEF WInv, WType, TypeOK
<1>3. s \in persistedState /\ s.epoch = file.epoch /\ s.creds = file.creds \cup {cand.cred}
  BY <1>2 DEF persistedState
<1> HIDE DEF s
<1>4. Derived([pc |-> "save", state |-> s, gives |-> Nothing])
  BY <1>1, <1>3 DEF Derived, Authorised, Told, Nothing
<1>5. Nothing.kind # "assertion"
  BY DEF Nothing
<1>6. UNCHANGED <<file, cli, tokens, used, proofs, cands, sessions, drawn, issued, now, revoked, raced, unsigned>>
  BY DEF CommitAdd
<1> QED
  BY <1>1, <1>3, <1>4, <1>5, <1>6, Unspent, UpdateInv

LEMMA RemoveCredentialInv ==
  ASSUME WInv, NEW h \in Handlers, NEW a \in proofs, RemoveCredential(h, a.target, a)
  PROVE  WInv'
<1> DEFINE s == [file EXCEPT !.creds = @ \ {a.target}, !.epoch = @ + 1]
           g == [kind |-> "revocation"]
<1>1. /\ Update(h, s, g) /\ file.epoch < MaxEpoch
      /\ a.op = "remove-credential" /\ a.cred # a.target /\ a.cred \in file.creds
      /\ a.signed \/ unsigned
  BY DEF RemoveCredential, InForce, load, readOnce, WInv, SInv
<1>2. file \in persistedState /\ MaxEpoch \in Nat
  BY Clock DEF WInv, WType, TypeOK
<1>3. s \in persistedState /\ s.epoch = file.epoch + 1 /\ s.creds = file.creds \ {a.target}
  <2>1. file.epoch + 1 \in 0..MaxEpoch
    BY <1>1, <1>2 DEF persistedState
  <2>2. file.creds \ {a.target} \in SUBSET Creds
    BY <1>2 DEF persistedState
  <2> QED
    BY <1>2, <2>1, <2>2 DEF persistedState
<1>4. g.kind = "revocation"
  OBVIOUS
<1> HIDE DEF s, g
<1>5. Derived([pc |-> "save", state |-> s, gives |-> g])
  BY <1>1, <1>3, <1>4 DEF Derived, Authorised, Told
<1>6. UNCHANGED <<file, cli, tokens, used, proofs, cands, sessions, drawn, issued, now, revoked, raced, unsigned>>
  BY DEF RemoveCredential
<1> QED
  BY <1>1, <1>3, <1>4, <1>5, <1>6, Unspent, UpdateInv

(* The answer to a challenge: its Assertion is handed out at once, or      *)
(* after the save of the sign count.                                       *)
LEMMA OpAuthFinishInv ==
  ASSUME WInv, NEW h \in Handlers, NEW t, NEW c \in Creds, NEW counts \in BOOLEAN,
         OpAuthFinish(h, t, c, counts)
  PROVE  WInv'
<1>0. PICK a : a = [kind |-> "assertion", challenge |-> t.challenge, cred |-> c, op |-> t.op,
                   target |-> t.target, req |-> t.req, at |-> now, signed |-> Signed(t),
                   nth |-> Cardinality(proofs)]
  OBVIOUS
<1>1. /\ consumeLocked(<<"op", t.challenge>>, t.exp)
      /\ UNCHANGED <<file, cli, tokens, cands, sessions, drawn, issued, now, revoked, raced, unsigned>>
      /\ \/ Update(h, file, a) /\ UNCHANGED proofs
         \/ mu = NoOne /\ proofs' = proofs \cup {a} /\ UNCHANGED <<mu, job>>
  BY <1>0 DEF OpAuthFinish, load, readOnce
<1>2. \A ch : Spent(ch) => Spent(ch)'
  BY <1>1, ConsumeSpent DEF WInv
<1>3. Signed(t) => ~Spent(t.challenge) /\ Spent(t.challenge)'
  BY <1>1, ConsumeNew DEF WInv, Signed
<1>4. Signed(t) \/ unsigned
  <2>1. file.creds # {} /\ (file.secret = NoSecret \/ Signed(t))
    BY DEF OpAuthFinish, verifyStateToken, verifyToken, load, readOnce
  <2> QED
    BY <2>1 DEF WInv, SInv
<1>5. a.challenge = t.challenge /\ a.kind = "assertion" /\ (a.signed <=> Signed(t))
  BY <1>0 DEF Signed
<1>6. a.signed => /\ Spent(a.challenge)'
                  /\ \A b \in proofs : b.signed => b.challenge # a.challenge
  BY <1>3, <1>5 DEF WInv, PInv
<1>7. CASE Update(h, file, a) /\ UNCHANGED proofs
  <2>1. file \in persistedState
    BY DEF WInv, WType, TypeOK
  <2>2. Derived([pc |-> "save", state |-> file, gives |-> a])
    BY <1>5 DEF Derived, Authorised
  <2>3. Fresh(a)' /\ (a.signed \/ unsigned)
    BY <1>4, <1>5, <1>6, <1>7 DEF Fresh
  <2> QED
    BY <1>1, <1>2, <1>7, <2>1, <2>2, <2>3, UpdateInv
<1>8. CASE mu = NoOne /\ proofs' = proofs \cup {a} /\ UNCHANGED <<mu, job>>
  <2>1. WType'
    BY <1>1, <1>8 DEF WInv, WType, TypeOK
  <2>2. MInv' /\ EInv'
    BY <1>1, <1>8 DEF WInv, MInv, EInv
  <2>3. SInv'
    BY <1>1, <1>4, <1>5, <1>8 DEF WInv, SInv
  <2>4. PInv'
    BY <1>2, <1>6, <1>8 DEF WInv, PInv
  <2>5. OnceOnly'
    BY <1>6, <1>8 DEF WInv, OnceOnly
  <2>6. ASSUME NEW k \in Handlers PROVE JInv(k)'
    BY <1>8, WebAuthnAssumption DEF WInv, MInv, JInv
  <2> QED
    BY <2>1, <2>2, <2>3, <2>4, <2>5, <2>6 DEF WInv
<1> QED
  BY <1>1, <1>7, <1>8

LEMMA AddFinishInv ==
  ASSUME WInv, NEW t, NEW c \in Creds, AddFinish(t, c)
  PROVE  WInv'
<1>1. /\ consumeLocked(<<"add", t.challenge>>, t.exp)
      /\ cands' = cands \cup {[cred |-> c, req |-> t.req, at |-> now]}
      /\ UNCHANGED <<file, mu, job, cli, tokens, proofs, sessions, drawn, issued, now, revoked, raced, unsigned>>
  BY DEF AddFinish
<1>2. \A ch : Spent(ch) => Spent(ch)'
  BY <1>1, ConsumeSpent DEF WInv
<1>3. WType'
  BY <1>1 DEF WInv, WType, TypeOK
<1>4. MInv' /\ EInv' /\ SInv' /\ PInv' /\ OnceOnly'
  BY <1>1, <1>2, PInvStep DEF WInv, MInv, EInv, SInv, OnceOnly
<1>5. ASSUME NEW k \in Handlers PROVE JInv(k)'
  BY <1>1, <1>2, KeepJob
<1> QED
  BY <1>3, <1>4, <1>5 DEF WInv

LEMMA HandleLogoutInv ==
  ASSUME WInv, NEW h \in Handlers, handleLogout(h)
  PROVE  WInv'
<1>1. /\ job[h] = Idle /\ job' = [job EXCEPT ![h] = [Idle EXCEPT !.pc = "logout"]]
      /\ UNCHANGED <<file, mu, cli, tokens, used, proofs, cands, sessions, drawn, issued, now, revoked, raced, unsigned>>
  BY DEF handleLogout
<1>2. job'[h].pc = "logout" /\ job[h].pc = "idle" /\ \A k \in Handlers \ {h} : job'[k] = job[k]
  BY <1>1 DEF Idle, WInv, WType
<1>3. WType'
  <2>1. job' = [k \in Handlers |-> job'[k]]
    BY <1>1 DEF WInv, WType
  <2> QED
    BY <1>1, <1>2, <2>1 DEF WInv, WType, TypeOK
<1>4. MInv'
  BY <1>1, <1>2 DEF WInv, MInv
<1>5. \A ch : Spent(ch) => Spent(ch)'
  BY <1>1, Unspent
<1>6. EInv' /\ SInv' /\ PInv' /\ OnceOnly'
  BY <1>1, <1>5, PInvStep DEF WInv, EInv, SInv, OnceOnly
<1>7. ASSUME NEW k \in Handlers PROVE JInv(k)'
  <2>1. CASE k = h
    BY <1>2, <2>1 DEF JInv
  <2>2. CASE k # h
    BY <1>1, <1>2, <1>5, <2>2, KeepJob
  <2> QED
    BY <2>1, <2>2
<1> QED
  BY <1>3, <1>4, <1>6, <1>7 DEF WInv

(* The save, done or failed.                                               *)
LEMMA SaveInv ==
  ASSUME WInv, NEW h \in Handlers, save(h)
  PROVE  WInv'
<1>0. PICK g : g = job[h].gives
  OBVIOUS
<1>1. /\ job[h].pc = "save" /\ mu' = NoOne /\ job' = [job EXCEPT ![h] = Idle]
      /\ UNCHANGED <<cli, tokens, used, cands, drawn, issued, now, raced>>
  BY DEF save
<1>2. JInv(h) /\ mu = h
  BY <1>1 DEF WInv, MInv
<1>3. \A k \in Handlers : job'[k].pc # "save"
  BY <1>1, <1>2 DEF WInv, WType, MInv, Idle
<1>4. MInv' /\ \A k \in Handlers : JInv(k)'
  BY <1>1, <1>3, WebAuthnAssumption DEF MInv, JInv
<1>5. \A ch : Spent(ch) => Spent(ch)'
  BY <1>1, Unspent
<1>6. CASE /\ file' = job[h].state
           /\ unsigned' = (unsigned \/ (file'.creds # {} /\ file'.secret = NoSecret))
           /\ revoked' = IF g.kind = "revocation" THEN revoked + 1 ELSE revoked
           /\ sessions' = sessions \cup {s \in {g} : g.kind = "session" /\ g.secret # NoSecret}
           /\ proofs' = proofs \cup {a \in {g} : g.kind = "assertion"}
  <2>1. job[h].state \in persistedState
    BY <1>1, <1>2 DEF JInv
  <2>2. WType'
    <3>1. \A k \in Handlers : job'[k].pc \in {"idle", "save", "logout"}
      BY <1>1 DEF WInv, WType, TypeOK, Idle
    <3>2. job' = [k \in Handlers |-> job'[k]]
      BY <1>1 DEF WInv, WType
    <3> QED
      BY <1>1, <1>6, <2>1, <3>1, <3>2 DEF WInv, WType, TypeOK
  <2>3. EInv'
    <3> SUFFICES ASSUME ~raced PROVE file'.epoch = revoked' /\ \A s \in sessions' : s.epoch = s.revoked
      BY <1>1 DEF EInv
    <3>1. Derived(job[h]) /\ EInv
      BY <1>1, <1>2 DEF JInv, WInv
    <3> QED
      BY <1>0, <1>6, <3>1 DEF Derived, EInv
  <2>4. unsigned' \in BOOLEAN /\ (unsigned => unsigned')
        /\ (~unsigned' => ~unsigned /\ (file'.creds # {} => file'.secret # NoSecret))
    BY <1>6
  <2>5. SInv' /\ PInv' /\ OnceOnly'
    <3>1. CASE g.kind = "assertion"
      <4>1. Fresh(g) /\ (g.signed \/ unsigned)
        BY <1>0, <1>1, <1>2, <3>1 DEF JInv
      <4>2. proofs' = proofs \cup {g}
        BY <1>6, <3>1
      <4>3. SInv'
        BY <2>4, <4>1, <4>2 DEF WInv, SInv
      <4>4. PInv'
        BY <1>5, <4>1, <4>2 DEF WInv, PInv, Fresh
      <4>5. OnceOnly'
        BY <4>1, <4>2 DEF WInv, OnceOnly, Fresh
      <4> QED
        BY <4>3, <4>4, <4>5
    <3>2. CASE g.kind # "assertion"
      <4>1. proofs' = proofs
        BY <1>6, <3>2
      <4>2. SInv'
        BY <2>4, <4>1 DEF WInv, SInv
      <4> QED
        BY <1>5, <4>1, <4>2, PInvStep DEF WInv, OnceOnly
    <3> QED
      BY <3>1, <3>2
  <2> QED
    BY <1>4, <2>2, <2>3, <2>5 DEF WInv
<1>7. CASE UNCHANGED <<file, unsigned, revoked, sessions, proofs>>
  <2>1. WType'
    <3>1. \A k \in Handlers : job'[k].pc \in {"idle", "save", "logout"}
      BY <1>1 DEF WInv, WType, TypeOK, Idle
    <3>2. job' = [k \in Handlers |-> job'[k]]
      BY <1>1 DEF WInv, WType
    <3> QED
      BY <1>1, <1>7, <3>1, <3>2 DEF WInv, WType, TypeOK
  <2>2. EInv' /\ SInv' /\ PInv' /\ OnceOnly'
    BY <1>1, <1>5, <1>7, PInvStep DEF WInv, EInv, SInv, OnceOnly
  <2> QED
    BY <1>4, <2>1, <2>2 DEF WInv
<1> QED
  BY <1>0, <1>6, <1>7 DEF save

(* The other process: what it writes over is noted in raced.               *)
LEMMA CliInv ==
  ASSUME WInv, IssueBootstrapToken
  PROVE  WInv'
<1>1. cli' = file /\ issued < MaxIssued /\ issued' = issued + 1
      /\ UNCHANGED <<file, mu, job, tokens, used, proofs, cands, sessions, drawn, now, revoked, raced, unsigned>>
  BY DEF IssueBootstrapToken, load, readOnce
<1>2. WType'
  <2>1. issued' \in 0..MaxIssued
    BY <1>1, WebAuthnAssumption DEF WInv, WType, TypeOK
  <2> QED
    BY <1>1, <2>1 DEF WInv, WType, TypeOK
<1>3. \A ch : Spent(ch) => Spent(ch)'
  BY <1>1 DEF Spent
<1>4. MInv' /\ EInv' /\ SInv' /\ PInv' /\ OnceOnly'
  BY <1>1, <1>3, PInvStep DEF WInv, MInv, EInv, SInv, OnceOnly
<1>5. ASSUME NEW k \in Handlers PROVE JInv(k)'
  BY <1>1, <1>3, KeepJob
<1> QED
  BY <1>2, <1>4, <1>5 DEF WInv

LEMMA CliSaveInv ==
  ASSUME WInv, CliSave
  PROVE  WInv'
<1>1. /\ cli # NoState /\ cli' = NoState
      /\ UNCHANGED <<mu, job, tokens, used, proofs, cands, sessions, drawn, issued, now, revoked, unsigned>>
  BY DEF CliSave
<1>2. \A ch : Spent(ch) => Spent(ch)'
  BY <1>1 DEF Spent
<1>3. MInv' /\ PInv' /\ OnceOnly'
  BY <1>1, <1>2, PInvStep DEF WInv, MInv, OnceOnly
<1>4. CASE /\ file' = [cli EXCEPT !.boot = now + BootstrapTTL, !.secret = ensureSessionSecret]
           /\ raced' = (raced \/ cli # file \/ \E h \in Handlers : job[h].pc = "save")
  <2>1. /\ cli \in persistedState /\ now + BootstrapTTL \in Times
        /\ raced \in BOOLEAN
    BY <1>1, WebAuthnAssumption DEF WInv, WType, TypeOK, Times
  <2>0. ensureSessionSecret \in Secrets /\ ensureSessionSecret # NoSecret
    <3>1. issued + 1 \in Secrets /\ issued + 1 # NoSecret
      BY WebAuthnAssumption DEF WInv, WType, TypeOK, Secrets, NoSecret
    <3>2. cli.secret \in Secrets \cup {NoSecret}
      BY <2>1 DEF persistedState
    <3> QED
      BY <3>1, <3>2 DEF ensureSessionSecret
  <2> DEFINE k == ensureSessionSecret
  <2>a. file' = [cli EXCEPT !.boot = now + BootstrapTTL, !.secret = k]
    BY <1>4
  <2> HIDE DEF k
  <2>2. /\ file' \in persistedState /\ file'.epoch = cli.epoch /\ file'.creds = cli.creds
        /\ file'.secret # NoSecret
    <3>1. k \in Secrets /\ k # NoSecret
      BY <2>0 DEF k
    <3> QED
      BY <2>a, <2>1, <3>1 DEF persistedState
  <2>3. raced' \in BOOLEAN
    BY <1>4
  <2>4. WType'
    BY <1>1, <2>2, <2>3 DEF WInv, WType, TypeOK
  <2>5. ~raced' => ~raced /\ cli = file /\ \A h \in Handlers : job[h].pc # "save"
    BY <1>4, <2>1
  <2>6. EInv' /\ SInv'
    BY <1>1, <2>2, <2>5 DEF WInv, EInv, SInv
  <2>7. ASSUME NEW d \in Handlers PROVE JInv(d)'
    <3> SUFFICES ASSUME job[d].pc = "save" PROVE JInv(d)'
      BY <1>1 DEF JInv
    <3>1. raced'
      BY <2>5
    <3>2. JInv(d)
      BY DEF WInv
    <3>3. job[d].gives.kind = "assertion" => Fresh(job[d].gives)'
      BY <1>1, <1>2, <3>2 DEF JInv, Fresh
    <3> QED
      BY <1>1, <3>1, <3>2, <3>3 DEF JInv
  <2> QED
    BY <1>3, <2>4, <2>6, <2>7 DEF WInv
<1>5. CASE UNCHANGED <<file, raced>>
  <2>1. WType' /\ EInv' /\ SInv'
    BY <1>1, <1>5 DEF WInv, WType, TypeOK, EInv, SInv
  <2>2. ASSUME NEW k \in Handlers PROVE JInv(k)'
    BY <1>1, <1>2, <1>5, KeepJob
  <2> QED
    BY <1>3, <2>1, <2>2 DEF WInv
<1> QED
  BY <1>4, <1>5 DEF CliSave

LEMMA RestartInv ==
  ASSUME WInv, Restart
  PROVE  WInv'
<1>1. \A k \in Handlers : job'[k].pc = "idle"
  BY DEF Restart, Idle
<1>2. WType'
  <2>1. job' = [k \in Handlers |-> job'[k]]
    BY DEF Restart
  <2> QED
    BY <1>1, <2>1 DEF Restart, WInv, WType, TypeOK
<1>3. MInv'
  BY <1>1, WebAuthnAssumption DEF Restart, MInv
<1>4. EInv' /\ SInv' /\ PInv' /\ OnceOnly'
  BY DEF Restart, WInv, EInv, SInv, PInv, OnceOnly
<1>5. ASSUME NEW k \in Handlers PROVE JInv(k)'
  BY <1>1 DEF JInv
<1> QED
  BY <1>2, <1>3, <1>4, <1>5 DEF WInv

LEMMA TickInv ==
  ASSUME WInv, Tick
  PROVE  WInv'
<1>1. /\ now < MaxTime /\ now' = now + 1
      /\ tokens' = {t \in tokens : now' <= t.exp}
      /\ sessions' \subseteq sessions
      /\ UNCHANGED <<file, mu, job, cli, used, proofs, cands, drawn, issued, revoked, raced, unsigned>>
  BY DEF Tick
<1>2. now' \in 0..MaxTime
  BY <1>1, Clock DEF WInv, WType, TypeOK
<1>3. WType'
  BY <1>1, <1>2 DEF WInv, WType, TypeOK
<1>4. \A ch : Spent(ch) => Spent(ch)'
  BY <1>1 DEF Spent
<1>5. MInv' /\ EInv' /\ SInv' /\ PInv' /\ OnceOnly'
  BY <1>1, <1>4, PInvStep DEF WInv, MInv, EInv, SInv, OnceOnly
<1>6. ASSUME NEW k \in Handlers PROVE JInv(k)'
  BY <1>1, <1>4, KeepJob
<1> QED
  BY <1>3, <1>5, <1>6 DEF WInv

-----------------------------------------------------------------------------
LEMMA InitWInv == Init => WInv
<1> SUFFICES ASSUME Init PROVE WInv
  OBVIOUS
<1>1. /\ file \in persistedState /\ file.epoch = 0
      /\ file.creds # {} => file.secret # NoSecret
  <2>1. PICK C \in SUBSET Registered : file = NewFile(C, IF C = {} THEN NoSecret ELSE 1)
    BY DEF Init
  <2>2. PICK k \in {NoSecret, 1} : file = NewFile(C, k) /\ (C # {} => k = 1)
    BY <2>1
  <2>3. 1 \in Secrets /\ 1 # NoSecret /\ 0 \in 0..MaxEpoch
    BY WebAuthnAssumption DEF Secrets, NoSecret
  <2> QED
    BY <2>2, <2>3, WebAuthnAssumption DEF NewFile, persistedState
<1>2. \A k \in Handlers : job[k].pc = "idle"
  BY DEF Init, Idle
<1>3. WType
  <2>1. job = [k \in Handlers |-> job[k]]
    BY DEF Init
  <2>2. drawn \in 0..MaxChallenges /\ now \in 0..MaxTime /\ issued \in 0..MaxIssued
    BY WebAuthnAssumption DEF Init
  <2>3. TypeOK
    BY <1>1, <1>2, <2>2 DEF Init, TypeOK
  <2> QED
    BY <2>1, <2>3 DEF Init, WType
<1>4. MInv /\ EInv /\ SInv /\ PInv /\ OnceOnly
  BY <1>1, <1>2, WebAuthnAssumption DEF Init, MInv, EInv, SInv, PInv, OnceOnly
<1>5. ASSUME NEW k \in Handlers PROVE JInv(k)
  BY <1>2 DEF JInv
<1> QED
  BY <1>3, <1>4, <1>5 DEF WInv

LEMMA StepWInv == WInv /\ [Next]_vars => WInv'
<1> SUFFICES ASSUME WInv, [Next]_vars PROVE WInv'
  OBVIOUS
<1>1. ASSUME NEW h \in Handlers, Handle(h) PROVE WInv'
  <2>1. CASE \E t \in Presented, c \in Creds : RegisterFinish(h, t, c)
    BY <2>1, RegisterFinishInv
  <2>2. CASE \E t \in Presented, c \in Creds, b \in BOOLEAN : AuthenticateFinish(h, t, c, b)
    BY <2>2, AuthenticateFinishInv
  <2>3. CASE \E t \in Presented, c \in Creds, b \in BOOLEAN : OpAuthFinish(h, t, c, b)
    BY <2>3, OpAuthFinishInv
  <2>4. CASE \E a \in proofs, d \in cands : CommitAdd(h, d, a)
    BY <2>4, CommitAddInv
  <2>5. CASE \E a \in proofs : RemoveCredential(h, a.target, a)
    BY <2>5, RemoveCredentialInv
  <2> QED
    BY <1>1, <2>1, <2>2, <2>3, <2>4, <2>5, HandleLogoutInv, LogoutInv, SaveInv DEF Handle
<1>2. CASE \E t \in Presented, c \in Creds : AddFinish(t, c)
  BY <1>2, AddFinishInv
<1>3. CASE UNCHANGED vars
  <2>1. WType' /\ MInv' /\ EInv' /\ SInv' /\ OnceOnly'
    BY <1>3 DEF vars, WInv, WType, TypeOK, MInv, EInv, SInv, OnceOnly
  <2>2. \A ch : Spent(ch) => Spent(ch)'
    BY <1>3 DEF vars, Spent
  <2>3. PInv'
    BY <1>3, <2>2, PInvStep DEF vars, WInv
  <2>4. ASSUME NEW k \in Handlers PROVE JInv(k)'
    BY <1>3, <2>2, KeepJob DEF vars
  <2> QED
    BY <2>1, <2>3, <2>4 DEF WInv
<1> QED
  BY <1>1, <1>2, <1>3, BeginInv, CliInv, CliSaveInv, RestartInv, TickInv DEF Next

LEMMA AlwaysWInv == Spec => []WInv
  BY InitWInv, StepWInv, PTL DEF Spec

(* The state file, the mutex and the tokens stay within their types.       *)
THEOREM WebAuthnTypeCorrect == Spec => []TypeOK
  BY AlwaysWInv, PTL DEF WInv, WType

(* An answer to a challenge authorises once, however often it is sent and  *)
(* however late (consumeLocked forgets only what has expired).             *)
THEOREM AuthorisesOnce == Spec => []OnceOnly
  BY AlwaysWInv, PTL DEF WInv

(* A session that Logout or RemoveCredential has revoked is never valid    *)
(* again, unless "web token" writes over a newer state (VerifySession).    *)
THEOREM SessionsStayRevoked == Spec => []RevokedForGood
<1>1. WInv => RevokedForGood
  BY DEF WInv, EInv, RevokedForGood, VerifySession, load, readOnce
<1> QED
  BY <1>1, AlwaysWInv, PTL

(* The first passkey comes by a token that RegisterBegin has signed, unless *)
(* the file has no secret; then passkeys change one at a time, by the      *)
(* authority of one that stays: the last passkey never goes                *)
(* (RegisterFinish, CommitAdd, RemoveCredential, save).                    *)
THEOREM PasskeysChangeAuthorised == Spec => ChangeAuthorised
<1> DEFINE Right == IF file.creds = {} THEN file.secret # NoSecret => FirstPasskey
                                       ELSE \E a \in proofs : ByPasskey(a)
<1>1. ASSUME WInv, Next, file'.creds # file.creds, ~raced'
      PROVE  Right
  <2>1. CliSave \/ \E h \in Handlers : save(h)
    <3>1. file' # file
      BY <1>1
    <3>2. ASSUME NEW h \in Handlers, Handle(h) PROVE save(h)
      BY <3>1, <3>2 DEF Handle, RegisterFinish, AuthenticateFinish, OpAuthFinish, handleLogout,
                        Logout, CommitAdd, RemoveCredential
    <3>3. ~RegisterBegin /\ ~AuthenticateBegin /\ ~IssueBootstrapToken /\ ~Restart /\ ~Tick
      BY <3>1 DEF RegisterBegin, AuthenticateBegin, Issue, IssueBootstrapToken, Restart, Tick
    <3>4. \A t, c : ~AddFinish(t, c)
      BY <3>1 DEF AddFinish
    <3>5. \A op, target, req, E : ~OpAuthBegin(op, target, req, E) /\ ~AddBegin(req)
      BY <3>1 DEF OpAuthBegin, AddBegin, Issue
    <3> QED
      BY <1>1, <3>2, <3>3, <3>4, <3>5 DEF Next
  <2>2. ~CliSave
    <3> SUFFICES ASSUME CliSave PROVE FALSE
      OBVIOUS
    <3> DEFINE k == ensureSessionSecret
    <3>1. file' = [cli EXCEPT !.boot = now + BootstrapTTL, !.secret = k] /\ cli = file
      BY <1>1 DEF CliSave
    <3>2. file \in persistedState
      BY <1>1 DEF WInv, WType, TypeOK
    <3> HIDE DEF k
    <3> QED
      BY <1>1, <3>1, <3>2 DEF persistedState
  <2>3. PICK h \in Handlers : save(h)
    BY <2>1, <2>2
  <2>4. /\ job[h].pc = "save" /\ file' = job[h].state /\ raced' = raced
    BY <1>1, <2>3 DEF save
  <2>5. Authorised(file.creds, file'.creds, job[h].gives)
    BY <1>1, <2>4 DEF WInv, JInv, Derived
  <2>6. CASE file.creds = {} /\ (file.secret # NoSecret => Founded(job[h].gives, file'.creds))
    BY <2>4, <2>6 DEF Founded, FirstPasskey
  <2>7. CASE \E a \in proofs : Told(a, file.creds, file'.creds)
    BY <2>7 DEF Told, ByPasskey
  <2> QED
    BY <1>1, <2>5, <2>6, <2>7 DEF Authorised
<1>2. WInv /\ [Next]_vars
        => [file'.creds # file.creds /\ ~raced' =>
              IF file.creds = {} THEN file.secret # NoSecret => FirstPasskey
                                 ELSE \E a \in proofs : ByPasskey(a)]_vars
  BY <1>1
<1> QED
  BY <1>2, AlwaysWInv, PTL DEF Spec, ChangeAuthorised
=============================================================================
