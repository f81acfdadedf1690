------------------------ MODULE Conversation_proofs ------------------------
(***************************************************************************)
(* Proofs about one launch of an agent, for any number of requests, of     *)
(* contents, of turns, of lines in the queue and of oversized lines.  The  *)
(* invariant is stated on a pair of a Conversation and a Stream (Consist-  *)
(* ent), because the handlers are functions on them that are applied one   *)
(* after another; Grows says what every step of such a pair respects.      *)
(***************************************************************************)
EXTENDS Conversation, FiniteSetTheorems, TLAPS

Items == [id : Requests, content : Contents, seq : Nat]
Prompts == [kind : {"prompt"}, init : BOOLEAN]
Replies == [kind : {"reply"}, id : Requests, allow : BOOLEAN, input : Contents]
Verdicts == [by : {"human", "policy", "agent"}, outcome : {"allow", "reject", "cancelled"}]

IsConversation(d) ==
  d \in [state : {"idle", "turn", "closed"}, stopped : BOOLEAN, pending : SUBSET Items,
         settled : {d.settled}, orphans : SUBSET Requests, onStop : {"no", "called", "done"},
         ended : BOOLEAN, pins : SUBSET Requests, cards : SUBSET (Requests \X Contents),
         verdicts : [Requests -> Seq(Verdicts)]]
IsStream(s) ==
  s \in [held : SUBSET Items, seen : SUBSET Requests, sentInit : BOOLEAN] /\ IsFiniteSet(s.seen)

(* An id stands for one item, the same in both tables, and for one card.   *)
Named(d, s) ==
  /\ \A p, q \in d.pending \cup s.held : p.id = q.id => p = q
  /\ \A p \in d.pending : <<p.id, p.content>> \in d.cards
  /\ \A k, l \in d.cards : k[1] = l[1] => k = l
  /\ \A k \in d.cards : k[1] \in s.seen
  /\ Ids(s.held) \subseteq s.seen

(* A verdict is one, and final: nothing is left that would publish another.*)
Final(d, s) ==
  \A id \in Requests :
    \/ d.verdicts[id] = <<>>
    \/ /\ \E v \in Verdicts : d.verdicts[id] = <<v>>
       /\ id \in s.seen /\ id \notin Ids(d.pending)
       /\ id \in Ids(s.held) => id \in d.orphans

Pinned(d) == /\ d.ended => d.state = "closed" /\ d.pending = {}
             /\ ~d.ended => d.pins = Ids(d.pending)

(* As long as every line of the agent could be published.                  *)
Agreeing(d, s) ==
  /\ Ids(d.pending) \cap d.orphans = {} /\ Ids(d.pending) \cup d.orphans = Ids(s.held)
  /\ \A k \in d.cards : k[1] \in Ids(d.pending) \/ d.verdicts[k[1]] # <<>>

Consistent(d, s, n) ==
  /\ IsConversation(d) /\ IsStream(s)
  /\ Named(d, s) /\ Final(d, s) /\ Pinned(d)
  /\ n = 0 => Agreeing(d, s)

(* A line to the agent says what was published, and is the last of it.     *)
LineOK(line, d, s, ap) ==
  line.kind = "reply" =>
    /\ line \in Replies /\ line.id \in s.seen /\ line.id \notin Ids(s.held)
    /\ \E v \in Verdicts : /\ d.verdicts[line.id] = <<v>>
                           /\ v.outcome = IF line.allow THEN "allow" ELSE "reject"
    /\ line.allow => <<line.id, line.input>> \in ap

SameReply(l, m) == l.kind = "reply" /\ m.kind = "reply" /\ l.id = m.id

(* There is at most one reply to a request, on its way or read.            *)
QueueType(q) ==
  /\ q \in [lines : Seq(Prompts \cup Replies), closed : BOOLEAN,
            pc : {"idle", "writing", "failed", "done"}, hand : Prompts \cup Replies \cup {NoLine}]
  /\ q.pc = "writing" => q.hand \in Prompts \cup Replies
AgentType(a) ==
  a \in [alive : BOOLEAN, read : SUBSET Prompts, told : [Requests -> Seq(Replies)],
         finish : {"no", "closed", "discarded", "eof"}]
OneReply(q, a) ==
  /\ \A i, j \in 1..Len(q.lines) : SameReply(q.lines[i], q.lines[j]) => i = j
  /\ \A i \in 1..Len(q.lines) : /\ ~SameReply(q.lines[i], q.hand)
                                /\ q.lines[i].kind = "reply" => a.told[q.lines[i].id] = <<>>
  /\ q.hand.kind = "reply" => a.told[q.hand.id] = <<>>
LinesOK(q, a, d, s, ap) ==
  /\ \A i \in 1..Len(q.lines) : LineOK(q.lines[i], d, s, ap)
  /\ LineOK(q.hand, d, s, ap)
  /\ \A id \in Requests :
       \/ a.told[id] = <<>>
       \/ \E line \in Replies : a.told[id] = <<line>> /\ line.id = id /\ LineOK(line, d, s, ap)

CInv ==
  /\ oversized \in Nat /\ Consistent(c, stream, oversized)
  /\ QueueType(queue) /\ AgentType(agent) /\ OneReply(queue, agent)
  /\ LinesOK(queue, agent, c, stream, approved)

-----------------------------------------------------------------------------
(* What the helpers do to the fields of a Conversation.                    *)

Keeps(e, d) ==
  /\ e.state = d.state /\ e.stopped = d.stopped /\ e.onStop = d.onStop
  /\ e.ended = d.ended /\ e.cards = d.cards

LEMMA SettleFacts ==
  ASSUME NEW d, IsConversation(d), NEW items
  PROVE  /\ IsConversation(settle(d, items)) /\ Keeps(settle(d, items), d)
         /\ settle(d, items).pending = {p \in d.pending : p.id \notin Ids(items)}
         /\ settle(d, items).orphans = d.orphans /\ settle(d, items).pins = d.pins
         /\ settle(d, items).verdicts = d.verdicts
  BY DEF settle, IsConversation, Without, Keeps

LEMMA EmitFacts ==
  ASSUME NEW d, IsConversation(d), NEW ids \in SUBSET Requests,
         NEW by \in {"human", "policy", "agent"}, NEW out \in {"allow", "reject", "cancelled"}
  PROVE  /\ IsConversation(emitResolved(d, ids, by, out)) /\ Keeps(emitResolved(d, ids, by, out), d)
         /\ emitResolved(d, ids, by, out).pending = d.pending
         /\ emitResolved(d, ids, by, out).orphans = d.orphans
         /\ d.ended => emitResolved(d, ids, by, out) = d
         /\ ~d.ended => /\ emitResolved(d, ids, by, out).pins = d.pins \ ids
                        /\ \A id \in Requests : emitResolved(d, ids, by, out).verdicts[id] =
                             IF id \in ids
                             THEN Append(d.verdicts[id], [by |-> by, outcome |-> out])
                             ELSE d.verdicts[id]
<1>1. CASE d.ended
  BY <1>1 DEF emitResolved, Keeps
<1>2. CASE ~d.ended
  <2> DEFINE w == [by |-> by, outcome |-> out]
             vs == [id \in Requests |-> IF id \in ids THEN Append(d.verdicts[id], w)
                                                      ELSE d.verdicts[id]]
  <2>1. w \in Verdicts
    BY DEF Verdicts
  <2>2. vs \in [Requests -> Seq(Verdicts)]
    <3> HIDE DEF w
    <3> SUFFICES ASSUME NEW id \in Requests PROVE vs[id] \in Seq(Verdicts)
      OBVIOUS
    <3>1. d.verdicts[id] \in Seq(Verdicts)
      BY DEF IsConversation
    <3> QED
      BY <2>1, <3>1
  <2>3. emitResolved(d, ids, by, out) = [d EXCEPT !.verdicts = vs, !.pins = @ \ ids]
    BY <1>2 DEF emitResolved
  <2> HIDE DEF vs
  <2>4. /\ IsConversation([d EXCEPT !.verdicts = vs, !.pins = @ \ ids])
        /\ Keeps([d EXCEPT !.verdicts = vs, !.pins = @ \ ids], d)
        /\ [d EXCEPT !.verdicts = vs, !.pins = @ \ ids].pending = d.pending
        /\ [d EXCEPT !.verdicts = vs, !.pins = @ \ ids].orphans = d.orphans
        /\ [d EXCEPT !.verdicts = vs, !.pins = @ \ ids].pins = d.pins \ ids
        /\ [d EXCEPT !.verdicts = vs, !.pins = @ \ ids].verdicts = vs
    BY <2>2 DEF IsConversation, Keeps
  <2>5. \A id \in Requests : vs[id] = IF id \in ids THEN Append(d.verdicts[id], w)
                                                    ELSE d.verdicts[id]
    BY DEF vs
  <2> QED
    BY <1>2, <2>3, <2>4, <2>5
<1> QED
  BY <1>1, <1>2 DEF IsConversation

-----------------------------------------------------------------------------
(* What every step respects: cards and verdicts stay, and an id that was   *)
(* seen comes into the Stream's table no more.                             *)
Grows(d, s, e, t) ==
  /\ d.cards \subseteq e.cards /\ s.seen \subseteq t.seen
  /\ \A id \in s.seen : id \in Ids(t.held) => id \in Ids(s.held)
  /\ \A id \in Requests : d.verdicts[id] # <<>> => e.verdicts[id] = d.verdicts[id]

LEMMA GrowsOn ==
  ASSUME NEW d, NEW s, NEW e, NEW t, NEW f, NEW u, Grows(d, s, e, t), Grows(e, t, f, u)
  PROVE  Grows(d, s, f, u)
  BY DEF Grows

(* The requests X are resolved and leave the tables, or stay in the        *)
(* Stream's as orphans.                                                    *)
Resolves(d, s, e, t, X) ==
  /\ IsConversation(e) /\ IsStream(t)
  /\ e.cards = d.cards /\ e.ended = d.ended /\ (d.ended => e.state = "closed")
  /\ e.pending = {p \in d.pending : p.id \notin X}
  /\ t.seen = s.seen /\ t.held \subseteq s.held
  /\ X \subseteq Requests
  /\ \A id \in X : id \in Ids(d.pending) \/ (id \in Ids(s.held) /\ id \notin d.orphans)
  /\ \A id \in Ids(t.held) : id \in X \/ id \in d.orphans => id \in e.orphans
  /\ d.ended => e.verdicts = d.verdicts
  /\ ~d.ended => /\ e.pins = d.pins \ X
                 /\ \A id \in X : \E v \in Verdicts : e.verdicts[id] = Append(d.verdicts[id], v)
                 /\ \A id \in Requests \ X : e.verdicts[id] = d.verdicts[id]

TablesOf(d, s) == Ids(d.pending) \cap d.orphans = {} /\ Ids(d.pending) \cup d.orphans = Ids(s.held)

LEMMA ResolvesKeeps ==
  ASSUME NEW d, NEW s, NEW e, NEW t, NEW X, NEW n, Consistent(d, s, n), Resolves(d, s, e, t, X),
         n = 0 => TablesOf(e, t)
  PROVE  Consistent(e, t, n) /\ Grows(d, s, e, t)
<1> USE DEF Consistent
<1>t. IsConversation(e) /\ IsStream(t)
  BY DEF Resolves
<1>p. Ids(e.pending) = Ids(d.pending) \ X /\ Ids(t.held) \subseteq Ids(s.held)
  BY DEF Resolves, Ids
<1>1. \A id \in X : d.verdicts[id] = <<>> /\ id \in Requests /\ id \in s.seen
  <2> SUFFICES ASSUME NEW id \in X PROVE d.verdicts[id] = <<>> /\ id \in Requests /\ id \in s.seen
    OBVIOUS
  <2>1. id \in Requests /\ (id \in Ids(d.pending) \/ (id \in Ids(s.held) /\ id \notin d.orphans))
    BY DEF Resolves
  <2>2. id \in s.seen
    <3>1. CASE id \in Ids(s.held)
      BY <3>1 DEF Named
    <3>2. CASE id \in Ids(d.pending)
      <4>1. PICK p \in d.pending : p.id = id
        BY <3>2 DEF Ids
      <4>2. <<p.id, p.content>> \in d.cards
        BY DEF Named
      <4>3. <<p.id, p.content>>[1] \in s.seen
        BY <4>2 DEF Named
      <4> QED
        BY <4>1, <4>3
    <3> QED
      BY <2>1, <3>1, <3>2
  <2> QED
    BY <2>1, <2>2 DEF Final
<1>2. \A id \in Requests : d.verdicts[id] # <<>> => e.verdicts[id] = d.verdicts[id]
  BY <1>1 DEF Resolves
<1>3. Grows(d, s, e, t)
  BY <1>2, <1>p DEF Grows, Resolves
<1>4. Named(e, t)
  BY <1>p DEF Named, Resolves
<1>5. Final(e, t)
  <2> SUFFICES ASSUME NEW id \in Requests, e.verdicts[id] # <<>>
               PROVE  /\ \E v \in Verdicts : e.verdicts[id] = <<v>>
                      /\ id \in t.seen /\ id \notin Ids(e.pending)
                      /\ id \in Ids(t.held) => id \in e.orphans
    BY DEF Final
  <2>1. CASE e.verdicts[id] = d.verdicts[id]
    <3>1. /\ \E v \in Verdicts : d.verdicts[id] = <<v>>
          /\ id \in s.seen /\ id \notin Ids(d.pending)
          /\ id \in Ids(s.held) => id \in d.orphans
      BY <2>1 DEF Final
    <3> QED
      BY <2>1, <3>1, <1>p DEF Resolves
  <2>2. CASE e.verdicts[id] # d.verdicts[id]
    <3>1. ~d.ended /\ id \in X
      BY <2>2 DEF Resolves
    <3>2. PICK v \in Verdicts : e.verdicts[id] = Append(d.verdicts[id], v)
      BY <3>1 DEF Resolves
    <3>3. e.verdicts[id] = <<v>>
      <4>1. Append(<<>>, v) = <<v>>
        OBVIOUS
      <4> QED
        BY <3>1, <3>2, <1>1, <4>1
    <3>4. id \in t.seen /\ id \notin Ids(e.pending) /\ (id \in Ids(t.held) => id \in e.orphans)
      BY <3>1, <1>1, <1>p DEF Resolves
    <3> QED
      BY <3>3, <3>4
  <2> QED
    BY <2>1, <2>2
<1>6. Pinned(e)
  BY <1>p DEF Pinned, Resolves
<1>7. ASSUME n = 0 PROVE Agreeing(e, t)
  <2> SUFFICES ASSUME NEW k \in d.cards PROVE k[1] \in Ids(e.pending) \/ e.verdicts[k[1]] # <<>>
    BY <1>7 DEF Agreeing, TablesOf, Resolves
  <2>1. k[1] \in Requests /\ (k[1] \in Ids(d.pending) \/ d.verdicts[k[1]] # <<>>)
    BY <1>7 DEF Agreeing, IsConversation
  <2>2. CASE d.verdicts[k[1]] # <<>>
    BY <2>1, <2>2, <1>2
  <2>3. CASE k[1] \in Ids(d.pending) /\ k[1] \notin X
    BY <2>3, <1>p
  <2>4. CASE k[1] \in Ids(d.pending) /\ k[1] \in X
    <3>1. ~d.ended
      BY <2>4 DEF Pinned, Ids
    <3>2. PICK v \in Verdicts : e.verdicts[k[1]] = Append(d.verdicts[k[1]], v)
      BY <2>4, <3>1 DEF Resolves
    <3>3. d.verdicts[k[1]] \in Seq(Verdicts)
      BY <2>1 DEF IsConversation
    <3> QED
      BY <3>2, <3>3
  <2> QED
    BY <2>1, <2>2, <2>3, <2>4
<1> QED
  BY <1>t, <1>3, <1>4, <1>5, <1>6, <1>7

(* Fields that the invariant does not speak of.                            *)
LEMMA AsideKeeps ==
  ASSUME NEW d, NEW s, NEW e, NEW n, Consistent(d, s, n), IsConversation(e),
         e.cards = d.cards, e.ended = d.ended, d.ended => e.state = "closed",
         e.pending = d.pending, e.orphans = d.orphans, e.pins = d.pins, e.verdicts = d.verdicts
  PROVE  Consistent(e, s, n) /\ Grows(d, s, e, s)
  BY DEF Consistent, Named, Final, Pinned, Agreeing, Grows, Ids

LEMMA ExpireKeeps ==
  ASSUME NEW d, NEW s, NEW n, Consistent(d, s, n)
  PROVE  /\ Consistent(expireAll(d), s, n) /\ Grows(d, s, expireAll(d), s)
         /\ expireAll(d).pending = {} /\ Keeps(expireAll(d), d)
<1> DEFINE X == Ids(d.pending)
           f == emitResolved(settle(d, d.pending), X, "policy", "cancelled")
           e == [f EXCEPT !.orphans = @ \cup X]
<1>1. IsConversation(d) /\ IsStream(s) /\ X \subseteq Requests
  BY DEF Consistent, IsConversation, Ids, Items
<1>2. /\ IsConversation(settle(d, d.pending)) /\ Keeps(settle(d, d.pending), d)
      /\ settle(d, d.pending).pending = {p \in d.pending : p.id \notin X}
      /\ settle(d, d.pending).orphans = d.orphans /\ settle(d, d.pending).pins = d.pins
      /\ settle(d, d.pending).verdicts = d.verdicts
  BY <1>1, SettleFacts
<1> DEFINE v == [by |-> "policy", outcome |-> "cancelled"]
<1>v. v \in Verdicts
  BY DEF Verdicts
<1> HIDE DEF v
<1>3. /\ IsConversation(f) /\ Keeps(f, d) /\ f.pending = {p \in d.pending : p.id \notin X}
      /\ f.orphans = d.orphans /\ (d.ended => f.verdicts = d.verdicts)
      /\ ~d.ended => /\ f.pins = d.pins \ X
                     /\ \A id \in Requests : f.verdicts[id] = IF id \in X
                                                              THEN Append(d.verdicts[id], v)
                                                              ELSE d.verdicts[id]
  BY <1>1, <1>2, EmitFacts DEF Keeps, v
<1> HIDE DEF f
<1>4. /\ IsConversation(e) /\ Keeps(e, d) /\ e.pending = f.pending /\ e.verdicts = f.verdicts
      /\ e.pins = f.pins /\ e.orphans = d.orphans \cup X
  BY <1>1, <1>3 DEF IsConversation, Keeps
<1>5. expireAll(d) = e
  BY DEF expireAll, f
<1> HIDE DEF e
<1>6. Resolves(d, s, e, s, X)
  <2>1. d.ended => d.state = "closed"
    BY DEF Consistent, Pinned
  <2>2. e.cards = d.cards /\ e.ended = d.ended /\ (d.ended => e.state = "closed")
    BY <1>4, <2>1 DEF Keeps
  <2>3. \A id \in Ids(s.held) : id \in X \/ id \in d.orphans => id \in e.orphans
    BY <1>4
  <2>4. ~d.ended => \A id \in X : \E w \in Verdicts : e.verdicts[id] = Append(d.verdicts[id], w)
    BY <1>1, <1>3, <1>4, <1>v
  <2>5. ~d.ended => e.pins = d.pins \ X /\ \A id \in Requests \ X : e.verdicts[id] = d.verdicts[id]
    BY <1>3, <1>4
  <2>6. e.pending = {p \in d.pending : p.id \notin X} /\ (d.ended => e.verdicts = d.verdicts)
    BY <1>3, <1>4
  <2>7. \A id \in X : id \in Ids(d.pending)
    OBVIOUS
  <2> HIDE DEF X
  <2> QED
    BY <1>1, <1>4, <2>2, <2>3, <2>4, <2>5, <2>6, <2>7 DEF Resolves
<1>7. e.pending = {}
  BY <1>3, <1>4 DEF Ids
<1>8. n = 0 => TablesOf(e, s)
  BY <1>4, <1>7 DEF Consistent, Agreeing, TablesOf, Ids
<1> QED
  BY <1>4, <1>5, <1>6, <1>7, <1>8, ResolvesKeeps

LEMMA FailKeeps ==
  ASSUME NEW d, NEW s, NEW n, Consistent(d, s, n)
  PROVE  Consistent(fail(d), s, n) /\ Grows(d, s, fail(d), s) /\ fail(d).ended = d.ended
<1> DEFINE e == [d EXCEPT !.state = "closed", !.stopped = TRUE]
           f == [e EXCEPT !.onStop = IF @ = "no" THEN "called" ELSE @]
<1>1. IsConversation(d)
  BY DEF Consistent
<1>2. /\ IsConversation(e) /\ e.state = "closed" /\ e.cards = d.cards /\ e.ended = d.ended
      /\ e.pending = d.pending /\ e.orphans = d.orphans /\ e.pins = d.pins
      /\ e.verdicts = d.verdicts
  BY <1>1 DEF IsConversation
<1> HIDE DEF e
<1>3. /\ IsConversation(f) /\ f.state = "closed" /\ f.cards = e.cards /\ f.ended = e.ended
      /\ f.pending = e.pending /\ f.orphans = e.orphans /\ f.pins = e.pins
      /\ f.verdicts = e.verdicts
  BY <1>2 DEF IsConversation
<1> HIDE DEF f
<1>4. Consistent(f, s, n) /\ Grows(d, s, f, s)
  BY <1>2, <1>3, AsideKeeps
<1>5. fail(d) = expireAll(f)
  BY DEF fail, CallOnStop, f, e
<1>6. Consistent(expireAll(f), s, n) /\ Grows(f, s, expireAll(f), s) /\ Keeps(expireAll(f), f)
  BY <1>4, ExpireKeeps
<1> QED
  BY <1>2, <1>3, <1>4, <1>5, <1>6, GrowsOn DEF Keeps

LEMMA HeldNames ==
  ASSUME NEW d, NEW s, NEW n, Consistent(d, s, n), NEW id \in Ids(d.pending) \cup Ids(s.held)
  PROVE  id \in Requests /\ id \in s.seen
<1>1. CASE id \in Ids(s.held)
  BY <1>1 DEF Consistent, Named, IsStream, Ids
<1>2. CASE id \in Ids(d.pending)
  <2>1. PICK p \in d.pending : p.id = id
    BY <1>2 DEF Ids
  <2>2. <<p.id, p.content>> \in d.cards
    BY DEF Consistent, Named
  <2>3. <<p.id, p.content>>[1] \in s.seen
    BY <2>2 DEF Consistent, Named
  <2> QED
    BY <2>1, <2>3 DEF Consistent, IsStream
<1> QED
  BY <1>1, <1>2

(* A request that waits is resolved, and the Stream releases it.           *)
Answered(d, s, n, id, e, t, v) ==
  /\ Consistent(e, t, n) /\ Grows(d, s, e, t)
  /\ e.verdicts[id] = <<v>> /\ id \notin Ids(t.held) /\ t.seen = s.seen

LEMMA AnsweredKeeps ==
  ASSUME NEW d, NEW s, NEW n, Consistent(d, s, n), NEW id \in Ids(d.pending), id \in Ids(s.held),
         NEW by \in {"human", "policy"}, NEW out \in {"allow", "reject", "cancelled"},
         NEW v, v = [by |-> by, outcome |-> out]
  PROVE  Answered(d, s, n, id,
           emitResolved(settle(d, {item \in d.pending : item.id = id}), {id}, by, out),
           Released(s, id), v)
<1> DEFINE P == {item \in d.pending : item.id = id}
           f == settle(d, P)
           e == emitResolved(f, {id}, by, out)
           t == Released(s, id)
<1>1. IsConversation(d) /\ IsStream(s) /\ id \in Requests /\ id \in s.seen /\ ~d.ended
  <2>1. id \in Requests /\ id \in s.seen
    BY HeldNames
  <2>2. d.pending # {}
    BY DEF Ids
  <2> QED
    BY <2>1, <2>2 DEF Consistent, Pinned
<1>2. Ids(P) = {id}
  BY DEF Ids
<1> HIDE DEF P
<1>3. /\ IsConversation(f) /\ Keeps(f, d) /\ f.pending = {p \in d.pending : p.id \notin {id}}
      /\ f.orphans = d.orphans /\ f.pins = d.pins /\ f.verdicts = d.verdicts
  BY <1>1, <1>2, SettleFacts
<1> HIDE DEF f
<1>v. v \in Verdicts
  BY DEF Verdicts
<1>4. /\ IsConversation(e) /\ Keeps(e, d) /\ e.pending = {p \in d.pending : p.id \notin {id}}
      /\ e.orphans = d.orphans /\ e.pins = d.pins \ {id}
      /\ \A x \in Requests : e.verdicts[x] = IF x \in {id} THEN Append(d.verdicts[x], v)
                                                           ELSE d.verdicts[x]
  BY <1>1, <1>3, EmitFacts DEF Keeps
<1>5. IsStream(t) /\ t.seen = s.seen /\ t.held = {h \in s.held : h.id # id}
  BY <1>1 DEF Released, Without, IsStream
<1> HIDE DEF e, t
<1>6. Ids(t.held) = Ids(s.held) \ {id} /\ Ids(e.pending) = Ids(d.pending) \ {id}
  BY <1>4, <1>5 DEF Ids
<1>7. Resolves(d, s, e, t, {id})
  <2>1. e.cards = d.cards /\ e.ended = d.ended
    BY <1>4 DEF Keeps
  <2>2. \A x \in Ids(t.held) : x \in {id} \/ x \in d.orphans => x \in e.orphans
    BY <1>4, <1>6
  <2>3. \A x \in {id} : \E w \in Verdicts : e.verdicts[x] = Append(d.verdicts[x], w)
    BY <1>1, <1>4, <1>v
  <2>4. \A x \in Requests \ {id} : e.verdicts[x] = d.verdicts[x]
    BY <1>4
  <2> QED
    BY <1>1, <1>4, <1>5, <2>1, <2>2, <2>3, <2>4 DEF Resolves
<1>8. n = 0 => TablesOf(e, t)
  BY <1>4, <1>6 DEF Consistent, Agreeing, TablesOf
<1>9. Consistent(e, t, n) /\ Grows(d, s, e, t)
  BY <1>7, <1>8, ResolvesKeeps
<1>10. e.verdicts[id] = <<v>>
  <2>1. d.verdicts[id] = <<>>
    BY <1>1 DEF Consistent, Final
  <2>2. Append(<<>>, v) = <<v>>
    OBVIOUS
  <2> QED
    BY <1>1, <1>4, <2>1, <2>2
<1> QED
  BY <1>5, <1>6, <1>9, <1>10 DEF Answered, e, t, f, P

(* The Stream closes some of what it holds.                                *)
LEMMA ClosedKeeps ==
  ASSUME NEW d, NEW s, NEW n, Consistent(d, s, n), NEW items \in SUBSET s.held, NEW t, IsStream(t),
         t.seen = s.seen, t.held = s.held \ items
  PROVE  Consistent(ClosedByAgent(d, items), t, n) /\ Grows(d, s, ClosedByAgent(d, items), t)
<1> DEFINE W == Waiting(d, items)
           D == Dropped(d, items)
           X == Ids(items \ D)
           f == settle(d, W)
           g == emitResolved(f, X, "agent", "cancelled")
           e == [g EXCEPT !.orphans = @ \ Ids(D)]
           v == [by |-> "agent", outcome |-> "cancelled"]
<1>1. IsConversation(d) /\ IsStream(s)
  BY DEF Consistent
<1>2. /\ Ids(items) \subseteq Requests /\ Ids(items) \subseteq Ids(s.held)
      /\ Ids(t.held) = Ids(s.held) \ Ids(items)
  <2>1. \A h, k \in s.held : h.id = k.id => h = k
    BY DEF Consistent, Named
  <2> QED
    BY <1>1, <2>1 DEF IsStream, Ids, Items
<1>3. /\ Ids(W) = Ids(items) \cap Ids(d.pending)
      /\ Ids(D) = (Ids(items) \ Ids(d.pending)) \cap d.orphans
      /\ X = Ids(items) \ Ids(D)
  <2>1. \A h, k \in items : h.id = k.id => h = k
    BY DEF Consistent, Named
  <2>2. /\ Ids(W) = Ids(items) \cap Ids(d.pending)
        /\ Ids(D) = (Ids(items) \ Ids(d.pending)) \cap d.orphans
    BY <2>1 DEF Waiting, Dropped, Ids
  <2>3. X = Ids(items) \ Ids(D)
    BY <2>1 DEF Ids, Dropped, Waiting
  <2> QED
    BY <2>2, <2>3
<1> HIDE DEF W, D, X
<1>4. /\ IsConversation(f) /\ Keeps(f, d) /\ f.pending = {p \in d.pending : p.id \notin Ids(W)}
      /\ f.orphans = d.orphans /\ f.pins = d.pins /\ f.verdicts = d.verdicts
  BY <1>1, SettleFacts
<1>5. {p \in d.pending : p.id \notin Ids(W)} = {p \in d.pending : p.id \notin X}
  BY <1>3 DEF Ids
<1> HIDE DEF f
<1>v. v \in Verdicts
  BY DEF Verdicts
<1> HIDE DEF v
<1>6. /\ IsConversation(g) /\ Keeps(g, d) /\ g.pending = {p \in d.pending : p.id \notin X}
      /\ g.orphans = d.orphans /\ (d.ended => g.verdicts = d.verdicts)
      /\ ~d.ended => /\ g.pins = d.pins \ X
                     /\ \A id \in Requests : g.verdicts[id] = IF id \in X
                                                              THEN Append(d.verdicts[id], v)
                                                              ELSE d.verdicts[id]
  <2>1. X \in SUBSET Requests
    BY <1>2, <1>3
  <2> QED
    BY <1>4, <1>5, <2>1, EmitFacts DEF Keeps, v
<1> HIDE DEF g
<1>7. /\ IsConversation(e) /\ Keeps(e, d) /\ e.pending = g.pending /\ e.verdicts = g.verdicts
      /\ e.pins = g.pins /\ e.orphans = d.orphans \ Ids(D)
  BY <1>6 DEF IsConversation, Keeps
<1> HIDE DEF e
<1>8. Resolves(d, s, e, t, X)
  <2>1. d.ended => d.state = "closed"
    BY DEF Consistent, Pinned
  <2>2. e.cards = d.cards /\ e.ended = d.ended /\ (d.ended => e.state = "closed")
    BY <1>7, <2>1 DEF Keeps
  <2>3. X \subseteq Requests /\ t.held \subseteq s.held
    BY <1>2, <1>3
  <2>4. \A id \in X : id \in Ids(d.pending) \/ (id \in Ids(s.held) /\ id \notin d.orphans)
    BY <1>2, <1>3
  <2>5. \A id \in Ids(t.held) : id \in X \/ id \in d.orphans => id \in e.orphans
    BY <1>2, <1>3, <1>7
  <2>6. ~d.ended => \A id \in X : \E w \in Verdicts : e.verdicts[id] = Append(d.verdicts[id], w)
    BY <1>6, <1>7, <1>v, <2>3
  <2>7. ~d.ended => e.pins = d.pins \ X /\ \A id \in Requests \ X : e.verdicts[id] = d.verdicts[id]
    BY <1>6, <1>7
  <2>8. e.pending = {p \in d.pending : p.id \notin X} /\ (d.ended => e.verdicts = d.verdicts)
    BY <1>6, <1>7
  <2> QED
    BY <1>7, <2>2, <2>3, <2>4, <2>5, <2>6, <2>7, <2>8 DEF Resolves
<1>9. Ids(e.pending) = Ids(d.pending) \ X
  BY <1>6, <1>7 DEF Ids
<1>10. n = 0 => TablesOf(e, t)
  BY <1>2, <1>3, <1>7, <1>9 DEF Consistent, Agreeing, TablesOf
<1>11. ClosedByAgent(d, items) = e
  BY DEF ClosedByAgent, e, g, f, W, D, X
<1> QED
  BY <1>8, <1>10, <1>11, ResolvesKeeps

LEMMA StopKeeps ==
  ASSUME NEW d, NEW s, NEW n, Consistent(d, s, n)
  PROVE  Consistent(stop(d), s, n) /\ Grows(d, s, stop(d), s)
<1>1. ASSUME NEW e, Consistent(e, s, n)
      PROVE  Consistent(CallOnStop(e), s, n) /\ Grows(e, s, CallOnStop(e), s)
  <2> DEFINE f == [e EXCEPT !.onStop = IF @ = "no" THEN "called" ELSE @]
  <2>1. IsConversation(e) /\ (e.ended => e.state = "closed")
    BY <1>1 DEF Consistent, Pinned
  <2>2. /\ IsConversation(f) /\ f.state = e.state /\ f.cards = e.cards /\ f.ended = e.ended
        /\ f.pending = e.pending /\ f.orphans = e.orphans /\ f.pins = e.pins
        /\ f.verdicts = e.verdicts
    BY <2>1 DEF IsConversation
  <2> HIDE DEF f
  <2>3. Consistent(f, s, n) /\ Grows(e, s, f, s)
    BY <1>1, <2>1, <2>2, AsideKeeps
  <2> QED
    BY <2>3 DEF CallOnStop, f
<1>2. CASE d.stopped
  BY <1>1, <1>2 DEF stop
<1>3. CASE ~d.stopped
  <2> DEFINE e == [d EXCEPT !.stopped = TRUE]
  <2>1. IsConversation(d) /\ (d.ended => d.state = "closed")
    BY DEF Consistent, Pinned
  <2>2. /\ IsConversation(e) /\ e.state = d.state /\ e.cards = d.cards /\ e.ended = d.ended
        /\ e.pending = d.pending /\ e.orphans = d.orphans /\ e.pins = d.pins
        /\ e.verdicts = d.verdicts
    BY <2>1 DEF IsConversation
  <2> HIDE DEF e
  <2>3. Consistent(e, s, n) /\ Grows(d, s, e, s)
    BY <2>1, <2>2, AsideKeeps
  <2>4. Consistent(expireAll(e), s, n) /\ Grows(e, s, expireAll(e), s)
    BY <2>3, ExpireKeeps
  <2>5. stop(d) = CallOnStop(expireAll(e))
    BY <1>3 DEF stop, e
  <2> QED
    BY <1>1, <2>3, <2>4, <2>5, GrowsOn
<1> QED
  BY <1>2, <1>3

(* An id that was not seen stands in no table and on no card.              *)
LEMMA Unseen ==
  ASSUME NEW d, NEW s, NEW n, Consistent(d, s, n), NEW id \in Requests, id \notin s.seen
  PROVE  /\ id \notin Ids(d.pending) /\ id \notin Ids(s.held) /\ d.verdicts[id] = <<>>
         /\ \A k \in d.cards : k[1] # id
         /\ \A p \in d.pending \cup s.held : p.id # id
<1>1. id \notin Ids(d.pending) /\ id \notin Ids(s.held)
  BY HeldNames
<1>2. d.verdicts[id] = <<>> /\ \A k \in d.cards : k[1] # id
  BY DEF Consistent, Named, Final
<1> QED
  BY <1>1, <1>2 DEF Ids

(* A Stream that has taken a request: item is its entry.                   *)
Takes(s, t, item) ==
  IsStream(t) /\ t.seen = s.seen \cup {item.id} /\ t.held = s.held \cup {item}

LEMMA AskedConsistent ==
  ASSUME NEW d, NEW s, NEW n, Consistent(d, s, n), NEW item \in Items, item.id \notin s.seen,
         NEW t, Takes(s, t, item), NEW e, IsConversation(e), ~d.ended, ~e.ended,
         e.pending = d.pending \cup {item}, e.orphans = d.orphans,
         e.pins = d.pins \cup {item.id}, e.verdicts = d.verdicts,
         e.cards = d.cards \cup {<<item.id, item.content>>}
  PROVE  Consistent(e, t, n) /\ Grows(d, s, e, t)
<1>0. item.id \in Requests
  BY DEF Items
<1>1. /\ item.id \notin Ids(d.pending) /\ item.id \notin Ids(s.held) /\ d.verdicts[item.id] = <<>>
      /\ \A k \in d.cards : k[1] # item.id
      /\ \A p \in d.pending \cup s.held : p.id # item.id
  BY <1>0, Unseen
<1> USE DEF Consistent
<1>2. Ids(e.pending) = Ids(d.pending) \cup {item.id} /\ Ids(t.held) = Ids(s.held) \cup {item.id}
  BY DEF Ids, Takes
<1>3. Named(e, t)
  <2>1. \A p, q \in e.pending \cup t.held : p.id = q.id => p = q
    BY <1>1 DEF Named, Takes
  <2>2. \A p \in e.pending : <<p.id, p.content>> \in e.cards
    BY DEF Named
  <2>3. <<item.id, item.content>>[1] = item.id
    OBVIOUS
  <2>4. \A k, l \in e.cards : k[1] = l[1] => k = l
    BY <1>1, <2>3 DEF Named
  <2>5. \A k \in e.cards : k[1] \in t.seen
    BY <2>3 DEF Named, Takes
  <2> QED
    BY <1>2, <2>1, <2>2, <2>4, <2>5 DEF Named, Takes
<1>4. Final(e, t)
  <2> SUFFICES ASSUME NEW id \in Requests, e.verdicts[id] # <<>>
               PROVE  /\ \E v \in Verdicts : e.verdicts[id] = <<v>>
                      /\ id \in t.seen /\ id \notin Ids(e.pending)
                      /\ id \in Ids(t.held) => id \in e.orphans
    BY DEF Final
  <2>1. id # item.id /\ d.verdicts[id] # <<>>
    BY <1>1
  <2>2. /\ \E v \in Verdicts : d.verdicts[id] = <<v>>
        /\ id \in s.seen /\ id \notin Ids(d.pending)
        /\ id \in Ids(s.held) => id \in d.orphans
    BY <2>1 DEF Final
  <2> QED
    BY <1>2, <2>1, <2>2 DEF Takes
<1>5. Pinned(e)
  BY <1>2 DEF Pinned
<1>6. item.id \notin d.orphans \/ n # 0
  BY <1>1 DEF Agreeing
<1>7. n = 0 => Agreeing(e, t)
  <2>3. <<item.id, item.content>>[1] = item.id
    OBVIOUS
  <2> QED
    BY <1>2, <1>6, <2>3 DEF Agreeing
<1>8. Grows(d, s, e, t)
  BY <1>2 DEF Grows, Takes
<1> QED
  BY <1>3, <1>4, <1>5, <1>7, <1>8 DEF Takes

(* A request that nobody can answer, kept as an orphan (keep) or released. *)
LEMMA RejectedConsistent ==
  ASSUME NEW d, NEW s, NEW n, Consistent(d, s, n), NEW item \in Items, item.id \notin s.seen,
         NEW t, IsStream(t), t.seen = s.seen \cup {item.id}, NEW keep \in BOOLEAN,
         t.held = IF keep THEN s.held \cup {item} ELSE s.held,
         NEW e, IsConversation(e), e.ended = d.ended, d.ended => e.state = "closed",
         e.pending = d.pending,
         e.orphans = IF keep THEN d.orphans \cup {item.id} ELSE d.orphans,
         e.pins = d.pins \/ e.pins = d.pins \ {item.id},
         d.ended => e.verdicts = d.verdicts /\ e.cards = d.cards,
         ~d.ended => /\ e.cards = d.cards \cup {<<item.id, item.content>>}
                     /\ \E v \in Verdicts : e.verdicts[item.id] = Append(d.verdicts[item.id], v)
                     /\ \A id \in Requests \ {item.id} : e.verdicts[id] = d.verdicts[id]
  PROVE  Consistent(e, t, n) /\ Grows(d, s, e, t)
<1>0. item.id \in Requests
  BY DEF Items
<1>1. /\ item.id \notin Ids(d.pending) /\ item.id \notin Ids(s.held) /\ d.verdicts[item.id] = <<>>
      /\ \A k \in d.cards : k[1] # item.id
      /\ \A p \in d.pending \cup s.held : p.id # item.id
  BY <1>0, Unseen
<1> USE DEF Consistent
<1>2. /\ Ids(e.pending) = Ids(d.pending)
      /\ Ids(t.held) = IF keep THEN Ids(s.held) \cup {item.id} ELSE Ids(s.held)
  BY DEF Ids
<1>k. <<item.id, item.content>>[1] = item.id
  OBVIOUS
<1>c. /\ d.cards \subseteq e.cards /\ e.cards \subseteq d.cards \cup {<<item.id, item.content>>}
  OBVIOUS
<1>v. ~d.ended => \E v \in Verdicts : e.verdicts[item.id] = <<v>>
  <2> SUFFICES ASSUME ~d.ended PROVE \E v \in Verdicts : e.verdicts[item.id] = <<v>>
    OBVIOUS
  <2>1. PICK v \in Verdicts : e.verdicts[item.id] = Append(d.verdicts[item.id], v)
    OBVIOUS
  <2>2. Append(<<>>, v) = <<v>>
    OBVIOUS
  <2> QED
    BY <1>1, <2>1, <2>2
<1>3. Named(e, t)
  <2>1. \A p, q \in e.pending \cup t.held : p.id = q.id => p = q
    BY <1>1 DEF Named
  <2>2. \A p \in e.pending : <<p.id, p.content>> \in e.cards
    BY <1>c DEF Named
  <2>4. \A k, l \in e.cards : k[1] = l[1] => k = l
    BY <1>1, <1>k, <1>c DEF Named
  <2>5. \A k \in e.cards : k[1] \in t.seen
    BY <1>k, <1>c DEF Named
  <2> QED
    BY <1>2, <2>1, <2>2, <2>4, <2>5 DEF Named
<1>4. Final(e, t)
  <2> SUFFICES ASSUME NEW id \in Requests, e.verdicts[id] # <<>>
               PROVE  /\ \E v \in Verdicts : e.verdicts[id] = <<v>>
                      /\ id \in t.seen /\ id \notin Ids(e.pending)
                      /\ id \in Ids(t.held) => id \in e.orphans
    BY DEF Final
  <2>1. CASE id = item.id
    BY <1>1, <1>2, <1>v, <2>1
  <2>2. CASE id # item.id
    <3>1. e.verdicts[id] = d.verdicts[id]
      BY <2>2
    <3> QED
      BY <1>2, <2>2, <3>1 DEF Final
  <2> QED
    BY <2>1, <2>2
<1>5. Pinned(e)
  BY <1>1, <1>2 DEF Pinned
<1>6. n = 0 => Agreeing(e, t)
  <2> SUFFICES ASSUME n = 0 PROVE Agreeing(e, t)
    OBVIOUS
  <2>1. Agreeing(d, s)
    OBVIOUS
  <2>2. TablesOf(e, t)
    BY <1>1, <1>2, <2>1 DEF Agreeing, TablesOf
  <2>3. ASSUME NEW k \in e.cards PROVE k[1] \in Ids(e.pending) \/ e.verdicts[k[1]] # <<>>
    <3>1. CASE k \in d.cards
      <4>1. k[1] \in Requests /\ k[1] # item.id
        BY <1>1, <3>1 DEF IsConversation
      <4>2. e.verdicts[k[1]] = d.verdicts[k[1]]
        BY <4>1
      <4> QED
        BY <1>2, <2>1, <3>1, <4>2 DEF Agreeing
    <3>2. CASE k \notin d.cards
      <4>1. ~d.ended /\ k[1] = item.id
        BY <1>k, <1>c, <2>3, <3>2
      <4> QED
        BY <1>v, <4>1
    <3> QED
      BY <3>1, <3>2
  <2> QED
    BY <2>2, <2>3 DEF Agreeing, TablesOf
<1>7. Grows(d, s, e, t)
  BY <1>1, <1>2, <1>c DEF Grows
<1> QED
  BY <1>3, <1>4, <1>5, <1>6, <1>7

-----------------------------------------------------------------------------
(* The lines to the agent.                                                 *)

StepOK == /\ CInv' /\ Grows(c, stream, c', stream')
          /\ agent'.told = agent.told \/ DrainWrites

LEMMA LineGrows ==
  ASSUME NEW line, NEW d, NEW s, NEW ap, NEW e, NEW t, NEW ap2,
         LineOK(line, d, s, ap), Grows(d, s, e, t), ap \subseteq ap2
  PROVE  LineOK(line, e, t, ap2)
<1> SUFFICES ASSUME line.kind = "reply"
             PROVE  /\ line \in Replies /\ line.id \in t.seen /\ line.id \notin Ids(t.held)
                    /\ \E v \in Verdicts : /\ e.verdicts[line.id] = <<v>>
                                           /\ v.outcome = IF line.allow THEN "allow" ELSE "reject"
                    /\ line.allow => <<line.id, line.input>> \in ap2
  BY DEF LineOK
<1>1. /\ line \in Replies /\ line.id \in s.seen /\ line.id \notin Ids(s.held)
      /\ line.allow => <<line.id, line.input>> \in ap
  BY DEF LineOK
<1>2. PICK v \in Verdicts : /\ d.verdicts[line.id] = <<v>>
                            /\ v.outcome = IF line.allow THEN "allow" ELSE "reject"
  BY DEF LineOK
<1>3. line.id \in Requests /\ <<v>> # <<>>
  BY <1>1 DEF Replies
<1>4. e.verdicts[line.id] = <<v>>
  BY <1>2, <1>3 DEF Grows
<1> QED
  BY <1>1, <1>2, <1>4 DEF Grows

LEMMA QueueShrinks ==
  ASSUME CInv, QueueType(queue'), AgentType(agent'), queue'.lines \in {queue.lines, <<>>},
         queue'.hand \in {queue.hand, NoLine}, agent'.told = agent.told, oversized' \in Nat,
         Consistent(c', stream', oversized'), Grows(c, stream, c', stream'),
         approved \subseteq approved'
  PROVE  StepOK
<1>1. \A line : LineOK(line, c, stream, approved) => LineOK(line, c', stream', approved')
  BY LineGrows
<1>2. NoLine.kind = "none"
  BY DEF NoLine
<1>3. \A i \in 1..Len(queue'.lines) : i \in 1..Len(queue.lines) /\ queue'.lines[i] = queue.lines[i]
  OBVIOUS
<1>4. OneReply(queue', agent')
  BY <1>2, <1>3 DEF CInv, OneReply, SameReply
<1>5. LinesOK(queue', agent', c', stream', approved')
  <2>1. LineOK(NoLine, c', stream', approved')
    BY <1>2 DEF LineOK
  <2> QED
    BY <1>1, <1>3, <2>1 DEF CInv, LinesOK
<1> QED
  BY <1>4, <1>5 DEF StepOK, CInv

(* A reply to a request that the Stream held, or has just taken.           *)
LEMMA QueueAdds ==
  ASSUME CInv, NEW line \in Prompts \cup Replies, WriteLine(line), UNCHANGED <<agent, oversized>>,
         Consistent(c', stream', oversized'), Grows(c, stream, c', stream'),
         approved \subseteq approved', LineOK(line, c', stream', approved'),
         line.kind = "reply" => line.id \notin stream.seen \/ line.id \in Ids(stream.held)
  PROVE  StepOK
<1>1. \A l : LineOK(l, c, stream, approved) => LineOK(l, c', stream', approved')
  BY LineGrows
<1>2. QueueType(queue) /\ AgentType(agent)
  BY DEF CInv
<1>3. queue.lines \in Seq(Prompts \cup Replies)
  BY <1>2 DEF QueueType
<1>4. QueueType(queue') /\ queue'.lines = Append(queue.lines, line) /\ queue'.hand = queue.hand
  <2>1. Append(queue.lines, line) \in Seq(Prompts \cup Replies)
    BY <1>3
  <2> QED
    BY <1>2, <2>1 DEF QueueType, WriteLine
<1>5. /\ Len(queue'.lines) = Len(queue.lines) + 1 /\ queue'.lines[Len(queue.lines) + 1] = line
      /\ \A i \in 1..Len(queue.lines) : queue'.lines[i] = queue.lines[i]
      /\ \A i \in 1..Len(queue'.lines) : i \in 1..Len(queue.lines) \/ i = Len(queue.lines) + 1
  BY <1>3, <1>4
<1>6. \A l : LineOK(l, c, stream, approved) => ~SameReply(l, line)
  BY DEF LineOK, SameReply
<1>7. \A i \in 1..Len(queue.lines) : ~SameReply(queue.lines[i], line)
  BY <1>6 DEF CInv, LinesOK
<1>8. ~SameReply(queue.hand, line)
  BY <1>6 DEF CInv, LinesOK
<1>9. line.kind = "reply" => agent.told[line.id] = <<>>
  <2> SUFFICES ASSUME line.kind = "reply", agent.told[line.id] # <<>> PROVE FALSE
    OBVIOUS
  <2>1. line.id \in Requests
    BY DEF Prompts, Replies
  <2>2. PICK l \in Replies : l.id = line.id /\ LineOK(l, c, stream, approved)
    BY <2>1 DEF CInv, LinesOK
  <2>3. l.kind = "reply"
    BY DEF Replies
  <2> QED
    BY <1>6, <2>2, <2>3 DEF SameReply
<1>10. OneReply(queue', agent')
  <2>1. \A i, j \in 1..Len(queue'.lines) : SameReply(queue'.lines[i], queue'.lines[j]) => i = j
    <3> SUFFICES ASSUME NEW i \in 1..Len(queue'.lines), NEW j \in 1..Len(queue'.lines),
                        SameReply(queue'.lines[i], queue'.lines[j])
                 PROVE  i = j
      OBVIOUS
    <3>1. CASE i \in 1..Len(queue.lines) /\ j \in 1..Len(queue.lines)
      BY <1>5, <3>1 DEF CInv, OneReply
    <3>2. CASE i \in 1..Len(queue.lines) /\ j = Len(queue.lines) + 1
      BY <1>5, <1>7, <3>2
    <3>3. CASE i = Len(queue.lines) + 1 /\ j \in 1..Len(queue.lines)
      BY <1>5, <1>7, <3>3 DEF SameReply
    <3>4. CASE i = Len(queue.lines) + 1 /\ j = Len(queue.lines) + 1
      BY <3>4
    <3> QED
      BY <1>5, <3>1, <3>2, <3>3, <3>4
  <2>2. \A i \in 1..Len(queue'.lines) :
          /\ ~SameReply(queue'.lines[i], queue'.hand)
          /\ queue'.lines[i].kind = "reply" => agent'.told[queue'.lines[i].id] = <<>>
    BY <1>4, <1>5, <1>8, <1>9 DEF CInv, OneReply, SameReply
  <2> QED
    BY <1>4, <2>1, <2>2 DEF CInv, OneReply
<1>11. LinesOK(queue', agent', c', stream', approved')
  <2>1. \A i \in 1..Len(queue'.lines) : LineOK(queue'.lines[i], c', stream', approved')
    BY <1>1, <1>5 DEF CInv, LinesOK
  <2>2. LineOK(queue'.hand, c', stream', approved')
    BY <1>1, <1>4 DEF CInv, LinesOK
  <2>3. \A id \in Requests :
          \/ agent'.told[id] = <<>>
          \/ \E l \in Replies : /\ agent'.told[id] = <<l>> /\ l.id = id
                                /\ LineOK(l, c', stream', approved')
    BY <1>1 DEF CInv, LinesOK
  <2> QED
    BY <2>1, <2>2, <2>3 DEF LinesOK
<1> QED
  BY <1>2, <1>4, <1>10, <1>11 DEF CInv, StepOK

(* The goroutine of the queue.                                             *)
LEMMA SelfGrows ==
  ASSUME NEW d, NEW s
  PROVE  Grows(d, s, d, s)
  BY DEF Grows

LEMMA DrainTakeKeeps ==
  ASSUME CInv, DrainTake
  PROVE  StepOK
<1>1. UNCHANGED <<c, stream, agent, approved, oversized>>
  BY DEF DrainTake
<1>2. QueueType(queue) /\ queue.lines \in Seq(Prompts \cup Replies) /\ queue.lines # <<>>
  BY DEF CInv, QueueType, DrainTake
<1>3. /\ Head(queue.lines) = queue.lines[1] /\ queue.lines[1] \in Prompts \cup Replies
      /\ Tail(queue.lines) \in Seq(Prompts \cup Replies) /\ 1 \in 1..Len(queue.lines)
  BY <1>2
<1>4. /\ QueueType(queue') /\ queue'.lines = Tail(queue.lines) /\ queue'.hand = queue.lines[1]
  BY <1>2, <1>3 DEF QueueType, DrainTake
<1>5. \A i \in 1..Len(queue'.lines) : /\ i + 1 \in 1..Len(queue.lines) /\ i + 1 # 1
                                      /\ queue'.lines[i] = queue.lines[i + 1]
  BY <1>2, <1>4
<1>6. \A i, j \in 1..Len(queue'.lines) : i + 1 = j + 1 => i = j
  BY <1>2, <1>4
<1>7. OneReply(queue', agent')
  <2>1. \A i, j \in 1..Len(queue'.lines) : SameReply(queue'.lines[i], queue'.lines[j]) => i = j
    BY <1>5, <1>6 DEF CInv, OneReply
  <2>2. \A i \in 1..Len(queue'.lines) :
          /\ ~SameReply(queue'.lines[i], queue'.hand)
          /\ queue'.lines[i].kind = "reply" => agent'.told[queue'.lines[i].id] = <<>>
    BY <1>1, <1>3, <1>4, <1>5 DEF CInv, OneReply
  <2>3. queue'.hand.kind = "reply" => agent'.told[queue'.hand.id] = <<>>
    BY <1>1, <1>3, <1>4 DEF CInv, OneReply
  <2> QED
    BY <2>1, <2>2, <2>3 DEF OneReply
<1>8. LinesOK(queue', agent', c', stream', approved')
  BY <1>1, <1>3, <1>4, <1>5 DEF CInv, LinesOK
<1> QED
  BY <1>1, <1>4, <1>7, <1>8, SelfGrows DEF CInv, StepOK

LEMMA DrainWritesKeeps ==
  ASSUME CInv, DrainWrites
  PROVE  StepOK
<1>1. UNCHANGED <<c, stream, approved, oversized>>
  BY DEF DrainWrites
<1>2. QueueType(queue) /\ AgentType(agent)
  BY DEF CInv
<1>n. NoLine.kind = "none"
  BY DEF NoLine
<1>3. QueueType(queue') /\ queue'.lines = queue.lines /\ queue'.hand = NoLine
  BY <1>2 DEF QueueType, DrainWrites
<1>h. queue.hand \in Prompts \cup Replies
  BY <1>2 DEF QueueType, DrainWrites
<1>4. CASE queue.hand.kind = "prompt"
  <2>1. queue.hand \in Prompts
    BY <1>h, <1>4 DEF Replies
  <2>2. AgentType(agent') /\ agent'.told = agent.told
    BY <1>2, <1>4, <2>1 DEF AgentType, DrainWrites
  <2> QED
    BY <1>1, <1>3, <2>2, SelfGrows, QueueShrinks DEF CInv
<1>5. CASE queue.hand.kind # "prompt"
  <2>1. queue.hand \in Replies /\ queue.hand.kind = "reply" /\ queue.hand.id \in Requests
    BY <1>h, <1>5 DEF Prompts, Replies
  <2>2. agent.told[queue.hand.id] = <<>> /\ LineOK(queue.hand, c, stream, approved)
    BY <2>1 DEF CInv, OneReply, LinesOK
  <2>3. agent' = [agent EXCEPT !.told[queue.hand.id] = Append(@, queue.hand)]
    BY <1>5 DEF DrainWrites
  <2>4. Append(<<>>, queue.hand) = <<queue.hand>> /\ <<queue.hand>> \in Seq(Replies)
    BY <2>1
  <2>5. /\ AgentType(agent') /\ agent'.told[queue.hand.id] = <<queue.hand>>
        /\ \A id \in Requests : id # queue.hand.id => agent'.told[id] = agent.told[id]
    BY <1>2, <2>1, <2>2, <2>3, <2>4 DEF AgentType
  <2>6. OneReply(queue', agent')
    <3>1. ASSUME NEW i \in 1..Len(queue.lines), queue.lines[i].kind = "reply"
          PROVE  agent'.told[queue.lines[i].id] = <<>>
      <4>1. ~SameReply(queue.lines[i], queue.hand) /\ agent.told[queue.lines[i].id] = <<>>
        BY <3>1 DEF CInv, OneReply
      <4>2. queue.lines[i] \in Prompts \cup Replies
        BY <1>2 DEF QueueType
      <4>3. queue.lines[i].id \in Requests /\ queue.lines[i].id # queue.hand.id
        BY <2>1, <3>1, <4>1, <4>2 DEF SameReply, Prompts, Replies
      <4> QED
        BY <2>5, <4>1, <4>3
    <3> QED
      BY <1>3, <1>n, <3>1 DEF CInv, OneReply, SameReply
  <2>7. LinesOK(queue', agent', c', stream', approved')
    <3>1. LineOK(NoLine, c', stream', approved')
      BY <1>n DEF LineOK
    <3>2. \A id \in Requests :
            \/ agent'.told[id] = <<>>
            \/ \E line \in Replies : /\ agent'.told[id] = <<line>> /\ line.id = id
                                     /\ LineOK(line, c, stream, approved)
      BY <2>1, <2>2, <2>5 DEF CInv, LinesOK
    <3> QED
      BY <1>1, <1>3, <3>1, <3>2 DEF CInv, LinesOK
  <2> QED
    BY <1>1, <1>3, <2>5, <2>6, <2>7, SelfGrows DEF CInv, StepOK
<1> QED
  BY <1>4, <1>5

(* The steps that leave the lines where they are, or drop them.            *)
LEMMA DrainOffKeeps ==
  ASSUME CInv, DrainFails \/ DrainEnds \/ FinishDiscards \/ Exit \/ OutputEnds
  PROVE  StepOK
<1>1. QueueType(queue) /\ AgentType(agent) /\ <<>> \in Seq(Prompts \cup Replies)
  BY DEF CInv
<1>2. UNCHANGED <<c, stream, approved, oversized>>
  BY DEF DrainFails, DrainEnds, FinishDiscards, Exit, OutputEnds
<1>3. AgentType(agent') /\ agent'.told = agent.told
  BY <1>1 DEF AgentType, DrainFails, DrainEnds, FinishDiscards, Exit, OutputEnds
<1>4. /\ QueueType(queue') /\ queue'.lines \in {queue.lines, <<>>}
      /\ queue'.hand \in {queue.hand, NoLine}
  BY <1>1 DEF QueueType, DrainFails, DrainEnds, FinishDiscards, Exit, OutputEnds, Discarded
<1> QED
  BY <1>2, <1>3, <1>4, SelfGrows, QueueShrinks DEF CInv

(* A step of the conversation and its Stream alone.                        *)
LEMMA PairKeeps ==
  ASSUME CInv, UNCHANGED <<queue, agent, approved>>, oversized' \in Nat,
         Consistent(c', stream', oversized'), Grows(c, stream, c', stream')
  PROVE  StepOK
  BY QueueShrinks DEF CInv

LEMMA StopActions ==
  ASSUME CInv, Stop \/ DrainStops \/ OnStop
  PROVE  StepOK
<1>1. QueueType(queue) /\ Consistent(c, stream, oversized) /\ <<>> \in Seq(Prompts \cup Replies)
  BY DEF CInv
<1>2. UNCHANGED <<stream, agent, approved, oversized>>
  BY DEF Stop, DrainStops, OnStop
<1>3. /\ QueueType(queue') /\ queue'.lines \in {queue.lines, <<>>}
      /\ queue'.hand \in {queue.hand, NoLine}
  BY <1>1 DEF QueueType, Stop, DrainStops, OnStop, Discarded
<1>4. Consistent(c', stream, oversized) /\ Grows(c, stream, c', stream)
  <2>1. CASE c' = stop(c)
    BY <1>1, <2>1, StopKeeps
  <2>2. CASE c' = [c EXCEPT !.onStop = "done"]
    <3>1. IsConversation(c) /\ (c.ended => c.state = "closed")
      BY <1>1 DEF Consistent, Pinned
    <3>2. /\ IsConversation(c') /\ c'.state = c.state /\ c'.cards = c.cards /\ c'.ended = c.ended
          /\ c'.pending = c.pending /\ c'.orphans = c.orphans /\ c'.pins = c.pins
          /\ c'.verdicts = c.verdicts
      BY <2>2, <3>1 DEF IsConversation
    <3> QED
      BY <1>1, <3>1, <3>2, AsideKeeps
  <2> QED
    BY <2>1, <2>2 DEF Stop, DrainStops, OnStop
<1> QED
  BY <1>2, <1>3, <1>4, QueueShrinks DEF CInv

LEMMA CloseKeeps ==
  ASSUME CInv, Close
  PROVE  StepOK
<1> DEFINE d == [c EXCEPT !.state = "closed"]
           e == expireAll(d)
<1>1. Consistent(c, stream, oversized) /\ IsConversation(c) /\ AgentType(agent)
  BY DEF CInv, Consistent
<1>2. /\ UNCHANGED <<stream, queue, approved, oversized>> /\ c' = [e EXCEPT !.ended = TRUE]
      /\ AgentType(agent') /\ agent'.told = agent.told
  BY <1>1 DEF Close, AgentType
<1>3. /\ IsConversation(d) /\ d.state = "closed" /\ d.cards = c.cards /\ d.ended = c.ended
      /\ d.pending = c.pending /\ d.orphans = c.orphans /\ d.pins = c.pins
      /\ d.verdicts = c.verdicts
  BY <1>1 DEF IsConversation
<1> HIDE DEF d
<1>4. Consistent(d, stream, oversized) /\ Grows(c, stream, d, stream)
  BY <1>1, <1>3, AsideKeeps
<1>5. /\ Consistent(e, stream, oversized) /\ Grows(d, stream, e, stream)
      /\ e.pending = {} /\ e.state = "closed"
  BY <1>3, <1>4, ExpireKeeps DEF Keeps
<1> HIDE DEF e
<1>6. /\ IsConversation(c') /\ c'.state = "closed" /\ c'.cards = e.cards /\ c'.ended
      /\ c'.pending = e.pending /\ c'.orphans = e.orphans /\ c'.verdicts = e.verdicts
  BY <1>2, <1>5 DEF Consistent, IsConversation
<1>7. Consistent(c', stream, oversized) /\ Grows(e, stream, c', stream)
  BY <1>5, <1>6 DEF Consistent, Named, Final, Pinned, Agreeing, Grows
<1>8. Grows(c, stream, c', stream)
  BY <1>4, <1>5, <1>7, GrowsOn
<1> QED
  BY <1>2, <1>7, <1>8, QueueShrinks DEF CInv

-----------------------------------------------------------------------------
(* What the users do.                                                      *)

LEMMA PromptLine ==
  ASSUME NEW init \in BOOLEAN, NEW d, NEW s, NEW ap
  PROVE  /\ Prompt(init) \in Prompts /\ Prompt(init).kind = "prompt"
         /\ LineOK(Prompt(init), d, s, ap)
  BY DEF Prompt, Prompts, LineOK

LEMMA SendKeeps ==
  ASSUME CInv, Send
  PROVE  StepOK
<1>1. Consistent(c, stream, oversized) /\ IsConversation(c) /\ IsStream(stream)
  BY DEF CInv, Consistent
<1>2. UNCHANGED <<agent, approved, oversized>> /\ c.state = "idle"
  BY DEF Send
<1>3. IsStream(stream') /\ stream'.held = stream.held /\ stream'.seen = stream.seen
  BY <1>1 DEF Send, IsStream
<1>4. Consistent(c, stream', oversized) /\ Grows(c, stream, c, stream')
  BY <1>1, <1>3 DEF Consistent, Named, Final, Agreeing, Grows
<1>5. CASE WriteLine(Prompt(~stream.sentInit)) /\ c' = [c EXCEPT !.state = "turn"]
  <2>1. ~c.ended
    BY <1>1, <1>2 DEF Consistent, Pinned
  <2>2. /\ IsConversation(c') /\ c'.cards = c.cards /\ c'.ended = c.ended
        /\ c'.pending = c.pending /\ c'.orphans = c.orphans /\ c'.pins = c.pins
        /\ c'.verdicts = c.verdicts
    BY <1>1, <1>5 DEF IsConversation
  <2>3. Consistent(c', stream', oversized) /\ Grows(c, stream', c', stream')
    BY <1>4, <2>1, <2>2, AsideKeeps
  <2>4. Grows(c, stream, c', stream')
    BY <1>4, <2>3, GrowsOn
  <2> DEFINE line == Prompt(~stream.sentInit)
  <2>5. line \in Prompts /\ line.kind = "prompt" /\ LineOK(line, c', stream', approved')
    BY PromptLine
  <2> HIDE DEF line
  <2>6. WriteLine(line)
    BY <1>5 DEF line
  <2> QED
    BY <1>2, <2>3, <2>4, <2>5, <2>6, QueueAdds
<1>6. CASE UNCHANGED queue /\ c' = fail(c)
  <2>1. Consistent(c', stream', oversized) /\ Grows(c, stream', c', stream')
    BY <1>4, <1>6, FailKeeps
  <2>2. Grows(c, stream, c', stream')
    BY <1>4, <2>1, GrowsOn
  <2> QED
    BY <1>2, <1>6, <2>1, <2>2, PairKeeps DEF CInv
<1> QED
  BY <1>5, <1>6 DEF Send, WriteOr

(* The item of an id.                                                      *)
LEMMA TheItem ==
  ASSUME NEW items, NEW id \in Ids(items)
  PROVE  \E item \in items : item.id = id /\ ContentOf(items, id) = item.content
  BY DEF Ids, ContentOf

LEMMA ResolveKeeps ==
  ASSUME CInv, NEW a \in Answers, Shown(a), Resolve(a)
  PROVE  StepOK
<1> DEFINE id == a.id
           out == IF a.allow THEN "allow" ELSE "reject"
           P == {item \in c.pending : item.id = a.id}
           input == ContentOf(stream.held, a.id)
           line == Reply(a.id, a.allow, input)
<1>1. Consistent(c, stream, oversized) /\ IsConversation(c) /\ IsStream(stream)
  BY DEF CInv, Consistent
<1>2. /\ a.current /\ id \in Ids(c.pending) /\ id \in Ids(stream.held)
      /\ stream' = Released(stream, id) /\ UNCHANGED <<agent, oversized>>
      /\ approved' = IF a.allow THEN approved \cup {<<id, a.saw>>} ELSE approved
  BY DEF Resolve, Accepted
<1>3. id \in Requests /\ a.allow \in BOOLEAN
  BY DEF Answers
<1>4. PICK h \in stream.held : h.id = id /\ input = h.content
  BY <1>2, TheItem
<1>5. a.saw = h.content
  <2>1. PICK p \in c.pending : p.id = id
    BY <1>2 DEF Ids
  <2>2. p = h /\ <<p.id, p.content>> \in c.cards
    BY <1>1, <1>4, <2>1 DEF Consistent, Named
  <2>3. <<id, a.saw>> \in c.cards
    BY <1>2 DEF Shown
  <2>4. <<id, a.saw>>[1] = <<p.id, p.content>>[1]
    BY <2>1
  <2>5. <<id, a.saw>> = <<p.id, p.content>>
    BY <1>1, <2>2, <2>3, <2>4 DEF Consistent, Named
  <2> QED
    BY <2>2, <2>5
<1>6. h.content \in Contents
  BY <1>1 DEF IsStream, Items
<1>7. /\ line \in Replies /\ line.kind = "reply" /\ line.id = id /\ line.allow = a.allow
      /\ line.input = h.content
  BY <1>3, <1>4, <1>6 DEF Reply, Replies
<1>8. CASE WriteLine(line) /\ c' = emitResolved(settle(c, P), {id}, "human", out)
  <2>1. out \in {"allow", "reject", "cancelled"}
    OBVIOUS
  <2> DEFINE v == [by |-> "human", outcome |-> out]
  <2>2. /\ Consistent(c', stream', oversized) /\ Grows(c, stream, c', stream')
        /\ c'.verdicts[id] = <<v>> /\ id \notin Ids(stream'.held) /\ stream'.seen = stream.seen
    <3> DEFINE e == emitResolved(settle(c, P), {id}, "human", out)
               t == Released(stream, id)
    <3>1. /\ Consistent(e, t, oversized) /\ Grows(c, stream, e, t)
          /\ e.verdicts[id] = <<v>> /\ id \notin Ids(t.held) /\ t.seen = stream.seen
      <4>1. v = [by |-> "human", outcome |-> out]
        OBVIOUS
      <4> HIDE DEF out, v
      <4>2. Answered(c, stream, oversized, id, e, t, v)
        BY <1>1, <1>2, <2>1, <4>1, AnsweredKeeps
      <4> QED
        BY <4>2 DEF Answered
    <3>2. c' = e /\ stream' = t
      BY <1>2, <1>8
    <3> HIDE DEF e, t, v
    <3> QED
      BY <3>1, <3>2
  <2>3. v \in Verdicts /\ v.outcome = IF line.allow THEN "allow" ELSE "reject"
    BY <1>7, <2>1 DEF Verdicts
  <2>4. id \in stream'.seen
    BY <1>1, <1>2, <2>2, HeldNames
  <2>5. line.allow => <<line.id, line.input>> \in approved'
    BY <1>2, <1>5, <1>7
  <2>6. LineOK(line, c', stream', approved')
    <3> HIDE DEF line, v
    <3> QED
      BY <1>7, <2>2, <2>3, <2>4, <2>5 DEF LineOK
  <2>7. approved \subseteq approved'
    BY <1>2
  <2> HIDE DEF line, v, id
  <2> QED
    BY <1>2, <1>7, <1>8, <2>2, <2>6, <2>7, QueueAdds
<1>9. CASE UNCHANGED queue /\ c' = fail(emitResolved(settle(c, P), {id}, "policy", "cancelled"))
  <2> DEFINE e == emitResolved(settle(c, P), {id}, "policy", "cancelled")
             v == [by |-> "policy", outcome |-> "cancelled"]
  <2>1. Consistent(e, stream', oversized) /\ Grows(c, stream, e, stream')
    <3>1. v = [by |-> "policy", outcome |-> "cancelled"]
      OBVIOUS
    <3> HIDE DEF v
    <3>2. Answered(c, stream, oversized, id, e, stream', v)
      BY <1>1, <1>2, <3>1, AnsweredKeeps
    <3> QED
      BY <3>2 DEF Answered
  <2> HIDE DEF e
  <2>2. c' = fail(e)
    BY <1>9 DEF e
  <2>3. Consistent(c', stream', oversized) /\ Grows(e, stream', c', stream')
    BY <2>1, <2>2, FailKeeps
  <2>4. Grows(c, stream, c', stream')
    BY <2>1, <2>3, GrowsOn
  <2>5. approved \subseteq approved'
    BY <1>2
  <2> QED
    BY <1>2, <1>9, <2>3, <2>4, <2>5, QueueShrinks DEF CInv
<1> QED
  BY <1>8, <1>9 DEF Resolve, WriteOr

LEMMA ResolveRefusedKeeps ==
  ASSUME CInv, NEW a \in Answers, ResolveRefused(a)
  PROVE  StepOK
<1> DEFINE P == {item \in c.pending : item.id = a.id}
           d == settle(c, P)
<1>1. Consistent(c, stream, oversized) /\ IsConversation(c) /\ IsStream(stream)
  BY DEF CInv, Consistent
<1>2. /\ a.id \in Ids(c.pending) /\ a.id \notin Ids(stream.held)
      /\ c' = [d EXCEPT !.pins = @ \ {a.id}]
      /\ UNCHANGED <<stream, queue, agent, approved, oversized>>
  BY DEF ResolveRefused, Accepted
<1>3. Ids(P) = {a.id}
  BY <1>2 DEF Ids
<1> HIDE DEF P
<1>4. /\ IsConversation(d) /\ Keeps(d, c) /\ d.pending = {p \in c.pending : p.id \notin {a.id}}
      /\ d.orphans = c.orphans /\ d.pins = c.pins /\ d.verdicts = c.verdicts
  BY <1>1, <1>3, SettleFacts
<1> HIDE DEF d
<1>5. /\ IsConversation(c') /\ Keeps(c', c) /\ c'.pending = {p \in c.pending : p.id # a.id}
      /\ c'.orphans = c.orphans /\ c'.pins = c.pins \ {a.id} /\ c'.verdicts = c.verdicts
  BY <1>2, <1>4 DEF IsConversation, Keeps
<1>6. Ids(c'.pending) = Ids(c.pending) \ {a.id}
  BY <1>5 DEF Ids
<1>7. oversized # 0
  BY <1>1, <1>2 DEF Consistent, Agreeing
<1>8. Named(c', stream) /\ Final(c', stream) /\ Pinned(c')
  BY <1>1, <1>5, <1>6 DEF Consistent, Named, Final, Pinned, Keeps
<1>9. Consistent(c', stream', oversized') /\ Grows(c, stream, c', stream')
  BY <1>1, <1>2, <1>5, <1>7, <1>8 DEF Consistent, Grows, Keeps
<1> QED
  BY <1>2, <1>9, PairKeeps DEF CInv

-----------------------------------------------------------------------------
(* What the agent says.                                                    *)

LEMMA TakenFacts ==
  ASSUME NEW id \in Requests, NEW t \in Contents, IsStream(stream)
  PROVE  /\ Item(id, t) \in Items /\ Item(id, t).id = id /\ Item(id, t).content = t
         /\ Takes(stream, Taken(id, t), Item(id, t))
<1>1. Cardinality(stream.seen) \in Nat /\ IsFiniteSet(stream.seen \cup {id})
  BY FS_CardinalityType, FS_AddElement DEF IsStream
<1>2. Item(id, t) \in Items /\ Item(id, t).id = id /\ Item(id, t).content = t
  BY <1>1 DEF Item, Items
<1> DEFINE item == Item(id, t)
           s == [stream EXCEPT !.seen = @ \cup {id}, !.held = @ \cup {item}]
<1>3. Taken(id, t) = s
  BY DEF Taken
<1> HIDE DEF item
<1>4. item \in Items /\ item.id = id
  BY <1>2 DEF item
<1>5. IsStream(s) /\ s.seen = stream.seen \cup {id} /\ s.held = stream.held \cup {item}
  BY <1>1, <1>4 DEF IsStream
<1> QED
  BY <1>2, <1>3, <1>4, <1>5 DEF Takes, item

LEMMA MalformedKeeps ==
  ASSUME CInv, NEW id \in Requests, Malformed(id)
  PROVE  StepOK
<1>1. Consistent(c, stream, oversized) /\ IsStream(stream) /\ id \notin stream.seen
  BY DEF CInv, Consistent, Malformed, Fresh
<1>2. UNCHANGED <<c, queue, agent, approved, oversized>>
  BY DEF Malformed
<1>f. IsFiniteSet(stream.seen \cup {id})
  BY <1>1, FS_AddElement DEF IsStream
<1>3. IsStream(stream') /\ stream'.seen = stream.seen \cup {id} /\ stream'.held = stream.held
  BY <1>1, <1>f DEF Malformed, IsStream
<1>4. id \notin Ids(stream.held)
  BY <1>1, Unseen
<1>5. Consistent(c', stream', oversized') /\ Grows(c, stream, c', stream')
  BY <1>1, <1>2, <1>3, <1>4 DEF Consistent, Named, Final, Agreeing, Grows
<1> QED
  BY <1>2, <1>5, PairKeeps DEF CInv

LEMMA AskedKeeps ==
  ASSUME CInv, NEW id \in Requests, NEW t \in Contents, Asked(id, t)
  PROVE  StepOK
<1> DEFINE item == Item(id, t)
<1>1. /\ Consistent(c, stream, oversized) /\ IsStream(stream) /\ IsConversation(c)
      /\ id \notin stream.seen /\ c.state = "turn"
  BY DEF CInv, Consistent, Asked, Fresh, Answerable
<1>2. /\ item \in Items /\ item.id = id /\ item.content = t /\ Takes(stream, stream', item)
      /\ UNCHANGED <<queue, agent, approved, oversized>>
  BY <1>1, TakenFacts DEF Asked
<1>3. ~c.ended
  BY <1>1 DEF Consistent, Pinned
<1>4. Without(c.pending, {id}) = c.pending
  BY <1>1, Unseen DEF Without
<1> DEFINE card == <<id, t>>
<1>5. c' = [c EXCEPT !.cards = @ \cup {card}, !.pending = c.pending \cup {item},
                     !.pins = @ \cup {id}]
  BY <1>1, <1>3, <1>4 DEF Asked, Carded, IsConversation
<1>k. card \in Requests \X Contents /\ card = <<item.id, item.content>>
  BY <1>2
<1> HIDE DEF item, card
<1>6. /\ IsConversation(c') /\ ~c'.ended
      /\ c'.pending = c.pending \cup {item} /\ c'.orphans = c.orphans
      /\ c'.pins = c.pins \cup {item.id} /\ c'.verdicts = c.verdicts
      /\ c'.cards = c.cards \cup {<<item.id, item.content>>}
  BY <1>1, <1>2, <1>3, <1>5, <1>k DEF IsConversation
<1>7. Consistent(c', stream', oversized) /\ Grows(c, stream, c', stream')
  BY <1>1, <1>2, <1>3, <1>6, AskedConsistent
<1> QED
  BY <1>2, <1>7, PairKeeps DEF CInv

(* A request that is shown and settled at once.                            *)
LEMMA ShownFacts ==
  ASSUME NEW id \in Requests, NEW t \in Contents, NEW item, item.id = id, item.content = t,
         IsConversation(c), id \notin Ids(c.pending)
  PROVE  LET d == settle(Carded(id, t), {item})
         IN  /\ IsConversation(d) /\ d.state = c.state /\ d.ended = c.ended
             /\ d.pending = c.pending /\ d.orphans = c.orphans /\ d.pins = c.pins
             /\ d.verdicts = c.verdicts /\ (c.ended => d.cards = c.cards)
             /\ ~c.ended => d.cards = c.cards \cup {<<item.id, item.content>>}
<1> DEFINE e == Carded(id, t)
           I == {item}
           d == settle(e, I)
           card == <<id, t>>
<1>0. card \in Requests \X Contents /\ card = <<item.id, item.content>>
  OBVIOUS
<1>1. e = IF c.ended THEN c ELSE [c EXCEPT !.cards = @ \cup {card}]
  BY DEF Carded
<1> HIDE DEF card
<1>2. /\ IsConversation(e) /\ e.state = c.state /\ e.ended = c.ended
      /\ e.pending = c.pending /\ e.orphans = c.orphans /\ e.pins = c.pins
      /\ e.verdicts = c.verdicts /\ (c.ended => e.cards = c.cards)
      /\ ~c.ended => e.cards = c.cards \cup {card}
  <2> HIDE DEF e
  <2>1. CASE c.ended
    BY <1>1, <2>1
  <2>2. CASE ~c.ended
    <3>1. e = [c EXCEPT !.cards = @ \cup {card}]
      BY <1>1, <2>2
    <3>2. c.cards \cup {card} \in SUBSET (Requests \X Contents)
      BY <1>0 DEF IsConversation
    <3> QED
      BY <2>2, <3>1, <3>2 DEF IsConversation
  <2> QED
    BY <2>1, <2>2
<1> HIDE DEF e
<1>3. Ids(I) = {id}
  BY DEF Ids
<1> HIDE DEF I
<1>4. /\ IsConversation(d) /\ Keeps(d, e) /\ d.pending = {p \in e.pending : p.id \notin {id}}
      /\ d.orphans = e.orphans /\ d.pins = e.pins /\ d.verdicts = e.verdicts
  BY <1>2, <1>3, SettleFacts
<1>5. d.pending = c.pending
  BY <1>2, <1>4 DEF Ids
<1> HIDE DEF d
<1>6. /\ IsConversation(d) /\ d.state = c.state /\ d.ended = c.ended
      /\ d.pending = c.pending /\ d.orphans = c.orphans /\ d.pins = c.pins
      /\ d.verdicts = c.verdicts /\ (c.ended => d.cards = c.cards)
      /\ ~c.ended => d.cards = c.cards \cup {<<item.id, item.content>>}
  BY <1>0, <1>2, <1>4, <1>5 DEF Keeps
<1> QED
  BY <1>6 DEF d, e, I

LEMMA AutoRejectKeeps ==
  ASSUME CInv, NEW id \in Requests, NEW t \in Contents, AutoReject(id, t)
  PROVE  StepOK
<1> DEFINE item == Item(id, t)
           d == settle(Carded(id, t), {item})
           s == Taken(id, t)
<1>1. /\ Consistent(c, stream, oversized) /\ IsStream(stream) /\ IsConversation(c)
      /\ id \notin stream.seen /\ UNCHANGED <<agent, approved, oversized>>
  BY DEF CInv, Consistent, AutoReject, Fresh
<1>2. /\ item \in Items /\ item.id = id /\ item.content = t
      /\ IsStream(s) /\ s.seen = stream.seen \cup {item.id} /\ s.held = stream.held \cup {item}
  BY <1>1, TakenFacts DEF Takes
<1>3. id \notin Ids(c.pending) /\ id \notin Ids(stream.held)
  BY <1>1, Unseen
<1>4. /\ IsConversation(d) /\ d.state = c.state /\ d.ended = c.ended
      /\ d.pending = c.pending /\ d.orphans = c.orphans /\ d.pins = c.pins
      /\ d.verdicts = c.verdicts /\ (c.ended => d.cards = c.cards)
      /\ ~c.ended => d.cards = c.cards \cup {<<item.id, item.content>>}
  BY <1>1, <1>2, <1>3, ShownFacts
<1>5. \/ /\ stream' = s /\ UNCHANGED queue
         /\ c' = [emitResolved(d, {id}, "policy", "cancelled") EXCEPT !.orphans = @ \cup {id}]
      \/ /\ c.state # "closed" /\ stream' = Released(s, id)
         /\ WriteOr(Reply(id, FALSE, t), emitResolved(d, {id}, "policy", "reject"),
                    fail(emitResolved(d, {id}, "policy", "cancelled")))
  BY DEF AutoReject
<1> HIDE DEF item, d, s
<1>6. ASSUME NEW out \in {"reject", "cancelled"}
      PROVE  LET e == emitResolved(d, {id}, "policy", out)
             IN  /\ IsConversation(e) /\ e.state = c.state /\ e.ended = c.ended
                 /\ e.pending = c.pending /\ e.orphans = c.orphans
                 /\ e.pins = c.pins \/ e.pins = c.pins \ {item.id}
                 /\ c.ended => e.verdicts = c.verdicts /\ e.cards = c.cards
                 /\ ~c.ended => /\ e.cards = c.cards \cup {<<item.id, item.content>>}
                                /\ e.verdicts[item.id] = Append(c.verdicts[item.id],
                                                            [by |-> "policy", outcome |-> out])
                                /\ \A x \in Requests \ {item.id} : e.verdicts[x] = c.verdicts[x]
  <2> DEFINE X == {id}
             e == emitResolved(d, X, "policy", out)
             v == [by |-> "policy", outcome |-> out]
  <2>1. X \in SUBSET Requests /\ item.id \in X /\ \A x \in X : x = item.id
    BY <1>2
  <2> HIDE DEF X
  <2>2. /\ IsConversation(e) /\ Keeps(e, d) /\ e.pending = d.pending /\ e.orphans = d.orphans
        /\ d.ended => e = d
        /\ ~d.ended => /\ e.pins = d.pins \ X
                       /\ \A x \in Requests : e.verdicts[x] =
                            IF x \in X THEN Append(d.verdicts[x], v) ELSE d.verdicts[x]
    BY <1>4, <2>1, EmitFacts
  <2> HIDE DEF e, v
  <2>3. /\ IsConversation(e) /\ e.state = c.state /\ e.ended = c.ended
        /\ e.pending = c.pending /\ e.orphans = c.orphans
        /\ e.pins = c.pins \/ e.pins = c.pins \ {item.id}
        /\ c.ended => e.verdicts = c.verdicts /\ e.cards = c.cards
        /\ ~c.ended => /\ e.cards = c.cards \cup {<<item.id, item.content>>}
                       /\ e.verdicts[item.id] = Append(c.verdicts[item.id], v)
                       /\ \A x \in Requests \ {item.id} : e.verdicts[x] = c.verdicts[x]
    BY <1>2, <1>4, <2>1, <2>2 DEF Keeps
  <2> QED
    BY <2>3 DEF e, v, X
<1>7. CASE /\ stream' = s /\ UNCHANGED queue
           /\ c' = [emitResolved(d, {id}, "policy", "cancelled") EXCEPT !.orphans = @ \cup {id}]
  <2> DEFINE e == emitResolved(d, {id}, "policy", "cancelled")
             v == [by |-> "policy", outcome |-> "cancelled"]
  <2>v. v \in Verdicts
    BY DEF Verdicts
  <2>1. /\ IsConversation(e) /\ e.state = c.state /\ e.ended = c.ended
        /\ e.pending = c.pending /\ e.orphans = c.orphans
        /\ e.pins = c.pins \/ e.pins = c.pins \ {item.id}
        /\ c.ended => e.verdicts = c.verdicts /\ e.cards = c.cards
        /\ ~c.ended => /\ e.cards = c.cards \cup {<<item.id, item.content>>}
                       /\ e.verdicts[item.id] = Append(c.verdicts[item.id], v)
                       /\ \A x \in Requests \ {item.id} : e.verdicts[x] = c.verdicts[x]
    BY <1>6
  <2> HIDE DEF v, e
  <2>2. c' = [e EXCEPT !.orphans = @ \cup {id}]
    BY <1>7 DEF e
  <2>3. /\ IsConversation(c') /\ c'.state = e.state /\ c'.ended = e.ended /\ c'.cards = e.cards
        /\ c'.pending = e.pending /\ c'.orphans = e.orphans \cup {item.id} /\ c'.pins = e.pins
        /\ c'.verdicts = e.verdicts
    BY <1>2, <2>1, <2>2 DEF IsConversation
  <2>4. c.ended => c.state = "closed"
    BY <1>1 DEF Consistent, Pinned
  <2>5. Consistent(c', stream', oversized) /\ Grows(c, stream, c', stream')
    <3> DEFINE keep == TRUE
    <3>1. /\ keep \in BOOLEAN
          /\ stream'.held = IF keep THEN stream.held \cup {item} ELSE stream.held
          /\ c'.orphans = IF keep THEN c.orphans \cup {item.id} ELSE c.orphans
      BY <1>2, <1>7, <2>1, <2>3
    <3>2. ~c.ended => /\ c'.cards = c.cards \cup {<<item.id, item.content>>}
                      /\ \E w \in Verdicts : c'.verdicts[item.id] = Append(c.verdicts[item.id], w)
                      /\ \A x \in Requests \ {item.id} : c'.verdicts[x] = c.verdicts[x]
      BY <1>2, <2>v, <2>1, <2>3
    <3>3. /\ IsStream(stream') /\ stream'.seen = stream.seen \cup {item.id}
          /\ item.id \notin stream.seen
      BY <1>1, <1>2, <1>7
    <3>4. /\ c'.ended = c.ended /\ (c.ended => c'.state = "closed") /\ c'.pending = c.pending
          /\ c'.pins = c.pins \/ c'.pins = c.pins \ {item.id}
          /\ c.ended => c'.verdicts = c.verdicts /\ c'.cards = c.cards
      BY <2>1, <2>3, <2>4
    <3> HIDE DEF keep
    <3> QED
      BY <1>1, <1>2, <2>3, <3>1, <3>2, <3>3, <3>4, RejectedConsistent
  <2> QED
    BY <1>1, <1>7, <2>5, PairKeeps DEF CInv
<1>8. CASE /\ c.state # "closed" /\ stream' = Released(s, id)
           /\ WriteOr(Reply(id, FALSE, t), emitResolved(d, {id}, "policy", "reject"),
                      fail(emitResolved(d, {id}, "policy", "cancelled")))
  <2>1. ~c.ended
    BY <1>1, <1>8 DEF Consistent, Pinned
  <2>2. /\ IsStream(stream') /\ stream'.seen = stream.seen \cup {item.id}
        /\ stream'.held = stream.held /\ item.id \notin stream.seen
    <3>1. stream' = [s EXCEPT !.held = {h \in s.held : h.id \notin {id}}]
      BY <1>2, <1>8 DEF Released, Without, IsStream
    <3>2. {h \in s.held : h.id \notin {id}} = stream.held
      BY <1>2, <1>3 DEF Ids
    <3>3. stream.held \in SUBSET Items
      BY <1>1 DEF IsStream
    <3> QED
      BY <1>1, <1>2, <3>1, <3>2, <3>3 DEF IsStream
  <2>3. ASSUME NEW out \in {"reject", "cancelled"}
        PROVE  LET e == emitResolved(d, {id}, "policy", out)
                   v == [by |-> "policy", outcome |-> out]
               IN  /\ Consistent(e, stream', oversized) /\ Grows(c, stream, e, stream')
                   /\ e.verdicts[id] = <<v>> /\ v \in Verdicts
    <3> DEFINE e == emitResolved(d, {id}, "policy", out)
               v == [by |-> "policy", outcome |-> out]
               keep == FALSE
    <3>v. v \in Verdicts
      BY DEF Verdicts
    <3>1. /\ IsConversation(e) /\ e.state = c.state /\ e.ended = c.ended
          /\ e.pending = c.pending /\ e.orphans = c.orphans
          /\ e.pins = c.pins \/ e.pins = c.pins \ {item.id}
          /\ e.cards = c.cards \cup {<<item.id, item.content>>}
          /\ e.verdicts[item.id] = Append(c.verdicts[item.id], v)
          /\ \A x \in Requests \ {item.id} : e.verdicts[x] = c.verdicts[x]
      BY <1>2, <1>6, <2>1
    <3>2. c.verdicts[id] = <<>>
      BY <1>1, Unseen
    <3>3. Append(<<>>, v) = <<v>>
      OBVIOUS
    <3> HIDE DEF e, v
    <3>4. /\ keep \in BOOLEAN
          /\ stream'.held = IF keep THEN stream.held \cup {item} ELSE stream.held
          /\ e.orphans = IF keep THEN c.orphans \cup {item.id} ELSE c.orphans
      BY <2>2, <3>1
    <3> HIDE DEF keep
    <3>5. Consistent(e, stream', oversized) /\ Grows(c, stream, e, stream')
      BY <1>1, <1>2, <2>1, <2>2, <3>v, <3>1, <3>4, RejectedConsistent
    <3>6. e.verdicts[id] = <<v>>
      BY <1>2, <3>1, <3>2, <3>3
    <3> QED
      BY <3>v, <3>5, <3>6 DEF e, v
  <2>4. CASE /\ WriteLine(Reply(id, FALSE, t)) /\ c' = emitResolved(d, {id}, "policy", "reject")
    <3> DEFINE line == Reply(id, FALSE, t)
               v == [by |-> "policy", outcome |-> "reject"]
    <3>1. line \in Replies /\ line.kind = "reply" /\ line.id = id /\ ~line.allow
      BY DEF Reply, Replies
    <3>2. /\ Consistent(c', stream', oversized) /\ Grows(c, stream, c', stream')
          /\ c'.verdicts[id] = <<v>> /\ v \in Verdicts
      BY <2>3, <2>4
    <3>3. v.outcome = "reject" /\ WriteLine(line)
      BY <2>4
    <3> HIDE DEF line, v
    <3>4. LineOK(line, c', stream', approved')
      BY <1>2, <1>3, <2>2, <3>1, <3>2, <3>3 DEF LineOK
    <3> QED
      BY <1>1, <3>1, <3>2, <3>3, <3>4, QueueAdds
  <2>5. CASE UNCHANGED queue /\ c' = fail(emitResolved(d, {id}, "policy", "cancelled"))
    <3> DEFINE e == emitResolved(d, {id}, "policy", "cancelled")
    <3>1. Consistent(e, stream', oversized) /\ Grows(c, stream, e, stream')
      BY <2>3
    <3> HIDE DEF e
    <3>2. Consistent(fail(e), stream', oversized) /\ Grows(e, stream', fail(e), stream')
      BY <3>1, FailKeeps
    <3>3. c' = fail(e)
      BY <2>5 DEF e
    <3>4. Grows(c, stream, c', stream')
      BY <3>1, <3>2, <3>3, GrowsOn
    <3> QED
      BY <1>1, <2>5, <3>2, <3>3, <3>4, PairKeeps DEF CInv
  <2> QED
    BY <1>8, <2>4, <2>5 DEF WriteOr
<1> QED
  BY <1>5, <1>7, <1>8

LEMMA CancelKeeps ==
  ASSUME CInv, NEW item \in stream.held, Cancel(item)
  PROVE  StepOK
<1> DEFINE I == {item}
<1>1. Consistent(c, stream, oversized) /\ IsStream(stream)
  BY DEF CInv, Consistent
<1>2. /\ c' = ClosedByAgent(c, I) /\ UNCHANGED <<queue, agent, approved, oversized>>
      /\ I \in SUBSET stream.held
  BY DEF Cancel
<1>3. IsStream(stream') /\ stream'.seen = stream.seen /\ stream'.held = stream.held \ I
  <2>1. {h \in stream.held : h.id \notin {item.id}} = stream.held \ I
    BY <1>1 DEF Consistent, Named
  <2>2. stream' = [stream EXCEPT !.held = stream.held \ I]
    BY <1>1, <2>1 DEF Cancel, Released, Without, IsStream
  <2> HIDE DEF I
  <2> QED
    BY <1>1, <2>2 DEF IsStream
<1> HIDE DEF I
<1>4. Consistent(c', stream', oversized) /\ Grows(c, stream, c', stream')
  BY <1>1, <1>2, <1>3, ClosedKeeps
<1> QED
  BY <1>2, <1>4, PairKeeps DEF CInv

LEMMA ResultKeeps ==
  ASSUME CInv, Result
  PROVE  StepOK
<1> DEFINE d == ClosedByAgent(c, stream.held)
<1>1. Consistent(c, stream, oversized) /\ IsStream(stream)
  BY DEF CInv, Consistent
<1>2. c' = TurnCompleted(d) /\ UNCHANGED <<queue, agent, approved, oversized>>
  BY DEF Result
<1>3. /\ IsStream(stream') /\ stream'.seen = stream.seen
      /\ stream'.held = stream.held \ stream.held
  BY <1>1 DEF Result, IsStream
<1>4. Consistent(d, stream', oversized) /\ Grows(c, stream, d, stream')
  BY <1>1, <1>3, ClosedKeeps
<1> HIDE DEF d
<1>5. CASE d.state # "turn"
  BY <1>2, <1>4, <1>5, PairKeeps DEF CInv, TurnCompleted
<1>6. CASE d.state = "turn"
  <2> DEFINE e == [d EXCEPT !.state = "idle"]
  <2>1. IsConversation(d) /\ ~d.ended
    BY <1>4, <1>6 DEF Consistent, Pinned
  <2>2. /\ IsConversation(e) /\ e.cards = d.cards /\ e.ended = d.ended
        /\ e.pending = d.pending /\ e.orphans = d.orphans /\ e.pins = d.pins
        /\ e.verdicts = d.verdicts
    BY <2>1 DEF IsConversation
  <2>3. c' = expireAll(e)
    BY <1>2, <1>6 DEF TurnCompleted
  <2> HIDE DEF e
  <2>4. Consistent(e, stream', oversized) /\ Grows(d, stream', e, stream')
    BY <1>4, <2>1, <2>2, AsideKeeps
  <2>5. Consistent(c', stream', oversized) /\ Grows(e, stream', c', stream')
    BY <2>3, <2>4, ExpireKeeps
  <2>6. Grows(c, stream, c', stream')
    BY <1>4, <2>4, <2>5, GrowsOn
  <2> QED
    BY <1>2, <2>5, <2>6, PairKeeps DEF CInv
<1> QED
  BY <1>5, <1>6

LEMMA OversizedKeeps ==
  ASSUME CInv, Oversized
  PROVE  StepOK
<1>1. /\ Consistent(c, stream, oversized) /\ IsStream(stream) /\ oversized \in Nat
      /\ UNCHANGED <<c, queue, agent, approved>> /\ oversized' = oversized + 1
  BY DEF CInv, Consistent, Oversized
<1>2. oversized' \in Nat /\ oversized' # 0
  BY <1>1
<1>3. CASE stream' = [stream EXCEPT !.held = {}]
  <2>1. IsStream(stream') /\ stream'.seen = stream.seen /\ stream'.held = {}
    BY <1>1, <1>3 DEF IsStream
  <2>2. Consistent(c', stream', oversized') /\ Grows(c, stream, c', stream')
    BY <1>1, <1>2, <2>1 DEF Consistent, Named, Final, Grows, Ids
  <2> QED
    BY <1>1, <1>2, <2>2, PairKeeps
<1>4. CASE \E id \in Requests, t \in Contents : Fresh(id) /\ stream' = Taken(id, t)
  <2>1. PICK id \in Requests, t \in Contents : Fresh(id) /\ stream' = Taken(id, t)
    BY <1>4
  <2> DEFINE item == Item(id, t)
  <2>2. /\ item \in Items /\ item.id = id /\ id \notin stream.seen
        /\ IsStream(stream') /\ stream'.seen = stream.seen \cup {id}
        /\ stream'.held = stream.held \cup {item}
    <3>1. item \in Items /\ item.id = id /\ Takes(stream, stream', item)
      BY <1>1, <2>1, TakenFacts
    <3> HIDE DEF item
    <3> QED
      BY <2>1, <3>1 DEF Takes, Fresh
  <2> HIDE DEF item
  <2>3. /\ id \notin Ids(c.pending) /\ c.verdicts[id] = <<>>
        /\ \A p \in c.pending \cup stream.held : p.id # id
    BY <1>1, <2>2, Unseen
  <2>4. Ids(stream'.held) = Ids(stream.held) \cup {id}
    BY <2>2 DEF Ids
  <2>5. Consistent(c', stream', oversized') /\ Grows(c, stream, c', stream')
    BY <1>1, <1>2, <2>2, <2>3, <2>4 DEF Consistent, Named, Final, Grows
  <2> QED
    BY <1>1, <1>2, <2>5, PairKeeps
<1> QED
  BY <1>3, <1>4 DEF Oversized

-----------------------------------------------------------------------------
(* The invariant.                                                          *)

LEMMA CInit ==
  ASSUME Init
  PROVE  CInv
<1> USE DEF Init
<1>1. IsFiniteSet({}) /\ <<>> \in Seq(Verdicts) /\ <<>> \in Seq(Replies)
      /\ <<>> \in Seq(Prompts \cup Replies)
  BY FS_EmptySet
<1>2. /\ IsConversation(c) /\ c.pending = {} /\ c.cards = {} /\ c.orphans = {} /\ c.pins = {}
      /\ ~c.ended /\ \A id \in Requests : c.verdicts[id] = <<>>
  <2> DEFINE vs == [id \in Requests |-> <<>>]
  <2>1. vs \in [Requests -> Seq(Verdicts)] /\ \A id \in Requests : vs[id] = <<>>
    BY <1>1
  <2> HIDE DEF vs
  <2>2. c = [state |-> "idle", stopped |-> FALSE, pending |-> {}, settled |-> <<>>,
             orphans |-> {}, onStop |-> "no", ended |-> FALSE, pins |-> {}, cards |-> {},
             verdicts |-> vs]
    BY DEF vs
  <2> QED
    BY <2>1, <2>2 DEF IsConversation
<1>3. IsStream(stream) /\ stream.held = {} /\ stream.seen = {}
  BY <1>1 DEF IsStream
<1>4. Consistent(c, stream, oversized)
  BY <1>2, <1>3 DEF Consistent, Named, Final, Pinned, Agreeing, Ids
<1>5. QueueType(queue) /\ queue.lines = <<>> /\ queue.hand.kind = "none"
  BY <1>1 DEF QueueType, NoLine
<1>6. AgentType(agent) /\ \A id \in Requests : agent.told[id] = <<>>
  BY <1>1 DEF AgentType
<1>7. OneReply(queue, agent)
  BY <1>5 DEF OneReply
<1>8. LinesOK(queue, agent, c, stream, approved)
  BY <1>5, <1>6 DEF LinesOK, LineOK
<1> QED
  BY <1>4, <1>5, <1>6, <1>7, <1>8 DEF CInv

LEMMA CStep ==
  ASSUME CInv, [Next]_vars
  PROVE  CInv' /\ Grows(c, stream, c', stream') /\ (agent'.told = agent.told \/ DrainWrites)
<1>1. CASE UNCHANGED vars
  BY <1>1, SelfGrows DEF vars, CInv
<1>2. CASE Next
  <2>1. CASE Send
    BY <2>1, SendKeeps DEF StepOK
  <2>2. ASSUME NEW a \in Answers, Shown(a), Resolve(a) \/ ResolveRefused(a)
        PROVE  StepOK
    BY <2>2, ResolveKeeps, ResolveRefusedKeeps
  <2>3. CASE Stop \/ OnStop \/ DrainStops
    BY <2>3, StopActions DEF StepOK
  <2>4. ASSUME NEW id \in Requests, Malformed(id)
        PROVE  StepOK
    BY <2>4, MalformedKeeps
  <2>5. ASSUME NEW id \in Requests, NEW t \in Contents, Asked(id, t) \/ AutoReject(id, t)
        PROVE  StepOK
    BY <2>5, AskedKeeps, AutoRejectKeeps
  <2>6. ASSUME NEW item \in stream.held, Cancel(item)
        PROVE  StepOK
    BY <2>6, CancelKeeps
  <2>7. CASE Result \/ Oversized
    BY <2>7, ResultKeeps, OversizedKeeps DEF StepOK
  <2>8. CASE DrainTake \/ DrainWrites
    BY <2>8, DrainTakeKeeps, DrainWritesKeeps DEF StepOK
  <2>9. CASE DrainFails \/ DrainEnds \/ FinishDiscards \/ Exit \/ OutputEnds
    BY <2>9, DrainOffKeeps DEF StepOK
  <2>10. CASE Close
    BY <2>10, CloseKeeps DEF StepOK
  <2> QED
    BY <1>2, <2>1, <2>2, <2>3, <2>4, <2>5, <2>6, <2>7, <2>8, <2>9, <2>10
    DEF Next, OnLine, Drain, Ending, StepOK
<1> QED
  BY <1>1, <1>2

-----------------------------------------------------------------------------
(* The invariant holds of every behaviour of the launch: the tables name   *)
(* the same items, a published verdict is the only one and final, and a    *)
(* line to the agent says what was published.                              *)
THEOREM ConversationInvariance == Spec => []CInv
<1>1. Init => CInv
  BY CInit
<1>2. CInv /\ [Next]_vars => CInv'
  BY CStep
<1> QED
  BY <1>1, <1>2, PTL DEF Spec

(* The state predicates that the runs check follow from it.                *)
LEMMA InvariantImplies ==
  ASSUME CInv
  PROVE  SettledOnce /\ AllowedWasSeen /\ TablesAgree
<1>1. Consistent(c, stream, oversized) /\ QueueType(queue) /\ AgentType(agent)
  BY DEF CInv
<1>2. SettledOnce
  <2> SUFFICES ASSUME oversized = 0, NEW id \in Displayed
               PROVE  Len(c.verdicts[id]) = IF id \in Ids(c.pending) THEN 0 ELSE 1
    BY DEF SettledOnce, AllPublished, OneVerdict
  <2>1. PICK k \in c.cards : k[1] = id
    BY DEF Displayed
  <2>2. id \in Requests /\ (id \in Ids(c.pending) \/ c.verdicts[id] # <<>>)
    BY <1>1, <2>1 DEF Consistent, Agreeing, IsConversation
  <2>3. CASE c.verdicts[id] = <<>>
    BY <2>2, <2>3
  <2>4. CASE c.verdicts[id] # <<>>
    <3>1. PICK v \in Verdicts : c.verdicts[id] = <<v>>
      BY <1>1, <2>2, <2>4 DEF Consistent, Final
    <3>2. id \notin Ids(c.pending)
      BY <1>1, <2>2, <2>4 DEF Consistent, Final
    <3> QED
      BY <3>1, <3>2
  <2> QED
    BY <2>3, <2>4
<1>3. AllowedWasSeen
  <2> SUFFICES ASSUME NEW line \in AllLines, line.kind = "reply", line.allow
               PROVE  <<line.id, line.input>> \in approved
    BY DEF AllowedWasSeen
  <2>1. ASSUME LineOK(line, c, stream, approved) PROVE <<line.id, line.input>> \in approved
    BY <2>1 DEF LineOK
  <2>2. CASE line \in Range(queue.lines)
    <3>1. PICK i \in DOMAIN queue.lines : queue.lines[i] = line
      BY <2>2 DEF Range
    <3>2. i \in 1..Len(queue.lines)
      BY <1>1 DEF QueueType
    <3> QED
      BY <2>1, <3>1, <3>2 DEF CInv, LinesOK
  <2>3. CASE line = queue.hand
    BY <2>1, <2>3 DEF CInv, LinesOK
  <2>4. CASE line \in agent.read
    BY <1>1, <2>4 DEF AgentType, Prompts
  <2>5. ASSUME NEW id \in Requests, line \in Range(agent.told[id])
        PROVE  LineOK(line, c, stream, approved)
    <3>1. PICK i \in DOMAIN agent.told[id] : agent.told[id][i] = line
      BY <2>5 DEF Range
    <3>2. agent.told[id] # <<>>
      BY <3>1
    <3>3. PICK l \in Replies : agent.told[id] = <<l>> /\ LineOK(l, c, stream, approved)
      BY <3>2 DEF CInv, LinesOK
    <3>4. i = 1 /\ line = l
      BY <3>1, <3>3
    <3> QED
      BY <3>3, <3>4
  <2> QED
    BY <2>1, <2>2, <2>3, <2>4, <2>5 DEF AllLines
<1>4. TablesAgree
  BY <1>1 DEF TablesAgree, AllPublished, Consistent, Agreeing, Pinned
<1> QED
  BY <1>2, <1>3, <1>4

(* As long as Feed refused no line, a request that was shown and does not  *)
(* wait has one published resolution, and one that waits has none: Send,   *)
(* Resolve, Stop, the agent's own resolutions and the end of the process,  *)
(* in any order.                                                           *)
THEOREM ShownIsSettledOnce == Spec => []SettledOnce
  BY ConversationInvariance, InvariantImplies, PTL

(* Every reply that allows an input, queued, being written or read by the  *)
(* agent, allows the one that a user of this launch had on the screen and  *)
(* allowed.                                                                *)
THEOREM OnlySeenIsAllowed == Spec => []AllowedWasSeen
  BY ConversationInvariance, InvariantImplies, PTL

(* pending and orphans name exactly what the Stream holds, and the Hub     *)
(* pins what waits.                                                        *)
THEOREM ConversationTablesAgree == Spec => []TablesAgree
  BY ConversationInvariance, InvariantImplies, PTL

-----------------------------------------------------------------------------
(* The contract.                                                           *)

Decisions == {"allow", "reject", "cancelled"}

LEMMA StatusIs ==
  ASSUME CInv, NEW id \in Requests
  PROVE  /\ \A v : c.verdicts[id] = <<v>> => status[id] = v.outcome
         /\ c.verdicts[id] # <<>> => status[id] \in Decisions
         /\ c.verdicts[id] = <<>> => status[id] = IF id \in Displayed THEN "open" ELSE "unasked"
<1>1. \A v : c.verdicts[id] = <<v>> => status[id] = v.outcome
  <2> SUFFICES ASSUME NEW v, c.verdicts[id] = <<v>> PROVE status[id] = v.outcome
    OBVIOUS
  <2>1. <<v>> # <<>> /\ Last(<<v>>) = v
    BY DEF Last
  <2> QED
    BY <2>1 DEF status
<1>2. c.verdicts[id] # <<>> => status[id] \in Decisions
  <2> SUFFICES ASSUME c.verdicts[id] # <<>> PROVE status[id] \in Decisions
    OBVIOUS
  <2>1. PICK v \in Verdicts : c.verdicts[id] = <<v>>
    BY DEF CInv, Consistent, Final
  <2>2. v.outcome \in Decisions
    BY DEF Verdicts, Decisions
  <2> QED
    BY <1>1, <2>1, <2>2
<1>3. c.verdicts[id] = <<>> => status[id] = IF id \in Displayed THEN "open" ELSE "unasked"
  BY DEF status
<1> QED
  BY <1>1, <1>2, <1>3

LEMMA ToldIs ==
  ASSUME CInv, NEW id \in Requests
  PROVE  /\ agent.told[id] = <<>> => told[id] = "nothing"
         /\ agent.told[id] # <<>> => /\ told[id] \in {"allow", "reject"} /\ told[id] = status[id]
<1>1. agent.told[id] = <<>> => told[id] = "nothing"
  BY DEF told
<1>2. ASSUME agent.told[id] # <<>>
      PROVE  told[id] \in {"allow", "reject"} /\ told[id] = status[id]
  <2>1. PICK line \in Replies : /\ agent.told[id] = <<line>> /\ line.id = id
                                /\ LineOK(line, c, stream, approved)
    BY <1>2 DEF CInv, LinesOK
  <2>2. line.kind = "reply"
    BY DEF Replies
  <2>3. PICK v \in Verdicts : /\ c.verdicts[id] = <<v>>
                              /\ v.outcome = IF line.allow THEN "allow" ELSE "reject"
    BY <2>1, <2>2 DEF LineOK
  <2>4. status[id] = v.outcome
    BY <2>3, StatusIs
  <2>5. <<line>> # <<>> /\ ~(Len(<<line>>) > 1) /\ <<line>>[1] = line
    OBVIOUS
  <2>6. told[id] = IF line.allow THEN "allow" ELSE "reject"
    BY <2>1, <2>5 DEF told
  <2> QED
    BY <2>3, <2>4, <2>6
<1> QED
  BY <1>1, <1>2

(* What the contract's variables say of a state.                           *)
Reads ==
  /\ status \in [Requests -> Decisions \cup {"unasked", "open"}]
  /\ told \in [Requests -> {"nothing", "allow", "reject"}]
  /\ \A id \in Requests :
       /\ \A v : c.verdicts[id] = <<v>> => status[id] = v.outcome
       /\ c.verdicts[id] # <<>> => status[id] \in Decisions
       /\ c.verdicts[id] = <<>> => status[id] = IF id \in Displayed THEN "open" ELSE "unasked"
       /\ agent.told[id] = <<>> => told[id] = "nothing"
       /\ agent.told[id] # <<>> => told[id] \in {"allow", "reject"} /\ told[id] = status[id]

LEMMA ReadsNow ==
  ASSUME CInv
  PROVE  Reads
<1>1. status = [id \in Requests |-> status[id]] /\ told = [id \in Requests |-> told[id]]
  BY DEF status, told
<1>2. \A id \in Requests : status[id] \in Decisions \cup {"unasked", "open"}
  BY StatusIs
<1>3. \A id \in Requests : told[id] \in {"nothing", "allow", "reject"}
  BY ToldIs
<1>4. /\ status \in [Requests -> Decisions \cup {"unasked", "open"}]
      /\ told \in [Requests -> {"nothing", "allow", "reject"}]
  BY <1>1, <1>2, <1>3
<1> QED
  BY <1>4, StatusIs, ToldIs DEF Reads

(* Every step of the conversation decides requests, tells the agent of one *)
(* that was decided, or changes nothing that the contract speaks of.       *)
LEMMA ApprovalStep ==
  ASSUME CInv, Reads, Reads', [Next]_vars
  PROVE  A!ApprovalNext
<1>1. Grows(c, stream, c', stream') /\ (agent'.told = agent.told \/ DrainWrites)
  BY CStep
<1>2. /\ status' \in [Requests -> Decisions \cup {"unasked", "open"}]
      /\ told' \in [Requests -> {"nothing", "allow", "reject"}]
  BY DEF Reads
<1>5. Displayed \subseteq Displayed'
  BY <1>1 DEF Displayed, Grows
<1>6. ASSUME NEW id \in Requests
      PROVE  A!Stays(id) \/ A!Decided(id) \/ A!Told(id)
  <2>1. CASE agent'.told[id] = agent.told[id]
    <3>1. told'[id] = told[id] \/ agent.told[id] # <<>>
      BY <2>1 DEF Reads
    <3>2. agent.told[id] # <<>> => c.verdicts[id] # <<>>
      <4> SUFFICES ASSUME agent.told[id] # <<>> PROVE c.verdicts[id] # <<>>
        OBVIOUS
      <4>1. PICK line \in Replies : line.id = id /\ LineOK(line, c, stream, approved)
        BY DEF CInv, LinesOK
      <4>2. PICK v : c.verdicts[id] = <<v>>
        BY <4>1 DEF LineOK, Replies
      <4> QED
        BY <4>2
    <3>3. CASE c.verdicts[id] # <<>>
      <4>1. c'.verdicts[id] = c.verdicts[id]
        BY <1>1, <3>3 DEF Grows
      <4>2. status'[id] = status[id]
        <5>1. PICK v \in Verdicts : c.verdicts[id] = <<v>>
          BY <3>3 DEF CInv, Consistent, Final
        <5> QED
          BY <4>1, <5>1 DEF Reads
      <4>3. told'[id] = told[id]
        BY <2>1, <4>2 DEF Reads
      <4> QED
        BY <4>2, <4>3 DEF A!Stays
    <3>4. CASE c.verdicts[id] = <<>>
      <4>1. told'[id] = told[id]
        BY <3>1, <3>2, <3>4
      <4>2. status[id] = IF id \in Displayed THEN "open" ELSE "unasked"
        BY <3>4 DEF Reads
      <4>3. status'[id] \in Decisions \/ status'[id] = IF id \in Displayed' THEN "open" ELSE "unasked"
        BY DEF Reads
      <4> QED
        BY <1>5, <4>1, <4>2, <4>3 DEF A!Stays, A!Decided, A!Decisions, Decisions
    <3> QED
      BY <3>3, <3>4
  <2>2. CASE agent'.told[id] # agent.told[id]
    <3>1. DrainWrites /\ c' = c
      BY <1>1, <2>2 DEF DrainWrites
    <3>2. status'[id] = status[id]
      BY <3>1 DEF status, Displayed
    <3>3. agent.told[id] = <<>> /\ agent'.told[id] # <<>>
      <4>1. queue.hand \in Prompts \cup Replies /\ AgentType(agent)
        BY <3>1 DEF CInv, QueueType, DrainWrites
      <4>2. queue.hand.kind # "prompt"
        BY <2>2, <3>1, <4>1 DEF DrainWrites, AgentType
      <4>3. queue.hand \in Replies /\ queue.hand.kind = "reply" /\ queue.hand.id \in Requests
        BY <4>1, <4>2 DEF Prompts, Replies
      <4>4. agent' = [agent EXCEPT !.told[queue.hand.id] = Append(@, queue.hand)]
        BY <3>1, <4>2 DEF DrainWrites
      <4>5. id = queue.hand.id
        BY <2>2, <4>1, <4>3, <4>4 DEF AgentType
      <4>6. agent.told[id] = <<>>
        BY <4>3, <4>5 DEF CInv, OneReply
      <4> QED
        BY <2>2, <4>6
    <3>4. told[id] = "nothing" /\ told'[id] \in {"allow", "reject"} /\ told'[id] = status'[id]
      BY <3>3 DEF Reads
    <3> QED
      BY <3>2, <3>4 DEF A!Told
  <2> QED
    BY <2>1, <2>2
<1> QED
  BY <1>2, <1>6 DEF A!ApprovalNext, A!Decisions, Decisions

(* One launch, with its Stream, its queue and its failures, keeps the      *)
(* contract of Approval: a decision is published once and is final, and    *)
(* the agent is told at most once, and nothing but the decision.           *)
THEOREM ConversationImplementsApproval == Spec => ImplementsApproval
<1>1. Init => A!ApprovalInit
  BY DEF Init, A!ApprovalInit, status, told, Displayed
<1>2. CInv /\ Reads /\ Reads' /\ [Next]_vars => [A!ApprovalNext]_<<status, told>>
  BY ApprovalStep
<1>3. CInv => Reads
  BY ReadsNow
<1> QED
  BY <1>1, <1>2, <1>3, ConversationInvariance, PTL DEF Spec, ImplementsApproval, A!ApprovalSpec
=============================================================================
