-------------------------- MODULE OpenCode_proofs --------------------------
(***************************************************************************)
(* Proofs about the opencode adapter for any number of sessions, requests, *)
(* and events and answers in flight.  What the page shows and what the     *)
(* server knows differ by what is on its way, so the invariant says of     *)
(* every event of the stream and every line of the queue what it still     *)
(* says about the server, and of every request the server has given up     *)
(* that an event which closes it follows.                                  *)
(***************************************************************************)
EXTENDS OpenCode, FiniteSetTheorems, TLAPS

Outcomes == {"allow", "reject", "answer", "cancel"}
Requests == [sid : Sessions \cup {None}, hidden : BOOLEAN,
             fate : Outcomes \cup {"none", "open", "gone"}]
Events == [type : {"created", "asked", "replied", "ended"}, sid : Sessions,
           id : Sessions \cup Reqs \cup {Root, None}, hidden : BOOLEAN]
Lines == [op : {"prompt", "interrupt", "reply"}, sid : Sessions \cup {None},
          id : Reqs \cup {None}, outcome : Outcomes \cup {None}]
Waiting == [id : Reqs, sid : Sessions, truncated : BOOLEAN]
Streams == [root : Sessions \cup {None}, children : SUBSET [sid : Sessions, parent : Sessions],
            pending : SUBSET Waiting, seen : [Reqs -> {"never", "requested", "us", "agent"}]]

OType ==
  /\ parent \in [Sessions -> Sessions \cup {Root, None}] /\ req \in [Reqs -> Requests]
  /\ sse \in Seq(Events) /\ queue \in Seq(Lines) /\ created \in Sessions \cup {None}
  /\ phase \in {"connect", "ready", "open", "root", "talk", "over"}
  /\ stream \in Streams /\ verdict \in [Reqs -> Seq(Outcomes \cup {"agent"})]

(* Before the root is known the Stream is new, and before the stream of    *)
(* events is open none is on its way.                                      *)
Starting ==
  /\ phase \in {"connect", "ready"} => sse = <<>>
  /\ phase \in {"connect", "ready", "open", "root"} =>
       /\ queue = <<>> /\ stream.root = None /\ stream.children = {} /\ stream.pending = {}
       /\ \A r \in Reqs : stream.seen[r] = "never"
  /\ phase = "talk" => stream.root \in Sessions

(* What was asked stays asked, and what has a hidden part is not allowed.  *)
ServerInv ==
  \A r \in Reqs : /\ req[r].fate # "none" => req[r].sid \in Sessions
                  /\ req[r].fate = "allow" => ~req[r].hidden

(* The sessions in scope are a root and what is below it.                  *)
TreeInv ==
  /\ stream.root # None => parent[stream.root] = Root
  /\ \A k \in stream.children : parent[k.sid] = k.parent /\ scope(k.parent)

(* What an event on its way says of the server is still so.                *)
EventOK(e, par, rq) ==
  /\ e.type = "created" => par[e.sid] = e.id /\ e.id \in Sessions \cup {Root}
  /\ e.type \in {"asked", "replied"} =>
       e.id \in Reqs /\ rq[e.id].fate # "none" /\ rq[e.id].sid = e.sid
  /\ e.type = "asked" => rq[e.id].hidden = e.hidden

(* What waits on the page is a request of a session in scope, and what is  *)
(* on its way to the server the answer to one.                             *)
WaitingOK(p) ==
  /\ scope(p.sid) /\ req[p.id].fate # "none" /\ req[p.id].sid = p.sid
  /\ p.id \in Perms => p.truncated = req[p.id].hidden
LineOK(q) ==
  q.op = "reply" => /\ q.id \in Reqs /\ q.outcome \in Outcomes /\ stream.seen[q.id] = "us"
                    /\ req[q.id].fate # "none"
                    /\ q.outcome = "allow" => ~req[q.id].hidden

(* A request is where the Stream's seen says.                              *)
SeenOK(r) ==
  /\ stream.seen[r] = "requested" <=> r \in held
  /\ stream.seen[r] \in {"never", "requested"} => verdict[r] = <<>>
  /\ stream.seen[r] = "agent" => verdict[r] = <<"agent">>
  /\ stream.seen[r] = "us" => \E o \in Outcomes :
       /\ verdict[r] = <<o>>
       /\ phase = "talk" => \/ req[r].fate = o
                            \/ \E j \in 1..Len(queue) : /\ queue[j].op = "reply"
                                                        /\ queue[j].id = r /\ queue[j].outcome = o

(* An event that makes the Stream give up a request: Below is Under, for   *)
(* any state of the server.                                                *)
Below(s, par) == {x \in Sessions : \A T \in SUBSET Sessions :
                    s \in T /\ (\A y \in Sessions : par[y] \in T => y \in T) => x \in T}
Kills(e, r, par, rq) ==
  \/ e.type = "replied" /\ e.id = r /\ e.sid = rq[r].sid
  \/ e.type = "ended" /\ (e.sid = rq[r].sid
                          \/ (par[e.sid] = Root /\ rq[r].sid \in Below(e.sid, par)))

(* One is on its way for what the server has given up, behind everything   *)
(* that would still make it wait.                                          *)
GhostOK(r) ==
  req[r].fate \notin {"none", "open"} /\ stream.seen[r] \in {"never", "requested"} =>
    /\ r \in held => \E j \in 1..Len(sse) : Kills(sse[j], r, parent, req)
    /\ \A i \in 1..Len(sse) : sse[i].type = "asked" /\ sse[i].id = r =>
         \E j \in 1..Len(sse) : i < j /\ Kills(sse[j], r, parent, req)

EventsInv == \A i \in 1..Len(sse) : EventOK(sse[i], parent, req)
WaitingInv == /\ \A p \in stream.pending : WaitingOK(p)
              /\ \A p, q \in stream.pending : p.id = q.id => p = q
LinesInv == \A j \in 1..Len(queue) : LineOK(queue[j])
SeenInv == \A r \in Reqs : SeenOK(r)
GhostInv == \A r \in Reqs : GhostOK(r)

OInv == /\ OType /\ Starting /\ ServerInv /\ TreeInv /\ EventsInv /\ WaitingInv
        /\ LinesInv /\ SeenInv /\ (phase # "over" => GhostInv)

-----------------------------------------------------------------------------
(* The server's side: sessions keep their parents, requests their session  *)
(* and content, and what is settled stays as it was settled.               *)

Grows ==
  /\ parent' \in [Sessions -> Sessions \cup {Root, None}] /\ req' \in [Reqs -> Requests]
  /\ \A s \in Sessions : parent[s] # None => parent'[s] = parent[s]
  /\ \A r \in Reqs :
       /\ req[r].fate # "none" => /\ req'[r].fate # "none" /\ req'[r].sid = req[r].sid
                                  /\ req'[r].hidden = req[r].hidden
       /\ req[r].fate \notin {"none", "open"} => req'[r].fate = req[r].fate
       /\ req[r].fate = "none" => req'[r].fate \in {"none", "open"}

(* A tree of sessions only grows.                                          *)
LEMMA BelowGrows ==
  ASSUME OType, Grows, NEW s \in Sessions
  PROVE  Below(s, parent) \subseteq Below(s, parent')
<1> SUFFICES ASSUME NEW x \in Below(s, parent), NEW T \in SUBSET Sessions, s \in T,
                    \A y \in Sessions : parent'[y] \in T => y \in T
             PROVE  x \in T
  BY DEF Below
<1>1. \A y \in Sessions : parent[y] \in T => y \in T
  BY OpenCodeAssumption DEF Grows
<1> QED
  BY <1>1 DEF Below

LEMMA KillsKept ==
  ASSUME OType, Grows, NEW r \in Reqs, req[r].fate # "none", NEW e \in Events,
         Kills(e, r, parent, req)
  PROVE  Kills(e, r, parent', req')
<1>1. req'[r].sid = req[r].sid
  BY DEF Grows
<1>2. e.sid \in Sessions
  BY DEF Events
<1>3. CASE e.type = "replied" /\ e.id = r /\ e.sid = req[r].sid
  BY <1>1, <1>3 DEF Kills
<1>4. CASE e.type = "ended" /\ e.sid = req[r].sid
  BY <1>1, <1>4 DEF Kills
<1>5. CASE e.type = "ended" /\ parent[e.sid] = Root /\ req[r].sid \in Below(e.sid, parent)
  <2>1. parent'[e.sid] = Root
    BY <1>2, <1>5, OpenCodeAssumption DEF Grows, Root
  <2>2. req[r].sid \in Below(e.sid, parent')
    BY <1>2, <1>5, BelowGrows
  <2> QED
    BY <1>1, <1>5, <2>1, <2>2 DEF Kills
<1> QED
  BY <1>3, <1>4, <1>5 DEF Kills

LEMMA EventKept ==
  ASSUME OType, Grows, NEW e \in Events, EventOK(e, parent, req)
  PROVE  EventOK(e, parent', req')
<1>1. e.sid \in Sessions
  BY DEF Events
<1> QED
  BY <1>1, OpenCodeAssumption DEF EventOK, Grows, Root

LEMMA LineKept ==
  ASSUME OType, Grows, UNCHANGED stream, NEW q \in Lines, LineOK(q)
  PROVE  LineOK(q)'
  BY DEF LineOK, Grows

LEMMA EmitFacts ==
  ASSUME OType, NEW ev \in Events, Emit(<<ev>>)
  PROVE  /\ sse' \in Seq(Events)
         /\ Listening => /\ Len(sse') = Len(sse) + 1 /\ sse'[Len(sse) + 1] = ev
                         /\ \A i \in 1..Len(sse) : sse'[i] = sse[i]
         /\ ~Listening => sse' = sse
  BY DEF Emit, OType

(* What a step of the server keeps of the invariant: it sends one event    *)
(* which says what the step did, and it gives up no request without one.   *)
LEMMA ServerSteps ==
  ASSUME OInv, Grows, UNCHANGED stream, NEW ev \in Events, Emit(<<ev>>), 
         EventOK(ev, parent', req'),
         phase \notin {"connect", "over"}, ev.type = "asked" => req'[ev.id].fate = "open",
         \A r \in Reqs : req[r].fate = "open" /\ req'[r].fate # "open"
                         /\ stream.seen[r] \in {"never", "requested"} => Kills(ev, r, parent', req')
  PROVE  sse' \in Seq(Events) /\ (TreeInv /\ EventsInv /\ WaitingInv /\ GhostInv)'
<1> USE DEF OInv
<1>1. sse' \in Seq(Events)
  BY EmitFacts
<1>2. TreeInv'
  BY OpenCodeAssumption DEF TreeInv, Grows, scope, OType, Streams, Root
<1>3. EventsInv'
  <2> SUFFICES ASSUME NEW i \in 1..Len(sse') PROVE EventOK(sse'[i], parent', req')
    BY DEF EventsInv
  <2>1. CASE i \in 1..Len(sse) /\ sse'[i] = sse[i]
    <3>1. sse[i] \in Events /\ EventOK(sse[i], parent, req)
      BY <2>1 DEF OType, EventsInv
    <3> QED
      BY <2>1, <3>1, EventKept
  <2>2. CASE sse'[i] = ev
    BY <2>2
  <2>3. Len(sse) \in Nat /\ Len(sse') \in Nat
    BY <1>1 DEF OType
  <2> QED
    BY <2>1, <2>2, <2>3, EmitFacts
<1>4. WaitingInv'
  BY DEF WaitingInv, WaitingOK, Grows, scope, OType, Streams, Waiting
<1>5. GhostInv'
  <2> SUFFICES ASSUME NEW r \in Reqs PROVE GhostOK(r)'
    BY DEF GhostInv
  <2> SUFFICES ASSUME req'[r].fate \notin {"none", "open"},
                      stream.seen[r] \in {"never", "requested"}
               PROVE  /\ r \in held => \E j \in 1..Len(sse') : Kills(sse'[j], r, parent', req')
                      /\ \A i \in 1..Len(sse') : sse'[i].type = "asked" /\ sse'[i].id = r =>
                           \E j \in 1..Len(sse') : i < j /\ Kills(sse'[j], r, parent', req')
    BY DEF GhostOK, held
  <2>n. Len(sse) \in Nat /\ Len(sse') \in Nat
    BY <1>1 DEF OType
  <2>f. req[r].fate # "none"
    BY DEF Grows
  <2>1. CASE ~Listening
    <3>1. phase = "ready"
      BY <2>1 DEF Listening, OType
    <3>2. sse = <<>> /\ stream.pending = {}
      BY <3>1 DEF Starting
    <3> QED
      BY <2>1, <3>2, EmitFacts DEF held
  <2>2. CASE Listening /\ req[r].fate = "open"
    <3>1. Kills(ev, r, parent', req')
      BY <2>2
    <3>2. ev.type # "asked"
      BY <3>1 DEF Kills
    <3>3. Len(sse) + 1 \in 1..Len(sse') /\ sse'[Len(sse) + 1] = ev
          /\ \A i \in 1..Len(sse') : i < Len(sse) + 1 \/ i = Len(sse) + 1
      BY <2>2, <2>n, EmitFacts
    <3>4. Kills(sse'[Len(sse) + 1], r, parent', req')
      BY <3>1, <3>3
    <3> QED
      BY <3>2, <3>3, <3>4
  <2>3. CASE Listening /\ req[r].fate # "open"
    <3>1. req'[r].fate = req[r].fate /\ GhostOK(r)
      BY <2>3, <2>f DEF Grows, GhostInv
    <3>2. \A j \in 1..Len(sse) : j \in 1..Len(sse') /\ (Kills(sse[j], r, parent, req)
                                                        => Kills(sse'[j], r, parent', req'))
      <4> SUFFICES ASSUME NEW j \in 1..Len(sse), Kills(sse[j], r, parent, req)
                   PROVE  Kills(sse'[j], r, parent', req')
        BY <2>3, <2>n, EmitFacts
      <4>1. sse[j] \in Events /\ sse'[j] = sse[j]
        BY <2>3, EmitFacts DEF OType
      <4> QED
        BY <4>1, <2>f, KillsKept
    <3>3. r \in held => \E j \in 1..Len(sse') : Kills(sse'[j], r, parent', req')
      BY <3>1, <3>2, <2>3, <2>f DEF GhostOK
    <3>4. ASSUME NEW i \in 1..Len(sse'), sse'[i].type = "asked", sse'[i].id = r
          PROVE  \E j \in 1..Len(sse') : i < j /\ Kills(sse'[j], r, parent', req')
      <4>1. i \in 1..Len(sse) /\ sse'[i] = sse[i]
        BY <2>3, <2>n, <3>4, EmitFacts
      <4>2. PICK j \in 1..Len(sse) : i < j /\ Kills(sse[j], r, parent, req)
        BY <3>1, <3>4, <4>1, <2>3, <2>f DEF GhostOK
      <4> QED
        BY <3>2, <4>2
    <3> QED
      BY <3>3, <3>4
  <2> QED
    BY <2>1, <2>2, <2>3
<1> QED
  BY <1>1, <1>2, <1>3, <1>4, <1>5

LEMMA ServerKeeps ==
  ASSUME OInv, Grows, ServerInv', UNCHANGED Conversing, NEW ev \in Events, Emit(<<ev>>),
         EventOK(ev, parent', req'), phase \notin {"connect", "over"},
         ev.type = "asked" => req'[ev.id].fate = "open",
         \A r \in Reqs : req[r].fate = "open" /\ req'[r].fate # "open" => Kills(ev, r, parent', req')
  PROVE  OInv'
<1> USE DEF OInv, Conversing
<1>1. sse' \in Seq(Events) /\ (TreeInv /\ EventsInv /\ WaitingInv /\ GhostInv)'
  BY ServerSteps
<1>2. OType'
  BY <1>1 DEF OType, Grows
<1>3. Starting'
  <2>1. phase = "ready" => sse' = sse
    BY EmitFacts DEF Listening
  <2> QED
    BY <2>1 DEF Starting
<1>4. LinesInv'
  BY DEF LinesInv, LineOK, Grows, OType, Lines
<1>5. SeenInv'
  <2> SUFFICES ASSUME NEW r \in Reqs PROVE SeenOK(r)'
    BY DEF SeenInv
  <2>1. SeenOK(r)
    BY DEF SeenInv
  <2>2. \A o \in Outcomes : req[r].fate = o => req'[r].fate = o
    BY DEF Grows, Outcomes
  <2> QED
    BY <2>1, <2>2 DEF SeenOK, held
<1> QED
  BY <1>1, <1>2, <1>3, <1>4, <1>5

LEMMA SettledFacts ==
  ASSUME OType, NEW rs \in SUBSET Reqs, NEW fate \in Outcomes \cup {"gone"},
         req' = Settled(rs, fate)
  PROVE  /\ req' \in [Reqs -> Requests]
         /\ \A r \in Reqs : IF r \in rs /\ req[r].fate = "open"
                            THEN /\ req'[r].fate = fate /\ req'[r].sid = req[r].sid
                                 /\ req'[r].hidden = req[r].hidden
                            ELSE req'[r] = req[r]
  BY DEF OType, Settled, Open, Requests

LEMMA SettledGrows ==
  ASSUME OInv, NEW rs \in SUBSET Reqs, NEW fate \in Outcomes \cup {"gone"},
         req' = Settled(rs, fate), UNCHANGED parent
  PROVE  Grows
<1>1. OType
  BY DEF OInv
<1>2. fate \notin {"none", "open"}
  BY DEF Outcomes
<1> QED
  BY <1>1, <1>2, SettledFacts DEF Grows, OType

LEMMA OtherId ==
  ASSUME NEW t, NEW s, NEW n, NEW r, NEW h
  PROVE  [[type |-> t, sid |-> s, id |-> n, hidden |-> h] EXCEPT !.id = r]
           = [type |-> t, sid |-> s, id |-> r, hidden |-> h]
  OBVIOUS

LEMMA EventTo ==
  ASSUME NEW t, NEW s, NEW r
  PROVE  [Event(t, s, None) EXCEPT !.id = r] = Event(t, s, r)
<1> DEFINE no == FALSE
<1>1. Event(t, s, None) = [type |-> t, sid |-> s, id |-> None, hidden |-> no]
      /\ Event(t, s, r) = [type |-> t, sid |-> s, id |-> r, hidden |-> no]
  BY DEF Event
<1> HIDE DEF no
<1> QED
  BY <1>1, OtherId

LEMMA EventTypes ==
  ASSUME NEW t \in {"created", "asked", "replied", "ended"}, NEW s \in Sessions,
         NEW r \in Sessions \cup Reqs \cup {Root, None}, NEW h \in BOOLEAN
  PROVE  /\ Event(t, s, r) \in Events
         /\ [type |-> t, sid |-> s, id |-> r, hidden |-> h] \in Events
         /\ [Event(t, s, r) EXCEPT !.hidden = h]
              = [type |-> t, sid |-> s, id |-> r, hidden |-> h]
<1>1. /\ Event(t, s, r) \in Events
      /\ [type |-> t, sid |-> s, id |-> r, hidden |-> h] \in Events
  BY DEF Event, Events
<1>2. [Event(t, s, r) EXCEPT !.hidden = h] = [type |-> t, sid |-> s, id |-> r, hidden |-> h]
  BY DEF Event
<1> QED
  BY <1>1, <1>2

LEMMA NewSessionKeeps ==
  ASSUME OInv, NEW s \in Sessions, NEW p \in Sessions \cup {Root}, NewSession(s, p),
         phase \notin {"connect", "over"}
  PROVE  OInv'
<1> DEFINE ev == Event("created", s, p)
<1>1. ev \in Events /\ Emit(<<ev>>)
  <2>1. [Event("created", s, None) EXCEPT !.id = p] = ev
    BY EventTo
  <2>2. ev \in Events
    BY EventTypes
  <2> QED
    BY <2>1, <2>2 DEF NewSession
<1>2. Grows
  BY DEF OInv, OType, NewSession, Grows
<1>3. EventOK(ev, parent', req')
  BY DEF OInv, OType, NewSession, EventOK, Event
<1>4. ServerInv'
  BY DEF OInv, NewSession, ServerInv
<1>5. UNCHANGED <<req, Conversing>> /\ ev.type = "created"
  BY DEF NewSession, Event
<1> QED
  BY <1>1, <1>2, <1>3, <1>4, <1>5, ServerKeeps

LEMMA AskKeeps ==
  ASSUME OInv, NEW s \in Sessions, NEW r \in Reqs, NEW h \in BOOLEAN, Ask(r, s, h),
         phase \notin {"connect", "over"}
  PROVE  OInv'
<1> DEFINE ev == [type |-> "asked", sid |-> s, id |-> r, hidden |-> h]
<1>1. ev \in Events /\ Emit(<<ev>>)
  BY EventTypes DEF Ask
<1>2. /\ req[r].fate = "none" /\ req' \in [Reqs -> Requests] /\ UNCHANGED <<parent, Conversing>>
      /\ req'[r] = [sid |-> s, hidden |-> h, fate |-> "open"]
      /\ \A x \in Reqs : x # r => req'[x] = req[x]
  BY DEF OInv, OType, Ask, Unasked, Requests
<1>3. Grows
  <2>1. parent' \in [Sessions -> Sessions \cup {Root, None}] /\ parent' = parent
    BY <1>2 DEF OInv, OType
  <2> QED
    BY <1>2, <2>1 DEF Grows
<1>4. EventOK(ev, parent', req')
  BY <1>2 DEF EventOK
<1>5. ServerInv'
  BY <1>2 DEF OInv, ServerInv
<1>6. \A x \in Reqs : req[x].fate = "open" => req'[x].fate = "open"
  BY <1>2
<1>7. req'[ev.id].fate = "open"
  BY <1>2
<1> HIDE DEF ev
<1> QED
  BY <1>1, <1>2, <1>3, <1>4, <1>5, <1>6, <1>7, ServerKeeps

LEMMA AskAgainKeeps ==
  ASSUME OInv, NEW r \in Reqs, AskAgain(r), phase \notin {"connect", "over"}
  PROVE  OInv'
<1> DEFINE ev == [type |-> "asked", sid |-> req[r].sid, id |-> r, hidden |-> req[r].hidden]
<1>1. /\ req[r].fate = "open" /\ req[r].sid \in Sessions /\ req[r].hidden \in BOOLEAN
      /\ UNCHANGED <<parent, req, Conversing>>
  BY DEF OInv, OType, ServerInv, AskAgain, Open, Requests
<1>2. ev \in Events /\ Emit(<<ev>>)
  BY <1>1, EventTypes DEF AskAgain
<1>3. Grows
  BY <1>1 DEF OInv, OType, Grows
<1>4. EventOK(ev, parent', req') /\ req'[ev.id].fate = "open"
  BY <1>1 DEF EventOK
<1>5. ServerInv'
  BY <1>1 DEF OInv, ServerInv
<1> HIDE DEF ev
<1> QED
  BY <1>1, <1>2, <1>3, <1>4, <1>5, ServerKeeps

(* Whoever settles a request, its event says so.                           *)
LEMMA RepliedKills ==
  ASSUME OInv, NEW r \in Reqs, req[r].fate = "open", NEW fate \in Outcomes \cup {"gone"},
         req' = Settled({r}, fate), UNCHANGED parent
  PROVE  /\ Event("replied", req[r].sid, r) \in Events
         /\ EventOK(Event("replied", req[r].sid, r), parent', req')
         /\ \A x \in Reqs : req[x].fate = "open" /\ req'[x].fate # "open"
              => Kills(Event("replied", req[r].sid, r), x, parent', req')
<1>1. OType /\ req[r].sid \in Sessions
  BY DEF OInv, ServerInv
<1>2. {r} \in SUBSET Reqs /\ fate # "none"
  BY DEF Outcomes
<1>3. /\ req'[r].sid = req[r].sid /\ req'[r].fate = fate
      /\ \A x \in Reqs : x # r => req'[x] = req[x]
  BY <1>1, <1>2, SettledFacts
<1> QED
  BY <1>1, <1>2, <1>3, EventTypes DEF Event, EventOK, Kills

LEMMA OtherAnswersKeeps ==
  ASSUME OInv, NEW r \in Reqs, OtherAnswers(r), phase \notin {"connect", "over"}
  PROVE  OInv'
<1>1. /\ req[r].fate = "open" /\ req' = Settled({r}, "gone") /\ UNCHANGED <<parent, Conversing>>
      /\ Emit(<<Event("replied", req[r].sid, r)>>) /\ {r} \in SUBSET Reqs
  BY DEF OtherAnswers, Open
<1>2. Grows
  BY <1>1, SettledGrows
<1>3. ServerInv'
  <2>1. OType /\ ServerInv
    BY DEF OInv
  <2> QED
    BY <1>1, <2>1, SettledFacts DEF ServerInv
<1>4. Event("replied", req[r].sid, r).type = "replied"
  BY DEF Event
<1> QED
  BY <1>1, <1>2, <1>3, <1>4, RepliedKills, ServerKeeps

(* The end of an execution is the event of every request it takes.         *)
LEMMA EndsKills ==
  ASSUME OInv, NEW s \in Sessions, Ends(s), UNCHANGED parent
  PROVE  /\ Grows /\ ServerInv' /\ Event("ended", s, None) \in Events
         /\ Emit(<<Event("ended", s, None)>>)
         /\ EventOK(Event("ended", s, None), parent', req')
         /\ \A x \in Reqs : req[x].fate = "open" /\ req'[x].fate # "open"
              => Kills(Event("ended", s, None), x, parent', req')
<1> DEFINE rs == {r \in Reqs : req[r].sid \in Tree(s)}
<1>1. OType /\ rs \in SUBSET Reqs /\ req' = Settled(rs, "gone")
  BY DEF OInv, Ends
<1> HIDE DEF rs
<1>2. Grows
  BY <1>1, SettledGrows
<1>3. ServerInv'
  <2>1. ServerInv
    BY DEF OInv
  <2>2. \A r \in Reqs : /\ req'[r].sid = req[r].sid /\ req'[r].hidden = req[r].hidden
                        /\ req'[r].fate = req[r].fate \/ (req[r].fate = "open" /\ req'[r].fate = "gone")
    BY <1>1, SettledFacts
  <2> QED
    BY <2>1, <2>2 DEF ServerInv
<1>4. Event("ended", s, None) \in Events /\ Emit(<<Event("ended", s, None)>>)
  BY EventTypes DEF Ends
<1>5. EventOK(Event("ended", s, None), parent', req')
  BY DEF EventOK, Event
<1>6. ASSUME NEW x \in Reqs, req[x].fate = "open", req'[x].fate # "open"
      PROVE  Kills(Event("ended", s, None), x, parent', req')
  <2>1. x \in rs /\ req'[x].sid = req[x].sid
    BY <1>1, <1>6, SettledFacts
  <2>2. req[x].sid \in Tree(s)
    BY <2>1 DEF rs
  <2>3. \/ req[x].sid = s
        \/ parent[s] = Root /\ req[x].sid \in Below(s, parent)
    BY <2>2 DEF Tree, Under, Below
  <2> QED
    BY <2>1, <2>3 DEF Kills, Event
<1> QED
  BY <1>2, <1>3, <1>4, <1>5, <1>6

LEMMA ExecutionEndsKeeps ==
  ASSUME OInv, NEW s \in Sessions, ExecutionEnds(s), phase \notin {"connect", "over"}
  PROVE  OInv'
<1>1. Ends(s) /\ UNCHANGED <<parent, Conversing>>
  BY DEF ExecutionEnds
<1>2. Event("ended", s, None).type = "ended"
  BY DEF Event
<1> QED
  BY <1>1, <1>2, EndsKills, ServerKeeps

-----------------------------------------------------------------------------
(* The start and the end of the transport.                                 *)

LEMMA StartKeeps ==
  ASSUME OInv, readReadyLine \/ openEventStream
  PROVE  OInv'
<1> USE DEF OInv, readReadyLine, openEventStream, Serving
<1>1. UNCHANGED <<parent, req, sse, created, stream, queue, verdict>>
  OBVIOUS
<1>2. OType' /\ Starting' /\ ServerInv' /\ TreeInv' /\ EventsInv' /\ WaitingInv' /\ LinesInv'
  BY <1>1 DEF OType, Starting, ServerInv, TreeInv, EventsInv, WaitingInv, WaitingOK, LinesInv,
              LineOK, scope
<1>3. SeenInv'
  BY <1>1 DEF SeenInv, SeenOK, held
<1>4. GhostInv'
  BY <1>1 DEF GhostInv, GhostOK, held
<1> QED
  BY <1>2, <1>3, <1>4

LEMMA createSessionKeeps ==
  ASSUME OInv, createSession
  PROVE  OInv'
<1> USE DEF OInv
<1>1. PICK s \in Sessions :
        /\ parent[s] = None /\ created' = s /\ parent' = [parent EXCEPT ![s] = Root]
        /\ Emit(<<[Event("created", s, None) EXCEPT !.id = Root]>>)
  BY DEF createSession
<1> DEFINE ev == Event("created", s, Root)
<1>2. phase = "open" /\ phase' = "root" /\ UNCHANGED <<req, stream, queue, verdict>>
  BY DEF createSession
<1>3. ev \in Events /\ Emit(<<ev>>)
  <2>1. [Event("created", s, None) EXCEPT !.id = Root] = ev
    BY EventTo
  <2>2. ev \in Events
    BY EventTypes
  <2> QED
    BY <1>1, <2>1, <2>2
<1>4. Grows
  BY <1>1, <1>2 DEF OType, Grows
<1>5. EventOK(ev, parent', req') /\ ev.type = "created"
  BY <1>1 DEF OType, EventOK, Event
<1>6. sse' \in Seq(Events) /\ (TreeInv /\ EventsInv /\ WaitingInv /\ GhostInv)'
  <2> HIDE DEF ev
  <2> QED
    BY <1>2, <1>3, <1>4, <1>5, ServerSteps
<1>7. OType' /\ Starting' /\ ServerInv'
  BY <1>1, <1>2, <1>4, <1>6 DEF OType, Starting, ServerInv, Grows
<1>8. LinesInv' /\ SeenInv'
  BY <1>2 DEF LinesInv, LineOK, SeenInv, SeenOK, held
<1> QED
  BY <1>6, <1>7, <1>8

LEMMA OverKeeps ==
  ASSUME OInv, Over
  PROVE  OInv'
<1> USE DEF OInv, Over, Serving
<1>1. /\ UNCHANGED <<parent, req, created, stream, verdict>> /\ phase' = "over"
      /\ sse' = <<>> /\ queue' = <<>>
  OBVIOUS
<1>2. OType' /\ Starting' /\ ServerInv' /\ TreeInv' /\ EventsInv' /\ WaitingInv' /\ LinesInv'
  BY <1>1 DEF OType, Starting, ServerInv, TreeInv, EventsInv, WaitingInv, WaitingOK, LinesInv,
              LineOK, scope
<1>3. SeenInv'
  BY <1>1 DEF SeenInv, SeenOK, held
<1> QED
  BY <1>1, <1>2, <1>3

-----------------------------------------------------------------------------
(* Commands of the page.                                                   *)

LEMMA CommandKeeps ==
  ASSUME OInv, NEW op \in {"prompt", "interrupt"}, Command(op)
  PROVE  OInv'
<1> USE DEF OInv
<1> DEFINE q == [op |-> op, sid |-> stream.root, id |-> None, outcome |-> None]
<1>1. /\ UNCHANGED <<parent, req, sse, phase, created, stream, verdict>> /\ phase = "talk"
      /\ queue' = Append(queue, q)
  BY DEF Command, Serving
<1>2. q \in Lines /\ q.op # "reply"
  BY DEF OType, Streams, Lines
<1> HIDE DEF q
<1>3. /\ Len(queue') = Len(queue) + 1 /\ queue'[Len(queue) + 1] = q /\ queue' \in Seq(Lines)
      /\ \A j \in 1..Len(queue) : queue'[j] = queue[j] /\ j \in 1..Len(queue')
      /\ \A j \in 1..Len(queue') : j \in 1..Len(queue) \/ j = Len(queue) + 1
  BY <1>1, <1>2 DEF OType
<1>4. OType' /\ Starting' /\ ServerInv' /\ TreeInv' /\ EventsInv' /\ WaitingInv'
  BY <1>1, <1>3 DEF OType, Starting, ServerInv, TreeInv, EventsInv, WaitingInv, WaitingOK, scope
<1>5. LinesInv'
  BY <1>1, <1>2, <1>3 DEF LinesInv, LineOK
<1>6. SeenInv'
  BY <1>1, <1>3 DEF SeenInv, SeenOK, held
<1>7. GhostInv'
  BY <1>1 DEF GhostInv, GhostOK, held
<1> QED
  BY <1>4, <1>5, <1>6, <1>7

LEMMA HeldFacts ==
  ASSUME OInv, NEW r \in held
  PROVE  Held(r) \in stream.pending /\ Held(r).id = r
  BY DEF held, Held

LEMMA AnswerKeeps ==
  ASSUME OInv, NEW r \in Reqs, NEW o \in Outcomes, r \in held, phase = "talk",
         r \in Perms => (o = "allow" => ~Held(r).truncated), r \in Forms => o # "allow",
         Answer(r, o)
  PROVE  OInv'
<1> USE DEF OInv
<1>1. PICK p \in stream.pending : p = Held(r) /\ p.id = r
  BY HeldFacts
<1> DEFINE q == [op |-> "reply", sid |-> p.sid, id |-> r, outcome |-> o]
<1>2. /\ UNCHANGED <<parent, req, sse, phase, created>>
      /\ queue' = Append(queue, q)
      /\ stream' = [stream EXCEPT !.pending = Without({r}), !.seen = Seen({r}, "us")]
      /\ verdict' = [verdict EXCEPT ![r] = Append(@, o)]
  BY <1>1 DEF Answer, Serving
<1>3. p \in Waiting /\ WaitingOK(p)
  BY DEF OType, Streams, WaitingInv
<1>4. /\ stream' \in Streams /\ UNCHANGED <<stream.root, stream.children>>
      /\ stream'.pending = {x \in stream.pending : x.id # r}
      /\ stream'.seen[r] = "us"
      /\ \A x \in Reqs : x # r => stream'.seen[x] = stream.seen[x]
  BY <1>2 DEF OType, Streams, Without, Seen
<1>5. held' = held \ {r}
  BY <1>4 DEF held
<1>6. q \in Lines /\ q.op = "reply" /\ q.id = r /\ q.outcome = o
  BY <1>3 DEF Lines, Waiting
<1>7. req[r].fate # "none" /\ (o = "allow" => ~req[r].hidden)
  <2>1. req[r].fate # "none" /\ (r \in Perms => p.truncated = req[r].hidden)
    BY <1>1, <1>3 DEF WaitingOK
  <2> QED
    BY <1>1, <2>1 DEF Reqs
<1> HIDE DEF q
<1>8. /\ Len(queue') = Len(queue) + 1 /\ queue'[Len(queue) + 1] = q /\ queue' \in Seq(Lines)
      /\ \A j \in 1..Len(queue) : queue'[j] = queue[j] /\ j \in 1..Len(queue')
      /\ \A j \in 1..Len(queue') : j \in 1..Len(queue) \/ j = Len(queue) + 1
      /\ Len(queue) + 1 \in 1..Len(queue')
  BY <1>2, <1>6 DEF OType
<1>9. SeenOK(r) /\ stream.seen[r] = "requested"
  BY DEF SeenInv, SeenOK
<1>10. /\ verdict' \in [Reqs -> Seq(Outcomes \cup {"agent"})] /\ verdict'[r] = <<o>>
       /\ \A x \in Reqs : x # r => verdict'[x] = verdict[x]
  <2>1. verdict[r] = <<>>
    BY <1>9 DEF SeenOK
  <2> QED
    BY <1>2, <2>1 DEF OType
<1>11. OType' /\ ServerInv' /\ EventsInv'
  BY <1>2, <1>4, <1>8, <1>10 DEF OType, ServerInv, EventsInv
<1>12. Starting' /\ TreeInv' /\ WaitingInv'
  BY <1>2, <1>4 DEF Starting, TreeInv, WaitingInv, WaitingOK, scope
<1>13. LinesInv'
  <2>1. ASSUME NEW x \in Lines, LineOK(x) PROVE LineOK(x)'
    BY <2>1, <1>2, <1>4 DEF LineOK
  <2>2. LineOK(q)'
    BY <1>2, <1>4, <1>6, <1>7 DEF LineOK
  <2> SUFFICES ASSUME NEW j \in 1..Len(queue'), NEW x, x = queue'[j] PROVE LineOK(x)'
    BY DEF LinesInv, LineOK
  <2>3. CASE j \in 1..Len(queue)
    <3>1. x = queue[j] /\ x \in Lines /\ LineOK(queue[j])
      BY <2>3, <1>8 DEF OType, LinesInv
    <3> QED
      BY <2>1, <3>1
  <2>4. CASE j = Len(queue) + 1
    BY <2>2, <2>4, <1>8 DEF LineOK
  <2> QED
    BY <2>3, <2>4, <1>8
<1>14. SeenInv'
  <2> SUFFICES ASSUME NEW x \in Reqs PROVE SeenOK(x)'
    BY DEF SeenInv
  <2>1. CASE x = r
    <3>1. verdict'[x] = <<o>> /\ stream'.seen[x] = "us" /\ x \notin held'
      BY <2>1, <1>4, <1>5, <1>10
    <3>2. \E j \in 1..Len(queue') : queue'[j].op = "reply" /\ queue'[j].id = x
                                    /\ queue'[j].outcome = o
      BY <2>1, <1>6, <1>8
    <3> QED
      BY <3>1, <3>2 DEF SeenOK
  <2>2. CASE x # r
    <3>1. verdict'[x] = verdict[x] /\ stream'.seen[x] = stream.seen[x]
          /\ (x \in held' <=> x \in held) /\ SeenOK(x)
      BY <2>2, <1>4, <1>5, <1>10 DEF SeenInv
    <3> QED
      BY <3>1, <1>2, <1>8 DEF SeenOK
  <2> QED
    BY <2>1, <2>2
<1>15. GhostInv'
  <2> SUFFICES ASSUME NEW x \in Reqs PROVE GhostOK(x)'
    BY DEF GhostInv
  <2>1. CASE x = r
    BY <2>1, <1>4 DEF GhostOK
  <2>2. CASE x # r
    <3>1. stream'.seen[x] = stream.seen[x] /\ (x \in held' <=> x \in held) /\ GhostOK(x)
      BY <2>2, <1>4, <1>5 DEF GhostInv
    <3> QED
      BY <3>1, <1>2 DEF GhostOK
  <2> QED
    BY <2>1, <2>2
<1> QED
  BY <1>11, <1>12, <1>13, <1>14, <1>15

(* The line at the head of the queue is written, or refused.               *)
LEMMA WritesLine ==
  ASSUME OInv, Grows, queue # <<>>, queue' = Tail(queue), phase = "talk", phase' \in {"talk", "over"},
         UNCHANGED <<created, stream, verdict>>, sse' \in Seq(Events),
         (ServerInv /\ TreeInv /\ EventsInv /\ WaitingInv /\ (phase # "over" => GhostInv))',
         Head(queue).op = "reply" /\ phase' = "talk"
           => req'[Head(queue).id].fate = Head(queue).outcome
  PROVE  OInv'
<1> USE DEF OInv
<1>1. /\ queue' \in Seq(Lines) /\ Len(queue) \in Nat /\ Len(queue') = Len(queue) - 1
      /\ \A j \in 1..Len(queue') : queue'[j] = queue[j + 1] /\ j + 1 \in 1..Len(queue)
      /\ \A j \in 1..Len(queue) : j = 1 \/ (j - 1 \in 1..Len(queue') /\ queue'[j - 1] = queue[j])
      /\ Head(queue) = queue[1]
  BY DEF OType
<1>2. OType' /\ Starting'
  BY <1>1 DEF OType, Starting, Grows
<1>3. LinesInv'
  <2> SUFFICES ASSUME NEW j \in 1..Len(queue'), NEW q, q = queue'[j] PROVE LineOK(q)'
    BY DEF LinesInv, LineOK
  <2>1. q = queue[j + 1] /\ j + 1 \in 1..Len(queue)
    BY <1>1
  <2>2. q \in Lines /\ LineOK(q)
    BY <2>1 DEF OType, LinesInv
  <2> QED
    BY <2>2, LineKept
<1>4. SeenInv'
  <2> SUFFICES ASSUME NEW r \in Reqs PROVE SeenOK(r)'
    BY DEF SeenInv
  <2>1. SeenOK(r)
    BY DEF SeenInv
  <2>2. \A o \in Outcomes : req[r].fate = o => req'[r].fate = o
    BY DEF Grows, Outcomes
  <2>3. ASSUME NEW o \in Outcomes, phase' = "talk", NEW j \in 1..Len(queue),
               queue[j].op = "reply", queue[j].id = r, queue[j].outcome = o
        PROVE  \/ req'[r].fate = o
               \/ \E k \in 1..Len(queue') : queue'[k].op = "reply" /\ queue'[k].id = r
                                            /\ queue'[k].outcome = o
    BY <2>3, <1>1
  <2>4. ASSUME stream.seen[r] = "us"
        PROVE  \E o \in Outcomes :
                 /\ verdict'[r] = <<o>>
                 /\ phase' = "talk" => \/ req'[r].fate = o
                                       \/ \E k \in 1..Len(queue') :
                                            /\ queue'[k].op = "reply"
                                            /\ queue'[k].id = r /\ queue'[k].outcome = o
    <3>1. PICK o \in Outcomes :
                 /\ verdict[r] = <<o>>
                 /\ \/ req[r].fate = o
                    \/ \E j \in 1..Len(queue) : /\ queue[j].op = "reply"
                                                /\ queue[j].id = r /\ queue[j].outcome = o
      BY <2>1, <2>4 DEF SeenOK
    <3> QED
      BY <3>1, <2>2, <2>3
  <2> QED
    BY <2>1, <2>4 DEF SeenOK, held
<1> QED
  BY <1>2, <1>3, <1>4

LEMMA WriteKeeps ==
  ASSUME OInv, Write
  PROVE  OInv'
<1> USE DEF OInv
<1>1. /\ phase = "talk" /\ queue # <<>> /\ queue' = Tail(queue)
      /\ UNCHANGED <<parent, created, stream, verdict>>
  BY DEF Write
<1>2. PICK q \in Lines : q = Head(queue) /\ LineOK(q)
  BY <1>1 DEF OType, LinesInv
<1>3. CASE phase' = "over" /\ UNCHANGED <<req, sse>>
  <2>1. Grows
    BY <1>1, <1>3 DEF Grows, OType
  <2>2. sse' \in Seq(Events) /\ (ServerInv /\ TreeInv /\ EventsInv /\ WaitingInv)'
    BY <1>1, <1>3 DEF OType, ServerInv, TreeInv, EventsInv, WaitingInv, WaitingOK, scope
  <2> QED
    BY <1>1, <1>3, <2>1, <2>2, WritesLine
<1>4. CASE ParseHTTPRequest(q) /\ Takes(q) /\ Apply(q) /\ UNCHANGED phase
  <2>1. q.sid \in Sessions /\ q.op \in {"prompt", "interrupt", "reply"}
    BY <1>4 DEF ParseHTTPRequest, allowedRoute
  <2>2. CASE q.op = "prompt"
    <3>1. UNCHANGED <<req, sse>>
      BY <1>4, <2>2 DEF Apply
    <3>2. Grows
      BY <1>1, <3>1 DEF Grows, OType
    <3>3. /\ sse' \in Seq(Events)
          /\ (ServerInv /\ TreeInv /\ EventsInv /\ WaitingInv /\ GhostInv)'
      BY <1>1, <3>1 DEF OType, ServerInv, TreeInv, EventsInv, WaitingInv, WaitingOK, scope,
                        GhostInv, GhostOK, held
    <3> QED
      BY <1>1, <1>2, <1>4, <2>2, <3>2, <3>3, WritesLine
  <2>3. CASE q.op = "interrupt"
    <3>1. Ends(q.sid)
      BY <1>4, <2>3 DEF Apply
    <3> DEFINE ev == Event("ended", q.sid, None)
    <3>2. /\ Grows /\ ServerInv' /\ ev \in Events /\ Emit(<<ev>>) /\ EventOK(ev, parent', req')
          /\ \A x \in Reqs : req[x].fate = "open" /\ req'[x].fate # "open"
               => Kills(ev, x, parent', req')
      BY <1>1, <2>1, <3>1, EndsKills
    <3>3. ev.type = "ended"
      BY DEF Event
    <3> HIDE DEF ev
    <3>4. sse' \in Seq(Events) /\ (TreeInv /\ EventsInv /\ WaitingInv /\ GhostInv)'
      BY <1>1, <3>2, <3>3, ServerSteps
    <3> QED
      BY <1>1, <1>2, <1>4, <2>3, <3>2, <3>4, WritesLine
  <2>4. CASE q.op = "reply"
    <3>1. /\ q.id \in Reqs /\ q.outcome \in Outcomes /\ req[q.id].fate = "open"
          /\ req[q.id].sid = q.sid /\ req' = Settled({q.id}, q.outcome)
          /\ Emit(<<Event("replied", q.sid, q.id)>>)
          /\ q.outcome = "allow" => ~req[q.id].hidden
      BY <1>2, <1>4, <2>4 DEF Apply, Takes, LineOK, Open
    <3> DEFINE ev == Event("replied", q.sid, q.id)
    <3>2. /\ ev \in Events /\ Emit(<<ev>>) /\ EventOK(ev, parent', req')
          /\ \A x \in Reqs : req[x].fate = "open" /\ req'[x].fate # "open"
               => Kills(ev, x, parent', req')
      BY <1>1, <3>1, RepliedKills
    <3>3. ev.type = "replied"
      BY DEF Event
    <3> HIDE DEF ev
    <3>4. Grows
      BY <1>1, <3>1, SettledGrows
    <3>5. sse' \in Seq(Events) /\ (TreeInv /\ EventsInv /\ WaitingInv /\ GhostInv)'
      BY <1>1, <3>2, <3>3, <3>4, ServerSteps
    <3>6. /\ req'[q.id].fate = q.outcome /\ req'[q.id].hidden = req[q.id].hidden
          /\ req'[q.id].sid = req[q.id].sid
          /\ \A x \in Reqs : x # q.id => req'[x] = req[x]
      BY <3>1, SettledFacts
    <3>7. ServerInv'
      BY <3>1, <3>6 DEF ServerInv
    <3> QED
      BY <1>1, <1>2, <1>4, <3>4, <3>5, <3>6, <3>7, WritesLine
  <2> QED
    BY <2>1, <2>2, <2>3, <2>4
<1> QED
  BY <1>1, <1>2, <1>3, <1>4 DEF Write, Refused

-----------------------------------------------------------------------------
(* The Stream reads the oldest event.                                      *)

Reads == /\ sse # <<>> /\ sse' = Tail(sse)
         /\ UNCHANGED <<parent, req, created, queue>>

LEMMA ReadFacts ==
  ASSUME OInv, Reads
  PROVE  /\ sse' \in Seq(Events) /\ Len(sse) \in Nat /\ Len(sse') = Len(sse) - 1
         /\ \A i \in 1..Len(sse') : sse'[i] = sse[i + 1] /\ i + 1 \in 1..Len(sse)
         /\ \A i \in 1..Len(sse) : i = 1 \/ (i - 1 \in 1..Len(sse') /\ sse'[i - 1] = sse[i])
         /\ 1 \in 1..Len(sse) /\ Head(sse) = sse[1] /\ Head(sse) \in Events
         /\ EventOK(Head(sse), parent, req)
         /\ EventsInv'
<1>1. sse \in Seq(Events) /\ sse # <<>> /\ sse' = Tail(sse)
  BY DEF OInv, OType, Reads
<1>2. /\ sse' \in Seq(Events) /\ Len(sse) \in Nat /\ Len(sse') = Len(sse) - 1
      /\ \A i \in 1..Len(sse') : sse'[i] = sse[i + 1] /\ i + 1 \in 1..Len(sse)
      /\ \A i \in 1..Len(sse) : i = 1 \/ (i - 1 \in 1..Len(sse') /\ sse'[i - 1] = sse[i])
      /\ 1 \in 1..Len(sse) /\ Head(sse) = sse[1] /\ Head(sse) \in Events
  BY <1>1
<1>3. EventOK(Head(sse), parent, req)
  BY <1>2 DEF OInv, EventsInv
<1>4. EventsInv'
  BY <1>2 DEF OInv, EventsInv, Reads
<1> QED
  BY <1>2, <1>3, <1>4

(* What was behind an event is still on its way when it is read.           *)
LEMMA GhostsBehind ==
  ASSUME OInv, Reads, NEW r \in Reqs, GhostOK(r),
         stream'.seen[r] \in {"never", "requested"} =>
           /\ stream.seen[r] \in {"never", "requested"}
           /\ r \in held' => \/ r \in held /\ ~Kills(Head(sse), r, parent, req)
                             \/ Head(sse).type = "asked" /\ Head(sse).id = r
  PROVE  GhostOK(r)'
<1> SUFFICES ASSUME req[r].fate \notin {"none", "open"},
                    stream'.seen[r] \in {"never", "requested"}
             PROVE  /\ r \in held' => \E j \in 1..Len(sse') : Kills(sse'[j], r, parent, req)
                    /\ \A i \in 1..Len(sse') : sse'[i].type = "asked" /\ sse'[i].id = r =>
                         \E j \in 1..Len(sse') : i < j /\ Kills(sse'[j], r, parent, req)
  BY DEF GhostOK, Reads
<1>1. /\ r \in held => \E j \in 1..Len(sse) : Kills(sse[j], r, parent, req)
      /\ \A i \in 1..Len(sse) : sse[i].type = "asked" /\ sse[i].id = r =>
           \E j \in 1..Len(sse) : i < j /\ Kills(sse[j], r, parent, req)
  BY DEF GhostOK
<1>2. ASSUME r \in held' PROVE \E j \in 1..Len(sse') : Kills(sse'[j], r, parent, req)
  <2>1. PICK j \in 1..Len(sse) : j # 1 /\ Kills(sse[j], r, parent, req)
    BY <1>1, <1>2, ReadFacts
  <2> QED
    BY <2>1, ReadFacts
<1>3. ASSUME NEW i \in 1..Len(sse'), sse'[i].type = "asked", sse'[i].id = r
      PROVE  \E j \in 1..Len(sse') : i < j /\ Kills(sse'[j], r, parent, req)
  <2>1. i + 1 \in 1..Len(sse) /\ sse[i + 1] = sse'[i]
    BY ReadFacts
  <2>2. PICK j \in 1..Len(sse) : i + 1 < j /\ Kills(sse[j], r, parent, req)
    BY <1>1, <1>3, <2>1
  <2>3. j - 1 \in 1..Len(sse') /\ sse'[j - 1] = sse[j] /\ i < j - 1
    BY <2>2, ReadFacts
  <2> QED
    BY <2>2, <2>3
<1> QED
  BY <1>2, <1>3

(* The event changes nothing.                                              *)
LEMMA IgnoredKeeps ==
  ASSUME OInv, Reads, UNCHANGED <<stream, verdict>>, phase \in {"root", "talk"},
         phase' \in {phase, "over"}, \A r \in held : ~Kills(Head(sse), r, parent, req)
  PROVE  OInv'
<1> USE DEF OInv
<1>1. UNCHANGED <<parent, req, created, queue>>
  BY DEF Reads
<1>2. OType' /\ Starting' /\ EventsInv'
  BY <1>1, ReadFacts DEF OType, Starting
<1>3. ServerInv' /\ TreeInv' /\ WaitingInv' /\ LinesInv'
  BY <1>1 DEF ServerInv, TreeInv, WaitingInv, WaitingOK, LinesInv, LineOK, scope
<1>4. SeenInv'
  BY <1>1 DEF SeenInv, SeenOK, held
<1>5. GhostInv'
  <2> SUFFICES ASSUME NEW r \in Reqs PROVE GhostOK(r)'
    BY DEF GhostInv
  <2>1. GhostOK(r) /\ held' = held
    BY DEF GhostInv, held
  <2> QED
    BY <2>1, GhostsBehind
<1> QED
  BY <1>2, <1>3, <1>4, <1>5

(* A session comes into scope: the root, or a child of what is in scope.   *)
LEMMA ScopeKeeps ==
  ASSUME OInv, Reads, NEW root \in Sessions, NEW kids \in SUBSET [sid : Sessions, parent : Sessions],
         stream' = [stream EXCEPT !.root = root, !.children = kids], UNCHANGED verdict,
         stream.children \subseteq kids, stream.root \in {None, root}, parent[root] = Root,
         \A k \in kids : /\ parent[k.sid] = k.parent
                         /\ k.parent = root \/ k.parent \in {c.sid : c \in kids},
         phase \in {"root", "talk"}, phase' = "talk",
         Head(sse).type = "created"
  PROVE  OInv'
<1> USE DEF OInv
<1>1. UNCHANGED <<parent, req, created, queue>>
  BY DEF Reads
<1>2. /\ stream' \in Streams /\ stream'.root = root /\ stream'.children = kids
      /\ stream'.pending = stream.pending /\ stream'.seen = stream.seen
  BY DEF OType, Streams
<1>3. OType' /\ Starting' /\ EventsInv'
  BY <1>1, <1>2, ReadFacts DEF OType, Starting
<1>4. ServerInv' /\ LinesInv'
  BY <1>1, <1>2 DEF ServerInv, LinesInv, LineOK
<1>5. TreeInv'
  BY <1>1, <1>2 DEF TreeInv, scope
<1>6. WaitingInv'
  <2>1. ASSUME NEW p \in stream.pending PROVE WaitingOK(p)'
    <3>1. WaitingOK(p) /\ p.sid \in Sessions
      BY DEF WaitingInv, OType, Streams, Waiting
    <3>2. scope(p.sid)'
      BY <1>2, <3>1, OpenCodeAssumption DEF WaitingOK, scope
    <3> QED
      BY <1>1, <3>1, <3>2 DEF WaitingOK
  <2> QED
    BY <1>2, <2>1 DEF WaitingInv
<1>7. SeenInv'
  <2> SUFFICES ASSUME NEW r \in Reqs PROVE SeenOK(r)'
    BY DEF SeenInv
  <2>1. CASE phase = "talk"
    BY <1>1, <1>2, <2>1 DEF SeenInv, SeenOK, held
  <2>2. CASE phase = "root"
    <3>1. stream.seen[r] = "never" /\ stream.pending = {}
      BY <2>2 DEF Starting
    <3> QED
      BY <1>1, <1>2, <3>1 DEF SeenInv, SeenOK, held
  <2> QED
    BY <2>1, <2>2
<1>8. GhostInv'
  <2> SUFFICES ASSUME NEW r \in Reqs PROVE GhostOK(r)'
    BY DEF GhostInv
  <2>1. GhostOK(r) /\ held' = held /\ stream'.seen[r] = stream.seen[r]
    BY <1>2 DEF GhostInv, held
  <2>2. ~Kills(Head(sse), r, parent, req)
    BY DEF Kills
  <2> QED
    BY <2>1, <2>2, GhostsBehind
<1> QED
  BY <1>3, <1>4, <1>5, <1>6, <1>7, <1>8

(* A request is held.                                                      *)
LEMMA HoldsKeeps ==
  ASSUME OInv, Reads, phase = "talk", UNCHANGED <<phase, verdict>>, NEW p \in Waiting,
         stream' = [stream EXCEPT !.pending = @ \cup {p}, !.seen = Seen({p.id}, "requested")],
         stream.seen[p.id] = "never", scope(p.sid),
         Head(sse).type = "asked", Head(sse).id = p.id, Head(sse).sid = p.sid,
         p.id \in Perms => p.truncated = Head(sse).hidden
  PROVE  OInv'
<1> USE DEF OInv
<1>1. UNCHANGED <<parent, req, created, queue>>
  BY DEF Reads
<1>2. /\ stream' \in Streams /\ stream'.root = stream.root /\ stream'.children = stream.children
      /\ stream'.pending = stream.pending \cup {p} /\ stream'.seen[p.id] = "requested"
      /\ \A r \in Reqs : r # p.id => stream'.seen[r] = stream.seen[r]
      /\ p.id \in Reqs
  BY DEF OType, Streams, Seen, Waiting
<1>3. held' = held \cup {p.id}
  BY <1>2 DEF held
<1>4. p.id \notin held
  BY <1>2 DEF SeenInv, SeenOK
<1>5. OType' /\ Starting' /\ EventsInv'
  BY <1>1, <1>2, ReadFacts DEF OType, Starting
<1>6. ServerInv' /\ TreeInv'
  BY <1>1, <1>2 DEF ServerInv, TreeInv, scope
<1>7. WaitingInv'
  <2>1. WaitingOK(p)'
    BY <1>1, <1>2, ReadFacts DEF EventOK, WaitingOK, scope
  <2>2. \A x \in stream.pending : WaitingOK(x)'
    BY <1>1, <1>2 DEF WaitingInv, WaitingOK, scope
  <2>3. \A x \in stream.pending : x.id # p.id
    BY <1>4 DEF held
  <2> QED
    BY <1>2, <2>1, <2>2, <2>3 DEF WaitingInv
<1>8. LinesInv'
  BY <1>1, <1>2 DEF LinesInv, LineOK
<1>9. SeenInv'
  <2> SUFFICES ASSUME NEW r \in Reqs PROVE SeenOK(r)'
    BY DEF SeenInv
  <2>1. SeenOK(r)
    BY DEF SeenInv
  <2>2. CASE r = p.id
    BY <1>2, <1>3, <2>1, <2>2 DEF SeenOK
  <2>3. CASE r # p.id
    BY <1>1, <1>2, <1>3, <2>1, <2>3 DEF SeenOK
  <2> QED
    BY <2>2, <2>3
<1>10. GhostInv'
  <2> SUFFICES ASSUME NEW r \in Reqs PROVE GhostOK(r)'
    BY DEF GhostInv
  <2>1. GhostOK(r)
    BY DEF GhostInv
  <2>2. ~Kills(Head(sse), r, parent, req)
    BY DEF Kills
  <2> QED
    BY <1>2, <1>3, <2>1, <2>2, GhostsBehind
<1> QED
  BY <1>5, <1>6, <1>7, <1>8, <1>9, <1>10

(* Requests are given up: every one that the event is the end of.          *)
LEMMA GivesUpKeeps ==
  ASSUME OInv, Reads, phase = "talk", UNCHANGED phase, NEW rs \in SUBSET Reqs, rs \subseteq held,
         stream' = [stream EXCEPT !.pending = Without(rs), !.seen = Seen(rs, "agent")],
         verdict' = Published(rs), Head(sse).type # "asked",
         \A r \in held : Kills(Head(sse), r, parent, req) => r \in rs
  PROVE  OInv'
<1> USE DEF OInv
<1>1. UNCHANGED <<parent, req, created, queue>>
  BY DEF Reads
<1>2. /\ stream' \in Streams /\ stream'.root = stream.root /\ stream'.children = stream.children
      /\ stream'.pending = {p \in stream.pending : p.id \notin rs}
      /\ \A r \in Reqs : stream'.seen[r] = IF r \in rs THEN "agent" ELSE stream.seen[r]
  BY DEF OType, Streams, Seen, Without
<1>3. held' = held \ rs
  BY <1>2 DEF held
<1>4. \A r \in rs : stream.seen[r] = "requested" /\ verdict[r] = <<>>
  BY DEF SeenInv, SeenOK
<1>5. /\ verdict' \in [Reqs -> Seq(Outcomes \cup {"agent"})]
      /\ \A r \in Reqs : IF r \in rs THEN verdict'[r] = <<"agent">> ELSE verdict'[r] = verdict[r]
  <2>1. Append(<<>>, "agent") = <<"agent">>
    OBVIOUS
  <2>2. verdict' = [r \in Reqs |-> IF r \in rs THEN <<"agent">> ELSE verdict[r]]
    BY <1>4, <2>1, Zenon DEF Published
  <2>3. \A r \in Reqs : verdict[r] \in Seq(Outcomes \cup {"agent"})
    BY DEF OType
  <2>4. <<"agent">> \in Seq(Outcomes \cup {"agent"})
    OBVIOUS
  <2> QED
    BY <2>2, <2>3, <2>4
<1>6. OType' /\ Starting' /\ EventsInv'
  BY <1>1, <1>2, <1>5, ReadFacts DEF OType, Starting
<1>7. ServerInv' /\ TreeInv'
  BY <1>1, <1>2 DEF ServerInv, TreeInv, scope
<1>8. WaitingInv'
  BY <1>1, <1>2 DEF WaitingInv, WaitingOK, scope
<1>9. LinesInv'
  BY <1>1, <1>2, <1>4 DEF LinesInv, LineOK
<1>10. SeenInv'
  <2> SUFFICES ASSUME NEW r \in Reqs PROVE SeenOK(r)'
    BY DEF SeenInv
  <2>1. SeenOK(r)
    BY DEF SeenInv
  <2>2. CASE r \in rs
    BY <1>2, <1>3, <1>5, <2>2 DEF SeenOK
  <2>3. CASE r \notin rs
    BY <1>1, <1>2, <1>3, <1>5, <2>1, <2>3 DEF SeenOK
  <2> QED
    BY <2>2, <2>3
<1>11. GhostInv'
  <2> SUFFICES ASSUME NEW r \in Reqs PROVE GhostOK(r)'
    BY DEF GhostInv
  <2>1. GhostOK(r)
    BY DEF GhostInv
  <2>2. CASE r \in rs
    BY <1>2, <2>2 DEF GhostOK
  <2>3. CASE r \notin rs
    BY <1>2, <1>3, <2>1, <2>3, GhostsBehind
  <2> QED
    BY <2>2, <2>3
<1> QED
  BY <1>6, <1>7, <1>8, <1>9, <1>10, <1>11

(* The root whose end takes a request in scope is the root of the scope:   *)
(* what is out of scope has only children out of scope.                    *)
LEMMA RootOfScope ==
  ASSUME OInv, NEW s \in Sessions, parent[s] = Root, NEW x \in Below(s, parent), scope(x)
  PROVE  s = stream.root
<1> DEFINE T == {y \in Sessions : ~scope(y)}
<1>1. TreeInv /\ OType
  BY DEF OInv
<1>2. ASSUME NEW y \in Sessions, parent[y] \in T PROVE y \in T
  <2> SUFFICES ASSUME scope(y) PROVE FALSE
    OBVIOUS
  <2>1. CASE y = stream.root
    BY <1>1, <1>2, <2>1, OpenCodeAssumption DEF TreeInv, Root
  <2>2. CASE \E c \in stream.children : c.sid = y
    BY <1>1, <1>2, <2>2 DEF TreeInv
  <2> QED
    BY <2>1, <2>2 DEF scope
<1>3. T \in SUBSET Sessions /\ x \notin T
  OBVIOUS
<1> HIDE DEF T
<1>4. s \notin T
  BY <1>2, <1>3 DEF Below
<1>5. scope(s)
  BY <1>4 DEF T
<1>6. \A c \in stream.children : c.parent \in Sessions /\ parent[c.sid] = c.parent
  BY <1>1 DEF TreeInv, OType, Streams
<1> QED
  BY <1>5, <1>6, OpenCodeAssumption DEF scope, Root

LEMMA HeldInScope ==
  ASSUME OInv, NEW r \in held
  PROVE  /\ r \in Reqs /\ Held(r) \in stream.pending /\ Held(r).id = r
         /\ Held(r).sid = req[r].sid /\ scope(req[r].sid)
<1>1. Held(r) \in stream.pending /\ Held(r).id = r
  BY HeldFacts
<1>2. WaitingOK(Held(r)) /\ Held(r) \in Waiting
  BY <1>1 DEF OInv, WaitingInv, OType, Streams
<1> QED
  BY <1>1, <1>2 DEF WaitingOK, Waiting

LEMMA CreatedKeeps ==
  ASSUME OInv, Reads, NEW e \in Events, e = Head(sse), EventOK(e, parent, req), e.type = "created",
         stream' = sessionCreated(e).stream, verdict' = Published(sessionCreated(e).resolved),
         \/ phase = "talk" /\ phase' = "talk"
         \/ phase = "root" /\ e.id = Root /\ phase' = "talk"
  PROVE  OInv'
<1> USE DEF OInv
<1>1. parent[e.sid] = e.id /\ e.id \in Sessions \cup {Root} /\ e.sid \in Sessions
  BY DEF EventOK, Events
<1>2. \A r \in held : ~Kills(Head(sse), r, parent, req)
  BY DEF Kills
<1>3. Published({}) = verdict
  BY DEF Published, OType
<1>4. sessionCreated(e).resolved = {}
  BY DEF sessionCreated, Nothing
<1>5. UNCHANGED verdict
  BY <1>3, <1>4
<1>6. CASE e.id = Root /\ stream.root = None
  <2>1. stream' = [stream EXCEPT !.root = e.sid]
    BY <1>6 DEF sessionCreated, Nothing
  <2>2. phase = "root" /\ stream.children = {}
    BY <1>6, OpenCodeAssumption DEF Starting
  <2>3. stream' = [stream EXCEPT !.root = e.sid, !.children = {}]
    BY <2>1, <2>2 DEF OType, Streams
  <2> QED
    BY <1>1, <1>5, <1>6, <2>2, <2>3, ScopeKeeps
<1>7. CASE e.id = Root /\ stream.root # None
  <2>1. UNCHANGED stream
    BY <1>7 DEF sessionCreated, Nothing
  <2>2. phase = "talk"
    BY <1>7 DEF Starting
  <2> QED
    BY <1>2, <1>5, <2>1, <2>2, IgnoredKeeps
<1>8. CASE e.id # Root /\ scope(e.id) /\ ~scope(e.sid) /\ Cardinality(stream.children) < MaxChildren
  <2> DEFINE kids == stream.children \cup {[sid |-> e.sid, parent |-> e.id]}
  <2>1. stream' = [stream EXCEPT !.children = kids]
    BY <1>8 DEF sessionCreated, Nothing
  <2>2. phase = "talk" /\ stream.root \in Sessions /\ phase' = "talk"
    BY <1>8 DEF Starting
  <2>3. kids \in SUBSET [sid : Sessions, parent : Sessions] /\ stream.children \subseteq kids
    BY <1>1, <1>8 DEF OType, Streams
  <2>4. parent[stream.root] = Root
    BY <2>2, OpenCodeAssumption DEF TreeInv
  <2>5. \A k \in kids : /\ parent[k.sid] = k.parent
                        /\ k.parent = stream.root \/ k.parent \in {c.sid : c \in kids}
    BY <1>1, <1>8 DEF TreeInv, scope
  <2> HIDE DEF kids
  <2>6. stream' = [stream EXCEPT !.root = stream.root, !.children = kids]
    BY <2>1 DEF OType, Streams
  <2> QED
    BY <1>5, <2>2, <2>3, <2>4, <2>5, <2>6, ScopeKeeps
<1>9. CASE e.id # Root /\ ~(scope(e.id) /\ ~scope(e.sid) /\ Cardinality(stream.children) < MaxChildren)
  <2>1. UNCHANGED stream
    BY <1>9 DEF sessionCreated, Nothing
  <2> QED
    BY <1>2, <1>5, <1>9, <2>1, IgnoredKeeps
<1> QED
  BY <1>6, <1>7, <1>8, <1>9

LEMMA AskedKeeps ==
  ASSUME OInv, Reads, NEW e \in Events, e = Head(sse), EventOK(e, parent, req), e.type = "asked",
         phase = "talk", UNCHANGED phase, NEW p \in Waiting, p.id = e.id, p.sid = e.sid,
         p.id \in Perms => p.truncated = e.hidden,
         stream' = holds(e, p).stream, verdict' = Published(holds(e, p).resolved)
  PROVE  OInv'
<1>1. Published({}) = verdict
  BY DEF Published, OInv, OType
<1>2. holds(e, p).resolved = {}
  BY DEF holds, Nothing
<1>3. UNCHANGED verdict
  BY <1>1, <1>2
<1>4. CASE scope(e.sid) /\ fresh(e.id) /\ room
  <2>1. stream' = [stream EXCEPT !.pending = @ \cup {p}, !.seen = Seen({p.id}, "requested")]
    BY <1>4 DEF holds, Nothing
  <2>2. stream.seen[p.id] = "never" /\ scope(p.sid)
    BY <1>4 DEF fresh
  <2> QED
    BY <1>3, <2>1, <2>2, HoldsKeeps
<1>5. CASE ~(scope(e.sid) /\ fresh(e.id) /\ room)
  <2>1. UNCHANGED stream
    BY <1>5 DEF holds, Nothing
  <2>2. \A r \in held : ~Kills(Head(sse), r, parent, req)
    BY DEF Kills
  <2> QED
    BY <1>3, <2>1, <2>2, IgnoredKeeps
<1> QED
  BY <1>4, <1>5

LEMMA RepliedKeeps ==
  ASSUME OInv, Reads, NEW e \in Events, e = Head(sse), EventOK(e, parent, req), e.type = "replied",
         phase = "talk", UNCHANGED phase,
         stream' = replied(e).stream, verdict' = Published(replied(e).resolved)
  PROVE  OInv'
<1>1. e.id \in Reqs /\ req[e.id].sid = e.sid
  BY DEF EventOK
<1>2. \A r \in Reqs : Kills(e, r, parent, req) <=> r = e.id
  BY <1>1 DEF Kills
<1>3. CASE e.id \in held
  <2>1. Held(e.id).sid = e.sid
    BY <1>1, <1>3, HeldInScope
  <2>2. /\ replied(e).resolved = {e.id}
        /\ stream' = [stream EXCEPT !.pending = Without({e.id}), !.seen = Seen({e.id}, "agent")]
    BY <1>3, <2>1 DEF replied, repliedAs, Nothing
  <2>3. {e.id} \in SUBSET Reqs /\ {e.id} \subseteq held
        /\ \A r \in held : Kills(Head(sse), r, parent, req) => r \in {e.id}
    BY <1>1, <1>2, <1>3, HeldInScope
  <2> QED
    BY <2>2, <2>3, GivesUpKeeps
<1>4. CASE e.id \notin held
  <2>1. replied(e).resolved = {} /\ UNCHANGED stream
    BY <1>4 DEF replied, repliedAs, Nothing
  <2>2. Published({}) = verdict
    BY DEF Published, OInv, OType
  <2>3. \A r \in held : ~Kills(Head(sse), r, parent, req)
    BY <1>2, <1>4, HeldInScope
  <2> QED
    BY <2>1, <2>2, <2>3, IgnoredKeeps
<1> QED
  BY <1>3, <1>4

LEMMA EndedKeeps ==
  ASSUME OInv, Reads, NEW e \in Events, e = Head(sse), e.type = "ended",
         phase = "talk", UNCHANGED phase,
         stream' = executionEnded(e).stream, verdict' = Published(executionEnded(e).resolved)
  PROVE  OInv'
<1>0. e.sid \in Sessions
  BY DEF Events
<1>1. ASSUME NEW r \in held, Kills(e, r, parent, req)
      PROVE  scope(e.sid) /\ r \in Closed(e.sid)
  <2>1. /\ Held(r) \in stream.pending /\ Held(r).id = r /\ Held(r).sid = req[r].sid
        /\ scope(req[r].sid)
    BY HeldInScope
  <2>2. CASE e.sid = req[r].sid
    BY <2>1, <2>2 DEF Closed
  <2>3. CASE parent[e.sid] = Root /\ req[r].sid \in Below(e.sid, parent)
    <3>1. e.sid = stream.root
      BY <1>0, <2>1, <2>3, RootOfScope
    <3> QED
      BY <2>1, <3>1 DEF Closed, scope
  <2> QED
    BY <1>1, <2>2, <2>3 DEF Kills
<1>2. CASE scope(e.sid)
  <2> DEFINE rs == Closed(e.sid)
  <2>1. rs \subseteq held
    BY DEF Closed, held
  <2>2. rs \in SUBSET Reqs
    BY <2>1, HeldInScope
  <2>3. /\ executionEnded(e).resolved = rs
        /\ stream' = [stream EXCEPT !.pending = Without(rs), !.seen = Seen(rs, "agent")]
    BY <1>2 DEF executionEnded, closePending, Nothing
  <2>4. \A r \in held : Kills(Head(sse), r, parent, req) => r \in rs
    BY <1>1
  <2> HIDE DEF rs
  <2> QED
    BY <2>1, <2>2, <2>3, <2>4, GivesUpKeeps
<1>3. CASE ~scope(e.sid)
  <2>1. executionEnded(e).resolved = {} /\ UNCHANGED stream
    BY <1>3 DEF executionEnded, Nothing
  <2>2. Published({}) = verdict
    BY DEF Published, OInv, OType
  <2>3. \A r \in held : ~Kills(Head(sse), r, parent, req)
    BY <1>1, <1>3
  <2> QED
    BY <2>1, <2>2, <2>3, IgnoredKeeps
<1> QED
  BY <1>2, <1>3

LEMMA DecodeKeeps ==
  ASSUME OInv, Reads, NEW e \in Events, e = Head(sse), Decode(e),
         \/ phase = "talk" /\ phase' = "talk"
         \/ phase = "root" /\ isRoot(e) /\ phase' = "talk"
  PROVE  OInv'
<1>1. EventOK(e, parent, req)
  BY ReadFacts
<1>2. stream' = DecodeFrame(e).stream /\ verdict' = Published(DecodeFrame(e).resolved)
  BY DEF Decode
<1>3. e.type \in {"created", "asked", "replied", "ended"}
  BY DEF Events
<1>4. CASE e.type = "created"
  <2>1. DecodeFrame(e) = sessionCreated(e)
    BY <1>4 DEF DecodeFrame
  <2> QED
    BY <1>1, <1>2, <1>4, <2>1, CreatedKeeps DEF isRoot
<1>5. CASE e.type = "asked"
  <2>1. e.id \in Reqs /\ e.sid \in Sessions /\ e.hidden \in BOOLEAN /\ phase = "talk"
    BY <1>1, <1>5 DEF EventOK, Events, isRoot
  <2>2. CASE e.id \in Perms
    <3>1. DecodeFrame(e) = holds(e, buildPermission(e))
      BY <1>5, <2>2 DEF DecodeFrame, permissionAsked
    <3>2. /\ buildPermission(e) \in Waiting /\ buildPermission(e).id = e.id
          /\ buildPermission(e).sid = e.sid /\ buildPermission(e).truncated = e.hidden
      BY <2>1 DEF buildPermission, hiddenTopLevel, Waiting
    <3> QED
      BY <1>1, <1>2, <1>5, <2>1, <3>1, <3>2, AskedKeeps
  <2>3. CASE e.id \notin Perms
    <3>1. DecodeFrame(e) = holds(e, buildForm(e))
      BY <1>5, <2>3 DEF DecodeFrame, formCreated
    <3>2. buildForm(e) \in Waiting /\ buildForm(e).id = e.id /\ buildForm(e).sid = e.sid
      BY <2>1 DEF buildForm, Waiting
    <3> QED
      BY <1>1, <1>2, <1>5, <2>1, <2>3, <3>1, <3>2, AskedKeeps
  <2> QED
    BY <2>2, <2>3
<1>6. CASE e.type = "replied"
  <2>1. DecodeFrame(e) = replied(e) /\ phase = "talk"
    BY <1>6 DEF DecodeFrame, isRoot
  <2> QED
    BY <1>1, <1>2, <1>6, <2>1, RepliedKeeps
<1>7. CASE e.type = "ended"
  <2>1. DecodeFrame(e) = executionEnded(e) /\ phase = "talk"
    BY <1>7 DEF DecodeFrame, isRoot
  <2> QED
    BY <1>2, <1>7, <2>1, EndedKeeps
<1> QED
  BY <1>3, <1>4, <1>5, <1>6, <1>7

LEMMA ReadSSEKeeps ==
  ASSUME OInv, ReadSSE
  PROVE  OInv'
<1>1. Reads
  BY DEF ReadSSE, Reads, Serving
<1>2. PICK e \in Events : e = Head(sse)
  BY <1>1, ReadFacts
<1>3. CASE phase = "talk" /\ Decode(e) /\ UNCHANGED phase
  BY <1>1, <1>2, <1>3, DecodeKeeps
<1>4. CASE phase = "root" /\ isRoot(e) /\ isOurs(e) /\ Decode(e) /\ phase' = "talk"
  BY <1>1, <1>2, <1>4, DecodeKeeps
<1>5. CASE phase = "root" /\ phase' \in {"root", "over"} /\ UNCHANGED <<stream, verdict>>
  <2>1. held = {}
    BY <1>5 DEF OInv, Starting, held
  <2> QED
    BY <1>1, <1>5, <2>1, IgnoredKeeps
<1> QED
  BY <1>2, <1>3, <1>4, <1>5 DEF ReadSSE

LEMMA SkipLineKeeps ==
  ASSUME OInv, SkipLine
  PROVE  OInv'
<1>1. /\ Reads /\ phase \in {"root", "talk"} /\ UNCHANGED <<phase, stream, verdict>>
      /\ Head(sse).type = "asked"
  BY DEF SkipLine, Reads, Serving
<1>2. \A r \in held : ~Kills(Head(sse), r, parent, req)
  BY <1>1 DEF Kills
<1> QED
  BY <1>1, <1>2, IgnoredKeeps

-----------------------------------------------------------------------------
LEMMA OInitial ==
  ASSUME Init
  PROVE  OInv
<1> USE DEF Init
<1>1. OType
  BY DEF OType, Streams, Requests, Unasked
<1>2. Starting /\ ServerInv /\ TreeInv /\ EventsInv /\ WaitingInv /\ LinesInv
  BY DEF Starting, ServerInv, TreeInv, EventsInv, WaitingInv, LinesInv, Unasked
<1>3. SeenInv /\ GhostInv
  BY DEF SeenInv, SeenOK, GhostInv, GhostOK, held, Unasked
<1> QED
  BY <1>1, <1>2, <1>3 DEF OInv

LEMMA OStuttering ==
  ASSUME OInv, UNCHANGED vars
  PROVE  OInv'
<1> USE DEF vars, OInv
<1>1. OType' /\ Starting' /\ ServerInv' /\ TreeInv' /\ EventsInv' /\ WaitingInv' /\ LinesInv'
  BY DEF OType, Starting, ServerInv, TreeInv, EventsInv, WaitingInv, WaitingOK, LinesInv,
         LineOK, scope
<1>2. SeenInv'
  BY DEF SeenInv, SeenOK, held
<1>3. phase # "over" => GhostInv'
  BY DEF GhostInv, GhostOK, held
<1> QED
  BY <1>1, <1>2, <1>3

LEMMA OStep ==
  ASSUME OInv, [Next]_vars
  PROVE  OInv'
<1>1. CASE phase \notin {"connect", "over"} /\ Server
  BY <1>1, NewSessionKeeps, AskKeeps, AskAgainKeeps, OtherAnswersKeeps, ExecutionEndsKeeps
     DEF Server
<1>2. ASSUME NEW r \in Reqs, NEW o \in {"allow", "reject"}, encodePermissionResolve(r, o)
      PROVE  OInv'
  <2>1. /\ phase = "talk" /\ r \in Perms /\ r \in held /\ (o = "allow" => ~Held(r).truncated)
        /\ Answer(r, o) /\ o \in Outcomes
    BY <1>2 DEF encodePermissionResolve, Permitted, Outcomes
  <2> QED
    BY <2>1, OpenCodeAssumption, AnswerKeeps
<1>3. ASSUME NEW r \in Reqs, NEW o \in {"answer", "cancel"}, encodeFormResolve(r, o)
      PROVE  OInv'
  <2>1. phase = "talk" /\ r \in Forms /\ r \in held /\ Answer(r, o) /\ o \in Outcomes /\ o # "allow"
    BY <1>3 DEF encodeFormResolve, Outcomes
  <2> QED
    BY <2>1, AnswerKeeps
<1>4. CASE encodePrompt \/ encodeCancel
  BY <1>4, CommandKeeps DEF encodePrompt, encodeCancel
<1>5. CASE Transport
  BY <1>5, StartKeeps, createSessionKeeps, ReadSSEKeeps, SkipLineKeeps, WriteKeeps, OverKeeps
     DEF Transport
<1>6. CASE UNCHANGED vars
  BY <1>6, OStuttering
<1> QED
  BY <1>1, <1>2, <1>3, <1>4, <1>5, <1>6 DEF Next, Human

(***************************************************************************)
(* The invariant holds in every state: the Stream is what the server has   *)
(* told, and what the server has told since is still on its way.           *)
(***************************************************************************)
THEOREM OpenCodeInvariance == Spec => []OInv
  BY OInitial, OStep, PTL DEF Spec

(***************************************************************************)
(* However the human's answer, its echo, another client's answer, the end  *)
(* of an execution and a repeated request cross, a request is settled at   *)
(* most once on the page.                                                  *)
(***************************************************************************)
THEOREM RequestsSettleOnce == Spec => []SettledOnce
<1>1. ASSUME OInv PROVE SettledOnce
  <2> SUFFICES ASSUME NEW r \in Reqs PROVE Len(verdict[r]) <= 1
    BY DEF SettledOnce
  <2>1. SeenOK(r) /\ stream.seen[r] \in {"never", "requested", "us", "agent"}
    BY <1>1 DEF OInv, SeenInv, OType, Streams
  <2>2. CASE verdict[r] = <<>>
    BY <2>2
  <2>3. ASSUME NEW o, verdict[r] = <<o>> PROVE Len(verdict[r]) <= 1
    BY <2>3
  <2> QED
    BY <2>1, <2>2, <2>3 DEF SeenOK
<1> QED
  BY <1>1, OpenCodeInvariance, PTL

(***************************************************************************)
(* While the conversation goes on, the human's verdict on the page is the  *)
(* one the server took, or its line is still to be written (httpWriter).   *)
(***************************************************************************)
THEOREM VerdictsAreTrue == Spec => []VerdictTrue
<1>1. ASSUME OInv PROVE VerdictTrue
  <2> SUFFICES ASSUME phase = "talk", NEW r \in Reqs, NEW i \in 1..Len(verdict[r]),
                      verdict[r][i] # "agent"
               PROVE  \/ req[r].fate = verdict[r][i]
                      \/ \E j \in 1..Len(queue) : /\ queue[j].id = r
                                                  /\ queue[j].outcome = verdict[r][i]
    BY DEF VerdictTrue
  <2>1. SeenOK(r) /\ stream.seen[r] \in {"never", "requested", "us", "agent"}
    BY <1>1 DEF OInv, SeenInv, OType, Streams
  <2>2. stream.seen[r] = "us"
    BY <2>1 DEF SeenOK
  <2>3. PICK o \in Outcomes :
          /\ verdict[r] = <<o>>
          /\ \/ req[r].fate = o
             \/ \E j \in 1..Len(queue) : queue[j].id = r /\ queue[j].outcome = o
    BY <2>1, <2>2 DEF SeenOK
  <2>4. verdict[r][i] = o
    BY <2>3
  <2> QED
    BY <2>3, <2>4
<1> QED
  BY <1>1, OpenCodeInvariance, PTL

(***************************************************************************)
(* The server is never told to allow what was not shown in full            *)
(* (buildPermission, encodePermissionResolve).                             *)
(***************************************************************************)
THEOREM AllowedWasShown == Spec => []ShownOnly
<1>1. ASSUME OInv PROVE ShownOnly
  BY <1>1 DEF OInv, ServerInv, ShownOnly, Reqs
<1> QED
  BY <1>1, OpenCodeInvariance, PTL

(***************************************************************************)
(* Once every event has been read, the page offers only requests that the  *)
(* server still waits for, under the session they were asked in: every end *)
(* of a request reaches the Stream as an event it acts on (permission-     *)
(* Replied, formSettledBySSE, executionEnded, closePending).               *)
(***************************************************************************)
THEOREM NothingHaunts == Spec => []NoGhosts
<1>1. ASSUME OInv PROVE NoGhosts
  <2> SUFFICES ASSUME phase = "talk", sse = <<>>, NEW r \in held
               PROVE  Open(r) /\ Held(r).sid = req[r].sid
    BY DEF NoGhosts
  <2>1. r \in Reqs /\ Held(r) \in stream.pending /\ Held(r).id = r /\ Held(r).sid = req[r].sid
    BY <1>1, HeldInScope
  <2>2. req[r].fate # "none"
    BY <1>1, <2>1 DEF OInv, WaitingInv, WaitingOK
  <2>3. GhostOK(r) /\ SeenOK(r)
    BY <1>1, <2>1 DEF OInv, GhostInv, SeenInv
  <2>4. req[r].fate = "open"
    BY <2>2, <2>3 DEF GhostOK, SeenOK
  <2> QED
    BY <2>1, <2>4 DEF Open
<1> QED
  BY <1>1, OpenCodeInvariance, PTL

-----------------------------------------------------------------------------
(* The limits: room lets one more request in only below MaxPending.        *)
Limits == /\ IsFiniteSet(stream.pending) /\ Cardinality(stream.pending) <= MaxPending
          /\ Len(sse) <= MaxFlight

LEMMA PendingLimit ==
  ASSUME OInv, [Next]_vars
  PROVE  \/ stream'.pending \subseteq stream.pending
         \/ /\ Cardinality(stream.pending) < MaxPending
            /\ \E p : stream'.pending = stream.pending \cup {p}
<1>0. OType
  BY DEF OInv
<1>1. ASSUME NEW e \in Events, Decode(e)
      PROVE  \/ stream'.pending \subseteq stream.pending
             \/ /\ Cardinality(stream.pending) < MaxPending
                /\ \E p : stream'.pending = stream.pending \cup {p}
  <2>1. stream' = DecodeFrame(e).stream
    BY <1>1 DEF Decode
  <2>2. sessionCreated(e).stream.pending = stream.pending
    BY <1>0 DEF sessionCreated, Nothing, OType, Streams
  <2>3. replied(e).stream.pending \subseteq stream.pending
    BY <1>0 DEF replied, repliedAs, Nothing, Without, OType, Streams
  <2>4. executionEnded(e).stream.pending \subseteq stream.pending
    BY <1>0 DEF executionEnded, closePending, Nothing, Without, OType, Streams
  <2>5. ASSUME NEW p
        PROVE  \/ holds(e, p).stream.pending = stream.pending
               \/ /\ Cardinality(stream.pending) < MaxPending
                  /\ holds(e, p).stream.pending = stream.pending \cup {p}
    BY <1>0 DEF holds, room, Nothing, OType, Streams
  <2>6. e.type \in {"created", "asked", "replied", "ended"}
    BY DEF Events
  <2>7. CASE e.type = "created"
    BY <2>1, <2>2, <2>7 DEF DecodeFrame
  <2>8. CASE e.type = "asked"
    <3>1. PICK p : DecodeFrame(e) = holds(e, p)
      BY <2>8 DEF DecodeFrame, permissionAsked, formCreated
    <3> QED
      BY <2>1, <2>5, <3>1
  <2>9. CASE e.type = "replied"
    BY <2>1, <2>3, <2>9 DEF DecodeFrame
  <2>10. CASE e.type = "ended"
    BY <2>1, <2>4, <2>10 DEF DecodeFrame
  <2> QED
    BY <2>6, <2>7, <2>8, <2>9, <2>10
<1>2. CASE ReadSSE
  <2>1. Head(sse) \in Events
    BY <1>0, <1>2 DEF ReadSSE, OType
  <2> QED
    BY <1>1, <1>2, <2>1 DEF ReadSSE
<1>3. ASSUME NEW r, NEW o, Answer(r, o) PROVE stream'.pending \subseteq stream.pending
  BY <1>0, <1>3 DEF Answer, Without, OType, Streams
<1>4. CASE Server
  BY <1>4 DEF Server, NewSession, Ask, AskAgain, OtherAnswers, ExecutionEnds, Conversing
<1>5. CASE Human
  BY <1>3, <1>5 DEF Human, encodePermissionResolve, encodeFormResolve, encodePrompt,
                    encodeCancel, Command
<1>6. CASE readReadyLine \/ openEventStream \/ createSession \/ SkipLine \/ Write \/ Over
  BY <1>6 DEF readReadyLine, openEventStream, createSession, SkipLine, Write, Over
<1>7. CASE UNCHANGED vars
  BY <1>7 DEF vars
<1> QED
  BY <1>2, <1>4, <1>5, <1>6, <1>7 DEF Next, Transport

LEMMA FlightLimit ==
  ASSUME OInv, Limits, [Next]_vars
  PROVE  Len(sse') <= MaxFlight
<1>0. Len(sse) \in Nat /\ MaxFlight \in Nat /\ OType /\ Len(sse) <= MaxFlight
  BY OpenCodeAssumption DEF OInv, OType, Limits
<1>1. ASSUME NEW ev, Emit(<<ev>>) PROVE Len(sse') <= MaxFlight
  BY <1>0, <1>1 DEF Emit, OType
<1>2. CASE Server
  BY <1>1, <1>2 DEF Server, NewSession, Ask, AskAgain, OtherAnswers, ExecutionEnds, Ends
<1>3. CASE createSession
  BY <1>1, <1>3 DEF createSession
<1>4. CASE Write
  <2>1. PICK q \in Lines : q = Head(queue) /\ (Apply(q) \/ UNCHANGED sse)
    BY <1>0, <1>4 DEF Write, OType
  <2>2. q.op \in {"prompt", "interrupt", "reply"}
    BY DEF Lines
  <2> QED
    BY <1>0, <1>1, <2>1, <2>2 DEF Apply, Ends
<1>5. CASE sse # <<>> /\ sse' = Tail(sse)
  BY <1>0, <1>5 DEF OType
<1>6. CASE sse' = sse \/ sse' = <<>>
  BY <1>0, <1>6
<1>7. CASE Human
  BY <1>6, <1>7 DEF Human, encodePermissionResolve, encodeFormResolve, encodePrompt,
                    encodeCancel, Command, Answer
<1>8. CASE readReadyLine \/ openEventStream \/ Over \/ UNCHANGED vars
  BY <1>6, <1>8 DEF readReadyLine, openEventStream, Over, vars
<1>9. CASE ReadSSE \/ SkipLine
  BY <1>5, <1>9 DEF ReadSSE, SkipLine
<1> QED
  BY <1>2, <1>3, <1>4, <1>7, <1>8, <1>9 DEF Next, Transport

LEMMA LimitsKept ==
  ASSUME OInv, Limits, [Next]_vars
  PROVE  Limits'
<1>1. IsFiniteSet(stream.pending) /\ Cardinality(stream.pending) \in Nat /\ MaxPending \in Nat
      /\ Cardinality(stream.pending) <= MaxPending
  BY FS_CardinalityType, OpenCodeAssumption DEF Limits
<1>2. CASE stream'.pending \subseteq stream.pending
  <2>1. /\ IsFiniteSet(stream'.pending)
        /\ Cardinality(stream'.pending) <= Cardinality(stream.pending)
    BY <1>1, <1>2, FS_Subset
  <2>2. Cardinality(stream'.pending) \in Nat
    BY <2>1, FS_CardinalityType
  <2> QED
    BY <1>1, <2>1, <2>2, FlightLimit DEF Limits
<1>3. ASSUME Cardinality(stream.pending) < MaxPending,
             NEW p, stream'.pending = stream.pending \cup {p}
      PROVE  Limits'
  <2>1. /\ IsFiniteSet(stream.pending \cup {p})
        /\ \/ Cardinality(stream.pending \cup {p}) = Cardinality(stream.pending)
           \/ Cardinality(stream.pending \cup {p}) = Cardinality(stream.pending) + 1
    BY <1>1, FS_AddElement
  <2> QED
    BY <1>1, <1>3, <2>1, FlightLimit DEF Limits
<1> QED
  BY <1>2, <1>3, PendingLimit

(***************************************************************************)
(* Type correctness, with the limit on the requests held at a time (room,  *)
(* maxPending).                                                            *)
(***************************************************************************)
THEOREM OpenCodeTypeCorrect == Spec => []TypeOK
<1>1. ASSUME Init PROVE Limits
  BY <1>1, FS_EmptySet, OpenCodeAssumption DEF Init, Limits
<1>2. ASSUME OInv, Limits PROVE TypeOK
  BY <1>2 DEF OInv, OType, Limits, TypeOK
<1> QED
  BY <1>1, <1>2, LimitsKept, OpenCodeInvariance, PTL DEF Spec
=============================================================================
