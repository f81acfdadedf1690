---------------------------- MODULE Conversation ----------------------------
(***************************************************************************)
(* One launch of an agent as serve keeps it: the state machine of          *)
(* cmd/internal/chat/conversation.go, the part of the agent's Stream       *)
(* (agent/claude) that holds requests, the bounded queue to the agent's    *)
(* input (queue.go) and the Session that ties them together (agent.go).    *)
(*                                                                         *)
(* Every method of Conversation runs under its mutex, so it is one action; *)
(* the queue's goroutine, OnStop and the end of the process are actors of  *)
(* their own.  The fields that the mutex guards are one record c, and the  *)
(* helpers of the code (settleLocked, expireAllLocked, failLocked) are     *)
(* functions on it.  Of the published events only the requests and their   *)
(* resolutions are kept; error events and texts are not.                   *)
(***************************************************************************)
EXTENDS Integers, Sequences, FiniteSets, SequencesExt

CONSTANTS
  Requests,         \* request_ids
  Forms,            \* those the agent asks as a form; the others are permissions
  Contents,         \* what a request asks for: the tool's input, known by its content_hash
  MaxPending,       \* MaxPendingRequests, the requests that may wait for a human
  MaxSettled,       \* maxSettled, the settled request_ids remembered
  StreamMax,        \* maxPendingRequests of the Stream
  MaxLines,         \* the limit of the queue to the agent (its two limits are one here)
  RequireHash,      \* RequireContentHash
  MaxTurns,         \* bound of the model: prompts
  MaxOversized      \* bound of the model: lines whose events exceed DefaultMaxEvent

ASSUME ConversationAssumption ==
  /\ Forms \subseteq Requests
  /\ {MaxPending, MaxSettled, StreamMax, MaxLines, MaxTurns, MaxOversized} \subseteq Nat
  /\ MaxSettled > 0
  /\ RequireHash \in BOOLEAN

VARIABLES
  c,                \* the Conversation, and what it has published
  stream,           \* the agent's Stream
  queue,            \* the QueuedWriter
  agent,            \* the agent's process, what it has read, and its end
  approved,         \* history: the contents that a user had on the screen and allowed
  turns,            \* prompts sent
  oversized         \* oversized lines met

vars == <<c, stream, queue, agent, approved, turns, oversized>>

(* The lines that are written to the agent: prompts, the first of them     *)
(* with the initialize line, and replies to requests.                      *)
Prompt(init) == [kind |-> "prompt", init |-> init]
Reply(id, allow, input) == [kind |-> "reply", id |-> id, allow |-> allow, input |-> input]
NoLine == [kind |-> "none"]

Init ==
  /\ c = [state |-> "idle", stopped |-> FALSE, pending |-> {}, settled |-> <<>>,
          orphans |-> {}, onStop |-> "no", ended |-> FALSE, pins |-> {}, cards |-> {},
          verdicts |-> [id \in Requests |-> <<>>]]
  /\ stream = [held |-> {}, seen |-> {}, sentInit |-> FALSE]
  /\ queue = [lines |-> <<>>, closed |-> FALSE, pc |-> "idle", hand |-> NoLine]
  /\ agent = [alive |-> TRUE, read |-> {}, told |-> [id \in Requests |-> <<>>], finish |-> "no"]
  /\ approved = {} /\ turns = 0 /\ oversized = 0

-----------------------------------------------------------------------------
(* Conversation's helpers.  The tables are maps by request_id; an item is  *)
(* the request_id, the content that was shown and the order of arrival, in *)
(* which several items are settled.                                        *)

Ids(items) == {item.id : item \in items}

Without(items, ids) == {item \in items : item.id \notin ids}

ContentOf(items, id) == (CHOOSE item \in items : item.id = id).content

InOrder(items) == SetToSortSeq(items, LAMBDA i, j : i.seq < j.seq)

(* settleLocked: the oldest settled ids are forgotten. *)
Remember(settled, item) ==
  IF item.id \in Range(settled) THEN settled
  ELSE Append(IF Len(settled) >= MaxSettled THEN Tail(settled) ELSE settled, item.id)

settle(d, items) ==
  [d EXCEPT !.pending = Without(@, Ids(items)),
            !.settled = FoldLeft(Remember, @, InOrder(items))]

(* Publishing resolutions, and their unpins.  After Hub.Close an Update    *)
(* does nothing.                                                           *)
emitResolved(d, ids, by, outcome) ==
  IF d.ended THEN d
  ELSE [d EXCEPT !.verdicts = [id \in Requests |->
                    IF id \in ids THEN Append(@[id], [by |-> by, outcome |-> outcome]) ELSE @[id]],
                 !.pins = @ \ ids]

expireAll(d) ==
  [emitResolved(settle(d, d.pending), Ids(d.pending), "policy", "cancelled") EXCEPT
     !.orphans = @ \cup Ids(d.pending)]

(* failLocked: a line could not be written.  (Mutant: the agent is left    *)
(* behind.)                                                                *)
CallOnStop(d) == [d EXCEPT !.onStop = IF @ = "no" THEN "called" ELSE @]

failOnly(d) == expireAll([d EXCEPT !.state = "closed", !.stopped = TRUE])
fail(d) == expireAll(CallOnStop([d EXCEPT !.state = "closed", !.stopped = TRUE]))

-----------------------------------------------------------------------------
(* The queue to the agent *)

CanWrite == ~queue.closed /\ Len(queue.lines) < MaxLines

WriteLine(line) == queue' = [queue EXCEPT !.lines = Append(@, line)]

Discarded(q) == [q EXCEPT !.closed = TRUE, !.lines = <<>>]

(* One handler's write: with is what becomes of c when it is queued,       *)
(* without when it is refused.                                             *)
WriteOr(line, with, without) ==
  \/ CanWrite /\ WriteLine(line) /\ c' = with
  \/ ~CanWrite /\ UNCHANGED queue /\ c' = without

(* drain takes a line and writes it; a write that fails closes the queue   *)
(* and then stops the conversation (onFail).                               *)
DrainTake ==
  /\ queue.pc = "idle" /\ queue.lines # <<>>
  /\ queue' = [queue EXCEPT !.lines = Tail(@), !.pc = "writing", !.hand = Head(queue.lines)]
  /\ UNCHANGED <<c, stream, agent, approved, turns, oversized>>

DrainWrites ==
  LET line == queue.hand
  IN  /\ queue.pc = "writing" /\ agent.alive
      /\ queue' = [queue EXCEPT !.pc = "idle", !.hand = NoLine]
      /\ agent' = IF line.kind = "prompt" THEN [agent EXCEPT !.read = @ \cup {line}]
                  ELSE [agent EXCEPT !.told[line.id] = Append(@, line)]
      /\ UNCHANGED <<c, stream, approved, turns, oversized>>

DrainFails ==
  /\ queue.pc = "writing"
  /\ queue' = [Discarded(queue) EXCEPT !.pc = "failed", !.hand = NoLine]
  /\ UNCHANGED <<c, stream, agent, approved, turns, oversized>>

DrainEnds ==
  /\ queue.pc = "idle" /\ queue.lines = <<>> /\ queue.closed
  /\ queue' = [queue EXCEPT !.pc = "done"]
  /\ UNCHANGED <<c, stream, agent, approved, turns, oversized>>

-----------------------------------------------------------------------------
(* What the users do: Send, Resolve, Stop *)

(* encodePrompt puts the initialize line before the first prompt, and      *)
(* counts it as sent.                                                      *)
Send ==
  /\ turns < MaxTurns
  /\ c.state = "idle" /\ ~c.stopped
  /\ stream' = [stream EXCEPT !.sentInit = TRUE]
  /\ WriteOr(Prompt(~stream.sentInit), [c EXCEPT !.state = "turn"], fail(c))
  /\ turns' = turns + 1
  /\ UNCHANGED <<agent, approved, oversized>>

(* An answer: which launch and which content the screen showed, whether it *)
(* sends the content_hash, and whether it goes to the form's or the        *)
(* permission's endpoint.  It may arrive late, twice, or after another     *)
(* one.                                                                    *)
Answers ==
  [id : Requests, saw : Contents, current : BOOLEAN, hash : BOOLEAN, form : BOOLEAN,
   allow : BOOLEAN]

Shown(a) == a.current => <<a.id, a.saw>> \in c.cards

(* verifyHash *)
HashAccepted(a, held) == IF a.hash THEN a.saw = held ELSE ~RequireHash

(* heldLocked, after the generation was compared.  (Mutant: it is not.) *)
AcceptedFromAnyLaunch(a) ==
  /\ a.id \in Ids(c.pending) /\ a.form = (a.id \in Forms)
  /\ HashAccepted(a, ContentOf(c.pending, a.id))

Accepted(a) ==
  /\ a.current
  /\ a.id \in Ids(c.pending) /\ a.form = (a.id \in Forms)
  /\ HashAccepted(a, ContentOf(c.pending, a.id))

(* The Stream forgets the request and makes the reply from the input that  *)
(* it holds itself.  (Mutant: it does not forget.)                         *)
ReleasedNot(s, id) == s
Released(s, id) == [s EXCEPT !.held = Without(@, {id})]

(* writeResolveLocked *)
Resolve(a) ==
  LET settled == settle(c, {item \in c.pending : item.id = a.id})
      input == ContentOf(stream.held, a.id)
  IN  /\ Accepted(a)
      /\ a.id \in Ids(stream.held)
      /\ stream' = Released(stream, a.id)
      /\ WriteOr(Reply(a.id, a.allow, input),
                 emitResolved(settled, {a.id}, "human", IF a.allow THEN "allow" ELSE "reject"),
                 fail(emitResolved(settled, {a.id}, "policy", "cancelled")))
      /\ approved' = IF a.allow THEN approved \cup {<<a.id, a.saw>>} ELSE approved
      /\ UNCHANGED <<agent, turns, oversized>>

(* The Stream no longer holds the request: nothing is published. *)
ResolveRefused(a) ==
  /\ Accepted(a)
  /\ a.id \notin Ids(stream.held)
  /\ c' = [settle(c, {item \in c.pending : item.id = a.id}) EXCEPT !.pins = @ \ {a.id}]
  /\ UNCHANGED <<stream, queue, agent, approved, turns, oversized>>

stop(d) == CallOnStop(IF d.stopped THEN d ELSE expireAll([d EXCEPT !.stopped = TRUE]))

Stop ==
  /\ c' = stop(c)
  /\ UNCHANGED <<stream, queue, agent, approved, turns, oversized>>

DrainStops ==
  /\ queue.pc = "failed"
  /\ c' = stop(c)
  /\ queue' = [queue EXCEPT !.pc = "done"]
  /\ UNCHANGED <<stream, agent, approved, turns, oversized>>

(* OnStop, once: it discards the queue, then closes the agent's input and  *)
(* stops the cage.                                                         *)
OnStop ==
  /\ c.onStop = "called"
  /\ c' = [c EXCEPT !.onStop = "done"]
  /\ queue' = Discarded(queue)
  /\ UNCHANGED <<stream, agent, approved, turns, oversized>>

-----------------------------------------------------------------------------
(* OnLine: what the agent says.  Its output is read on after Stop, and     *)
(* even after Close when it lasts longer than chatReadDrain.               *)

Reading == agent.finish # "eof"

(* Registering a request: an id is taken once.  A malformed one is only    *)
(* remembered.                                                             *)
Fresh(id) == id \notin stream.seen /\ Cardinality(stream.held) < StreamMax

Item(id, content) == [id |-> id, content |-> content, seq |-> Cardinality(stream.seen)]

Taken(id, content) ==
  [stream EXCEPT !.seen = @ \cup {id}, !.held = @ \cup {Item(id, content)}]

Malformed(id) ==
  /\ Reading /\ Fresh(id)
  /\ stream' = [stream EXCEPT !.seen = @ \cup {id}]
  /\ UNCHANGED <<c, queue, agent, approved, turns, oversized>>

Answerable == c.state = "turn" /\ ~c.stopped /\ Cardinality(c.pending) < MaxPending

Carded(id, content) ==
  IF c.ended THEN c ELSE [c EXCEPT !.cards = @ \cup {<<id, content>>}]

Asked(id, content) ==
  /\ Reading /\ Fresh(id) /\ Answerable
  /\ stream' = Taken(id, content)
  /\ c' = [Carded(id, content) EXCEPT
             !.pending = Without(@, {id}) \cup {Item(id, content)},
             !.pins = @ \cup {id}]
  /\ UNCHANGED <<queue, agent, approved, turns, oversized>>

(* autoRejectLocked: a request nobody can answer is shown and refused.     *)
AutoReject(id, content) ==
  LET shown == settle(Carded(id, content), {Item(id, content)})
  IN  /\ Reading /\ Fresh(id) /\ ~Answerable
      /\ \/ /\ c.state = "closed" \/ c.stopped
            /\ stream' = Taken(id, content)
            /\ c' = [emitResolved(shown, {id}, "policy", "cancelled") EXCEPT !.orphans = @ \cup {id}]
            /\ UNCHANGED queue
         \/ /\ c.state # "closed" /\ ~c.stopped
            /\ stream' = Released(Taken(id, content), id)
            /\ WriteOr(Reply(id, FALSE, content),
                       emitResolved(shown, {id}, "policy", "reject"),
                       fail(emitResolved(shown, {id}, "policy", "cancelled")))
      /\ UNCHANGED <<agent, approved, turns, oversized>>

(* Resolutions by the Stream: they settle waiting requests; those that the *)
(* conversation had settled first are dropped.  (Mutants: they are         *)
(* published all the same; they stay in the table.)                        *)
Waiting(d, items) == {item \in items : item.id \in Ids(d.pending)}
Dropped(d, items) == {item \in items \ Waiting(d, items) : item.id \in d.orphans}

ClosedByAgentAlways(d, items) ==
  emitResolved(settle(d, items), Ids(items), "agent", "cancelled")

ClosedByAgentLeaks(d, items) ==
  emitResolved(settle(d, Waiting(d, items)), Ids(items \ Dropped(d, items)), "agent", "cancelled")

ClosedByAgent(d, items) ==
  [emitResolved(settle(d, Waiting(d, items)), Ids(items \ Dropped(d, items)),
                "agent", "cancelled") EXCEPT
     !.orphans = @ \ Ids(Dropped(d, items))]

(* control_cancel_request *)
Cancel(item) ==
  /\ Reading /\ item \in stream.held
  /\ stream' = Released(stream, item.id)
  /\ c' = ClosedByAgent(c, {item})
  /\ UNCHANGED <<queue, agent, approved, turns, oversized>>

(* result: the Stream closes all it holds, and the turn is over. *)
TurnCompleted(d) ==
  IF d.state = "turn" THEN expireAll([d EXCEPT !.state = "idle"]) ELSE d

Result ==
  /\ Reading
  /\ stream' = [stream EXCEPT !.held = {}]
  /\ c' = TurnCompleted(ClosedByAgent(c, stream.held))
  /\ UNCHANGED <<queue, agent, approved, turns, oversized>>

(* A line with an event larger than DefaultMaxEvent: the Stream has moved  *)
(* on when Feed refuses all the events of the line.                        *)
Oversized ==
  /\ Reading /\ oversized < MaxOversized
  /\ oversized' = oversized + 1
  /\ \/ stream' = [stream EXCEPT !.held = {}]
     \/ \E id \in Requests, content \in Contents :
          Fresh(id) /\ stream' = Taken(id, content)
  /\ UNCHANGED <<c, queue, agent, approved, turns>>

-----------------------------------------------------------------------------
(* The end of the agent: it exits on its own or is stopped; serve then     *)
(* calls Finish, which closes the conversation and discards the queue.     *)

Exit ==
  /\ agent.alive
  /\ agent' = [agent EXCEPT !.alive = FALSE]
  /\ UNCHANGED <<c, stream, queue, approved, turns, oversized>>

Close ==
  /\ ~agent.alive /\ agent.finish = "no"
  /\ c' = [expireAll([c EXCEPT !.state = "closed"]) EXCEPT !.ended = TRUE]
  /\ agent' = [agent EXCEPT !.finish = "closed"]
  /\ UNCHANGED <<stream, queue, approved, turns, oversized>>

FinishDiscards ==
  /\ agent.finish = "closed"
  /\ queue' = Discarded(queue)
  /\ agent' = [agent EXCEPT !.finish = "discarded"]
  /\ UNCHANGED <<c, stream, approved, turns, oversized>>

OutputEnds ==
  /\ agent.finish = "discarded"
  /\ agent' = [agent EXCEPT !.finish = "eof"]
  /\ UNCHANGED <<c, stream, queue, approved, turns, oversized>>

-----------------------------------------------------------------------------
Drain == DrainTake \/ DrainWrites \/ DrainFails \/ DrainEnds \/ DrainStops

Ending == Close \/ FinishDiscards \/ OutputEnds

OnLine ==
  \/ \E id \in Requests : Malformed(id) \/ \E t \in Contents : Asked(id, t) \/ AutoReject(id, t)
  \/ \E item \in stream.held : Cancel(item)
  \/ Result
  \/ Oversized

Next ==
  \/ Send
  \/ \E a \in Answers : Shown(a) /\ (Resolve(a) \/ ResolveRefused(a))
  \/ Stop \/ OnStop
  \/ OnLine
  \/ Drain
  \/ Exit \/ Ending

(* Goroutines run on, an agent whose cage was stopped exits, and a write   *)
(* to an agent that has exited fails.                                      *)
Fairness ==
  /\ WF_vars(OnStop)
  /\ WF_vars(c.onStop = "done" /\ Exit)
  /\ WF_vars(Ending)
  /\ WF_vars(DrainTake \/ DrainEnds \/ DrainStops \/ (~agent.alive /\ DrainFails))

Spec == Init /\ [][Next]_vars
FairSpec == Spec /\ Fairness
-----------------------------------------------------------------------------
(* Properties *)

\* Type correctness of the conversation, its Stream, its queue and its agent.
TypeOK ==
  LET Items == [id : Requests, content : Contents, seq : Nat]
      Lines == [kind : {"prompt"}, init : BOOLEAN] \cup
               [kind : {"reply"}, id : Requests, allow : BOOLEAN, input : Contents]
  IN  /\ c.state \in {"idle", "turn", "closed"} /\ c.stopped \in BOOLEAN
      /\ c.pending \subseteq Items /\ Cardinality(c.pending) <= MaxPending
      /\ c.settled \in Seq(Requests) /\ Len(c.settled) <= MaxSettled
      /\ c.orphans \subseteq Requests /\ c.onStop \in {"no", "called", "done"}
      /\ c.ended \in BOOLEAN /\ c.pins \subseteq Requests
      /\ c.cards \subseteq Requests \X Contents
      /\ \A id \in Requests : Range(c.verdicts[id]) \subseteq
           [by : {"human", "policy", "agent"}, outcome : {"allow", "reject", "cancelled"}]
      /\ stream.held \subseteq Items /\ Cardinality(stream.held) <= StreamMax
      /\ stream.seen \subseteq Requests /\ stream.sentInit \in BOOLEAN
      /\ queue.lines \in Seq(Lines) /\ Len(queue.lines) <= MaxLines
      /\ queue.closed \in BOOLEAN /\ queue.hand \in Lines \cup {NoLine}
      /\ queue.pc \in {"idle", "writing", "failed", "done"}
      /\ agent.alive \in BOOLEAN /\ agent.read \subseteq Lines
      /\ agent.finish \in {"no", "closed", "discarded", "eof"}

(* Every line on its way to the agent or read by it. *)
AllLines ==
  Range(queue.lines) \cup {queue.hand} \cup agent.read
    \cup UNION {Range(agent.told[id]) : id \in Requests}

Displayed == {card[1] : card \in c.cards}

(* "A request has exactly one resolution" (spec/v0): a request that was    *)
(* shown and does not wait any more has one published resolution, a        *)
(* waiting one has none -- whoever settled it, the agent, the policy or a  *)
(* user, and in whichever order they came.                                 *)
OneVerdict ==
  \A id \in Displayed : Len(c.verdicts[id]) = IF id \in Ids(c.pending) THEN 0 ELSE 1

(* The agent is allowed only an input that a user of this launch had on    *)
(* the screen and allowed: an answer to another launch, to another content *)
(* of the same request_id or to the other kind of request never counts.    *)
AllowedWasSeen ==
  \A line \in AllLines : line.kind = "reply" /\ line.allow => <<line.id, line.input>> \in approved

(* Feed has refused no line of the agent as too large. *)
AllPublished == oversized = 0

(* So it is with every line of the agent that could be published; one that *)
(* was refused is what OneVerdict alone does not survive.                  *)
SettledOnce == AllPublished => OneVerdict

(* The conversation's tables agree with the Stream's: what the Stream      *)
(* still holds of the shown requests is what waits and what the            *)
(* conversation settled first (orphans), which bounds orphans; and the Hub *)
(* pins exactly the requests that wait, until it is closed.                *)
TablesAgree ==
  /\ AllPublished =>
        /\ Ids(c.pending) \cap c.orphans = {}
        /\ Ids(c.pending) \cup c.orphans = Ids(stream.held)
  /\ ~c.ended => c.pins = Ids(c.pending)

(* The contract of Approval: a decision is final, and the agent is told at *)
(* most once, and nothing but what was published.                          *)
status ==
  [id \in Requests |->
     IF c.verdicts[id] # <<>> THEN Last(c.verdicts[id]).outcome
     ELSE IF id \in Displayed THEN "open" ELSE "unasked"]

told ==
  [id \in Requests |->
     IF agent.told[id] = <<>> THEN "nothing"
     ELSE IF Len(agent.told[id]) > 1 THEN "twice"
     ELSE IF agent.told[id][1].allow THEN "allow" ELSE "reject"]

A == INSTANCE Approval

ImplementsApproval == A!ApprovalSpec

(* A conversation that is told to stop ends: the agent is stopped, the     *)
(* Hub is closed, and the queue's goroutine is gone.                       *)
StopEnds == c.stopped ~> (c.ended /\ queue.pc = "done")
=============================================================================
