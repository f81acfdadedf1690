------------------------------ MODULE EventHub ------------------------------
(***************************************************************************)
(* The Hub of one conversation (cmd/internal/chat/hub.go) and the writer   *)
(* goroutine that copies its durable events to the EventLog                *)
(* (cmd/internal/chat/durable.go).                                         *)
(*                                                                         *)
(* Events are published with consecutive seqs from 0 (Feed numbers them    *)
(* and Conversation publishes them under one mutex), so an event is its    *)
(* seq, the ring is the interval head..nextSeq-1, and only durability and  *)
(* size are kept of its content.  Hub.Update holds Hub.mu throughout; the  *)
(* writer is not excluded by that mutex, so the eviction loop, which reads *)
(* the writer's progress, is a sequence of steps of its own (updating).    *)
(* `ended' also stands for storeWriter.closing: Hub.Close sets both, under *)
(* the mutex that enqueue runs under.                                      *)
(***************************************************************************)
EXTENDS EventLog, Sequences

CONSTANTS
  MaxBytes,         \* HubConfig.MaxBytes, the ring
  MaxPinned,        \* HubConfig.MaxPinned
  QueueMax,         \* storeWriter.queueMax, the ops not yet taken
  GCMax,            \* storeWriter.gcMax, the payload that triggers a Trim
  GCTarget,         \* what a Trim leaves: gcMax / gcTargetDen * gcTargetNum
  SlowRun,          \* storeWriter.slowRun, slow commits in a row that degrade
  MaxSeq,           \* bound of the model: events published
  MaxBatch          \* bound of the model: events per Update

ASSUME HubAssumption ==
  /\ MaxBytes \in Nat /\ MaxPinned \in Nat /\ QueueMax \in Nat
  /\ GCMax \in Nat /\ GCTarget \in 0..GCMax
  /\ SlowRun \in Nat \ {0}
  /\ MaxSeq \in Nat /\ MaxBatch \in Nat

VARIABLES
  nextSeq,          \* Hub.nextSeq
  durable,          \* the published seqs whose Event.Durable is true
  head,             \* seq of the first event in the ring (nextSeq when it is empty)
  pinned,           \* Hub.pinned
  ended,            \* Hub.ended
  updating,         \* Hub.mu is held by an Update that has yet to evict
  degraded,         \* storeWriter.degraded, with the reason given to OnDegrade; "no" until then
  pending,          \* storeWriter.pending, the queued ops
  written,          \* W: the largest seq the writer knows to be in the log, or -1
  trims,            \* storeWriter.trims: odd while a Trim runs
  trimmed,          \* storeWriter.trimmed: the origin of first_seq, 0 before the first Trim
  wpc,              \* where the writer goroutine is in run
  op,               \* run: the op taken
  failed,           \* run: the last call of the Store returned an error
  first,            \* run: what Trim returned
  stored,           \* run: payload written since, as run counts it
  slow              \* run: slowRun

hubVars == <<nextSeq, durable, head, pinned, ended, updating>>
writerVars == <<wpc, op, failed, first, stored, slow>>
sharedVars == <<degraded, pending, written, trims, trimmed>>
vars == <<storeVars, hubVars, writerVars, sharedVars>>

Seqs == 0..(nextSeq - 1)

(* Why degrade is called: a queue overflow, an eviction ahead of the      *)
(* writer, a failed write, Trim or read, slow commits; and, told apart, a  *)
(* read refused with ErrAfterNotIssued.                                    *)
Reasons == {"fault", "notIssued"}

(* degrade: only the first call does anything. *)
degrade(reason) ==
  /\ degraded' = IF degraded = "no" THEN reason ELSE degraded
  /\ pending' = IF degraded = "no" THEN <<>> ELSE pending

Init ==
  /\ StoreInit
  /\ nextSeq = 0 /\ durable = {} /\ head = 0 /\ pinned = {}
  /\ ended = FALSE /\ updating = FALSE
  /\ degraded = "no" /\ pending = <<>>
  /\ written = -1 /\ trims = 0 /\ trimmed = 0
  /\ wpc = "take" /\ op = NoOp /\ failed = FALSE
  /\ first = 0 /\ stored = 0 /\ slow = 0

-----------------------------------------------------------------------------
(* Hub.Update and Hub.Close *)

(* The fixed part of an op and its pins together weigh one unit. *)
OpSize(o) == 1 + Bytes(o.append)

QueueBytes == FoldFunctionOnSet(LAMBDA o, acc : OpSize(o) + acc, 0, pending, DOMAIN pending)

(* The pins Update takes: in order, until MaxPinned are held; the rest are *)
(* dropped without a word.                                                 *)
AcceptedPins(P) ==
  {seq \in P : Cardinality(pinned) + Cardinality({t \in P : t <= seq}) <= MaxPinned}

QueuedFirst(o) == <<o>> \o pending          \* mutant: a queue in the wrong order
Queued(o) == Append(pending, o)

(* enqueue, in Update: skipped when degraded or when there is nothing to   *)
(* write; degrades on overflow.                                            *)
enqueue(o) ==
  \/ /\ degraded # "no" \/ o = NoOp
     /\ UNCHANGED <<degraded, pending>>
  \/ /\ degraded = "no" /\ o # NoOp
     /\ QueueBytes + OpSize(o) > QueueMax
     /\ degrade("fault")
  \/ /\ degraded = "no" /\ o # NoOp
     /\ QueueBytes + OpSize(o) <= QueueMax
     /\ pending' = Queued(o)
     /\ UNCHANGED degraded

(* Update publishes n events, of which those of D are durable, pins those  *)
(* of P and unpins U.  Conversation pins an event in the Update that       *)
(* publishes it.                                                           *)
Update(n, D, P, U) ==
  LET new == nextSeq..(nextSeq + n - 1)
      pins == AcceptedPins(P)
  IN  /\ ~updating /\ ~ended
      /\ nextSeq + n <= MaxSeq
      /\ n > 0 \/ U # {}
      /\ D \subseteq new /\ P \subseteq new /\ U \subseteq pinned \cup pins
      /\ nextSeq' = nextSeq + n
      /\ durable' = durable \cup D
      /\ pinned' = (pinned \cup pins) \ U
      /\ enqueue([append |-> D, pin |-> pins, unpin |-> U])
      /\ updating' = TRUE
      /\ UNCHANGED <<head, ended, written, trims, trimmed, writerVars, storeVars>>

RingFull == head < nextSeq - 1 /\ Bytes(head..(nextSeq - 1)) > MaxBytes

(* The writer has not confirmed a durable event. *)
UnconfirmedButOne(seq) == seq \in durable /\ seq > written + 1    \* mutant: off by one
Unconfirmed(seq) == seq \in durable /\ seq > written

(* One turn of Update's eviction loop: pushing out a durable event that    *)
(* the writer has not confirmed gives up the log.                          *)
Evict ==
  /\ updating /\ RingFull
  /\ head' = head + 1
  /\ IF Unconfirmed(head)
       THEN degrade("fault")
       ELSE UNCHANGED <<degraded, pending>>
  /\ UNCHANGED <<nextSeq, durable, pinned, ended, updating, written, trims, trimmed,
                 writerVars, storeVars>>

UpdateReturns ==
  /\ updating /\ ~RingFull
  /\ updating' = FALSE
  /\ UNCHANGED <<nextSeq, durable, head, pinned, ended, sharedVars, writerVars, storeVars>>

Close ==
  /\ ~updating /\ ~ended
  /\ ended' = TRUE
  /\ UNCHANGED <<nextSeq, durable, head, pinned, updating, sharedVars, writerVars, storeVars>>

-----------------------------------------------------------------------------
(* storeWriter.run *)

(* mergeOps: appends concatenated; for each seq the last pin or unpin      *)
(* stands, and Unpin wins within one op.                                   *)
mergeOps(ops) ==
  LET I == DOMAIN ops
      Settled(i, seq) == \A j \in I : j > i => seq \notin ops[j].pin \cup ops[j].unpin
  IN  [append |-> UNION {ops[i].append : i \in I},
       pin |-> UNION {{seq \in ops[i].pin \ ops[i].unpin : Settled(i, seq)} : i \in I},
       unpin |-> UNION {{seq \in ops[i].unpin : Settled(i, seq)} : i \in I}]

(* take returns false: the log was given up, or the input is closed and    *)
(* all is taken.  (Mutants: it drops what is queued, it never wakes up.)   *)
FinishedAtOnce == degraded # "no" \/ ended
FinishedIfDegraded == degraded # "no"
Finished == degraded # "no" \/ (ended /\ pending = <<>>)

(* take: some ops from the front of the queue, at least one (how many the  *)
(* limits writeBatchEvents and writeBatchBytes allow is left open).        *)
Take ==
  /\ wpc = "take"
  /\ \/ /\ Finished
        /\ wpc' = "done"
        /\ UNCHANGED <<op, pending>>
     \/ /\ degraded = "no"
        /\ \E n \in 1..Len(pending) :
             /\ op' = mergeOps(SubSeq(pending, 1, n))
             /\ pending' = SubSeq(pending, n + 1, Len(pending))
        /\ wpc' = "apply"
  /\ UNCHANGED <<degraded, written, trims, trimmed, failed, first, stored, slow,
                 hubVars, storeVars>>

(* The call of Apply: it succeeds, or it fails and has changed nothing. *)
WriterApply ==
  /\ wpc = "apply"
  /\ wpc' = "applied"
  /\ \/ Apply(op) /\ failed' = FALSE
     \/ UNCHANGED storeVars /\ failed' = TRUE
  /\ UNCHANGED <<op, first, stored, slow, sharedVars, hubVars>>

(* judge: how long the call took.  A very slow one degrades at once, a     *)
(* slow one when it is the SlowRun-th in a row.                            *)
judge(next) ==
  \/ slow' = 0 /\ wpc' = next /\ UNCHANGED <<degraded, pending>>
  \/ slow' = slow + 1 /\ slow' < SlowRun /\ wpc' = next /\ UNCHANGED <<degraded, pending>>
  \/ slow' = slow /\ wpc' = "done" /\ degrade("fault")

(* What run does with Apply's result. *)
Applied ==
  /\ wpc = "applied"
  /\ \/ /\ degraded # "no"
        /\ wpc' = "done"
        /\ UNCHANGED <<degraded, pending, written, stored, slow>>
     \/ /\ degraded = "no" /\ failed
        /\ degrade("fault")
        /\ wpc' = "done"
        /\ UNCHANGED <<written, stored, slow>>
     \/ /\ degraded = "no" /\ ~failed
        /\ written' = IF op.append = {} THEN written ELSE Max(op.append)
        /\ stored' = stored + Bytes(op.append)
        /\ judge(IF stored' > GCMax THEN "trim" ELSE "take")
  /\ op' = NoOp /\ failed' = FALSE
  /\ UNCHANGED <<first, trims, trimmed, hubVars, storeVars>>

TrimBegins ==
  /\ wpc = "trim"
  /\ trims' = trims + 1
  /\ wpc' = "trimming"
  /\ UNCHANGED <<degraded, pending, written, trimmed, op, failed, first, stored, slow,
                 hubVars, storeVars>>

WriterTrim ==
  /\ wpc = "trimming"
  /\ wpc' = "trimmed"
  /\ \/ /\ \E f \in 0..nextSeq : Trim(GCTarget, f) /\ first' = f
        /\ failed' = FALSE
     \/ /\ UNCHANGED <<storeVars, first>>
        /\ failed' = TRUE
  /\ UNCHANGED <<op, stored, slow, sharedVars, hubVars>>

(* What run makes of the seq that Trim returned: 0 means no unpinned row   *)
(* is left, so everything up to W is gone.                                 *)
NewFirstAsIs == first                       \* mutant: 0 is taken for a seq
NewFirst == IF first = 0 THEN written + 1 ELSE first

TrimmedAsTold == NewFirst                   \* mutant: trimmed may go back
TrimmedTo == Larger(trimmed, NewFirst)

(* What run does with Trim's result: trimmed never goes back, and is set   *)
(* before trims is even again, ...                                         *)
TrimEnds ==
  /\ wpc = "trimmed"
  /\ trims' = trims + 1
  /\ trimmed' = IF failed THEN trimmed ELSE TrimmedTo
  /\ wpc' = "judge"
  /\ first' = 0
  /\ UNCHANGED <<degraded, pending, written, op, failed, stored, slow, hubVars, storeVars>>

(* ... and only then is a failed or slow Trim judged. *)
TrimJudged ==
  /\ wpc = "judge"
  /\ \/ /\ failed
        /\ degrade("fault")
        /\ wpc' = "done"
        /\ UNCHANGED <<stored, slow>>
     \/ /\ ~failed
        /\ stored' = GCTarget
        /\ judge("take")
  /\ failed' = FALSE
  /\ UNCHANGED <<written, trims, trimmed, op, first, hubVars, storeVars>>

Writer == Take \/ WriterApply \/ Applied \/ TrimBegins \/ WriterTrim \/ TrimEnds
          \/ TrimJudged

-----------------------------------------------------------------------------
(* What the rest of the process does to the Hub and the log. *)

(* Backfill.fail: a reader could not read the log, or was refused. *)
ReadFails(reason) ==
  /\ reason \in Reasons
  /\ degrade(reason)
  /\ UNCHANGED <<written, trims, trimmed, hubVars, writerVars, storeVars>>

(* chatLog.Close: serve closes the log some time after the Hub; it waits   *)
(* for the writer, but only up to chatLogCloseWait.                        *)
CloseLog ==
  /\ ended
  /\ CloseStore
  /\ UNCHANGED <<hubVars, writerVars, sharedVars>>

HubStep ==
  \/ \E n \in 0..MaxBatch :
       \E D, P \in SUBSET (nextSeq..(nextSeq + n - 1)) :
         \E U \in SUBSET (pinned \cup P) : Update(n, D, P, U)
  \/ Evict
  \/ UpdateReturns
  \/ Close

Next == HubStep \/ Writer \/ CloseLog \/ \E reason \in Reasons : ReadFails(reason)

(* The mutex is always released and the goroutine always runs on. *)
Fairness == WF_vars(Evict \/ UpdateReturns) /\ WF_vars(Writer)

Spec == Init /\ [][Next]_vars
FairSpec == Spec /\ Fairness

-----------------------------------------------------------------------------
(* Properties *)

Ops == [append : SUBSET Nat, pin : SUBSET Nat, unpin : SUBSET Nat]

\* Type correctness of the Hub, its writer and the log.
TypeOK ==
  /\ rows \subseteq Seqs /\ rowPinned \subseteq rows
  /\ last \in -1..(nextSeq - 1) /\ storeTrimmed \in -1..(nextSeq - 1)
  /\ floor \in Nat /\ closed \in BOOLEAN
  /\ nextSeq \in Nat /\ durable \subseteq Seqs /\ head \in 0..nextSeq
  /\ pinned \subseteq Seqs /\ ended \in BOOLEAN /\ updating \in BOOLEAN
  /\ degraded \in Reasons \cup {"no"} /\ pending \in Seq(Ops)
  /\ written \in -1..(nextSeq - 1) /\ trims \in Nat /\ trimmed \in Nat
  /\ wpc \in {"take", "apply", "applied", "trim", "trimming", "trimmed", "judge", "done"}
  /\ op \in Ops /\ failed \in BOOLEAN /\ first \in Nat
  /\ slow \in Nat

(* While the log is in use, a durable event that has left the ring is in   *)
(* the log, unless a Trim deleted it or serve removed the log: this is the *)
(* "W rule" of Hub.Update, that an event is never out of both places.      *)
EvictedAreStored ==
  degraded = "no" /\ ~closed =>
    \A seq \in durable : seq < head => seq \in rows \/ seq <= storeTrimmed

(* The first_seq a resumed reader is told is honest: outside a running     *)
(* Trim, every durable event from storeWriter.trimmed up to W has its row, *)
(* so a reader may be promised everything from there on.                   *)
FirstSeqHonest ==
  trims % 2 = 0 /\ ~closed =>
    \A seq \in durable : trimmed <= seq /\ seq <= written => seq \in rows

(* A request that waits for an answer survives the garbage collection: as  *)
(* long as the Hub pins it, its row is kept, with the pin, in spite of the *)
(* ops that are queued, merged and applied later.                          *)
PinnedKept ==
  ~closed => \A p \in pinned \cap durable : p <= last => p \in rows \cap rowPinned

(* The writer never offers the Store a seq out of order (ErrSeqOrder), so  *)
(* Apply refuses it only once the log is closed.                           *)
InOrder == wpc = "apply" => Accepts(op) \/ closed

(* A writer that ends without having degraded has written everything. *)
Drained == wpc = "done" /\ degraded = "no" => \A seq \in durable : seq <= written

(* The contract in Trim's comment, and what SubscribeAfter relies on: a    *)
(* first_seq that was given out is never taken back.                       *)
FirstSeqMonotone == [][trimmed' >= trimmed /\ (first' > 0 => first' >= floor)]_vars

(* WaitStore returns: after Hub.Close the writer writes what is queued, or *)
(* degrades, and ends.                                                     *)
WriterEnds == ended ~> (wpc = "done")
=============================================================================
