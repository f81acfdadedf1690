----------------------------- MODULE ChatStream -----------------------------
(***************************************************************************)
(* The readers of a conversation: each is a browser page                   *)
(* (assets/chat/chat-core.js, chat.js) and the GET /events request that    *)
(* feeds it (serve_chat_http.go), on top of the Hub and its log.  A        *)
(* request sends hello, then what the log still has (Backfill), then the   *)
(* ring as it was when the subscription began (Snapshot), then live        *)
(* events.  A page that loses its connection dials again with the last seq *)
(* it has seen.                                                            *)
(*                                                                         *)
(* The live queue of a subscription always holds the events from some seq  *)
(* up to nextSeq-1, because Update pushes every event under Hub.mu, so it  *)
(* is represented by that seq (qnext).                                     *)
(***************************************************************************)
EXTENDS EventHub

CONSTANTS
  Readers,          \* the pages
  SubEvents,        \* HubConfig.SubEvents, the length of a live queue
  SubBytes,         \* HubConfig.SubBytes, its size
  Batch             \* Backfill.batch, the rows of one Range

ASSUME StreamAssumption ==
  SubEvents \in Nat /\ SubBytes \in Nat /\ Batch \in Nat \ {0}

VARIABLES
  conn,             \* the request of each page and its Subscription
  view              \* what each page shows: lastSeq, the events shown, the omission mark

streamVars == <<vars, conn, view>>

Connected == {"check", "range", "rows", "recheck", "snap", "live"}

NoConn ==
  [pc |-> "off", trims |-> 0, resumed |-> FALSE, first |-> 0, after |-> -1, cursor |-> -1,
   before |-> 0, rows |-> {}, snap |-> {}, qnext |-> 0, done |-> "no"]

StreamInit ==
  /\ Init
  /\ conn = [r \in Readers |-> NoConn]
  /\ view = [r \in Readers |-> [last |-> -1, got |-> {}, omitted |-> FALSE]]

(* applyEvent, for events that arrive in seq order: what is not newer than *)
(* lastSeq is dropped.                                                     *)
Shown(v, S) ==
  LET new == {seq \in S : seq > v.last}
  IN  IF new = {} THEN v ELSE [v EXCEPT !.last = Max(new), !.got = @ \cup new]

(* applyHello: a first_seq beyond the next expected seq marks an omission. *)
Greeted(v, firstSeq) == [v EXCEPT !.omitted = @ \/ (firstSeq > v.last + 1 /\ firstSeq > 0)]

-----------------------------------------------------------------------------
(* Subscribing *)

LiveFrom == nextSeq

(* subscribeLocked: the pinned events that left the ring, then the ring. *)
Full ==
  [NoConn EXCEPT !.pc = "snap", !.first = head, !.before = head,
                 !.snap = {p \in pinned : p < head} \cup head..(nextSeq - 1),
                 !.qnext = LiveFrom, !.done = IF ended THEN "eof" ELSE "no"]

(* A pinned event that left the ring and is in no log: only the full       *)
(* replay has it.  (Mutant: no such check.)                                *)
pinnedNeverOnlyInMemory(after) == FALSE
pinnedOnlyInMemory(after) == \E p \in pinned : after < p /\ p < head /\ p \notin durable

(* The first_seq of a resumed subscription. *)
ResumedFirst(t) ==
  IF t = 0 THEN 0
  ELSE IF trimmed # 0 /\ trimmed < head THEN trimmed ELSE head

Resumed(after, t) ==
  [NoConn EXCEPT !.pc = IF after + 1 < head THEN "check" ELSE "snap",
                 !.resumed = TRUE, !.trims = t, !.first = ResumedFirst(t),
                 !.after = after, !.cursor = after, !.before = head,
                 !.snap = {seq \in head..(nextSeq - 1) : seq > after},
                 !.qnext = LiveFrom, !.done = IF ended THEN "eof" ELSE "no"]

Begin(r, c) ==
  /\ conn' = [conn EXCEPT ![r] = c]
  /\ view' = [view EXCEPT ![r] = Greeted(view[r], c.first)]
  /\ UNCHANGED vars

(* A page that has seen nothing asks for everything. *)
Subscribe(r) ==
  /\ conn[r].pc = "off" /\ view[r].last = -1
  /\ ~updating
  /\ Begin(r, Full)

(* SubscribeAfter reads trims before it takes Hub.mu ... *)
Dial(r) ==
  /\ conn[r].pc = "off" /\ view[r].last >= 0
  /\ conn' = [conn EXCEPT ![r] = [NoConn EXCEPT !.pc = "dial", !.trims = trims]]
  /\ UNCHANGED <<vars, view>>

(* ... and the rest under it.  The handler turns ErrBadAfter into the full *)
(* replay, too.                                                            *)
SubscribeAfter(r) ==
  LET after == view[r].last
      t == conn[r].trims
      full == \/ after >= nextSeq
              \/ degraded # "no"
              \/ t % 2 = 1
              \/ pinnedOnlyInMemory(after)
  IN  /\ conn[r].pc = "dial"
      /\ ~updating
      /\ Begin(r, IF full THEN Full ELSE Resumed(after, t))

-----------------------------------------------------------------------------
(* Backfill.Next, called until io.EOF *)

Hangs(r) == conn' = [conn EXCEPT ![r] = NoConn]

(* A Trim began since the subscription did. *)
Overtaken(r) == trims # conn[r].trims

BackfillCheck(r) ==
  /\ conn[r].pc = "check"
  /\ IF Overtaken(r) THEN Hangs(r) ELSE conn' = [conn EXCEPT ![r].pc = "range"]
  /\ UNCHANGED <<vars, view>>

BackfillRange(r) ==
  LET c == conn[r]
      batch == StoreRange(c.cursor, c.before, Batch)
  IN  /\ c.pc = "range"
      /\ ~closed /\ ~AfterNotIssued(c.cursor)
      /\ conn' = [conn EXCEPT ![r].pc = IF batch = {} THEN "recheck" ELSE "rows",
                              ![r].rows = batch]
      /\ UNCHANGED <<vars, view>>

BackfillRefused(r) ==
  /\ conn[r].pc = "range"
  /\ ~closed /\ AfterNotIssued(conn[r].cursor)
  /\ ReadFails("notIssued")
  /\ Hangs(r)
  /\ UNCHANGED view

(* A closed log, an SQL error, or a row that fails the checks of           *)
(* storedEvent.                                                            *)
BackfillFails(r) ==
  /\ conn[r].pc = "range"
  /\ ReadFails("fault")
  /\ Hangs(r)
  /\ UNCHANGED view

SendRows(r) ==
  /\ conn[r].pc = "rows"
  /\ conn' = [conn EXCEPT ![r].pc = "check", ![r].cursor = Max(conn[r].rows), ![r].rows = {}]
  /\ view' = [view EXCEPT ![r] = Shown(view[r], conn[r].rows)]
  /\ UNCHANGED vars

(* An empty batch is the end, unless a Trim ran meanwhile. *)
BackfillEnds(r) ==
  /\ conn[r].pc = "recheck"
  /\ IF Overtaken(r) THEN Hangs(r) ELSE conn' = [conn EXCEPT ![r].pc = "snap"]
  /\ UNCHANGED <<vars, view>>

-----------------------------------------------------------------------------
(* Snapshot and live events *)

SendSnapshot(r) ==
  /\ conn[r].pc = "snap"
  /\ conn' = [conn EXCEPT ![r].pc = "live", ![r].snap = {}]
  /\ view' = [view EXCEPT ![r] = Shown(view[r], conn[r].snap)]
  /\ UNCHANGED vars

(* Subscription.Next: the queue first, then why it ended. *)
SendLive(r) ==
  LET c == conn[r]
  IN  /\ c.pc = "live"
      /\ \/ /\ c.done # "slow" /\ c.qnext < nextSeq
            /\ conn' = [conn EXCEPT ![r].qnext = @ + 1]
            /\ view' = [view EXCEPT ![r] = Shown(view[r], {c.qnext})]
         \/ /\ c.done = "slow"
            /\ Hangs(r)
            /\ UNCHANGED view
         \/ /\ c.done = "eof" /\ c.qnext = nextSeq
            /\ conn' = [conn EXCEPT ![r] = [NoConn EXCEPT !.pc = "end"]]
            /\ UNCHANGED view
      /\ UNCHANGED vars

(* The connection breaks, or chatBackfillMaxBytes is reached: of what was  *)
(* being sent, a prefix arrives.                                           *)
Disconnect(r) ==
  LET c == conn[r]
      sending == IF c.pc = "rows" THEN c.rows ELSE IF c.pc = "snap" THEN c.snap ELSE {}
  IN  /\ c.pc \in Connected
      /\ \E upto \in {-1} \cup sending :
           view' = [view EXCEPT ![r] = Shown(view[r], {seq \in sending : seq <= upto})]
      /\ Hangs(r)
      /\ UNCHANGED vars

-----------------------------------------------------------------------------
(* The Hub's side *)

(* Hub.subs.  (Mutant: it lacks those still busy with Backfill.) *)
RegisteredLive(r) == conn[r].pc = "live" /\ conn[r].done = "no"
Registered(r) == conn[r].pc \in Connected /\ conn[r].done = "no"

(* push, for the events from nextSeq to n-1: an empty queue takes any one  *)
(* event, a longer one is bounded.                                         *)
Overflows(r, n) ==
  \E seq \in nextSeq..(n - 1) :
    /\ seq > conn[r].qnext
    /\ \/ seq - conn[r].qnext + 1 > SubEvents
       \/ Bytes(conn[r].qnext..seq) > SubBytes

Publish(n, D, P, U) ==
  /\ Update(n, D, P, U)
  /\ conn' = [r \in Readers |-> IF Registered(r) /\ Overflows(r, nextSeq')
                                THEN [conn[r] EXCEPT !.done = "slow"] ELSE conn[r]]
  /\ UNCHANGED view

StreamClose ==
  /\ Close
  /\ conn' = [r \in Readers |-> IF Registered(r)
                                THEN [conn[r] EXCEPT !.done = "eof"] ELSE conn[r]]
  /\ UNCHANGED view

Send(r) ==
  \/ SubscribeAfter(r) \/ BackfillCheck(r) \/ BackfillRange(r) \/ BackfillRefused(r)
  \/ BackfillFails(r) \/ SendRows(r) \/ BackfillEnds(r) \/ SendSnapshot(r) \/ SendLive(r)

StreamNext ==
  \/ \E n \in 0..MaxBatch :
       \E D, P \in SUBSET (nextSeq..(nextSeq + n - 1)) :
         \E U \in SUBSET (pinned \cup P) : Publish(n, D, P, U)
  \/ StreamClose
  \/ (Evict \/ UpdateReturns \/ Writer \/ CloseLog) /\ UNCHANGED <<conn, view>>
  \/ \E r \in Readers : Subscribe(r) \/ Dial(r) \/ Send(r) \/ Disconnect(r)

StreamFairness ==
  /\ WF_streamVars((Evict \/ UpdateReturns) /\ UNCHANGED <<conn, view>>)
  /\ WF_streamVars(Writer /\ UNCHANGED <<conn, view>>)
  /\ \A r \in Readers : WF_streamVars(Send(r))

StreamSpec == StreamInit /\ [][StreamNext]_streamVars
FairStreamSpec == StreamSpec /\ StreamFairness

-----------------------------------------------------------------------------
(* Properties *)

StreamTypeOK ==
  /\ DOMAIN conn = Readers /\ DOMAIN view = Readers
  /\ \A r \in Readers :
       /\ conn[r].pc \in Connected \cup {"off", "dial", "end"}
       /\ conn[r].done \in {"no", "slow", "eof"}
       /\ conn[r].before \in 0..nextSeq /\ conn[r].qnext \in 0..nextSeq
       /\ conn[r].rows \subseteq Seqs /\ conn[r].snap \subseteq Seqs
       /\ conn[r].cursor \in -1..(nextSeq - 1)
       /\ view[r].last \in -1..(nextSeq - 1) /\ view[r].got \subseteq Seqs
       /\ view[r].omitted \in BOOLEAN

(* A resumed stream has no hole of its own: when Backfill has ended, the   *)
(* page has every durable event between where it resumed and the ring, from *)
(* the first_seq in its hello on, although the writer, the eviction and    *)
(* the garbage collection went on meanwhile; and a live page has every     *)
(* event since its snapshot.                                               *)
StreamComplete ==
  \A r \in Readers :
    LET c == conn[r]
        Expected(seq) == \/ c.resumed /\ c.after < seq /\ seq < c.before
                            /\ c.first <= seq /\ seq \in durable
                         \/ c.pc = "live" /\ c.before <= seq /\ seq < c.qnext
    IN  c.pc \in {"snap", "live"} => \A seq \in Seqs : Expected(seq) => seq \in view[r].got

(* A request that waits for an answer is never skipped: a page whose       *)
(* stream is past a pinned request has received it, evicted from the ring  *)
(* or not, resumed or not.                                                 *)
PendingSeen ==
  \A r \in Readers : \A p \in pinned : p <= view[r].last => p \in view[r].got

(* A durable event the page has passed without receiving it, and without   *)
(* having been told of an omission.                                        *)
SilentHole(r, seq) ==
  seq \in durable /\ seq <= view[r].last /\ seq \notin view[r].got /\ ~view[r].omitted

(* The only durable events a page misses without being told are ones that  *)
(* the garbage collection has deleted.                                     *)
HolesAreTrimmed ==
  \A r \in Readers : \A seq \in Seqs : SilentHole(r, seq) => seq <= storeTrimmed

(* What Backfill.Next says about a Trim that overtakes it: the reader has  *)
(* to dial again, and then learns of the omission from the new first_seq.  *)
NoSilentHole ==
  \A r \in Readers : conn[r].pc = "live" => \A seq \in Seqs : ~SilentHole(r, seq)

(* After Hub.Close every connected reader gets to the end of its stream,   *)
(* or is disconnected.                                                     *)
StreamEnds ==
  \A r \in Readers : (ended /\ conn[r].pc \in Connected) ~> conn[r].pc \in {"off", "end"}
=============================================================================
