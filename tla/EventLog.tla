------------------------------ MODULE EventLog ------------------------------
(***************************************************************************)
(* The durable log of one conversation, cmd/internal/eventlog: a SQLite    *)
(* table of (seq, payload, pinned) rows.  A row is identified with its     *)
(* seq; its payload is the event published under that seq, so a payload is *)
(* only a size here.  Every operator below is one call of the Store; the   *)
(* callers (the Hub's writer goroutine and the readers of EventHub and     *)
(* ChatStream) decide when it happens and what its error means.            *)
(*                                                                         *)
(* Store.total, the running sum of the payloads, is Bytes(rows): Apply     *)
(* adds exactly the sizes of the rows it inserts, and trim subtracts       *)
(* exactly the sizes of the rows it deletes (it sums the unpinned rows up  *)
(* to the cutoff in seq order and then deletes those same rows).           *)
(***************************************************************************)
EXTENDS Integers, FiniteSets, FiniteSetsExt

CONSTANT Big        \* the seqs whose event weighs two units; all others weigh one

ASSUME BigAssumption == Big \subseteq Nat

VARIABLES
  rows,             \* the seqs that have a row
  rowPinned,        \* the rows whose pinned column is 1
  last,             \* Store.last, -1 while hasLast is false
  storeTrimmed,     \* Store.trimmed, the upper end of what trim deleted; -1 while hasTrim is false
  floor,            \* Store.floor, the largest first seq that Trim has returned
  closed            \* Store.closed: the log is closed and its files are removed

storeVars == <<rows, rowPinned, last, storeTrimmed, floor, closed>>

Size(seq) == IF seq \in Big THEN 2 ELSE 1
Bytes(S) == MapThenSumSet(Size, S)

Larger(a, b) == IF a >= b THEN a ELSE b

(* One StoreOp: the seqs to append and the pins to set and to clear. *)
NoOp == [append |-> {}, pin |-> {}, unpin |-> {}]

StoreInit ==
  /\ rows = {}
  /\ rowPinned = {}
  /\ last = -1
  /\ storeTrimmed = -1
  /\ floor = 0
  /\ closed = FALSE

(* The checks Apply makes before it opens the transaction. *)
Accepts(op) == ~closed /\ \A seq \in op.append : seq > last

(* Setting the pin of a row that does not exist changes nothing.           *)
PinsApplied(op, rs) == (rowPinned \cup (op.pin \cap rs)) \ op.unpin

(* Apply: one transaction, Append then Pin then Unpin. *)
Apply(op) ==
  /\ Accepts(op)
  /\ rows' = rows \cup op.append
  /\ rowPinned' = PinsApplied(op, rows')
  /\ last' = IF op.append = {} THEN last ELSE Max(op.append)
  /\ UNCHANGED <<storeTrimmed, floor, closed>>

UnpinnedAndPinned == rows                   \* mutant: the pinned column is ignored
Unpinned == rows \ rowPinned

(* trim: the oldest unpinned rows, up to and including the first one that  *)
(* frees enough (all of them when even that is too little).                *)
IsCutoff(c, budget) ==
  LET need == Bytes(rows) - budget
      Freed(k) == Bytes({seq \in Unpinned : seq <= k})
  IN  /\ c \in Unpinned
      /\ Freed(c) >= need \/ \A seq \in Unpinned : seq <= c
      /\ \A seq \in Unpinned : seq < c => Freed(seq) < need

trim(budget) ==
  \/ /\ Bytes(rows) <= budget \/ Unpinned = {}
     /\ UNCHANGED <<rows, storeTrimmed>>
  \/ /\ Bytes(rows) > budget
     /\ \E c \in Unpinned :
          /\ IsCutoff(c, budget)
          /\ rows' = rows \ {seq \in Unpinned : seq <= c}
          /\ storeTrimmed' = Larger(storeTrimmed, c)

(* FirstUnpinned after the trim: the least unpinned row above the trimmed  *)
(* range, never below floor; 0 when there is none.                         *)
FirstUnpinned(rs, cut) ==
  LET left == {seq \in rs \ rowPinned : seq > cut}
  IN  IF left = {} THEN 0 ELSE Larger(Min(left), floor)

(* Trim returns first.  FirstUnpinned reports a failed query as "none", so *)
(* 0 may also come back when rows are left.                                *)
Trim(budget, first) ==
  /\ ~closed
  /\ trim(budget)
  /\ \/ first = FirstUnpinned(rows', storeTrimmed')
     \/ first = 0
  /\ floor' = Larger(floor, first)
  /\ UNCHANGED <<rowPinned, last, closed>>

(* Store.Range refuses an after beyond the last row written ...                  *)
AfterNotIssued(after) == after > last

(* ... and otherwise returns the first limit rows of (after, before).      *)
RowsFrom(after, before) == {seq \in rows : after + 1 < seq /\ seq < before}   \* mutant
RowsBetween(after, before) == {seq \in rows : after < seq /\ seq < before}

StoreRange(after, before, limit) ==
  LET all == RowsBetween(after, before)
  IN  {seq \in all : Cardinality({t \in all : t <= seq}) <= limit}

(* Store.Close(true): the database files go away with the lock. *)
CloseStore ==
  /\ ~closed
  /\ closed' = TRUE
  /\ rows' = {} /\ rowPinned' = {}
  /\ UNCHANGED <<last, storeTrimmed, floor>>

=============================================================================
