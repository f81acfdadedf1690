------------------------- MODULE ChatStream_proofs -------------------------
(***************************************************************************)
(* Proofs about the Hub, its writer and its log, and about the pages that  *)
(* read them, for every ring, queue, garbage-collection and batch size and *)
(* any number of readers.  The Hub comes first.  None of its safety        *)
(* properties is inductive: each depends on where an event is on its way   *)
(* from Update to the log.  IInv says that a durable event is confirmed    *)
(* (at most W), in the op the writer holds, or in one queued op, in this   *)
(* order and without gaps, and that the log is missing nothing up to its   *)
(* last row but what trim deleted.                                         *)
(***************************************************************************)
EXTENDS ChatStream, WellFoundedInduction, FiniteSetTheorems, TLAPS

(* The writer's local variables and the parity of trims follow from where  *)
(* it is.                                                                  *)
WriterShape ==
  /\ wpc \notin {"apply", "applied"} => op = NoOp
  /\ wpc # "trimmed" => first = 0
  /\ (trims % 2 = 1) <=> (wpc \in {"trimming", "trimmed"})
  /\ degraded # "no" => pending = <<>>
  /\ wpc = "done" /\ degraded = "no" => ended /\ pending = <<>>

(* The op in flight follows W, without a gap, ... *)
InFlight ==
  /\ op.append \subseteq durable /\ op.pin \subseteq Seqs /\ op.unpin \subseteq Seqs
  /\ \A f \in op.append : f > written
  /\ \A f \in op.append, s \in durable : s < f => s <= written \/ s \in op.append

(* ... the queued ops follow it in order, ... *)
InQueue ==
  /\ \A i \in DOMAIN pending :
       /\ pending[i].append \subseteq durable
       /\ pending[i].pin \subseteq Seqs /\ pending[i].unpin \subseteq Seqs
       /\ \A s \in pending[i].append : s > written /\ \A f \in op.append : f < s
  /\ \A i, j \in DOMAIN pending : i < j =>
       \A s \in pending[i].append, t \in pending[j].append : s < t

(* ... and until the log is given up nothing else is missing from it. *)
Covered ==
  degraded = "no" => \A s \in durable :
    s <= written \/ s \in op.append \/ \E i \in DOMAIN pending : s \in pending[i].append

EvictedConfirmed == degraded = "no" => \A s \in durable : s < head => s <= written

(* The last row is W, but for the op just applied. *)
LogEnd ==
  /\ last >= written
  /\ wpc \notin {"applied", "done"} => last = written
  /\ wpc = "applied" /\ (failed \/ op.append = {}) => last = written
  /\ wpc = "applied" /\ ~failed /\ op.append # {} => last = Max(op.append)

LogRows ==
  /\ rows \subseteq durable /\ \A s \in rows : s <= last
  /\ storeTrimmed <= last
  /\ ~closed => \A s \in durable : s <= last => s \in rows \/ s <= storeTrimmed

(* A pin travels with the append of its event, and is not cleared on the   *)
(* way.                                                                    *)
PinsTravel ==
  /\ \A p \in pinned : p \notin op.unpin /\ \A i \in DOMAIN pending : p \notin pending[i].unpin
  /\ \A p \in pinned : p \in op.append => p \in op.pin
  /\ \A p \in pinned : \A i \in DOMAIN pending : p \in pending[i].append => p \in pending[i].pin
  /\ \A i, j \in DOMAIN pending : i # j => pending[i].pin \cap pending[j].pin = {}

(* What trim deleted is below first_seq, or will be when the Trim ends. *)
BelowFirst ==
  /\ wpc # "trimmed" \/ failed => storeTrimmed < trimmed
  /\ wpc = "trimmed" /\ ~failed => storeTrimmed < TrimmedTo
  /\ first > 0 => first >= floor

IInv ==
  /\ TypeOK /\ WriterShape /\ InFlight /\ InQueue /\ Covered /\ EvictedConfirmed
  /\ LogEnd /\ LogRows /\ PinsTravel /\ PinnedKept /\ BelowFirst

-----------------------------------------------------------------------------
(* Facts about the operators *)

(* A non-empty set of naturals has a least element: FirstUnpinned's query. *)
LEMMA MinExists ==
  ASSUME NEW T \in SUBSET Nat, T # {}
  PROVE  /\ Min(T) \in T
         /\ \A t \in T : Min(T) <= t
<1>1. PICK x \in T : \A y \in T : ~(<<y, x>> \in OpToRel(<, Nat))
  BY NatLessThanWellFounded, WFMin, Zenon
<1>2. \A y \in T : ~(y < x)
  <2> SUFFICES ASSUME NEW y \in T, y < x PROVE FALSE
    OBVIOUS
  <2>1. <<y, x>> \in Nat \X Nat
    OBVIOUS
  <2> QED
    BY <1>1, <2>1, Zenon DEF OpToRel
<1>3. \A y \in T : x <= y
  BY <1>2
<1> QED
  BY <1>3 DEF Min

(* A non-empty set of seqs has a greatest element: W after an Apply. *)
LEMMA MaxExists ==
  ASSUME NEW n \in Nat, NEW T \in SUBSET (0..(n - 1)), T # {}
  PROVE  /\ Max(T) \in T
         /\ \A t \in T : t <= Max(T)
<1> DEFINE D == {n - t : t \in T}
<1>1. D \in SUBSET Nat /\ D # {}
  OBVIOUS
<1>2. PICK m \in T : n - m = Min(D)
  BY <1>1, MinExists
<1>3. \A t \in T : n - m <= n - t
  BY <1>1, <1>2, MinExists
<1>4. \A t \in T : m >= t
  BY <1>3
<1> QED
  BY <1>4 DEF Max

LEMMA LargerFacts ==
  ASSUME NEW a \in Int, NEW b \in Int
  PROVE  /\ Larger(a, b) \in {a, b}
         /\ Larger(a, b) >= a /\ Larger(a, b) >= b
BY DEF Larger

(* mergeOps neither loses nor invents an append, a pin or an unpin, and    *)
(* keeps a pin that no other op mentions.                                  *)
LEMMA MergeFacts ==
  ASSUME NEW ops \in Seq(Ops)
  PROVE  /\ mergeOps(ops) \in Ops
         /\ \A s \in mergeOps(ops).append : \E i \in DOMAIN ops : s \in ops[i].append
         /\ \A i \in DOMAIN ops : ops[i].append \subseteq mergeOps(ops).append
         /\ \A s \in mergeOps(ops).pin : \E i \in DOMAIN ops : s \in ops[i].pin
         /\ \A s \in mergeOps(ops).unpin : \E i \in DOMAIN ops : s \in ops[i].unpin
         /\ \A i \in DOMAIN ops : \A s \in ops[i].pin :
              (\A j \in DOMAIN ops : s \notin ops[j].unpin /\ (j # i => s \notin ops[j].pin))
                => s \in mergeOps(ops).pin
<1>1. \A i \in DOMAIN ops : ops[i] \in Ops
  OBVIOUS
<1>2. \A i, j \in DOMAIN ops : j > i => j # i
  OBVIOUS
<1> DEFINE Settled(i, seq) == \A j \in DOMAIN ops : j > i => seq \notin ops[j].pin \cup ops[j].unpin
           A == UNION {ops[i].append : i \in DOMAIN ops}
           P == UNION {{seq \in ops[i].pin \ ops[i].unpin : Settled(i, seq)} : i \in DOMAIN ops}
           U == UNION {{seq \in ops[i].unpin : Settled(i, seq)} : i \in DOMAIN ops}
<1>3. mergeOps(ops) = [append |-> A, pin |-> P, unpin |-> U]
  BY DEF mergeOps
<1>4. A \subseteq Nat /\ P \subseteq Nat /\ U \subseteq Nat
  BY <1>1, Zenon DEF Ops
<1>5. ASSUME NEW i \in DOMAIN ops, NEW s \in ops[i].pin,
             \A j \in DOMAIN ops : s \notin ops[j].unpin /\ (j # i => s \notin ops[j].pin)
      PROVE  s \in P
  <2>1. Settled(i, s)
    BY <1>2, <1>5
  <2>2. s \in {seq \in ops[i].pin \ ops[i].unpin : Settled(i, seq)}
    BY <1>5, <2>1
  <2> HIDE DEF Settled
  <2> QED
    BY <2>2, Zenon
<1>6. /\ \A s \in A : \E i \in DOMAIN ops : s \in ops[i].append
      /\ \A i \in DOMAIN ops : ops[i].append \subseteq A
      /\ \A s \in P : \E i \in DOMAIN ops : s \in ops[i].pin
      /\ \A s \in U : \E i \in DOMAIN ops : s \in ops[i].unpin
  BY Zenon
<1> HIDE DEF A, P, U, Settled
<1>7. /\ mergeOps(ops).append = A
      /\ mergeOps(ops).pin = P
      /\ mergeOps(ops).unpin = U
  BY <1>3
<1>8. mergeOps(ops) \in Ops
  BY <1>3, <1>4 DEF Ops
<1> QED
  BY <1>5, <1>6, <1>7, <1>8, Zenon

-----------------------------------------------------------------------------
(* IInv is inductive: the initial states, and one lemma per action. *)

LEMMA InitIInv == Init => IInv
<1> SUFFICES ASSUME Init PROVE IInv
  OBVIOUS
<1> USE DEF Init, StoreInit, NoOp, Seqs
<1>1. TypeOK
  <2>1. op \in Ops
    BY DEF Ops
  <2>2. pending \in Seq(Ops)
    OBVIOUS
  <2>3. degraded \in Reasons \cup {"no"} /\ wpc \in {"take", "apply", "applied", "trim", "trimming", "trimmed", "judge", "done"}
    BY DEF Reasons
  <2>4. closed \in BOOLEAN /\ ended \in BOOLEAN /\ updating \in BOOLEAN /\ failed \in BOOLEAN
    OBVIOUS
  <2> QED
    BY <2>1, <2>2, <2>3, <2>4 DEF TypeOK
<1>2. WriterShape /\ InFlight /\ InQueue /\ Covered /\ EvictedConfirmed
  BY DEF WriterShape, InFlight, InQueue, Covered, EvictedConfirmed
<1>3. LogEnd /\ LogRows /\ PinsTravel /\ PinnedKept /\ BelowFirst
  BY DEF LogEnd, LogRows, PinsTravel, PinnedKept, BelowFirst, TrimmedTo, NewFirst
<1> QED
  BY <1>1, <1>2, <1>3 DEF IInv

(* After degrade, whoever called it first, the log is given up and nothing *)
(* is queued.                                                              *)
LEMMA DegradeFacts ==
  ASSUME IInv, NEW reason \in Reasons, degrade(reason)
  PROVE  degraded' \in Reasons /\ degraded' # "no" /\ pending' = <<>> /\ pending' \in Seq(Ops)
BY DEF IInv, TypeOK, WriterShape, degrade, Reasons

(* UpdateReturns only gives up the mutex. *)
LEMMA UpdateReturnsStep == ASSUME IInv, UpdateReturns PROVE IInv'
<1> USE DEF IInv, UpdateReturns, Seqs, TypeOK, hubVars, writerVars, storeVars, sharedVars
<1>1. TypeOK'
  BY DEF TypeOK
<1>2. WriterShape'
  BY DEF WriterShape
<1>3. InFlight'
  BY DEF InFlight
<1>4. InQueue'
  BY DEF InQueue
<1>5. Covered'
  BY DEF Covered
<1>6. EvictedConfirmed'
  BY DEF EvictedConfirmed
<1>7. LogEnd'
  BY DEF LogEnd
<1>8. LogRows'
  BY DEF LogRows
<1>9. PinsTravel'
  BY DEF PinsTravel
<1>10. PinnedKept'
  BY DEF PinnedKept
<1>11. BelowFirst'
  BY DEF BelowFirst, TrimmedTo, NewFirst
<1> QED
  BY <1>1, <1>2, <1>3, <1>4, <1>5, <1>6, <1>7, <1>8, <1>9, <1>10, <1>11

(* Close only marks the Hub as ended. *)
LEMMA CloseStep == ASSUME IInv, Close PROVE IInv'
<1> USE DEF IInv, Close, Seqs, TypeOK, hubVars, writerVars, storeVars, sharedVars
<1>1. TypeOK'
  BY DEF TypeOK
<1>2. WriterShape'
  BY DEF WriterShape
<1>3. InFlight'
  BY DEF InFlight
<1>4. InQueue'
  BY DEF InQueue
<1>5. Covered'
  BY DEF Covered
<1>6. EvictedConfirmed'
  BY DEF EvictedConfirmed
<1>7. LogEnd'
  BY DEF LogEnd
<1>8. LogRows'
  BY DEF LogRows
<1>9. PinsTravel'
  BY DEF PinsTravel
<1>10. PinnedKept'
  BY DEF PinnedKept
<1>11. BelowFirst'
  BY DEF BelowFirst, TrimmedTo, NewFirst
<1> QED
  BY <1>1, <1>2, <1>3, <1>4, <1>5, <1>6, <1>7, <1>8, <1>9, <1>10, <1>11

(* TrimBegins makes trims odd. *)
LEMMA TrimBeginsStep == ASSUME IInv, TrimBegins PROVE IInv'
<1> USE DEF IInv, TrimBegins, Seqs, TypeOK, hubVars, writerVars, storeVars, sharedVars
<1>1. TypeOK'
  BY DEF TypeOK
<1>2. WriterShape'
  BY DEF WriterShape
<1>3. InFlight'
  BY DEF InFlight
<1>4. InQueue'
  BY DEF InQueue
<1>5. Covered'
  BY DEF Covered
<1>6. EvictedConfirmed'
  BY DEF EvictedConfirmed
<1>7. LogEnd'
  BY DEF LogEnd
<1>8. LogRows'
  BY DEF LogRows
<1>9. PinsTravel'
  BY DEF PinsTravel
<1>10. PinnedKept'
  BY DEF PinnedKept
<1>11. BelowFirst'
  BY DEF BelowFirst, TrimmedTo, NewFirst
<1> QED
  BY <1>1, <1>2, <1>3, <1>4, <1>5, <1>6, <1>7, <1>8, <1>9, <1>10, <1>11

(* An eviction ahead of W gives up the log. *)
LEMMA EvictStep == ASSUME IInv, Evict PROVE IInv'
<1> USE DEF IInv, Evict, Unconfirmed, RingFull, Seqs, TypeOK, hubVars, writerVars, storeVars, sharedVars
<1>a. \/ ~Unconfirmed(head) /\ UNCHANGED <<degraded, pending>>
      \/ degraded' \in Reasons /\ degraded' # "no" /\ pending' = <<>> /\ pending' \in Seq(Ops)
  BY DegradeFacts DEF Reasons
<1>1. TypeOK'
  BY <1>a DEF TypeOK
<1>2. WriterShape'
  BY <1>a DEF WriterShape
<1>3. InFlight'
  BY <1>a DEF InFlight
<1>4. InQueue'
  BY <1>a DEF InQueue
<1>5. Covered'
  BY <1>a DEF Covered
<1>6. EvictedConfirmed'
  BY <1>a DEF EvictedConfirmed
<1>7. LogEnd'
  BY <1>a DEF LogEnd
<1>8. LogRows'
  BY <1>a DEF LogRows
<1>9. PinsTravel'
  BY <1>a DEF PinsTravel
<1>10. PinnedKept'
  BY <1>a DEF PinnedKept
<1>11. BelowFirst'
  BY <1>a DEF BelowFirst, TrimmedTo, NewFirst
<1> QED
  BY <1>1, <1>2, <1>3, <1>4, <1>5, <1>6, <1>7, <1>8, <1>9, <1>10, <1>11

(* A failed read gives up the log. *)
LEMMA ReadFailsStep == ASSUME IInv, NEW reason \in Reasons, ReadFails(reason) PROVE IInv'
<1> USE DEF IInv, ReadFails, Seqs, TypeOK, hubVars, writerVars, storeVars, sharedVars
<1>a. degraded' \in Reasons /\ degraded' # "no" /\ pending' = <<>> /\ pending' \in Seq(Ops)
  BY DegradeFacts
<1>1. TypeOK'
  BY <1>a DEF TypeOK
<1>2. WriterShape'
  BY <1>a DEF WriterShape
<1>3. InFlight'
  BY <1>a DEF InFlight
<1>4. InQueue'
  BY <1>a DEF InQueue
<1>5. Covered'
  BY <1>a DEF Covered
<1>6. EvictedConfirmed'
  BY <1>a DEF EvictedConfirmed
<1>7. LogEnd'
  BY <1>a DEF LogEnd
<1>8. LogRows'
  BY <1>a DEF LogRows
<1>9. PinsTravel'
  BY <1>a DEF PinsTravel
<1>10. PinnedKept'
  BY <1>a DEF PinnedKept
<1>11. BelowFirst'
  BY <1>a DEF BelowFirst, TrimmedTo, NewFirst
<1> QED
  BY <1>1, <1>2, <1>3, <1>4, <1>5, <1>6, <1>7, <1>8, <1>9, <1>10, <1>11

(* CloseLog empties the log and excuses it. *)
LEMMA CloseLogStep == ASSUME IInv, CloseLog PROVE IInv'
<1> USE DEF IInv, CloseLog, CloseStore, Seqs, TypeOK, hubVars, writerVars, storeVars, sharedVars
<1>1. TypeOK'
  BY DEF TypeOK
<1>2. WriterShape'
  BY DEF WriterShape
<1>3. InFlight'
  BY DEF InFlight
<1>4. InQueue'
  BY DEF InQueue
<1>5. Covered'
  BY DEF Covered
<1>6. EvictedConfirmed'
  BY DEF EvictedConfirmed
<1>7. LogEnd'
  BY DEF LogEnd
<1>8. LogRows'
  BY DEF LogRows
<1>9. PinsTravel'
  BY DEF PinsTravel
<1>10. PinnedKept'
  BY DEF PinnedKept
<1>11. BelowFirst'
  BY DEF BelowFirst, TrimmedTo, NewFirst
<1> QED
  BY <1>1, <1>2, <1>3, <1>4, <1>5, <1>6, <1>7, <1>8, <1>9, <1>10, <1>11

(* What an Update does to the queue: nothing, overflow, or one op more. *)
LEMMA EnqueueFacts ==
  ASSUME IInv, NEW o \in Ops, enqueue(o)
  PROVE  /\ pending' \in Seq(Ops) /\ degraded' \in Reasons \cup {"no"}
         /\ \/ /\ degraded # "no" \/ o = NoOp
               /\ UNCHANGED <<degraded, pending>>
            \/ degraded' # "no" /\ pending' = <<>>
            \/ /\ degraded = "no" /\ degraded' = "no"
               /\ DOMAIN pending' = DOMAIN pending \cup {Len(pending) + 1}
               /\ Len(pending) + 1 \notin DOMAIN pending
               /\ \A i \in DOMAIN pending : i < Len(pending) + 1 /\ pending'[i] = pending[i]
               /\ pending'[Len(pending) + 1] = o
<1> USE DEF IInv, TypeOK
<1>1. CASE (degraded # "no" \/ o = NoOp) /\ UNCHANGED <<degraded, pending>>
  BY <1>1
<1>2. CASE degrade("fault")
  <2>1. "fault" \in Reasons
    BY DEF Reasons
  <2> QED
    BY <1>2, <2>1, DegradeFacts
<1>3. CASE degraded = "no" /\ pending' = Queued(o) /\ UNCHANGED degraded
  BY <1>3 DEF Queued
<1> QED
  BY <1>1, <1>2, <1>3 DEF enqueue

(* Update: the new op carries only seqs above all that are queued. *)
LEMMA UpdateStep ==
  ASSUME IInv, NEW n \in Nat, NEW D, NEW P, NEW U, Update(n, D, P, U)
  PROVE  IInv'
<1> DEFINE pins == AcceptedPins(P)
           o == [append |-> D, pin |-> pins, unpin |-> U]
           k == Len(pending) + 1
<1> USE DEF IInv, Seqs
<1>1. /\ nextSeq \in Nat /\ nextSeq' = nextSeq + n /\ nextSeq' \in Nat
      /\ D \subseteq nextSeq..(nextSeq' - 1) /\ pins \subseteq nextSeq..(nextSeq' - 1)
      /\ U \subseteq Seqs'
      /\ durable' = durable \cup D /\ pinned' = (pinned \cup pins) \ U
      /\ ~ended
  <2>1. pins \subseteq P
    BY DEF AcceptedPins
  <2> HIDE DEF pins
  <2>2. /\ D \subseteq nextSeq..(nextSeq + n - 1) /\ P \subseteq nextSeq..(nextSeq + n - 1)
        /\ U \subseteq pinned \cup pins
        /\ nextSeq' = nextSeq + n /\ durable' = durable \cup D /\ pinned' = (pinned \cup pins) \ U
        /\ ~ended
    BY DEF Update, pins
  <2>3. nextSeq \in Nat /\ pinned \subseteq Seqs
    BY DEF TypeOK
  <2> QED
    BY <2>1, <2>2, <2>3
<1>2. UNCHANGED <<head, ended, written, trims, trimmed, writerVars, storeVars>> /\ updating' = TRUE
  BY DEF Update
<1>3. o \in Ops /\ o.append = D /\ o.pin = pins /\ o.unpin = U
  BY <1>1 DEF Ops
<1>4. enqueue(o)
  BY DEF Update
<1>5. /\ pending' \in Seq(Ops) /\ degraded' \in Reasons \cup {"no"}
      /\ \/ /\ degraded # "no" \/ o = NoOp
            /\ UNCHANGED <<degraded, pending>>
         \/ degraded' # "no" /\ pending' = <<>>
         \/ /\ degraded = "no" /\ degraded' = "no"
            /\ DOMAIN pending' = DOMAIN pending \cup {k} /\ k \notin DOMAIN pending
            /\ \A i \in DOMAIN pending : i < k /\ pending'[i] = pending[i]
            /\ pending'[k] = o
  BY <1>3, <1>4, EnqueueFacts
<1>6. o = NoOp => D = {} /\ pins = {} /\ U = {}
  BY <1>3 DEF NoOp
<1>new. ASSUME NEW t \in D PROVE t > written /\ \A s \in durable : s < t
  <2>1. t \in Int /\ t >= nextSeq
    BY <1>1
  <2>2. nextSeq \in Nat /\ durable \subseteq 0..(nextSeq - 1) /\ written \in -1..(nextSeq - 1)
    BY DEF TypeOK
  <2>3. \A s \in 0..(nextSeq - 1) : s < t
    BY <2>1, <2>2
  <2> QED
    BY <2>1, <2>2, <2>3
<1> USE <1>1, <1>2, <1>3, <1>5, <1>6 DEF writerVars, storeVars
<1> HIDE DEF o, pins, k
<1>7. TypeOK'
  BY DEF TypeOK
<1>8. WriterShape'
  BY DEF WriterShape
<1>9. InFlight'
  <2>1. InFlight /\ op' = op /\ written' = written /\ Seqs \subseteq Seqs'
    OBVIOUS
  <2>2. \A f \in op.append, s \in D : ~(s < f)
    <3> SUFFICES ASSUME NEW f \in op.append, NEW s \in D, s < f PROVE FALSE
      OBVIOUS
    <3>1. f \in durable /\ f < s
      BY <1>new, <2>1 DEF InFlight
    <3>2. f \in Int /\ s \in Int
      BY <3>1 DEF TypeOK
    <3> QED
      BY <3>1, <3>2
  <2> HIDE <1>2, <1>3, <1>5, <1>6 DEF IInv, writerVars, storeVars
  <2>3. op.append \subseteq durable' /\ op.pin \subseteq Seqs' /\ op.unpin \subseteq Seqs'
    BY <2>1 DEF InFlight
  <2>4. \A f \in op.append, s \in durable' : s < f => s <= written \/ s \in op.append
    BY <2>1, <2>2 DEF InFlight
  <2> QED
    BY <2>1, <2>3, <2>4 DEF InFlight
<1>10. InQueue'
  <2>1. Seqs \subseteq Seqs' /\ pins \subseteq Seqs'
    OBVIOUS
  <2>2. \A s \in D : s > written /\ \A f \in op.append : f < s
    BY <1>new DEF InFlight
  <2>3. \A i \in DOMAIN pending : \A s \in pending[i].append, t \in D : s < t
    BY <1>new DEF InQueue
  <2>4. CASE UNCHANGED pending \/ pending' = <<>>
    BY <2>1, <2>4 DEF InQueue
  <2>5. CASE /\ DOMAIN pending' = DOMAIN pending \cup {k} /\ k \notin DOMAIN pending
             /\ \A i \in DOMAIN pending : i < k /\ pending'[i] = pending[i]
             /\ pending'[k] = o
    <3>1. ASSUME NEW i \in DOMAIN pending'
          PROVE  /\ pending'[i].append \subseteq durable'
                 /\ pending'[i].pin \subseteq Seqs' /\ pending'[i].unpin \subseteq Seqs'
                 /\ \A s \in pending'[i].append : s > written' /\ \A f \in op'.append : f < s
      BY <2>1, <2>2, <2>5 DEF InQueue
    <3>2. ASSUME NEW i \in DOMAIN pending', NEW j \in DOMAIN pending', i < j
          PROVE  \A s \in pending'[i].append, t \in pending'[j].append : s < t
      <4>1. i \in DOMAIN pending
        <5>1. k \in Int /\ DOMAIN pending \subseteq Int
          BY DEF k, TypeOK
        <5> HIDE <1>1, <1>2, <1>3, <1>5, <1>6 DEF IInv, Seqs, writerVars, storeVars
        <5> QED
          BY <2>5, <3>2, <5>1
      <4>2. pending'[i] = pending[i]
        BY <2>5, <4>1
      <4>3. CASE j = k
        BY <1>3, <2>3, <2>5, <4>1, <4>2, <4>3
      <4>4. CASE j \in DOMAIN pending
        BY <2>5, <3>2, <4>1, <4>2, <4>4 DEF InQueue
      <4> QED
        BY <2>5, <4>3, <4>4
    <3> QED
      BY <3>1, <3>2 DEF InQueue
  <2> QED
    BY <2>4, <2>5
<1>11. Covered'
  BY DEF Covered
<1>12. EvictedConfirmed'
  BY DEF EvictedConfirmed, TypeOK
<1>13. LogEnd' /\ BelowFirst'
  BY DEF LogEnd, BelowFirst, TrimmedTo, NewFirst
<1>14. LogRows'
  <2>1. last \in -1..(nextSeq - 1) /\ UNCHANGED <<rows, last, storeTrimmed, closed>> /\ LogRows
    BY DEF TypeOK
  <2> HIDE <1>2, <1>3, <1>5, <1>6 DEF IInv, writerVars, storeVars
  <2>2. \A t \in D : ~(t <= last)
    BY <2>1
  <2> QED
    BY <2>1, <2>2 DEF LogRows
<1>15. PinsTravel'
  <2>1. \A t \in D \cup pins : t \notin Seqs
    OBVIOUS
  <2>2. /\ pinned \subseteq Seqs
        /\ op.append \subseteq Seqs /\ op.unpin \subseteq Seqs
        /\ \A i \in DOMAIN pending : /\ pending[i].append \subseteq Seqs
                                     /\ pending[i].pin \subseteq Seqs
                                     /\ pending[i].unpin \subseteq Seqs
    BY DEF TypeOK, InFlight, InQueue
  <2>3. PinsTravel /\ op' = op /\ pinned' = (pinned \cup pins) \ U
    OBVIOUS
  <2> HIDE <1>1, <1>2, <1>5, <1>6 DEF IInv, Seqs, writerVars, storeVars
  <2>4. CASE UNCHANGED pending \/ pending' = <<>>
    BY <2>1, <2>2, <2>3, <2>4 DEF PinsTravel
  <2>5. CASE /\ DOMAIN pending' = DOMAIN pending \cup {k} /\ k \notin DOMAIN pending
             /\ \A i \in DOMAIN pending : i < k /\ pending'[i] = pending[i]
             /\ pending'[k] = o
    <3>1. \A p \in pinned' : p \notin op'.unpin
            /\ \A i \in DOMAIN pending' : p \notin pending'[i].unpin
      BY <2>1, <2>2, <2>3, <2>5 DEF PinsTravel
    <3>2. \A p \in pinned' : p \in op'.append => p \in op'.pin
      BY <2>1, <2>2, <2>3 DEF PinsTravel
    <3>3. \A p \in pinned' : \A i \in DOMAIN pending' :
            p \in pending'[i].append => p \in pending'[i].pin
      BY <2>1, <2>2, <2>3, <2>5 DEF PinsTravel
    <3>4. \A i, j \in DOMAIN pending' : i # j => pending'[i].pin \cap pending'[j].pin = {}
      BY <2>1, <2>2, <2>3, <2>5 DEF PinsTravel
    <3> QED
      BY <3>1, <3>2, <3>3, <3>4 DEF PinsTravel
  <2> QED
    BY <1>5, <2>4, <2>5
<1>16. PinnedKept'
  <2>1. /\ last \in -1..(nextSeq - 1) /\ UNCHANGED <<rows, rowPinned, last, closed>>
        /\ PinnedKept
    BY DEF TypeOK
  <2> HIDE <1>2, <1>3, <1>5, <1>6 DEF IInv, writerVars, storeVars
  <2>2. \A t \in D \cup pins : ~(t <= last)
    BY <2>1
  <2> QED
    BY <2>1, <2>2 DEF PinnedKept
<1> QED
  BY <1>7, <1>8, <1>9, <1>10, <1>11, <1>12, <1>13, <1>14, <1>15, <1>16

(* Take: the writer ends, or the first ops of the queue become the op in   *)
(* flight, which leaves no gap because the queue is in order.              *)
LEMMA TakeStep == ASSUME IInv, Take PROVE IInv'
<1> USE DEF IInv
<1>0. /\ UNCHANGED <<degraded, written, trims, trimmed, failed, first, stored, slow, hubVars, storeVars>>
      /\ wpc = "take" /\ op = NoOp /\ op.append = {}
  BY DEF Take, WriterShape, NoOp
<1> USE <1>0 DEF hubVars, storeVars
<1>1. CASE Finished /\ wpc' = "done" /\ UNCHANGED <<op, pending>>
  <2> USE <1>1 DEF Seqs
  <2>1. TypeOK'
    BY DEF TypeOK
  <2>2. WriterShape'
    BY DEF WriterShape, Finished
  <2>3. InFlight' /\ InQueue' /\ Covered' /\ EvictedConfirmed'
    BY DEF InFlight, InQueue, Covered, EvictedConfirmed
  <2>4. LogEnd' /\ LogRows' /\ PinsTravel' /\ PinnedKept' /\ BelowFirst'
    BY DEF LogEnd, LogRows, PinsTravel, PinnedKept, BelowFirst, TrimmedTo, NewFirst
  <2> QED
    BY <2>1, <2>2, <2>3, <2>4
<1>2. CASE /\ degraded = "no" /\ wpc' = "apply"
           /\ \E n \in 1..Len(pending) :
                /\ op' = mergeOps(SubSeq(pending, 1, n))
                /\ pending' = SubSeq(pending, n + 1, Len(pending))
  <2>1. PICK n \in 1..Len(pending) :
              /\ op' = mergeOps(SubSeq(pending, 1, n))
              /\ pending' = SubSeq(pending, n + 1, Len(pending))
    BY <1>2
  <2> DEFINE front == SubSeq(pending, 1, n)
  <2>2. pending \in Seq(Ops) /\ Len(pending) \in Nat /\ DOMAIN pending = 1..Len(pending)
    BY DEF TypeOK
  <2>3. /\ front \in Seq(Ops) /\ DOMAIN front = 1..n
        /\ \A i \in 1..n : i \in DOMAIN pending /\ front[i] = pending[i]
    BY <2>2
  <2>4. /\ pending' \in Seq(Ops) /\ DOMAIN pending' = 1..(Len(pending) - n)
        /\ \A i \in DOMAIN pending' : n + i \in DOMAIN pending /\ pending'[i] = pending[n + i]
    BY <2>1, <2>2
  <2>5. /\ op' \in Ops
        /\ \A s \in op'.append : \E i \in 1..n : s \in pending[i].append
        /\ \A i \in 1..n : pending[i].append \subseteq op'.append
        /\ \A s \in op'.pin : \E i \in 1..n : s \in pending[i].pin
        /\ \A s \in op'.unpin : \E i \in 1..n : s \in pending[i].unpin
        /\ \A i \in 1..n : \A s \in pending[i].pin :
             (\A j \in 1..n : s \notin pending[j].unpin /\ (j # i => s \notin pending[j].pin))
               => s \in op'.pin
    <3>1. op' = mergeOps(front)
      BY <2>1
    <3> HIDE DEF front, IInv
    <3>2. /\ op' \in Ops
          /\ \A s \in op'.append : \E i \in DOMAIN front : s \in front[i].append
          /\ \A i \in DOMAIN front : front[i].append \subseteq op'.append
          /\ \A s \in op'.pin : \E i \in DOMAIN front : s \in front[i].pin
          /\ \A s \in op'.unpin : \E i \in DOMAIN front : s \in front[i].unpin
      BY <2>3, <3>1, MergeFacts
    <3>3. \A i \in DOMAIN front : \A s \in front[i].pin :
            (\A j \in DOMAIN front : s \notin front[j].unpin /\ (j # i => s \notin front[j].pin))
              => s \in op'.pin
      BY <2>3, <3>1, MergeFacts
    <3>4. \A i \in 1..n : \A s \in pending[i].pin :
            (\A j \in 1..n : s \notin pending[j].unpin /\ (j # i => s \notin pending[j].pin))
              => s \in op'.pin
      BY <2>3, <3>3
    <3> QED
      BY <2>3, <3>2, <3>4
  <2> HIDE DEF front
  <2>6. TypeOK'
    BY <1>2, <2>4, <2>5 DEF TypeOK, Seqs
  <2>7. WriterShape'
    BY <1>2 DEF WriterShape
  <2>8. \A f \in op'.append : \A i \in DOMAIN pending : i > n =>
          \A s \in pending[i].append : f < s
    BY <2>2, <2>3, <2>5 DEF InQueue
  <2>9. InFlight'
    <3>1. op'.append \subseteq durable' /\ op'.pin \subseteq Seqs' /\ op'.unpin \subseteq Seqs'
      BY <2>3, <2>5 DEF InQueue, Seqs
    <3>2. \A f \in op'.append : f > written'
      BY <2>3, <2>5 DEF InQueue
    <3>3. ASSUME NEW f \in op'.append, NEW s \in durable, s < f, ~(s <= written)
          PROVE  s \in op'.append
      <4>1. PICK i \in DOMAIN pending : s \in pending[i].append
        BY <1>2, <3>3 DEF Covered
      <4>2. f \in Int /\ s \in Int
        <5>1. durable \subseteq Int
          BY DEF TypeOK, Seqs
        <5>2. f \in durable
          BY <3>1
        <5> QED
          BY <5>1, <5>2
      <4>3. ~(i > n)
        BY <2>8, <3>3, <4>1, <4>2
      <4> QED
        BY <2>2, <2>5, <4>1, <4>3
    <3> QED
      BY <3>1, <3>2, <3>3 DEF InFlight
  <2>10. InQueue'
    <3>1. ASSUME NEW i \in DOMAIN pending'
          PROVE  /\ pending'[i].append \subseteq durable'
                 /\ pending'[i].pin \subseteq Seqs' /\ pending'[i].unpin \subseteq Seqs'
                 /\ \A s \in pending'[i].append : s > written' /\ \A f \in op'.append : f < s
      <4>1. n + i \in DOMAIN pending /\ n + i > n /\ pending'[i] = pending[n + i]
        BY <2>2, <2>4
      <4> QED
        BY <2>8, <4>1 DEF InQueue, Seqs
    <3>2. ASSUME NEW i \in DOMAIN pending', NEW j \in DOMAIN pending', i < j
          PROVE  \A s \in pending'[i].append, t \in pending'[j].append : s < t
      <4>1. n + i < n + j
        BY <2>2, <2>4, <3>2
      <4> QED
        BY <2>4, <4>1 DEF InQueue
    <3> QED
      BY <3>1, <3>2 DEF InQueue
  <2>11. Covered'
    <3> SUFFICES ASSUME NEW s \in durable, ~(s <= written), s \notin op'.append
                 PROVE  \E i \in DOMAIN pending' : s \in pending'[i].append
      BY DEF Covered
    <3>1. PICK i \in DOMAIN pending : s \in pending[i].append
      BY <1>2 DEF Covered
    <3>2. i > n
      BY <2>2, <2>5, <3>1
    <3>3. i - n \in DOMAIN pending' /\ n + (i - n) = i
      BY <2>2, <2>4, <3>1, <3>2
    <3> QED
      BY <2>4, <3>1, <3>3
  <2>12. EvictedConfirmed' /\ LogEnd' /\ LogRows' /\ PinnedKept' /\ BelowFirst'
    BY <1>2 DEF EvictedConfirmed, LogEnd, LogRows, PinnedKept, BelowFirst, TrimmedTo, NewFirst
  <2>13. PinsTravel'
    <3>1. ASSUME NEW p \in pinned
          PROVE  p \notin op'.unpin /\ \A i \in DOMAIN pending' : p \notin pending'[i].unpin
      BY <2>3, <2>4, <2>5 DEF PinsTravel
    <3>2. ASSUME NEW p \in pinned, p \in op'.append
          PROVE  p \in op'.pin
      <4>1. PICK i \in 1..n : p \in pending[i].append
        BY <2>5, <3>2
      <4>2. p \in pending[i].pin /\ i \in DOMAIN pending
        BY <2>3, <4>1 DEF PinsTravel
      <4>3. \A j \in 1..n : p \notin pending[j].unpin /\ (j # i => p \notin pending[j].pin)
        BY <2>3, <4>2 DEF PinsTravel
      <4> QED
        BY <2>5, <4>2, <4>3
    <3>3. ASSUME NEW p \in pinned, NEW i \in DOMAIN pending', p \in pending'[i].append
          PROVE  p \in pending'[i].pin
      BY <2>4, <3>3 DEF PinsTravel
    <3>4. ASSUME NEW i \in DOMAIN pending', NEW j \in DOMAIN pending', i # j
          PROVE  pending'[i].pin \cap pending'[j].pin = {}
      <4>1. n + i # n + j
        BY <2>2, <2>4, <3>4
      <4> QED
        BY <2>4, <4>1 DEF PinsTravel
    <3> QED
      BY <3>1, <3>2, <3>3, <3>4 DEF PinsTravel
  <2> QED
    BY <2>6, <2>7, <2>9, <2>10, <2>11, <2>12, <2>13
<1> QED
  BY <1>1, <1>2 DEF Take

(* WriterApply: the rows of the op follow the last row; a row arrives with *)
(* its pin.                                                                *)
LEMMA WriterApplyStep == ASSUME IInv, WriterApply PROVE IInv'
<1> USE DEF IInv
<1>0. /\ UNCHANGED <<op, first, stored, slow, sharedVars, hubVars>>
      /\ wpc = "apply" /\ wpc' = "applied"
  BY DEF WriterApply
<1>same. WriterShape' /\ InFlight' /\ InQueue' /\ Covered' /\ EvictedConfirmed' /\ PinsTravel'
  BY <1>0 DEF WriterShape, InFlight, InQueue, Covered, EvictedConfirmed, PinsTravel, Seqs,
              hubVars, sharedVars
<1>1. CASE UNCHANGED storeVars /\ failed' = TRUE
  <2> USE <1>0, <1>1 DEF hubVars, sharedVars, storeVars, Seqs
  <2>1. TypeOK'
    BY DEF TypeOK
  <2>2. LogEnd' /\ LogRows' /\ PinnedKept' /\ BelowFirst'
    BY DEF LogEnd, LogRows, PinnedKept, BelowFirst, TrimmedTo, NewFirst
  <2> QED
    BY <1>same, <2>1, <2>2
<1>2. CASE Apply(op) /\ failed' = FALSE
  <2>1. /\ UNCHANGED <<op, first, stored, slow, degraded, pending, written, trims, trimmed,
                       nextSeq, durable, head, pinned, ended, updating, storeTrimmed, floor, closed>>
        /\ ~closed
        /\ rows' = rows \cup op.append
        /\ rowPinned' = (rowPinned \cup (op.pin \cap rows')) \ op.unpin
        /\ last' = IF op.append = {} THEN last ELSE Max(op.append)
        /\ failed' = FALSE /\ wpc' = "applied"
    BY <1>0, <1>2 DEF Apply, Accepts, PinsApplied, hubVars, sharedVars
  <2>2. /\ nextSeq \in Nat /\ durable \subseteq 0..(nextSeq - 1)
        /\ written \in -1..(nextSeq - 1) /\ last = written
        /\ op.append \subseteq durable
    BY <1>0 DEF TypeOK, LogEnd, InFlight, Seqs
  <2>3. op.append # {} => /\ last' \in op.append /\ last' \in durable
                          /\ \A s \in op.append : s <= last'
    BY <2>1, <2>2, MaxExists
  <2>4. last' >= last /\ last' \in -1..(nextSeq - 1)
    <3>1. CASE op.append = {}
      BY <2>1, <2>2, <3>1
    <3>2. CASE op.append # {}
      <4>1. last' > written
        BY <2>3, <3>2 DEF InFlight
      <4>2. last' \in 0..(nextSeq - 1)
        BY <2>2, <2>3, <3>2
      <4> QED
        BY <2>2, <4>1, <4>2
    <3> QED
      BY <3>1, <3>2
  <2>5. TypeOK'
    BY <2>1, <2>2, <2>4 DEF TypeOK, Seqs
  <2>6. LogEnd'
    BY <2>1, <2>2, <2>4 DEF LogEnd
  <2>7. LogRows'
    <3>1. rows' \subseteq durable
      BY <2>1, <2>2 DEF LogRows
    <3>2. ASSUME NEW s \in rows' PROVE s <= last'
      <4>1. CASE s \in op.append
        BY <2>3, <4>1
      <4>2. CASE s \in rows
        BY <2>2, <2>4, <3>1, <4>2 DEF LogRows
      <4> QED
        BY <2>1, <4>1, <4>2
    <3>3. storeTrimmed' <= last'
      BY <2>1, <2>2, <2>4 DEF LogRows, TypeOK
    <3>4. ASSUME NEW s \in durable, s <= last', s \notin rows'
          PROVE  s <= storeTrimmed
      <4>1. s \notin op.append /\ s \notin rows
        BY <2>1, <3>4
      <4>2. s <= written
        <5>1. CASE op.append = {}
          BY <2>1, <2>2, <3>4, <5>1
        <5>2. CASE op.append # {}
          <6>1. s # last' /\ s < last'
            BY <2>2, <2>3, <2>4, <3>4, <4>1, <5>2
          <6> QED
            BY <2>3, <4>1, <5>2, <6>1 DEF InFlight
        <5> QED
          BY <5>1, <5>2
      <4> QED
        BY <2>1, <2>2, <4>1, <4>2 DEF LogRows
    <3> QED
      BY <2>1, <3>1, <3>2, <3>3, <3>4 DEF LogRows
  <2>8. PinnedKept'
    <3> SUFFICES ASSUME NEW p \in pinned \cap durable, p <= last'
                 PROVE  p \in rows' /\ p \in rowPinned'
      BY <2>1 DEF PinnedKept
    <3>1. p \notin op.unpin /\ (p \in op.append => p \in op.pin)
      BY DEF PinsTravel
    <3>2. CASE p \in op.append
      BY <2>1, <3>1, <3>2
    <3>3. CASE p \notin op.append
      <4>1. p <= last
        <5>1. CASE op.append = {}
          BY <2>1, <5>1
        <5>2. CASE op.append # {}
          <6>1. p # last' /\ p < last'
            <7>1. p \in durable
              OBVIOUS
            <7>2. p \in 0..(nextSeq - 1) /\ last' \in Int
              BY <2>2, <2>4, <7>1
            <7> QED
              BY <2>3, <3>3, <5>2, <7>2
          <6> QED
            BY <2>2, <2>3, <3>3, <5>2, <6>1 DEF InFlight
        <5> QED
          BY <5>1, <5>2
      <4> QED
        BY <2>1, <3>1, <4>1 DEF PinnedKept
    <3> QED
      BY <3>2, <3>3
  <2>9. BelowFirst'
    BY <1>0, <2>1 DEF BelowFirst, TrimmedTo, NewFirst
  <2> QED
    BY <1>same, <2>5, <2>6, <2>7, <2>8, <2>9
<1> QED
  BY <1>1, <1>2 DEF WriterApply

(* Applied: W moves to the last row of the op, or the log is given up.     *)
LEMMA AppliedStep == ASSUME IInv, Applied PROVE IInv'
<1> USE DEF IInv
<1>0. /\ UNCHANGED <<first, trims, trimmed, nextSeq, durable, head, pinned, ended, updating,
                     rows, rowPinned, last, storeTrimmed, floor, closed>>
      /\ wpc = "applied" /\ op' = NoOp /\ failed' = FALSE
      /\ op'.append = {} /\ op'.pin = {} /\ op'.unpin = {} /\ op' \in Ops
  BY DEF Applied, hubVars, storeVars, NoOp, Ops
<1>1. /\ nextSeq \in Nat /\ durable \subseteq 0..(nextSeq - 1)
      /\ written \in -1..(nextSeq - 1) /\ op.append \subseteq durable
      /\ pending \in Seq(Ops) /\ degraded \in Reasons \cup {"no"} /\ slow \in Nat
  BY DEF TypeOK, InFlight, Seqs
<1>2. op.append # {} => Max(op.append) \in op.append /\ \A s \in op.append : s <= Max(op.append)
  BY <1>1, MaxExists
(* Whatever the branch: where W goes, and what becomes of the queue. *)
<1>3. /\ \/ written' = written
         \/ ~failed /\ op.append # {} /\ written' = Max(op.append)
      /\ degraded' = "no" => ~failed /\ (op.append = {} => written' = written)
                             /\ (op.append # {} => written' = Max(op.append))
      /\ ~failed /\ degraded = "no" /\ op.append # {} => written' = Max(op.append)
      /\ wpc' \in {"take", "trim", "done"} /\ (wpc' = "done" => degraded' # "no")
      /\ wpc' # "done" => ~failed /\ degraded = "no"
      /\ \/ UNCHANGED <<degraded, pending>>
         \/ degraded' \in Reasons /\ degraded' # "no" /\ pending' = <<>> /\ pending' \in Seq(Ops)
      /\ slow' \in Nat
  <2>1. "fault" \in Reasons
    BY DEF Reasons
  <2>2. CASE degraded # "no" /\ wpc' = "done" /\ UNCHANGED <<degraded, pending, written, stored, slow>>
    BY <1>1, <2>2
  <2>3. CASE degraded = "no" /\ failed /\ degrade("fault") /\ wpc' = "done" /\ UNCHANGED <<written, stored, slow>>
    BY <1>1, <2>1, <2>3, DegradeFacts
  <2>4. CASE /\ degraded = "no" /\ ~failed
             /\ written' = IF op.append = {} THEN written ELSE Max(op.append)
             /\ judge(IF stored' > GCMax THEN "trim" ELSE "take")
    <3>1. \/ wpc' \in {"take", "trim"} /\ slow' \in Nat /\ UNCHANGED <<degraded, pending>>
          \/ wpc' = "done" /\ slow' = slow /\ degrade("fault")
      BY <1>1, <2>4 DEF judge
    <3> QED
      BY <1>1, <2>1, <2>4, <3>1, DegradeFacts
  <2> QED
    BY <2>2, <2>3, <2>4 DEF Applied
<1>4. /\ written' \in -1..(nextSeq - 1) /\ written' >= written /\ written' <= last
      /\ wpc' # "done" => last = written'
      /\ written' > written => written' \in op.append
  <2>1. last \in Int /\ last >= written
    BY DEF TypeOK, LogEnd
  <2>2. CASE written' = written
    <3>1. wpc' # "done" => op.append = {}
      <4> SUFFICES ASSUME wpc' # "done", op.append # {} PROVE FALSE
        OBVIOUS
      <4>1. written \in op.append
        BY <1>2, <1>3, <2>2
      <4> QED
        BY <1>1, <4>1 DEF InFlight
    <3> QED
      BY <1>0, <1>1, <1>3, <2>1, <2>2, <3>1 DEF LogEnd
  <2>3. CASE ~failed /\ op.append # {} /\ written' = Max(op.append)
    <3>1. last = written' /\ written' \in op.append
      BY <1>0, <1>2, <2>3 DEF LogEnd
    <3>2. written' > written /\ written' \in 0..(nextSeq - 1)
      BY <1>1, <3>1 DEF InFlight
    <3> QED
      BY <1>1, <3>1, <3>2
  <2> QED
    BY <1>3, <2>2, <2>3
<1>5. degraded' = "no" => \A s \in op.append : s <= written'
  BY <1>2, <1>3
<1>6. TypeOK'
  BY <1>0, <1>1, <1>3, <1>4 DEF TypeOK, Seqs
<1>7. WriterShape'
  BY <1>0, <1>3 DEF WriterShape
<1>8. InFlight'
  BY <1>0 DEF InFlight
<1>9. InQueue'
  <2>1. CASE pending' = <<>>
    BY <2>1 DEF InQueue
  <2>2. CASE pending' = pending
    <3>1. ASSUME NEW i \in DOMAIN pending, NEW s \in pending[i].append
          PROVE  s > written'
      <4>1. s > written /\ (written' \in op.append => written' < s)
        BY DEF InQueue
      <4>2. s \in Int
        <5>1. s \in durable
          BY DEF InQueue
        <5> QED
          BY <1>1, <5>1
      <4> QED
        BY <1>1, <1>4, <4>1, <4>2
    <3> QED
      BY <1>0, <2>2, <3>1 DEF InQueue, Seqs
  <2> QED
    BY <1>3, <2>1, <2>2
<1>10. Covered'
  <2> SUFFICES ASSUME degraded' = "no", NEW s \in durable
               PROVE  s <= written' \/ \E i \in DOMAIN pending' : s \in pending'[i].append
    BY <1>0 DEF Covered
  <2>1. degraded = "no" /\ pending' = pending
    BY <1>3
  <2>2. s <= written => s <= written'
    BY <1>1, <1>4
  <2> QED
    BY <1>5, <2>1, <2>2 DEF Covered
<1>11. EvictedConfirmed'
  <2> SUFFICES ASSUME degraded' = "no", NEW s \in durable, s < head PROVE s <= written'
    BY <1>0 DEF EvictedConfirmed
  <2>1. degraded = "no"
    BY <1>3
  <2> QED
    BY <1>1, <1>4, <2>1 DEF EvictedConfirmed
<1>12. LogEnd'
  BY <1>0, <1>3, <1>4 DEF LogEnd, TypeOK
<1>13. LogRows' /\ PinnedKept'
  BY <1>0 DEF LogRows, PinnedKept
<1>14. PinsTravel'
  BY <1>0, <1>3 DEF PinsTravel
<1>15. BelowFirst'
  BY <1>0, <1>3 DEF BelowFirst
<1> QED
  BY <1>6, <1>7, <1>8, <1>9, <1>10, <1>11, <1>12, <1>13, <1>14, <1>15

(* WriterTrim: only unpinned rows go, and all that goes is below the first *)
(* seq that Trim returns, or below W + 1 when it returns 0.                *)
LEMMA WriterTrimStep == ASSUME IInv, WriterTrim PROVE IInv'
<1> USE DEF IInv
<1>0. /\ UNCHANGED <<op, stored, slow, degraded, pending, written, trims, trimmed,
                     nextSeq, durable, head, pinned, ended, updating>>
      /\ wpc = "trimming" /\ wpc' = "trimmed" /\ last = written
  BY DEF WriterTrim, sharedVars, hubVars, LogEnd
<1>same. WriterShape' /\ InFlight' /\ InQueue' /\ Covered' /\ EvictedConfirmed' /\ PinsTravel'
  BY <1>0 DEF WriterShape, InFlight, InQueue, Covered, EvictedConfirmed, PinsTravel, Seqs
<1>1. CASE UNCHANGED <<storeVars, first>> /\ failed' = TRUE
  <2> USE <1>0, <1>1 DEF storeVars, Seqs
  <2>1. TypeOK'
    BY DEF TypeOK
  <2>2. LogEnd' /\ LogRows' /\ PinnedKept' /\ BelowFirst'
    BY DEF LogEnd, LogRows, PinnedKept, BelowFirst, TrimmedTo, NewFirst
  <2> QED
    BY <1>same, <2>1, <2>2
<1>2. CASE (\E f \in 0..nextSeq : Trim(GCTarget, f) /\ first' = f) /\ failed' = FALSE
  <2>1. PICK f \in 0..nextSeq : Trim(GCTarget, f) /\ first' = f
    BY <1>2
  <2>2. /\ nextSeq \in Nat /\ last \in -1..(nextSeq - 1) /\ storeTrimmed \in -1..(nextSeq - 1)
        /\ durable \subseteq 0..(nextSeq - 1) /\ rows \subseteq durable /\ floor \in Nat
        /\ \A s \in rows : s <= last
        /\ storeTrimmed <= last /\ f \in Nat /\ trimmed \in Nat
        /\ written = last
    BY <1>0 DEF TypeOK, LogRows, Seqs
  <2>3. ~closed /\ UNCHANGED <<rowPinned, last, closed>> /\ floor' = Larger(floor, f)
    BY <2>1 DEF Trim
  <2>4. /\ rows' \subseteq rows
        /\ storeTrimmed' >= storeTrimmed /\ storeTrimmed' <= last /\ storeTrimmed' \in -1..(nextSeq - 1)
        /\ \A s \in rows : s \notin rows' => s \notin rowPinned /\ s <= storeTrimmed'
    <3>1. CASE UNCHANGED <<rows, storeTrimmed>>
      BY <2>2, <3>1
    <3>2. CASE \E cut \in Unpinned : /\ rows' = rows \ {seq \in Unpinned : seq <= cut}
                                     /\ storeTrimmed' = Larger(storeTrimmed, cut)
      <4>1. PICK cut \in Unpinned : /\ rows' = rows \ {seq \in Unpinned : seq <= cut}
                                    /\ storeTrimmed' = Larger(storeTrimmed, cut)
        BY <3>2
      <4>2. cut \in rows /\ cut \in durable /\ cut \in 0..(nextSeq - 1) /\ cut <= last
        BY <2>2 DEF Unpinned
      <4>3. /\ storeTrimmed' \in {storeTrimmed, cut}
            /\ storeTrimmed' >= storeTrimmed /\ storeTrimmed' >= cut
        BY <2>2, <4>1, <4>2, LargerFacts
      <4>4. storeTrimmed' <= last /\ storeTrimmed' \in -1..(nextSeq - 1)
        BY <2>2, <4>2, <4>3
      <4>5. ASSUME NEW s \in rows, s \notin rows'
            PROVE  s \notin rowPinned /\ s <= storeTrimmed'
        <5>1. s \in Unpinned /\ s <= cut
          BY <4>1, <4>5
        <5>2. s \in 0..(nextSeq - 1)
          BY <2>2
        <5> QED
          BY <4>2, <4>3, <4>4, <5>1, <5>2 DEF Unpinned
      <4> QED
        BY <4>1, <4>3, <4>4, <4>5
    <3>3. trim(GCTarget)
      BY <2>1 DEF Trim
    <3> QED
      BY <3>1, <3>2, <3>3 DEF trim
  <2>5. f = 0 \/ (f > storeTrimmed' /\ f >= floor)
    <3> SUFFICES ASSUME f # 0 PROVE f > storeTrimmed' /\ f >= floor
      OBVIOUS
    <3> DEFINE left == {seq \in rows' \ rowPinned' : seq > storeTrimmed'}
    <3>1. f = FirstUnpinned(rows', storeTrimmed')
      BY <2>1 DEF Trim
    <3>2. left \in SUBSET Nat
      <4>1. rows' \subseteq 0..(nextSeq - 1)
        BY <2>2, <2>4
      <4>2. 0..(nextSeq - 1) \subseteq Nat
        BY <2>2
      <4>3. left \subseteq rows'
        OBVIOUS
      <4> QED
        BY <4>1, <4>2, <4>3
    <3>3. left # {} /\ f = Larger(Min(left), floor)
      BY <2>3, <3>1 DEF FirstUnpinned
    <3>4. Min(left) \in left
      BY <3>2, <3>3, MinExists
    <3>5. Min(left) > storeTrimmed' /\ Min(left) \in Nat
      BY <3>2, <3>4
    <3> HIDE DEF left
    <3> QED
      BY <2>2, <2>4, <3>3, <3>5, LargerFacts
  <2>6. floor' \in Nat /\ (f > 0 => f >= floor')
    BY <2>2, <2>3, <2>5, LargerFacts
  <2>7. rowPinned' \subseteq rows'
    BY <2>3, <2>4 DEF TypeOK
  <2>8. TypeOK'
    BY <1>0, <1>2, <2>1, <2>2, <2>3, <2>4, <2>6, <2>7 DEF TypeOK, Seqs
  <2>9. LogEnd'
    BY <1>0, <2>2, <2>3 DEF LogEnd
  <2>10. LogRows'
    <3>1. ASSUME NEW s \in durable, s <= last, s \notin rows'
          PROVE  s <= storeTrimmed'
      <4>1. CASE s \in rows
        BY <2>4, <3>1, <4>1
      <4>2. CASE s \notin rows
        BY <2>2, <2>3, <2>4, <3>1, <4>2 DEF LogRows
      <4> QED
        BY <4>1, <4>2
    <3> QED
      BY <1>0, <2>2, <2>3, <2>4, <3>1 DEF LogRows
  <2>11. PinnedKept'
    BY <1>0, <2>3, <2>4 DEF PinnedKept
  <2>12. BelowFirst'
    <3>1. storeTrimmed' < TrimmedTo'
      <4>1. NewFirst' \in Nat /\ storeTrimmed' < NewFirst'
        BY <1>0, <2>1, <2>2, <2>4, <2>5 DEF NewFirst
      <4>2. trimmed' \in Nat
        BY <1>0, <2>2
      <4>3. TrimmedTo' >= NewFirst' /\ TrimmedTo' \in {trimmed', NewFirst'}
        BY <4>1, <4>2, LargerFacts DEF TrimmedTo
      <4> QED
        BY <2>4, <4>1, <4>2, <4>3
    <3> QED
      BY <1>0, <1>2, <2>1, <2>6, <3>1 DEF BelowFirst
  <2> QED
    BY <1>same, <2>8, <2>9, <2>10, <2>11, <2>12
<1> QED
  BY <1>1, <1>2 DEF WriterTrim

(* TrimEnds: first_seq moves above what the Trim deleted. *)
LEMMA TrimEndsStep == ASSUME IInv, TrimEnds PROVE IInv'
<1> USE DEF IInv
<1>0. /\ UNCHANGED <<degraded, pending, written, op, failed, slow, nextSeq, durable, head, pinned,
                     ended, updating, rows, rowPinned, last, storeTrimmed, floor, closed>>
      /\ wpc = "trimmed" /\ wpc' = "judge" /\ trims' = trims + 1 /\ first' = 0
      /\ trimmed' = IF failed THEN trimmed ELSE TrimmedTo
  BY DEF TrimEnds, hubVars, storeVars
<1>1. /\ trimmed \in Nat /\ written \in Int /\ written >= -1 /\ first \in Nat
      /\ trims \in Nat /\ storeTrimmed \in Int /\ last = written
  BY <1>0 DEF TypeOK, LogEnd
<1>2. TrimmedTo \in Nat /\ TrimmedTo >= trimmed
  <2>1. NewFirst \in Nat
    BY <1>1 DEF NewFirst
  <2> QED
    BY <1>1, <2>1, LargerFacts DEF TrimmedTo
<1>3. trimmed' \in Nat /\ storeTrimmed < trimmed'
  BY <1>0, <1>1, <1>2 DEF BelowFirst
<1>4. TypeOK'
  <2>1. trims' \in Nat /\ first' \in Nat
    BY <1>0, <1>1
  <2> QED
    BY <1>0, <1>3, <2>1 DEF TypeOK, Seqs
<1>5. WriterShape'
  BY <1>0, <1>1, <1>3 DEF WriterShape
<1>6. InFlight' /\ InQueue' /\ Covered' /\ EvictedConfirmed'
  BY <1>0, <1>3 DEF InFlight, InQueue, Covered, EvictedConfirmed, Seqs
<1>7. LogEnd' /\ LogRows' /\ PinnedKept'
  BY <1>0, <1>1, <1>3 DEF LogEnd, LogRows, PinnedKept
<1>8. PinsTravel'
  BY <1>0, <1>3 DEF PinsTravel
<1>9. BelowFirst'
  BY <1>0, <1>3 DEF BelowFirst
<1> QED
  BY <1>4, <1>5, <1>6, <1>7, <1>8, <1>9

(* TrimJudged goes on, or gives up the log. *)
LEMMA TrimJudgedStep == ASSUME IInv, TrimJudged PROVE IInv'
<1> USE DEF IInv
<1>0. /\ UNCHANGED <<written, trims, trimmed, op, first, nextSeq, durable, head, pinned, ended,
                     updating, rows, rowPinned, last, storeTrimmed, floor, closed>>
      /\ wpc = "judge" /\ failed' = FALSE
  BY DEF TrimJudged, hubVars, storeVars
<1>1. /\ slow \in Nat /\ pending \in Seq(Ops) /\ degraded \in Reasons \cup {"no"}
      /\ last = written /\ storeTrimmed < trimmed
  BY <1>0 DEF TypeOK, LogEnd, BelowFirst
<1>2. /\ wpc' \in {"take", "done"} /\ slow' \in Nat
      /\ wpc' = "done" => degraded' # "no"
      /\ \/ UNCHANGED <<degraded, pending>>
         \/ degraded' \in Reasons /\ degraded' # "no" /\ pending' = <<>> /\ pending' \in Seq(Ops)
  <2>1. "fault" \in Reasons
    BY DEF Reasons
  <2>2. CASE failed /\ degrade("fault") /\ wpc' = "done" /\ UNCHANGED <<stored, slow>>
    BY <1>1, <2>1, <2>2, DegradeFacts
  <2>3. CASE judge("take")
    <3>1. \/ wpc' = "take" /\ slow' \in Nat /\ UNCHANGED <<degraded, pending>>
          \/ wpc' = "done" /\ slow' = slow /\ degrade("fault")
      BY <1>1, <2>3 DEF judge
    <3> QED
      BY <1>1, <2>1, <3>1, DegradeFacts
  <2> QED
    BY <2>2, <2>3 DEF TrimJudged
<1>4. TypeOK'
  <2>1. slow' \in Nat /\ pending' \in Seq(Ops) /\ degraded' \in Reasons \cup {"no"}
    BY <1>1, <1>2
  <2>2. wpc' \in {"take", "apply", "applied", "trim", "trimming", "trimmed", "judge", "done"}
    BY <1>2
  <2> QED
    BY <1>0, <2>1, <2>2 DEF TypeOK, Seqs
<1>5. WriterShape'
  BY <1>0, <1>2 DEF WriterShape
<1>6. InFlight' /\ InQueue' /\ Covered' /\ EvictedConfirmed'
  BY <1>0, <1>2 DEF InFlight, InQueue, Covered, EvictedConfirmed, Seqs
<1>7. LogEnd' /\ LogRows' /\ PinnedKept'
  BY <1>0, <1>1, <1>2 DEF LogEnd, LogRows, PinnedKept
<1>8. PinsTravel'
  BY <1>0, <1>2 DEF PinsTravel
<1>9. BelowFirst'
  BY <1>0, <1>1, <1>2 DEF BelowFirst
<1> QED
  BY <1>4, <1>5, <1>6, <1>7, <1>8, <1>9

(* A step that changes nothing. *)
LEMMA StutterStep == ASSUME IInv, UNCHANGED vars PROVE IInv'
<1> USE DEF IInv, vars, hubVars, writerVars, storeVars, sharedVars, Seqs
<1>1. TypeOK' /\ WriterShape'
  BY DEF TypeOK, WriterShape
<1>2. InFlight' /\ InQueue' /\ Covered' /\ EvictedConfirmed'
  BY DEF InFlight, InQueue, Covered, EvictedConfirmed
<1>3. LogEnd' /\ LogRows' /\ PinsTravel' /\ PinnedKept' /\ BelowFirst'
  BY DEF LogEnd, LogRows, PinsTravel, PinnedKept, BelowFirst, TrimmedTo, NewFirst
<1> QED
  BY <1>1, <1>2, <1>3

(* Every step of the Hub, its writer and its log preserves IInv. *)
LEMMA NextIInv == IInv /\ [Next]_vars => IInv'
<1> SUFFICES ASSUME IInv, [Next]_vars PROVE IInv'
  OBVIOUS
<1>1. CASE \E n \in 0..MaxBatch : \E D, P \in SUBSET (nextSeq..(nextSeq + n - 1)) :
             \E U \in SUBSET (pinned \cup P) : Update(n, D, P, U)
  <2>1. PICK n \in 0..MaxBatch : \E D, P \in SUBSET (nextSeq..(nextSeq + n - 1)) :
                \E U \in SUBSET (pinned \cup P) : Update(n, D, P, U)
    BY <1>1
  <2>2. n \in Nat
    BY HubAssumption
  <2> QED
    BY <2>1, <2>2, UpdateStep
<1>2. CASE Writer
  BY <1>2, TakeStep, WriterApplyStep, AppliedStep, TrimBeginsStep, WriterTrimStep, TrimEndsStep,
     TrimJudgedStep
     DEF Writer
<1>3. CASE \E reason \in Reasons : ReadFails(reason)
  BY <1>3, ReadFailsStep
<1>4. CASE UNCHANGED vars
  BY <1>4, StutterStep
<1> QED
  BY <1>1, <1>2, <1>3, <1>4, EvictStep, UpdateReturnsStep, CloseStep, CloseLogStep
     DEF Next, HubStep

-----------------------------------------------------------------------------
(* The theorems *)

(* IInv holds in every state of every behaviour. *)
THEOREM Invariance == Spec => []IInv
<1> QED
  BY InitIInv, NextIInv, PTL DEF Spec

(* The variables keep their types whatever the sizes of the ring, the      *)
(* queue and the log.                                                      *)
THEOREM TypeCorrect == Spec => []TypeOK
<1>1. IInv => TypeOK
  BY DEF IInv
<1> QED
  BY <1>1, Invariance, PTL

(* A durable event that Update evicts is in the log as long as the log is  *)
(* in use, unless a Trim deleted it: the W rule loses nothing.             *)
THEOREM EvictedStored == Spec => []EvictedAreStored
<1>1. IInv => EvictedAreStored
  <2> SUFFICES ASSUME IInv, degraded = "no", ~closed, NEW seq \in durable, seq < head
               PROVE  seq \in rows \/ seq <= storeTrimmed
    BY DEF EvictedAreStored
  <2>1. seq <= written
    BY DEF IInv, EvictedConfirmed
  <2>2. seq \in Int /\ written \in Int /\ last \in Int /\ last >= written
    <3>1. seq \in Seqs /\ written \in -1..(nextSeq - 1) /\ last \in -1..(nextSeq - 1)
      BY DEF IInv, TypeOK
    <3> QED
      BY <3>1 DEF IInv, LogEnd, Seqs
  <2> QED
    BY <2>1, <2>2 DEF IInv, LogRows
<1> QED
  BY <1>1, Invariance, PTL

(* Outside a Trim, every durable event from first_seq up to W has its row: *)
(* what SubscribeAfter promises a resuming reader can be kept.             *)
THEOREM FirstSeqIsHonest == Spec => []FirstSeqHonest
<1>1. IInv => FirstSeqHonest
  <2> SUFFICES ASSUME IInv, trims % 2 = 0, ~closed, NEW seq \in durable,
                      trimmed <= seq, seq <= written
               PROVE  seq \in rows
    BY DEF FirstSeqHonest
  <2>1. /\ seq \in Seqs /\ written \in -1..(nextSeq - 1) /\ last \in -1..(nextSeq - 1)
        /\ storeTrimmed \in -1..(nextSeq - 1) /\ trimmed \in Nat
    BY DEF IInv, TypeOK
  <2>2. seq <= last
    BY <2>1 DEF IInv, LogEnd, Seqs
  <2>3. wpc # "trimmed"
    BY DEF IInv, WriterShape
  <2>4. storeTrimmed < trimmed
    BY <2>3 DEF IInv, BelowFirst
  <2>5. ~(seq <= storeTrimmed)
    BY <2>1, <2>4 DEF Seqs
  <2> QED
    BY <2>2, <2>5 DEF IInv, LogRows
<1> QED
  BY <1>1, Invariance, PTL

(* A request that the Hub pins keeps its row and its pin, whatever is      *)
(* queued, merged, applied and trimmed.                                    *)
THEOREM PinnedIsKept == Spec => []PinnedKept
<1>1. IInv => PinnedKept
  BY DEF IInv
<1> QED
  BY <1>1, Invariance, PTL

(* Apply never meets a seq out of order: only a closed log refuses an op.  *)
THEOREM ApplyInOrder == Spec => []InOrder
<1>1. IInv => InOrder
  BY DEF IInv, InOrder, Accepts, InFlight, LogEnd
<1> QED
  BY <1>1, Invariance, PTL

(* A writer that ends without giving up the log has written everything     *)
(* that was published as durable.                                          *)
THEOREM WriterDrained == Spec => []Drained
<1>1. IInv => Drained
  BY DEF IInv, Drained, WriterShape, Covered, NoOp
<1> QED
  BY <1>1, Invariance, PTL

(* first_seq never goes back: neither what the writer keeps nor what Trim  *)
(* returns.                                                                *)
THEOREM FirstSeqGrows == Spec => FirstSeqMonotone
<1>1. IInv /\ [Next]_vars => [trimmed' >= trimmed /\ (first' > 0 => first' >= floor)]_vars
  <2> SUFFICES ASSUME IInv, Next PROVE trimmed' >= trimmed /\ (first' > 0 => first' >= floor)
    BY Zenon
  <2>1. trimmed \in Nat /\ floor \in Nat /\ written \in Int /\ written >= -1 /\ first \in Nat
        /\ (first > 0 => first >= floor)
    BY DEF IInv, TypeOK, BelowFirst
  <2>2. CASE UNCHANGED <<trimmed, first>>
    BY <2>1, <2>2
  <2>3. CASE WriterTrim
    <3>1. trimmed' = trimmed
      BY <2>3 DEF WriterTrim, sharedVars
    <3>2. CASE UNCHANGED first
      BY <2>1, <3>1, <3>2
    <3>3. CASE \E f \in 0..nextSeq : Trim(GCTarget, f) /\ first' = f
      <4>1. PICK f \in 0..nextSeq : Trim(GCTarget, f) /\ first' = f
        BY <3>3
      <4>2. IInv'
        BY <2>3, WriterTrimStep
      <4>3. floor' = Larger(floor, first')
        BY <4>1 DEF Trim
      <4>4. first' \in Nat /\ floor' \in Nat /\ (first' > 0 => first' >= floor')
        BY <4>2 DEF IInv, TypeOK, BelowFirst
      <4>5. floor' >= floor
        BY <2>1, <4>3, <4>4, LargerFacts
      <4> QED
        BY <2>1, <3>1, <4>4, <4>5
    <3> QED
      BY <2>3, <3>2, <3>3 DEF WriterTrim
  <2>4. CASE TrimEnds
    <3>1. first' = 0 /\ (trimmed' = trimmed \/ trimmed' = TrimmedTo)
      BY <2>4 DEF TrimEnds
    <3>2. NewFirst \in Nat
      BY <2>1 DEF NewFirst
    <3>3. TrimmedTo >= trimmed
      BY <2>1, <3>2, LargerFacts DEF TrimmedTo
    <3> QED
      BY <2>1, <3>1, <3>3
  <2>5. \/ UNCHANGED <<trimmed, first>>
        \/ WriterTrim \/ TrimEnds
    <3>1. HubStep => UNCHANGED <<trimmed, first>>
      <4>1. \A n, D, P, U : Update(n, D, P, U) => UNCHANGED <<trimmed, first>>
        BY DEF Update, writerVars
      <4>2. Evict \/ UpdateReturns \/ Close => UNCHANGED <<trimmed, first>>
        BY DEF Evict, UpdateReturns, Close, writerVars, sharedVars
      <4> QED
        BY <4>1, <4>2 DEF HubStep
    <3>2. Take \/ WriterApply \/ Applied => UNCHANGED <<trimmed, first>>
      BY DEF Take, WriterApply, Applied, sharedVars
    <3>3. TrimBegins \/ TrimJudged => UNCHANGED <<trimmed, first>>
      BY DEF TrimBegins, TrimJudged
    <3>4. CloseLog \/ (\E reason \in Reasons : ReadFails(reason)) => UNCHANGED <<trimmed, first>>
      BY DEF CloseLog, ReadFails, writerVars, sharedVars
    <3> QED
      BY <3>1, <3>2, <3>3, <3>4 DEF Next, Writer
  <2> QED
    BY <2>2, <2>3, <2>4, <2>5
<1> QED
  BY <1>1, Invariance, PTL DEF Spec, FirstSeqMonotone

-----------------------------------------------------------------------------
(* The Hub, its writer and its log behave towards their readers as they do *)
(* without them: every step of ChatStream is a step of EventHub or leaves  *)
(* its variables alone.  What was shown of the Hub therefore holds while   *)
(* any number of pages subscribe, read and disconnect.                     *)

(* What a page and its request do to the Hub: nothing, or giving up the    *)
(* log after a failed or a refused read.                                   *)
LEMMA ReaderStep ==
  ASSUME NEW r \in Readers, Subscribe(r) \/ Dial(r) \/ Send(r) \/ Disconnect(r)
  PROVE  UNCHANGED vars \/ \E reason \in Reasons : ReadFails(reason)
<1>1. {"fault", "notIssued"} \subseteq Reasons
  BY DEF Reasons
<1>2. CASE Subscribe(r) \/ Dial(r) \/ SubscribeAfter(r)
  BY <1>2 DEF Subscribe, Dial, SubscribeAfter, Begin
<1>3. CASE BackfillRefused(r) \/ BackfillFails(r)
  BY <1>1, <1>3 DEF BackfillRefused, BackfillFails
<1>4. CASE BackfillCheck(r) \/ BackfillRange(r) \/ SendRows(r) \/ BackfillEnds(r)
  BY <1>4 DEF BackfillCheck, BackfillRange, SendRows, BackfillEnds
<1>5. CASE SendSnapshot(r) \/ SendLive(r) \/ Disconnect(r)
  BY <1>5 DEF SendSnapshot, SendLive, Disconnect
<1> QED
  BY <1>2, <1>3, <1>4, <1>5 DEF Send

(* A step of the whole is a step of the Hub, or the Hub does not notice. *)
LEMMA StreamStep == [StreamNext]_streamVars => [Next]_vars
<1> SUFFICES ASSUME [StreamNext]_streamVars PROVE [Next]_vars
  OBVIOUS
<1>1. CASE \E n \in 0..MaxBatch : \E D, P \in SUBSET (nextSeq..(nextSeq + n - 1)) :
             \E U \in SUBSET (pinned \cup P) : Publish(n, D, P, U)
  BY <1>1 DEF Publish, Next, HubStep
<1>2. CASE StreamClose
  BY <1>2 DEF StreamClose, Next, HubStep
<1>3. CASE (Evict \/ UpdateReturns \/ Writer \/ CloseLog) /\ UNCHANGED <<conn, view>>
  BY <1>3 DEF Next, HubStep
<1>4. CASE \E r \in Readers : Subscribe(r) \/ Dial(r) \/ Send(r) \/ Disconnect(r)
  BY <1>4, ReaderStep DEF Next
<1>5. CASE UNCHANGED streamVars
  BY <1>5 DEF streamVars
<1> QED
  BY <1>1, <1>2, <1>3, <1>4, <1>5 DEF StreamNext

(* The composition of the Hub with its readers implements the Hub alone. *)
THEOREM StreamImplementsHub == StreamSpec => Spec
<1>1. StreamInit => Init
  BY DEF StreamInit
<1> QED
  BY <1>1, StreamStep, PTL DEF StreamSpec, Spec

(* Hub.SubscribeAfter's first_seq is honest, and a request that waits is   *)
(* kept in the log, whatever the readers do meanwhile.                     *)
THEOREM HonestToReaders == StreamSpec => [](FirstSeqHonest /\ PinnedKept)
<1> QED
  BY StreamImplementsHub, FirstSeqIsHonest, PinnedIsKept, PTL

-----------------------------------------------------------------------------
(* What a page has, what its request still has to send, and why that is    *)
(* all: StreamComplete, PendingSeen and HolesAreTrimmed for any number of  *)
(* pages.                                                                  *)
Request ==
  [pc : Connected \cup {"off", "dial", "end"}, trims : Nat, resumed : BOOLEAN, first : Nat,
   after : Int, cursor : Int, before : Nat, rows : SUBSET Nat, snap : SUBSET Nat,
   qnext : Nat, done : {"no", "slow", "eof"}]
Page == [last : Int, got : SUBSET Nat, omitted : BOOLEAN]

Fits(c, v) ==
  /\ c.before <= nextSeq /\ c.qnext <= nextSeq
  /\ c.rows \subseteq Seqs /\ c.snap \subseteq Seqs /\ c.cursor \in -1..(nextSeq - 1)
  /\ v.last \in -1..(nextSeq - 1) /\ v.got \subseteq Seqs

(* Up to its last seq the page has what is still in the ring and what is   *)
(* pinned; what else it misses was trimmed, or it was told.                *)
PageOK(v) ==
  /\ \A s \in v.got : s <= v.last
  /\ \A s \in Nat : s <= v.last =>
       /\ head <= s \/ s \in pinned => s \in v.got
       /\ s \in durable => s \in v.got \/ v.omitted \/ s <= storeTrimmed

(* S has what the page still lacks below n: all of b and later, what is    *)
(* pinned, and what is durable unless it was trimmed or the page was told. *)
Covers(v, S, b, n) ==
  \A s \in Nat : v.last < s /\ s < n =>
    /\ b <= s \/ s \in pinned => s \in S
    /\ s \in durable => s \in S \/ v.omitted \/ s <= storeTrimmed

(* The same up to each element of S, so that a prefix of S may be sent.    *)
Contiguous(v, S, b) == \A x \in S : Covers(v, S, b, x + 1)

(* The page has every durable event of its own backfill below n.           *)
Complete(c, v, n) ==
  \A s \in durable : c.after < s /\ s < n /\ c.first <= s => s \in v.got

Filling == {"check", "range", "rows", "recheck"}

(* While a request reads the log: where it has come to, and that what is   *)
(* behind the ring was in the log when it began.                           *)
FillOK(c, v) ==
  /\ c.resumed /\ c.cursor = v.last /\ c.after <= v.last /\ v.last < c.before
  /\ \A s \in Nat : c.before <= s /\ s < c.qnext => s \in c.snap
  /\ \A p \in pinned : c.after < p /\ p < c.before => p \in durable
  /\ \A s \in durable : c.after < s /\ s < c.before => s <= written
  /\ c.trims <= trims /\ c.trims % 2 = 0
  /\ c.trims = trims => /\ trimmed <= c.first \/ c.before <= c.first
                        /\ Complete(c, v, v.last + 1)

(* A batch that was read, and the empty one that ends the backfill.        *)
RowsOK(c, v) ==
  /\ c.rows # {} /\ \A s \in c.rows : v.last < s /\ s < c.before
  /\ Contiguous(v, c.rows, c.before)
  /\ c.trims = trims => \A x \in c.rows : \A s \in durable :
                          v.last < s /\ s <= x /\ c.first <= s => s \in c.rows
EndOK(c, v) ==
  /\ Covers(v, {}, c.before, c.before)
  /\ c.trims = trims => Complete(c, v, c.before)

(* The snapshot and the live events.                                       *)
LiveOK(c, v) ==
  /\ Covers(v, c.snap, c.before, c.qnext)
  /\ \A s \in Nat : c.before <= s /\ s <= v.last => s \in v.got
  /\ c.resumed => Complete(c, v, c.before)
  /\ c.pc = "live" => c.snap = {}

ReaderOK(c, v) ==
  /\ c \in Request /\ v \in Page /\ Fits(c, v) /\ PageOK(v)
  /\ c.pc = "dial" => c.trims <= trims /\ 0 <= v.last
  /\ c.pc \in Connected => /\ c.before <= head /\ c.before <= c.qnext /\ v.last < c.qnext
                           /\ \A s \in c.snap : s < c.qnext
  /\ c.pc \in Filling => FillOK(c, v)
  /\ c.pc = "rows" => RowsOK(c, v)
  /\ c.pc = "recheck" => EndOK(c, v)
  /\ c.pc \in {"snap", "live"} => LiveOK(c, v)

TrimOrigin == trims = 0 => trimmed = 0

SInv ==
  /\ IInv /\ TrimOrigin
  /\ conn = [r \in Readers |-> conn[r]] /\ view = [r \in Readers |-> view[r]]
  /\ \A r \in Readers : ReaderOK(conn[r], view[r])

-----------------------------------------------------------------------------
LEMMA HubTypes ==
  ASSUME IInv
  PROVE  /\ nextSeq \in Nat /\ head \in Nat /\ head <= nextSeq
         /\ durable \subseteq Seqs /\ pinned \subseteq Seqs /\ rows \subseteq Seqs
         /\ storeTrimmed \in Int /\ written \in Int /\ last \in Int
         /\ trims \in Nat /\ trimmed \in Nat
         /\ \A s \in Seqs : s \in Nat /\ s < nextSeq
         /\ \A s \in Nat : s < nextSeq => s \in Seqs
<1>1. TypeOK
  BY DEF IInv
<1> QED
  BY <1>1 DEF TypeOK, Seqs

(* What a step of the Hub may do to what its readers rely on.              *)
Onward ==
  /\ nextSeq' \in Nat /\ nextSeq <= nextSeq' /\ head <= head' /\ head' \in Nat
  /\ durable \subseteq durable'
  /\ \A s \in Nat : s < nextSeq => (s \in pinned' => s \in pinned) /\ (s \in durable' => s \in durable)
  /\ storeTrimmed' \in Int /\ storeTrimmed <= storeTrimmed'
  /\ written' \in Int /\ written <= written'
  /\ trims' \in Nat /\ trims <= trims' /\ (trims' = trims => trimmed' = trimmed)
  /\ pinned' \subseteq Nat /\ durable' \subseteq Nat

(* Nothing of that goes back: seqs, the ring, W and Trim only advance, and *)
(* what is pinned or durable is decided when it is published.              *)
LEMMA HubOnward ==
  ASSUME IInv, [Next]_vars
  PROVE  Onward
<1>1. IInv'
  BY NextIInv
<1>2. /\ nextSeq' \in Nat /\ head' \in Nat /\ storeTrimmed' \in Int /\ written' \in Int
      /\ trims' \in Nat /\ pinned' \subseteq Nat /\ durable' \subseteq Nat
  <2>1. TypeOK'
    BY <1>1 DEF IInv
  <2>2. nextSeq' \in Nat /\ head' \in 0..nextSeq' /\ trims' \in Nat
        /\ storeTrimmed' \in -1..(nextSeq' - 1) /\ written' \in -1..(nextSeq' - 1)
    BY <2>1 DEF TypeOK
  <2>3. pinned' \subseteq 0..(nextSeq' - 1) /\ durable' \subseteq 0..(nextSeq' - 1)
    BY <2>1 DEF TypeOK, Seqs
  <2>4. \A k \in Nat : 0..(k - 1) \subseteq Nat
    OBVIOUS
  <2>5. pinned' \subseteq Nat /\ durable' \subseteq Nat
    BY <2>2, <2>3, <2>4
  <2>6. head' \in Nat /\ storeTrimmed' \in Int /\ written' \in Int
    BY <2>2
  <2> QED
    BY <2>2, <2>5, <2>6
<1>3. /\ nextSeq \in Nat /\ head \in Nat /\ durable \subseteq Seqs /\ pinned \subseteq Seqs
      /\ storeTrimmed \in Int /\ written \in Int /\ trims \in Nat
  BY HubTypes
<1> USE DEF Onward
<1>4. CASE UNCHANGED <<nextSeq, durable, head, pinned, storeTrimmed, written, trims, trimmed>>
  BY <1>2, <1>3, <1>4
<1>5. ASSUME NEW n \in 0..MaxBatch, NEW D \in SUBSET (nextSeq..(nextSeq + n - 1)),
             NEW P \in SUBSET (nextSeq..(nextSeq + n - 1)), NEW U, Update(n, D, P, U)
      PROVE  Onward
  <2>1. n \in Nat
    BY HubAssumption
  <2>2. nextSeq' = nextSeq + n /\ durable' = durable \cup D /\ pinned' \subseteq pinned \cup P
        /\ UNCHANGED <<head, storeTrimmed, written, trims, trimmed>>
    BY <1>5 DEF Update, AcceptedPins, storeVars
  <2> QED
    BY <1>2, <1>3, <2>1, <2>2
<1>6. CASE Evict
  BY <1>2, <1>3, <1>6 DEF Evict, storeVars
<1>7. CASE Applied
  <2>1. written' = written \/ (op.append # {} /\ written' = Max(op.append))
    BY <1>7 DEF Applied
  <2>2. op.append \subseteq durable /\ \A f \in op.append : f > written
    BY DEF IInv, InFlight
  <2>3. op.append # {} => Max(op.append) \in op.append
    BY <1>3, <2>2, MaxExists DEF Seqs
  <2>4. written <= written'
    BY <1>2, <1>3, <2>1, <2>2, <2>3
  <2>5. UNCHANGED <<nextSeq, durable, head, pinned, storeTrimmed, trims, trimmed>>
    BY <1>7 DEF Applied, hubVars, storeVars
  <2> QED
    BY <1>2, <1>3, <2>4, <2>5
<1>8. CASE TrimBegins \/ TrimEnds
  <2>1. trims' = trims + 1
        /\ UNCHANGED <<nextSeq, durable, head, pinned, storeTrimmed, written>>
    BY <1>8 DEF TrimBegins, TrimEnds, hubVars, storeVars
  <2> QED
    BY <1>2, <1>3, <2>1
<1>9. CASE WriterTrim
  <2>1. storeTrimmed' = storeTrimmed \/ \E k \in Unpinned : storeTrimmed' = Larger(storeTrimmed, k)
    BY <1>9 DEF WriterTrim, Trim, trim, storeVars
  <2>2. Unpinned \subseteq Nat
    BY HubTypes DEF Unpinned
  <2>3. storeTrimmed <= storeTrimmed'
    BY <1>3, <2>1, <2>2, LargerFacts
  <2>4. UNCHANGED <<nextSeq, durable, head, pinned, written, trims, trimmed>>
    BY <1>9 DEF WriterTrim, hubVars, sharedVars
  <2> QED
    BY <1>2, <1>3, <2>3, <2>4
<1>10. CASE Take \/ WriterApply \/ TrimJudged
  BY <1>4, <1>10 DEF Take, WriterApply, TrimJudged, Apply, hubVars, storeVars, sharedVars
<1>11. CASE UpdateReturns \/ Close \/ CloseLog \/ \E reason \in Reasons : ReadFails(reason)
  BY <1>4, <1>11 DEF UpdateReturns, Close, CloseLog, CloseStore, ReadFails, hubVars, storeVars, sharedVars
<1>12. CASE UNCHANGED vars
  BY <1>4, <1>12 DEF vars, hubVars, storeVars, sharedVars
<1> HIDE DEF Onward
<1>13. CASE HubStep
  BY <1>5, <1>6, <1>11, <1>13 DEF HubStep
<1>14. CASE Writer
  BY <1>7, <1>8, <1>9, <1>10, <1>14 DEF Writer
<1> QED
  BY <1>11, <1>12, <1>13, <1>14 DEF Next

LEMMA TrimOriginStep ==
  ASSUME IInv, TrimOrigin, [Next]_vars
  PROVE  TrimOrigin'
<1>1. Onward
  BY HubOnward
<1>2. trims \in Nat
  BY HubTypes
<1> QED
  BY <1>1, <1>2 DEF Onward, TrimOrigin

-----------------------------------------------------------------------------
(* What a reader may rely on stays true while the Hub moves on.            *)
LEMMA CoversOnward ==
  ASSUME IInv, Onward, NEW v \in Page, NEW S, NEW b, NEW n \in Int, n <= nextSeq, Covers(v, S, b, n)
  PROVE  Covers(v, S, b, n)'
<1>1. nextSeq \in Nat /\ storeTrimmed \in Int
  BY HubTypes
<1> SUFFICES ASSUME NEW s \in Nat, v.last < s, s < n
             PROVE  /\ b <= s \/ s \in pinned' => s \in S
                    /\ s \in durable' => s \in S \/ v.omitted \/ s <= storeTrimmed'
  BY DEF Covers
<1>2. s < nextSeq
  BY <1>1
<1>3. (s \in pinned' => s \in pinned) /\ (s \in durable' => s \in durable)
  BY <1>2 DEF Onward
<1>4. s <= storeTrimmed => s <= storeTrimmed'
  BY <1>1 DEF Onward
<1> QED
  BY <1>3, <1>4 DEF Covers

LEMMA PageOnward ==
  ASSUME IInv, Onward, NEW v \in Page, v.last < nextSeq, PageOK(v)
  PROVE  PageOK(v)'
<1>1. nextSeq \in Nat /\ storeTrimmed \in Int /\ head \in Nat
  BY HubTypes
<1>2. ASSUME NEW s \in Nat, s <= v.last
      PROVE  /\ head' <= s \/ s \in pinned' => s \in v.got
             /\ s \in durable' => s \in v.got \/ v.omitted \/ s <= storeTrimmed'
  <2>1. s < nextSeq
    BY <1>1, <1>2 DEF Page
  <2>2. (s \in pinned' => s \in pinned) /\ (s \in durable' => s \in durable)
    BY <2>1 DEF Onward
  <2>3. (s <= storeTrimmed => s <= storeTrimmed') /\ (head' <= s => head <= s)
    BY <1>1 DEF Onward
  <2> QED
    BY <1>2, <2>2, <2>3 DEF PageOK
<1> QED
  BY <1>2 DEF PageOK

LEMMA ReaderOnward ==
  ASSUME IInv, Onward, NEW c, NEW v, ReaderOK(c, v)
  PROVE  ReaderOK(c, v)'
<1>1. /\ nextSeq \in Nat /\ head \in Nat /\ trims \in Nat /\ written \in Int
      /\ durable \subseteq Nat /\ pinned \subseteq Nat
  BY HubTypes
<1>2. /\ c.before \in Nat /\ c.qnext \in Nat /\ c.trims \in Nat /\ v.last \in Int /\ c.after \in Int
      /\ c.rows \in SUBSET Nat /\ c.snap \in SUBSET Nat /\ v \in Page
  BY DEF ReaderOK, Request, Page
<1>3. /\ nextSeq' \in Nat /\ nextSeq <= nextSeq' /\ head <= head' /\ head' \in Nat
      /\ trims' \in Nat /\ trims <= trims' /\ (trims' = trims => trimmed' = trimmed)
      /\ written' \in Int /\ written <= written' /\ durable \subseteq durable'
  BY DEF Onward
<1>4. c.qnext <= nextSeq /\ c.before <= nextSeq /\ v.last < nextSeq
  BY <1>1, <1>2 DEF ReaderOK, Fits
<1>5. Fits(c, v)'
  BY <1>1, <1>2, <1>3 DEF ReaderOK, Fits, Seqs
<1>6. PageOK(v)'
  BY <1>2, <1>4, PageOnward DEF ReaderOK
<1>7. \A s \in Nat : s < nextSeq => (s \in pinned' => s \in pinned) /\ (s \in durable' => s \in durable)
  BY DEF Onward
<1>8. ASSUME NEW n \in Int, n <= nextSeq, Complete(c, v, n) PROVE Complete(c, v, n)'
  <2> SUFFICES ASSUME NEW s \in durable', c.after < s, s < n, c.first <= s PROVE s \in v.got
    BY DEF Complete
  <2>1. s \in Nat /\ s < nextSeq
    BY <1>1, <1>8 DEF Onward
  <2> QED
    BY <1>7, <1>8, <2>1 DEF Complete
<1>9. ASSUME FillOK(c, v) PROVE FillOK(c, v)'
  <2>1. \A p \in pinned' : c.after < p /\ p < c.before => p \in durable'
    <3> SUFFICES ASSUME NEW p \in pinned', c.after < p, p < c.before PROVE p \in durable'
      OBVIOUS
    <3>1. p \in Nat /\ p < nextSeq
      BY <1>1, <1>2, <1>4 DEF Onward
    <3> QED
      BY <1>3, <1>7, <1>9, <3>1 DEF FillOK
  <2>2. \A s \in durable' : c.after < s /\ s < c.before => s <= written'
    <3> SUFFICES ASSUME NEW s \in durable', c.after < s, s < c.before PROVE s <= written'
      OBVIOUS
    <3>1. s \in Nat /\ s < nextSeq
      BY <1>1, <1>2, <1>4 DEF Onward
    <3>2. s <= written
      BY <1>7, <1>9, <3>1 DEF FillOK
    <3> QED
      BY <1>1, <1>3, <3>1, <3>2
  <2>3. c.trims <= trims' /\ (c.trims = trims' => c.trims = trims /\ trimmed' = trimmed)
    BY <1>1, <1>2, <1>3, <1>9 DEF FillOK
  <2>4. c.trims = trims' => Complete(c, v, v.last + 1)'
    <3>1. v.last + 1 \in Int /\ v.last + 1 <= nextSeq
      BY <1>1, <1>2, <1>4
    <3> QED
      BY <1>8, <1>9, <2>3, <3>1 DEF FillOK
  <2> QED
    BY <1>9, <2>1, <2>2, <2>3, <2>4 DEF FillOK
<1>10. ASSUME FillOK(c, v), RowsOK(c, v) PROVE RowsOK(c, v)'
  <2>1. ASSUME NEW x \in c.rows PROVE Covers(v, c.rows, c.before, x + 1)'
    <3>1. x \in Nat /\ x + 1 <= nextSeq
      BY <1>1, <1>2 DEF ReaderOK, Fits, Seqs
    <3> QED
      BY <1>2, <1>10, <3>1, CoversOnward DEF RowsOK, Contiguous
  <2>2. c.trims = trims' => c.trims = trims
    BY <1>1, <1>2, <1>3, <1>10 DEF FillOK
  <2>3. ASSUME c.trims = trims', NEW x \in c.rows, NEW s \in durable',
               v.last < s, s <= x, c.first <= s
        PROVE  s \in c.rows
    <3>1. s \in Nat /\ s < nextSeq
      BY <1>1, <1>2, <2>3 DEF ReaderOK, Fits, Seqs, Onward
    <3> QED
      BY <1>7, <1>10, <2>2, <2>3, <3>1 DEF RowsOK
  <2> QED
    BY <1>10, <2>1, <2>3 DEF RowsOK, Contiguous
<1>11. ASSUME FillOK(c, v), EndOK(c, v) PROVE EndOK(c, v)'
  <2>1. c.trims = trims' => c.trims = trims
    BY <1>1, <1>2, <1>3, <1>11 DEF FillOK
  <2>2. Covers(v, {}, c.before, c.before)'
    BY <1>2, <1>4, <1>11, CoversOnward DEF EndOK
  <2>3. c.trims = trims' => Complete(c, v, c.before)'
    BY <1>2, <1>4, <1>8, <1>11, <2>1 DEF EndOK
  <2> QED
    BY <2>2, <2>3 DEF EndOK
<1>12. ASSUME LiveOK(c, v) PROVE LiveOK(c, v)'
  <2>1. Covers(v, c.snap, c.before, c.qnext)'
    BY <1>2, <1>4, <1>12, CoversOnward DEF LiveOK
  <2>2. c.resumed => Complete(c, v, c.before)'
    BY <1>2, <1>4, <1>8, <1>12 DEF LiveOK
  <2> QED
    BY <1>12, <2>1, <2>2 DEF LiveOK
<1>13. c.pc \in Connected => c.before <= head'
  BY <1>1, <1>2, <1>3 DEF ReaderOK
<1>14. c.pc = "dial" => c.trims <= trims'
  BY <1>1, <1>2, <1>3 DEF ReaderOK
<1>15. c.pc \in {"rows", "recheck"} => c.pc \in Filling
  BY DEF Filling
<1> QED
  BY <1>5, <1>6, <1>9, <1>10, <1>11, <1>12, <1>13, <1>14, <1>15 DEF ReaderOK

(* One page or its request moves.                                          *)
LEMMA ReaderMoves ==
  ASSUME SInv, [Next]_vars, NEW r \in Readers, NEW c, NEW v, ReaderOK(c, v),
         conn' = [conn EXCEPT ![r] = c], view' = [view EXCEPT ![r] = v]
  PROVE  SInv'
<1>1. IInv' /\ TrimOrigin' /\ Onward
  BY NextIInv, TrimOriginStep, HubOnward DEF SInv
<1>2. conn' = [q \in Readers |-> conn'[q]] /\ view' = [q \in Readers |-> view'[q]]
  BY DEF SInv
<1>3. ASSUME NEW q \in Readers PROVE ReaderOK(conn[q], view[q])'
  <2>1. CASE q = r
    <3>1. conn'[q] = c /\ view'[q] = v
      BY <2>1 DEF SInv
    <3>2. ReaderOK(c, v)'
      BY <1>1, ReaderOnward DEF SInv
    <3> QED
      BY <3>1, <3>2
  <2>2. CASE q # r
    <3>1. PICK cq, vq : cq = conn[q] /\ vq = view[q]
      OBVIOUS
    <3>2. conn'[q] = cq /\ view'[q] = vq
      BY <2>2, <3>1 DEF SInv
    <3>3. ReaderOK(cq, vq)'
      BY <1>1, <3>1, ReaderOnward DEF SInv
    <3> QED
      BY <3>2, <3>3
  <2> QED
    BY <2>1, <2>2
<1> QED
  BY <1>1, <1>2, <1>3 DEF SInv

-----------------------------------------------------------------------------
(* Store.Range: the first rows of the interval, none only if it is empty.  *)
LEMMA RangeFacts ==
  ASSUME IInv, NEW a \in Int, NEW b \in Nat, NEW S, S = StoreRange(a, b, Batch)
  PROVE  /\ S \subseteq RowsBetween(a, b)
         /\ \A s \in RowsBetween(a, b), x \in S : s <= x => s \in S
         /\ S = {} => RowsBetween(a, b) = {}
<1> DEFINE all == RowsBetween(a, b)
           Upto(s) == {t \in all : t <= s}
<1>1. all \subseteq 0..(nextSeq - 1) /\ nextSeq \in Nat /\ all \subseteq Nat
  BY HubTypes DEF RowsBetween, Seqs
<1>2. IsFiniteSet(all)
  <2>1. IsFiniteSet(0..(nextSeq - 1))
    BY <1>1, FS_Interval
  <2> HIDE DEF all
  <2> QED
    BY <1>1, <2>1, FS_Subset
<1>3. S = {s \in all : Cardinality(Upto(s)) <= Batch}
  BY DEF StoreRange
<1>4. \A s \in all : IsFiniteSet(Upto(s)) /\ Cardinality(Upto(s)) \in Nat
  BY <1>2, FS_Subset, FS_CardinalityType
<1>5. ASSUME NEW s \in all, NEW x \in S, s <= x PROVE s \in S
  <2>1. x \in all /\ Cardinality(Upto(x)) <= Batch
    BY <1>3
  <2>2. Upto(s) \subseteq Upto(x)
    BY <1>1, <1>5, <2>1
  <2>3. Cardinality(Upto(s)) <= Cardinality(Upto(x))
    BY <1>4, <2>1, <2>2, FS_Subset
  <2>4. Cardinality(Upto(s)) <= Batch
    BY <1>4, <2>1, <2>3, StreamAssumption
  <2> QED
    BY <1>3, <2>4
<1>6. ASSUME all # {} PROVE S # {}
  <2>1. Min(all) \in all /\ \A t \in all : Min(all) <= t
    BY <1>1, <1>6, MinExists
  <2>2. Upto(Min(all)) = {Min(all)}
    BY <1>1, <2>1
  <2>3. Cardinality({Min(all)}) = 1
    BY FS_Singleton
  <2>4. Cardinality(Upto(Min(all))) <= Batch
    BY <2>2, <2>3, StreamAssumption
  <2> QED
    BY <1>3, <2>1, <2>4
<1> QED
  BY <1>3, <1>5, <1>6

(* applyEvent of several events.                                           *)
LEMMA ShownFacts ==
  ASSUME IInv, NEW v \in Page, NEW S \in SUBSET Seqs, NEW w, w = Shown(v, S)
  PROVE  /\ w \in Page /\ w.omitted = v.omitted /\ v.last <= w.last
         /\ w.got = v.got \cup {s \in S : s > v.last}
         /\ \A s \in S : s <= w.last
         /\ w.last = v.last \/ (w.last \in S /\ v.last < w.last)
<1> DEFINE new == {s \in S : s > v.last}
<1>1. new \in SUBSET (0..(nextSeq - 1)) /\ nextSeq \in Nat /\ new \subseteq Nat /\ v.last \in Int
      /\ S \subseteq Nat
  BY HubTypes DEF Seqs, Page
<1>2. CASE new = {}
  <2>1. w = v
    BY <1>2 DEF Shown
  <2>2. \A s \in S : s <= v.last
    BY <1>1, <1>2
  <2>3. v.got = v.got \cup new
    BY <1>2
  <2> QED
    BY <1>1, <2>1, <2>2, <2>3
<1>3. CASE new # {}
  <2>1. PICK m \in new : m = Max(new) /\ \A t \in new : t <= m
    BY <1>1, <1>3, MaxExists
  <2>2. m \in Nat /\ m > v.last /\ m \in S
    BY <1>1
  <2>3. w = [v EXCEPT !.last = m, !.got = @ \cup new]
    BY <1>3, <2>1 DEF Shown
  <2>4. w.last = m /\ w.got = v.got \cup new /\ w.omitted = v.omitted
    BY <2>3 DEF Page
  <2>5. v.got \cup new \in SUBSET Nat
    BY <1>1 DEF Page
  <2>6. w \in Page
    <3>1. w = [last |-> m, got |-> v.got \cup new, omitted |-> v.omitted] /\ v.omitted \in BOOLEAN
      BY <2>3 DEF Page
    <3> HIDE DEF new
    <3> QED
      BY <2>2, <2>5, <3>1 DEF Page
  <2>7. ASSUME NEW s \in S PROVE s <= m
    <3>1. s \in Nat
      BY <1>1
    <3>2. CASE s > v.last
      BY <2>1, <3>2
    <3>3. CASE ~(s > v.last)
      BY <1>1, <2>2, <3>1, <3>3
    <3> QED
      BY <3>2, <3>3
  <2>8. v.last <= m /\ v.last < m
    BY <1>1, <2>2
  <2> QED
    BY <2>2, <2>4, <2>6, <2>7, <2>8
<1> QED
  BY <1>2, <1>3

(* A page that is sent what it lacks, in order, stays a good page.         *)
LEMMA ShownPage ==
  ASSUME IInv, NEW v \in Page, PageOK(v), NEW S \in SUBSET Seqs, NEW b \in Nat, b <= head,
         Contiguous(v, S, b), NEW w, w = Shown(v, S)
  PROVE  PageOK(w)
<1>1. /\ w \in Page /\ w.omitted = v.omitted /\ v.last <= w.last
      /\ w.got = v.got \cup {s \in S : s > v.last}
      /\ w.last = v.last \/ (w.last \in S /\ v.last < w.last)
      /\ \A s \in S : s <= w.last
  BY ShownFacts
<1>2. head \in Nat /\ v.last \in Int /\ w.last \in Int /\ v.got \subseteq Nat /\ S \subseteq Nat
  BY <1>1, HubTypes DEF Page
<1>3. ASSUME NEW s \in w.got PROVE s <= w.last
  <2>1. CASE s \in S
    BY <1>1, <2>1
  <2>2. CASE s \in v.got
    <3>1. s <= v.last /\ s \in Nat
      BY <1>2, <2>2 DEF PageOK
    <3> QED
      BY <1>1, <1>2, <3>1
  <2> QED
    BY <1>1, <2>1, <2>2
<1>4. ASSUME NEW s \in Nat, s <= w.last
      PROVE  /\ head <= s \/ s \in pinned => s \in w.got
             /\ s \in durable => s \in w.got \/ w.omitted \/ s <= storeTrimmed
  <2>1. CASE s <= v.last
    BY <1>1, <2>1 DEF PageOK
  <2>2. CASE v.last < s
    <3>1. w.last \in S
      BY <1>1, <1>2, <1>4, <2>2
    <3>2. Covers(v, S, b, w.last + 1)
      BY <3>1 DEF Contiguous
    <3>3. s < w.last + 1
      BY <1>2, <1>4
    <3>4. /\ b <= s \/ s \in pinned => s \in S
          /\ s \in durable => s \in S \/ v.omitted \/ s <= storeTrimmed
      BY <2>2, <3>2, <3>3 DEF Covers
    <3>5. head <= s => b <= s
      BY <1>2
    <3>6. s \in S => s \in w.got
      BY <1>1, <2>2
    <3> QED
      BY <1>1, <3>4, <3>5, <3>6
  <2> QED
    BY <1>2, <2>1, <2>2
<1> QED
  BY <1>3, <1>4 DEF PageOK

LEMMA ShownFits ==
  ASSUME IInv, NEW v \in Page, v.last \in -1..(nextSeq - 1), v.got \subseteq Seqs,
         NEW S \in SUBSET Seqs, NEW w, w = Shown(v, S)
  PROVE  w.last \in -1..(nextSeq - 1) /\ w.got \subseteq Seqs
<1>1. /\ w.got = v.got \cup {s \in S : s > v.last}
      /\ w.last = v.last \/ w.last \in S
  BY ShownFacts
<1>2. \A s \in S : s \in -1..(nextSeq - 1)
  BY HubTypes DEF Seqs
<1> QED
  BY <1>1, <1>2

(* A page without a request.                                               *)
LEMMA OffOK ==
  ASSUME IInv, NEW v \in Page, PageOK(v), v.last \in -1..(nextSeq - 1), v.got \subseteq Seqs,
         NEW p \in {"off", "end"}, NEW c, c = [NoConn EXCEPT !.pc = p]
  PROVE  ReaderOK(c, v)
<1>1. c = [pc |-> p, trims |-> 0, resumed |-> FALSE, first |-> 0, after |-> -1, cursor |-> -1,
           before |-> 0, rows |-> {}, snap |-> {}, qnext |-> 0, done |-> "no"]
  BY DEF NoConn
<1>2. nextSeq \in Nat
  BY HubTypes
<1>3. c \in Request
  <2>1. p \in Connected \cup {"off", "dial", "end"} /\ -1 \in Int /\ {} \in SUBSET Nat
    OBVIOUS
  <2>2. [pc |-> p, trims |-> 0, resumed |-> FALSE, first |-> 0, after |-> -1, cursor |-> -1,
         before |-> 0, rows |-> {}, snap |-> {}, qnext |-> 0, done |-> "no"] \in Request
    BY <2>1 DEF Request
  <2> QED
    BY <1>1, <2>2
<1>4. Fits(c, v)
  BY <1>1, <1>2 DEF Fits
<1>5. c.pc \notin Connected /\ c.pc # "dial" /\ c.pc \notin Filling
      /\ c.pc \notin {"snap", "live", "rows", "recheck"}
  BY <1>1 DEF Connected, Filling
<1> QED
  BY <1>3, <1>4, <1>5 DEF ReaderOK

LEMMA NoConnOff == NoConn = [NoConn EXCEPT !.pc = "off"]
  BY DEF NoConn

(* hello.                                                                  *)
LEMMA GreetedFacts ==
  ASSUME IInv, NEW v \in Page, NEW f \in Nat
  PROVE  /\ Greeted(v, f) \in Page /\ Greeted(v, f).last = v.last /\ Greeted(v, f).got = v.got
         /\ (f > v.last + 1 /\ f > 0 => Greeted(v, f).omitted)
         /\ PageOK(v) => PageOK(Greeted(v, f))
<1>1. PICK w : w = Greeted(v, f)
  OBVIOUS
<1>2. w \in Page /\ w.last = v.last /\ w.got = v.got
      /\ w.omitted = (v.omitted \/ (f > v.last + 1 /\ f > 0))
  BY <1>1 DEF Greeted, Page
<1>3. PageOK(v) => PageOK(w)
  BY <1>2 DEF PageOK
<1> QED
  BY <1>1, <1>2, <1>3

(* The full replay begins: what is before the ring and not pinned, the     *)
(* page is told of.                                                        *)
LEMMA FullOK ==
  ASSUME IInv, NEW v \in Page, PageOK(v), v.last \in -1..(nextSeq - 1), v.got \subseteq Seqs,
         NEW c, c = Full, NEW w, w = Greeted(v, c.first)
  PROVE  ReaderOK(c, w)
<1> DEFINE sn == {p \in pinned : p < head} \cup head..(nextSeq - 1)
           dn == IF ended THEN "eof" ELSE "no"
<1>1. nextSeq \in Nat /\ head \in Nat /\ head <= nextSeq /\ pinned \subseteq Seqs
      /\ durable \subseteq Seqs
  BY HubTypes
<1>2. c = [pc |-> "snap", trims |-> 0, resumed |-> FALSE, first |-> head, after |-> -1,
           cursor |-> -1, before |-> head, rows |-> {}, snap |-> sn, qnext |-> nextSeq,
           done |-> dn]
  BY DEF Full, NoConn, LiveFrom
<1>3. sn \subseteq Nat /\ sn \subseteq Seqs /\ \A s \in sn : s < nextSeq
  <2>1. ASSUME NEW s \in sn PROVE s \in Nat /\ s < nextSeq /\ s \in Seqs
    BY <1>1 DEF Seqs
  <2> QED
    BY <2>1
<1>4. /\ w \in Page /\ w.last = v.last /\ w.got = v.got
      /\ (head > v.last + 1 /\ head > 0 => w.omitted) /\ PageOK(w)
  <2>1. w = Greeted(v, head)
    BY <1>2
  <2>2. v \in Page /\ PageOK(v)
    OBVIOUS
  <2> QED
    BY ONLY IInv, <1>1, <2>1, <2>2, GreetedFacts
<1>5. \A s \in Nat : s < nextSeq /\ head <= s => s \in sn
  BY <1>1
<1>6. \A s \in pinned : s \in sn
  BY <1>1 DEF Seqs
<1>7. dn \in {"no", "slow", "eof"}
  OBVIOUS
<1> HIDE DEF sn, dn
<1>8. c \in Request
  <2>1. "snap" \in Connected \cup {"off", "dial", "end"} /\ -1 \in Int /\ {} \in SUBSET Nat
        /\ sn \in SUBSET Nat
    BY <1>3 DEF Connected
  <2>2. [pc |-> "snap", trims |-> 0, resumed |-> FALSE, first |-> head, after |-> -1,
         cursor |-> -1, before |-> head, rows |-> {}, snap |-> sn, qnext |-> nextSeq,
         done |-> dn] \in Request
    BY <1>1, <1>7, <2>1 DEF Request
  <2> QED
    BY <1>2, <2>2
<1>9. Fits(c, w)
  BY <1>1, <1>2, <1>3, <1>4 DEF Fits
<1>10. Covers(w, sn, head, nextSeq)
  <2> SUFFICES ASSUME NEW s \in Nat, v.last < s, s < nextSeq
               PROVE  /\ head <= s \/ s \in pinned => s \in sn
                      /\ s \in durable => s \in sn \/ w.omitted \/ s <= storeTrimmed
    BY <1>4 DEF Covers
  <2>1. head <= s \/ (head > v.last + 1 /\ head > 0)
    BY <1>1
  <2> QED
    BY <1>4, <1>5, <1>6, <2>1
<1>11. \A s \in Nat : head <= s /\ s <= w.last => s \in w.got
  BY <1>4 DEF PageOK
<1>12. LiveOK(c, w)
  BY <1>2, <1>10, <1>11 DEF LiveOK
<1>13. c.pc = "snap" /\ c.pc \notin Filling /\ c.before = head /\ c.qnext = nextSeq /\ c.snap = sn
  BY <1>2 DEF Filling
<1>14. w.last < nextSeq /\ head <= head
  BY <1>1, <1>4
<1> QED
  BY <1>1, <1>3, <1>4, <1>8, <1>9, <1>12, <1>13, <1>14 DEF ReaderOK

(* The resumed one: what left the ring is in the log, but for what is      *)
(* below first_seq.                                                        *)
LEMMA ResumedOK ==
  ASSUME IInv, TrimOrigin, NEW v \in Page, PageOK(v), v.last \in 0..(nextSeq - 1),
         v.got \subseteq Seqs, NEW t \in Nat, t <= trims, t % 2 = 0, degraded = "no",
         ~pinnedOnlyInMemory(v.last), NEW c, c = Resumed(v.last, t),
         NEW w, w = Greeted(v, c.first)
  PROVE  ReaderOK(c, w)
<1> DEFINE sn == {seq \in head..(nextSeq - 1) : seq > v.last}
           dn == IF ended THEN "eof" ELSE "no"
           at == IF v.last + 1 < head THEN "check" ELSE "snap"
           fs == ResumedFirst(t)
<1>1. /\ nextSeq \in Nat /\ head \in Nat /\ head <= nextSeq /\ pinned \subseteq Seqs
      /\ durable \subseteq Seqs /\ trims \in Nat /\ trimmed \in Nat /\ v.last \in Nat
      /\ v.last < nextSeq
  BY HubTypes
<1>2. c = [pc |-> at, trims |-> t, resumed |-> TRUE, first |-> fs, after |-> v.last,
           cursor |-> v.last, before |-> head, rows |-> {}, snap |-> sn, qnext |-> nextSeq,
           done |-> dn]
  BY DEF Resumed, NoConn, LiveFrom
<1>3. sn \subseteq Nat /\ sn \subseteq Seqs /\ \A s \in sn : s < nextSeq
  BY <1>1 DEF Seqs
<1>4. fs \in Nat /\ (t = 0 => fs = 0) /\ (t # 0 => fs = head \/ fs = trimmed)
      /\ (t # 0 => trimmed <= fs \/ head <= fs)
  BY <1>1 DEF ResumedFirst
<1>5. /\ w \in Page /\ w.last = v.last /\ w.got = v.got /\ PageOK(w)
  <2>1. w = Greeted(v, fs)
    BY <1>2
  <2>2. v \in Page /\ PageOK(v)
    OBVIOUS
  <2> QED
    BY ONLY IInv, <1>4, <2>1, <2>2, GreetedFacts
<1>6. \A s \in Nat : s < nextSeq /\ head <= s /\ v.last < s => s \in sn
  BY <1>1
<1>7. dn \in {"no", "slow", "eof"}
  OBVIOUS
<1>8. /\ at \in {"check", "snap"}
      /\ at = "check" => v.last + 1 < head
      /\ at = "snap" => head <= v.last + 1
  BY <1>1
<1> HIDE DEF sn, dn, at, fs
<1>9. c \in Request
  <2>1. at \in Connected \cup {"off", "dial", "end"} /\ {} \in SUBSET Nat /\ sn \in SUBSET Nat
    BY <1>3, <1>8 DEF Connected
  <2>2. [pc |-> at, trims |-> t, resumed |-> TRUE, first |-> fs, after |-> v.last,
         cursor |-> v.last, before |-> head, rows |-> {}, snap |-> sn, qnext |-> nextSeq,
         done |-> dn] \in Request
    BY <1>1, <1>4, <1>7, <2>1 DEF Request
  <2> QED
    BY <1>2, <2>2
<1>10. Fits(c, w)
  BY <1>1, <1>2, <1>3, <1>5 DEF Fits
<1>11. ASSUME at = "check" PROVE FillOK(c, w)
  <2>1. v.last < head
    BY <1>1, <1>8, <1>11
  <2>2. \A s \in Nat : head <= s /\ s < nextSeq => s \in sn
    BY <1>1, <1>6, <2>1
  <2>3. \A p \in pinned : v.last < p /\ p < head => p \in durable
    BY DEF pinnedOnlyInMemory
  <2>4. \A s \in durable : v.last < s /\ s < head => s <= written
    BY DEF IInv, EvictedConfirmed
  <2>5. t = trims => trimmed <= fs \/ head <= fs
    BY <1>1, <1>4 DEF TrimOrigin
  <2>6. Complete(c, w, w.last + 1)
    BY <1>1, <1>2, <1>5 DEF Complete, Seqs
  <2> QED
    BY <1>1, <1>2, <1>5, <2>1, <2>2, <2>3, <2>4, <2>5, <2>6 DEF FillOK
<1>12. ASSUME at = "snap" PROVE LiveOK(c, w)
  <2>1. \A s \in Nat : v.last < s => head <= s
    BY <1>1, <1>8, <1>12
  <2>2. Covers(w, sn, head, nextSeq)
    BY <1>5, <1>6, <2>1 DEF Covers
  <2>3. \A s \in Nat : head <= s /\ s <= w.last => s \in w.got
    BY <1>5 DEF PageOK
  <2>4. Complete(c, w, head)
    <3> SUFFICES ASSUME NEW s \in durable, v.last < s, s < head PROVE FALSE
      BY <1>2 DEF Complete
    <3> QED
      BY <1>1, <2>1 DEF Seqs
  <2> QED
    BY <1>2, <1>12, <2>2, <2>3, <2>4 DEF LiveOK
<1>13. c.pc = at /\ c.before = head /\ c.qnext = nextSeq /\ c.snap = sn
  BY <1>2
<1>14. at \in Filling => at = "check"
  BY <1>8 DEF Filling
<1>15. w.last < nextSeq /\ head <= head
  BY <1>1, <1>5
<1> QED
  BY <1>1, <1>3, <1>5, <1>8, <1>9, <1>10, <1>11, <1>12, <1>13, <1>14, <1>15 DEF ReaderOK

(* SubscribeAfter has read trims.                                          *)
LEMMA DialOK ==
  ASSUME IInv, NEW v \in Page, PageOK(v), v.last \in 0..(nextSeq - 1), v.got \subseteq Seqs,
         NEW c, c = [NoConn EXCEPT !.pc = "dial", !.trims = trims]
  PROVE  ReaderOK(c, v)
<1>1. c = [pc |-> "dial", trims |-> trims, resumed |-> FALSE, first |-> 0, after |-> -1,
           cursor |-> -1, before |-> 0, rows |-> {}, snap |-> {}, qnext |-> 0, done |-> "no"]
  BY DEF NoConn
<1>2. nextSeq \in Nat /\ trims \in Nat
  BY HubTypes
<1>3. c \in Request
  <2>1. "dial" \in Connected \cup {"off", "dial", "end"} /\ -1 \in Int /\ {} \in SUBSET Nat
    OBVIOUS
  <2>2. [pc |-> "dial", trims |-> trims, resumed |-> FALSE, first |-> 0, after |-> -1,
         cursor |-> -1, before |-> 0, rows |-> {}, snap |-> {}, qnext |-> 0, done |-> "no"] \in Request
    BY <1>2, <2>1 DEF Request
  <2> QED
    BY <1>1, <2>2
<1>4. Fits(c, v)
  <2>1. c.before = 0 /\ c.qnext = 0 /\ c.rows = {} /\ c.snap = {} /\ c.cursor = -1
    BY ONLY <1>1
  <2>2. v.last \in -1..(nextSeq - 1) /\ -1 \in -1..(nextSeq - 1)
    BY <1>2
  <2> QED
    BY <1>2, <2>1, <2>2 DEF Fits
<1>5. c.pc = "dial" /\ c.pc \notin Connected /\ c.pc \notin Filling /\ c.trims = trims
  BY <1>1 DEF Connected, Filling
<1>6. trims <= trims /\ 0 <= v.last
  BY <1>2
<1> QED
  BY <1>3, <1>4, <1>5, <1>6 DEF ReaderOK

(* The fields of a request.                                                *)
LEMMA RequestTypes ==
  ASSUME IInv, NEW c, NEW v, ReaderOK(c, v)
  PROVE  /\ c \in Request /\ v \in Page
         /\ c.trims \in Nat /\ c.resumed \in BOOLEAN /\ c.first \in Nat /\ c.after \in Int
         /\ c.cursor \in Int /\ c.before \in Nat /\ c.rows \in SUBSET Nat /\ c.snap \in SUBSET Nat
         /\ c.qnext \in Nat /\ c.rows \in SUBSET Seqs /\ c.snap \in SUBSET Seqs
         /\ v.last \in Int /\ v.last \in -1..(nextSeq - 1) /\ v.got \subseteq Nat
         /\ v.got \subseteq Seqs
  BY DEF ReaderOK, Fits, Request, Page

Moved(c, p, cur, R, S, q, n) ==
  [c EXCEPT !.pc = p, !.cursor = cur, !.rows = R, !.snap = S, !.qnext = q, !.done = n]

LEMMA RequestMoved ==
  ASSUME NEW c \in Request, NEW p \in Connected, NEW cur \in Int, NEW R \in SUBSET Nat,
         NEW S \in SUBSET Nat, NEW q \in Nat, NEW n \in {"no", "slow", "eof"}, NEW d,
         d = Moved(c, p, cur, R, S, q, n)
  PROVE  /\ d \in Request /\ d.pc = p /\ d.cursor = cur /\ d.rows = R /\ d.snap = S
         /\ d.qnext = q /\ d.done = n /\ d.trims = c.trims /\ d.resumed = c.resumed
         /\ d.first = c.first /\ d.after = c.after /\ d.before = c.before
<1>1. d = [pc |-> p, trims |-> c.trims, resumed |-> c.resumed, first |-> c.first,
           after |-> c.after, cursor |-> cur, before |-> c.before, rows |-> R, snap |-> S,
           qnext |-> q, done |-> n]
  BY DEF Request, Moved
<1>2. c.trims \in Nat /\ c.resumed \in BOOLEAN /\ c.first \in Nat /\ c.after \in Int
      /\ c.before \in Nat
  BY DEF Request
<1>3. p \in Connected \cup {"off", "dial", "end"}
  OBVIOUS
<1>4. [pc |-> p, trims |-> c.trims, resumed |-> c.resumed, first |-> c.first,
       after |-> c.after, cursor |-> cur, before |-> c.before, rows |-> R, snap |-> S,
       qnext |-> q, done |-> n] \in Request
  BY <1>2, <1>3 DEF Request
<1> QED
  BY <1>1, <1>4

(* Backfill.Next: no Trim has begun since the subscription did.            *)
LEMMA CheckOK ==
  ASSUME IInv, NEW c, NEW v, ReaderOK(c, v), c.pc = "check",
         NEW d, d = [c EXCEPT !.pc = "range"]
  PROVE  ReaderOK(d, v)
<1>1. /\ c \in Request /\ c.cursor \in Int /\ c.rows \in SUBSET Nat /\ c.snap \in SUBSET Nat
      /\ c.qnext \in Nat /\ c.done \in {"no", "slow", "eof"}
  BY RequestTypes DEF Request
<1>2. d = Moved(c, "range", c.cursor, c.rows, c.snap, c.qnext, c.done)
  BY <1>1 DEF Request, Moved
<1>3. "range" \in Connected
  BY DEF Connected
<1>4. /\ d \in Request /\ d.pc = "range" /\ d.cursor = c.cursor /\ d.rows = c.rows
      /\ d.snap = c.snap /\ d.qnext = c.qnext /\ d.trims = c.trims /\ d.resumed = c.resumed
      /\ d.first = c.first /\ d.after = c.after /\ d.before = c.before
  BY <1>1, <1>2, <1>3, RequestMoved
<1>5. FillOK(c, v) /\ c.pc \in Connected
  BY DEF ReaderOK, Filling, Connected
<1>6. FillOK(d, v)
  BY <1>4, <1>5 DEF FillOK, Complete
<1>7. Fits(d, v)
  BY <1>4 DEF ReaderOK, Fits
<1> QED
  BY <1>4, <1>5, <1>6, <1>7 DEF ReaderOK

(* Backfill.Next: what is behind the ring is in the batch, or beyond it,   *)
(* or was trimmed; of what first_seq promised, nothing was trimmed.        *)
LEMMA RangeOK ==
  ASSUME IInv, NEW c, NEW v, ReaderOK(c, v), c.pc = "range", ~closed,
         NEW R, R = StoreRange(c.cursor, c.before, Batch),
         NEW d, d = [c EXCEPT !.pc = IF R = {} THEN "recheck" ELSE "rows", !.rows = R]
  PROVE  ReaderOK(d, v)
<1> DEFINE all == RowsBetween(v.last, c.before)
           p == IF R = {} THEN "recheck" ELSE "rows"
<1>1. /\ c \in Request /\ c.cursor \in Int /\ c.snap \in SUBSET Nat /\ c.before \in Nat
      /\ c.qnext \in Nat /\ c.done \in {"no", "slow", "eof"} /\ v.last \in Int /\ c.after \in Int
      /\ c.first \in Nat /\ c.trims \in Nat /\ v \in Page
  BY RequestTypes DEF Request
<1>2. /\ written \in Int /\ last \in Int /\ storeTrimmed \in Int /\ trimmed \in Nat
      /\ durable \subseteq Nat /\ pinned \subseteq Nat /\ rows \subseteq Seqs /\ Seqs \subseteq Nat
      /\ trims \in Nat
  BY HubTypes
<1>3. FillOK(c, v) /\ c.pc \in Connected
  BY DEF ReaderOK, Filling, Connected
<1>4. c.cursor = v.last /\ c.after <= v.last /\ v.last < c.before
  BY <1>3 DEF FillOK
<1>5. /\ R \subseteq all
      /\ \A s \in all, x \in R : s <= x => s \in R
      /\ R = {} => all = {}
  BY <1>1, <1>4, RangeFacts
<1>6. \A s : s \in all <=> s \in rows /\ v.last < s /\ s < c.before
  BY DEF RowsBetween
<1>7. R \in SUBSET Nat /\ R \subseteq Seqs /\ \A s \in R : v.last < s /\ s < c.before
  BY <1>2, <1>5, <1>6
<1> HIDE DEF all, p
<1>8. ASSUME NEW s \in durable, v.last < s, s < c.before PROVE s <= last
  <2>1. s \in Nat /\ c.after < s
    BY <1>1, <1>2, <1>4, <1>8
  <2>2. s <= written
    BY <1>3, <1>8, <2>1 DEF FillOK
  <2> QED
    BY <1>2, <2>1, <2>2 DEF IInv, LogEnd
<1>9. ASSUME NEW s \in Nat, v.last < s, s < c.before
      PROVE  /\ s \in pinned => s \in all
             /\ s \in durable => s \in all \/ s <= storeTrimmed
             /\ s \in durable /\ c.trims = trims /\ c.first <= s => s \in all
  <2>1. s \in pinned => s \in durable
    BY <1>1, <1>3, <1>4, <1>9 DEF FillOK
  <2>2. s \in pinned => s \in rows
    BY <1>8, <1>9, <2>1 DEF IInv, PinnedKept
  <2>3. s \in durable => s \in rows \/ s <= storeTrimmed
    BY <1>8, <1>9 DEF IInv, LogRows
  <2>4. ASSUME c.trims = trims, c.first <= s PROVE ~(s <= storeTrimmed)
    <3>1. trims % 2 = 0 /\ (trimmed <= c.first \/ c.before <= c.first)
      BY <1>3, <2>4 DEF FillOK
    <3>2. trims % 2 # 1
      BY <3>1
    <3>3. wpc # "trimmed"
      BY <3>2 DEF IInv, WriterShape
    <3>4. storeTrimmed < trimmed
      BY <3>3 DEF IInv, BelowFirst
    <3> QED
      BY <1>1, <1>2, <1>9, <2>4, <3>1, <3>4
  <2> QED
    BY <1>6, <1>9, <2>2, <2>3, <2>4
<1>10. p \in {"rows", "recheck"} /\ (R = {} <=> p = "recheck") /\ "rows" # "recheck"
       /\ p \in Connected /\ p \in Filling
  BY DEF p, Connected, Filling
<1>11. d = Moved(c, p, c.cursor, R, c.snap, c.qnext, c.done)
  BY <1>1 DEF Request, Moved, p
<1>12. /\ d \in Request /\ d.pc = p /\ d.cursor = c.cursor /\ d.rows = R
       /\ d.snap = c.snap /\ d.qnext = c.qnext /\ d.trims = c.trims /\ d.resumed = c.resumed
       /\ d.first = c.first /\ d.after = c.after /\ d.before = c.before
  BY <1>1, <1>7, <1>10, <1>11, RequestMoved
<1>13. FillOK(d, v)
  BY <1>3, <1>12 DEF FillOK, Complete
<1>14. Fits(d, v)
  BY <1>7, <1>12 DEF ReaderOK, Fits
<1>15. ASSUME p = "rows" PROVE RowsOK(d, v)
  <2>1. Contiguous(v, R, c.before)
    <3> SUFFICES ASSUME NEW x \in R, NEW s \in Nat, v.last < s, s < x + 1
                 PROVE  /\ c.before <= s \/ s \in pinned => s \in R
                        /\ s \in durable => s \in R \/ v.omitted \/ s <= storeTrimmed
      BY DEF Contiguous, Covers
    <3>1. s <= x /\ s < c.before /\ ~(c.before <= s)
      BY <1>1, <1>7
    <3> QED
      BY <1>5, <1>9, <3>1
  <2>2. ASSUME c.trims = trims, NEW x \in R, NEW s \in durable, v.last < s, s <= x, c.first <= s
        PROVE  s \in R
    <3>1. s \in Nat /\ s < c.before
      BY <1>1, <1>2, <1>7, <2>2
    <3> QED
      BY <1>5, <1>9, <2>2, <3>1
  <2> QED
    BY <1>7, <1>10, <1>12, <1>15, <2>1, <2>2 DEF RowsOK
<1>16. ASSUME p = "recheck" PROVE EndOK(d, v)
  <2>1. all = {}
    BY <1>5, <1>10, <1>16
  <2>2. Covers(v, {}, c.before, c.before)
    <3> SUFFICES ASSUME NEW s \in Nat, v.last < s, s < c.before
                 PROVE  /\ c.before <= s \/ s \in pinned => s \in {}
                        /\ s \in durable => s \in {} \/ v.omitted \/ s <= storeTrimmed
      BY DEF Covers
    <3>1. ~(c.before <= s)
      BY <1>1
    <3> QED
      BY <1>9, <2>1, <3>1
  <2>3. ASSUME c.trims = trims, NEW s \in durable, c.after < s, s < c.before, c.first <= s
        PROVE  s \in v.got
    <3>1. s \in Nat
      BY <1>2
    <3>2. ~(v.last < s)
      BY <1>9, <2>1, <2>3, <3>1
    <3>3. s < v.last + 1
      BY <1>1, <3>1, <3>2
    <3> QED
      BY <1>3, <2>3, <3>3 DEF FillOK, Complete
  <2> QED
    BY <1>12, <2>2, <2>3 DEF EndOK, Complete
<1>17. p # "snap" /\ p # "live" /\ p # "dial"
  BY <1>10
<1> QED
  BY <1>3, <1>10, <1>12, <1>13, <1>14, <1>15, <1>16, <1>17 DEF ReaderOK

(* The page receives the batch.                                            *)
LEMMA RowsSentOK ==
  ASSUME IInv, NEW c, NEW v, ReaderOK(c, v), c.pc = "rows",
         NEW d, d = [c EXCEPT !.pc = "check", !.cursor = Max(c.rows), !.rows = {}],
         NEW w, w = Shown(v, c.rows)
  PROVE  ReaderOK(d, w)
<1>1. /\ c \in Request /\ c.rows \in SUBSET Seqs /\ c.snap \in SUBSET Nat /\ c.before \in Nat
      /\ c.qnext \in Nat /\ c.done \in {"no", "slow", "eof"} /\ v.last \in Int /\ c.after \in Int
      /\ c.trims \in Nat /\ v \in Page /\ v.last \in -1..(nextSeq - 1) /\ v.got \subseteq Seqs
      /\ c.rows \subseteq Nat
  BY RequestTypes DEF Request
<1>2. nextSeq \in Nat /\ durable \subseteq Nat /\ Seqs = 0..(nextSeq - 1) /\ head \in Nat
  BY HubTypes DEF Seqs
<1>3. FillOK(c, v) /\ RowsOK(c, v) /\ c.pc \in Connected /\ PageOK(v) /\ Fits(c, v)
      /\ c.before <= head /\ c.before <= c.qnext /\ \A s \in c.snap : s < c.qnext
  BY DEF ReaderOK, Filling, Connected
<1>4. PICK m \in c.rows : m = Max(c.rows) /\ \A t \in c.rows : t <= m
  BY <1>1, <1>2, <1>3, MaxExists DEF RowsOK
<1>5. m \in Nat /\ v.last < m /\ m < c.before /\ m \in Int /\ m \in -1..(nextSeq - 1)
  BY <1>1, <1>2, <1>3 DEF RowsOK
<1>6. /\ w \in Page /\ w.omitted = v.omitted
      /\ w.got = v.got \cup {s \in c.rows : s > v.last}
      /\ \A s \in c.rows : s <= w.last
      /\ w.last = v.last \/ w.last \in c.rows
  BY <1>1, ShownFacts
<1>7. w.last = m
  BY <1>1, <1>4, <1>5, <1>6
<1>8. PageOK(w)
  BY <1>1, <1>3, ShownPage DEF RowsOK
<1>9. w.last \in -1..(nextSeq - 1) /\ w.got \subseteq Seqs
  BY <1>1, ShownFits
<1>10. d = Moved(c, "check", m, {}, c.snap, c.qnext, c.done)
  BY <1>1, <1>4 DEF Request, Moved
<1>11. "check" \in Connected /\ {} \in SUBSET Nat
  BY DEF Connected
<1>12. /\ d \in Request /\ d.pc = "check" /\ d.cursor = m /\ d.rows = {}
       /\ d.snap = c.snap /\ d.qnext = c.qnext /\ d.trims = c.trims /\ d.resumed = c.resumed
       /\ d.first = c.first /\ d.after = c.after /\ d.before = c.before
  BY ONLY <1>1, <1>5, <1>10, <1>11, RequestMoved
<1>13. Fits(d, w)
  BY <1>3, <1>5, <1>9, <1>12 DEF Fits
<1>14. ASSUME c.trims = trims PROVE Complete(c, w, w.last + 1)
  <2> SUFFICES ASSUME NEW s \in durable, c.after < s, s < w.last + 1, c.first <= s
               PROVE  s \in w.got
    BY DEF Complete
  <2>1. s \in Nat /\ s <= m
    BY <1>2, <1>5, <1>7
  <2>2. CASE s <= v.last
    <3>1. s < v.last + 1
      BY <1>1, <2>1, <2>2
    <3>2. s \in v.got
      BY <1>3, <1>14, <3>1 DEF FillOK, Complete
    <3> QED
      BY <1>6, <3>2
  <2>3. CASE v.last < s
    <3>1. s \in c.rows
      BY <1>3, <1>4, <1>14, <2>1, <2>3 DEF RowsOK
    <3> QED
      BY <1>6, <2>3, <3>1
  <2> QED
    BY <1>1, <2>1, <2>2, <2>3
<1>15. FillOK(d, w)
  <2>1. c.after <= w.last /\ w.last < c.before
    <3>1. c.after <= v.last
      BY <1>3 DEF FillOK
    <3> QED
      BY <1>1, <1>5, <1>7, <3>1
  <2>2. Complete(d, w, w.last + 1) <=> Complete(c, w, w.last + 1)
    BY <1>12 DEF Complete
  <2> QED
    BY <1>3, <1>7, <1>12, <1>14, <2>1, <2>2 DEF FillOK
<1>16. w.last < c.qnext
  BY <1>1, <1>3, <1>5, <1>7
<1> QED
  BY <1>3, <1>6, <1>8, <1>11, <1>12, <1>13, <1>15, <1>16 DEF ReaderOK

(* The backfill has ended and no Trim ran: the snapshot has the rest.      *)
LEMMA EndsOK ==
  ASSUME IInv, NEW c, NEW v, ReaderOK(c, v), c.pc = "recheck", c.trims = trims,
         NEW d, d = [c EXCEPT !.pc = "snap"]
  PROVE  ReaderOK(d, v)
<1>1. /\ c \in Request /\ c.cursor \in Int /\ c.rows \in SUBSET Nat /\ c.snap \in SUBSET Nat
      /\ c.qnext \in Nat /\ c.done \in {"no", "slow", "eof"} /\ c.before \in Nat
      /\ v.last \in Int
  BY RequestTypes DEF Request
<1>2. d = Moved(c, "snap", c.cursor, c.rows, c.snap, c.qnext, c.done)
  BY <1>1 DEF Request, Moved
<1>3. "snap" \in Connected
  BY DEF Connected
<1>4. /\ d \in Request /\ d.pc = "snap" /\ d.cursor = c.cursor /\ d.rows = c.rows
      /\ d.snap = c.snap /\ d.qnext = c.qnext /\ d.trims = c.trims /\ d.resumed = c.resumed
      /\ d.first = c.first /\ d.after = c.after /\ d.before = c.before
  BY <1>1, <1>2, <1>3, RequestMoved
<1>5. FillOK(c, v) /\ EndOK(c, v) /\ c.pc \in Connected
  BY DEF ReaderOK, Filling, Connected
<1>6. Fits(d, v)
  BY <1>4 DEF ReaderOK, Fits
<1>7. Covers(v, c.snap, c.before, c.qnext)
  <2> SUFFICES ASSUME NEW s \in Nat, v.last < s, s < c.qnext
               PROVE  /\ c.before <= s \/ s \in pinned => s \in c.snap
                      /\ s \in durable => s \in c.snap \/ v.omitted \/ s <= storeTrimmed
    BY DEF Covers
  <2>1. CASE c.before <= s
    BY <1>5, <2>1 DEF FillOK
  <2>2. CASE s < c.before
    <3>1. ~(c.before <= s)
      BY <1>1, <2>2
    <3> QED
      BY <1>5, <2>2, <3>1 DEF EndOK, Covers
  <2> QED
    BY <1>1, <2>1, <2>2
<1>8. \A s \in Nat : c.before <= s /\ s <= v.last => s \in v.got
  BY <1>1, <1>5 DEF FillOK
<1>9. Complete(d, v, c.before)
  BY <1>4, <1>5 DEF EndOK, Complete
<1>10. LiveOK(d, v)
  BY <1>4, <1>7, <1>8, <1>9 DEF LiveOK
<1>11. d.pc \notin Filling
  BY <1>4 DEF Filling
<1> QED
  BY <1>4, <1>5, <1>6, <1>10, <1>11 DEF ReaderOK

(* The page receives the snapshot.                                         *)
LEMMA SnapshotSentOK ==
  ASSUME IInv, NEW c, NEW v, ReaderOK(c, v), c.pc = "snap",
         NEW d, d = [c EXCEPT !.pc = "live", !.snap = {}],
         NEW w, w = Shown(v, c.snap)
  PROVE  ReaderOK(d, w)
<1>1. /\ c \in Request /\ c.rows \in SUBSET Nat /\ c.snap \in SUBSET Seqs /\ c.before \in Nat
      /\ c.qnext \in Nat /\ c.done \in {"no", "slow", "eof"} /\ v.last \in Int
      /\ v \in Page /\ v.last \in -1..(nextSeq - 1) /\ v.got \subseteq Seqs
      /\ c.snap \subseteq Nat /\ c.cursor \in Int
  BY RequestTypes DEF Request
<1>2. nextSeq \in Nat /\ durable \subseteq Nat /\ Seqs = 0..(nextSeq - 1) /\ head \in Nat
  BY HubTypes DEF Seqs
<1>3. LiveOK(c, v) /\ c.pc \in Connected /\ PageOK(v) /\ Fits(c, v) /\ v.last < c.qnext
      /\ c.before <= head /\ c.before <= c.qnext /\ \A s \in c.snap : s < c.qnext
  BY DEF ReaderOK, Connected
<1>4. /\ w \in Page /\ w.omitted = v.omitted /\ v.last <= w.last /\ w.last \in Int
      /\ w.got = v.got \cup {s \in c.snap : s > v.last}
      /\ \A s \in c.snap : s <= w.last
      /\ w.last = v.last \/ w.last \in c.snap
  BY <1>1, ShownFacts DEF Page
<1>5. ASSUME NEW s \in Nat, v.last < s, s < c.qnext
      PROVE  /\ c.before <= s \/ s \in pinned => s \in c.snap
             /\ s \in durable => s \in c.snap \/ v.omitted \/ s <= storeTrimmed
  BY <1>3, <1>5 DEF LiveOK, Covers
<1>6. Contiguous(v, c.snap, c.before)
  <2> SUFFICES ASSUME NEW x \in c.snap, NEW s \in Nat, v.last < s, s < x + 1
               PROVE  /\ c.before <= s \/ s \in pinned => s \in c.snap
                      /\ s \in durable => s \in c.snap \/ v.omitted \/ s <= storeTrimmed
    BY DEF Contiguous, Covers
  <2>1. s < c.qnext
    BY <1>1, <1>3
  <2> QED
    BY <1>5, <2>1
<1>7. PageOK(w)
  BY <1>1, <1>3, <1>6, ShownPage
<1>8. w.last \in -1..(nextSeq - 1) /\ w.got \subseteq Seqs
  BY <1>1, ShownFits
<1>9. w.last < c.qnext
  BY <1>3, <1>4
<1>10. d = Moved(c, "live", c.cursor, c.rows, {}, c.qnext, c.done)
  BY <1>1 DEF Request, Moved
<1>11. "live" \in Connected /\ {} \in SUBSET Nat /\ "live" \notin Filling
  BY DEF Connected, Filling
<1>12. /\ d \in Request /\ d.pc = "live" /\ d.cursor = c.cursor /\ d.rows = c.rows
       /\ d.snap = {} /\ d.qnext = c.qnext /\ d.resumed = c.resumed
       /\ d.first = c.first /\ d.after = c.after /\ d.before = c.before
  BY <1>1, <1>10, <1>11, RequestMoved
<1>13. Fits(d, w)
  BY <1>3, <1>8, <1>12 DEF Fits
<1>14. Covers(w, {}, c.before, c.qnext)
  <2> SUFFICES ASSUME NEW s \in Nat, w.last < s, s < c.qnext
               PROVE  /\ c.before <= s \/ s \in pinned => s \in {}
                      /\ s \in durable => s \in {} \/ w.omitted \/ s <= storeTrimmed
    BY DEF Covers
  <2>1. v.last < s /\ s \notin c.snap
    BY <1>1, <1>4
  <2> QED
    BY <1>4, <1>5, <2>1
<1>15. ASSUME NEW s \in Nat, c.before <= s, s <= w.last PROVE s \in w.got
  <2>1. CASE s <= v.last
    BY <1>3, <1>4, <1>15, <2>1 DEF LiveOK
  <2>2. CASE v.last < s
    <3>1. s < c.qnext
      BY <1>1, <1>4, <1>9, <1>15
    <3>2. s \in c.snap
      BY <1>5, <1>15, <2>2, <3>1
    <3> QED
      BY <1>4, <2>2, <3>2
  <2> QED
    BY <1>1, <2>1, <2>2
<1>16. c.resumed => Complete(d, w, c.before)
  BY <1>3, <1>4, <1>12 DEF LiveOK, Complete
<1>17. LiveOK(d, w)
  BY <1>12, <1>14, <1>15, <1>16 DEF LiveOK
<1> QED
  BY <1>3, <1>4, <1>7, <1>9, <1>11, <1>12, <1>13, <1>17 DEF ReaderOK

(* The page receives the next live event.                                  *)
LEMMA LiveSentOK ==
  ASSUME IInv, NEW c, NEW v, ReaderOK(c, v), c.pc = "live", c.qnext < nextSeq,
         NEW d, d = [c EXCEPT !.qnext = @ + 1],
         NEW w, w = Shown(v, {c.qnext})
  PROVE  ReaderOK(d, w)
<1> DEFINE q == c.qnext
<1>1. /\ c \in Request /\ c.rows \in SUBSET Nat /\ c.snap \in SUBSET Nat /\ c.before \in Nat
      /\ q \in Nat /\ c.done \in {"no", "slow", "eof"} /\ v.last \in Int
      /\ v \in Page /\ v.last \in -1..(nextSeq - 1) /\ v.got \subseteq Seqs
      /\ c.cursor \in Int
  BY RequestTypes DEF Request
<1>2. nextSeq \in Nat /\ durable \subseteq Nat /\ Seqs = 0..(nextSeq - 1) /\ head \in Nat
  BY HubTypes DEF Seqs
<1>3. LiveOK(c, v) /\ c.pc \in Connected /\ PageOK(v) /\ Fits(c, v) /\ v.last < q
      /\ c.before <= head /\ c.before <= q /\ c.snap = {}
  BY DEF ReaderOK, Connected, LiveOK
<1>4. {q} \in SUBSET Seqs /\ q + 1 \in Nat /\ q + 1 <= nextSeq
  BY <1>1, <1>2
<1>5. d = Moved(c, c.pc, c.cursor, c.rows, c.snap, q + 1, c.done)
  BY <1>1 DEF Request, Moved
<1>6. /\ d \in Request /\ d.pc = c.pc /\ d.cursor = c.cursor /\ d.rows = c.rows
      /\ d.snap = c.snap /\ d.qnext = q + 1 /\ d.resumed = c.resumed
      /\ d.first = c.first /\ d.after = c.after /\ d.before = c.before
  BY <1>1, <1>3, <1>4, <1>5, RequestMoved
<1>7. PICK Q \in SUBSET Seqs : Q = {q} /\ w = Shown(v, Q)
  BY <1>4
<1>8. ASSUME NEW s \in Nat, v.last < s, s < q
      PROVE  /\ ~(c.before <= s \/ s \in pinned)
             /\ s \in durable => v.omitted \/ s <= storeTrimmed
  BY <1>3, <1>8 DEF LiveOK, Covers
<1> HIDE DEF q
<1>9. /\ w \in Page /\ w.omitted = v.omitted /\ v.last <= w.last
      /\ w.got = v.got \cup {s \in Q : s > v.last}
      /\ \A s \in Q : s <= w.last
      /\ w.last = v.last \/ (w.last \in Q /\ v.last < w.last)
  BY ONLY IInv, <1>1, <1>7, ShownFacts
<1>10. w.last = q /\ q \in w.got /\ \A s \in v.got : s \in w.got
  <2>1. q \in Q /\ \A s \in Q : s = q
    BY ONLY <1>7
  <2>2. w.last \in Int
    BY <1>9 DEF Page
  <2>3. w.last = q
    BY ONLY <1>1, <1>3, <1>9, <2>1, <2>2
  <2>4. q > v.last
    BY ONLY <1>1, <1>3
  <2> QED
    BY ONLY <1>9, <2>1, <2>3, <2>4
<1>11. Contiguous(v, Q, c.before)
  <2> SUFFICES ASSUME NEW s \in Nat, v.last < s, s < q + 1
               PROVE  /\ c.before <= s \/ s \in pinned => s \in {q}
                      /\ s \in durable => s \in {q} \/ v.omitted \/ s <= storeTrimmed
    BY <1>7 DEF Contiguous, Covers
  <2>1. s = q \/ s < q
    BY <1>1
  <2> QED
    BY <1>8, <2>1
<1>12. PageOK(w)
  BY <1>1, <1>3, <1>7, <1>11, ShownPage
<1>13. w.last \in -1..(nextSeq - 1) /\ w.got \subseteq Seqs
  BY <1>1, <1>7, ShownFits
<1>14. Fits(d, w)
  BY <1>3, <1>4, <1>6, <1>13 DEF Fits
<1>15. Covers(w, {}, c.before, q + 1)
  <2> SUFFICES ASSUME NEW s \in Nat, q < s, s < q + 1 PROVE FALSE
    BY <1>10 DEF Covers
  <2> QED
    BY <1>1
<1>16. ASSUME NEW s \in Nat, c.before <= s, s <= w.last PROVE s \in w.got
  <2>1. CASE s <= v.last
    BY <1>3, <1>10, <1>16, <2>1 DEF LiveOK
  <2>2. CASE v.last < s
    <3>1. s = q
      BY <1>1, <1>8, <1>10, <1>16, <2>2
    <3> QED
      BY <1>10, <3>1
  <2> QED
    BY <1>1, <2>1, <2>2
<1>17. c.resumed => Complete(d, w, c.before)
  BY <1>3, <1>6, <1>10 DEF LiveOK, Complete
<1>18. LiveOK(d, w)
  BY <1>3, <1>6, <1>15, <1>16, <1>17 DEF LiveOK
<1>19. c.before <= q + 1 /\ w.last < q + 1 /\ d.pc = "live" /\ d.pc \notin Filling
  BY <1>1, <1>3, <1>6, <1>10 DEF Filling
<1> QED
  BY <1>3, <1>6, <1>9, <1>12, <1>14, <1>18, <1>19 DEF ReaderOK

(* The connection breaks after some of what was being sent.                *)
LEMMA CutOK ==
  ASSUME IInv, NEW c, NEW v, ReaderOK(c, v), c.pc \in Connected,
         NEW S, S = (IF c.pc = "rows" THEN c.rows ELSE IF c.pc = "snap" THEN c.snap ELSE {}),
         NEW k \in {-1} \cup S, NEW w, w = Shown(v, {s \in S : s <= k})
  PROVE  ReaderOK(NoConn, w)
<1> DEFINE T == {s \in S : s <= k}
<1>1. /\ c.rows \in SUBSET Seqs /\ c.snap \in SUBSET Seqs /\ c.before \in Nat
      /\ c.qnext \in Nat /\ v.last \in Int /\ c.rows \in SUBSET Nat /\ c.snap \in SUBSET Nat
      /\ v \in Page /\ v.last \in -1..(nextSeq - 1) /\ v.got \subseteq Seqs
  BY RequestTypes
<1>2. PageOK(v) /\ c.before <= head
  BY DEF ReaderOK
<1>3. S \in SUBSET Seqs /\ S \subseteq Nat
  BY <1>1
<1>4. Contiguous(v, S, c.before)
  <2>1. CASE c.pc = "rows"
    BY <2>1 DEF ReaderOK, RowsOK
  <2>2. CASE c.pc = "snap"
    <3> SUFFICES ASSUME NEW x \in c.snap, NEW s \in Nat, v.last < s, s < x + 1
                 PROVE  /\ c.before <= s \/ s \in pinned => s \in c.snap
                        /\ s \in durable => s \in c.snap \/ v.omitted \/ s <= storeTrimmed
      BY <2>2 DEF Contiguous, Covers
    <3>1. x < c.qnext /\ x \in Nat
      BY <1>1 DEF ReaderOK
    <3>2. s < c.qnext
      BY <1>1, <3>1
    <3>3. Covers(v, c.snap, c.before, c.qnext)
      BY <2>2 DEF ReaderOK, LiveOK
    <3> QED
      BY <3>2, <3>3 DEF Covers
  <2>3. CASE c.pc \notin {"rows", "snap"}
    BY <2>3 DEF Contiguous
  <2> QED
    BY <2>1, <2>2, <2>3
<1>5. Contiguous(v, T, c.before)
  <2> SUFFICES ASSUME NEW x \in T, NEW s \in Nat, v.last < s, s < x + 1
               PROVE  /\ c.before <= s \/ s \in pinned => s \in T
                      /\ s \in durable => s \in T \/ v.omitted \/ s <= storeTrimmed
    BY DEF Contiguous, Covers
  <2>1. /\ c.before <= s \/ s \in pinned => s \in S
        /\ s \in durable => s \in S \/ v.omitted \/ s <= storeTrimmed
    BY <1>4 DEF Contiguous, Covers
  <2>2. k \in Int /\ x \in Nat /\ x <= k
    BY <1>3
  <2>3. s <= k
    BY <2>2
  <2> QED
    BY <2>1, <2>3
<1>6. T \in SUBSET Seqs /\ w = Shown(v, T)
  BY <1>3
<1> HIDE DEF T
<1>7. w \in Page
  BY <1>1, <1>6, ShownFacts
<1>8. PageOK(w)
  BY <1>1, <1>2, <1>5, <1>6, ShownPage
<1>9. w.last \in -1..(nextSeq - 1) /\ w.got \subseteq Seqs
  BY <1>1, <1>6, ShownFits
<1> QED
  BY <1>7, <1>8, <1>9, NoConnOff, OffOK

(* The page is disconnected, or at the end of its stream.                  *)
LEMMA HungUpOK ==
  ASSUME IInv, NEW c, NEW v, ReaderOK(c, v)
  PROVE  /\ ReaderOK(NoConn, v)
         /\ ReaderOK([NoConn EXCEPT !.pc = "end"], v)
<1>1. v \in Page /\ PageOK(v) /\ v.last \in -1..(nextSeq - 1) /\ v.got \subseteq Seqs
  BY DEF ReaderOK, Fits
<1> QED
  BY <1>1, NoConnOff, OffOK

(* Why the live queue ended does not matter to what was sent.              *)
LEMMA DoneOK ==
  ASSUME IInv, NEW c, NEW v, ReaderOK(c, v), c.pc \in Connected, NEW n \in {"no", "slow", "eof"},
         NEW d, d = [c EXCEPT !.done = n]
  PROVE  ReaderOK(d, v)
<1>1. /\ c \in Request /\ c.cursor \in Int /\ c.rows \in SUBSET Nat /\ c.snap \in SUBSET Nat
      /\ c.qnext \in Nat
  BY RequestTypes
<1>2. d = Moved(c, c.pc, c.cursor, c.rows, c.snap, c.qnext, n)
  BY <1>1 DEF Request, Moved
<1>3. /\ d \in Request /\ d.pc = c.pc /\ d.cursor = c.cursor /\ d.rows = c.rows
      /\ d.snap = c.snap /\ d.qnext = c.qnext /\ d.trims = c.trims /\ d.resumed = c.resumed
      /\ d.first = c.first /\ d.after = c.after /\ d.before = c.before
  BY <1>1, <1>2, RequestMoved
<1>4. Fits(d, v)
  BY <1>3 DEF ReaderOK, Fits
<1>5. FillOK(c, v) => FillOK(d, v)
  BY <1>3 DEF FillOK, Complete
<1>6. RowsOK(c, v) => RowsOK(d, v)
  BY <1>3 DEF RowsOK
<1>7. EndOK(c, v) => EndOK(d, v)
  BY <1>3 DEF EndOK, Complete
<1>8. LiveOK(c, v) => LiveOK(d, v)
  BY <1>3 DEF LiveOK, Complete
<1> QED
  BY <1>3, <1>4, <1>5, <1>6, <1>7, <1>8 DEF ReaderOK

-----------------------------------------------------------------------------
(* SInv is inductive: the initial states, the Hub's side, then one step    *)
(* per action of a page.                                                   *)
LEMMA InitSInv == StreamInit => SInv
<1> SUFFICES ASSUME StreamInit PROVE SInv
  OBVIOUS
<1>1. IInv
  BY InitIInv DEF StreamInit
<1>2. TrimOrigin
  BY DEF StreamInit, Init, TrimOrigin
<1>3. conn = [r \in Readers |-> conn[r]] /\ view = [r \in Readers |-> view[r]]
  BY DEF StreamInit
<1>4. ASSUME NEW r \in Readers PROVE ReaderOK(conn[r], view[r])
  <2>1. PICK v : v = [last |-> -1, got |-> {}, omitted |-> FALSE]
    OBVIOUS
  <2>2. conn[r] = NoConn /\ view[r] = v
    BY <2>1 DEF StreamInit
  <2>3. v.last = -1 /\ v.got = {}
    BY <2>1
  <2>4. v \in Page
    BY <2>1 DEF Page
  <2>5. nextSeq \in Nat
    BY <1>1, HubTypes
  <2>6. PageOK(v)
    BY <2>3 DEF PageOK
  <2>7. v.last \in -1..(nextSeq - 1) /\ v.got \subseteq Seqs
    BY <2>3, <2>5
  <2>8. ReaderOK(NoConn, v)
    BY <1>1, <2>4, <2>6, <2>7, NoConnOff, OffOK
  <2> QED
    BY <2>2, <2>8
<1> QED
  BY <1>1, <1>2, <1>3, <1>4 DEF SInv

(* The Hub moves; of the requests at most the end of their queues changes. *)
LEMMA HubMoves ==
  ASSUME SInv, [Next]_vars, view' = view, NEW f,
         \A r \in Readers : f[r] = conn[r] \/ (/\ conn[r].pc \in Connected
                                               /\ \E n \in {"no", "slow", "eof"} :
                                                    f[r] = [conn[r] EXCEPT !.done = n]),
         conn' = [r \in Readers |-> f[r]]
  PROVE  SInv'
<1>1. IInv' /\ TrimOrigin' /\ Onward /\ IInv
  BY NextIInv, TrimOriginStep, HubOnward DEF SInv
<1>2. conn' = [q \in Readers |-> conn'[q]] /\ view' = [q \in Readers |-> view'[q]]
  BY DEF SInv
<1>3. ASSUME NEW q \in Readers PROVE ReaderOK(conn[q], view[q])'
  <2>1. PICK c, v, d : c = conn[q] /\ v = view[q] /\ d = f[q]
    OBVIOUS
  <2>2. ReaderOK(c, v)
    BY <2>1 DEF SInv
  <2>3. ReaderOK(d, v)
    <3>1. CASE d = c
      BY <2>2, <3>1
    <3>2. CASE c.pc \in Connected /\ \E n \in {"no", "slow", "eof"} : d = [c EXCEPT !.done = n]
      <4>1. PICK n \in {"no", "slow", "eof"} : d = [c EXCEPT !.done = n]
        BY <3>2
      <4> QED
        BY <1>1, <2>2, <3>2, <4>1, DoneOK
    <3> QED
      BY <2>1, <3>1, <3>2
  <2>4. conn'[q] = d /\ view'[q] = v
    BY <2>1
  <2>5. ReaderOK(d, v)'
    BY <1>1, <2>3, ReaderOnward
  <2> QED
    BY <2>4, <2>5
<1> QED
  BY <1>1, <1>2, <1>3 DEF SInv

LEMMA HubSideSInv ==
  ASSUME SInv, [Next]_vars,
         \/ \E n, D, P, U : Publish(n, D, P, U)
         \/ StreamClose
         \/ UNCHANGED <<conn, view>>
  PROVE  SInv'
<1>1. CASE UNCHANGED <<conn, view>>
  <2>1. conn' = [r \in Readers |-> conn[r]] /\ view' = view
    BY <1>1 DEF SInv
  <2> QED
    BY <2>1, HubMoves
<1>2. ASSUME NEW n, NEW D, NEW P, NEW U, Publish(n, D, P, U) PROVE SInv'
  <2>1. PICK f : f = [r \in Readers |-> IF Registered(r) /\ Overflows(r, nextSeq')
                                        THEN [conn[r] EXCEPT !.done = "slow"] ELSE conn[r]]
    OBVIOUS
  <2>2. conn' = f /\ view' = view
    BY <1>2, <2>1 DEF Publish
  <2>3. \A r \in Readers : f[r] = conn[r] \/ (conn[r].pc \in Connected
                                              /\ f[r] = [conn[r] EXCEPT !.done = "slow"])
    BY <2>1 DEF Registered
  <2>4. conn' = [r \in Readers |-> f[r]]
    BY <2>1, <2>2
  <2> QED
    BY <2>2, <2>3, <2>4, HubMoves
<1>3. CASE StreamClose
  <2>1. PICK f : f = [r \in Readers |-> IF Registered(r)
                                        THEN [conn[r] EXCEPT !.done = "eof"] ELSE conn[r]]
    OBVIOUS
  <2>2. conn' = f /\ view' = view
    BY <1>3, <2>1 DEF StreamClose
  <2>3. \A r \in Readers : f[r] = conn[r] \/ (conn[r].pc \in Connected
                                              /\ f[r] = [conn[r] EXCEPT !.done = "eof"])
    BY <2>1 DEF Registered
  <2>4. conn' = [r \in Readers |-> f[r]]
    BY <2>1, <2>2
  <2> QED
    BY <2>2, <2>3, <2>4, HubMoves
<1> QED
  BY <1>1, <1>2, <1>3

LEMMA ReaderSInv ==
  ASSUME SInv, NEW r \in Readers, Subscribe(r) \/ Dial(r) \/ Send(r) \/ Disconnect(r)
  PROVE  SInv'
<1>1. [Next]_vars
  BY ReaderStep DEF Next
<1>2. PICK c, v : c = conn[r] /\ v = view[r]
  OBVIOUS
<1>3. IInv /\ TrimOrigin /\ ReaderOK(c, v)
  BY <1>2 DEF SInv
<1>4. v \in Page /\ PageOK(v) /\ v.last \in -1..(nextSeq - 1) /\ v.got \subseteq Seqs
      /\ nextSeq \in Nat /\ c \in Request
  BY <1>3, HubTypes DEF ReaderOK, Fits
<1>5. ASSUME NEW d, NEW w, ReaderOK(d, w), conn' = [conn EXCEPT ![r] = d],
             view' = [view EXCEPT ![r] = w]
      PROVE  SInv'
  BY <1>1, <1>5, ReaderMoves
<1>6. view = [view EXCEPT ![r] = v]
  BY <1>2 DEF SInv
<1>7. ASSUME NEW d, ReaderOK(d, v), conn' = [conn EXCEPT ![r] = d], view' = view
      PROVE  SInv'
  BY <1>5, <1>6, <1>7
<1>8. ASSUME Hangs(r), view' = view PROVE SInv'
  BY <1>3, <1>7, <1>8, HungUpOK DEF Hangs
<1>9. CASE Subscribe(r)
  <2>1. PICK d : d = Full
    OBVIOUS
  <2>2. conn' = [conn EXCEPT ![r] = d] /\ view' = [view EXCEPT ![r] = Greeted(v, d.first)]
    BY <1>2, <1>9, <2>1 DEF Subscribe, Begin
  <2>3. ReaderOK(d, Greeted(v, d.first))
    BY <1>3, <1>4, <2>1, FullOK
  <2> QED
    BY <1>5, <2>2, <2>3
<1>10. CASE Dial(r)
  <2>1. PICK d : d = [NoConn EXCEPT !.pc = "dial", !.trims = trims]
    OBVIOUS
  <2>2. conn' = [conn EXCEPT ![r] = d] /\ view' = view /\ v.last >= 0
    BY <1>2, <1>10, <2>1 DEF Dial
  <2>3. v.last \in 0..(nextSeq - 1)
    BY <1>4, <2>2
  <2>4. ReaderOK(d, v)
    BY <1>3, <1>4, <2>1, <2>3, DialOK
  <2> QED
    BY <1>7, <2>2, <2>4
<1>11. CASE SubscribeAfter(r)
  <2>1. PICK full \in BOOLEAN :
          /\ full <=> (\/ v.last >= nextSeq \/ degraded # "no" \/ c.trims % 2 = 1
                       \/ pinnedOnlyInMemory(v.last))
          /\ c.pc = "dial" /\ Begin(r, IF full THEN Full ELSE Resumed(v.last, c.trims))
    BY <1>2, <1>11 DEF SubscribeAfter
  <2>2. PICK d : d = IF full THEN Full ELSE Resumed(v.last, c.trims)
    OBVIOUS
  <2>3. conn' = [conn EXCEPT ![r] = d] /\ view' = [view EXCEPT ![r] = Greeted(v, d.first)]
    BY <1>2, <2>1, <2>2 DEF Begin
  <2>4. CASE full
    <3>1. ReaderOK(d, Greeted(v, d.first))
      BY <1>3, <1>4, <2>2, <2>4, FullOK
    <3> QED
      BY <1>5, <2>3, <3>1
  <2>5. CASE ~full
    <3>1. c.trims \in Nat /\ c.trims <= trims /\ 0 <= v.last
      BY <1>3, <1>4, <2>1 DEF ReaderOK, Request
    <3>2. degraded = "no" /\ c.trims % 2 = 0 /\ ~pinnedOnlyInMemory(v.last)
      BY <2>1, <2>5, <3>1
    <3>3. v.last \in 0..(nextSeq - 1)
      BY <1>4, <3>1
    <3>4. d = Resumed(v.last, c.trims)
      BY <2>2, <2>5
    <3>5. ReaderOK(d, Greeted(v, d.first))
      BY <1>3, <1>4, <3>1, <3>2, <3>3, <3>4, ResumedOK
    <3> QED
      BY <1>5, <2>3, <3>5
  <2> QED
    BY <2>4, <2>5
<1>12. CASE BackfillCheck(r)
  <2>1. PICK d : d = [c EXCEPT !.pc = "range"]
    OBVIOUS
  <2>2. c.pc = "check" /\ view' = view /\ (Hangs(r) \/ conn' = [conn EXCEPT ![r] = d])
    BY <1>2, <1>12, <2>1 DEF BackfillCheck
  <2>3. ReaderOK(d, v)
    BY <1>3, <2>1, <2>2, CheckOK
  <2> QED
    BY <1>7, <1>8, <2>2, <2>3
<1>13. CASE BackfillRange(r)
  <2>1. PICK R : R = StoreRange(c.cursor, c.before, Batch)
    OBVIOUS
  <2>2. PICK d : d = [c EXCEPT !.pc = IF R = {} THEN "recheck" ELSE "rows", !.rows = R]
    OBVIOUS
  <2>3. c.pc = "range" /\ ~closed /\ view' = view
    BY <1>2, <1>13 DEF BackfillRange
  <2>4. conn' = [conn EXCEPT ![r].pc = IF R = {} THEN "recheck" ELSE "rows", ![r].rows = R]
    BY <1>2, <1>13, <2>1 DEF BackfillRange
  <2>5. conn' = [conn EXCEPT ![r] = d]
    BY <1>2, <2>2, <2>4 DEF SInv
  <2>6. ReaderOK(d, v)
    BY <1>3, <2>1, <2>2, <2>3, RangeOK
  <2> QED
    BY <1>7, <2>3, <2>5, <2>6
<1>14. CASE BackfillRefused(r) \/ BackfillFails(r)
  BY <1>8, <1>14 DEF BackfillRefused, BackfillFails
<1>15. CASE SendRows(r)
  <2>1. PICK d : d = [c EXCEPT !.pc = "check", !.cursor = Max(c.rows), !.rows = {}]
    OBVIOUS
  <2>2. c.pc = "rows" /\ view' = [view EXCEPT ![r] = Shown(v, c.rows)]
    BY <1>2, <1>15 DEF SendRows
  <2>3. conn' = [conn EXCEPT ![r] = d]
    BY <1>2, <1>15, <2>1 DEF SInv, SendRows
  <2>4. ReaderOK(d, Shown(v, c.rows))
    BY <1>3, <2>1, <2>2, RowsSentOK
  <2> QED
    BY <1>5, <2>2, <2>3, <2>4
<1>16. CASE BackfillEnds(r)
  <2>1. PICK d : d = [c EXCEPT !.pc = "snap"]
    OBVIOUS
  <2>2. c.pc = "recheck" /\ view' = view
        /\ (Hangs(r) \/ (c.trims = trims /\ conn' = [conn EXCEPT ![r] = d]))
    BY <1>2, <1>16, <2>1 DEF BackfillEnds, Overtaken
  <2>3. CASE Hangs(r)
    BY <1>8, <2>2, <2>3
  <2>4. CASE c.trims = trims /\ conn' = [conn EXCEPT ![r] = d]
    <3>1. ReaderOK(d, v)
      BY <1>3, <2>1, <2>2, <2>4, EndsOK
    <3> QED
      BY <1>7, <2>2, <2>4, <3>1
  <2> QED
    BY <2>2, <2>3, <2>4
<1>17. CASE SendSnapshot(r)
  <2>1. PICK d : d = [c EXCEPT !.pc = "live", !.snap = {}]
    OBVIOUS
  <2>2. c.pc = "snap" /\ view' = [view EXCEPT ![r] = Shown(v, c.snap)]
    BY <1>2, <1>17 DEF SendSnapshot
  <2>3. conn' = [conn EXCEPT ![r] = d]
    BY <1>2, <1>17, <2>1 DEF SInv, SendSnapshot
  <2>4. ReaderOK(d, Shown(v, c.snap))
    BY <1>3, <2>1, <2>2, SnapshotSentOK
  <2> QED
    BY <1>5, <2>2, <2>3, <2>4
<1>18. CASE SendLive(r)
  <2>1. PICK d : d = [c EXCEPT !.qnext = @ + 1]
    OBVIOUS
  <2>2. c.pc = "live"
        /\ \/ /\ c.qnext < nextSeq
              /\ conn' = [conn EXCEPT ![r].qnext = @ + 1]
              /\ view' = [view EXCEPT ![r] = Shown(v, {c.qnext})]
           \/ Hangs(r) /\ view' = view
           \/ conn' = [conn EXCEPT ![r] = [NoConn EXCEPT !.pc = "end"]] /\ view' = view
    BY <1>2, <1>18 DEF SendLive
  <2>3. CASE /\ c.qnext < nextSeq
             /\ conn' = [conn EXCEPT ![r].qnext = @ + 1]
             /\ view' = [view EXCEPT ![r] = Shown(v, {c.qnext})]
    <3>1. conn' = [conn EXCEPT ![r] = d]
      BY <1>2, <2>1, <2>3 DEF SInv
    <3>2. ReaderOK(d, Shown(v, {c.qnext}))
      BY <1>3, <2>1, <2>2, <2>3, LiveSentOK
    <3> QED
      BY <1>5, <2>3, <3>1, <3>2
  <2>4. CASE Hangs(r) /\ view' = view
    BY <1>8, <2>4
  <2>5. CASE conn' = [conn EXCEPT ![r] = [NoConn EXCEPT !.pc = "end"]] /\ view' = view
    BY <1>3, <1>7, <2>5, HungUpOK
  <2> QED
    BY <2>2, <2>3, <2>4, <2>5
<1>19. CASE Disconnect(r)
  <2>1. PICK S : S = IF c.pc = "rows" THEN c.rows ELSE IF c.pc = "snap" THEN c.snap ELSE {}
    OBVIOUS
  <2>2. c.pc \in Connected /\ conn' = [conn EXCEPT ![r] = NoConn]
        /\ \E k \in {-1} \cup S : view' = [view EXCEPT ![r] = Shown(v, {s \in S : s <= k})]
    BY <1>2, <1>19, <2>1, ZenonT(40) DEF Disconnect, Hangs
  <2>3. PICK k \in {-1} \cup S : view' = [view EXCEPT ![r] = Shown(v, {s \in S : s <= k})]
    BY <2>2
  <2>4. PICK w : w = Shown(v, {s \in S : s <= k})
    OBVIOUS
  <2>5. ReaderOK(NoConn, w)
    BY <1>3, <2>1, <2>2, <2>4, CutOK
  <2> QED
    BY <1>5, <2>2, <2>3, <2>4, <2>5
<1> QED
  BY <1>9, <1>10, <1>11, <1>12, <1>13, <1>14, <1>15, <1>16, <1>17, <1>18, <1>19 DEF Send

LEMMA StepSInv == SInv /\ [StreamNext]_streamVars => SInv'
<1> SUFFICES ASSUME SInv, [StreamNext]_streamVars PROVE SInv'
  OBVIOUS
<1>1. [Next]_vars
  BY StreamStep
<1>2. CASE \E n \in 0..MaxBatch : \E D, P \in SUBSET (nextSeq..(nextSeq + n - 1)) :
             \E U \in SUBSET (pinned \cup P) : Publish(n, D, P, U)
  BY <1>1, <1>2, HubSideSInv
<1>3. CASE StreamClose
  BY <1>1, <1>3, HubSideSInv
<1>4. CASE UNCHANGED <<conn, view>>
  BY <1>1, <1>4, HubSideSInv
<1>5. CASE \E r \in Readers : Subscribe(r) \/ Dial(r) \/ Send(r) \/ Disconnect(r)
  BY <1>5, ReaderSInv
<1>6. UNCHANGED streamVars => UNCHANGED <<conn, view>>
  BY DEF streamVars
<1> QED
  BY <1>2, <1>3, <1>4, <1>5, <1>6 DEF StreamNext

(* What a page has, what its request still has to send and why that is all *)
(* it can get stay related as SInv says, whatever the Hub's writer and its *)
(* garbage collection do and however often the page dials again.           *)
THEOREM StreamInvariance == StreamSpec => []SInv
<1> QED
  BY InitSInv, StepSInv, PTL DEF StreamSpec

(* The requests and the pages keep their types, and nothing a request      *)
(* holds or a page shows is beyond what the Hub has published.             *)
THEOREM StreamTypeCorrect == StreamSpec => []StreamTypeOK
<1>1. SInv => StreamTypeOK
  <2> SUFFICES ASSUME SInv PROVE StreamTypeOK
    OBVIOUS
  <2>1. DOMAIN conn = Readers /\ DOMAIN view = Readers
    BY DEF SInv
  <2>2. ASSUME NEW c, NEW v, ReaderOK(c, v)
        PROVE  /\ c.pc \in Connected \cup {"off", "dial", "end"}
               /\ c.done \in {"no", "slow", "eof"}
               /\ c.before \in 0..nextSeq /\ c.qnext \in 0..nextSeq
               /\ c.rows \subseteq Seqs /\ c.snap \subseteq Seqs
               /\ c.cursor \in -1..(nextSeq - 1)
               /\ v.last \in -1..(nextSeq - 1) /\ v.got \subseteq Seqs
               /\ v.omitted \in BOOLEAN
    <3>1. c \in Request /\ v \in Page /\ Fits(c, v)
      BY <2>2 DEF ReaderOK
    <3>2. c.pc \in Connected \cup {"off", "dial", "end"} /\ c.done \in {"no", "slow", "eof"}
          /\ c.before \in Nat /\ c.qnext \in Nat /\ v.omitted \in BOOLEAN
      BY <3>1 DEF Request, Page
    <3>3. c.before \in 0..nextSeq /\ c.qnext \in 0..nextSeq
      BY <3>1, <3>2, HubTypes DEF SInv, Fits
    <3> QED
      BY <3>1, <3>2, <3>3 DEF Fits
  <2>3. \A r \in Readers : ReaderOK(conn[r], view[r])
    BY DEF SInv
  <2> QED
    BY <2>1, <2>2, <2>3 DEF StreamTypeOK
<1> QED
  BY <1>1, StreamInvariance, PTL

(* A resumed page has every durable event between where it resumed and the *)
(* ring, from its first_seq on, once Backfill.Next has returned io.EOF,    *)
(* and a live page every event since its snapshot.                         *)
THEOREM StreamsAreComplete == StreamSpec => []StreamComplete
<1>1. SInv => StreamComplete
  <2> SUFFICES ASSUME SInv PROVE StreamComplete
    OBVIOUS
  <2>1. IInv
    BY DEF SInv
  <2>2. ASSUME NEW c, NEW v, ReaderOK(c, v), c.pc \in {"snap", "live"}, NEW s \in Seqs,
               \/ c.resumed /\ c.after < s /\ s < c.before /\ c.first <= s /\ s \in durable
               \/ c.pc = "live" /\ c.before <= s /\ s < c.qnext
        PROVE  s \in v.got
    <3>1. LiveOK(c, v)
      BY <2>2 DEF ReaderOK
    <3>2. s \in Nat /\ v.last \in Int
      BY <2>1, <2>2, HubTypes, RequestTypes
    <3>3. CASE c.resumed /\ c.after < s /\ s < c.before /\ c.first <= s /\ s \in durable
      BY <3>1, <3>3 DEF LiveOK, Complete
    <3>4. CASE c.pc = "live" /\ c.before <= s /\ s < c.qnext
      <4>1. ~(v.last < s)
        BY <3>1, <3>2, <3>4 DEF LiveOK, Covers
      <4>2. s <= v.last
        BY <3>2, <4>1
      <4> QED
        BY <3>1, <3>2, <3>4, <4>2 DEF LiveOK
    <3> QED
      BY <2>2, <3>3, <3>4
  <2>3. \A r \in Readers : ReaderOK(conn[r], view[r])
    BY DEF SInv
  <2> QED
    BY <2>2, <2>3 DEF StreamComplete
<1> QED
  BY <1>1, StreamInvariance, PTL

(* No page is past a pinned request that it has not received, evicted from *)
(* the ring or not, resumed or not.                                        *)
THEOREM PendingIsSeen == StreamSpec => []PendingSeen
<1>1. SInv => PendingSeen
  <2> SUFFICES ASSUME SInv, NEW r \in Readers, NEW p \in pinned, p <= view[r].last
               PROVE  p \in view[r].got
    BY DEF PendingSeen
  <2>1. p \in Nat
    BY HubTypes DEF SInv
  <2>2. PageOK(view[r])
    BY DEF SInv, ReaderOK
  <2> QED
    BY <2>1, <2>2 DEF PageOK
<1> QED
  BY <1>1, StreamInvariance, PTL

(* The only durable events a page has passed without receiving them and    *)
(* without an omission mark are ones the garbage collection deleted.       *)
THEOREM OnlyTrimmedHoles == StreamSpec => []HolesAreTrimmed
<1>1. SInv => HolesAreTrimmed
  <2> SUFFICES ASSUME SInv, NEW r \in Readers, NEW s \in Seqs, SilentHole(r, s)
               PROVE  s <= storeTrimmed
    BY DEF HolesAreTrimmed
  <2>1. s \in Nat
    BY HubTypes DEF SInv
  <2>2. PageOK(view[r])
    BY DEF SInv, ReaderOK
  <2> QED
    BY <2>1, <2>2 DEF PageOK, SilentHole
<1> QED
  BY <1>1, StreamInvariance, PTL
=============================================================================
