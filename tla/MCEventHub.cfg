\* Two units of ring, an event of two units, a queue of two small ops: the ring
\* evicts ahead of the writer, the queue overflows, and a Trim runs twice.
SPECIFICATION FairSpec
CONSTANTS
  Big = {1}
  MaxBytes = 2
  MaxPinned = 1
  QueueMax = 4
  GCMax = 2
  GCTarget = 2
  SlowRun = 2
  MaxSeq = 4
  MaxBatch = 2
INVARIANTS EvictedAreStored FirstSeqHonest PinnedKept InOrder Drained
PROPERTIES FirstSeqMonotone WriterEnds
\* Everything may stop once the writer has ended.
CHECK_DEADLOCK FALSE
