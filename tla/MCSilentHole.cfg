SPECIFICATION StreamSpec
CONSTANTS
  Big = {}
  MaxBytes = 1
  MaxPinned = 0
  QueueMax = 2
  GCMax = 2
  GCTarget = 1
  SlowRun = 1
  MaxSeq = 4
  MaxBatch = 1
  Readers = {r1}
  SubEvents = 1
  SubBytes = 1
  Batch = 1
INVARIANT NoSilentHole
CHECK_DEADLOCK FALSE
