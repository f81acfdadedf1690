\* One request may be pinned and released; a Trim comes after two stored events.
SPECIFICATION FairStreamSpec
CONSTANTS
  Big = {}
  MaxBytes = 1
  MaxPinned = 1
  QueueMax = 2
  GCMax = 1
  GCTarget = 1
  SlowRun = 1
  MaxSeq = 3
  MaxBatch = 1
  Readers = {r1}
  SubEvents = 1
  SubBytes = 1
  Batch = 1
INVARIANTS StreamComplete PendingSeen HolesAreTrimmed
PROPERTIES StreamEnds
CHECK_DEADLOCK FALSE
