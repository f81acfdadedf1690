SPECIFICATION Spec
CONSTANTS
  Reqs = {r1, r2}
  MaxInflight = 2
  MaxShort = 1
  MaxStreams = 1
  MaxOthers = 2
  None = None
INVARIANTS TokenToProved
PROPERTIES StartReported HostGoneEnds
