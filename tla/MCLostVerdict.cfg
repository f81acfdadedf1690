\* With a line whose events are too large to be published.
SPECIFICATION Spec
CONSTANTS
  Requests = {r1, r2}
  Forms = {r2}
  Contents = {x}
  MaxPending = 1
  MaxSettled = 1
  StreamMax = 2
  MaxLines = 1
  RequireHash = TRUE
  MaxTurns = 1
  MaxOversized = 1
INVARIANT OneVerdict
CHECK_DEADLOCK FALSE
