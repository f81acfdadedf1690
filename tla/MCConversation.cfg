\* A permission and a form, with room for one of them: the other is refused;
\* a line of the agent may be too large to be published.
SPECIFICATION FairSpec
CONSTANTS
  Requests = {r1, r2}
  Forms = {r2}
  Contents = {x, y}
  MaxPending = 1
  MaxSettled = 1
  StreamMax = 2
  MaxLines = 1
  RequireHash = FALSE
  MaxTurns = 2
  MaxOversized = 1
INVARIANTS SettledOnce AllowedWasSeen TablesAgree
PROPERTIES ImplementsApproval StopEnds
CHECK_DEADLOCK FALSE
