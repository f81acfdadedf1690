CONSTANTS
    Reqs = {r1, r2}
    MaxCommands = 2
    PRQuota = 2
    MaxCommits = 2
SPECIFICATION Spec
INVARIANTS QuotaHolds OwnNamespace
PROPERTY ReadyByHost
