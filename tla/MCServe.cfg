SPECIFICATION Spec
CONSTANTS
    Procs = {p1, p2}
    Repos = {r1}
    MaxStarts = 2
    Recorded = "opencode"
    None = None
INVARIANTS LogInUse SockServes OneCage LeavesNothing
