SPECIFICATION Spec
CONSTANTS
    Sessions = {s1, s2, s3}
    Perms = {p1}
    Forms = {f1}
    MaxPending = 2
    MaxSeen = 2
    MaxChildren = 2
    MaxFlight = 2
    MaxQueued = 1
    None = None
SYMMETRY Symmetry
INVARIANTS SettledOnce VerdictTrue ShownOnly NoGhosts
