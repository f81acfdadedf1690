SPECIFICATION Spec
CONSTANTS
    Creds = {c1, c2}
    Reqs = {r1}
    Handlers = {h1, h2}
    Registered = {c1, c2}
    NoOne = NoOne
    maxCredentials = 2
    challengeTTL = 1
    SessionTTL = 1
    BootstrapTTL = 1
    MaxTime = 2
    MaxChallenges = 2
    MaxEpoch = 2
    MaxIssued = 1
    MaxUnsigned = 1
INVARIANT OnceOnly
INVARIANT RevokedForGood
PROPERTY ChangeAuthorised
SYMMETRY Symmetry
CHECK_DEADLOCK FALSE
