\* Two processes, two passkeys and one entry; the vault is created twice, so
\* that a reset can meet another vault than the one that was confirmed.
SPECIFICATION Spec
CONSTANTS
    Procs = {p1, p2}
    Creds = {c1, c2}
    Names = {n1}
    MaxWraps = 2
    MaxItems = 1
    MaxVaults = 2
    MaxBack = 2
    None = None
    NoOne = NoOne
PROPERTY AuditedFirst
PROPERTY ResetConfirmed
PROPERTY ImplementsAtomicVault
SYMMETRY Symmetry
CHECK_DEADLOCK FALSE
