CONSTANTS
    Conns = {c1, c2}
    MaxConns = 2
    auditQueue = 1
    NoAddr = NoAddr
SPECIFICATION ProxySpec
INVARIANTS Accounted ClosedMeansClosed
PROPERTIES CloseReturns BodyEnds
CHECK_DEADLOCK FALSE
