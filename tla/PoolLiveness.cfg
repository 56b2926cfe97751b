\* No clocks: what ends a wait here is a cancellation, a close or the server.
CONSTANTS
    r1 = r1
    r2 = r2
    Requests = {r1, r2}
    NoTimeout = NoTimeout
    MaxConnections = 1
    Bodies = {"FullyConsumed", "Streamed", "NoBody"}
    PoolTimeout = NoTimeout
    Timeouts = {NoTimeout}
    TimeCap = 0
SPECIFICATION LiveSpec
PROPERTIES
    LeaverReturns
    CloseFreesPermit
    QueueMoves
CHECK_DEADLOCK FALSE
