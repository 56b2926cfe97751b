\* Two requests, one permit, timeouts that expire in the queue, on the wire, at once or never.
CONSTANTS
    r1 = r1
    r2 = r2
    Requests = {r1, r2}
    NoTimeout = NoTimeout
    MaxConnections = 1
    Bodies = {"Streamed"}
    PoolTimeout = 1
    Timeouts = {0, 2, NoTimeout}
    TimeCap = 2
SPECIFICATION TimedSpec
INVARIANTS
    HeldExactly
    DeadlineKept
PROPERTIES
    TimeoutBoundsSend
    PoolTimeoutBoundsWait
CHECK_DEADLOCK FALSE
