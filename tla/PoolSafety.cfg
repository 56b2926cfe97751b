\* Three requests, one permit: two of them can queue, and their pool timeouts expire.
CONSTANTS
    r1 = r1
    r2 = r2
    r3 = r3
    Requests = {r1, r2, r3}
    NoTimeout = NoTimeout
    MaxConnections = 1
    Bodies = {"Streamed"}
    PoolTimeout = 1
    Timeouts = {NoTimeout}
    TimeCap = 1
SPECIFICATION Spec
SYMMETRY Symmetry
INVARIANTS
    MaxInflight
    PermitConservation
    NoLostWakeup
    NoOrphanResponse
PROPERTIES
    AdmitsInOrder
CHECK_DEADLOCK FALSE
