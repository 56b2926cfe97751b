\* Two middlewares in front of a request, with room for one retry: three calls
\* make the first chain, the fourth is a second call_next() of either of them.
CONSTANTS
    Depth = 2
    MaxCalls = 4
SPECIFICATION LiveSpec
INVARIANTS
    CancelReachesTask
PROPERTIES
    CancelledNeverStarts
    CancelReachesRequest
    EveryCallAnswered
CHECK_DEADLOCK FALSE
