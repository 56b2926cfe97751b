\* One middleware of the client and perhaps one of the request; two requests
\* beside a copy, two bodies, and calls enough for a retry of each.
CONSTANTS
    client = client
    Middlewares = {client, own}
    ClientChain <- MCClientChain
    Own = own
    MaxRequests = 2
    MaxBodies = 2
    MaxCalls = 4
SPECIFICATION Spec
INVARIANTS
    BodyOnce
    
    ResponseOnce
    OwnBodySpawns
CHECK_DEADLOCK FALSE
