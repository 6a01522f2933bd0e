\* Four coroutines on one client with a reachable endpoint.
CONSTANTS
    w1 = w1
    w2 = w2
    w3 = w3
    w4 = w4
    Workers <- MCWorkers4
    MaxRetries = 3
    StreamLen = 2
    ServerReachable = TRUE
SPECIFICATION Spec
\* Each coroutine makes one call; when all have returned the program ends.
CHECK_DEADLOCK FALSE
INVARIANT TypeOK
