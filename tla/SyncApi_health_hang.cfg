\* One thread making three wrapper calls and AkashClient calls, with the gRPC endpoint unreachable.
CONSTANTS
    Calls = {c1, c2, c3}
    NoCall = NoCall
    MaxRetries = 3
    StreamLen = 2
    ServerReachable = FALSE
    RequestsAvailable = TRUE
SPECIFICATION Spec
\* A thread blocked in run_until_complete takes no step; the property says so.
CHECK_DEADLOCK FALSE
PROPERTY SyncCallsReturn
