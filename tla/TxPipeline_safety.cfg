\* Two concurrent calls for one wallet, lossy network, lagging REST node,
\* one caller retry, signing encoding as a working encoder would do it.
CONSTANTS
    c1 = c1
    c2 = c2
    Calls <- MCCalls
    AccNum = 5
    MaxRetries = 1
    SignDocEncodes = TRUE
SPECIFICATION Spec
\* Every coroutine runs one create_* call: once all have returned or raised
\* and the network is drained the program has nothing left to do.
CHECK_DEADLOCK FALSE
INVARIANT TypeOK
PROPERTY ImplementsSubmission
