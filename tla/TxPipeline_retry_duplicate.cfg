CONSTANTS
    c1 = c1
    c2 = c2
    Calls <- MCCalls
    AccNum = 5
    MaxRetries = 1
    SignDocEncodes = TRUE
SPECIFICATION Spec
CHECK_DEADLOCK FALSE
INVARIANT AtMostOnceEffect
