\* Every library present; the caller keeps the client after its 'async with'
\* block and calls methods on it.
CONSTANTS
    MaxEnters = 2
    ProtobufAvailable = TRUE
    CryptoAvailable = TRUE
    CallsAfterExit = TRUE
SPECIFICATION Spec
\* The caller stops after its last call.
CHECK_DEADLOCK FALSE
INVARIANT ScopeReleasesResources
