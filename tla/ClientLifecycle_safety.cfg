\* Three consecutive async with blocks, every endpoint configuration, all libraries present, calls only inside.
CONSTANTS
    MaxEnters = 3
    ProtobufAvailable = TRUE
    CryptoAvailable = TRUE
    CallsAfterExit = FALSE
SPECIFICATION Spec
\* The caller stops after its last 'async with' block.
CHECK_DEADLOCK FALSE
INVARIANT ScopeReleasesResources
