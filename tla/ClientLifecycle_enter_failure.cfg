\* A gRPC endpoint is given but the protobuf services are missing, as in this repository.
CONSTANTS
    MaxEnters = 3
    ProtobufAvailable = FALSE
    CryptoAvailable = TRUE
    CallsAfterExit = FALSE
SPECIFICATION Spec
\* The caller stops after its last 'async with' block.
CHECK_DEADLOCK FALSE
INVARIANT ScopeReleasesResources
