\* A working sign-doc encoder, so that signatures are produced; two
\* signatures, over every message kind, two chains, both account numbers
\* and two sequences, so that any two signed transactions may differ in
\* their body, their auth info, their chain or their account.
CONSTANTS
    k1 = k1
    badHex = badHex
    n1 = n1
    n2 = n2
    ValidKeys <- MCValidKeys
    BadKeys <- MCBadKeys
    Sdls <- MCSdlsOneOrder
    Deposits <- MCDeposits
    OrderIds <- MCOrderIdsOneOrder
    Prices <- MCPrices
    BidIds <- MCBidIds
    Nonces <- MCOneNonce
    AccNums = {1, 2}
    Seqs = {0, 1}
    GasLimits = {200000}
    GasPriceMilli = 25
    ChainIds = {"akashnet-2", "sandbox-01"}
    SignDocEncodes = TRUE
    MaxSigns = 2
SPECIFICATION Spec
INVARIANT SignBytesBindTx
\* The caller stops once it has its signatures.
CHECK_DEADLOCK FALSE
