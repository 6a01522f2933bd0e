\* A working sign-doc encoder; two signatures over the same SDL given in
\* two key orders.
CONSTANTS
    k1 = k1
    badHex = badHex
    n1 = n1
    n2 = n2
    ValidKeys <- MCValidKeys
    BadKeys <- MCBadKeys
    Sdls <- MCSdls
    Deposits <- MCDeposits
    OrderIds <- MCOrderIds
    Prices <- MCPrices
    BidIds <- MCBidIds
    Nonces <- MCNonces
    AccNums = {1, 2}
    Seqs = {0}
    GasLimits = {200000}
    GasPriceMilli = 25
    ChainIds = {"akashnet-2"}
    SignDocEncodes = TRUE
    MaxSigns = 2
SPECIFICATION Spec
INVARIANT CanonicalSignBytes
\* The caller stops once it has its signatures.
CHECK_DEADLOCK FALSE
