SPECIFICATION ReaderSpec
CONSTANTS
    MaxU128 <- MCMaxU128
    MaxU256 <- MCMaxU256
    DECIMAL_ONE = 1000
    PRECISION_BASE = 2
    MaxPrecision = 3
    GLOBAL_FEE_NUMERATOR = 30
    GLOBAL_FEE_DENOMINATOR = 300
    DEFAULT_SLIPPAGE = 5
    MAX_ALLOWED_SLIPPAGE = 500
    AMP_PRECISION = 10
    MAX_AMP = 8
    MAX_AMP_CHANGE = 10
    MIN_AMP_CHANGING_TIME = 1
    StartTime = 5
    MaxTime = 9
    RampEnds = {8, 9}
    alice = alice
    Accounts <- MCAccounts
    Owner = alice
    IsNative <- MCIsNative
    Precision <- MCPrecision
    LP_PRECISION = 1
    TWAP_PRECISION = 1
    MINIMUM_AMP = 10
    InitialWallet <- MCInitialWallet
    ProvideAmounts = {0, 20}
    SwapAmounts = {9}
    WithdrawAmounts = {7}
    DonateAmounts = {}
    LpAmounts = {}
    BeliefPrices <- MCNoBelief
    MaxSpreads = {500}
    UsedReserve <- MCUsedReserve
    UsedSupply = 30
    UsedPrices <- MCUsedPrices
    MaxCalls = 1
INVARIANTS
    CumulativeNeverFalls
CHECK_DEADLOCK FALSE
