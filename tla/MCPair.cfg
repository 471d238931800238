SPECIFICATION HistorySpec
CONSTANTS
    MaxU128 <- MCMaxU128
    MaxU256 <- MCMaxU256
    DECIMAL_ONE = 1000
    PRECISION_BASE = 2
    MaxPrecision = 3
    GLOBAL_FEE_NUMERATOR = 30
    GLOBAL_FEE_DENOMINATOR = 300
    DEFAULT_SLIPPAGE = 5
    MAX_ALLOWED_SLIPPAGE = 500
    AMP_PRECISION = 10
    MAX_AMP = 2
    MAX_AMP_CHANGE = 3
    MIN_AMP_CHANGING_TIME = 1
    StartTime = 1
    MaxTime = 3
    RampEnds <- MCRampEnds
    alice = alice
    Accounts <- MCAccounts
    Owner = alice
    IsNative <- MCIsNative
    Precision <- MCPrecision
    LP_PRECISION = 1
    TWAP_PRECISION = 1
    MINIMUM_AMP = 10
    InitialWallet <- MCInitialWallet
    ProvideAmounts = {0, 20}
    SwapAmounts = {9}
    WithdrawAmounts = {7}
    DonateAmounts = {9}
    LpAmounts = {5}
    BeliefPrices <- MCNoBelief
    MaxSpreads <- MCMaxSpreads
    MaxCalls = 4
INVARIANTS
    PairTypeOK
    SharesBacked
    OracleIgnoresOwnBlock
PROPERTIES
    FairWithdrawal
    NoDilution
    SwapPaysSimulation
    SwapKeepsCurve
CHECK_DEADLOCK FALSE
