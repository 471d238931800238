SPECIFICATION TxSpec
CONSTANTS
    MaxU128 <- MCMaxU128
    MaxU256 <- MCMaxU256
    DECIMAL_ONE = 1000
    PRECISION_BASE = 2
    MaxPrecision = 3
    GLOBAL_FEE_NUMERATOR = 30
    GLOBAL_FEE_DENOMINATOR = 300
    DEFAULT_SLIPPAGE = 5
    MAX_ALLOWED_SLIPPAGE = 500
    AMP_PRECISION = 10
    MAX_AMP = 1
    MAX_AMP_CHANGE = 3
    MIN_AMP_CHANGING_TIME = 1
    StartTime = 1
    MaxTime = 1
    RampEnds = {}
    alice = alice
    bob = bob
    Accounts = {alice, bob}
    Owner = alice
    IsNative <- MCCoins
    Precision <- MCPrecision
    LP_PRECISION = 1
    TWAP_PRECISION = 1
    MINIMUM_AMP = 10
    InitialWallet <- MCInitialWallet
    ProvideAmounts = {20}
    SwapAmounts = {9}
    WithdrawAmounts = {7}
    DonateAmounts = {16}
    LpAmounts = {}
    BeliefPrices <- MCBelief
    MaxSpreads = {300, 600}
    MaxCalls = 2
PROPERTIES
    CallsAreAtomic
    CommittedSwapNearParity
CHECK_DEADLOCK FALSE
