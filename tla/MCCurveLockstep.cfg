SPECIFICATION LockstepSpec
CONSTANTS
    MaxU128 <- MCMaxU128
    MaxU256 <- MCMaxU256
    AMP_PRECISION = 10
    DECIMAL_ONE = 1000
    PRECISION_BASE = 10
    MaxPrecision = 3
    GLOBAL_FEE_NUMERATOR = 30
    GLOBAL_FEE_DENOMINATOR = 300
    DEFAULT_SLIPPAGE = 5
    MAX_ALLOWED_SLIPPAGE = 500
    FEE_BASE = 1000
    MaxPasses = 40
    StartPools = {20, 33, 47, 60}
    SaleAmounts = {3, 8, 15}
    Amps = {1, 2, 5, 20}
    MaxSales = 4
    LeastBalance = 10
    Supply = 100
INVARIANTS
    FollowsSimulator
    DepositWorthItself
    RefundNotOverpaid
CHECK_DEADLOCK FALSE
