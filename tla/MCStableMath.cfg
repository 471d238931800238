SPECIFICATION CasesSpec
CONSTANTS
    MaxU128 <- MCMaxU128
    MaxU256 <- MCMaxU256
    AMP_PRECISION = 10
    DECIMAL_ONE = 1000
    PRECISION_BASE = 10
    MaxPrecision = 3
    GLOBAL_FEE_NUMERATOR = 30
    GLOBAL_FEE_DENOMINATOR = 300
    DEFAULT_SLIPPAGE = 5
    MAX_ALLOWED_SLIPPAGE = 500
    Lowest = 10
    MaxReserve = 32
    MaxAmount = 20
    CaseAmps = {10, 20, 100}
    Factors = {1, 24}
    Precisions = {0, 1}
INVARIANTS
    DBetweenMeans
    DReachesCurve
    QuoteOnCurve
    DSymmetric
    RoundTripLoses
    SaleMonotone
    QuoteInvertsSale
CHECK_DEADLOCK FALSE
