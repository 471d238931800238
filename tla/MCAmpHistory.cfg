SPECIFICATION HistoryFairSpec
CONSTANTS
    MAX_AMP = 6
    MAX_AMP_CHANGE = 2
    MIN_AMP_CHANGING_TIME = 3
    AMP_PRECISION = 4
    StartTime = 1
    MaxTime = 11
    RampEnds <- MCRampEnds
INVARIANTS
    AmpTypeOK
    AmpInBounds
PROPERTIES
    NoAmpJump
    TowardsTarget
    AmpIsRateLimited
    RampCompletes
