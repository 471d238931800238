SPECIFICATION ListingFairSpec
CONSTANTS
    alice = alice
    atom = atom
    luna = luna
    nova = nova
    osmo = osmo
    stable = stable
    Accounts = {alice}
    AssetInfos <- MCAssets
    AsBytes <- MCNames
    PairTypes = {stable}
    CodeIds = {1}
    MaxContracts = 3
    DEFAULT_LIMIT = 2
    MAX_LIMIT = 2
    Limits <- MCLimits
INVARIANTS
    ListingComplete
PROPERTIES
    ListingWithoutRepeats
    ListingEnds
CHECK_DEADLOCK FALSE
