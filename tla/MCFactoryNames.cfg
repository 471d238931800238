SPECIFICATION TxSpec
CONSTANTS
    alice = alice
    bob = bob
    atom = atom
    luna = luna
    nova = nova
    stable = stable
    Accounts <- MCAccounts
    AssetInfos <- MCAssets
    AsBytes <- MCOverlappingNames
    PairTypes = {stable}
    CodeIds = {1}
    MaxContracts = 2
INVARIANTS
    UniquePairKey
CHECK_DEADLOCK FALSE
