SPECIFICATION TxSpec
CONSTANTS
    alice = alice
    bob = bob
    atom = atom
    luna = luna
    nova = nova
    stable = stable
    Accounts <- MCAccounts
    AssetInfos <- MCAssets
    AsBytes <- MCPlainNames
    PairTypes = {stable}
    CodeIds = {1, 2}
    MaxContracts = 2
INVARIANTS
    FactoryTypeOK
    RegistryConsistent
    OnePairPerAssets
    NoOrphans
PROPERTIES
    RegistryGrows
    CreatePairIsAtomic
CHECK_DEADLOCK FALSE
