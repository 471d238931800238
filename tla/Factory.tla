------------------------------ MODULE Factory ------------------------------
(***************************************************************************)
(* The factory (contracts/factory) as its users see it: an owner, one      *)
(* configuration per pair type, and a registry that maps the key of two    *)
(* assets to the pair contract made for them.  An action is a transaction  *)
(* that succeeds; FactoryTx opens CreatePair up into its messages and      *)
(* replies.                                                                *)
(*                                                                         *)
(* Contracts are numbered in the order in which the chain instantiates     *)
(* them: contracts are the pairs, tokens their LP tokens.  AssetInfos are  *)
(* the assets that AssetInfo::check accepts.                               *)
(***************************************************************************)
EXTENDS Integers, Sequences, FiniteSets

CONSTANTS
    Accounts,
    AssetInfos,
    AsBytes,            \* AsBytes[a]: the denom or contract address of asset a, in bytes
    PairTypes,
    CodeIds,
    MaxContracts        \* bound: pairs ever created

ASSUME FactoryAssumption ==
    /\ AsBytes \in [AssetInfos -> Seq(Nat)]
    /\ MaxContracts \in Nat

VARIABLES
    owner, token_code_id,       \* Config
    pair_configs,               \* PAIR_CONFIGS: pair type -> [code_id, is_disabled]
    pairs,                      \* PAIRS: pair key -> number of the pair contract
    contracts,                  \* of a pair: [asset_infos, code_id, admin, liquidity_token]
    tokens                      \* of an LP token: [minter, code_id]

configVars == <<owner, token_code_id, pair_configs>>
registryVars == <<pairs, contracts, tokens>>
factoryVars == <<owner, token_code_id, pair_configs, pairs, contracts, tokens>>

PairConfigs == [code_id : CodeIds, is_disabled : BOOLEAN]

(* Two different assets, in the order in which they were given.            *)
AssetPairs == {p \in AssetInfos \X AssetInfos : p[1] # p[2]}

-----------------------------------------------------------------------------
(* The order of byte strings: a prefix first, else the first difference.   *)
Precedes(s, t) ==
    \E k \in 0 .. Len(s) :
        /\ k < Len(t)
        /\ \A i \in 1 .. k : s[i] = t[i]
        /\ k = Len(s) \/ s[k + 1] < t[k + 1]

(* pair_key: both names, the lesser first, with nothing between them.      *)
PairKeyAsGiven(infos) == AsBytes[infos[1]] \o AsBytes[infos[2]]     \* slip: not sorted

PairKey(infos) ==
    IF Precedes(AsBytes[infos[2]], AsBytes[infos[1]])
    THEN AsBytes[infos[2]] \o AsBytes[infos[1]]
    ELSE AsBytes[infos[1]] \o AsBytes[infos[2]]

(* Map::save                                                               *)
SavedAlone(map, key, value) == [k \in {key} |-> value]              \* slip: an Item

Saved(map, key, value) ==
    [k \in DOMAIN map \cup {key} |-> IF k = key THEN value ELSE map[k]]

(* The tests of execute_create_pair.                                       *)
MayCreate(pair_type, infos) ==
    /\ infos[1] # infos[2]
    /\ PairKey(infos) \notin DOMAIN pairs
    /\ pair_type \in DOMAIN pair_configs
    /\ ~pair_configs[pair_type].is_disabled

(* What the new pair contract and its LP token are.                        *)
NewPair(pair_type, infos) ==
    [asset_infos |-> infos, code_id |-> pair_configs[pair_type].code_id,
     admin |-> owner, liquidity_token |-> Len(tokens) + 1]
NewToken == [minter |-> Len(contracts) + 1, code_id |-> token_code_id]

-----------------------------------------------------------------------------
(* instantiate; no pair type is configured twice.                          *)
FactoryInit ==
    /\ owner \in Accounts
    /\ token_code_id \in CodeIds
    /\ \E types \in SUBSET PairTypes : pair_configs \in [types -> PairConfigs]
    /\ pairs = <<>>
    /\ contracts = <<>>
    /\ tokens = <<>>

(* execute_update_config; an absent token_code_id leaves it.               *)
UpdateConfig(sender, code_id) ==
    /\ sender = owner
    /\ token_code_id' = code_id
    /\ UNCHANGED <<owner, pair_configs, registryVars>>

(* execute_update_owner                                                    *)
UpdateOwner(sender, new_owner) ==
    /\ sender = owner
    /\ owner' = new_owner
    /\ UNCHANGED <<token_code_id, pair_configs, registryVars>>

(* execute_update_pair_config                                              *)
UpdatePairConfig(sender, pair_type, config) ==
    /\ sender = owner
    /\ pair_configs' = Saved(pair_configs, pair_type, config)
    /\ UNCHANGED <<owner, token_code_id, registryVars>>

(* execute_create_pair with everything it sets off, by anybody.            *)
CreatePair(pair_type, infos) ==
    /\ Len(contracts) < MaxContracts
    /\ MayCreate(pair_type, infos)
    /\ contracts' = Append(contracts, NewPair(pair_type, infos))
    /\ tokens' = Append(tokens, NewToken)
    /\ pairs' = Saved(pairs, PairKey(infos), Len(contracts) + 1)
    /\ UNCHANGED configVars

OwnerStep(sender) ==
    \/ \E code_id \in CodeIds : UpdateConfig(sender, code_id)
    \/ \E new_owner \in Accounts : UpdateOwner(sender, new_owner)
    \/ \E pair_type \in PairTypes, config \in PairConfigs :
          UpdatePairConfig(sender, pair_type, config)

FactoryNext ==
    \/ \E sender \in Accounts : OwnerStep(sender)
    \/ \E pair_type \in PairTypes, infos \in AssetInfos \X AssetInfos :
          CreatePair(pair_type, infos)

FactorySpec == FactoryInit /\ [][FactoryNext]_factoryVars

-----------------------------------------------------------------------------
FactoryTypeOK ==
    /\ owner \in Accounts
    /\ token_code_id \in CodeIds
    /\ \E types \in SUBSET PairTypes : pair_configs \in [types -> PairConfigs]
    /\ contracts \in Seq([asset_infos : AssetPairs, code_id : CodeIds, admin : Accounts,
                          liquidity_token : Nat])
    /\ tokens \in Seq([minter : Nat, code_id : CodeIds])
    /\ pairs \in [DOMAIN pairs -> 1 .. Len(contracts)]

(* What traders rely on when they ask the factory for a pair: it is found  *)
(* under the key of its own assets, and its LP token exists, is minted by  *)
(* this pair and by no other.                                              *)
RegistryConsistent ==
    \A key \in DOMAIN pairs :
        LET pair == pairs[key]
        IN  /\ PairKey(contracts[pair].asset_infos) = key
            /\ contracts[pair].liquidity_token \in 1 .. Len(tokens)
            /\ tokens[contracts[pair].liquidity_token].minter = pair

(* Two assets have one market: no two registered pairs trade the same      *)
(* assets, in whatever order their creators named them.                    *)
OnePairPerAssets ==
    \A key, other \in DOMAIN pairs :
        LET p == contracts[pairs[key]].asset_infos
            q == contracts[pairs[other]].asset_infos
        IN  {p[1], p[2]} = {q[1], q[2]} => key = other

(* A registered pair stays registered and stays the same contract: no      *)
(* owner call, no change of a pair type and no later creation takes its    *)
(* place.                                                                  *)
RegistryGrows ==
    [][\A key \in DOMAIN pairs : key \in DOMAIN pairs' /\ pairs'[key] = pairs[key]]_pairs

(* "Calculate unique pair key": as long as two assets have no pair, nobody *)
(* else's pair stands in the way of creating one.                          *)
UniquePairKey ==
    \A infos \in AssetPairs :
        PairKey(infos) \in DOMAIN pairs =>
            LET found == contracts[pairs[PairKey(infos)]].asset_infos
            IN  {found[1], found[2]} = {infos[1], infos[2]}
=============================================================================
