--------------------------- MODULE Factory_proofs ---------------------------
(***************************************************************************)
(* The registry of the factory, for every set of accounts, assets and      *)
(* names.  The facts about a registry are stated for any three values ps,  *)
(* cs and ts of pairs, contracts and tokens, to serve for the registry of  *)
(* a transaction under way, too.                                           *)
(*                                                                         *)
(* The second part is about a client of the registry: who reads it page by *)
(* page sees all of it, and no pair twice, for every limit and every       *)
(* interleaving with the creation of pairs.                                *)
(*                                                                         *)
(* The third part: the messages and replies of CreatePair implement the    *)
(* one-step creation, with a failure possible at every step.               *)
(***************************************************************************)
EXTENDS PairListing, FactoryTx, SequenceTheorems, FiniteSetTheorems, WellFoundedInduction, TLAPS

ContractRecords ==
    [asset_infos : AssetPairs, code_id : CodeIds, admin : Accounts, liquidity_token : Nat]
TokenRecords == [minter : Nat, code_id : CodeIds]

RegistryTypes(ps, cs, ts) ==
    /\ cs \in Seq(ContractRecords)
    /\ ts \in Seq(TokenRecords)
    /\ ps \in [DOMAIN ps -> 1 .. Len(cs)]

EntryGood(key, pair, cs, ts) ==
    /\ PairKey(cs[pair].asset_infos) = key
    /\ cs[pair].liquidity_token \in 1 .. Len(ts)
    /\ ts[cs[pair].liquidity_token].minter = pair

Registry(ps, cs, ts) ==
    RegistryTypes(ps, cs, ts) /\ \A key \in DOMAIN ps : EntryGood(key, ps[key], cs, ts)

(* Every pair contract is in the registry.                                 *)
AllRegistered(ps, cs) == \A pair \in 1 .. Len(cs) : \E key \in DOMAIN ps : ps[key] = pair

ConfigTypes ==
    /\ owner \in Accounts
    /\ token_code_id \in CodeIds
    /\ \E types \in SUBSET PairTypes : pair_configs \in [types -> PairConfigs]

FactoryInv ==
    ConfigTypes /\ Registry(pairs, contracts, tokens) /\ AllRegistered(pairs, contracts)

LEMMA FactoryInvImplies ==
    ASSUME ConfigTypes, Registry(pairs, contracts, tokens)
    PROVE  FactoryTypeOK /\ RegistryConsistent
<1>1. FactoryTypeOK
  BY DEF ConfigTypes, Registry, RegistryTypes, FactoryTypeOK, ContractRecords, TokenRecords
<1>2. RegistryConsistent
  BY DEF Registry, EntryGood, RegistryConsistent
<1> QED
  BY <1>1, <1>2

(* A contract or a token more does not disturb the entries.                *)
LEMMA OneContractMore ==
    ASSUME NEW ps, NEW cs, NEW ts, Registry(ps, cs, ts), NEW c \in ContractRecords
    PROVE  Registry(ps, Append(cs, c), ts)
<1> DEFINE ds == Append(cs, c)
<1>1. /\ ds \in Seq(ContractRecords) /\ Len(ds) = Len(cs) + 1 /\ Len(cs) \in Nat
      /\ \A i \in 1 .. Len(cs) : ds[i] = cs[i]
  BY AppendProperties, LenProperties DEF Registry, RegistryTypes
<1>2. \A key \in DOMAIN ps : ps[key] \in 1 .. Len(cs) /\ EntryGood(key, ps[key], cs, ts)
  BY DEF Registry, RegistryTypes
<1> HIDE DEF ds
<1>3. \A key \in DOMAIN ps : EntryGood(key, ps[key], ds, ts)
  BY <1>1, <1>2 DEF EntryGood
<1>4. ps \in [DOMAIN ps -> 1 .. Len(ds)]
  BY <1>1 DEF Registry, RegistryTypes
<1>5. Registry(ps, ds, ts)
  BY <1>1, <1>3, <1>4 DEF Registry, RegistryTypes
<1> QED
  BY <1>5 DEF ds

LEMMA OneTokenMore ==
    ASSUME NEW ps, NEW cs, NEW ts, Registry(ps, cs, ts), NEW t \in TokenRecords
    PROVE  Registry(ps, cs, Append(ts, t))
<1> DEFINE us == Append(ts, t)
<1>1. /\ us \in Seq(TokenRecords) /\ Len(us) = Len(ts) + 1 /\ Len(ts) \in Nat
      /\ \A i \in 1 .. Len(ts) : us[i] = ts[i]
  BY AppendProperties, LenProperties DEF Registry, RegistryTypes
<1> HIDE DEF us
<1>2. \A key \in DOMAIN ps : EntryGood(key, ps[key], cs, us)
  BY <1>1 DEF EntryGood, Registry
<1>3. Registry(ps, cs, us)
  BY <1>1, <1>2 DEF Registry, RegistryTypes
<1> QED
  BY <1>3 DEF us

(* Registering the last contract under its key, with the last token.       *)
LEMMA OnePairMore ==
    ASSUME NEW ps, NEW cs, NEW ts, Registry(ps, cs, ts), AllRegistered(ps, cs),
           NEW c \in ContractRecords, NEW t \in TokenRecords,
           NEW key, key \notin DOMAIN ps, PairKey(c.asset_infos) = key,
           c.liquidity_token = Len(ts) + 1, t.minter = Len(cs) + 1
    PROVE  /\ Registry(Saved(ps, key, Len(cs) + 1), Append(cs, c), Append(ts, t))
           /\ AllRegistered(Saved(ps, key, Len(cs) + 1), Append(cs, c))
<1> DEFINE n == Len(cs) + 1
           qs == Saved(ps, key, n)
           ds == Append(cs, c)
           us == Append(ts, t)
<1>1. Registry(ps, ds, us)
  BY OneContractMore, OneTokenMore
<1>2. /\ Len(cs) \in Nat /\ Len(ds) = n /\ ds[n] = c
  BY AppendProperties, LenProperties DEF Registry, RegistryTypes
<1>3. /\ Len(ts) \in Nat /\ Len(us) = Len(ts) + 1 /\ us[Len(ts) + 1] = t
  BY AppendProperties, LenProperties DEF Registry, RegistryTypes
<1>4. /\ DOMAIN qs = DOMAIN ps \cup {key} /\ qs[key] = n
      /\ \A k \in DOMAIN ps : qs[k] = ps[k]
  <2>1. \A k \in DOMAIN ps : k # key
    OBVIOUS
  <2> QED
    BY <2>1 DEF Saved
<1>5. \A k \in DOMAIN ps : ps[k] \in 1 .. n
  BY <1>1, <1>2 DEF Registry, RegistryTypes
<1>6. qs \in [DOMAIN qs -> 1 .. Len(ds)]
  BY <1>2, <1>4, <1>5 DEF Saved
<1> HIDE DEF qs, ds, us
<1>7. EntryGood(key, n, ds, us)
  BY <1>2, <1>3 DEF EntryGood
<1>8. \A k \in DOMAIN qs : EntryGood(k, qs[k], ds, us)
  BY <1>1, <1>4, <1>7 DEF Registry
<1>9. Registry(qs, ds, us)
  BY <1>1, <1>6, <1>8 DEF Registry, RegistryTypes
<1>10. AllRegistered(qs, ds)
  <2>1. \A pair \in 1 .. Len(ds) : pair \in 1 .. Len(cs) \/ pair = n
    BY <1>2
  <2> QED
    BY <1>4, <2>1 DEF AllRegistered
<1> QED
  BY <1>9, <1>10 DEF qs, ds, us

(* What is known of a call that execute_create_pair accepts.               *)
LEMMA NewRecords ==
    ASSUME ConfigTypes, NEW pair_type, NEW infos \in AssetInfos \X AssetInfos,
           MayCreate(pair_type, infos), NEW token \in Nat, NEW minter \in Nat
    PROVE  /\ [asset_infos |-> infos, code_id |-> pair_configs[pair_type].code_id,
               admin |-> owner, liquidity_token |-> token] \in ContractRecords
           /\ [minter |-> minter, code_id |-> token_code_id] \in TokenRecords
<1>1. PICK types \in SUBSET PairTypes : pair_configs \in [types -> PairConfigs]
  BY DEF ConfigTypes
<1>2. pair_configs[pair_type].code_id \in CodeIds
  BY <1>1 DEF MayCreate, PairConfigs
<1> QED
  BY <1>2 DEF MayCreate, ContractRecords, TokenRecords, AssetPairs, ConfigTypes

(* The calls of the owner keep the types of what they configure.           *)
LEMMA OwnerStepTypes ==
    ASSUME ConfigTypes, NEW sender \in Accounts, OwnerStep(sender)
    PROVE  ConfigTypes' /\ UNCHANGED registryVars
<1>1. UNCHANGED registryVars
  BY DEF OwnerStep, UpdateConfig, UpdateOwner, UpdatePairConfig
<1>2. owner' \in Accounts /\ token_code_id' \in CodeIds
  BY DEF OwnerStep, UpdateConfig, UpdateOwner, UpdatePairConfig, ConfigTypes
<1>3. PICK types \in SUBSET PairTypes : pair_configs \in [types -> PairConfigs]
  BY DEF ConfigTypes
<1>4. ASSUME NEW pair_type \in PairTypes, NEW config \in PairConfigs,
             pair_configs' = Saved(pair_configs, pair_type, config)
      PROVE  \E domain \in SUBSET PairTypes : pair_configs' \in [domain -> PairConfigs]
  <2>1. types \cup {pair_type} \in SUBSET PairTypes
    OBVIOUS
  <2>2. pair_configs' \in [types \cup {pair_type} -> PairConfigs]
    BY <1>3, <1>4 DEF Saved
  <2> QED
    BY <2>1, <2>2
<1>5. CASE pair_configs' = pair_configs
  BY <1>3, <1>5, <1>1, <1>2 DEF ConfigTypes
<1>6. \/ pair_configs' = pair_configs
      \/ \E pair_type \in PairTypes, config \in PairConfigs :
            pair_configs' = Saved(pair_configs, pair_type, config)
  BY DEF OwnerStep, UpdateConfig, UpdateOwner, UpdatePairConfig
<1> QED
  BY <1>1, <1>2, <1>4, <1>5, <1>6 DEF ConfigTypes

-----------------------------------------------------------------------------
LEMMA FactoryInvInit ==
    ASSUME FactoryInit
    PROVE  FactoryInv
  BY DEF FactoryInit, FactoryInv, ConfigTypes, Registry, RegistryTypes, AllRegistered

LEMMA FactoryInvStep ==
    ASSUME FactoryInv, [FactoryNext]_factoryVars
    PROVE  FactoryInv'
<1>1. ASSUME NEW sender \in Accounts, OwnerStep(sender)
      PROVE  FactoryInv'
  BY <1>1, OwnerStepTypes DEF FactoryInv, registryVars
<1>2. ASSUME NEW pair_type \in PairTypes, NEW infos \in AssetInfos \X AssetInfos,
             CreatePair(pair_type, infos)
      PROVE  FactoryInv'
  <2>1. Len(contracts) \in Nat /\ Len(tokens) \in Nat
    BY LenProperties DEF FactoryInv, Registry, RegistryTypes
  <2>2. NewPair(pair_type, infos) \in ContractRecords /\ NewToken \in TokenRecords
    BY <1>2, <2>1, NewRecords DEF CreatePair, FactoryInv, NewPair, NewToken
  <2>3. /\ PairKey(infos) \notin DOMAIN pairs
        /\ contracts' = Append(contracts, NewPair(pair_type, infos))
        /\ tokens' = Append(tokens, NewToken)
        /\ pairs' = Saved(pairs, PairKey(infos), Len(contracts) + 1)
        /\ UNCHANGED configVars
    BY <1>2 DEF CreatePair, MayCreate
  <2>4. /\ NewPair(pair_type, infos).asset_infos = infos
        /\ NewPair(pair_type, infos).liquidity_token = Len(tokens) + 1
        /\ NewToken.minter = Len(contracts) + 1
    BY DEF NewPair, NewToken
  <2>5. Registry(pairs', contracts', tokens') /\ AllRegistered(pairs', contracts')
    BY <2>2, <2>3, <2>4, OnePairMore DEF FactoryInv
  <2> QED
    BY <2>3, <2>5 DEF FactoryInv, ConfigTypes, configVars
<1>3. CASE UNCHANGED factoryVars
  BY <1>3 DEF factoryVars, FactoryInv, ConfigTypes
<1> QED
  BY <1>1, <1>2, <1>3 DEF FactoryNext

(* The factory always finds a pair under the key of its assets, with an LP *)
(* token of its own.                                                       *)
THEOREM FactoryInvariant == FactorySpec => []FactoryInv
<1>1. FactoryInit => FactoryInv
  BY FactoryInvInit
<1>2. FactoryInv /\ [FactoryNext]_factoryVars => FactoryInv'
  BY FactoryInvStep
<1> QED
  BY <1>1, <1>2, PTL DEF FactorySpec

(* No step removes or replaces a pair.                                     *)
LEMMA RegistryGrowsStep ==
    ASSUME [FactoryNext]_factoryVars
    PROVE  \A key \in DOMAIN pairs : key \in DOMAIN pairs' /\ pairs'[key] = pairs[key]
<1>1. ASSUME NEW sender \in Accounts, OwnerStep(sender)
      PROVE  pairs' = pairs
  BY <1>1 DEF OwnerStep, UpdateConfig, UpdateOwner, UpdatePairConfig, registryVars
<1>2. ASSUME NEW pair_type \in PairTypes, NEW infos \in AssetInfos \X AssetInfos,
             CreatePair(pair_type, infos)
      PROVE  \A key \in DOMAIN pairs : key \in DOMAIN pairs' /\ pairs'[key] = pairs[key]
  BY <1>2 DEF CreatePair, MayCreate, Saved
<1>3. CASE UNCHANGED factoryVars
  BY <1>3 DEF factoryVars
<1> QED
  BY <1>1, <1>2, <1>3 DEF FactoryNext

(* A registered pair is never replaced.                                    *)
THEOREM RegistryNeverForgets == FactorySpec => RegistryGrows
<1>1. [FactoryNext]_factoryVars =>
        [\A key \in DOMAIN pairs : key \in DOMAIN pairs' /\ pairs'[key] = pairs[key]]_pairs
  BY RegistryGrowsStep
<1> QED
  BY <1>1, PTL DEF FactorySpec, RegistryGrows

-----------------------------------------------------------------------------
(* The order of byte strings is a strict and total order.                  *)
Bytes == Seq(Nat)

LEMMA LeastNumber ==
    ASSUME NEW S \in SUBSET Nat, S # {}
    PROVE  \E n \in S : \A m \in S : n <= m
<1> DEFINE Less == {ss \in Nat \X Nat : ss[1] < ss[2]}
<1>1. IsWellFoundedOn(Less, Nat)
  BY NatLessThanWellFounded, Zenon DEF OpToRel
<1>2. \A m, n \in Nat : <<m, n>> \in Less <=> m < n
  OBVIOUS
<1> HIDE DEF Less
<1>3. \E n \in S : \A m \in S : ~(<<m, n>> \in Less)
  BY <1>1, WFMin
<1>4. PICK n \in S : \A m \in S : ~(<<m, n>> \in Less)
  BY <1>3
<1>5. ASSUME NEW m \in S PROVE n <= m
  <2>1. ~(m < n) /\ m \in Nat /\ n \in Nat
    BY <1>2, <1>4
  <2> QED
    BY <2>1
<1> QED
  BY <1>5

(* Where two different byte strings part.                                  *)
LEMMA FirstDifference ==
    ASSUME NEW s \in Bytes, NEW t \in Bytes, s # t
    PROVE  \E k \in Nat :
              /\ k <= Len(s) /\ k <= Len(t)
              /\ \A i \in 1 .. k : s[i] = t[i]
              /\ \/ k = Len(s) /\ k < Len(t)
                 \/ k = Len(t) /\ k < Len(s)
                 \/ k < Len(s) /\ k < Len(t) /\ s[k + 1] # t[k + 1]
<1> DEFINE Apart == {j \in Nat : 1 <= j /\ (j > Len(s) \/ j > Len(t) \/ s[j] # t[j])}
<1>1. Len(s) \in Nat /\ Len(t) \in Nat
  BY DEF Bytes
<1>2. Len(s) + 1 \in Apart
  BY <1>1
<1>3. PICK n \in Apart : \A m \in Apart : n <= m
  BY <1>2, LeastNumber
<1>4. n - 1 \in Nat /\ \A i \in 1 .. n - 1 : i <= Len(s) /\ i <= Len(t) /\ s[i] = t[i]
  BY <1>1, <1>3
<1>5. n - 1 <= Len(s) /\ n - 1 <= Len(t)
  BY <1>1, <1>3, <1>4
<1>6. ~(n - 1 = Len(s) /\ n - 1 = Len(t))
  <2> SUFFICES ASSUME n - 1 = Len(s), n - 1 = Len(t) PROVE s = t
    OBVIOUS
  <2> QED
    BY <1>4, SeqEqual DEF Bytes
<1>7. n - 1 = Len(s) \/ n - 1 = Len(t) \/ s[n] # t[n]
  BY <1>1, <1>3, <1>5
<1>8. PICK k \in Nat : n = k + 1
  BY <1>4
<1> HIDE DEF Apart
<1> QED
  BY <1>1, <1>4, <1>5, <1>6, <1>7, <1>8

LEMMA OrderTotal ==
    ASSUME NEW s \in Bytes, NEW t \in Bytes
    PROVE  s = t \/ Precedes(s, t) \/ Precedes(t, s)
<1> SUFFICES ASSUME s # t PROVE Precedes(s, t) \/ Precedes(t, s)
  OBVIOUS
<1>1. PICK k \in Nat :
         /\ k <= Len(s) /\ k <= Len(t)
         /\ \A i \in 1 .. k : s[i] = t[i]
         /\ \/ k = Len(s) /\ k < Len(t)
            \/ k = Len(t) /\ k < Len(s)
            \/ k < Len(s) /\ k < Len(t) /\ s[k + 1] # t[k + 1]
  BY FirstDifference
<1>2. Len(s) \in Nat /\ Len(t) \in Nat
  BY DEF Bytes
<1>3. k < Len(s) /\ k < Len(t) => s[k + 1] \in Nat /\ t[k + 1] \in Nat
  BY <1>2 DEF Bytes
<1> QED
  BY <1>1, <1>2, <1>3 DEF Precedes

LEMMA OrderStrict ==
    ASSUME NEW s \in Bytes, NEW t \in Bytes, Precedes(s, t)
    PROVE  ~Precedes(t, s) /\ s # t
<1>1. Len(s) \in Nat /\ Len(t) \in Nat
  BY DEF Bytes
<1>2. PICK k \in 0 .. Len(s) :
         /\ k < Len(t)
         /\ \A i \in 1 .. k : s[i] = t[i]
         /\ k = Len(s) \/ s[k + 1] < t[k + 1]
  BY DEF Precedes
<1>3. ASSUME NEW l \in 0 .. Len(t),
             l < Len(s),
             \A i \in 1 .. l : t[i] = s[i],
             l = Len(t) \/ t[l + 1] < s[l + 1]
      PROVE  FALSE
  <2>1. k < Len(s) => s[k + 1] \in Nat /\ t[k + 1] \in Nat
    BY <1>1, <1>2 DEF Bytes
  <2>2. l < Len(t) => s[l + 1] \in Nat /\ t[l + 1] \in Nat
    BY <1>1, <1>3 DEF Bytes
  <2>3. CASE k < l
    BY <1>1, <1>2, <1>3, <2>1, <2>3, k + 1 \in 1 .. l
  <2>4. CASE l < k
    BY <1>1, <1>2, <1>3, <2>2, <2>4, l + 1 \in 1 .. k
  <2>5. CASE k = l
    BY <1>1, <1>2, <1>3, <2>1, <2>2, <2>5
  <2> QED
    BY <1>1, <1>2, <1>3, <2>3, <2>4, <2>5
<1>4. ~Precedes(t, s)
  BY <1>3 DEF Precedes
<1> QED
  BY <1>4

LEMMA OrderTransitive ==
    ASSUME NEW s \in Bytes, NEW t \in Bytes, NEW u \in Bytes, Precedes(s, t), Precedes(t, u)
    PROVE  Precedes(s, u)
<1>1. Len(s) \in Nat /\ Len(t) \in Nat /\ Len(u) \in Nat
  BY DEF Bytes
<1>2. PICK k \in 0 .. Len(s) :
         /\ k < Len(t)
         /\ \A i \in 1 .. k : s[i] = t[i]
         /\ k = Len(s) \/ s[k + 1] < t[k + 1]
  BY DEF Precedes
<1>3. PICK l \in 0 .. Len(t) :
         /\ l < Len(u)
         /\ \A i \in 1 .. l : t[i] = u[i]
         /\ l = Len(t) \/ t[l + 1] < u[l + 1]
  BY DEF Precedes
<1>4. k < Len(s) => s[k + 1] \in Nat /\ t[k + 1] \in Nat
  BY <1>1, <1>2 DEF Bytes
<1>5. l < Len(t) => t[l + 1] \in Nat /\ u[l + 1] \in Nat
  BY <1>1, <1>3 DEF Bytes
<1>6. CASE k < l
  <2>1. /\ k < Len(u)
        /\ \A i \in 1 .. k : s[i] = u[i]
        /\ k = Len(s) \/ s[k + 1] < u[k + 1]
    BY <1>1, <1>2, <1>3, <1>6, k + 1 \in 1 .. l
  <2> QED
    BY <2>1 DEF Precedes
<1>7. CASE l < k
  <2>1. /\ l \in 0 .. Len(s)
        /\ \A i \in 1 .. l : s[i] = u[i]
        /\ s[l + 1] < u[l + 1]
    BY <1>1, <1>2, <1>3, <1>7, l + 1 \in 1 .. k
  <2> QED
    BY <1>3, <2>1 DEF Precedes
<1>8. CASE k = l
  <2>1. /\ k < Len(u)
        /\ \A i \in 1 .. k : s[i] = u[i]
        /\ k = Len(s) \/ s[k + 1] < u[k + 1]
    BY <1>1, <1>2, <1>3, <1>4, <1>5, <1>8
  <2> QED
    BY <2>1 DEF Precedes
<1> QED
  BY <1>1, <1>2, <1>3, <1>6, <1>7, <1>8

(* Whoever names two assets in the other order gets the same key.          *)
LEMMA KeyForgetsOrder ==
    ASSUME NEW infos \in AssetInfos \X AssetInfos
    PROVE  PairKey(<<infos[2], infos[1]>>) = PairKey(infos)
<1> DEFINE s == AsBytes[infos[1]]
           t == AsBytes[infos[2]]
<1>1. s \in Bytes /\ t \in Bytes
  BY FactoryAssumption DEF FactoryAssumption, Bytes
<1>2. s = t \/ (Precedes(s, t) /\ ~Precedes(t, s)) \/ (Precedes(t, s) /\ ~Precedes(s, t))
  BY <1>1, OrderTotal, OrderStrict
<1> QED
  BY <1>2 DEF PairKey

(* Two assets have one market.                                             *)
THEOREM OneMarket == FactorySpec => []OnePairPerAssets
<1>1. FactoryInv => OnePairPerAssets
  <2> SUFFICES ASSUME FactoryInv, NEW key \in DOMAIN pairs, NEW other \in DOMAIN pairs,
                      {contracts[pairs[key]].asset_infos[1], contracts[pairs[key]].asset_infos[2]}
                      = {contracts[pairs[other]].asset_infos[1], contracts[pairs[other]].asset_infos[2]}
               PROVE  key = other
    BY DEF OnePairPerAssets
  <2> DEFINE p == contracts[pairs[key]].asset_infos
             q == contracts[pairs[other]].asset_infos
  <2>1. /\ contracts[pairs[key]] \in ContractRecords /\ PairKey(p) = key
        /\ contracts[pairs[other]] \in ContractRecords /\ PairKey(q) = other
    BY DEF FactoryInv, Registry, RegistryTypes, EntryGood
  <2>2. p \in AssetPairs /\ q \in AssetPairs
    BY <2>1 DEF ContractRecords
  <2>3. /\ p \in AssetInfos \X AssetInfos /\ p = <<p[1], p[2]>>
        /\ q \in AssetInfos \X AssetInfos /\ q = <<q[1], q[2]>>
    BY <2>2 DEF AssetPairs
  <2>4. (q[1] = p[1] /\ q[2] = p[2]) \/ (q[1] = p[2] /\ q[2] = p[1])
    OBVIOUS
  <2> HIDE DEF p, q
  <2>5. q = p \/ q = <<p[2], p[1]>>
    BY <2>3, <2>4
  <2> QED
    BY <2>1, <2>3, <2>5, KeyForgetsOrder
<1> QED
  BY <1>1, FactoryInvariant, PTL

-----------------------------------------------------------------------------
(* Keys.                                                                   *)
LEMMA KeyBytes ==
    ASSUME NEW infos \in AssetPairs
    PROVE  /\ PairKey(infos) \in Bytes
           /\ \A i \in 1 .. Len(PairKey(infos)) : PairKey(infos)[i] > 1
<1>1. infos[1] \in AssetInfos /\ infos[2] \in AssetInfos
  BY DEF AssetPairs
<1>2. \A a \in AssetInfos :
         AsBytes[a] \in Bytes /\ \A i \in 1 .. Len(AsBytes[a]) : AsBytes[a][i] > 1
  BY FactoryAssumption, ListingAssumption DEF FactoryAssumption, ListingAssumption, Bytes
<1>3. ASSUME NEW s \in Bytes, NEW t \in Bytes,
             \A i \in 1 .. Len(s) : s[i] > 1, \A i \in 1 .. Len(t) : t[i] > 1
      PROVE  s \o t \in Bytes /\ \A i \in 1 .. Len(s \o t) : (s \o t)[i] > 1
  <2>1. /\ s \o t \in Seq(Nat) /\ Len(s \o t) = Len(s) + Len(t)
        /\ \A i \in 1 .. Len(s) + Len(t) :
              (s \o t)[i] = IF i <= Len(s) THEN s[i] ELSE t[i - Len(s)]
    BY ConcatProperties DEF Bytes
  <2>2. Len(s) \in Nat /\ Len(t) \in Nat
    BY DEF Bytes
  <2> QED
    BY <1>3, <2>1, <2>2 DEF Bytes
<1>4. PairKey(infos) \in {AsBytes[infos[2]] \o AsBytes[infos[1]],
                          AsBytes[infos[1]] \o AsBytes[infos[2]]}
  BY DEF PairKey
<1> QED
  BY <1>1, <1>2, <1>3, <1>4

(* The range that begins one byte after a key leaves out that key alone.   *)
LEMMA JustAfter ==
    ASSUME NEW s \in Bytes, NEW key \in Bytes, \A i \in 1 .. Len(key) : key[i] > 1
    PROVE  Precedes(s \o <<1>>, key) <=> Precedes(s, key)
<1> DEFINE t == s \o <<1>>
<1>1. Len(s) \in Nat /\ Len(key) \in Nat
  BY DEF Bytes
<1>2. /\ t \in Bytes /\ Len(t) = Len(s) + 1 /\ t[Len(s) + 1] = 1
      /\ \A i \in 1 .. Len(s) : t[i] = s[i]
  <2>1. <<1>> \in Seq(Nat) /\ Len(<<1>>) = 1 /\ <<1>>[1] = 1
    OBVIOUS
  <2> QED
    BY <1>1, <2>1, ConcatProperties DEF Bytes
<1> HIDE DEF t
<1>3. Precedes(s, t)
  BY <1>1, <1>2, Len(s) \in 0 .. Len(s) DEF Precedes
<1>4. ASSUME Precedes(s, key) PROVE Precedes(t, key)
  <2>1. PICK k \in 0 .. Len(s) :
           /\ k < Len(key)
           /\ \A i \in 1 .. k : s[i] = key[i]
           /\ k = Len(s) \/ s[k + 1] < key[k + 1]
    BY <1>4 DEF Precedes
  <2>2. /\ k \in 0 .. Len(t)
        /\ \A i \in 1 .. k : t[i] = key[i]
        /\ t[k + 1] < key[k + 1]
    BY <1>1, <1>2, <2>1
  <2> QED
    BY <2>1, <2>2 DEF Precedes
<1> QED
  BY <1>2, <1>3, <1>4, OrderTransitive DEF t

(* A finite set of keys has a first and a last one.                        *)
LEMMA FirstOfSet ==
    ASSUME NEW S \in SUBSET Bytes, IsFiniteSet(S), S # {}
    PROVE  \E x \in S : \A y \in S : y = x \/ Precedes(x, y)
<1> DEFINE Down(x) == {y \in S : y = x \/ Precedes(y, x)}
           Downs == {Down(x) : x \in S}
<1>1. IsWellFoundedOn(StrictSubsetOrdering(S), FiniteSubsetsOf(S))
  BY FS_StrictSubsetOrderingWellFounded
<1>2. Downs \subseteq FiniteSubsetsOf(S) /\ Downs # {}
  <2>1. \A T \in SUBSET S : T \in FiniteSubsetsOf(S)
    BY FS_Subset DEF FiniteSubsetsOf
  <2>2. \A x \in S : Down(x) \in SUBSET S
    OBVIOUS
  <2> QED
    BY <2>1, <2>2
<1> HIDE DEF Downs
<1>3. \E d \in Downs : \A e \in Downs : ~(<<e, d>> \in StrictSubsetOrdering(S))
  BY <1>1, <1>2, WFMin
<1> USE DEF Downs
<1>4. PICK x \in S : \A y \in S : ~(<<Down(y), Down(x)>> \in StrictSubsetOrdering(S))
  BY <1>3
<1>5. ASSUME NEW y \in S, y # x, ~Precedes(x, y) PROVE FALSE
  <2>1. Precedes(y, x) /\ ~Precedes(x, y)
    BY <1>5, OrderTotal
  <2>2. Down(y) \subseteq Down(x)
    <3> SUFFICES ASSUME NEW z \in S, z = y \/ Precedes(z, y) PROVE Precedes(z, x)
      OBVIOUS
    <3> QED
      BY <2>1, OrderTransitive
  <2>3. x \in Down(x) /\ x \notin Down(y)
    BY <1>5
  <2> QED
    BY <1>4, <2>2, <2>3 DEF StrictSubsetOrdering
<1> QED
  BY <1>5

LEMMA LastOfSet ==
    ASSUME NEW S \in SUBSET Bytes, IsFiniteSet(S), S # {}
    PROVE  \E x \in S : \A y \in S : y = x \/ Precedes(y, x)
<1> DEFINE Up(x) == {y \in S : y = x \/ Precedes(x, y)}
           Ups == {Up(x) : x \in S}
<1>1. IsWellFoundedOn(StrictSubsetOrdering(S), FiniteSubsetsOf(S))
  BY FS_StrictSubsetOrderingWellFounded
<1>2. Ups \subseteq FiniteSubsetsOf(S) /\ Ups # {}
  <2>1. \A T \in SUBSET S : T \in FiniteSubsetsOf(S)
    BY FS_Subset DEF FiniteSubsetsOf
  <2>2. \A x \in S : Up(x) \in SUBSET S
    OBVIOUS
  <2> QED
    BY <2>1, <2>2
<1> HIDE DEF Ups
<1>3. \E d \in Ups : \A e \in Ups : ~(<<e, d>> \in StrictSubsetOrdering(S))
  BY <1>1, <1>2, WFMin
<1> USE DEF Ups
<1>4. PICK x \in S : \A y \in S : ~(<<Up(y), Up(x)>> \in StrictSubsetOrdering(S))
  BY <1>3
<1>5. ASSUME NEW y \in S, y # x, ~Precedes(y, x) PROVE FALSE
  <2>1. Precedes(x, y) /\ ~Precedes(y, x)
    BY <1>5, OrderTotal
  <2>2. Up(y) \subseteq Up(x)
    <3> SUFFICES ASSUME NEW z \in S, z = y \/ Precedes(y, z) PROVE Precedes(x, z)
      OBVIOUS
    <3> QED
      BY <2>1, OrderTransitive
  <2>3. x \in Up(x) /\ x \notin Up(y)
    BY <1>5
  <2> QED
    BY <1>4, <2>2, <2>3 DEF StrictSubsetOrdering
<1> QED
  BY <1>5
-----------------------------------------------------------------------------
(* The pages.                                                              *)
After(start_after) ==
    {key \in DOMAIN pairs : start_after = <<>> \/ Precedes(RangeStart(start_after), key)}

(* A page is a beginning of what comes after the cursor, and empty only    *)
(* when nothing does.                                                      *)
LEMMA PageProperties ==
    ASSUME DOMAIN pairs \in SUBSET Bytes, IsFiniteSet(DOMAIN pairs),
           NEW start_after, NEW limit \in Limits
    PROVE  /\ ReadPairs(start_after, limit) \subseteq After(start_after)
           /\ ReadPairs(start_after, limit) = {} => After(start_after) = {}
           /\ \A key \in ReadPairs(start_after, limit), other \in After(start_after) :
                 Precedes(other, key) => other \in ReadPairs(start_after, limit)
<1> DEFINE asked == IF limit = NoLimit THEN DEFAULT_LIMIT ELSE limit
           most == IF asked < MAX_LIMIT THEN asked ELSE MAX_LIMIT
           after == After(start_after)
           Below(key) == {k \in after : Precedes(k, key)}
           page == {key \in after : Cardinality(Below(key)) < most}
<1>1. ReadPairs(start_after, limit) = page
  BY DEF ReadPairs, After
<1>2. most \in Nat \ {0}
  BY ListingAssumption DEF ListingAssumption, NoLimit
<1>3. after \in SUBSET Bytes /\ IsFiniteSet(after)
  BY FS_Subset DEF After
<1> HIDE DEF most, after
<1>4. \A key : IsFiniteSet(Below(key)) /\ Cardinality(Below(key)) \in Nat
  <2> TAKE key
  <2>1. Below(key) \in SUBSET after
    OBVIOUS
  <2> QED
    BY <1>3, <2>1, FS_Subset, FS_CardinalityType
<1>5. ASSUME after # {} PROVE page # {}
  <2>1. PICK x \in after : \A y \in after : y = x \/ Precedes(x, y)
    BY <1>3, <1>5, FirstOfSet
  <2>2. Below(x) = {}
    BY <1>3, <2>1, OrderStrict
  <2>3. Cardinality(Below(x)) = 0
    BY <2>2, FS_EmptySet
  <2> QED
    BY <1>2, <2>3
<1>6. ASSUME NEW key \in page, NEW other \in after, Precedes(other, key)
      PROVE  other \in page
  <2>1. Below(other) \subseteq Below(key)
    BY <1>3, <1>6, OrderTransitive
  <2>2. Cardinality(Below(other)) <= Cardinality(Below(key))
    BY <1>4, <2>1, FS_Subset
  <2> QED
    BY <1>2, <1>4, <1>6, <2>2
<1> QED
  BY <1>1, <1>5, <1>6 DEF after

-----------------------------------------------------------------------------
(* Every pair known at the beginning is listed or still ahead of the       *)
(* cursor; every listed one is not.                                        *)
ListingInv ==
    /\ FactoryInv
    /\ IsFiniteSet(DOMAIN pairs)
    /\ cursor = <<>> \/ cursor \in AssetPairs
    /\ listed = {} => cursor = <<>>
    /\ known \subseteq DOMAIN pairs
    /\ \A key \in known \ listed :
          ~finished /\ (cursor = <<>> \/ Precedes(RangeStart(cursor), key))
    /\ \A key \in listed :
          /\ key \in DOMAIN pairs
          /\ cursor \in AssetPairs
          /\ key = PairKey(cursor) \/ Precedes(key, PairKey(cursor))

LEMMA RegisteredKeys ==
    ASSUME FactoryInv
    PROVE  \A key \in DOMAIN pairs :
              /\ key \in Bytes
              /\ \A i \in 1 .. Len(key) : key[i] > 1
              /\ contracts[pairs[key]].asset_infos \in AssetPairs
              /\ PairKey(contracts[pairs[key]].asset_infos) = key
<1> SUFFICES ASSUME NEW key \in DOMAIN pairs
             PROVE  /\ key \in Bytes
                    /\ \A i \in 1 .. Len(key) : key[i] > 1
                    /\ contracts[pairs[key]].asset_infos \in AssetPairs
                    /\ PairKey(contracts[pairs[key]].asset_infos) = key
  OBVIOUS
<1>1. contracts[pairs[key]] \in ContractRecords /\ EntryGood(key, pairs[key], contracts, tokens)
  BY DEF FactoryInv, Registry, RegistryTypes
<1> QED
  BY <1>1, KeyBytes DEF ContractRecords, EntryGood

LEMMA CursorOutOfRange ==
    ASSUME NEW infos \in AssetPairs, NEW key \in Bytes, \A i \in 1 .. Len(key) : key[i] > 1
    PROVE  Precedes(RangeStart(infos), key) <=> Precedes(PairKey(infos), key)
  BY KeyBytes, JustAfter DEF RangeStart

LEMMA NoCursor == <<>> \notin AssetPairs
  BY DEF AssetPairs

(* No page shows a pair that an earlier page has shown.                    *)
LEMMA PageIsNew ==
    ASSUME ListingInv, NEW limit \in Limits
    PROVE  ReadPairs(cursor, limit) \cap listed = {}
<1> SUFFICES ASSUME NEW key \in ReadPairs(cursor, limit), key \in listed PROVE FALSE
  OBVIOUS
<1>1. DOMAIN pairs \in SUBSET Bytes /\ IsFiniteSet(DOMAIN pairs)
  BY RegisteredKeys DEF ListingInv
<1>2. key \in After(cursor)
  BY <1>1, PageProperties
<1>3. cursor \in AssetPairs /\ (key = PairKey(cursor) \/ Precedes(key, PairKey(cursor)))
  BY DEF ListingInv
<1>4. key \in Bytes /\ PairKey(cursor) \in Bytes /\ \A i \in 1 .. Len(key) : key[i] > 1
  BY <1>2, <1>3, RegisteredKeys, KeyBytes DEF After, ListingInv
<1>5. Precedes(PairKey(cursor), key)
  BY <1>2, <1>3, <1>4, NoCursor, CursorOutOfRange DEF After
<1> QED
  BY <1>3, <1>4, <1>5, OrderStrict

LEMMA PageStep ==
    ASSUME ListingInv, NEW limit \in Limits, ReadPage(limit)
    PROVE  ListingInv'
<1> DEFINE page == ReadPairs(cursor, limit)
           last == CHOOSE key \in page : \A k \in page : k = key \/ Precedes(k, key)
<1>1. /\ ~finished
      /\ known' = IF Begun THEN known ELSE DOMAIN pairs
      /\ listed' = listed \cup page
      /\ finished' = (page = {})
      /\ cursor' = IF page = {} THEN cursor ELSE contracts[pairs[last]].asset_infos
      /\ UNCHANGED factoryVars
  BY DEF ReadPage
<1>2. DOMAIN pairs \in SUBSET Bytes /\ IsFiniteSet(DOMAIN pairs)
  BY RegisteredKeys DEF ListingInv
<1>3. /\ page \subseteq After(cursor) /\ (page = {} => After(cursor) = {})
      /\ \A key \in page, other \in After(cursor) : Precedes(other, key) => other \in page
  BY <1>2, PageProperties
<1>4. page \subseteq DOMAIN pairs
  BY <1>3 DEF After
<1> HIDE DEF page
<1>5. known' \subseteq DOMAIN pairs /\ known' \ listed \subseteq After(cursor)
  <2>1. CASE Begun
    BY <1>1, <2>1 DEF ListingInv, After
  <2>2. CASE ~Begun
    BY <1>1, <2>2 DEF ListingInv, After, Begun
  <2> QED
    BY <2>1, <2>2
<1>6. FactoryInv' /\ IsFiniteSet(DOMAIN pairs') /\ DOMAIN pairs' = DOMAIN pairs
  BY <1>1 DEF ListingInv, FactoryInv, ConfigTypes, factoryVars
<1>7. CASE page = {}
  <2>1. cursor' = cursor /\ listed' = listed
    BY <1>1, <1>7
  <2>2. known' \ listed' = {}
    BY <1>3, <1>5, <1>7, <2>1
  <2> QED
    BY <1>5, <1>6, <2>1, <2>2 DEF ListingInv
<1>8. CASE page # {}
  <2>1. last \in page /\ \A k \in page : k = last \/ Precedes(k, last)
    <3>1. page \in SUBSET Bytes /\ IsFiniteSet(page)
      BY <1>2, <1>4, FS_Subset
    <3>2. \E key \in page : \A k \in page : k = key \/ Precedes(k, key)
      BY <1>8, <3>1, LastOfSet
    <3> QED
      BY <3>2
  <2> HIDE DEF last
  <2>2. /\ cursor' \in AssetPairs /\ PairKey(cursor') = last /\ last \in Bytes
        /\ last \in DOMAIN pairs /\ last \in After(cursor)
        /\ \A i \in 1 .. Len(last) : last[i] > 1
    BY <1>1, <1>3, <1>4, <1>8, <2>1, RegisteredKeys DEF ListingInv
  <2>3. ASSUME NEW key \in listed'
        PROVE  key \in DOMAIN pairs /\ (key = last \/ Precedes(key, last))
    <3>1. CASE key \in page
      BY <1>4, <2>1, <3>1
    <3>2. CASE key \in listed
      <4>1. /\ key \in DOMAIN pairs /\ cursor \in AssetPairs
            /\ key = PairKey(cursor) \/ Precedes(key, PairKey(cursor))
        BY <3>2 DEF ListingInv
      <4>2. Precedes(PairKey(cursor), last)
        BY <2>2, <4>1, NoCursor, CursorOutOfRange DEF After
      <4>3. key \in Bytes /\ PairKey(cursor) \in Bytes
        BY <1>2, <4>1, KeyBytes
      <4> QED
        BY <2>2, <4>1, <4>2, <4>3, OrderTransitive
    <3> QED
      BY <1>1, <2>3, <3>1, <3>2
  <2>4. ASSUME NEW key \in known' \ listed'
        PROVE  Precedes(RangeStart(cursor'), key)
    <3>1. key \in After(cursor) /\ key \notin page /\ key \in DOMAIN pairs
      BY <1>1, <1>5, <2>4
    <3>2. key \in Bytes /\ \A i \in 1 .. Len(key) : key[i] > 1
      BY <3>1, RegisteredKeys DEF ListingInv
    <3>3. ~Precedes(key, last) /\ key # last
      BY <1>3, <2>1, <3>1
    <3>4. Precedes(last, key)
      BY <2>2, <3>2, <3>3, OrderTotal
    <3> QED
      BY <2>2, <3>2, <3>4, CursorOutOfRange
  <2>5. listed' # {} /\ ~finished'
    BY <1>1, <1>8
  <2>6. RangeStart(cursor)' = RangeStart(cursor') /\ PairKey(cursor)' = PairKey(cursor')
    BY DEF RangeStart, PairKey, Precedes
  <2> QED
    BY <1>5, <1>6, <2>2, <2>3, <2>4, <2>5, <2>6 DEF ListingInv
<1> QED
  BY <1>7, <1>8

(* Pairs created between the pages take nothing away.                      *)
LEMMA CreationStep ==
    ASSUME ListingInv, FactoryNext, UNCHANGED listingVars
    PROVE  ListingInv'
<1>1. FactoryInv'
  BY FactoryInvStep DEF ListingInv
<1>2. DOMAIN pairs \subseteq DOMAIN pairs'
  BY RegistryGrowsStep
<1>3. IsFiniteSet(DOMAIN pairs')
  <2>1. ASSUME NEW sender \in Accounts, OwnerStep(sender) PROVE pairs' = pairs
    BY <2>1 DEF OwnerStep, UpdateConfig, UpdateOwner, UpdatePairConfig, registryVars
  <2>2. ASSUME NEW pair_type \in PairTypes, NEW infos \in AssetInfos \X AssetInfos,
               CreatePair(pair_type, infos)
        PROVE  DOMAIN pairs' = DOMAIN pairs \cup {PairKey(infos)}
    BY <2>2 DEF CreatePair, Saved
  <2>3. IsFiniteSet(DOMAIN pairs) /\ \A key : IsFiniteSet(DOMAIN pairs \cup {key})
    BY FS_AddElement DEF ListingInv
  <2>4. DOMAIN pairs' = DOMAIN pairs \/ \E key : DOMAIN pairs' = DOMAIN pairs \cup {key}
    BY <2>1, <2>2 DEF FactoryNext
  <2> QED
    BY <2>3, <2>4
<1>4. cursor' = cursor /\ known' = known /\ listed' = listed /\ finished' = finished
  BY DEF listingVars
<1>5. RangeStart(cursor)' = RangeStart(cursor) /\ PairKey(cursor)' = PairKey(cursor)
  BY <1>4 DEF RangeStart, PairKey, Precedes
<1> QED
  BY <1>1, <1>2, <1>3, <1>4, <1>5 DEF ListingInv

LEMMA ListingInvStep ==
    ASSUME ListingInv, [ListingNext]_<<factoryVars, listingVars>>
    PROVE  ListingInv'
<1>1. CASE UNCHANGED <<factoryVars, listingVars>>
  <2>1. RangeStart(cursor)' = RangeStart(cursor) /\ PairKey(cursor)' = PairKey(cursor)
    BY <1>1 DEF RangeStart, PairKey, Precedes, listingVars
  <2> QED
    BY <1>1, <2>1 DEF ListingInv, FactoryInv, ConfigTypes, factoryVars, listingVars
<1> QED
  BY <1>1, PageStep, CreationStep DEF ListingNext

(* Between any two pages, the pairs known at the beginning are listed or   *)
(* ahead of the cursor, whatever is created meanwhile.                     *)
THEOREM ListingInvariant == ListingSpec => []ListingInv
<1>1. ListingInit => ListingInv
  <2> SUFFICES ASSUME ListingInit PROVE ListingInv
    OBVIOUS
  <2>1. FactoryInv
    BY FactoryInvInit DEF ListingInit
  <2>2. DOMAIN pairs = {}
    BY DEF ListingInit, FactoryInit
  <2> QED
    BY <2>1, <2>2, FS_EmptySet DEF ListingInit, ListingInv
<1>2. ListingInv /\ [ListingNext]_<<factoryVars, listingVars>> => ListingInv'
  BY ListingInvStep
<1> QED
  BY <1>1, <1>2, PTL DEF ListingSpec

(* The client has seen every pair that there was when it began.            *)
THEOREM ListingIsComplete == ListingSpec => []ListingComplete
<1>1. ListingInv => ListingComplete
  BY DEF ListingInv, ListingComplete
<1> QED
  BY <1>1, ListingInvariant, PTL

(* The client is shown no pair twice.                                      *)
THEOREM ListingNeverRepeats == ListingSpec => ListingWithoutRepeats
<1>1. ListingInv =>
         [\A limit \in Limits :
             ReadPage(limit) => ReadPairs(cursor, limit) \cap listed = {}]_listingVars
  BY PageIsNew
<1> QED
  BY <1>1, ListingInvariant, PTL DEF ListingSpec, ListingWithoutRepeats

-----------------------------------------------------------------------------
(* The messages and replies of CreatePair.                                 *)

(* The pair contract of the call under way, before and after its reply,    *)
(* and its LP token.                                                       *)
PairWith(token) ==
    [asset_infos |-> tx.asset_infos, code_id |-> tx.code_id,
     admin |-> tx.admin, liquidity_token |-> token]
TokenMade == [minter |-> Len(saved.contracts) + 1, code_id |-> tx.token_code_id]

(* How far the contracts of the call under way have come.                  *)
Progress ==
    \/ /\ Running("instantiate pair")
       /\ contracts = saved.contracts
       /\ tokens = saved.tokens
    \/ /\ Running("instantiate token")
       /\ contracts = Append(saved.contracts, PairWith(NoToken))
       /\ tokens = saved.tokens
    \/ /\ Running("pair reply")
       /\ contracts = Append(saved.contracts, PairWith(NoToken))
       /\ tokens = Append(saved.tokens, TokenMade)
    \/ /\ Running("factory reply")
       /\ contracts = Append(saved.contracts, PairWith(Len(saved.tokens) + 1))
       /\ tokens = Append(saved.tokens, TokenMade)

(* The call under way still is what execute_create_pair accepted.          *)
CallUnderWay ==
    /\ tx = [stage |-> tx.stage, pair_type |-> tx.pair_type, asset_infos |-> tx.asset_infos,
             code_id |-> tx.code_id, admin |-> tx.admin, token_code_id |-> tx.token_code_id]
    /\ tx.pair_type \in PairTypes
    /\ tx.asset_infos \in AssetInfos \X AssetInfos
    /\ Len(saved.contracts) < MaxContracts
    /\ MayCreate(tx.pair_type, tx.asset_infos)
    /\ tx.code_id = pair_configs[tx.pair_type].code_id
    /\ tx.admin = owner
    /\ tx.token_code_id = token_code_id
    /\ tmp_pair_info = PairKey(tx.asset_infos)
    /\ pairs = saved.pairs

World(ps, cs, ts) == Registry(ps, cs, ts) /\ AllRegistered(ps, cs)

TxInv ==
    /\ ConfigTypes
    /\ Running("idle") => World(pairs, contracts, tokens)
    /\ ~Running("idle") =>
          World(saved.pairs, saved.contracts, saved.tokens) /\ CallUnderWay /\ Progress

(* What is known between two messages of a transaction.                    *)
UnderWay ==
    /\ ConfigTypes
    /\ World(saved.pairs, saved.contracts, saved.tokens)
    /\ CallUnderWay
    /\ Progress

LEMMA UnderWayFacts ==
    ASSUME UnderWay
    PROVE  /\ Len(saved.contracts) \in Nat
           /\ Len(saved.tokens) \in Nat
           /\ \A token \in Nat : PairWith(token) \in ContractRecords
           /\ TokenMade \in TokenRecords
           /\ saved.contracts \in Seq(ContractRecords)
           /\ saved.tokens \in Seq(TokenRecords)
<1>1. /\ saved.contracts \in Seq(ContractRecords) /\ saved.tokens \in Seq(TokenRecords)
      /\ Len(saved.contracts) \in Nat /\ Len(saved.tokens) \in Nat
  BY LenProperties DEF UnderWay, World, Registry, RegistryTypes
<1>2. Len(saved.contracts) + 1 \in Nat
  BY <1>1
<1>3. /\ tx.asset_infos \in AssetInfos \X AssetInfos
      /\ MayCreate(tx.pair_type, tx.asset_infos)
      /\ tx.code_id = pair_configs[tx.pair_type].code_id
      /\ tx.admin = owner
      /\ tx.token_code_id = token_code_id
      /\ ConfigTypes
  BY DEF UnderWay, CallUnderWay
<1> QED
  BY <1>1, <1>2, <1>3, NewRecords DEF PairWith, TokenMade

(* The contracts as the running transaction sees them.                     *)
LEMMA WorkingRegistry ==
    ASSUME UnderWay
    PROVE  Registry(pairs, contracts, tokens)
<1>1. Registry(pairs, saved.contracts, saved.tokens)
  BY DEF UnderWay, World, CallUnderWay
<1>2. /\ NoToken \in Nat /\ Len(saved.tokens) + 1 \in Nat
      /\ \A token \in Nat : PairWith(token) \in ContractRecords
      /\ TokenMade \in TokenRecords
  BY UnderWayFacts DEF NoToken
<1>3. \A c \in ContractRecords : Registry(pairs, Append(saved.contracts, c), saved.tokens)
  BY <1>1, OneContractMore
<1>4. \A c \in ContractRecords :
         Registry(pairs, Append(saved.contracts, c), Append(saved.tokens, TokenMade))
  BY <1>2, <1>3, OneTokenMore
<1> QED
  BY <1>1, <1>2, <1>3, <1>4 DEF UnderWay, Progress

-----------------------------------------------------------------------------
LEMMA TxInvInit ==
    ASSUME TxInit
    PROVE  TxInv
  BY FactoryInvInit DEF TxInit, TxInv, FactoryInv, World, Running, Idle

LEMMA OwnerCallKeepsInv ==
    ASSUME TxInv, OwnerCall
    PROVE  TxInv'
<1>1. PICK sender \in Accounts : OwnerStep(sender)
  BY DEF OwnerCall
<1>2. ConfigTypes' /\ UNCHANGED registryVars
  BY <1>1, OwnerStepTypes DEF TxInv
<1> QED
  BY <1>2 DEF OwnerCall, TxInv, Running, registryVars, World

LEMMA ExecuteKeepsInv ==
    ASSUME TxInv, NEW pair_type \in PairTypes, NEW infos \in AssetInfos \X AssetInfos,
           ExecuteCreatePair(pair_type, infos)
    PROVE  TxInv'
<1>1. /\ tx'.stage = "instantiate pair" /\ ~Running("idle")'
      /\ Running("instantiate pair")'
  BY DEF ExecuteCreatePair, Running
<1>2. ConfigTypes' /\ UNCHANGED factoryVars
  BY DEF ExecuteCreatePair, TxInv, ConfigTypes, factoryVars
<1>3. /\ saved'.pairs = pairs /\ saved'.contracts = contracts /\ saved'.tokens = tokens
  BY DEF ExecuteCreatePair, Store
<1>4. World(saved.pairs, saved.contracts, saved.tokens)'
  BY <1>3 DEF World, TxInv, ExecuteCreatePair
<1>5. CallUnderWay'
  <2>1. MayCreate(pair_type, infos)'
    BY <1>2 DEF ExecuteCreatePair, MayCreate, factoryVars
  <2> QED
    BY <1>2, <1>3, <2>1 DEF ExecuteCreatePair, CallUnderWay, factoryVars
<1>6. Progress'
  BY <1>1, <1>2, <1>3 DEF Progress, factoryVars
<1> QED
  BY <1>1, <1>2, <1>4, <1>5, <1>6 DEF TxInv

(* A message or reply that only moves the transaction on.                  *)
LEMMA MiddleKeepsInv ==
    ASSUME UnderWay, NEW next \in {"instantiate token", "pair reply", "factory reply"},
           tx' = [tx EXCEPT !.stage = next],
           UNCHANGED <<configVars, pairs, tmp_pair_info, saved>>,
           Progress'
    PROVE  TxInv'
<1>1. /\ tx'.stage = next /\ tx'.pair_type = tx.pair_type
      /\ tx'.asset_infos = tx.asset_infos /\ tx'.code_id = tx.code_id
      /\ tx'.admin = tx.admin /\ tx'.token_code_id = tx.token_code_id
      /\ tx' = [stage |-> next, pair_type |-> tx.pair_type, asset_infos |-> tx.asset_infos,
                code_id |-> tx.code_id, admin |-> tx.admin, token_code_id |-> tx.token_code_id]
  BY DEF UnderWay, CallUnderWay
<1>2. MayCreate(tx.pair_type, tx.asset_infos)'
  <2>1. MayCreate(tx.pair_type, tx.asset_infos)
    BY DEF UnderWay, CallUnderWay
  <2>2. pair_configs' = pair_configs /\ pairs' = pairs
    BY DEF configVars
  <2>3. tx'.pair_type = tx.pair_type /\ tx'.asset_infos = tx.asset_infos
    BY <1>1
  <2>4. PairKey(tx'.asset_infos) = PairKey(tx.asset_infos)
    BY <2>3
  <2>5. pair_configs'[tx'.pair_type].is_disabled = pair_configs[tx.pair_type].is_disabled
    BY <2>2, <2>3
  <2>6. tx'.asset_infos[1] # tx'.asset_infos[2]
    BY <2>1, <2>3 DEF MayCreate
  <2>7. PairKey(tx'.asset_infos) \notin DOMAIN pairs'
    BY <2>1, <2>2, <2>4 DEF MayCreate
  <2>8. tx'.pair_type \in DOMAIN pair_configs'
    BY <2>1, <2>2, <2>3 DEF MayCreate
  <2>9. ~pair_configs'[tx'.pair_type].is_disabled
    BY <2>1, <2>5, Zenon DEF MayCreate
  <2> QED
    BY ONLY <2>6, <2>7, <2>8, <2>9 DEF MayCreate
<1>3. CallUnderWay'
  BY <1>1, <1>2 DEF UnderWay, CallUnderWay, configVars
<1>4. ConfigTypes' /\ World(saved.pairs, saved.contracts, saved.tokens)'
  BY DEF UnderWay, ConfigTypes, World, configVars
<1>5. ~Running("idle")'
  BY <1>1 DEF Running
<1> QED
  BY <1>3, <1>4, <1>5 DEF TxInv

LEMMA InstantiatePairKeepsInv ==
    ASSUME UnderWay, InstantiatePair
    PROVE  TxInv'
<1>1. /\ tx' = [tx EXCEPT !.stage = "instantiate token"]
      /\ contracts = saved.contracts /\ tokens = saved.tokens
      /\ contracts' = Append(contracts, PairWith(NoToken))
      /\ UNCHANGED <<configVars, pairs, tokens, tmp_pair_info, saved>>
  BY DEF InstantiatePair, UnderWay, Progress, Running, PairWith
<1>2. tx'.stage = "instantiate token" /\ PairWith(NoToken)' = PairWith(NoToken)
  BY <1>1 DEF UnderWay, CallUnderWay, PairWith, NoToken
<1>3. Progress'
  BY <1>1, <1>2 DEF Progress, Running
<1> QED
  BY <1>1, <1>3, MiddleKeepsInv

LEMMA InstantiateTokenKeepsInv ==
    ASSUME UnderWay, InstantiateToken
    PROVE  TxInv'
<1>1. /\ tx' = [tx EXCEPT !.stage = "pair reply"]
      /\ contracts = Append(saved.contracts, PairWith(NoToken)) /\ tokens = saved.tokens
      /\ tokens' = Append(tokens, [minter |-> Len(contracts), code_id |-> tx.token_code_id])
      /\ UNCHANGED <<configVars, pairs, contracts, tmp_pair_info, saved>>
  BY DEF InstantiateToken, UnderWay, Progress, Running
<1>2. /\ tx'.stage = "pair reply" /\ PairWith(NoToken)' = PairWith(NoToken)
      /\ TokenMade' = TokenMade
  BY <1>1 DEF UnderWay, CallUnderWay, PairWith, NoToken, TokenMade
<1>3. Len(contracts) = Len(saved.contracts) + 1
  <2>1. PairWith(NoToken) \in ContractRecords
    BY UnderWayFacts DEF NoToken
  <2> QED
    BY <1>1, <2>1, UnderWayFacts, AppendProperties
<1>4. Progress'
  BY <1>1, <1>2, <1>3 DEF Progress, Running, TokenMade
<1> QED
  BY <1>1, <1>4, MiddleKeepsInv

LEMMA PairReplyKeepsInv ==
    ASSUME UnderWay, PairReply
    PROVE  TxInv'
<1> DEFINE n == Len(saved.contracts)
           c == PairWith(NoToken)
           d == PairWith(Len(saved.tokens) + 1)
<1>1. /\ tx' = [tx EXCEPT !.stage = "factory reply"]
      /\ contracts = Append(saved.contracts, c)
      /\ tokens = Append(saved.tokens, TokenMade)
      /\ contracts' = [contracts EXCEPT ![Len(contracts)].liquidity_token = Len(tokens)]
      /\ UNCHANGED <<configVars, pairs, tokens, tmp_pair_info, saved>>
  BY DEF PairReply, UnderWay, Progress, Running
<1>2. /\ tx'.stage = "factory reply" /\ d' = d /\ TokenMade' = TokenMade
  BY <1>1 DEF UnderWay, CallUnderWay, PairWith, TokenMade
<1>3. /\ n \in Nat /\ c \in ContractRecords /\ d \in ContractRecords
      /\ saved.contracts \in Seq(ContractRecords)
      /\ Len(tokens) = Len(saved.tokens) + 1
  <2>1. /\ n \in Nat /\ Len(saved.tokens) \in Nat
        /\ \A token \in Nat : PairWith(token) \in ContractRecords
        /\ TokenMade \in TokenRecords
        /\ saved.contracts \in Seq(ContractRecords)
        /\ saved.tokens \in Seq(TokenRecords)
    BY UnderWayFacts
  <2>2. NoToken \in Nat /\ Len(saved.tokens) + 1 \in Nat
    BY <2>1 DEF NoToken
  <2>3. Len(tokens) = Len(saved.tokens) + 1
    BY <1>1, <2>1, AppendProperties
  <2> QED
    BY <2>1, <2>2, <2>3
<1>4. /\ contracts \in Seq(ContractRecords) /\ Len(contracts) = n + 1
      /\ contracts[n + 1] = c
      /\ \A i \in 1 .. n : contracts[i] = saved.contracts[i]
  <2>1. contracts = Append(saved.contracts, c)
    BY <1>1
  <2> HIDE DEF c
  <2>2. /\ Append(saved.contracts, c) \in Seq(ContractRecords)
        /\ Len(Append(saved.contracts, c)) = n + 1
        /\ Append(saved.contracts, c)[n + 1] = c
        /\ \A i \in 1 .. n : Append(saved.contracts, c)[i] = saved.contracts[i]
    BY <1>3, AppendProperties
  <2> QED
    BY <2>1, <2>2
<1>5. [c EXCEPT !.liquidity_token = Len(tokens)] = d
  BY <1>3 DEF PairWith
<1>6. contracts' = [contracts EXCEPT ![n + 1] = d]
  BY <1>1, <1>4, <1>5
<1>7. contracts' = Append(saved.contracts, d)
  <2> DEFINE left == contracts'
             right == Append(saved.contracts, d)
  <2>1. left \in Seq(ContractRecords) /\ Len(left) = n + 1
    BY <1>3, <1>4, <1>6, ExceptSeq
  <2>2. right \in Seq(ContractRecords) /\ Len(right) = n + 1
    BY <1>3, AppendProperties
  <2>3. \A i \in 1 .. n + 1 : left[i] = right[i]
    <3>1. \A i \in 1 .. n : right[i] = saved.contracts[i]
      BY <1>3, AppendProperties
    <3>2. right[n + 1] = d
      BY <1>3, AppendProperties
    <3> HIDE DEF right, d, c
    <3> QED
      BY <1>3, <1>4, <1>6, <3>1, <3>2, LenProperties
  <2> HIDE DEF left, right
  <2>4. left = right
    BY <2>1, <2>2, <2>3, SeqEqual
  <2> QED
    BY <2>4 DEF left, right
<1>8. Progress'
  BY <1>1, <1>2, <1>7 DEF Progress, Running
<1> QED
  BY <1>1, <1>8, MiddleKeepsInv

LEMMA FactoryReplyKeepsInv ==
    ASSUME UnderWay, FactoryReply
    PROVE  TxInv' /\ Running("idle")'
<1> DEFINE n == Len(saved.contracts)
           d == PairWith(Len(saved.tokens) + 1)
           key == PairKey(tx.asset_infos)
<1>1. /\ contracts = Append(saved.contracts, d) /\ tokens = Append(saved.tokens, TokenMade)
      /\ pairs' = Saved(saved.pairs, key, Len(contracts)) /\ key \notin DOMAIN saved.pairs
      /\ tx' = Idle
      /\ UNCHANGED <<configVars, contracts, tokens>>
  BY DEF FactoryReply, UnderWay, Progress, CallUnderWay, Running
<1>2. /\ n \in Nat /\ Len(saved.tokens) \in Nat
      /\ \A token \in Nat : PairWith(token) \in ContractRecords
      /\ TokenMade \in TokenRecords
      /\ saved.contracts \in Seq(ContractRecords)
  BY UnderWayFacts
<1>3. /\ d \in ContractRecords /\ d.asset_infos = tx.asset_infos
      /\ d.liquidity_token = Len(saved.tokens) + 1
      /\ TokenMade.minter = n + 1
  BY <1>2 DEF PairWith, TokenMade
<1>4. Registry(saved.pairs, saved.contracts, saved.tokens)
      /\ AllRegistered(saved.pairs, saved.contracts)
  BY DEF UnderWay, World
<1> HIDE DEF d
<1>5. Len(contracts) = n + 1
  BY <1>1, <1>2, <1>3, AppendProperties
<1>6. PairKey(d.asset_infos) = key
  BY <1>3
<1> HIDE DEF key, n
<1>7. Registry(pairs', contracts', tokens') /\ AllRegistered(pairs', contracts')
  <2>1. pairs' = Saved(saved.pairs, key, Len(saved.contracts) + 1)
    BY <1>1, <1>5 DEF n
  <2> QED
    BY <1>1, <1>2, <1>3, <1>4, <1>6, <2>1, OnePairMore DEF n
<1> QED
  BY <1>1, <1>7 DEF TxInv, World, UnderWay, ConfigTypes, configVars, Running, Idle

LEMMA FailKeepsInv ==
    ASSUME UnderWay, Fail
    PROVE  TxInv' /\ Running("idle")'
  BY DEF UnderWay, Fail, TxInv, World, ConfigTypes, configVars, Running, Idle

LEMMA TxInvStep ==
    ASSUME TxInv, [TxNext]_txVars
    PROVE  TxInv'
<1>1. Running("idle") \/ UnderWay
  BY DEF TxInv, UnderWay
<1>2. CASE OwnerCall
  BY <1>2, OwnerCallKeepsInv
<1>3. ASSUME NEW pair_type \in PairTypes, NEW infos \in AssetInfos \X AssetInfos,
             ExecuteCreatePair(pair_type, infos)
      PROVE  TxInv'
  BY <1>3, ExecuteKeepsInv
<1>4. CASE InstantiatePair
  BY <1>1, <1>4, InstantiatePairKeepsInv DEF InstantiatePair, Running
<1>5. CASE InstantiateToken
  BY <1>1, <1>5, InstantiateTokenKeepsInv DEF InstantiateToken, Running
<1>6. CASE PairReply
  BY <1>1, <1>6, PairReplyKeepsInv DEF PairReply, Running
<1>7. CASE FactoryReply
  BY <1>1, <1>7, FactoryReplyKeepsInv DEF FactoryReply, Running
<1>8. CASE Fail
  BY <1>1, <1>8, FailKeepsInv DEF Fail
<1>9. CASE UNCHANGED txVars
  <2>1. UNCHANGED <<owner, token_code_id, pair_configs, pairs, contracts, tokens,
                    tmp_pair_info, tx, saved>>
    BY <1>9 DEF txVars, factoryVars
  <2>2. ConfigTypes' /\ (World(pairs, contracts, tokens))' = World(pairs, contracts, tokens)
    BY <2>1 DEF TxInv, ConfigTypes, World
  <2>3. CASE Running("idle")
    BY <2>1, <2>2, <2>3 DEF TxInv, Running
  <2>4. CASE UnderWay /\ ~Running("idle")
    <3>1. MayCreate(tx.pair_type, tx.asset_infos)' = MayCreate(tx.pair_type, tx.asset_infos)
      BY <2>1 DEF MayCreate
    <3>2. CallUnderWay'
      BY <2>1, <2>4, <3>1 DEF UnderWay, CallUnderWay
    <3>3. Progress'
      BY <2>1, <2>4 DEF UnderWay, Progress, Running, PairWith, TokenMade
    <3> QED
      BY <2>1, <2>2, <2>4, <3>2, <3>3 DEF UnderWay, TxInv, Running, World
  <2> QED
    BY <1>1, <2>3, <2>4
<1> QED
  BY <1>2, <1>3, <1>4, <1>5, <1>6, <1>7, <1>8, <1>9 DEF TxNext

-----------------------------------------------------------------------------
LEMMA TxInvImplies ==
    ASSUME TxInv
    PROVE  FactoryTypeOK /\ RegistryConsistent /\ NoOrphans
<1>1. ConfigTypes /\ Registry(pairs, contracts, tokens)
  BY WorkingRegistry DEF TxInv, UnderWay, World
<1>2. FactoryTypeOK /\ RegistryConsistent
  BY <1>1, FactoryInvImplies
<1>3. NoOrphans
  BY DEF TxInv, World, AllRegistered, NoOrphans
<1> QED
  BY <1>2, <1>3

THEOREM TxInvariant == TxSpec => []TxInv
<1>1. TxInit => TxInv
  BY TxInvInit
<1>2. TxInv /\ [TxNext]_txVars => TxInv'
  BY TxInvStep
<1> QED
  BY <1>1, <1>2, PTL DEF TxSpec

(* Between and during transactions the state of the factory has its types. *)
THEOREM FactoryTypeCorrect == TxSpec => []FactoryTypeOK
<1>1. TxInv => FactoryTypeOK
  BY TxInvImplies
<1> QED
  BY <1>1, TxInvariant, PTL

(* The pair found under a key trades the assets of the key and has an LP   *)
(* token of its own, at every step of every transaction.                   *)
THEOREM RegistryAlwaysConsistent == TxSpec => []RegistryConsistent
<1>1. TxInv => RegistryConsistent
  BY TxInvImplies
<1> QED
  BY <1>1, TxInvariant, PTL

(* Every pair contract made by CreatePair is registered once its           *)
(* transaction is over, whichever transactions failed before.              *)
THEOREM NeverAnOrphan == TxSpec => []NoOrphans
<1>1. TxInv => NoOrphans
  BY TxInvImplies
<1> QED
  BY <1>1, TxInvariant, PTL

-----------------------------------------------------------------------------
(* The refinement.                                                         *)
LEMMA SameKeys ==
    /\ \A infos : Atomic!PairKey(infos) = PairKey(infos)
    /\ \A map, key, value : Atomic!Saved(map, key, value) = Saved(map, key, value)
<1>1. \A s, t : Atomic!Precedes(s, t) = Precedes(s, t)
  BY DEF Atomic!Precedes, Precedes
<1> QED
  BY <1>1 DEF Atomic!PairKey, PairKey, Atomic!Saved, Saved

LEMMA AtomicStarts ==
    ASSUME TxInit
    PROVE  Atomic!FactoryInit
<1>1. Committed = Store
  BY DEF TxInit, Committed, Running, Idle
<1> QED
  BY <1>1 DEF TxInit, FactoryInit, Atomic!FactoryInit, Store, Atomic!PairConfigs, PairConfigs

LEMMA OwnerCallIsAtomic ==
    ASSUME TxInv, OwnerCall
    PROVE  Atomic!FactoryNext
<1>1. PICK sender \in Accounts : OwnerStep(sender)
  BY DEF OwnerCall
<1>2. UNCHANGED registryVars
  BY <1>1, OwnerStepTypes DEF TxInv
<1>3. Committed' = Committed
  BY <1>2 DEF OwnerCall, Committed, Running, Store, registryVars
<1>4. Atomic!OwnerStep(sender)
  BY <1>1, <1>3, SameKeys
     DEF OwnerStep, UpdateConfig, UpdateOwner, UpdatePairConfig, PairConfigs,
         Atomic!OwnerStep, Atomic!UpdateConfig, Atomic!UpdateOwner,
         Atomic!UpdatePairConfig, Atomic!PairConfigs, Atomic!registryVars
<1> QED
  BY <1>4 DEF Atomic!FactoryNext

LEMMA FactoryReplyIsAtomic ==
    ASSUME UnderWay, FactoryReply
    PROVE  Atomic!CreatePair(tx.pair_type, tx.asset_infos)
<1> DEFINE infos == tx.asset_infos
<1>1. Committed = saved /\ Committed' = Store'
  BY DEF FactoryReply, Committed, Running, Idle
<1>2. /\ contracts = Append(saved.contracts, PairWith(Len(saved.tokens) + 1))
      /\ tokens = Append(saved.tokens, TokenMade)
      /\ pairs = saved.pairs
      /\ pairs' = Saved(saved.pairs, PairKey(infos), Len(contracts))
      /\ UNCHANGED <<configVars, contracts, tokens>>
  BY DEF FactoryReply, UnderWay, Progress, CallUnderWay, Running
<1>3. Len(contracts) = Len(saved.contracts) + 1
  <2>1. /\ \A token \in Nat : PairWith(token) \in ContractRecords
        /\ Len(saved.tokens) \in Nat
        /\ saved.contracts \in Seq(ContractRecords)
    BY UnderWayFacts
  <2>2. PairWith(Len(saved.tokens) + 1) \in ContractRecords
    BY <2>1
  <2> QED
    BY <1>2, <2>1, <2>2, AppendProperties
<1>4. Atomic!MayCreate(tx.pair_type, infos) /\ Len(saved.contracts) < MaxContracts
  BY <1>1, <1>2, SameKeys DEF UnderWay, CallUnderWay, MayCreate, Atomic!MayCreate
<1>5. PairWith(Len(saved.tokens) + 1) = Atomic!NewPair(tx.pair_type, infos)
  BY <1>1 DEF UnderWay, CallUnderWay, PairWith, Atomic!NewPair
<1>6. TokenMade = Atomic!NewToken
  BY <1>1 DEF UnderWay, CallUnderWay, TokenMade, Atomic!NewToken
<1>7. /\ Committed'.contracts = contracts' /\ Committed'.tokens = tokens'
      /\ Committed'.pairs = pairs'
  BY <1>1 DEF Store
<1> QED
  BY <1>1, <1>2, <1>3, <1>4, <1>5, <1>6, <1>7, SameKeys
     DEF Atomic!CreatePair, Atomic!configVars, configVars

LEMMA StepIsAtomic ==
    ASSUME TxInv, [TxNext]_txVars
    PROVE  [Atomic!FactoryNext]_(Atomic!factoryVars)
<1>1. Running("idle") \/ UnderWay
  BY DEF TxInv, UnderWay
<1>2. ASSUME Committed' = Committed, UNCHANGED configVars
      PROVE  UNCHANGED Atomic!factoryVars
  BY <1>2 DEF Atomic!factoryVars, configVars
<1>3. CASE OwnerCall
  BY <1>3, OwnerCallIsAtomic
<1>4. ASSUME NEW pair_type \in PairTypes, NEW infos \in AssetInfos \X AssetInfos,
             ExecuteCreatePair(pair_type, infos)
      PROVE  UNCHANGED Atomic!factoryVars
  <2>1. Committed' = Committed /\ UNCHANGED configVars
    BY <1>4 DEF ExecuteCreatePair, Committed, Running, factoryVars, configVars
  <2> QED
    BY <1>2, <2>1
<1>5. CASE InstantiatePair \/ InstantiateToken \/ PairReply
  <2>1. /\ ~Running("idle") /\ UNCHANGED <<configVars, saved>>
        /\ \E next \in {"instantiate token", "pair reply", "factory reply"} :
              tx' = [tx EXCEPT !.stage = next]
    BY <1>5 DEF InstantiatePair, InstantiateToken, PairReply, Running, factoryVars, configVars
  <2>2. ~Running("idle")'
    BY <1>1, <2>1 DEF Running, UnderWay, CallUnderWay
  <2> QED
    BY <1>2, <2>1, <2>2 DEF Committed
<1>6. CASE FactoryReply
  <2>1. UnderWay
    BY <1>1, <1>6 DEF FactoryReply, Running
  <2>2. tx.pair_type \in PairTypes /\ tx.asset_infos \in AssetInfos \X AssetInfos
    BY <2>1 DEF UnderWay, CallUnderWay
  <2> QED
    BY <1>6, <2>1, <2>2, FactoryReplyIsAtomic DEF Atomic!FactoryNext
<1>7. CASE Fail
  <2>1. /\ Committed = saved /\ Committed' = Store' /\ UNCHANGED configVars
        /\ Committed'.pairs = saved.pairs /\ Committed'.contracts = saved.contracts
        /\ Committed'.tokens = saved.tokens
    BY <1>7 DEF Fail, Committed, Running, Idle, Store
  <2> QED
    BY <2>1 DEF Atomic!factoryVars, configVars
<1>8. CASE UNCHANGED txVars
  BY <1>2, <1>8 DEF txVars, factoryVars, configVars, Committed, Running, Store
<1> QED
  BY <1>3, <1>4, <1>5, <1>6, <1>7, <1>8 DEF TxNext

(* The messages and replies of CreatePair, failures included, implement    *)
(* the creation of a pair in one step.                                     *)
THEOREM CreatePairIsOneStep == TxSpec => CreatePairIsAtomic
<1>1. TxInit => Atomic!FactoryInit
  BY AtomicStarts
<1>2. TxInv /\ [TxNext]_txVars => [Atomic!FactoryNext]_(Atomic!factoryVars)
  BY StepIsAtomic
<1> QED
  BY <1>1, <1>2, TxInvariant, PTL DEF TxSpec, CreatePairIsAtomic, Atomic!FactorySpec
=============================================================================
