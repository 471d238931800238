----------------------------- MODULE FactoryTx -----------------------------
(***************************************************************************)
(* CreatePair message by message.  The factory notes the key of the new    *)
(* pair in TMP_PAIR_INFO and asks the chain to instantiate the pair, which *)
(* asks the chain to instantiate its LP token; then the pair's reply and   *)
(* the factory's reply learn the new addresses, innermost first.  The      *)
(* chain runs one transaction at a time, and when any of its steps fails   *)
(* it restores the state of before.                                        *)
(*                                                                         *)
(* The variables of Factory hold the state as the running transaction sees *)
(* it; saved is what the chain would restore.  What the rest of the world  *)
(* sees implements Factory.                                                *)
(***************************************************************************)
EXTENDS Factory

VARIABLES
    tmp_pair_info,      \* TMP_PAIR_INFO: a pair key, NoKey before the first
    tx,                 \* the transaction under way: its next step and what it carries
    saved               \* the state before the transaction under way

txVars == <<factoryVars, tmp_pair_info, tx, saved>>

NoKey == <<>>
Idle == [stage |-> "idle"]
Running(stage) == tx.stage = stage

(* The LP token of a pair that does not have one yet: Addr::unchecked(""). *)
NoToken == 0

Store == [pairs |-> pairs, contracts |-> contracts, tokens |-> tokens,
          tmp_pair_info |-> tmp_pair_info]

-----------------------------------------------------------------------------
TxInit ==
    /\ FactoryInit
    /\ tmp_pair_info = NoKey
    /\ tx = Idle
    /\ saved = Store

(* execute_create_pair: note the key and send the instantiation.           *)
ExecuteCreatePairWithoutNote(pair_type, infos) ==      \* slip: the key is not noted
    /\ Running("idle")
    /\ Len(contracts) < MaxContracts
    /\ MayCreate(pair_type, infos)
    /\ saved' = Store
    /\ tx' = [stage |-> "instantiate pair", pair_type |-> pair_type, asset_infos |-> infos,
              code_id |-> pair_configs[pair_type].code_id, admin |-> owner,
              token_code_id |-> token_code_id]
    /\ UNCHANGED <<factoryVars, tmp_pair_info>>

ExecuteCreatePair(pair_type, infos) ==
    /\ Running("idle")
    /\ Len(contracts) < MaxContracts
    /\ MayCreate(pair_type, infos)
    /\ tmp_pair_info' = PairKey(infos)
    /\ saved' = Store
    /\ tx' = [stage |-> "instantiate pair", pair_type |-> pair_type, asset_infos |-> infos,
              code_id |-> pair_configs[pair_type].code_id, admin |-> owner,
              token_code_id |-> token_code_id]
    /\ UNCHANGED factoryVars

(* instantiate of the pair: it has no LP token yet and sends for one.      *)
InstantiatePair ==
    /\ Running("instantiate pair")
    /\ tx.asset_infos[1] # tx.asset_infos[2]
    /\ contracts' = Append(contracts,
           [asset_infos |-> tx.asset_infos, code_id |-> tx.code_id,
            admin |-> tx.admin, liquidity_token |-> NoToken])
    /\ tx' = [tx EXCEPT !.stage = "instantiate token"]
    /\ UNCHANGED <<configVars, pairs, tokens, tmp_pair_info, saved>>

(* The chain instantiates the LP token; its minter is the sending pair.    *)
InstantiateToken ==
    /\ Running("instantiate token")
    /\ tokens' = Append(tokens, [minter |-> Len(contracts), code_id |-> tx.token_code_id])
    /\ tx' = [tx EXCEPT !.stage = "pair reply"]
    /\ UNCHANGED <<configVars, pairs, contracts, tmp_pair_info, saved>>

(* reply of the pair: a pair learns the address of its LP token, once.     *)
PairReplyUnsaved ==                                     \* slip: the config is not saved
    /\ Running("pair reply")
    /\ contracts[Len(contracts)].liquidity_token = NoToken
    /\ tx' = [tx EXCEPT !.stage = "factory reply"]
    /\ UNCHANGED <<factoryVars, tmp_pair_info, saved>>

PairReply ==
    /\ Running("pair reply")
    /\ contracts[Len(contracts)].liquidity_token = NoToken
    /\ contracts' = [contracts EXCEPT ![Len(contracts)].liquidity_token = Len(tokens)]
    /\ tx' = [tx EXCEPT !.stage = "factory reply"]
    /\ UNCHANGED <<configVars, pairs, tokens, tmp_pair_info, saved>>

(* reply of the factory: register the new pair under the key noted before. *)
FactoryReplyUnsaved ==                                  \* slip: the pair is not saved
    /\ Running("factory reply")
    /\ tmp_pair_info \notin DOMAIN pairs
    /\ tx' = Idle
    /\ UNCHANGED <<factoryVars, tmp_pair_info, saved>>

FactoryReplyOfNext ==                                   \* slip: the next pair's number
    /\ Running("factory reply")
    /\ tmp_pair_info \notin DOMAIN pairs
    /\ pairs' = Saved(pairs, tmp_pair_info, Len(contracts) + 1)
    /\ tx' = Idle
    /\ UNCHANGED <<configVars, contracts, tokens, tmp_pair_info, saved>>

FactoryReply ==
    /\ Running("factory reply")
    /\ tmp_pair_info \notin DOMAIN pairs
    /\ pairs' = Saved(pairs, tmp_pair_info, Len(contracts))
    /\ tx' = Idle
    /\ UNCHANGED <<configVars, contracts, tokens, tmp_pair_info, saved>>

(* Any step may fail: bad init_params, an unknown code, a token that does  *)
(* not answer the query for its symbol.                                    *)
Fail ==
    /\ ~Running("idle")
    /\ pairs' = saved.pairs
    /\ contracts' = saved.contracts
    /\ tokens' = saved.tokens
    /\ tmp_pair_info' = saved.tmp_pair_info
    /\ tx' = Idle
    /\ UNCHANGED <<configVars, saved>>

(* The calls of the owner are one message each.                            *)
OwnerCall ==
    /\ Running("idle")
    /\ \E sender \in Accounts : OwnerStep(sender)
    /\ UNCHANGED <<tmp_pair_info, tx, saved>>

TxNext ==
    \/ OwnerCall
    \/ \E pair_type \in PairTypes, infos \in AssetInfos \X AssetInfos :
          ExecuteCreatePair(pair_type, infos)
    \/ InstantiatePair \/ InstantiateToken \/ PairReply \/ FactoryReply
    \/ Fail

TxSpec == TxInit /\ [][TxNext]_txVars

-----------------------------------------------------------------------------
(* What the world sees.                                                    *)
Committed == IF Running("idle") THEN Store ELSE saved

Atomic == INSTANCE Factory WITH
    pairs <- Committed.pairs,
    contracts <- Committed.contracts,
    tokens <- Committed.tokens

(* The message sequence implements the one-step CreatePair of Factory: a   *)
(* pair with its LP token and its registration appears all at once or not  *)
(* at all, with the owner's settings of the moment of the call.            *)
CreatePairIsAtomic == Atomic!FactorySpec

(* The factory keeps no pair it cannot name: between transactions, every   *)
(* pair contract that a CreatePair made is registered, also after failures *)
(* of earlier transactions at any of their steps.                          *)
NoOrphans ==
    Running("idle") =>
        \A pair \in 1 .. Len(contracts) : \E key \in DOMAIN pairs : pairs[key] = pair
=============================================================================
