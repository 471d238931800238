---------------------------- MODULE PairTx_proofs ----------------------------
(***************************************************************************)
(* The calls of a pair message by message, for every value of the          *)
(* constants: whatever callers send and wherever a call fails, no ledger   *)
(* goes below zero even in the middle of a transaction, the LP tokens that *)
(* a withdrawal passes through the pair are gone when it is over, the      *)
(* amplification obeys AmpRamp, what the world sees of a transaction is    *)
(* one step of Pair or nothing, and no ledger has to refuse, for want of   *)
(* funds, what a handler tells it to transfer or to burn.                  *)
(*                                                                         *)
(* The refinement rests on two invariants.  TxInv types every stage of a   *)
(* transaction; PlanInv says that the messages still to be dispatched,     *)
(* applied to the ledgers as they stand, end in the state after some       *)
(* action of Pair taken from the state before the transaction.             *)
(***************************************************************************)
EXTENDS PairTx, Pair_proofs, SequenceTheorems

-----------------------------------------------------------------------------
(* The invariant.                                                          *)

Transfers == [kind : {"transfer_from", "transfer"}, account : Accounts, asset : Assets,
              amount : Nat]
Mints == [kind : {"mint"}, account : Accounts, amount : Nat]
Burns == [kind : {"burn"}, amount : Nat]
Messages == Transfers \cup Mints \cup Burns

Callers == Assets \cup {LpToken, Forger}
Hooks == {"swap", "withdraw"}

Deposits ==
    [stage : {"provide"}, sender : Accounts, receiver : Accounts, infos : [1 .. 2 -> Infos],
     amounts : [1 .. 2 -> Nat], funds : [Infos -> Nat]]
Offers ==
    [stage : {"swap"}, sender : Accounts, receiver : Accounts, offer : Infos, amount : Nat,
     funds : [Infos -> Nat], belief_price : BeliefPrices, max_spread : MaxSpreads]
Receipts ==
    [stage : {"receive"}, caller : Callers, sender : Accounts, receiver : Accounts,
     amount : Nat, hook : Hooks, belief_price : BeliefPrices, max_spread : MaxSpreads]
Answers ==
    [stage : {"dispatch", "settled"}, messages : Seq(Messages), sender : Accounts,
     surplus : [Assets -> Nat]]

(* The state that a rollback restores.                                     *)
StoreOK(s) ==
    /\ s.reserve \in [Assets -> Nat]
    /\ s.wallet \in [Accounts -> [Assets -> Nat]]
    /\ s.lp \in [Accounts -> Nat]
    /\ s.total_supply \in U128
    /\ s.block_time_last \in 0 .. now
    /\ s.price_cumulative_last \in [Assets -> U128]
    /\ s.escrow = 0

(* What the messages will still burn: nothing, or with the last of them    *)
(* all that the pair holds.                                                *)
NoBurn(ms) == \A k \in 1 .. Len(ms) : ms[k].kind # "burn"
LastBurns(ms, amount) ==
    /\ Len(ms) > 0
    /\ ms[Len(ms)] \in Burns
    /\ ms[Len(ms)].amount = amount
    /\ \A k \in 1 .. Len(ms) : k < Len(ms) => ms[k].kind # "burn"

EscrowIs(amount) ==
    \/ tx = Idle /\ amount = 0
    \/ tx \in Deposits /\ amount = 0
    \/ tx \in Offers /\ amount = 0
    \/ tx \in Receipts /\ amount = IF tx.caller = LpToken THEN tx.amount ELSE 0
    \/ /\ tx \in Answers
       /\ tx.stage = "settled"
       /\ amount = 0
    \/ /\ tx \in Answers
       /\ tx.stage = "dispatch"
       /\ Len(tx.messages) > 0
       /\ (NoBurn(tx.messages) /\ amount = 0) \/ LastBurns(tx.messages, amount)

TxInv ==
    /\ PairTypeOK
    /\ StoreOK(saved)
    /\ EscrowIs(escrow)
    /\ escrow \in Nat

LEMMA StageFacts ==
    ASSUME EscrowIs(escrow)
    PROVE  /\ Running("idle") => tx = Idle /\ escrow = 0
           /\ Running("provide") => tx \in Deposits /\ escrow = 0
           /\ Running("swap") => tx \in Offers /\ escrow = 0
           /\ Running("receive") =>
                tx \in Receipts /\ escrow = IF tx.caller = LpToken THEN tx.amount ELSE 0
           /\ Running("settled") => escrow = 0
           /\ Running("dispatch") =>
                /\ tx \in Answers
                /\ Len(tx.messages) > 0
                /\ (NoBurn(tx.messages) /\ escrow = 0) \/ LastBurns(tx.messages, escrow)
  BY DEF EscrowIs, Running, Idle, Deposits, Offers, Receipts, Answers

LEMMA StoreIsOK ==
    ASSUME PairTypeOK, escrow = 0
    PROVE  StoreOK(Store)
  BY DEF PairTypeOK, LedgerTypeOK, StoreOK, Store

-----------------------------------------------------------------------------
(* How a call begins.                                                      *)

LEMMA BeginsFacts ==
    ASSUME TxInv, NEW call, Begins(call)
    PROVE  /\ escrow = 0
           /\ tx' = call
           /\ StoreOK(saved)'
           /\ AmpTypeOK'
           /\ block_time_last' \in 0 .. now'
           /\ price_cumulative_last' \in [Assets -> U128]
<1>1. /\ escrow = 0 /\ tx' = call /\ saved' = Store
      /\ UNCHANGED <<oracleVars, ampVars>>
  BY StageFacts DEF TxInv, Begins
<1>2. StoreOK(Store) /\ now' = now
  BY <1>1, StoreIsOK DEF TxInv, ampVars
<1>3. StoreOK(saved)'
  BY <1>1, <1>2 DEF StoreOK
<1> QED
  BY <1>1, <1>3 DEF TxInv, PairTypeOK, LedgerTypeOK, AmpTypeOK, oracleVars, ampVars

LEMMA BankMovesTypes ==
    ASSUME PairTypeOK, NEW sender \in Accounts, NEW funds \in [Infos -> Nat],
           BankMoves(sender, funds)
    PROVE  /\ reserve' \in [Assets -> Nat]
           /\ wallet' \in [Accounts -> [Assets -> Nat]]
           /\ lp' \in [Accounts -> Nat]
           /\ total_supply' \in U128
           /\ escrow' = escrow
<1>1. /\ reserve \in [Assets -> Nat] /\ wallet \in [Accounts -> [Assets -> Nat]]
      /\ lp \in [Accounts -> Nat] /\ total_supply \in U128
      /\ Assets \subseteq Infos
  BY DEF PairTypeOK, LedgerTypeOK, Infos
<1>2. /\ \A i \in Assets : wallet[sender][i] >= funds[i]
      /\ wallet' = [wallet EXCEPT ![sender] = [i \in Assets |-> @[i] - funds[i]]]
      /\ reserve' = [i \in Assets |-> reserve[i] + funds[i]]
      /\ lp' = lp /\ total_supply' = total_supply /\ escrow' = escrow
  BY DEF BankMoves
<1>3. [i \in Assets |-> wallet[sender][i] - funds[i]] \in [Assets -> Nat]
  BY <1>1, <1>2
<1>4. wallet' \in [Accounts -> [Assets -> Nat]]
  BY <1>1, <1>2, <1>3
<1>5. reserve' \in [Assets -> Nat]
  BY <1>1, <1>2
<1> QED
  BY <1>1, <1>2, <1>4, <1>5

LEMMA FundsTypes ==
    ASSUME Assumptions, NEW stated \in [Infos -> Nat], NEW funds \in FundsFor(stated)
    PROVE  funds \in [Infos -> Nat]
<1> DEFINE coins == [info \in Infos |-> IF NativeInfo(info) THEN stated[info] ELSE 0]
<1>1. coins \in [Infos -> Nat] /\ NoFunds \in [Infos -> Nat]
  BY DEF NoFunds
<1>2. funds \in {coins, NoFunds} \cup
        {[coins EXCEPT ![info] = @ + amount] :
            info \in {i \in Assets : IsNative[i]}, amount \in DonateAmounts}
  BY DEF FundsFor
<1> HIDE DEF coins
<1>3. CASE funds \in {coins, NoFunds}
  BY <1>1, <1>3
<1>4. CASE funds \notin {coins, NoFunds}
  <2>1. PICK info \in Assets, amount \in DonateAmounts : funds = [coins EXCEPT ![info] = @ + amount]
    BY <1>2, <1>4
  <2>2. coins[info] + amount \in Nat
    BY <1>1 DEF Infos, Assumptions, PairAssumption
  <2> QED
    BY <1>1, <2>1, <2>2
<1> QED
  BY <1>3, <1>4

LEMMA SubmitKeepsInv ==
    ASSUME Assumptions, TxInv, NEW sender \in Accounts, Submit(sender)
    PROVE  TxInv'
<1>1. /\ PairTypeOK /\ escrow \in Nat
      /\ ProvideAmounts \subseteq Nat /\ SwapAmounts \subseteq Nat /\ WithdrawAmounts \subseteq Nat
      /\ lp[sender] \in Nat /\ NoFunds \in [Infos -> Nat]
  BY DEF TxInv, Assumptions, PairAssumption, PairTypeOK, LedgerTypeOK, NoFunds
<1>2. PICK receiver \in Accounts :
        \/ \E infos \in [1 .. 2 -> Infos], amounts \in [1 .. 2 -> ProvideAmounts] :
              \E funds \in FundsFor([info \in Infos |->
                     IF info = infos[1] THEN amounts[1]
                     ELSE IF info = infos[2] THEN amounts[2] ELSE 0]) :
                 SubmitProvide(sender, receiver, infos, amounts, funds)
        \/ \E belief_price \in BeliefPrices, max_spread \in MaxSpreads :
              \/ \E info \in Infos, amount \in SwapAmounts :
                    \E funds \in FundsFor([NoFunds EXCEPT ![info] = amount]) :
                       SubmitSwap(sender, receiver, info, amount, funds, belief_price, max_spread)
              \/ \E i \in Assets, amount \in SwapAmounts, hook \in Hooks :
                    SendAsset(sender, receiver, i, amount, hook, belief_price, max_spread)
              \/ \E amount \in WithdrawAmounts \cup {lp[sender]}, hook \in Hooks :
                    \/ SendLp(sender, receiver, amount, hook, belief_price, max_spread)
                    \/ ForgeReceive(sender, receiver, amount, hook, belief_price, max_spread)
  BY DEF Submit, Hooks
<1>3. ASSUME NEW infos \in [1 .. 2 -> Infos], NEW amounts \in [1 .. 2 -> ProvideAmounts],
             NEW funds \in FundsFor([info \in Infos |->
                     IF info = infos[1] THEN amounts[1]
                     ELSE IF info = infos[2] THEN amounts[2] ELSE 0]),
             SubmitProvide(sender, receiver, infos, amounts, funds)
      PROVE  TxInv'
  <2>1. amounts \in [1 .. 2 -> Nat]
    BY <1>1
  <2>2. [info \in Infos |-> IF info = infos[1] THEN amounts[1]
                            ELSE IF info = infos[2] THEN amounts[2] ELSE 0] \in [Infos -> Nat]
    BY <2>1
  <2>3. funds \in [Infos -> Nat]
    BY <2>2, FundsTypes
  <2> DEFINE call == [stage |-> "provide", sender |-> sender, receiver |-> receiver,
                      infos |-> infos, amounts |-> amounts, funds |-> funds]
  <2>4. Begins(call) /\ BankMoves(sender, funds)
    BY <1>3 DEF SubmitProvide
  <2>5. call \in Deposits
    BY <2>1, <2>3 DEF Deposits
  <2> HIDE DEF call
  <2>6. PairTypeOK' /\ escrow' = escrow
    BY <1>1, <2>3, <2>4, BeginsFacts, BankMovesTypes DEF PairTypeOK, LedgerTypeOK
  <2>7. StoreOK(saved)' /\ tx' = call /\ escrow = 0
    BY <2>4, BeginsFacts
  <2> QED
    BY <2>5, <2>6, <2>7 DEF TxInv, EscrowIs
<1>4. ASSUME NEW belief_price \in BeliefPrices, NEW max_spread \in MaxSpreads,
             NEW info \in Infos, NEW amount \in SwapAmounts,
             NEW funds \in FundsFor([NoFunds EXCEPT ![info] = amount]),
             SubmitSwap(sender, receiver, info, amount, funds, belief_price, max_spread)
      PROVE  TxInv'
  <2>1. amount \in Nat /\ [NoFunds EXCEPT ![info] = amount] \in [Infos -> Nat]
    BY <1>1
  <2>2. funds \in [Infos -> Nat]
    BY <2>1, FundsTypes
  <2> DEFINE call == [stage |-> "swap", sender |-> sender, receiver |-> receiver, offer |-> info,
                      amount |-> amount, funds |-> funds,
                      belief_price |-> belief_price, max_spread |-> max_spread]
  <2>3. Begins(call) /\ BankMoves(sender, funds)
    BY <1>4 DEF SubmitSwap
  <2>4. call \in Offers
    BY <2>1, <2>2 DEF Offers
  <2> HIDE DEF call
  <2> QED
    BY <1>1, <2>2, <2>3, <2>4, BeginsFacts, BankMovesTypes
       DEF TxInv, PairTypeOK, LedgerTypeOK, EscrowIs
<1>5. ASSUME NEW belief_price \in BeliefPrices, NEW max_spread \in MaxSpreads,
             NEW i \in Assets, NEW amount \in SwapAmounts, NEW hook \in Hooks,
             SendAsset(sender, receiver, i, amount, hook, belief_price, max_spread)
      PROVE  TxInv'
  <2> DEFINE call == Hook(i, sender, receiver, amount, hook, belief_price, max_spread)
             funds == [NoFunds EXCEPT ![i] = amount]
  <2>1. Begins(call) /\ BankMoves(sender, funds)
    BY <1>5 DEF SendAsset
  <2>2. funds \in [Infos -> Nat]
    BY <1>1 DEF Infos
  <2>3. call \in Receipts /\ call.caller # LpToken
    BY <1>1 DEF Receipts, Hook, Callers, Assets, LpToken
  <2> HIDE DEF call, funds
  <2> QED
    BY <1>1, <2>1, <2>2, <2>3, BeginsFacts, BankMovesTypes
       DEF TxInv, PairTypeOK, LedgerTypeOK, EscrowIs
<1>6. ASSUME NEW belief_price \in BeliefPrices, NEW max_spread \in MaxSpreads,
             NEW amount \in WithdrawAmounts \cup {lp[sender]}, NEW hook \in Hooks,
             SendLp(sender, receiver, amount, hook, belief_price, max_spread)
      PROVE  TxInv'
  <2> DEFINE call == Hook(LpToken, sender, receiver, amount, hook, belief_price, max_spread)
  <2>1. /\ Begins(call)
        /\ lp[sender] >= amount
        /\ lp' = [lp EXCEPT ![sender] = @ - amount]
        /\ escrow' = escrow + amount
        /\ UNCHANGED <<reserve, wallet, total_supply>>
    BY <1>6 DEF SendLp
  <2>2. amount \in Nat
    BY <1>1
  <2>3. call \in Receipts /\ call.caller = LpToken /\ call.amount = amount
    BY <2>2 DEF Receipts, Hook, Callers
  <2> HIDE DEF call
  <2>4. escrow = 0 /\ tx' = call
    BY <2>1, BeginsFacts
  <2>5. lp' \in [Accounts -> Nat]
    <3>1. lp[sender] - amount \in Nat
      BY <1>1, <2>1, <2>2
    <3> QED
      BY <1>1, <2>1, <3>1 DEF PairTypeOK, LedgerTypeOK
  <2>6. escrow' = amount
    BY <2>1, <2>2, <2>4
  <2>7. EscrowIs(escrow)'
    BY <2>3, <2>4, <2>6 DEF EscrowIs
  <2> QED
    BY <1>1, <2>1, <2>2, <2>5, <2>6, <2>7, BeginsFacts DEF TxInv, PairTypeOK, LedgerTypeOK
<1>7. ASSUME NEW belief_price \in BeliefPrices, NEW max_spread \in MaxSpreads,
             NEW amount \in WithdrawAmounts \cup {lp[sender]}, NEW hook \in Hooks,
             ForgeReceive(sender, receiver, amount, hook, belief_price, max_spread)
      PROVE  TxInv'
  <2> DEFINE call == Hook(Forger, sender, receiver, amount, hook, belief_price, max_spread)
  <2>1. Begins(call) /\ UNCHANGED <<reserve, wallet, lp, total_supply, escrow>>
    BY <1>7 DEF ForgeReceive
  <2>2. call \in Receipts /\ call.caller # LpToken
    BY <1>1 DEF Receipts, Hook, Callers, LpToken, Forger
  <2> HIDE DEF call
  <2> QED
    BY <1>1, <2>1, <2>2, BeginsFacts DEF TxInv, PairTypeOK, LedgerTypeOK, EscrowIs
<1> QED
  BY <1>2, <1>3, <1>4, <1>5, <1>6, <1>7

-----------------------------------------------------------------------------
(* The handlers.                                                           *)

(* Messages that do not burn.                                              *)
Harmless == Transfers \cup Mints

LEMMA HarmlessFacts ==
    ASSUME NEW ms \in Seq(Harmless)
    PROVE  ms \in Seq(Messages) /\ NoBurn(ms)
<1>1. \A k \in 1 .. Len(ms) : ms[k] \in Messages /\ ms[k].kind # "burn"
  <2>1. \A k \in 1 .. Len(ms) : ms[k] \in Harmless
    OBVIOUS
  <2>2. \A m \in Harmless : m \in Messages /\ m.kind # "burn"
    BY DEF Harmless, Messages, Transfers, Mints
  <2> QED
    BY <2>1, <2>2
<1>2. ms \in Seq(Messages)
  BY <1>1
<1> QED
  BY <1>1, <1>2 DEF NoBurn

LEMMA ReturnsKeepsInv ==
    ASSUME Assumptions, TxInv, NEW messages \in Seq(Messages), Len(messages) > 0,
           NEW sender \in Accounts, NEW surplus \in [Assets -> Nat], NEW pools,
           AccumulatePrices(pools), Returns(messages, sender, surplus),
           (NoBurn(messages) /\ escrow = 0) \/ LastBurns(messages, escrow)
    PROVE  TxInv'
<1> DEFINE answer == [stage |-> "dispatch", messages |-> messages, sender |-> sender,
                      surplus |-> surplus]
<1>1. /\ tx' = answer
      /\ UNCHANGED <<ledgerVars, escrow, saved, calls, ampVars>>
  BY DEF Returns
<1>2. /\ answer \in Answers /\ answer.stage = "dispatch" /\ answer.messages = messages
  BY DEF Answers
<1> HIDE DEF answer
<1>3. EscrowIs(escrow)'
  BY <1>1, <1>2 DEF EscrowIs
<1>4. now' = now
  BY <1>1 DEF ampVars
<1>5. /\ block_time_last' \in 0 .. now'
      /\ price_cumulative_last' \in [Assets -> U128]
  BY <1>4, AccumulateType DEF TxInv
<1>6. PairTypeOK'
  BY <1>1, <1>5 DEF TxInv, PairTypeOK, LedgerTypeOK, AmpTypeOK, ampVars, ledgerVars
<1>7. StoreOK(saved)'
  BY <1>1, <1>4 DEF TxInv, StoreOK
<1> QED
  BY <1>1, <1>3, <1>6, <1>7 DEF TxInv

LEMMA NoSurplusType == NoSurplus \in [Assets -> Nat]
  BY DEF NoSurplus

LEMMA HandleProvideKeepsInv ==
    ASSUME Assumptions, TxInv, HandleProvide
    PROVE  TxInv'
<1> DEFINE deposits == [i \in Assets |->
               IF tx.infos[1] = i THEN tx.amounts[1] ELSE tx.amounts[2]]
           pools == [i \in Assets |->
               QueryPool(i) - IF IsNative[i] THEN deposits[i] ELSE 0]
           share == Share(pools, Evaluated(pools, deposits))
           fetch(i) == IF IsNative[i] \/ deposits[i] = 0 THEN <<>>
                       ELSE <<TransferFrom(tx.sender, i, deposits[i])>>
           mint == <<Mint(tx.receiver, share)>>
           messages == fetch(0) \o fetch(1) \o mint
<1>1. /\ Running("provide")
      /\ share \notin {None, 0}
      /\ AccumulatePrices(pools)
      /\ Returns(messages, tx.sender, NoSurplus)
  BY DEF HandleProvide
<1>2. tx \in Deposits /\ escrow = 0
  BY <1>1, StageFacts DEF TxInv
<1>3. /\ tx.sender \in Accounts /\ tx.receiver \in Accounts
      /\ tx.amounts \in [1 .. 2 -> Nat]
  BY <1>2 DEF Deposits
<1>4. share \in Nat
  BY <1>1, ShareType DEF Optional
<1>5. \A i \in Assets : deposits[i] \in Nat
  BY <1>3
<1> HIDE DEF deposits, share, pools
<1>6. \A i \in Assets : fetch(i) \in Seq(Harmless)
  <2>1. \A i \in Assets : TransferFrom(tx.sender, i, deposits[i]) \in Harmless
    BY <1>3, <1>5 DEF TransferFrom, Harmless, Transfers
  <2> QED
    BY <2>1
<1>7. mint \in Seq(Harmless) /\ Len(mint) = 1
  <2>1. Mint(tx.receiver, share) \in Harmless
    BY <1>3, <1>4 DEF Mint, Harmless, Mints
  <2> QED
    BY <2>1
<1> HIDE DEF fetch, mint
<1>8. messages \in Seq(Harmless) /\ Len(messages) > 0
  <2>1. fetch(0) \in Seq(Harmless) /\ fetch(1) \in Seq(Harmless)
    BY <1>6 DEF Assets
  <2> QED
    BY <1>7, <2>1
<1> HIDE DEF messages
<1> QED
  BY <1>1, <1>2, <1>3, <1>8, HarmlessFacts, ReturnsKeepsInv, NoSurplusType

LEMMA HandleOfferKeepsInv ==
    ASSUME Assumptions, TxInv, NEW offer, NEW funds \in [Infos -> Nat],
           tx.sender \in Accounts, tx.receiver \in Accounts, tx.amount \in Nat, escrow = 0,
           HandleOffer(offer, funds)
    PROVE  TxInv'
<1> DEFINE pools == Without(QueryPools, offer, tx.amount)
           quote == Simulation(pools, offer, tx.amount)
           surplus == [i \in Assets |-> IF i = offer THEN 0 ELSE funds[i]]
           payment == TransferMsg(tx.receiver, Other(offer), quote.return_amount)
<1>1. /\ offer \in Assets
      /\ pools[offer] >= 0
      /\ ~Void(quote)
      /\ AccumulatePrices(pools)
      /\ Returns(<<payment>>, tx.sender, surplus)
  BY DEF HandleOffer
<1>2. pools \in [Assets -> Nat]
  <2>1. reserve \in [Assets -> Nat]
    BY DEF TxInv, PairTypeOK, LedgerTypeOK
  <2>2. QueryPools = reserve
    BY <2>1 DEF QueryPools, QueryPool
  <2>3. pools = [reserve EXCEPT ![offer] = @ - tx.amount]
    BY <2>2 DEF Without
  <2>4. reserve[offer] - tx.amount \in Nat
    BY <1>1, <2>1, <2>3
  <2> QED
    BY <1>1, <2>1, <2>3, <2>4
<1>3. quote.return_amount \in Nat
  BY <1>1, <1>2, QuoteNeedsOffer DEF TxInv, PairTypeOK
<1>4. surplus \in [Assets -> Nat]
  BY DEF Infos
<1> HIDE DEF pools, quote, surplus
<1>5. payment \in Harmless
  BY <1>1, <1>3 DEF TransferMsg, Harmless, Transfers, Assets, Other
<1> HIDE DEF payment
<1>6. <<payment>> \in Seq(Harmless) /\ Len(<<payment>>) > 0
  BY <1>5
<1> QED
  BY <1>1, <1>4, <1>6, HarmlessFacts, ReturnsKeepsInv

LEMMA HandleSwapKeepsInv ==
    ASSUME Assumptions, TxInv, HandleSwap
    PROVE  TxInv'
<1>1. Running("swap") /\ HandleOffer(tx.offer, tx.funds)
  BY DEF HandleSwap
<1>2. tx \in Offers /\ escrow = 0
  BY <1>1, StageFacts DEF TxInv
<1> QED
  BY <1>1, <1>2, HandleOfferKeepsInv DEF Offers

LEMMA HandleWithdrawKeepsInv ==
    ASSUME Assumptions, TxInv, tx.sender \in Accounts, tx.amount \in Nat,
           escrow = tx.amount, HandleWithdraw
    PROVE  TxInv'
<1> DEFINE refund == [i \in Assets |-> ShareInAsset(QueryPool(i), tx.amount, total_supply)]
           messages == <<TransferMsg(tx.sender, 0, refund[0]),
                         TransferMsg(tx.sender, 1, refund[1]), Burn(tx.amount)>>
<1>1. /\ \A i \in Assets : refund[i] # None
      /\ AccumulatePrices(QueryPools)
      /\ Returns(messages, tx.sender, NoSurplus)
  BY DEF HandleWithdraw
<1>2. \A i \in Assets : refund[i] \in Nat
  BY <1>1, MultiplyRatioType DEF ShareInAsset, TimesDecimal, Optional, Assumptions
<1> HIDE DEF refund
<1>3. /\ TransferMsg(tx.sender, 0, refund[0]) \in Transfers
      /\ TransferMsg(tx.sender, 1, refund[1]) \in Transfers
  BY <1>2 DEF TransferMsg, Transfers, Assets
<1>4. Burn(tx.amount) \in Burns /\ Burn(tx.amount).amount = tx.amount
  BY DEF Burn, Burns
<1>5. \A m \in Transfers : m.kind # "burn"
  BY DEF Transfers
<1>6. messages \in Seq(Messages) /\ Len(messages) = 3
  BY <1>3, <1>4 DEF Messages
<1>7. LastBurns(messages, escrow)
  BY <1>3, <1>4, <1>5 DEF LastBurns
<1>8. Returns(messages, tx.sender, NoSurplus) /\ AccumulatePrices(QueryPools)
  BY <1>1
<1>9. Len(messages) > 0 /\ messages \in Seq(Messages)
  BY <1>6
<1> HIDE DEF messages
<1> QED
  BY <1>7, <1>8, <1>9, ReturnsKeepsInv, NoSurplusType

LEMMA HandleReceiveKeepsInv ==
    ASSUME Assumptions, TxInv, HandleReceive
    PROVE  TxInv'
<1>1. /\ tx \in Receipts
      /\ escrow = IF tx.caller = LpToken THEN tx.amount ELSE 0
  BY StageFacts DEF HandleReceive, TxInv
<1>2. tx.sender \in Accounts /\ tx.receiver \in Accounts /\ tx.amount \in Nat
  BY <1>1 DEF Receipts
<1>3. CASE tx.caller \in Assets /\ HandleOffer(tx.caller, NoFunds)
  <2>1. NoFunds \in [Infos -> Nat] /\ escrow = 0
    BY <1>1, <1>3 DEF NoFunds, Assets, LpToken
  <2> QED
    BY <1>2, <1>3, <2>1, HandleOfferKeepsInv
<1>4. CASE tx.caller = LpToken /\ HandleWithdraw
  BY <1>1, <1>2, <1>4, HandleWithdrawKeepsInv
<1> QED
  BY <1>3, <1>4 DEF HandleReceive

-----------------------------------------------------------------------------
(* The ledgers.                                                            *)

(* The message that is next, and what the others burn after it.            *)
LEMMA NextMessageFacts ==
    ASSUME TxInv, Running("dispatch")
    PROVE  /\ tx \in Answers
           /\ Len(tx.messages) > 0
           /\ Head(tx.messages) \in Messages
           /\ Tail(tx.messages) \in Seq(Messages)
           /\ Head(tx.messages).kind = "burn" =>
                Head(tx.messages).amount = escrow /\ Tail(tx.messages) = <<>>
           /\ Head(tx.messages).kind # "burn" =>
                \/ escrow = 0 /\ NoBurn(Tail(tx.messages))
                \/ LastBurns(Tail(tx.messages), escrow)
<1> DEFINE ms == tx.messages
<1>1. /\ tx \in Answers /\ Len(ms) > 0
      /\ (NoBurn(ms) /\ escrow = 0) \/ LastBurns(ms, escrow)
  BY StageFacts DEF TxInv
<1>2. ms \in Seq(Messages)
  BY <1>1 DEF Answers
<1> HIDE DEF ms
<1>3. /\ Head(ms) = ms[1] /\ ms[1] \in Messages
      /\ Tail(ms) \in Seq(Messages)
      /\ Len(Tail(ms)) = Len(ms) - 1
      /\ \A k \in 1 .. Len(Tail(ms)) : Tail(ms)[k] = ms[k + 1] /\ k + 1 \in 1 .. Len(ms)
      /\ Len(ms) \in Nat
  BY <1>1, <1>2
<1>4. CASE NoBurn(ms) /\ escrow = 0
  BY <1>1, <1>3, <1>4 DEF NoBurn, ms
<1>5. CASE LastBurns(ms, escrow)
  <2>1. CASE Len(ms) = 1
    <3>1. Head(ms) \in Burns /\ Head(ms).amount = escrow /\ Tail(ms) = <<>>
      BY <1>2, <1>3, <1>5, <2>1 DEF LastBurns
    <3>2. Head(ms).kind = "burn"
      BY <3>1 DEF Burns
    <3> QED
      BY <1>1, <1>3, <3>1, <3>2 DEF ms
  <2>2. CASE Len(ms) > 1
    <3>1. Head(ms).kind # "burn"
      BY <1>3, <1>5, <2>2 DEF LastBurns
    <3>2. LastBurns(Tail(ms), escrow)
      BY <1>3, <1>5, <2>2 DEF LastBurns
    <3> QED
      BY <1>1, <1>3, <3>1, <3>2 DEF ms
  <2> QED
    BY <1>1, <1>3, <2>1, <2>2
<1> QED
  BY <1>1, <1>4, <1>5

LEMMA DispatchedKeepsInv ==
    ASSUME Assumptions, TxInv, Running("dispatch"), Dispatched,
           reserve' \in [Assets -> Nat], wallet' \in [Accounts -> [Assets -> Nat]],
           lp' \in [Accounts -> Nat], total_supply' \in U128,
           escrow' = IF Head(tx.messages).kind = "burn" THEN escrow - Head(tx.messages).amount
                     ELSE escrow
    PROVE  TxInv'
<1> DEFINE rest == Tail(tx.messages)
           stage == IF rest = <<>> THEN "settled" ELSE "dispatch"
<1>1. /\ tx' = [tx EXCEPT !.messages = rest, !.stage = stage]
      /\ UNCHANGED <<oracleVars, saved, calls, ampVars>>
  BY DEF Dispatched
<1>2. /\ tx \in Answers
      /\ rest \in Seq(Messages)
      /\ Head(tx.messages).kind = "burn" => escrow' = 0 /\ rest = <<>>
      /\ Head(tx.messages).kind # "burn" =>
           escrow' = escrow /\ ((escrow = 0 /\ NoBurn(rest)) \/ LastBurns(rest, escrow))
      /\ escrow \in Nat
  BY NextMessageFacts DEF TxInv
<1>3. /\ tx' \in Answers /\ tx'.stage = stage /\ tx'.messages = rest
  BY <1>1, <1>2 DEF Answers
<1> HIDE DEF rest
<1>4. (escrow' = 0 /\ NoBurn(rest)) \/ LastBurns(rest, escrow')
  <2>1. NoBurn(<<>>)
    BY DEF NoBurn
  <2> QED
    BY <1>2, <2>1
<1>5. escrow' \in Nat
  BY <1>2
<1>6. EscrowIs(escrow)'
  <2>1. CASE rest = <<>>
    <3>1. escrow' = 0
      BY <1>4, <2>1 DEF LastBurns
    <3> QED
      BY <1>3, <2>1, <3>1 DEF EscrowIs
  <2>2. CASE rest # <<>>
    <3>1. Len(rest) > 0
      BY <1>2, <2>2
    <3> QED
      BY <1>3, <1>4, <2>2, <3>1 DEF EscrowIs
  <2> QED
    BY <2>1, <2>2
<1>7. PairTypeOK'
  BY <1>1 DEF TxInv, PairTypeOK, LedgerTypeOK, AmpTypeOK, ampVars, oracleVars
<1>8. StoreOK(saved)'
  BY <1>1 DEF TxInv, StoreOK, ampVars
<1> QED
  BY <1>5, <1>6, <1>7, <1>8 DEF TxInv

LEMMA DispatchKeepsInv ==
    ASSUME Assumptions, TxInv,
           DispatchTransferFrom \/ DispatchTransfer \/ DispatchMint \/ DispatchBurn
    PROVE  TxInv'
<1> DEFINE m == Head(tx.messages)
<1>1. Running("dispatch") /\ m \in Messages
  <2>1. Running("dispatch")
    BY DEF DispatchTransferFrom, DispatchTransfer, DispatchMint, DispatchBurn, NextMessage
  <2> QED
    BY <2>1, NextMessageFacts
<1>2. /\ m.kind \in {"transfer_from", "transfer"} =>
           m.account \in Accounts /\ m.asset \in Assets /\ m.amount \in Nat
      /\ m.kind = "mint" => m.account \in Accounts /\ m.amount \in Nat
      /\ m.kind = "burn" => m.amount \in Nat
  BY <1>1 DEF Messages, Transfers, Mints, Burns
<1>3. /\ reserve \in [Assets -> Nat] /\ wallet \in [Accounts -> [Assets -> Nat]]
      /\ lp \in [Accounts -> Nat] /\ total_supply \in U128
      /\ total_supply \in Nat /\ MaxU128 \in Nat
  BY DEF TxInv, PairTypeOK, LedgerTypeOK, U128, Assumptions, MathAssumption
<1>4. CASE DispatchTransferFrom
  <2>1. /\ m.kind = "transfer_from"
        /\ wallet[m.account][m.asset] >= m.amount
        /\ wallet' = [wallet EXCEPT ![m.account][m.asset] = @ - m.amount]
        /\ reserve' = [reserve EXCEPT ![m.asset] = @ + m.amount]
        /\ UNCHANGED <<lp, total_supply, escrow>> /\ Dispatched
    BY <1>4 DEF DispatchTransferFrom, NextMessage
  <2>2. m.account \in Accounts /\ m.asset \in Assets /\ m.amount \in Nat
    BY <1>2, <2>1
  <2> HIDE DEF m
  <2>3. wallet' \in [Accounts -> [Assets -> Nat]]
    <3>1. wallet[m.account][m.asset] - m.amount \in Nat
      BY <1>3, <2>1, <2>2
    <3> QED
      BY <1>3, <2>1, <2>2, <3>1
  <2>4. reserve' \in [Assets -> Nat]
    BY <1>3, <2>1, <2>2
  <2> QED
    BY <1>1, <1>3, <2>1, <2>3, <2>4, DispatchedKeepsInv DEF m
<1>5. CASE DispatchTransfer
  <2>1. /\ m.kind = "transfer"
        /\ reserve[m.asset] >= m.amount
        /\ wallet' = [wallet EXCEPT ![m.account][m.asset] = @ + m.amount]
        /\ reserve' = [reserve EXCEPT ![m.asset] = @ - m.amount]
        /\ UNCHANGED <<lp, total_supply, escrow>> /\ Dispatched
    BY <1>5 DEF DispatchTransfer, NextMessage
  <2> HIDE DEF m
  <2>2. wallet' \in [Accounts -> [Assets -> Nat]]
    <3>1. wallet[m.account][m.asset] + m.amount \in Nat
      BY <1>2, <1>3, <2>1
    <3> QED
      BY <1>2, <1>3, <2>1, <3>1
  <2>3. reserve' \in [Assets -> Nat]
    <3>1. reserve[m.asset] - m.amount \in Nat
      BY <1>2, <1>3, <2>1
    <3> QED
      BY <1>2, <1>3, <2>1, <3>1
  <2> QED
    BY <1>1, <1>3, <2>1, <2>2, <2>3, DispatchedKeepsInv DEF m
<1>6. CASE DispatchMint
  <2>1. /\ m.kind = "mint"
        /\ total_supply + m.amount \in U128
        /\ lp' = [lp EXCEPT ![m.account] = @ + m.amount]
        /\ total_supply' = total_supply + m.amount
        /\ UNCHANGED <<reserve, wallet, escrow>> /\ Dispatched
    BY <1>6 DEF DispatchMint, NextMessage
  <2> HIDE DEF m
  <2>2. lp' \in [Accounts -> Nat]
    BY <1>2, <1>3, <2>1
  <2> QED
    BY <1>1, <1>3, <2>1, <2>2, DispatchedKeepsInv DEF m
<1>7. CASE DispatchBurn
  <2>1. /\ m.kind = "burn"
        /\ total_supply >= m.amount
        /\ escrow' = escrow - m.amount
        /\ total_supply' = total_supply - m.amount
        /\ UNCHANGED <<reserve, wallet, lp>> /\ Dispatched
    BY <1>7 DEF DispatchBurn, NextMessage
  <2> HIDE DEF m
  <2>2. total_supply' \in U128
    BY <1>2, <1>3, <2>1 DEF U128
  <2> QED
    BY <1>1, <1>3, <2>1, <2>2, DispatchedKeepsInv DEF m
<1> QED
  BY <1>4, <1>5, <1>6, <1>7

-----------------------------------------------------------------------------
(* The end of a transaction, and what lies between two.                    *)

LEMMA CommitKeepsInv ==
    ASSUME TxInv, Commit
    PROVE  TxInv'
<1>1. escrow = 0
  BY StageFacts DEF TxInv, Commit
<1>2. UNCHANGED <<pairVars, escrow, saved>> /\ tx' = Idle
  BY DEF Commit
<1> QED
  BY <1>1, <1>2 DEF TxInv, EscrowIs, PairTypeOK, AmpTypeOK, LedgerTypeOK, StoreOK,
                    pairVars, ampVars, ledgerVars, oracleVars

LEMMA FailKeepsInv ==
    ASSUME TxInv, Fail
    PROVE  TxInv'
<1>1. /\ reserve' = saved.reserve /\ wallet' = saved.wallet /\ lp' = saved.lp
      /\ total_supply' = saved.total_supply /\ block_time_last' = saved.block_time_last
      /\ price_cumulative_last' = saved.price_cumulative_last
      /\ escrow' = saved.escrow /\ tx' = Idle
      /\ UNCHANGED <<saved, ampVars>>
  BY DEF Fail
<1>2. PairTypeOK' /\ StoreOK(saved)' /\ escrow' = 0
  BY <1>1 DEF TxInv, StoreOK, PairTypeOK, AmpTypeOK, LedgerTypeOK, ampVars
<1> QED
  BY <1>1, <1>2 DEF TxInv, EscrowIs

LEMMA SingleMessageIsPairStep ==
    ASSUME SingleMessage
    PROVE  PairNext
  BY DEF SingleMessage, PairNext

LEMMA SingleMessageKeepsInv ==
    ASSUME Assumptions, TxInv, SingleMessage
    PROVE  TxInv'
<1>1. tx = Idle /\ escrow = 0
  BY StageFacts DEF TxInv, SingleMessage
<1>2. UNCHANGED <<escrow, tx, saved>>
  BY DEF SingleMessage
<1>3. AmpTypeOK /\ AmpTypeOK' /\ PairTypeOK /\ LedgerTypeOK
  BY SingleMessageIsPairStep, PairStepIsAmpStep, AmpTypeStep
     DEF TxInv, PairTypeOK, Assumptions
<1>4. now \in Nat /\ now' \in Nat
  BY <1>3 DEF AmpTypeOK, Assumptions, AmpAssumption
<1>5. ASSUME UNCHANGED <<ledgerVars, oracleVars>>, now' >= now
      PROVE  LedgerTypeOK'
  <2>1. /\ reserve' = reserve /\ wallet' = wallet /\ lp' = lp
        /\ total_supply' = total_supply /\ block_time_last' = block_time_last
        /\ price_cumulative_last' = price_cumulative_last
    BY <1>5 DEF ledgerVars, oracleVars
  <2> QED
    BY <1>3, <1>4, <1>5, <2>1 DEF LedgerTypeOK
<1>6. ASSUME NEW sender \in Accounts, UpdateConfig(sender)
      PROVE  LedgerTypeOK' /\ now' >= now
  <2>1. UNCHANGED <<ledgerVars, oracleVars>> /\ now' = now
    BY <1>6 DEF UpdateConfig, StartChangingAmp, StopChangingAmp, RampFrom
  <2> QED
    BY <1>4, <1>5, <2>1
<1>7. ASSUME NEW sender \in Accounts, Donation(sender)
      PROVE  LedgerTypeOK' /\ now' >= now
  <2>1. PICK i \in Assets, amount \in DonateAmounts : Donate(sender, i, amount)
    BY <1>7 DEF Donation
  <2>2. amount \in Nat
    BY DEF Assumptions, PairAssumption
  <2>3. now' = now
    BY <2>1 DEF Donate, ampVars
  <2> QED
    BY <1>3, <1>4, <2>1, <2>2, <2>3, DonateStep
<1>8. ASSUME NEW sender \in Accounts, LpCall(sender)
      PROVE  LedgerTypeOK' /\ now' >= now
  <2>1. now' = now
    BY <1>8 DEF LpCall, TransferLp, BurnLp, ampVars
  <2> QED
    BY <1>3, <1>4, <1>8, <2>1, LpStep
<1>9. ASSUME NextBlock
      PROVE  LedgerTypeOK' /\ now' >= now
  <2>1. UNCHANGED <<ledgerVars, oracleVars>> /\ now' >= now
    BY <1>4, <1>9 DEF NextBlock, Tick
  <2> QED
    BY <1>5, <2>1
<1>10. LedgerTypeOK' /\ now' >= now
  BY <1>6, <1>7, <1>8, <1>9 DEF SingleMessage
<1>11. StoreOK(saved)'
  BY <1>2, <1>4, <1>10 DEF TxInv, StoreOK
<1> QED
  BY <1>1, <1>2, <1>3, <1>10, <1>11 DEF TxInv, EscrowIs, PairTypeOK

-----------------------------------------------------------------------------
LEMMA TxInvInit ==
    ASSUME Assumptions, TxInit
    PROVE  TxInv
<1>1. PairInv /\ escrow = 0 /\ tx = Idle /\ saved = Store
  BY PairInvInit DEF TxInit
<1>2. StoreOK(Store)
  BY <1>1, StoreIsOK DEF PairInv
<1> QED
  BY <1>1, <1>2 DEF TxInv, EscrowIs, PairInv

LEMMA TxInvStep ==
    ASSUME Assumptions, TxInv, [TxNext]_txVars
    PROVE  TxInv'
<1>1. CASE UNCHANGED txVars
  BY <1>1 DEF TxInv, PairTypeOK, AmpTypeOK, LedgerTypeOK, StoreOK, EscrowIs,
              txVars, pairVars, ampVars, ledgerVars, oracleVars
<1>2. CASE TxNext
  BY <1>2, SubmitKeepsInv, HandleProvideKeepsInv, HandleSwapKeepsInv, HandleReceiveKeepsInv,
     DispatchKeepsInv, CommitKeepsInv, FailKeepsInv, SingleMessageKeepsInv DEF TxNext
<1> QED
  BY <1>1, <1>2

THEOREM TxInvariant == TxSpec => []TxInv
<1>1. TxInit => TxInv
  BY TxInvInit, AssumptionsHold
<1>2. TxInv /\ [TxNext]_txVars => TxInv'
  BY TxInvStep, AssumptionsHold
<1> QED
  BY <1>1, <1>2, PTL DEF TxSpec

(* The types of the ledgers and of the oracle hold after every message of  *)
(* every transaction: no transfer, mint or burn that the pair asks for     *)
(* drives a balance below zero or the supply out of 128 bits, whatever the *)
(* callers sent with the call.                                             *)
THEOREM TxTypeCorrect == TxSpec => []PairTypeOK
  BY TxInvariant, PTL DEF TxInv

(* A withdrawal's LP tokens never stay with the pair: whichever call they  *)
(* were sent with, they are burnt or returned when it is over.             *)
THEOREM NothingStaysInEscrow == TxSpec => []NothingInEscrow
<1>1. TxInv => NothingInEscrow
  BY StageFacts DEF TxInv, NothingInEscrow
<1> QED
  BY <1>1, TxInvariant, PTL

-----------------------------------------------------------------------------
LEMMA TxStepIsAmpStep ==
    ASSUME [TxNext]_txVars
    PROVE  [AmpNext]_ampVars
<1>1. CASE UNCHANGED txVars
  BY <1>1 DEF txVars, pairVars
<1>2. ASSUME NEW sender \in Accounts, Submit(sender)
      PROVE  UNCHANGED ampVars
  <2>1. \A call : Begins(call) => UNCHANGED ampVars
    BY DEF Begins
  <2>2. \A receiver, infos, amounts, funds :
           SubmitProvide(sender, receiver, infos, amounts, funds) => UNCHANGED ampVars
    BY <2>1 DEF SubmitProvide
  <2>3. \A receiver, info, amount, funds, belief_price, max_spread :
           SubmitSwap(sender, receiver, info, amount, funds, belief_price, max_spread)
             => UNCHANGED ampVars
    BY <2>1 DEF SubmitSwap
  <2>4. \A receiver, i, amount, hook, belief_price, max_spread :
           /\ SendAsset(sender, receiver, i, amount, hook, belief_price, max_spread)
                => UNCHANGED ampVars
           /\ SendLp(sender, receiver, amount, hook, belief_price, max_spread)
                => UNCHANGED ampVars
           /\ ForgeReceive(sender, receiver, amount, hook, belief_price, max_spread)
                => UNCHANGED ampVars
    BY <2>1 DEF SendAsset, SendLp, ForgeReceive
  <2> QED
    BY <1>2, <2>2, <2>3, <2>4, Zenon DEF Submit
<1>3. CASE HandleProvide \/ HandleSwap \/ HandleReceive
  <2>1. \E messages, sender, surplus : Returns(messages, sender, surplus)
    BY <1>3, Zenon DEF HandleProvide, HandleSwap, HandleReceive, HandleOffer, HandleWithdraw
  <2> QED
    BY <2>1 DEF Returns
<1>4. CASE DispatchTransferFrom \/ DispatchTransfer \/ DispatchMint \/ DispatchBurn
  BY <1>4 DEF DispatchTransferFrom, DispatchTransfer, DispatchMint, DispatchBurn, Dispatched
<1>5. CASE Commit
  BY <1>5 DEF Commit, pairVars
<1>6. CASE Fail
  BY <1>6 DEF Fail
<1>7. CASE SingleMessage
  BY <1>7, SingleMessageIsPairStep, PairStepIsAmpStep
<1> QED
  BY <1>1, <1>2, <1>3, <1>4, <1>5, <1>6, <1>7 DEF TxNext

(* Seen message by message the pair still implements AmpRamp, so all that  *)
(* AmpRamp_proofs says of the amplification holds in the middle of a call. *)
THEOREM TxImplementsAmpRamp == TxSpec => AmpSpec
<1>1. TxInit => AmpInit
  BY DEF TxInit, PairInit
<1>2. [TxNext]_txVars => [AmpNext]_ampVars
  BY TxStepIsAmpStep
<1> QED
  BY <1>1, <1>2, PTL DEF TxSpec, AmpSpec

-----------------------------------------------------------------------------
(* Atomic is a second copy of Pair, whose arithmetic is the same: its      *)
(* operators on constants and on the amplification return what those of    *)
(* Pair return.                                                            *)

LEMMA SameChecked ==
    ASSUME NEW a, NEW b
    PROVE  /\ Atomic!ToU128(a) = ToU128(a)
           /\ Atomic!\oplus(a, b) = a \oplus b
           /\ Atomic!\ominus(a, b) = a \ominus b
           /\ Atomic!\otimes(a, b) = a \otimes b
           /\ Atomic!\oslash(a, b) = a \oslash b
  BY DEF Atomic!ToU128, ToU128, Atomic!U128, U128, Atomic!None, None, Atomic!\oplus, \oplus,
         Atomic!\ominus, \ominus, Atomic!\otimes, \otimes, Atomic!\oslash, \oslash

LEMMA SameRatios ==
    ASSUME NEW a, NEW b, NEW c
    PROVE  /\ Atomic!MultiplyRatio(a, b, c) = MultiplyRatio(a, b, c)
           /\ Atomic!TimesDecimal(a, b) = TimesDecimal(a, b)
           /\ Atomic!DecimalRatio(a, b) = DecimalRatio(a, b)
           /\ Atomic!SaturatingSub(a, b) = SaturatingSub(a, b)
           /\ Atomic!Greater(a, b) = Greater(a, b)
           /\ Atomic!AdjustPrecision(a, b, c) = AdjustPrecision(a, b, c)
<1>1. \A x, y, z : Atomic!MultiplyRatio(x, y, z) = MultiplyRatio(x, y, z)
  BY SameChecked DEF Atomic!MultiplyRatio, MultiplyRatio
<1>2. Atomic!AdjustPrecision(a, b, c) = AdjustPrecision(a, b, c)
  BY SameChecked DEF Atomic!AdjustPrecision, AdjustPrecision
<1> QED
  BY <1>1, <1>2 DEF Atomic!TimesDecimal, TimesDecimal, Atomic!DecimalRatio, DecimalRatio,
                    Atomic!SaturatingSub, SaturatingSub, Atomic!Greater, Greater

LEMMA SameNewton ==
    ASSUME NEW step, NEW first
    PROVE  Atomic!Newton(step, first) = Newton(step, first)
  BY SMT DEF Atomic!Newton, Newton, Atomic!ITERATIONS, ITERATIONS, Atomic!None, None

LEMMA SameImproveD ==
    ASSUME NEW leverage, NEW a, NEW b, NEW d
    PROVE  Atomic!ImproveD(leverage, a, b, d) = ImproveD(leverage, a, b, d)
  BY SameChecked DEF Atomic!ImproveD, ImproveD, Atomic!DProduct, DProduct,
                     Atomic!CalculateStep, CalculateStep, Atomic!N_COINS, N_COINS

LEMMA SameD ==
    ASSUME NEW leverage, NEW a, NEW b
    PROVE  /\ Atomic!ComputeD(leverage, a, b) = ComputeD(leverage, a, b)
           /\ Atomic!ComputeNewBalance(leverage, a, b) = ComputeNewBalance(leverage, a, b)
<1>1. Atomic!ComputeD(leverage, a, b) = ComputeD(leverage, a, b)
  BY SameChecked, SameNewton, SameImproveD DEF Atomic!ComputeD, ComputeD, Atomic!None, None
<1>2. Atomic!ComputeNewBalance(leverage, a, b) = ComputeNewBalance(leverage, a, b)
  BY SameChecked, SameNewton
     DEF Atomic!ComputeNewBalance, ComputeNewBalance, Atomic!None, None,
         Atomic!N_COINS_SQUARED, N_COINS_SQUARED
<1> QED
  BY <1>1, <1>2

LEMMA SameSwap ==
    ASSUME NEW op, NEW pp, NEW ap, NEW qp, NEW amount, NEW amp
    PROVE  /\ Atomic!CalcAskAmount(op, ap, amount, amp) = CalcAskAmount(op, ap, amount, amp)
           /\ Atomic!ComputeSwap(op, pp, ap, qp, amount, amp)
                = ComputeSwap(op, pp, ap, qp, amount, amp)
<1>1. \A x, y, z, l : Atomic!CalcAskAmount(x, y, z, l) = CalcAskAmount(x, y, z, l)
  BY SameChecked, SameD
     DEF Atomic!CalcAskAmount, CalcAskAmount, Atomic!Leverage, Leverage, Atomic!N_COINS, N_COINS
<1>2. Atomic!GlobalFee = GlobalFee
  BY SameRatios DEF Atomic!GlobalFee, GlobalFee
<1> QED
  BY <1>1, <1>2, SameChecked, SameRatios
     DEF Atomic!ComputeSwap, ComputeSwap, Atomic!None, None

LEMMA SameLimits ==
    /\ \A quote : Atomic!Void(quote) <=> Void(quote)
    /\ \A b, m, o, r, s : Atomic!WithinMaxSpread(b, m, o, r, s) <=> WithinMaxSpread(b, m, o, r, s)
    /\ \A v : Atomic!IntegerSqrt(v) = IntegerSqrt(v)
    /\ \A p, a, t : Atomic!ShareInAsset(p, a, t) = ShareInAsset(p, a, t)
    /\ Atomic!None = None /\ Atomic!U128 = U128 /\ Atomic!Assets = Assets
    /\ \A i : Atomic!Other(i) = Other(i)
<1>1. \A quote : Atomic!Void(quote) <=> Void(quote)
  BY DEF Atomic!Void, Void, Atomic!None, None
<1>2. \A b, m, o, r, s : Atomic!WithinMaxSpread(b, m, o, r, s) <=> WithinMaxSpread(b, m, o, r, s)
  BY SameChecked, SameRatios DEF Atomic!WithinMaxSpread, WithinMaxSpread, Atomic!None, None
<1>3. \A v : Atomic!IntegerSqrt(v) = IntegerSqrt(v)
  BY DEF Atomic!IntegerSqrt, IntegerSqrt, Atomic!U128, U128
<1>4. \A p, a, t : Atomic!ShareInAsset(p, a, t) = ShareInAsset(p, a, t)
  BY SameRatios DEF Atomic!ShareInAsset, ShareInAsset
<1>5. Atomic!None = None /\ Atomic!U128 = U128 /\ Atomic!Assets = Assets
  BY DEF Atomic!None, None, Atomic!U128, U128, Atomic!Assets, Assets
<1>6. \A i : Atomic!Other(i) = Other(i)
  BY DEF Atomic!Other, Other
<1> QED
  BY <1>1, <1>2, <1>3, <1>4, <1>5, <1>6

LEMMA SameAmp == Atomic!CurrentAmp = CurrentAmp
  BY DEF Atomic!CurrentAmp, CurrentAmp, Atomic!Covered, Covered

LEMMA SamePrecision ==
    /\ Atomic!GreaterPrecision = GreaterPrecision
    /\ Atomic!OraclePrecision = OraclePrecision
    /\ \A p, i, q : Atomic!Adjusted(p, i, q) = Adjusted(p, i, q)
<1>1. Atomic!GreaterPrecision = GreaterPrecision
  BY SameRatios DEF Atomic!GreaterPrecision, GreaterPrecision
<1>2. Atomic!OraclePrecision = OraclePrecision
  BY <1>1, SameRatios DEF Atomic!OraclePrecision, OraclePrecision
<1>3. \A p, i, q : Atomic!Adjusted(p, i, q) = Adjusted(p, i, q)
  BY SameRatios DEF Atomic!Adjusted, Adjusted
<1> QED
  BY <1>1, <1>2, <1>3

LEMMA SameQuotes ==
    /\ \A p, i, a : Atomic!Simulation(p, i, a) = Simulation(p, i, a)
    /\ \A p, i, a : Atomic!Without(p, i, a) = Without(p, i, a)
    /\ \A p, i, s : Atomic!PriceTimesElapsed(p, i, s) = PriceTimesElapsed(p, i, s)
    /\ \A a, b : Atomic!WrappingAdd(a, b) = WrappingAdd(a, b)
    /\ \A p, d : Atomic!Evaluated(p, d) = Evaluated(p, d)
<1>1. \A p, i, a : Atomic!Simulation(p, i, a) = Simulation(p, i, a)
  BY SameSwap, SameAmp, SameLimits DEF Atomic!Simulation, Simulation
<1>2. \A p, i, a : Atomic!Without(p, i, a) = Without(p, i, a)
  BY DEF Atomic!Without, Without
<1>3. \A p, i, s, l : Atomic!PriceTimes(p, i, s, l) = PriceTimes(p, i, s, l)
  BY SameChecked, SameRatios, SameSwap, SamePrecision, SameLimits
     DEF Atomic!PriceTimes, PriceTimes
<1>4. \A p, i, s : Atomic!PriceTimesElapsed(p, i, s) = PriceTimesElapsed(p, i, s)
  BY <1>3, SameAmp DEF Atomic!PriceTimesElapsed, PriceTimesElapsed
<1>5. \A a, b : Atomic!WrappingAdd(a, b) = WrappingAdd(a, b)
  BY DEF Atomic!WrappingAdd, WrappingAdd
<1>6. \A p, d : Atomic!Evaluated(p, d) = Evaluated(p, d)
  <2> SUFFICES ASSUME NEW p, NEW d PROVE Atomic!Evaluated(p, d) = Evaluated(p, d)
    OBVIOUS
  <2> DEFINE optimal == [i \in Assets |-> MultiplyRatio(p[i], d[Other(i)], p[Other(i)])]
             copy == [i \in Atomic!Assets |->
                         Atomic!MultiplyRatio(p[i], d[Atomic!Other(i)], p[Atomic!Other(i)])]
  <2>1. copy = optimal
    BY SameRatios, SameLimits
  <2>2. Atomic!Assets = Assets /\ Atomic!None = None
    BY SameLimits
  <2>3. /\ Evaluated(p, d) =
             IF CurrentAmp # MINIMUM_AMP \/ \E i \in Assets : p[i] = 0 THEN d
             ELSE IF None \in {optimal[0], optimal[1]} THEN [i \in Assets |-> None]
             ELSE IF d[1] > optimal[1] THEN [d EXCEPT ![1] = optimal[1]]
             ELSE IF d[0] > optimal[0] THEN [d EXCEPT ![0] = optimal[0]]
             ELSE d
    BY Zenon DEF Evaluated
  <2>4. /\ Atomic!Evaluated(p, d) =
             IF Atomic!CurrentAmp # MINIMUM_AMP \/ \E i \in Atomic!Assets : p[i] = 0 THEN d
             ELSE IF Atomic!None \in {copy[0], copy[1]} THEN [i \in Atomic!Assets |-> Atomic!None]
             ELSE IF d[1] > copy[1] THEN [d EXCEPT ![1] = copy[1]]
             ELSE IF d[0] > copy[0] THEN [d EXCEPT ![0] = copy[0]]
             ELSE d
    BY Zenon DEF Atomic!Evaluated
  <2> HIDE DEF optimal, copy
  <2> QED
    BY <2>1, <2>2, <2>3, <2>4, SameAmp
<1> QED
  BY <1>1, <1>2, <1>4, <1>5, <1>6

(* Share and AccumulatePrices read and write the state: what they do with  *)
(* a supply and an oracle that are given.                                  *)
ShareAt(supply, pools, deposits) ==
    LET p == [i \in Assets |-> Adjusted(pools, i, GreaterPrecision)]
        d == [i \in Assets |-> Adjusted(deposits, i, GreaterPrecision)]
        sum == [i \in Assets |-> ToU128(p[i] \oplus d[i])]
        before == ComputeD(Leverage(CurrentAmp), p[0], p[1])
        after == ComputeD(Leverage(CurrentAmp), sum[0], sum[1])
    IN  IF None \in {d[0], d[1]} THEN None
        ELSE IF supply = 0
        THEN AdjustPrecision(ToU128(IntegerSqrt(d[0] * d[1])), GreaterPrecision, LP_PRECISION)
        ELSE MultiplyRatio(supply, after \ominus before, before)

OracleMoves(pools, last, saved_prices, next, next_prices) ==
    IF now <= last
    THEN next = last /\ next_prices = saved_prices
    ELSE /\ \A i \in Assets : Adjusted(pools, i, OraclePrecision) # None
         /\ next = now
         /\ IF \E i \in Assets : pools[i] = 0
            THEN next_prices = saved_prices
            ELSE LET gain == [i \in Assets |-> PriceTimesElapsed(pools, i, last)]
                 IN  /\ \A i \in Assets : gain[i] # None
                     /\ next_prices = [i \in Assets |-> WrappingAdd(saved_prices[i], gain[i])]

LEMMA ShareOfSupply ==
    ASSUME NEW pools, NEW deposits
    PROVE  /\ Share(pools, deposits) = ShareAt(total_supply, pools, deposits)
           /\ Atomic!Share(pools, deposits) = ShareAt(Committed.total_supply, pools, deposits)
<1>1. Share(pools, deposits) = ShareAt(total_supply, pools, deposits)
  BY DEF Share, ShareAt
<1>2. \A l : Atomic!Leverage(l) = Leverage(l)
  BY DEF Atomic!Leverage, Leverage, Atomic!N_COINS, N_COINS
<1>3. Atomic!Share(pools, deposits) = ShareAt(Committed.total_supply, pools, deposits)
  BY <1>2, SameChecked, SameRatios, SameD, SameLimits, SameAmp, SamePrecision
     DEF Atomic!Share, ShareAt
<1> QED
  BY <1>1, <1>3

LEMMA OracleOfPools ==
    ASSUME NEW pools
    PROVE  /\ AccumulatePrices(pools) <=>
                OracleMoves(pools, block_time_last, price_cumulative_last,
                            block_time_last', price_cumulative_last')
           /\ Atomic!AccumulatePrices(pools) <=>
                OracleMoves(pools, Committed.block_time_last, Committed.price_cumulative_last,
                            Committed'.block_time_last, Committed'.price_cumulative_last)
<1>1. AccumulatePrices(pools) <=>
                OracleMoves(pools, block_time_last, price_cumulative_last,
                            block_time_last', price_cumulative_last')
  BY DEF AccumulatePrices, OracleMoves, oracleVars
<1>2. Atomic!AccumulatePrices(pools) <=>
                OracleMoves(pools, Committed.block_time_last, Committed.price_cumulative_last,
                            Committed'.block_time_last, Committed'.price_cumulative_last)
  BY SameLimits, SamePrecision, SameQuotes
     DEF Atomic!AccumulatePrices, OracleMoves, Atomic!oracleVars
<1> QED
  BY <1>1, <1>2

-----------------------------------------------------------------------------
(* The invariant of the refinement: how the state of a running transaction *)
(* has come out of the one it began with.  Of a call that has begun only   *)
(* the coins or tokens that came along have moved.  Once its handler has   *)
(* returned, what was computed is on record in the messages, the tests     *)
(* held of the state before the call, and of the effects those are still   *)
(* missing whose messages have not been carried out.                       *)

(* The assets that came from sender's wallet since the call began.         *)
Moved(sender, amounts) ==
    /\ \A i \in Assets : saved.wallet[sender][i] >= amounts[i]
    /\ wallet = [saved.wallet EXCEPT ![sender] = [i \in Assets |-> @[i] - amounts[i]]]
    /\ reserve = [i \in Assets |-> saved.reserve[i] + amounts[i]]

SharesAsBefore == lp = saved.lp /\ total_supply = saved.total_supply

OracleAsBefore ==
    /\ block_time_last = saved.block_time_last
    /\ price_cumulative_last = saved.price_cumulative_last

DepositBegun ==
    /\ tx.amounts \in [1 .. 2 -> ProvideAmounts]
    /\ \A i \in Assets : ~IsNative[i] => tx.funds[i] = 0
    /\ Moved(tx.sender, tx.funds)
    /\ SharesAsBefore

OfferBegun ==
    /\ tx.amount \in SwapAmounts
    /\ \A i \in Assets : i # tx.offer => tx.funds[i] \in {0} \cup DonateAmounts
    /\ Moved(tx.sender, tx.funds)
    /\ SharesAsBefore

TokensSent ==
    /\ tx.caller \in Assets
    /\ tx.amount \in SwapAmounts \ {0}
    /\ Moved(tx.sender, [NoFunds EXCEPT ![tx.caller] = tx.amount])
    /\ SharesAsBefore

LpSent ==
    /\ tx.caller = LpToken
    /\ tx.amount # 0
    /\ tx.amount \in WithdrawAmounts \cup {saved.lp[tx.sender]}
    /\ saved.lp[tx.sender] >= tx.amount
    /\ lp = [saved.lp EXCEPT ![tx.sender] = @ - tx.amount]
    /\ reserve = saved.reserve /\ wallet = saved.wallet /\ total_supply = saved.total_supply

(* The state a call finds when what it carried too much counts already.    *)
Before == Donated(saved, tx.sender, tx.surplus)

OracleMoved(pools) ==
    OracleMoves(pools, saved.block_time_last, saved.price_cumulative_last,
                block_time_last, price_cumulative_last)

(* What has been done of amounts, when only the assets in done were.       *)
Part(done, amounts) == [i \in Assets |-> IF i \in done THEN amounts[i] ELSE 0]

ShareFor(deposits) == ShareAt(saved.total_supply, saved.reserve, Evaluated(saved.reserve, deposits))

DepositAccepted(deposits) ==
    /\ \E i \in Assets : deposits[i] # 0
    /\ \A i \in Assets : deposits[i] # 0 \/ saved.reserve[i] # 0
    /\ ShareFor(deposits) \notin {None, 0}
    /\ OracleMoved(saved.reserve)
    /\ tx.surplus = NoSurplus

DepositMessages(receiver, deposits, done) ==
    LET fetch(i) == TransferFrom(tx.sender, i, deposits[i])
        mint == Mint(receiver, ShareFor(deposits))
    IN  \/ done = {} /\ tx.messages = <<fetch(0), fetch(1), mint>>
        \/ done = {0} /\ tx.messages = <<fetch(1), mint>>
        \/ done = {1} /\ tx.messages = <<fetch(0), mint>>
        \/ done = Assets /\ tx.messages = <<mint>>

Depositing ==
    \E receiver \in Accounts, deposits \in [Assets -> ProvideAmounts], done \in SUBSET Assets :
        /\ DepositAccepted(deposits)
        /\ Moved(tx.sender, Part(done, deposits))
        /\ SharesAsBefore
        /\ DepositMessages(receiver, deposits, done)

Deposited ==
    \E receiver \in Accounts, deposits \in [Assets -> ProvideAmounts] :
        /\ DepositAccepted(deposits)
        /\ Moved(tx.sender, deposits)
        /\ total_supply = saved.total_supply + ShareFor(deposits)
        /\ lp = [saved.lp EXCEPT ![receiver] = @ + ShareFor(deposits)]

Payout(i, amount) == Simulation(Before.reserve, i, amount).return_amount
WithOffer(i, amount) == [Before.reserve EXCEPT ![i] = @ + amount]
OfferTaken(i, amount) == [Before.wallet EXCEPT ![tx.sender][i] = @ - amount]

OfferAccepted(i, amount, belief_price, max_spread) ==
    LET quote == Simulation(Before.reserve, i, amount)
    IN  /\ IsNative[i] \/ amount # 0
        /\ Before.wallet[tx.sender][i] >= amount
        /\ ~Void(quote)
        /\ WithinMaxSpread(belief_price, max_spread, amount,
                           quote.return_amount + quote.commission_amount, quote.spread_amount)
        /\ OracleMoved(Before.reserve)
        /\ SharesAsBefore

Swapping ==
    \E receiver \in Accounts, i \in Assets, amount \in SwapAmounts,
       belief_price \in BeliefPrices, max_spread \in MaxSpreads :
        /\ OfferAccepted(i, amount, belief_price, max_spread)
        /\ reserve = WithOffer(i, amount)
        /\ wallet = OfferTaken(i, amount)
        /\ tx.messages = <<TransferMsg(receiver, Other(i), Payout(i, amount))>>

Swapped ==
    \E receiver \in Accounts, i \in Assets, amount \in SwapAmounts,
       belief_price \in BeliefPrices, max_spread \in MaxSpreads :
        /\ OfferAccepted(i, amount, belief_price, max_spread)
        /\ Payout(i, amount) # 0
        /\ Payout(i, amount) <= WithOffer(i, amount)[Other(i)]
        /\ reserve = [WithOffer(i, amount) EXCEPT ![Other(i)] = @ - Payout(i, amount)]
        /\ wallet = [OfferTaken(i, amount) EXCEPT ![receiver][Other(i)] = @ + Payout(i, amount)]

Refund(amount) == [i \in Assets |-> ShareInAsset(saved.reserve[i], amount, saved.total_supply)]

WithdrawalAccepted(amount) ==
    /\ amount # 0
    /\ saved.lp[tx.sender] >= amount
    /\ \A i \in Assets : Refund(amount)[i] # None
    /\ OracleMoved(saved.reserve)
    /\ lp = [saved.lp EXCEPT ![tx.sender] = @ - amount]
    /\ tx.surplus = NoSurplus

Refunded(amount, done) ==
    LET paid == Part(done, Refund(amount))
    IN  /\ \A i \in done : paid[i] # 0 /\ paid[i] <= saved.reserve[i]
        /\ reserve = [i \in Assets |-> saved.reserve[i] - paid[i]]
        /\ wallet = [saved.wallet EXCEPT ![tx.sender] = [i \in Assets |-> @[i] + paid[i]]]

WithdrawalMessages(amount, done) ==
    LET pay(i) == TransferMsg(tx.sender, i, Refund(amount)[i])
    IN  \/ done = {} /\ tx.messages = <<pay(0), pay(1), Burn(amount)>>
        \/ done = {0} /\ tx.messages = <<pay(1), Burn(amount)>>
        \/ done = Assets /\ tx.messages = <<Burn(amount)>>

Withdrawing ==
    \E amount \in WithdrawAmounts \cup {saved.lp[tx.sender]}, done \in SUBSET Assets :
        /\ WithdrawalAccepted(amount)
        /\ Refunded(amount, done)
        /\ total_supply = saved.total_supply
        /\ WithdrawalMessages(amount, done)

Withdrawn ==
    \E amount \in WithdrawAmounts \cup {saved.lp[tx.sender]} :
        /\ WithdrawalAccepted(amount)
        /\ Refunded(amount, Assets)
        /\ saved.total_supply >= amount
        /\ total_supply = saved.total_supply - amount

(* What came along too much is a donation that sender could make.          *)
SurplusDonated ==
    \/ tx.surplus = NoSurplus
    \/ \E i \in Assets, amount \in DonateAmounts \ {0} :
          /\ tx.surplus = [NoSurplus EXCEPT ![i] = amount]
          /\ saved.wallet[tx.sender][i] >= amount

SavedWhole ==
    saved = [reserve |-> saved.reserve, wallet |-> saved.wallet, lp |-> saved.lp,
             total_supply |-> saved.total_supply, block_time_last |-> saved.block_time_last,
             price_cumulative_last |-> saved.price_cumulative_last, escrow |-> saved.escrow]

PlanInv ==
    /\ SavedWhole
    /\ Running("provide") => DepositBegun /\ OracleAsBefore
    /\ Running("swap") => OfferBegun /\ OracleAsBefore
    /\ Running("receive") => (TokensSent \/ LpSent \/ tx.caller = Forger) /\ OracleAsBefore
    /\ Running("dispatch") => SurplusDonated /\ (Depositing \/ Swapping \/ Withdrawing)
    /\ Running("settled") => SurplusDonated /\ (Deposited \/ Swapped \/ Withdrawn)

(* How a call begins.                                                      *)

LEMMA BeginsSaves ==
    ASSUME NEW call, Begins(call)
    PROVE  /\ tx' = call /\ saved' = Store
           /\ SavedWhole'
           /\ OracleAsBefore'
<1>1. tx' = call /\ saved' = Store /\ UNCHANGED oracleVars
  BY DEF Begins
<1>2. SavedWhole'
  BY <1>1 DEF SavedWhole, Store
<1>3. OracleAsBefore'
  BY <1>1 DEF OracleAsBefore, Store, oracleVars
<1> QED
  BY <1>1, <1>2, <1>3

LEMMA BankMovesMoved ==
    ASSUME NEW sender, NEW funds, saved' = Store, BankMoves(sender, funds)
    PROVE  Moved(sender, funds)' /\ SharesAsBefore'
  BY DEF BankMoves, Moved, SharesAsBefore, Store

(* Of the coins that come with a call only coins count, and more of a coin *)
(* than was stated is an amount that somebody might donate.                *)
LEMMA FundsForFacts ==
    ASSUME NEW stated \in [Infos -> Nat], NEW funds \in FundsFor(stated), Assumptions
    PROVE  /\ \A i \in Assets : ~IsNative[i] => funds[i] = 0
           /\ \A i \in Assets : stated[i] = 0 => funds[i] \in {0} \cup DonateAmounts
<1> DEFINE coins == [info \in Infos |-> IF NativeInfo(info) THEN stated[info] ELSE 0]
           natives == {i \in Assets : IsNative[i]}
<1>1. funds \in {coins, NoFunds} \cup
        {[coins EXCEPT ![info] = @ + amount] : info \in natives, amount \in DonateAmounts}
  BY DEF FundsFor
<1>2. Assets \subseteq Infos /\ DonateAmounts \subseteq Nat /\ natives \subseteq Assets
  BY DEF Infos, Assumptions, PairAssumption
<1>3. /\ \A i \in Assets : ~IsNative[i] => coins[i] = 0 /\ i \notin natives
      /\ \A i \in Assets : stated[i] = 0 => coins[i] = 0
      /\ \A i \in Assets : NoFunds[i] = 0
      /\ coins \in [Infos -> Nat]
  <2>1. \A i \in Assets : ~IsNative[i] => ~NativeInfo(i)
    BY DEF NativeInfo, Foreign, Assets
  <2> QED
    BY <1>2, <2>1 DEF NoFunds
<1> HIDE DEF coins, natives
<1>4. CASE funds \in {coins, NoFunds}
  BY <1>3, <1>4
<1>5. CASE funds \notin {coins, NoFunds}
  <2>1. PICK info \in natives, amount \in DonateAmounts : funds = [coins EXCEPT ![info] = @ + amount]
    BY <1>1, <1>5
  <2>2. \A i \in Assets : funds[i] = IF i = info THEN coins[i] + amount ELSE coins[i]
    BY <1>2, <1>3, <2>1
  <2> QED
    BY <1>2, <1>3, <2>1, <2>2
<1> QED
  BY <1>4, <1>5

LEMMA SubmitKeepsPlan ==
    ASSUME Assumptions, TxInv, NEW sender \in Accounts, Submit(sender)
    PROVE  PlanInv'
<1>1. /\ ProvideAmounts \subseteq Nat /\ SwapAmounts \subseteq Nat /\ WithdrawAmounts \subseteq Nat
      /\ NoFunds \in [Infos -> Nat] /\ Assets \subseteq Infos
      /\ \A i \in Infos : NoFunds[i] = 0
  BY DEF Assumptions, PairAssumption, NoFunds, Infos
<1>2. PICK receiver \in Accounts :
        \/ \E infos \in [1 .. 2 -> Infos], amounts \in [1 .. 2 -> ProvideAmounts] :
              \E funds \in FundsFor([info \in Infos |->
                     IF info = infos[1] THEN amounts[1]
                     ELSE IF info = infos[2] THEN amounts[2] ELSE 0]) :
                 SubmitProvide(sender, receiver, infos, amounts, funds)
        \/ \E belief_price \in BeliefPrices, max_spread \in MaxSpreads :
              \/ \E info \in Infos, amount \in SwapAmounts :
                    \E funds \in FundsFor([NoFunds EXCEPT ![info] = amount]) :
                       SubmitSwap(sender, receiver, info, amount, funds, belief_price, max_spread)
              \/ \E i \in Assets, amount \in SwapAmounts, hook \in Hooks :
                    SendAsset(sender, receiver, i, amount, hook, belief_price, max_spread)
              \/ \E amount \in WithdrawAmounts \cup {lp[sender]}, hook \in Hooks :
                    \/ SendLp(sender, receiver, amount, hook, belief_price, max_spread)
                    \/ ForgeReceive(sender, receiver, amount, hook, belief_price, max_spread)
  BY DEF Submit, Hooks
<1>3. ASSUME NEW infos \in [1 .. 2 -> Infos], NEW amounts \in [1 .. 2 -> ProvideAmounts],
             NEW funds \in FundsFor([info \in Infos |->
                     IF info = infos[1] THEN amounts[1]
                     ELSE IF info = infos[2] THEN amounts[2] ELSE 0]),
             SubmitProvide(sender, receiver, infos, amounts, funds)
      PROVE  PlanInv'
  <2> DEFINE call == [stage |-> "provide", sender |-> sender, receiver |-> receiver,
                      infos |-> infos, amounts |-> amounts, funds |-> funds]
             stated == [info \in Infos |-> IF info = infos[1] THEN amounts[1]
                                           ELSE IF info = infos[2] THEN amounts[2] ELSE 0]
  <2>1. Begins(call) /\ BankMoves(sender, funds)
    BY <1>3 DEF SubmitProvide
  <2>2. stated \in [Infos -> Nat]
    <3>1. amounts \in [1 .. 2 -> Nat]
      BY <1>1
    <3> QED
      BY <3>1
  <2>3. \A i \in Assets : ~IsNative[i] => funds[i] = 0
    BY <2>2, FundsForFacts
  <2>4. /\ call.stage = "provide" /\ call.sender = sender /\ call.amounts = amounts
        /\ call.funds = funds
    OBVIOUS
  <2> HIDE DEF call, stated
  <2>5. tx' = call /\ SavedWhole' /\ OracleAsBefore' /\ Moved(sender, funds)' /\ SharesAsBefore'
    BY <2>1, BeginsSaves, BankMovesMoved
  <2> QED
    BY <2>3, <2>4, <2>5 DEF PlanInv, DepositBegun, Running
<1>4. ASSUME NEW belief_price \in BeliefPrices, NEW max_spread \in MaxSpreads,
             NEW info \in Infos, NEW amount \in SwapAmounts,
             NEW funds \in FundsFor([NoFunds EXCEPT ![info] = amount]),
             SubmitSwap(sender, receiver, info, amount, funds, belief_price, max_spread)
      PROVE  PlanInv'
  <2> DEFINE call == [stage |-> "swap", sender |-> sender, receiver |-> receiver, offer |-> info,
                      amount |-> amount, funds |-> funds,
                      belief_price |-> belief_price, max_spread |-> max_spread]
             stated == [NoFunds EXCEPT ![info] = amount]
  <2>1. Begins(call) /\ BankMoves(sender, funds)
    BY <1>4 DEF SubmitSwap
  <2>2. stated \in [Infos -> Nat] /\ \A i \in Assets : i # info => stated[i] = 0
    BY <1>1
  <2>3. \A i \in Assets : i # info => funds[i] \in {0} \cup DonateAmounts
    BY <2>2, FundsForFacts
  <2>4. /\ call.stage = "swap" /\ call.sender = sender /\ call.amount = amount
        /\ call.funds = funds /\ call.offer = info
    OBVIOUS
  <2> HIDE DEF call, stated
  <2>5. tx' = call /\ SavedWhole' /\ OracleAsBefore' /\ Moved(sender, funds)' /\ SharesAsBefore'
    BY <2>1, BeginsSaves, BankMovesMoved
  <2> QED
    BY <2>3, <2>4, <2>5 DEF PlanInv, OfferBegun, Running
<1>5. ASSUME NEW belief_price \in BeliefPrices, NEW max_spread \in MaxSpreads,
             NEW i \in Assets, NEW amount \in SwapAmounts, NEW hook \in Hooks,
             SendAsset(sender, receiver, i, amount, hook, belief_price, max_spread)
      PROVE  PlanInv'
  <2> DEFINE call == Hook(i, sender, receiver, amount, hook, belief_price, max_spread)
             funds == [NoFunds EXCEPT ![i] = amount]
  <2>1. Begins(call) /\ BankMoves(sender, funds) /\ amount # 0
    BY <1>5 DEF SendAsset
  <2>2. /\ call.stage = "receive" /\ call.sender = sender /\ call.amount = amount
        /\ call.caller = i
    BY DEF Hook
  <2> HIDE DEF call
  <2>3. tx' = call /\ SavedWhole' /\ OracleAsBefore' /\ Moved(sender, funds)' /\ SharesAsBefore'
    BY <2>1, BeginsSaves, BankMovesMoved
  <2> QED
    BY <2>1, <2>2, <2>3 DEF PlanInv, TokensSent, Running
<1>6. ASSUME NEW belief_price \in BeliefPrices, NEW max_spread \in MaxSpreads,
             NEW amount \in WithdrawAmounts \cup {lp[sender]}, NEW hook \in Hooks,
             SendLp(sender, receiver, amount, hook, belief_price, max_spread)
      PROVE  PlanInv'
  <2> DEFINE call == Hook(LpToken, sender, receiver, amount, hook, belief_price, max_spread)
  <2>1. /\ Begins(call) /\ amount # 0
        /\ lp[sender] >= amount
        /\ lp' = [lp EXCEPT ![sender] = @ - amount]
        /\ UNCHANGED <<reserve, wallet, total_supply>>
    BY <1>6 DEF SendLp
  <2>2. /\ call.stage = "receive" /\ call.sender = sender /\ call.amount = amount
        /\ call.caller = LpToken
    BY DEF Hook
  <2> HIDE DEF call
  <2>3. tx' = call /\ SavedWhole' /\ OracleAsBefore' /\ saved' = Store
    BY <2>1, BeginsSaves
  <2>4. LpSent'
    BY <2>1, <2>2, <2>3 DEF LpSent, Store
  <2> QED
    BY <2>2, <2>3, <2>4 DEF PlanInv, Running
<1>7. ASSUME NEW belief_price \in BeliefPrices, NEW max_spread \in MaxSpreads,
             NEW amount \in WithdrawAmounts \cup {lp[sender]}, NEW hook \in Hooks,
             ForgeReceive(sender, receiver, amount, hook, belief_price, max_spread)
      PROVE  PlanInv'
  <2> DEFINE call == Hook(Forger, sender, receiver, amount, hook, belief_price, max_spread)
  <2>1. Begins(call)
    BY <1>7 DEF ForgeReceive
  <2>2. call.stage = "receive" /\ call.caller = Forger
    BY DEF Hook
  <2> HIDE DEF call
  <2>3. tx' = call /\ SavedWhole' /\ OracleAsBefore'
    BY <2>1, BeginsSaves
  <2> QED
    BY <2>2, <2>3 DEF PlanInv, Running
<1> QED
  BY <1>2, <1>3, <1>4, <1>5, <1>6, <1>7

(* The handlers.                                                           *)

(* While a transaction runs, neither time nor the amplification moves:     *)
(* what a handler has computed can be computed again.                      *)
LEMMA FrozenQuotes ==
    ASSUME UNCHANGED ampVars
    PROVE  /\ CurrentAmp' = CurrentAmp
           /\ \A p, i, a : Simulation(p, i, a)' = Simulation(p, i, a)
           /\ \A p, d : Evaluated(p, d)' = Evaluated(p, d)
           /\ \A s, p, d : ShareAt(s, p, d)' = ShareAt(s, p, d)
           /\ \A p, l, c, n, m : OracleMoves(p, l, c, n, m)' <=> OracleMoves(p, l, c, n, m)
<1>1. CurrentAmp' = CurrentAmp /\ now' = now
  BY DEF CurrentAmp, ampVars
<1>2. \A p, i, a : Simulation(p, i, a)' = Simulation(p, i, a)
  BY <1>1 DEF Simulation
<1>3. \A p, d : Evaluated(p, d)' = Evaluated(p, d)
  BY <1>1 DEF Evaluated
<1>4. \A s, p, d : ShareAt(s, p, d)' = ShareAt(s, p, d)
  BY <1>1 DEF ShareAt
<1>5. \A p, l, c, n, m : OracleMoves(p, l, c, n, m)' <=> OracleMoves(p, l, c, n, m)
  BY <1>1 DEF OracleMoves, PriceTimesElapsed
<1> QED
  BY <1>1, <1>2, <1>3, <1>4, <1>5

LEMMA FrozenPlans ==
    ASSUME UNCHANGED <<ampVars, saved>>, tx'.sender = tx.sender, tx'.surplus = tx.surplus
    PROVE  /\ Before' = Before
           /\ \A d : ShareFor(d)' = ShareFor(d)
           /\ \A i, a : Payout(i, a)' = Payout(i, a)
           /\ \A i, a : WithOffer(i, a)' = WithOffer(i, a)
           /\ \A i, a : OfferTaken(i, a)' = OfferTaken(i, a)
           /\ \A a : Refund(a)' = Refund(a)
<1>1. Before' = Before
  BY DEF Before
<1>2. \A d : ShareFor(d)' = ShareFor(d)
  BY FrozenQuotes DEF ShareFor
<1>3. \A i, a : Payout(i, a)' = Payout(i, a)
  BY <1>1, FrozenQuotes DEF Payout
<1>4. \A i, a : WithOffer(i, a)' = WithOffer(i, a) /\ OfferTaken(i, a)' = OfferTaken(i, a)
  BY <1>1 DEF WithOffer, OfferTaken
<1>5. \A a : Refund(a)' = Refund(a)
  BY DEF Refund
<1> QED
  BY <1>1, <1>2, <1>3, <1>4, <1>5

LEMMA JoinedTwo ==
    ASSUME NEW a, NEW b
    PROVE  <<a>> \o <<b>> = <<a, b>>
<1> DEFINE S == {a, b}
           joined == <<a>> \o <<b>>
<1>1. <<a>> \in Seq(S) /\ <<b>> \in Seq(S) /\ <<a, b>> \in Seq(S)
  OBVIOUS
<1>2. Len(joined) = 2 /\ joined[1] = a /\ joined[2] = b
  BY <1>1
<1>3. joined \in Seq(S) /\ \A k \in 1 .. Len(joined) : joined[k] = <<a, b>>[k]
  BY <1>1, <1>2
<1> QED
  BY <1>1, <1>2, <1>3, SeqEqual

LEMMA JoinedThree ==
    ASSUME NEW a, NEW b, NEW c
    PROVE  <<a, b>> \o <<c>> = <<a, b, c>>
<1> DEFINE S == {a, b, c}
           joined == <<a, b>> \o <<c>>
<1>1. <<a, b>> \in Seq(S) /\ <<c>> \in Seq(S) /\ <<a, b, c>> \in Seq(S)
  OBVIOUS
<1>2. Len(joined) = 3 /\ joined[1] = a /\ joined[2] = b /\ joined[3] = c
  BY <1>1
<1>3. joined \in Seq(S) /\ \A k \in 1 .. Len(joined) : joined[k] = <<a, b, c>>[k]
  BY <1>1, <1>2
<1> QED
  BY <1>1, <1>2, <1>3, SeqEqual

LEMMA Joined ==
    ASSUME NEW b, NEW c
    PROVE  /\ <<>> \o <<b>> \o <<c>> = <<b, c>>
           /\ <<b>> \o <<>> \o <<c>> = <<b, c>>
           /\ <<>> \o <<>> \o <<c>> = <<c>>
<1>1. <<>> \o <<b>> = <<b>> /\ <<b>> \o <<>> = <<b>> /\ <<>> \o <<>> = <<>> /\ <<>> \o <<c>> = <<c>>
  OBVIOUS
<1> QED
  BY <1>1, JoinedTwo

LEMMA JoinedAll ==
    ASSUME NEW a, NEW b, NEW c, NEW s, NEW t, NEW u, s = <<a>>, t = <<b>>, u = <<c>>
    PROVE  s \o t \o u = <<a, b, c>>
<1>1. s \o t = <<a, b>>
  BY JoinedTwo
<1>2. <<a, b>> \o u = <<a, b, c>>
  BY JoinedThree
<1> QED
  BY <1>1, <1>2

(* What a handler that updates the oracle returns.                         *)
LEMMA ReturnsRecords ==
    ASSUME NEW pools, NEW messages, NEW sender, NEW surplus, OracleAsBefore, SavedWhole,
           AccumulatePrices(pools), Returns(messages, sender, surplus)
    PROVE  /\ tx' = [stage |-> "dispatch", messages |-> messages, sender |-> sender,
                     surplus |-> surplus]
           /\ UNCHANGED <<ledgerVars, saved, ampVars>>
           /\ OracleMoved(pools)'
           /\ SavedWhole'
<1>1. /\ tx' = [stage |-> "dispatch", messages |-> messages, sender |-> sender,
                surplus |-> surplus]
      /\ UNCHANGED <<ledgerVars, saved, ampVars>>
  BY DEF Returns
<1>2. OracleMoves(pools, saved.block_time_last, saved.price_cumulative_last,
                  block_time_last', price_cumulative_last')
  BY OracleOfPools DEF OracleAsBefore
<1>3. OracleMoved(pools)'
  BY <1>1, <1>2, FrozenQuotes DEF OracleMoved
<1>4. SavedWhole'
  BY <1>1 DEF SavedWhole
<1> QED
  BY <1>1, <1>3, <1>4

LEMMA HandleProvideKeepsPlan ==
    ASSUME Assumptions, TxInv, PlanInv, HandleProvide
    PROVE  PlanInv'
<1> DEFINE deposits == [i \in Assets |->
               IF tx.infos[1] = i THEN tx.amounts[1] ELSE tx.amounts[2]]
           pools == [i \in Assets |->
               QueryPool(i) - IF IsNative[i] THEN deposits[i] ELSE 0]
           share == Share(pools, Evaluated(pools, deposits))
           fetch(i) == IF IsNative[i] \/ deposits[i] = 0 THEN <<>>
                       ELSE <<TransferFrom(tx.sender, i, deposits[i])>>
           mint == Mint(tx.receiver, share)
           messages == fetch(0) \o fetch(1) \o <<mint>>
           done == {i \in Assets : IsNative[i] \/ deposits[i] = 0}
<1>1. /\ Running("provide")
      /\ \A k \in 1 .. 2 : Sent(tx.infos[k], tx.amounts[k], tx.funds)
      /\ \A i \in Assets : \E k \in 1 .. 2 : tx.infos[k] = i
      /\ \E i \in Assets : deposits[i] # 0
      /\ \A i \in Assets : deposits[i] # 0 \/ QueryPool(i) # 0
      /\ share \notin {None, 0}
      /\ AccumulatePrices(pools)
      /\ Returns(messages, tx.sender, NoSurplus)
  BY DEF HandleProvide
<1>2. /\ tx.amounts \in [1 .. 2 -> ProvideAmounts]
      /\ \A i \in Assets : ~IsNative[i] => tx.funds[i] = 0
      /\ Moved(tx.sender, tx.funds)
      /\ SharesAsBefore
      /\ OracleAsBefore /\ SavedWhole
  BY <1>1 DEF PlanInv, DepositBegun
<1>3. /\ tx.sender \in Accounts /\ tx.receiver \in Accounts /\ tx.funds \in [Infos -> Nat]
      /\ tx.infos \in [1 .. 2 -> Infos]
  BY <1>1, StageFacts DEF TxInv, Deposits
<1>4. /\ ProvideAmounts \subseteq Nat /\ Assets \subseteq Infos
      /\ saved.reserve \in [Assets -> Nat]
  BY DEF Assumptions, PairAssumption, Infos, TxInv, StoreOK
<1>5. deposits \in [Assets -> ProvideAmounts] /\ \A i \in Assets : deposits[i] \in Nat
  <2>1. tx.amounts[1] \in ProvideAmounts /\ tx.amounts[2] \in ProvideAmounts
    BY <1>2
  <2>2. deposits \in [Assets -> ProvideAmounts]
    BY <2>1
  <2> QED
    BY <1>4, <2>2
<1>6. \A i \in Assets : IsNative[i] => tx.funds[i] = deposits[i]
  <2>1. tx.infos[1] # tx.infos[2]
    BY <1>1 DEF Assets
  <2>2. \A i \in Assets : \E k \in 1 .. 2 : tx.infos[k] = i /\ deposits[i] = tx.amounts[k]
    BY <1>1, <2>1
  <2> QED
    BY <1>1, <2>2 DEF Sent, NativeInfo
<1> HIDE DEF deposits
<1>7. \A i \in Assets : reserve[i] = saved.reserve[i] + tx.funds[i] /\ tx.funds[i] \in Nat
  BY <1>2, <1>3, <1>4 DEF Moved
<1>8. pools = saved.reserve
  <2>1. \A i \in Assets : pools[i] = saved.reserve[i]
    BY <1>2, <1>4, <1>5, <1>6, <1>7 DEF QueryPool
  <2> QED
    BY <1>4, <2>1
<1>9. share = ShareFor(deposits)
  BY <1>2, <1>8, ShareOfSupply DEF ShareFor, SharesAsBefore
<1>10. \A i \in Assets : deposits[i] # 0 \/ saved.reserve[i] # 0
  <2> SUFFICES ASSUME NEW i \in Assets, deposits[i] = 0
               PROVE  saved.reserve[i] # 0
    OBVIOUS
  <2>1. reserve[i] # 0
    BY <1>1 DEF QueryPool
  <2>2. tx.funds[i] = 0
    BY <1>2, <1>6
  <2> QED
    BY <1>4, <1>7, <2>1, <2>2
<1>11. Moved(tx.sender, Part(done, deposits))
  <2>1. \A i \in Assets : Part(done, deposits)[i] = tx.funds[i]
    BY <1>2, <1>6 DEF Part
  <2> QED
    BY <1>2, <2>1 DEF Moved
<1> HIDE DEF pools, share
<1>12. /\ fetch(0) = IF 0 \in done THEN <<>> ELSE <<TransferFrom(tx.sender, 0, deposits[0])>>
       /\ fetch(1) = IF 1 \in done THEN <<>> ELSE <<TransferFrom(tx.sender, 1, deposits[1])>>
       /\ done \in SUBSET Assets
  BY DEF Assets
<1> HIDE DEF fetch, done
<1>13. \/ /\ done = {}
          /\ messages = <<TransferFrom(tx.sender, 0, deposits[0]),
                          TransferFrom(tx.sender, 1, deposits[1]), mint>>
       \/ done = {0} /\ messages = <<TransferFrom(tx.sender, 1, deposits[1]), mint>>
       \/ done = {1} /\ messages = <<TransferFrom(tx.sender, 0, deposits[0]), mint>>
       \/ done = Assets /\ messages = <<mint>>
  <2>1. CASE 0 \notin done /\ 1 \notin done
    <3>1. done = {}
      BY <1>12, <2>1 DEF Assets
    <3>2. /\ fetch(0) = <<TransferFrom(tx.sender, 0, deposits[0])>>
          /\ fetch(1) = <<TransferFrom(tx.sender, 1, deposits[1])>>
      BY <1>12, <2>1
    <3>3. messages = <<TransferFrom(tx.sender, 0, deposits[0]),
                       TransferFrom(tx.sender, 1, deposits[1]), mint>>
      <4>1. <<mint>> = <<mint>>
        OBVIOUS
      <4> HIDE DEF mint
      <4> QED
        BY <3>2, <4>1, JoinedAll
    <3> QED
      BY <3>1, <3>3
  <2>2. CASE 0 \in done /\ 1 \notin done
    <3>1. done = {0}
      BY <1>12, <2>2 DEF Assets
    <3>2. messages = <<TransferFrom(tx.sender, 1, deposits[1]), mint>>
      BY <1>12, <2>2, Joined
    <3> QED
      BY <3>1, <3>2
  <2>3. CASE 0 \notin done /\ 1 \in done
    <3>1. done = {1}
      BY <1>12, <2>3 DEF Assets
    <3>2. messages = <<TransferFrom(tx.sender, 0, deposits[0]), mint>>
      BY <1>12, <2>3, Joined
    <3> QED
      BY <3>1, <3>2
  <2>4. CASE 0 \in done /\ 1 \in done
    <3>1. done = Assets
      BY <1>12, <2>4 DEF Assets
    <3>2. messages = <<mint>>
      BY <1>12, <2>4, Joined
    <3> QED
      BY <3>1, <3>2
  <2> QED
    BY <2>1, <2>2, <2>3, <2>4
<1> HIDE DEF messages
<1> DEFINE Plan(sender, receiver, d, f, ms) ==
               /\ sender = tx.sender
               /\ \E i \in Assets : d[i] # 0
               /\ \A i \in Assets : d[i] # 0 \/ saved.reserve[i] # 0
               /\ ShareFor(d) \notin {None, 0}
               /\ Moved(sender, Part(f, d))
               /\ LET fetch_next(i) == TransferFrom(sender, i, d[i])
                      mint_last == Mint(receiver, ShareFor(d))
                  IN  \/ f = {} /\ ms = <<fetch_next(0), fetch_next(1), mint_last>>
                      \/ f = {0} /\ ms = <<fetch_next(1), mint_last>>
                      \/ f = {1} /\ ms = <<fetch_next(0), mint_last>>
                      \/ f = Assets /\ ms = <<mint_last>>
               /\ AccumulatePrices(saved.reserve)
               /\ Returns(ms, sender, NoSurplus)
<1>14. Plan(tx.sender, tx.receiver, deposits, done, messages)
  BY <1>1, <1>8, <1>9, <1>10, <1>11, <1>13
<1>15. PICK sender \in Accounts, receiver \in Accounts, d \in [Assets -> ProvideAmounts],
            f \in SUBSET Assets, ms \in {messages} : Plan(sender, receiver, d, f, ms)
  <2> HIDE DEF Plan
  <2> QED
    BY <1>3, <1>5, <1>12, <1>14
<1>16. /\ tx' = [stage |-> "dispatch", messages |-> ms, sender |-> sender,
                 surplus |-> NoSurplus]
       /\ UNCHANGED <<ledgerVars, saved, ampVars>>
       /\ OracleMoved(saved.reserve)'
       /\ SavedWhole'
  <2>1. \A shown : AccumulatePrices(shown) /\ Returns(ms, sender, NoSurplus) => OracleMoved(shown)'
    BY <1>2, ReturnsRecords
  <2>2. /\ tx' = [stage |-> "dispatch", messages |-> ms, sender |-> sender,
                  surplus |-> NoSurplus]
        /\ UNCHANGED <<ledgerVars, saved, ampVars>>
        /\ SavedWhole'
    BY <1>2, <1>15, ReturnsRecords
  <2> QED
    BY <1>15, <2>1, <2>2 DEF OracleMoved
<1>17. /\ tx'.stage = "dispatch" /\ tx'.messages = ms /\ tx'.sender = sender
       /\ tx'.surplus = NoSurplus /\ saved' = saved
       /\ UNCHANGED <<reserve, wallet, lp, total_supply>>
  BY <1>16 DEF ledgerVars
<1>18. ShareFor(d)' = ShareFor(d)
  BY <1>16, FrozenQuotes DEF ShareFor
<1>19. DepositAccepted(d)'
  BY <1>15, <1>16, <1>17, <1>18 DEF DepositAccepted, NoSurplus
<1>20. Moved(sender, Part(f, d))' /\ SharesAsBefore'
  BY <1>2, <1>15, <1>17 DEF Moved, SharesAsBefore, Part
<1>21. DepositMessages(receiver, d, f)'
  BY <1>15, <1>17, <1>18 DEF DepositMessages, TransferFrom, Mint
<1> HIDE DEF Plan
<1>22. Depositing'
  BY <1>17, <1>19, <1>20, <1>21 DEF Depositing
<1> QED
  BY <1>16, <1>17, <1>22 DEF PlanInv, Running, SurplusDonated, NoSurplus

(* What comes with an offer and is not offered.                            *)
Excess(offer, came) == [i \in Assets |-> IF i = offer THEN 0 ELSE came[i]]

(* The ledgers are those of before with an offer on top.                   *)
OnTop(before, sender, offer, amount) ==
    /\ before.reserve = [reserve EXCEPT ![offer] = @ - amount]
    /\ before.reserve \in [Assets -> Nat]
    /\ reserve = [before.reserve EXCEPT ![offer] = @ + amount]
    /\ before.wallet[sender][offer] >= amount
    /\ wallet = [before.wallet EXCEPT ![sender][offer] = @ - amount]

(* Before the offer came, seen from the moment when it is there: what came *)
(* along besides counts already.                                           *)
LEMMA OfferOnTop ==
    ASSUME TxInv, NEW sender \in Accounts, NEW offer \in Assets, NEW amount \in Nat,
           NEW came, \A i \in Assets : came[i] \in Nat, came[offer] = amount,
           Moved(sender, came),
           NEW before, before = Donated(saved, sender, Excess(offer, came))
    PROVE  OnTop(before, sender, offer, amount)
<1> DEFINE surplus == Excess(offer, came)
<1>1. /\ saved.reserve \in [Assets -> Nat]
      /\ saved.wallet \in [Accounts -> [Assets -> Nat]]
  BY DEF TxInv, StoreOK
<1>2. /\ \A i \in Assets : saved.wallet[sender][i] >= came[i]
      /\ wallet = [saved.wallet EXCEPT ![sender] = [i \in Assets |-> @[i] - came[i]]]
      /\ reserve = [i \in Assets |-> saved.reserve[i] + came[i]]
  BY DEF Moved
<1>3. /\ before.reserve = [i \in Assets |-> saved.reserve[i] + surplus[i]]
      /\ before.wallet = [saved.wallet EXCEPT ![sender] =
                            [i \in Assets |-> saved.wallet[sender][i] - surplus[i]]]
  BY <1>1, <1>2 DEF Donated
<1>4. \A i \in Assets : surplus[i] \in Nat /\ surplus[i] = IF i = offer THEN 0 ELSE came[i]
  BY DEF Excess
<1> HIDE DEF surplus
<1>5. /\ before.reserve = [reserve EXCEPT ![offer] = @ - amount]
      /\ before.reserve \in [Assets -> Nat]
      /\ reserve = [before.reserve EXCEPT ![offer] = @ + amount]
  <2> DEFINE r == before.reserve
  <2>1. /\ r \in [Assets -> Nat] /\ reserve \in [Assets -> Nat]
        /\ \A i \in Assets : i # offer => r[i] = reserve[i]
        /\ reserve[offer] = r[offer] + amount
    <3>1. /\ r = [i \in Assets |-> saved.reserve[i] + surplus[i]]
          /\ reserve = [i \in Assets |-> saved.reserve[i] + came[i]]
      BY <1>2, <1>3
    <3> HIDE DEF r
    <3>2. \A i \in Assets : /\ saved.reserve[i] \in Nat /\ surplus[i] \in Nat /\ came[i] \in Nat
                            /\ r[i] = saved.reserve[i] + surplus[i]
                            /\ reserve[i] = saved.reserve[i] + came[i]
      BY <1>1, <1>4, <3>1
    <3> QED
      BY <1>4, <3>1, <3>2
  <2> HIDE DEF r
  <2>2. reserve[offer] - amount = r[offer]
    BY <2>1
  <2>3. r = [reserve EXCEPT ![offer] = @ - amount]
    BY <2>1, <2>2
  <2>4. reserve = [r EXCEPT ![offer] = @ + amount]
    BY <2>1
  <2> QED
    BY <2>1, <2>3, <2>4 DEF r
<1>6. before.wallet[sender] = [i \in Assets |-> saved.wallet[sender][i] - surplus[i]]
  BY <1>1, <1>3
<1>7. before.wallet[sender][offer] = saved.wallet[sender][offer]
  BY <1>1, <1>4, <1>6
<1>8. wallet[sender] = [before.wallet[sender] EXCEPT ![offer] = @ - amount]
  <2>1. wallet[sender] = [i \in Assets |-> saved.wallet[sender][i] - came[i]]
    BY <1>1, <1>2
  <2> QED
    BY <1>1, <1>4, <1>6, <2>1
<1>9. wallet = [before.wallet EXCEPT ![sender][offer] = @ - amount]
  <2>1. wallet = [before.wallet EXCEPT ![sender] = wallet[sender]]
    BY <1>1, <1>2, <1>3
  <2> QED
    BY <1>8, <2>1
<1> QED
  BY <1>2, <1>5, <1>7, <1>9 DEF OnTop

LEMMA HandleOfferKeepsPlan ==
    ASSUME Assumptions, TxInv, SavedWhole, OracleAsBefore, SharesAsBefore,
           tx.sender \in Accounts, tx.receiver \in Accounts,
           tx.belief_price \in BeliefPrices, tx.max_spread \in MaxSpreads,
           tx.amount \in SwapAmounts,
           NEW offer \in Assets, IsNative[offer] \/ tx.amount # 0,
           NEW came, \A i \in Assets : came[i] \in Nat, came[offer] = tx.amount,
           Moved(tx.sender, came),
           NEW funds,
           \A i \in Assets : i # offer => funds[i] = came[i] /\ came[i] \in {0} \cup DonateAmounts,
           HandleOffer(offer, funds)
    PROVE  PlanInv'
<1>1. PICK sender \in Accounts, receiver \in Accounts, belief_price \in BeliefPrices,
           max_spread \in MaxSpreads, amount \in SwapAmounts :
        /\ sender = tx.sender /\ receiver = tx.receiver /\ belief_price = tx.belief_price
        /\ max_spread = tx.max_spread /\ amount = tx.amount
  OBVIOUS
<1> DEFINE surplus == Excess(offer, came)
<1>2. PICK before : before = Donated(saved, sender, surplus)
  OBVIOUS
<1>3. amount \in Nat /\ reserve \in [Assets -> Nat]
  BY DEF Assumptions, PairAssumption, TxInv, PairTypeOK, LedgerTypeOK
<1>4. /\ before.reserve = [reserve EXCEPT ![offer] = @ - amount]
      /\ before.reserve \in [Assets -> Nat]
      /\ reserve = [before.reserve EXCEPT ![offer] = @ + amount]
      /\ before.wallet[sender][offer] >= amount
      /\ wallet = [before.wallet EXCEPT ![sender][offer] = @ - amount]
  <2>1. Moved(sender, came) /\ came[offer] = amount
    BY <1>1
  <2>2. OnTop(before, sender, offer, amount)
    BY <1>2, <1>3, <2>1, OfferOnTop
  <2> QED
    BY <2>2 DEF OnTop
<1>5. Without(QueryPools, offer, amount) = before.reserve
  <2>1. QueryPools = reserve
    BY <1>3 DEF QueryPools, QueryPool
  <2> QED
    BY <1>4, <2>1 DEF Without
<1>6. [i \in Assets |-> IF i = offer THEN 0 ELSE funds[i]] = surplus
  BY DEF Excess
<1> DEFINE payout == Simulation(before.reserve, offer, amount).return_amount
<1>7. /\ ~Void(Simulation(before.reserve, offer, amount))
      /\ WithinMaxSpread(belief_price, max_spread, amount,
                         payout + Simulation(before.reserve, offer, amount).commission_amount,
                         Simulation(before.reserve, offer, amount).spread_amount)
      /\ AccumulatePrices(before.reserve)
      /\ Returns(<<TransferMsg(receiver, Other(offer), payout)>>, sender, surplus)
  BY <1>1, <1>5, <1>6 DEF HandleOffer
<1> HIDE DEF surplus
<1>8. PICK extra : extra = surplus
  OBVIOUS
<1>9. PICK paid : paid = payout
  OBVIOUS
<1>10. /\ tx' = [stage |-> "dispatch", messages |-> <<TransferMsg(receiver, Other(offer), paid)>>,
                 sender |-> sender, surplus |-> extra]
       /\ UNCHANGED <<ledgerVars, saved, ampVars>>
       /\ OracleMoved(before.reserve)'
       /\ SavedWhole'
  BY <1>7, <1>8, <1>9, ReturnsRecords
<1>11. /\ tx'.stage = "dispatch" /\ tx'.sender = sender /\ tx'.surplus = extra
       /\ tx'.messages = <<TransferMsg(receiver, Other(offer), paid)>>
       /\ saved' = saved
       /\ UNCHANGED <<reserve, wallet, lp, total_supply>>
  BY <1>10 DEF ledgerVars
<1>12. Before' = before
  BY <1>2, <1>8, <1>11 DEF Before, Donated
<1>13. \A p, i, a : Simulation(p, i, a)' = Simulation(p, i, a)
  BY <1>10, FrozenQuotes
<1>14. Simulation(Before.reserve, offer, amount)' = Simulation(before.reserve, offer, amount)
  BY <1>12, <1>13
<1>15. OfferAccepted(offer, amount, belief_price, max_spread)'
  <2>1. IsNative[offer] \/ amount # 0
    BY <1>1
  <2>2. SharesAsBefore'
    BY <1>11 DEF SharesAsBefore
  <2>3. OracleMoved(Before.reserve)'
    BY <1>10, <1>12 DEF OracleMoved
  <2> QED
    BY <1>4, <1>7, <1>11, <1>12, <1>14, <2>1, <2>2, <2>3 DEF OfferAccepted
<1>16. /\ Payout(offer, amount)' = paid
       /\ WithOffer(offer, amount)' = reserve'
       /\ OfferTaken(offer, amount)' = wallet'
  BY <1>4, <1>9, <1>11, <1>12, <1>14 DEF Payout, WithOffer, OfferTaken
<1>17. Swapping'
  BY <1>11, <1>15, <1>16 DEF Swapping, TransferMsg, Other
<1>18. SurplusDonated'
  <2>1. PICK other \in Assets : other # offer /\ \A i \in Assets : i \in {offer, other}
    BY DEF Assets
  <2>2. extra = [NoSurplus EXCEPT ![other] = came[other]]
    BY <1>8, <2>1 DEF surplus, Excess, NoSurplus
  <2>3. CASE came[other] = 0
    <3>1. extra = NoSurplus
      BY <1>8, <2>1, <2>3 DEF surplus, Excess, NoSurplus
    <3> QED
      BY <1>11, <3>1 DEF SurplusDonated, NoSurplus
  <2>4. CASE came[other] # 0
    <3>1. came[other] \in DonateAmounts \ {0} /\ saved.wallet[sender][other] >= came[other]
      BY <1>1, <2>1, <2>4 DEF Moved
    <3> QED
      BY <1>11, <2>2, <3>1 DEF SurplusDonated, NoSurplus
  <2> QED
    BY <2>3, <2>4
<1> QED
  BY <1>10, <1>11, <1>17, <1>18 DEF PlanInv, Running

LEMMA HandleSwapKeepsPlan ==
    ASSUME Assumptions, TxInv, PlanInv, HandleSwap
    PROVE  PlanInv'
<1>1. Running("swap") /\ HandleOffer(tx.offer, tx.funds) /\ NativeInfo(tx.offer)
  BY DEF HandleSwap
<1>2. tx \in Offers /\ OfferBegun /\ OracleAsBefore /\ SavedWhole
  BY <1>1, StageFacts DEF TxInv, PlanInv
<1>3. /\ tx.offer \in Assets /\ Sent(tx.offer, tx.amount, tx.funds)
  BY <1>1 DEF HandleOffer
<1>4. IsNative[tx.offer] /\ tx.funds[tx.offer] = tx.amount
  BY <1>1, <1>3 DEF NativeInfo, Assets, Foreign, Sent
<1>5. /\ \A i \in Assets : tx.funds[i] \in Nat
      /\ tx.sender \in Accounts /\ tx.receiver \in Accounts
      /\ tx.belief_price \in BeliefPrices /\ tx.max_spread \in MaxSpreads
  BY <1>2 DEF Offers, Infos
<1>6. /\ SharesAsBefore /\ tx.amount \in SwapAmounts /\ Moved(tx.sender, tx.funds)
      /\ \A i \in Assets : i # tx.offer => tx.funds[i] \in {0} \cup DonateAmounts
  BY <1>2 DEF OfferBegun
<1> QED
  BY <1>1, <1>2, <1>3, <1>4, <1>5, <1>6, HandleOfferKeepsPlan

LEMMA HandleWithdrawKeepsPlan ==
    ASSUME Assumptions, TxInv, SavedWhole, OracleAsBefore, LpSent,
           tx.sender \in Accounts, HandleWithdraw
    PROVE  PlanInv'
<1>1. PICK sender \in Accounts, amount \in WithdrawAmounts \cup {saved.lp[tx.sender]} :
        /\ sender = tx.sender /\ amount = tx.amount
  BY DEF LpSent
<1>2. /\ reserve = saved.reserve /\ wallet = saved.wallet /\ total_supply = saved.total_supply
      /\ amount # 0 /\ saved.lp[sender] >= amount
      /\ lp = [saved.lp EXCEPT ![sender] = @ - amount]
      /\ saved.reserve \in [Assets -> Nat]
      /\ saved.wallet \in [Accounts -> [Assets -> Nat]]
  BY <1>1 DEF LpSent, TxInv, StoreOK
<1>3. PICK refund : refund = Refund(amount)
  OBVIOUS
<1>4. QueryPools = saved.reserve /\ \A i \in Assets : QueryPool(i) = saved.reserve[i]
  BY <1>2 DEF QueryPools, QueryPool
<1>5. [i \in Assets |-> ShareInAsset(QueryPool(i), tx.amount, total_supply)] = refund
  BY <1>1, <1>2, <1>3, <1>4 DEF Refund
<1> DEFINE messages == <<TransferMsg(sender, 0, refund[0]),
                         TransferMsg(sender, 1, refund[1]), Burn(amount)>>
<1>6. /\ \A i \in Assets : refund[i] # None
      /\ AccumulatePrices(saved.reserve)
      /\ Returns(messages, sender, NoSurplus)
  BY <1>1, <1>4, <1>5 DEF HandleWithdraw
<1>7. PICK plan : plan = messages
  OBVIOUS
<1>8. PICK pools : pools = saved.reserve
  OBVIOUS
<1>9. /\ tx' = [stage |-> "dispatch", messages |-> plan, sender |-> sender,
                surplus |-> NoSurplus]
      /\ UNCHANGED <<ledgerVars, saved, ampVars>>
      /\ OracleMoved(pools)'
      /\ SavedWhole'
  <2> HIDE DEF messages
  <2> QED
    BY <1>6, <1>7, <1>8, ReturnsRecords
<1>10. /\ tx'.stage = "dispatch" /\ tx'.sender = sender /\ tx'.surplus = NoSurplus
       /\ tx'.messages = plan /\ saved' = saved
       /\ UNCHANGED <<reserve, wallet, lp, total_supply>>
  BY <1>9 DEF ledgerVars
<1>11. Refund(amount)' = refund
  BY <1>3, <1>10 DEF Refund
<1>12. WithdrawalAccepted(amount)'
  BY <1>2, <1>6, <1>8, <1>9, <1>10, <1>11 DEF WithdrawalAccepted, NoSurplus, OracleMoved
<1>13. Refunded(amount, {})'
  <2>1. \A i \in Assets : Part({}, Refund(amount))'[i] = 0
    BY DEF Part
  <2>2. reserve' = [i \in Assets |-> saved.reserve[i] - Part({}, Refund(amount))'[i]]
    BY <1>2, <1>10, <2>1
  <2>3. wallet' = [saved.wallet EXCEPT ![sender] =
                      [i \in Assets |-> @[i] + Part({}, Refund(amount))'[i]]]
    <3>1. saved.wallet[sender] =
             [i \in Assets |-> saved.wallet[sender][i] + Part({}, Refund(amount))'[i]]
      BY <1>2, <2>1
    <3> QED
      BY <1>2, <1>10, <3>1
  <2> QED
    BY <1>10, <2>2, <2>3 DEF Refunded
<1>14. WithdrawalMessages(amount, {})'
  BY <1>7, <1>10, <1>11 DEF WithdrawalMessages, TransferMsg, Burn
<1>15. Withdrawing'
  <2>1. amount \in (WithdrawAmounts \cup {saved.lp[tx.sender]})'
    BY <1>1, <1>10
  <2> QED
    BY <1>2, <1>10, <1>12, <1>13, <1>14, <2>1 DEF Withdrawing
<1> QED
  BY <1>9, <1>10, <1>15 DEF PlanInv, Running, SurplusDonated, NoSurplus

LEMMA HandleReceiveKeepsPlan ==
    ASSUME Assumptions, TxInv, PlanInv, HandleReceive
    PROVE  PlanInv'
<1>1. /\ tx \in Receipts /\ SavedWhole /\ OracleAsBefore
      /\ TokensSent \/ LpSent \/ tx.caller = Forger
  BY StageFacts DEF HandleReceive, TxInv, PlanInv
<1>2. /\ tx.sender \in Accounts /\ tx.receiver \in Accounts
      /\ tx.belief_price \in BeliefPrices /\ tx.max_spread \in MaxSpreads
  BY <1>1 DEF Receipts
<1>3. CASE tx.caller \in Assets /\ HandleOffer(tx.caller, NoFunds)
  <2>1. TokensSent
    BY <1>1, <1>3 DEF LpSent, Assets, LpToken, Forger
  <2> DEFINE came == [NoFunds EXCEPT ![tx.caller] = tx.amount]
  <2>2. /\ SharesAsBefore /\ tx.amount \in SwapAmounts /\ tx.amount # 0
        /\ Moved(tx.sender, came)
        /\ tx.amount \in Nat
    BY <2>1 DEF TokensSent, Assumptions, PairAssumption
  <2>3. /\ \A i \in Assets : came[i] = IF i = tx.caller THEN tx.amount ELSE 0
        /\ \A i \in Assets : NoFunds[i] = 0
    BY DEF NoFunds, Infos
  <2> HIDE DEF came
  <2> QED
    BY <1>1, <1>2, <1>3, <2>2, <2>3, HandleOfferKeepsPlan
<1>4. CASE tx.caller = LpToken /\ HandleWithdraw
  <2>1. LpSent
    BY <1>1, <1>4 DEF TokensSent, Assets, LpToken, Forger
  <2> QED
    BY <1>1, <1>2, <1>4, <2>1, HandleWithdrawKeepsPlan
<1> QED
  BY <1>3, <1>4 DEF HandleReceive

(* The ledgers.                                                            *)

LEMMA DispatchedRecords ==
    ASSUME TxInv, SavedWhole, Running("dispatch"), SurplusDonated, Dispatched
    PROVE  /\ tx'.messages = Tail(tx.messages)
           /\ tx'.stage = IF Tail(tx.messages) = <<>> THEN "settled" ELSE "dispatch"
           /\ tx'.sender = tx.sender /\ tx'.surplus = tx.surplus
           /\ UNCHANGED <<oracleVars, saved, ampVars>>
           /\ \A pools : OracleMoved(pools) => OracleMoved(pools)'
           /\ SavedWhole' /\ SurplusDonated'
<1>1. tx \in Answers
  BY NextMessageFacts
<1>2. /\ tx' = [tx EXCEPT !.messages = Tail(@),
                        !.stage = IF Tail(tx.messages) = <<>> THEN "settled" ELSE "dispatch"]
      /\ UNCHANGED <<oracleVars, saved, ampVars>>
  BY DEF Dispatched
<1>3. /\ tx'.messages = Tail(tx.messages)
      /\ tx'.stage = IF Tail(tx.messages) = <<>> THEN "settled" ELSE "dispatch"
      /\ tx'.sender = tx.sender /\ tx'.surplus = tx.surplus
  BY <1>1, <1>2 DEF Answers
<1>4. \A pools : OracleMoved(pools) => OracleMoved(pools)'
  BY <1>2, FrozenQuotes DEF OracleMoved, oracleVars
<1>5. SavedWhole' /\ SurplusDonated'
  BY <1>2, <1>3 DEF SavedWhole, SurplusDonated, NoSurplus
<1> QED
  BY <1>2, <1>3, <1>4, <1>5

LEMMA FetchMoves ==
    ASSUME TxInv, NEW sender \in Accounts, NEW amounts, \A i \in Assets : amounts[i] \in Nat,
           NEW done \in SUBSET Assets, NEW j \in Assets, j \notin done,
           Moved(sender, Part(done, amounts)),
           wallet[sender][j] >= amounts[j],
           wallet' = [wallet EXCEPT ![sender][j] = @ - amounts[j]],
           reserve' = [reserve EXCEPT ![j] = @ + amounts[j]],
           saved' = saved
    PROVE  Moved(sender, Part(done \cup {j}, amounts))'
<1> DEFINE part == Part(done, amounts)
           more == Part(done \cup {j}, amounts)
<1>1. /\ saved.reserve \in [Assets -> Nat]
      /\ saved.wallet \in [Accounts -> [Assets -> Nat]]
  BY DEF TxInv, StoreOK
<1>2. /\ \A i \in Assets : saved.wallet[sender][i] >= part[i]
      /\ wallet = [saved.wallet EXCEPT ![sender] = [i \in Assets |-> @[i] - part[i]]]
      /\ reserve = [i \in Assets |-> saved.reserve[i] + part[i]]
  BY DEF Moved
<1>3. /\ \A i \in Assets : part[i] \in Nat /\ more[i] \in Nat
      /\ \A i \in Assets : i # j => more[i] = part[i]
      /\ part[j] = 0 /\ more[j] = amounts[j]
  BY DEF Part
<1> HIDE DEF part, more
<1>4. wallet[sender] = [i \in Assets |-> saved.wallet[sender][i] - part[i]]
  BY <1>1, <1>2
<1>5. [wallet[sender] EXCEPT ![j] = @ - amounts[j]]
        = [i \in Assets |-> saved.wallet[sender][i] - more[i]]
  BY <1>1, <1>3, <1>4
<1>6. wallet' = [saved.wallet EXCEPT ![sender] =
                    [i \in Assets |-> saved.wallet[sender][i] - more[i]]]
  <2>1. wallet' = [wallet EXCEPT ![sender] = [wallet[sender] EXCEPT ![j] = @ - amounts[j]]]
    BY <1>1, <1>2
  <2> QED
    BY <1>1, <1>2, <1>5, <2>1
<1>7. reserve' = [i \in Assets |-> saved.reserve[i] + more[i]]
  <2>1. \A i \in Assets : reserve[i] = saved.reserve[i] + part[i] /\ saved.reserve[i] \in Nat
    BY <1>1, <1>2
  <2> QED
    BY <1>2, <1>3, <2>1
<1>8. \A i \in Assets : saved.wallet[sender][i] >= more[i]
  <2>1. saved.wallet[sender][j] \in Nat /\ wallet[sender][j] = saved.wallet[sender][j] - part[j]
    BY <1>1, <1>4
  <2> QED
    BY <1>2, <1>3, <2>1
<1> QED
  BY <1>6, <1>7, <1>8 DEF Moved, more, Part

LEMMA DispatchOfDeposit ==
    ASSUME Assumptions, TxInv, PlanInv, Running("dispatch"), Depositing,
           DispatchTransferFrom \/ DispatchTransfer \/ DispatchMint \/ DispatchBurn
    PROVE  \/ tx'.stage = "dispatch" /\ Depositing'
           \/ tx'.stage = "settled" /\ Deposited'
<1>1. PICK receiver \in Accounts, deposits \in [Assets -> ProvideAmounts],
           done \in SUBSET Assets :
        /\ DepositAccepted(deposits)
        /\ Moved(tx.sender, Part(done, deposits))
        /\ SharesAsBefore
        /\ DepositMessages(receiver, deposits, done)
  BY DEF Depositing
<1>2. PICK sender \in Accounts : sender = tx.sender
  BY NextMessageFacts DEF Answers
<1>3. PICK share : share = ShareFor(deposits)
  OBVIOUS
<1> DEFINE fetch(i) == TransferFrom(sender, i, deposits[i])
           mint == Mint(receiver, share)
<1>4. \/ done = {} /\ tx.messages = <<fetch(0), fetch(1), mint>>
      \/ done = {0} /\ tx.messages = <<fetch(1), mint>>
      \/ done = {1} /\ tx.messages = <<fetch(0), mint>>
      \/ done = Assets /\ tx.messages = <<mint>>
  BY <1>1, <1>2, <1>3 DEF DepositMessages
<1>5. Dispatched
  BY DEF DispatchTransferFrom, DispatchTransfer, DispatchMint, DispatchBurn
<1>6. /\ tx'.messages = Tail(tx.messages)
      /\ tx'.stage = IF Tail(tx.messages) = <<>> THEN "settled" ELSE "dispatch"
      /\ tx'.sender = sender /\ tx'.surplus = tx.surplus
      /\ saved' = saved /\ UNCHANGED <<ampVars, saved>>
      /\ \A pools : OracleMoved(pools) => OracleMoved(pools)'
  BY <1>2, <1>5, DispatchedRecords DEF PlanInv
<1>7. ShareFor(deposits)' = share
  BY <1>2, <1>3, <1>6, FrozenPlans
<1>8. DepositAccepted(deposits)'
  BY <1>1, <1>3, <1>6, <1>7 DEF DepositAccepted, NoSurplus
<1>9. \A i \in Assets : deposits[i] \in Nat
  BY DEF Assumptions, PairAssumption
<1>10. Moved(sender, Part(done, deposits))
  BY <1>1, <1>2
<1>11. ASSUME NEW j \in Assets, j \notin done, NEW rest,
              Head(tx.messages) = fetch(j), Tail(tx.messages) = rest, rest # <<>>,
              \/ done \cup {j} = {0} /\ rest = <<fetch(1), mint>>
              \/ done \cup {j} = {1} /\ rest = <<fetch(0), mint>>
              \/ done \cup {j} = Assets /\ rest = <<mint>>
       PROVE  tx'.stage = "dispatch" /\ Depositing'
  <2>1. /\ Head(tx.messages).kind = "transfer_from" /\ Head(tx.messages).account = sender
        /\ Head(tx.messages).asset = j /\ Head(tx.messages).amount = deposits[j]
    BY <1>11 DEF TransferFrom
  <2>2. DispatchTransferFrom
    BY <2>1 DEF DispatchTransfer, DispatchMint, DispatchBurn, NextMessage
  <2>3. /\ wallet[sender][j] >= deposits[j]
        /\ wallet' = [wallet EXCEPT ![sender][j] = @ - deposits[j]]
        /\ reserve' = [reserve EXCEPT ![j] = @ + deposits[j]]
        /\ UNCHANGED <<lp, total_supply>>
    BY <2>1, <2>2 DEF DispatchTransferFrom
  <2>4. Moved(sender, Part(done \cup {j}, deposits))'
    BY <1>6, <1>9, <1>10, <1>11, <2>3, FetchMoves
  <2>5. SharesAsBefore'
    BY <1>1, <1>6, <2>3 DEF SharesAsBefore
  <2>6. DepositMessages(receiver, deposits, done \cup {j})'
    BY <1>6, <1>7, <1>11 DEF DepositMessages, TransferFrom, Mint
  <2>7. Moved(tx.sender, Part(done \cup {j}, deposits))'
    BY <1>6, <2>4
  <2>8. done \cup {j} \in SUBSET Assets
    OBVIOUS
  <2>9. Depositing'
    BY <1>8, <2>5, <2>6, <2>7, <2>8 DEF Depositing
  <2> QED
    BY <1>6, <1>11, <2>9
<1>12. CASE done = {} /\ tx.messages = <<fetch(0), fetch(1), mint>>
  <2>1. Head(tx.messages) = fetch(0) /\ Tail(tx.messages) = <<fetch(1), mint>>
    BY <1>12
  <2>2. 0 \in Assets /\ 0 \notin done /\ done \cup {0} = {0} /\ <<fetch(1), mint>> # <<>>
    BY <1>12 DEF Assets
  <2> HIDE DEF fetch, mint
  <2> QED
    BY <1>11, <2>1, <2>2
<1>13. CASE done = {0} /\ tx.messages = <<fetch(1), mint>>
  <2>1. Head(tx.messages) = fetch(1) /\ Tail(tx.messages) = <<mint>>
    BY <1>13
  <2>2. 1 \in Assets /\ 1 \notin done /\ done \cup {1} = Assets /\ <<mint>> # <<>>
    BY <1>13 DEF Assets
  <2> HIDE DEF fetch, mint
  <2> QED
    BY <1>11, <2>1, <2>2
<1>14. CASE done = {1} /\ tx.messages = <<fetch(0), mint>>
  <2>1. Head(tx.messages) = fetch(0) /\ Tail(tx.messages) = <<mint>>
    BY <1>14
  <2>2. 0 \in Assets /\ 0 \notin done /\ done \cup {0} = Assets /\ <<mint>> # <<>>
    BY <1>14 DEF Assets
  <2> HIDE DEF fetch, mint
  <2> QED
    BY <1>11, <2>1, <2>2
<1>15. CASE done = Assets /\ tx.messages = <<mint>>
  <2>1. Head(tx.messages) = mint /\ Tail(tx.messages) = <<>>
    BY <1>15
  <2>2. /\ Head(tx.messages).kind = "mint" /\ Head(tx.messages).account = receiver
        /\ Head(tx.messages).amount = share
    BY <2>1 DEF Mint
  <2>3. DispatchMint
    BY <2>2 DEF DispatchTransfer, DispatchTransferFrom, DispatchBurn, NextMessage
  <2>4. /\ lp' = [lp EXCEPT ![receiver] = @ + share]
        /\ total_supply' = total_supply + share
        /\ UNCHANGED <<reserve, wallet>>
    BY <2>2, <2>3 DEF DispatchMint
  <2>5. \A i \in Assets : Part(done, deposits)[i] = deposits[i]
    BY <1>15 DEF Part
  <2>6. Moved(sender, deposits)
    BY <1>10, <2>5 DEF Moved
  <2>7. Moved(tx.sender, deposits)'
    BY <1>6, <2>4, <2>6 DEF Moved
  <2>8. /\ total_supply' = saved'.total_supply + ShareFor(deposits)'
        /\ lp' = [saved'.lp EXCEPT ![receiver] = @ + ShareFor(deposits)']
    BY <1>1, <1>6, <1>7, <2>4 DEF SharesAsBefore
  <2>9. Deposited'
    BY <1>8, <2>7, <2>8 DEF Deposited
  <2> QED
    BY <1>6, <2>1, <2>9
<1> QED
  BY <1>4, <1>12, <1>13, <1>14, <1>15

LEMMA DispatchOfSwap ==
    ASSUME Assumptions, TxInv, PlanInv, Running("dispatch"), Swapping,
           DispatchTransferFrom \/ DispatchTransfer \/ DispatchMint \/ DispatchBurn
    PROVE  tx'.stage = "settled" /\ Swapped'
<1>1. PICK receiver \in Accounts, i \in Assets, amount \in SwapAmounts,
           belief_price \in BeliefPrices, max_spread \in MaxSpreads :
        /\ OfferAccepted(i, amount, belief_price, max_spread)
        /\ reserve = WithOffer(i, amount)
        /\ wallet = OfferTaken(i, amount)
        /\ tx.messages = <<TransferMsg(receiver, Other(i), Payout(i, amount))>>
  BY DEF Swapping
<1>2. PICK payout : payout = Payout(i, amount)
  OBVIOUS
<1>3. /\ Head(tx.messages) = TransferMsg(receiver, Other(i), payout)
      /\ Tail(tx.messages) = <<>>
  BY <1>1, <1>2
<1>4. /\ Head(tx.messages).kind = "transfer" /\ Head(tx.messages).account = receiver
      /\ Head(tx.messages).asset = Other(i) /\ Head(tx.messages).amount = payout
  BY <1>3 DEF TransferMsg
<1>5. DispatchTransfer
  BY <1>4 DEF DispatchTransferFrom, DispatchMint, DispatchBurn, NextMessage
<1>6. /\ payout # 0 /\ reserve[Other(i)] >= payout
      /\ wallet' = [wallet EXCEPT ![receiver][Other(i)] = @ + payout]
      /\ reserve' = [reserve EXCEPT ![Other(i)] = @ - payout]
      /\ UNCHANGED <<lp, total_supply>>
      /\ Dispatched
  BY <1>4, <1>5 DEF DispatchTransfer
<1>7. /\ tx'.stage = "settled" /\ tx'.sender = tx.sender /\ tx'.surplus = tx.surplus
      /\ UNCHANGED <<oracleVars, saved, ampVars>> /\ UNCHANGED <<ampVars, saved>>
      /\ \A pools : OracleMoved(pools) => OracleMoved(pools)'
  BY <1>3, <1>6, DispatchedRecords DEF PlanInv
<1>8. /\ Before' = Before
      /\ Payout(i, amount)' = payout
      /\ WithOffer(i, amount)' = reserve
      /\ OfferTaken(i, amount)' = wallet
  BY <1>1, <1>2, <1>7, FrozenPlans
<1>9. Simulation(Before.reserve, i, amount)' = Simulation(Before.reserve, i, amount)
  BY <1>7, <1>8, FrozenQuotes
<1>10. OracleMoved(Before.reserve)'
  <2>1. PICK pools : pools = Before.reserve
    OBVIOUS
  <2>2. OracleMoved(pools)
    BY <1>1, <2>1 DEF OfferAccepted
  <2>3. OracleMoved(pools)'
    BY <1>7, <2>2
  <2> QED
    BY <1>8, <2>1, <2>3 DEF OracleMoved
<1>11. SharesAsBefore'
  BY <1>1, <1>6, <1>7 DEF OfferAccepted, SharesAsBefore
<1>12. OfferAccepted(i, amount, belief_price, max_spread)'
  BY <1>1, <1>7, <1>8, <1>9, <1>10, <1>11 DEF OfferAccepted
<1>13. payout <= reserve[Other(i)]
  <2>1. payout \in Nat /\ reserve[Other(i)] \in Nat
    <3>1. Head(tx.messages) \in Messages
      BY NextMessageFacts
    <3>2. Head(tx.messages).amount \in Nat
      BY <3>1 DEF Messages, Transfers, Mints, Burns
    <3> QED
      BY <1>4, <3>2 DEF TxInv, PairTypeOK, LedgerTypeOK, Assets, Other
  <2> QED
    BY <1>6, <2>1
<1>14. Swapped'
  BY <1>6, <1>8, <1>12, <1>13 DEF Swapped, Other
<1> QED
  BY <1>7, <1>14

LEMMA PaymentRefunds ==
    ASSUME TxInv, tx.sender \in Accounts, tx'.sender = tx.sender, saved' = saved,
           NEW amount, Refund(amount)' = Refund(amount),
           \A i \in Assets : Refund(amount)[i] \in Nat,
           NEW done \in SUBSET Assets, NEW j \in Assets, j \notin done,
           Refunded(amount, done),
           Refund(amount)[j] # 0, reserve[j] >= Refund(amount)[j],
           wallet' = [wallet EXCEPT ![tx.sender][j] = @ + Refund(amount)[j]],
           reserve' = [reserve EXCEPT ![j] = @ - Refund(amount)[j]]
    PROVE  Refunded(amount, done \cup {j})'
<1>1. PICK sender \in Accounts, refund \in {Refund(amount)} : sender = tx.sender
  OBVIOUS
<1> DEFINE part == Part(done, refund)
           more == Part(done \cup {j}, refund)
<1>2. /\ saved.reserve \in [Assets -> Nat]
      /\ saved.wallet \in [Accounts -> [Assets -> Nat]]
  BY DEF TxInv, StoreOK
<1>3. /\ \A i \in done : part[i] # 0 /\ part[i] <= saved.reserve[i]
      /\ reserve = [i \in Assets |-> saved.reserve[i] - part[i]]
      /\ wallet = [saved.wallet EXCEPT ![sender] = [i \in Assets |-> @[i] + part[i]]]
  BY <1>1 DEF Refunded
<1>4. /\ \A i \in Assets : part[i] \in Nat /\ more[i] \in Nat
      /\ \A i \in Assets : i # j => more[i] = part[i]
      /\ part[j] = 0 /\ more[j] = refund[j]
  BY <1>1 DEF Part
<1>5. /\ wallet' = [wallet EXCEPT ![sender][j] = @ + refund[j]]
      /\ reserve' = [reserve EXCEPT ![j] = @ - refund[j]]
      /\ refund[j] # 0 /\ reserve[j] >= refund[j]
  BY <1>1
<1> HIDE DEF part, more
<1>6. wallet[sender] = [i \in Assets |-> saved.wallet[sender][i] + part[i]]
  BY <1>2, <1>3
<1>7. [wallet[sender] EXCEPT ![j] = @ + refund[j]]
        = [i \in Assets |-> saved.wallet[sender][i] + more[i]]
  BY <1>2, <1>4, <1>6
<1>8. wallet' = [saved.wallet EXCEPT ![sender] =
                    [i \in Assets |-> saved.wallet[sender][i] + more[i]]]
  <2>1. wallet' = [wallet EXCEPT ![sender] = [wallet[sender] EXCEPT ![j] = @ + refund[j]]]
    BY <1>2, <1>3, <1>5
  <2> QED
    BY <1>2, <1>3, <1>7, <2>1
<1>9. \A i \in Assets : reserve[i] = saved.reserve[i] - part[i] /\ saved.reserve[i] \in Nat
  BY <1>2, <1>3
<1>10. reserve' = [i \in Assets |-> saved.reserve[i] - more[i]]
  BY <1>3, <1>4, <1>5, <1>9
<1>11. \A i \in done \cup {j} : more[i] # 0 /\ more[i] <= saved.reserve[i]
  BY <1>3, <1>4, <1>5, <1>9
<1>12. Part(done \cup {j}, Refund(amount))' = more
  BY <1>1 DEF more, Part
<1> QED
  BY <1>1, <1>8, <1>10, <1>11, <1>12 DEF Refunded

LEMMA RefundTypes ==
    ASSUME Assumptions, TxInv, NEW amount, WithdrawalAccepted(amount)
    PROVE  \A i \in Assets : Refund(amount)[i] \in Nat
<1> SUFFICES ASSUME NEW i \in Assets
             PROVE  Refund(amount)[i] \in Nat
  OBVIOUS
<1>1. Refund(amount)[i] # None /\ Refund(amount)[i] =
        ShareInAsset(saved.reserve[i], amount, saved.total_supply)
  BY DEF WithdrawalAccepted, Refund
<1> QED
  BY <1>1, MultiplyRatioType DEF ShareInAsset, TimesDecimal, Optional, Assumptions

LEMMA DispatchOfWithdrawal ==
    ASSUME Assumptions, TxInv, PlanInv, Running("dispatch"), Withdrawing,
           DispatchTransferFrom \/ DispatchTransfer \/ DispatchMint \/ DispatchBurn
    PROVE  \/ tx'.stage = "dispatch" /\ Withdrawing'
           \/ tx'.stage = "settled" /\ Withdrawn'
<1>1. PICK amount \in WithdrawAmounts \cup {saved.lp[tx.sender]}, done \in SUBSET Assets :
        /\ WithdrawalAccepted(amount)
        /\ Refunded(amount, done)
        /\ total_supply = saved.total_supply
        /\ WithdrawalMessages(amount, done)
  BY DEF Withdrawing
<1>2. PICK sender \in Accounts : sender = tx.sender
  BY NextMessageFacts DEF Answers
<1>3. PICK refund : refund = Refund(amount)
  OBVIOUS
<1> DEFINE pay(i) == TransferMsg(sender, i, refund[i])
<1>4. \/ done = {} /\ tx.messages = <<pay(0), pay(1), Burn(amount)>>
      \/ done = {0} /\ tx.messages = <<pay(1), Burn(amount)>>
      \/ done = Assets /\ tx.messages = <<Burn(amount)>>
  BY <1>1, <1>2, <1>3 DEF WithdrawalMessages
<1>5. Dispatched
  BY DEF DispatchTransferFrom, DispatchTransfer, DispatchMint, DispatchBurn
<1>6. /\ tx'.messages = Tail(tx.messages)
      /\ tx'.stage = IF Tail(tx.messages) = <<>> THEN "settled" ELSE "dispatch"
      /\ tx'.sender = sender /\ tx'.surplus = tx.surplus
      /\ saved' = saved /\ UNCHANGED <<ampVars, saved>>
      /\ \A pools : OracleMoved(pools) => OracleMoved(pools)'
  BY <1>2, <1>5, DispatchedRecords DEF PlanInv
<1>7. Refund(amount)' = refund
  BY <1>3, <1>6 DEF Refund
<1>8. OracleMoved(saved.reserve)'
  <2>1. PICK pools : pools = saved.reserve
    OBVIOUS
  <2>2. OracleMoved(pools)'
    BY <1>1, <1>6, <2>1 DEF WithdrawalAccepted
  <2> QED
    BY <1>6, <2>1, <2>2 DEF OracleMoved
<1>9. \A i \in Assets : refund[i] \in Nat
  BY <1>1, <1>3, RefundTypes
<1>10. ASSUME lp' = lp
       PROVE  WithdrawalAccepted(amount)'
  BY <1>1, <1>2, <1>3, <1>6, <1>7, <1>8, <1>10 DEF WithdrawalAccepted, NoSurplus
<1>11. amount \in (WithdrawAmounts \cup {saved.lp[tx.sender]})'
  BY <1>2, <1>6
<1>12. ASSUME NEW j \in Assets, j \notin done, NEW rest,
              Head(tx.messages) = pay(j), Tail(tx.messages) = rest, rest # <<>>,
              \/ done \cup {j} = {0} /\ rest = <<pay(1), Burn(amount)>>
              \/ done \cup {j} = Assets /\ rest = <<Burn(amount)>>
       PROVE  tx'.stage = "dispatch" /\ Withdrawing'
  <2>1. /\ Head(tx.messages).kind = "transfer" /\ Head(tx.messages).account = sender
        /\ Head(tx.messages).asset = j /\ Head(tx.messages).amount = refund[j]
    BY <1>12 DEF TransferMsg
  <2>2. DispatchTransfer
    BY <2>1 DEF DispatchTransferFrom, DispatchMint, DispatchBurn, NextMessage
  <2>3. /\ refund[j] # 0 /\ reserve[j] >= refund[j]
        /\ wallet' = [wallet EXCEPT ![sender][j] = @ + refund[j]]
        /\ reserve' = [reserve EXCEPT ![j] = @ - refund[j]]
        /\ UNCHANGED <<lp, total_supply>>
    BY <2>1, <2>2 DEF DispatchTransfer
  <2>4. Refunded(amount, done \cup {j})'
    BY <1>1, <1>2, <1>3, <1>6, <1>7, <1>9, <1>12, <2>3, PaymentRefunds
  <2>5. total_supply' = saved'.total_supply
    BY <1>1, <1>6, <2>3
  <2>6. WithdrawalMessages(amount, done \cup {j})'
    BY <1>6, <1>7, <1>12 DEF WithdrawalMessages, TransferMsg, Burn
  <2>7. done \cup {j} \in SUBSET Assets
    OBVIOUS
  <2>8. Withdrawing'
    BY <1>10, <1>11, <2>3, <2>4, <2>5, <2>6, <2>7 DEF Withdrawing
  <2> QED
    BY <1>6, <1>12, <2>8
<1>13. CASE done = {} /\ tx.messages = <<pay(0), pay(1), Burn(amount)>>
  <2>1. Head(tx.messages) = pay(0) /\ Tail(tx.messages) = <<pay(1), Burn(amount)>>
    BY <1>13
  <2>2. 0 \in Assets /\ 0 \notin done /\ done \cup {0} = {0} /\ <<pay(1), Burn(amount)>> # <<>>
    BY <1>13 DEF Assets
  <2> HIDE DEF pay
  <2> QED
    BY <1>12, <2>1, <2>2
<1>14. CASE done = {0} /\ tx.messages = <<pay(1), Burn(amount)>>
  <2>1. Head(tx.messages) = pay(1) /\ Tail(tx.messages) = <<Burn(amount)>>
    BY <1>14
  <2>2. 1 \in Assets /\ 1 \notin done /\ done \cup {1} = Assets /\ <<Burn(amount)>> # <<>>
    BY <1>14 DEF Assets
  <2> HIDE DEF pay
  <2> QED
    BY <1>12, <2>1, <2>2
<1>15. CASE done = Assets /\ tx.messages = <<Burn(amount)>>
  <2>1. Head(tx.messages) = Burn(amount) /\ Tail(tx.messages) = <<>>
    BY <1>15
  <2>2. Head(tx.messages).kind = "burn" /\ Head(tx.messages).amount = amount
    BY <2>1 DEF Burn
  <2>3. DispatchBurn
    BY <2>2 DEF DispatchTransfer, DispatchTransferFrom, DispatchMint, NextMessage
  <2>4. /\ total_supply >= amount
        /\ total_supply' = total_supply - amount
        /\ UNCHANGED <<reserve, wallet, lp>>
    BY <2>2, <2>3 DEF DispatchBurn
  <2>5. /\ saved'.total_supply >= amount
        /\ total_supply' = saved'.total_supply - amount
    BY <1>1, <1>6, <2>4
  <2>6. Refunded(amount, Assets)'
    BY <1>1, <1>2, <1>3, <1>6, <1>7, <1>15, <2>4 DEF Refunded, Part
  <2>7. Withdrawn'
    BY <1>10, <1>11, <2>4, <2>5, <2>6 DEF Withdrawn
  <2> QED
    BY <1>6, <2>1, <2>7
<1> QED
  BY <1>4, <1>13, <1>14, <1>15

LEMMA DispatchKeepsPlan ==
    ASSUME Assumptions, TxInv, PlanInv,
           DispatchTransferFrom \/ DispatchTransfer \/ DispatchMint \/ DispatchBurn
    PROVE  PlanInv'
<1>1. Running("dispatch") /\ Dispatched
  BY DEF DispatchTransferFrom, DispatchTransfer, DispatchMint, DispatchBurn, NextMessage
<1>2. SavedWhole /\ SurplusDonated /\ (Depositing \/ Swapping \/ Withdrawing)
  BY <1>1 DEF PlanInv
<1>3. SavedWhole' /\ SurplusDonated'
  BY <1>1, <1>2, DispatchedRecords
<1>4. \/ tx'.stage = "dispatch" /\ (Depositing \/ Swapping \/ Withdrawing)'
      \/ tx'.stage = "settled" /\ (Deposited \/ Swapped \/ Withdrawn)'
  BY <1>1, <1>2, DispatchOfDeposit, DispatchOfSwap, DispatchOfWithdrawal
<1> QED
  BY <1>3, <1>4 DEF PlanInv, Running

(* Between two transactions there is nothing to remember.                  *)
LEMMA IdlePlan ==
    ASSUME PlanInv, saved' = saved, tx' = Idle
    PROVE  PlanInv'
  BY DEF PlanInv, SavedWhole, Running, Idle

LEMMA PlanInit ==
    ASSUME TxInit
    PROVE  PlanInv
  BY DEF TxInit, PlanInv, SavedWhole, Store, Running, Idle

LEMMA PlanStep ==
    ASSUME Assumptions, TxInv, PlanInv, TxNext
    PROVE  PlanInv'
<1>1. ASSUME NEW sender \in Accounts, Submit(sender)
      PROVE  PlanInv'
  BY <1>1, SubmitKeepsPlan
<1>2. CASE HandleProvide \/ HandleSwap \/ HandleReceive
  BY <1>2, HandleProvideKeepsPlan, HandleSwapKeepsPlan, HandleReceiveKeepsPlan
<1>3. CASE DispatchTransferFrom \/ DispatchTransfer \/ DispatchMint \/ DispatchBurn
  BY <1>3, DispatchKeepsPlan
<1>4. CASE Commit
  BY <1>4, IdlePlan DEF Commit
<1>5. CASE Fail
  BY <1>5, IdlePlan DEF Fail
<1>6. CASE SingleMessage
  <2>1. tx = Idle
    BY <1>6, StageFacts DEF SingleMessage, TxInv
  <2> QED
    BY <1>6, <2>1, IdlePlan DEF SingleMessage
<1> QED
  BY <1>1, <1>2, <1>3, <1>4, <1>5, <1>6 DEF TxNext

LEMMA PlanStutter ==
    ASSUME PlanInv, UNCHANGED txVars
    PROVE  PlanInv'
<1>1. /\ UNCHANGED <<reserve, wallet, lp, total_supply, tx, saved>>
      /\ UNCHANGED ampVars /\ UNCHANGED <<ampVars, saved>> /\ UNCHANGED oracleVars
  BY DEF txVars, pairVars, ledgerVars
<1>2. /\ tx' = tx /\ saved' = saved /\ reserve' = reserve /\ wallet' = wallet /\ lp' = lp
      /\ total_supply' = total_supply /\ block_time_last' = block_time_last
      /\ price_cumulative_last' = price_cumulative_last
  BY <1>1 DEF oracleVars
<1>3. \A p, l, c, n, m : OracleMoves(p, l, c, n, m)' <=> OracleMoves(p, l, c, n, m)
  BY <1>1, FrozenQuotes
<1>4. \A pools : OracleMoved(pools)' <=> OracleMoved(pools)
  BY <1>2, <1>3 DEF OracleMoved
<1>5. /\ Before' = Before
      /\ \A d : ShareFor(d)' = ShareFor(d)
      /\ \A i, a : Payout(i, a)' = Payout(i, a) /\ WithOffer(i, a)' = WithOffer(i, a)
                   /\ OfferTaken(i, a)' = OfferTaken(i, a)
      /\ \A a : Refund(a)' = Refund(a)
      /\ \A p, i, a : Simulation(p, i, a)' = Simulation(p, i, a)
  BY <1>1, <1>2, FrozenPlans, FrozenQuotes
<1>6. \A s, a : Moved(s, a)' <=> Moved(s, a)
  BY <1>2 DEF Moved
<1>7. /\ SavedWhole' <=> SavedWhole
      /\ OracleAsBefore' <=> OracleAsBefore
      /\ SharesAsBefore' <=> SharesAsBefore
      /\ SurplusDonated' <=> SurplusDonated
  BY <1>2 DEF SavedWhole, OracleAsBefore, SharesAsBefore, SurplusDonated, NoSurplus
<1>8. /\ DepositBegun' <=> DepositBegun
      /\ OfferBegun' <=> OfferBegun
      /\ TokensSent' <=> TokensSent
      /\ LpSent' <=> LpSent
  BY <1>2, <1>7 DEF DepositBegun, OfferBegun, TokensSent, LpSent, Moved, NoFunds
<1>9. \A d : DepositAccepted(d)' <=> DepositAccepted(d)
  <2>1. OracleMoved(saved.reserve)' <=> OracleMoved(saved.reserve)
    BY <1>2, <1>4 DEF OracleMoved
  <2> QED
    BY <1>2, <1>5, <2>1 DEF DepositAccepted, NoSurplus
<1>10. Depositing' <=> Depositing
  <2>1. \A r, d, f : DepositMessages(r, d, f)' <=> DepositMessages(r, d, f)
    BY <1>2, <1>5 DEF DepositMessages, TransferFrom, Mint
  <2>2. \A f, d : Moved(tx.sender, Part(f, d))' <=> Moved(tx.sender, Part(f, d))
    BY <1>2 DEF Moved, Part
  <2> QED
    BY <1>7, <1>9, <2>1, <2>2 DEF Depositing
<1>11. Deposited' <=> Deposited
  <2>1. \A d : Moved(tx.sender, d)' <=> Moved(tx.sender, d)
    BY <1>2 DEF Moved
  <2> QED
    BY <1>2, <1>5, <1>9, <2>1 DEF Deposited
<1>12. \A i, a, b, m : OfferAccepted(i, a, b, m)' <=> OfferAccepted(i, a, b, m)
  <2>1. OracleMoved(Before.reserve)' <=> OracleMoved(Before.reserve)
    BY <1>2, <1>4, <1>5 DEF OracleMoved
  <2>2. \A i, a : Simulation(Before.reserve, i, a)' = Simulation(Before.reserve, i, a)
    BY <1>5
  <2> QED
    BY <1>2, <1>5, <1>7, <2>1, <2>2 DEF OfferAccepted
<1>13. (Swapping' <=> Swapping) /\ (Swapped' <=> Swapped)
  <2> DEFINE Taken(i, a) == reserve = WithOffer(i, a) /\ wallet = OfferTaken(i, a)
             Paying(r, i, a) == tx.messages = <<TransferMsg(r, Other(i), Payout(i, a))>>
             Paid(r, i, a) ==
                /\ Payout(i, a) # 0
                /\ Payout(i, a) <= WithOffer(i, a)[Other(i)]
                /\ reserve = [WithOffer(i, a) EXCEPT ![Other(i)] = @ - Payout(i, a)]
                /\ wallet = [OfferTaken(i, a) EXCEPT ![r][Other(i)] = @ + Payout(i, a)]
  <2>1. \A i, a : Taken(i, a)' <=> Taken(i, a)
    BY <1>2, <1>5
  <2>2. \A r, i, a : Paying(r, i, a)' <=> Paying(r, i, a)
    BY <1>2, <1>5 DEF TransferMsg, Other
  <2>3. \A r, i, a : Paid(r, i, a)' <=> Paid(r, i, a)
    <3> SUFFICES ASSUME NEW r, NEW i, NEW a PROVE Paid(r, i, a)' <=> Paid(r, i, a)
      OBVIOUS
    <3>1. Payout(i, a)' = Payout(i, a) /\ WithOffer(i, a)' = WithOffer(i, a)
          /\ OfferTaken(i, a)' = OfferTaken(i, a) /\ Other(i)' = Other(i)
      BY <1>5 DEF Other
    <3> QED
      BY <1>2, <3>1
  <2>4. Swapping <=> \E receiver \in Accounts, i \in Assets, amount \in SwapAmounts,
                        belief_price \in BeliefPrices, max_spread \in MaxSpreads :
                        /\ OfferAccepted(i, amount, belief_price, max_spread)
                        /\ Taken(i, amount) /\ Paying(receiver, i, amount)
    BY Zenon DEF Swapping
  <2>5. Swapped <=> \E receiver \in Accounts, i \in Assets, amount \in SwapAmounts,
                       belief_price \in BeliefPrices, max_spread \in MaxSpreads :
                       /\ OfferAccepted(i, amount, belief_price, max_spread)
                       /\ Paid(receiver, i, amount)
    BY Zenon DEF Swapped
  <2>6. Swapping' <=> \E receiver \in Accounts, i \in Assets, amount \in SwapAmounts,
                        belief_price \in BeliefPrices, max_spread \in MaxSpreads :
                        /\ OfferAccepted(i, amount, belief_price, max_spread)'
                        /\ Taken(i, amount)' /\ Paying(receiver, i, amount)'
    BY Zenon DEF Swapping
  <2>7. Swapped' <=> \E receiver \in Accounts, i \in Assets, amount \in SwapAmounts,
                       belief_price \in BeliefPrices, max_spread \in MaxSpreads :
                       /\ OfferAccepted(i, amount, belief_price, max_spread)'
                       /\ Paid(receiver, i, amount)'
    BY Zenon DEF Swapped
  <2> HIDE DEF Taken, Paying, Paid
  <2> QED
    BY <1>12, <2>1, <2>2, <2>3, <2>4, <2>5, <2>6, <2>7
<1>14. \A a : WithdrawalAccepted(a)' <=> WithdrawalAccepted(a)
  <2>1. OracleMoved(saved.reserve)' <=> OracleMoved(saved.reserve)
    BY <1>2, <1>4 DEF OracleMoved
  <2> QED
    BY <1>2, <1>5, <2>1 DEF WithdrawalAccepted, NoSurplus
<1>15. \A a, f : Refunded(a, f)' <=> Refunded(a, f)
  <2>1. \A a, f : Part(f, Refund(a))' = Part(f, Refund(a))
    BY <1>5 DEF Part
  <2> QED
    BY <1>2, <2>1 DEF Refunded
<1>16. (Withdrawing' <=> Withdrawing) /\ (Withdrawn' <=> Withdrawn)
  <2>1. \A a, f : WithdrawalMessages(a, f)' <=> WithdrawalMessages(a, f)
    BY <1>2, <1>5 DEF WithdrawalMessages, TransferMsg, Burn
  <2> QED
    BY <1>2, <1>14, <1>15, <2>1 DEF Withdrawing, Withdrawn
<1> QED
  BY <1>2, <1>7, <1>8, <1>10, <1>11, <1>13, <1>16 DEF PlanInv, Running

-----------------------------------------------------------------------------
(* Every step is a step of Pair or none.                                   *)

LEMMA CommittedAt ==
    /\ Running("idle") => Committed = Store
    /\ Running("settled") => Committed = Before
    /\ ~Running("idle") /\ ~Running("settled") => Committed = saved
    /\ Running("idle")' => Committed' = Store'
    /\ Running("settled")' => Committed' = Before'
    /\ ~Running("idle")' /\ ~Running("settled")' => Committed' = saved'
<1>1. Running("idle") => ~Running("settled")
  BY DEF Running
<1>2. Running("idle")' => ~Running("settled")'
  BY DEF Running
<1> QED
  BY <1>1, <1>2, Zenon DEF Committed, Before

(* A call that begins takes nothing back of what the world has seen.       *)
LEMMA SubmitUnseen ==
    ASSUME NEW sender \in Accounts, Submit(sender)
    PROVE  UNCHANGED <<Committed, ampVars>>
<1>1. \A call : Begins(call) /\ call.stage \in {"provide", "swap", "receive"}
                   => UNCHANGED <<Committed, ampVars>>
  <2> SUFFICES ASSUME NEW call, Begins(call), call.stage \in {"provide", "swap", "receive"}
               PROVE  UNCHANGED <<Committed, ampVars>>
    OBVIOUS
  <2>1. Running("idle") /\ saved' = Store /\ tx' = call /\ UNCHANGED ampVars
    BY DEF Begins
  <2>2. ~Running("idle")' /\ ~Running("settled")'
    BY <2>1 DEF Running
  <2> QED
    BY <2>1, <2>2, CommittedAt
<1>2. \A receiver, infos, amounts, funds :
         SubmitProvide(sender, receiver, infos, amounts, funds) => UNCHANGED <<Committed, ampVars>>
  BY <1>1 DEF SubmitProvide
<1>3. \A receiver, info, amount, funds, belief_price, max_spread :
         SubmitSwap(sender, receiver, info, amount, funds, belief_price, max_spread)
           => UNCHANGED <<Committed, ampVars>>
  BY <1>1 DEF SubmitSwap
<1>4. \A receiver, i, amount, hook, belief_price, max_spread :
         /\ SendAsset(sender, receiver, i, amount, hook, belief_price, max_spread)
              => UNCHANGED <<Committed, ampVars>>
         /\ SendLp(sender, receiver, amount, hook, belief_price, max_spread)
              => UNCHANGED <<Committed, ampVars>>
         /\ ForgeReceive(sender, receiver, amount, hook, belief_price, max_spread)
              => UNCHANGED <<Committed, ampVars>>
  <2>1. \A caller, receiver, amount, hook, belief_price, max_spread :
           Hook(caller, sender, receiver, amount, hook, belief_price, max_spread).stage = "receive"
    BY DEF Hook
  <2> QED
    BY <1>1, <2>1 DEF SendAsset, SendLp, ForgeReceive
<1> QED
  BY <1>2, <1>3, <1>4, Zenon DEF Submit

LEMMA HandlersUnseen ==
    ASSUME HandleProvide \/ HandleSwap \/ HandleReceive
    PROVE  UNCHANGED <<Committed, ampVars>>
<1>1. \E messages, sender, surplus : Returns(messages, sender, surplus)
  BY Zenon DEF HandleProvide, HandleSwap, HandleReceive, HandleOffer, HandleWithdraw
<1>2. tx'.stage = "dispatch" /\ saved' = saved /\ UNCHANGED ampVars
  BY <1>1 DEF Returns
<1>3. ~Running("idle") /\ ~Running("settled")
  BY DEF HandleProvide, HandleSwap, HandleReceive, Running
<1>4. ~Running("idle")' /\ ~Running("settled")'
  BY <1>2 DEF Running
<1> QED
  BY <1>2, <1>3, <1>4, CommittedAt

LEMMA DonatedFields ==
    ASSUME NEW store, NEW sender, NEW surplus, NEW re, NEW wa, NEW l, NEW s, NEW b, NEW p, NEW e,
           store = [reserve |-> re, wallet |-> wa, lp |-> l, total_supply |-> s,
                    block_time_last |-> b, price_cumulative_last |-> p, escrow |-> e]
    PROVE  Donated(store, sender, surplus) =
             [reserve |-> [i \in Assets |-> re[i] + surplus[i]],
              wallet |-> [wa EXCEPT ![sender] = [i \in Assets |-> @[i] - surplus[i]]],
              lp |-> l, total_supply |-> s,
              block_time_last |-> b, price_cumulative_last |-> p, escrow |-> e]
<1> DEFINE r == [i \in Assets |-> re[i] + surplus[i]]
           w == [wa EXCEPT ![sender] = [i \in Assets |-> @[i] - surplus[i]]]
           t == [store EXCEPT !.reserve = r, !.wallet = w]
           fields == {"reserve", "wallet", "lp", "total_supply", "block_time_last",
                      "price_cumulative_last", "escrow"}
<1>1. Donated(store, sender, surplus) = t
  <2>1. store.reserve = re /\ store.wallet = wa
    OBVIOUS
  <2> QED
    BY <2>1 DEF Donated
<1> HIDE DEF r, w
<1>2. /\ DOMAIN store = fields
      /\ store.lp = l /\ store.total_supply = s /\ store.block_time_last = b
      /\ store.price_cumulative_last = p /\ store.escrow = e
  OBVIOUS
<1>3. /\ DOMAIN t = fields
      /\ t.reserve = r /\ t.wallet = w /\ t.lp = l /\ t.total_supply = s
      /\ t.block_time_last = b /\ t.price_cumulative_last = p /\ t.escrow = e
  BY <1>2
<1>4. t = [x \in fields |-> t[x]]
  BY <1>3
<1> HIDE DEF t
<1>5. t = [reserve |-> r, wallet |-> w, lp |-> l, total_supply |-> s,
           block_time_last |-> b, price_cumulative_last |-> p, escrow |-> e]
  BY <1>3, <1>4
<1> QED
  BY <1>1, <1>5 DEF r, w

LEMMA BeforeFields ==
    ASSUME TxInv, SavedWhole, tx.sender \in Accounts
    PROVE  /\ Before.reserve = [i \in Assets |-> saved.reserve[i] + tx.surplus[i]]
           /\ Before.wallet = [saved.wallet EXCEPT ![tx.sender] =
                                  [i \in Assets |-> @[i] - tx.surplus[i]]]
           /\ Before.lp = saved.lp /\ Before.total_supply = saved.total_supply
           /\ Before.block_time_last = saved.block_time_last
           /\ Before.price_cumulative_last = saved.price_cumulative_last
           /\ tx.surplus = NoSurplus => Before = saved
<1>1. /\ saved.reserve \in [Assets -> Nat]
      /\ saved.wallet \in [Accounts -> [Assets -> Nat]]
  BY DEF TxInv, StoreOK
<1>2. PICK whole : whole = saved
  OBVIOUS
<1>3. whole = [reserve |-> whole.reserve, wallet |-> whole.wallet, lp |-> whole.lp,
               total_supply |-> whole.total_supply, block_time_last |-> whole.block_time_last,
               price_cumulative_last |-> whole.price_cumulative_last, escrow |-> whole.escrow]
  BY <1>2 DEF SavedWhole
<1> DEFINE r == [i \in Assets |-> whole.reserve[i] + tx.surplus[i]]
           w == [whole.wallet EXCEPT ![tx.sender] = [i \in Assets |-> @[i] - tx.surplus[i]]]
<1>4. Before = [reserve |-> r, wallet |-> w, lp |-> whole.lp,
                total_supply |-> whole.total_supply, block_time_last |-> whole.block_time_last,
                price_cumulative_last |-> whole.price_cumulative_last, escrow |-> whole.escrow]
  BY <1>2, <1>3, DonatedFields DEF Before
<1>5. ASSUME tx.surplus = NoSurplus
      PROVE  r = whole.reserve /\ w = whole.wallet
  <2>1. \A i \in Assets : tx.surplus[i] = 0
    BY <1>5 DEF NoSurplus
  <2>2. r = whole.reserve
    BY <1>1, <1>2, <2>1
  <2>3. [i \in Assets |-> whole.wallet[tx.sender][i] - tx.surplus[i]] = whole.wallet[tx.sender]
    BY <1>1, <1>2, <2>1
  <2> QED
    BY <1>1, <1>2, <2>2, <2>3
<1> HIDE DEF r, w
<1>6. tx.surplus = NoSurplus => Before = saved
  BY <1>2, <1>3, <1>4, <1>5
<1> QED
  BY <1>2, <1>4, <1>6 DEF r, w

(* The ledgers carry out a message: nothing is seen of it, but with the    *)
(* last one what the call carried too much has been donated.               *)
LEMMA DispatchIsAtomic ==
    ASSUME Assumptions, TxInv, PlanInv,
           DispatchTransferFrom \/ DispatchTransfer \/ DispatchMint \/ DispatchBurn
    PROVE  (UNCHANGED <<Committed, ampVars>>) \/ Atomic!PairNext
<1>1. Running("dispatch") /\ Dispatched
  BY DEF DispatchTransferFrom, DispatchTransfer, DispatchMint, DispatchBurn, NextMessage
<1>2. SavedWhole /\ SurplusDonated /\ PlanInv' /\ TxInv'
  BY <1>1, DispatchKeepsPlan, DispatchKeepsInv DEF PlanInv
<1>3. /\ tx'.stage \in {"dispatch", "settled"}
      /\ tx'.sender = tx.sender /\ tx'.surplus = tx.surplus
      /\ saved' = saved /\ UNCHANGED ampVars /\ SavedWhole'
  <2>1. UNCHANGED <<oracleVars, saved, ampVars>>
    BY <1>1, <1>2, DispatchedRecords
  <2> QED
    BY <1>1, <1>2, <2>1, DispatchedRecords
<1>4. Committed = saved
  BY <1>1, CommittedAt DEF Running
<1>5. PICK sender \in Accounts : sender = tx.sender
  BY <1>1, NextMessageFacts DEF Answers
<1>6. CASE tx'.stage = "dispatch"
  BY <1>3, <1>4, <1>6, CommittedAt DEF Running
<1>7. CASE tx'.stage = "settled"
  <2>1. Committed' = Before'
    BY <1>7, CommittedAt DEF Running
  <2>2. /\ Before'.reserve = [i \in Assets |-> saved.reserve[i] + tx.surplus[i]]
        /\ Before'.wallet = [saved.wallet EXCEPT ![sender] =
                                [i \in Assets |-> @[i] - tx.surplus[i]]]
        /\ Before'.lp = saved.lp /\ Before'.total_supply = saved.total_supply
        /\ Before'.block_time_last = saved.block_time_last
        /\ Before'.price_cumulative_last = saved.price_cumulative_last
        /\ tx.surplus = NoSurplus => Before' = saved
    <3>1. Before' = Before
      BY <1>3, FrozenPlans
    <3> QED
      BY <1>2, <1>5, <3>1, BeforeFields
  <2>3. CASE tx.surplus = NoSurplus
    BY <1>3, <1>4, <2>1, <2>2, <2>3
  <2>4. CASE tx.surplus # NoSurplus
    <3>1. PICK j \in Assets, amount \in DonateAmounts \ {0} :
             /\ tx.surplus = [NoSurplus EXCEPT ![j] = amount]
             /\ saved.wallet[sender][j] >= amount
      BY <1>2, <1>5, <2>4 DEF SurplusDonated
    <3>2. /\ saved.reserve \in [Assets -> Nat]
          /\ saved.wallet \in [Accounts -> [Assets -> Nat]]
          /\ amount \in Nat
      BY DEF TxInv, StoreOK, Assumptions, PairAssumption
    <3>3. \A i \in Assets : tx.surplus[i] = IF i = j THEN amount ELSE 0
      BY <3>1 DEF NoSurplus
    <3>4. Before'.reserve = [saved.reserve EXCEPT ![j] = @ + amount]
      BY <2>2, <3>2, <3>3
    <3>5. Before'.wallet = [saved.wallet EXCEPT ![sender][j] = @ - amount]
      <4>1. [i \in Assets |-> saved.wallet[sender][i] - tx.surplus[i]]
              = [saved.wallet[sender] EXCEPT ![j] = @ - amount]
        BY <3>2, <3>3
      <4> QED
        BY <2>2, <3>2, <4>1
    <3>6. Atomic!Donate(sender, j, amount)
      BY <1>3, <1>4, <2>1, <2>2, <3>1, <3>4, <3>5 DEF Atomic!Donate, Atomic!oracleVars,
                                                               Atomic!ampVars, ampVars
    <3>7. Atomic!Donation(sender)
      BY <3>1, <3>6, SameLimits DEF Atomic!Donation
    <3> QED
      BY <3>7 DEF Atomic!PairNext
  <2> QED
    BY <2>3, <2>4
<1> QED
  BY <1>3, <1>6, <1>7

LEMMA FailUnseen ==
    ASSUME PlanInv, Fail
    PROVE  UNCHANGED <<Committed, ampVars>>
<1>1. /\ ~Running("idle") /\ ~Running("settled") /\ tx' = Idle /\ SavedWhole
      /\ UNCHANGED ampVars
  BY DEF Fail, PlanInv
<1>2. Store' = saved
  BY <1>1 DEF Fail, Store, SavedWhole
<1>3. Running("idle")'
  BY <1>1 DEF Running, Idle
<1> QED
  BY <1>1, <1>2, <1>3, CommittedAt

(* What Commit makes visible: the step from the state of before to the     *)
(* state that the transaction has reached.                                 *)
Commits ==
    /\ Committed = Before
    /\ Committed'.reserve = reserve /\ Committed'.wallet = wallet /\ Committed'.lp = lp
    /\ Committed'.total_supply = total_supply
    /\ Committed'.block_time_last = block_time_last
    /\ Committed'.price_cumulative_last = price_cumulative_last
    /\ UNCHANGED ampVars /\ Atomic!ampVars' = Atomic!ampVars

LEMMA SettledFacts ==
    ASSUME TxInv, Running("settled")
    PROVE  tx.sender \in Accounts /\ tx.surplus \in [Assets -> Nat]
<1>1. tx \in Answers
  BY DEF TxInv, EscrowIs, Running, Idle, Deposits, Offers, Receipts
<1> QED
  BY <1>1 DEF Answers

LEMMA CommitCommits ==
    ASSUME Commit
    PROVE  Commits
<1>1. Running("settled") /\ tx' = Idle /\ UNCHANGED pairVars
  BY DEF Commit
<1>2. Running("idle")'
  BY <1>1 DEF Running, Idle
<1>3. UNCHANGED <<reserve, wallet, lp, total_supply, block_time_last, price_cumulative_last>>
      /\ UNCHANGED ampVars
  BY <1>1 DEF pairVars, ledgerVars, oracleVars
<1> QED
  BY <1>1, <1>2, <1>3, CommittedAt DEF Commits, Store, Atomic!ampVars, ampVars

LEMMA OracleCommits ==
    ASSUME Commits, NEW pools, OracleMoved(pools),
           Before.block_time_last = saved.block_time_last,
           Before.price_cumulative_last = saved.price_cumulative_last
    PROVE  Atomic!AccumulatePrices(pools)
  BY OracleOfPools DEF Commits, OracleMoved

LEMMA DepositCommits ==
    ASSUME Assumptions, TxInv, SavedWhole, Running("settled"), Deposited, Commits
    PROVE  Atomic!PairNext
<1>1. PICK receiver \in Accounts, deposits \in [Assets -> ProvideAmounts] :
        /\ DepositAccepted(deposits)
        /\ Moved(tx.sender, deposits)
        /\ total_supply = saved.total_supply + ShareFor(deposits)
        /\ lp = [saved.lp EXCEPT ![receiver] = @ + ShareFor(deposits)]
  BY DEF Deposited
<1>2. PICK sender \in Accounts : sender = tx.sender
  BY SettledFacts
<1>3. PICK share : share = ShareFor(deposits)
  OBVIOUS
<1>4. Committed = saved
  BY <1>1, SettledFacts, BeforeFields DEF Commits, DepositAccepted
<1>5. /\ \E i \in Assets : deposits[i] # 0
      /\ \A i \in Assets : deposits[i] # 0 \/ saved.reserve[i] # 0
      /\ share \notin {None, 0}
      /\ OracleMoved(saved.reserve)
  BY <1>1, <1>3 DEF DepositAccepted
<1>6. /\ \A i \in Assets : saved.wallet[sender][i] >= deposits[i]
      /\ wallet = [saved.wallet EXCEPT ![sender] = [i \in Assets |-> @[i] - deposits[i]]]
      /\ reserve = [i \in Assets |-> saved.reserve[i] + deposits[i]]
  BY <1>1, <1>2 DEF Moved
<1>7. saved.reserve \in [Assets -> Nat] /\ \A i \in Assets : deposits[i] \in Nat
  BY DEF TxInv, StoreOK, Assumptions, PairAssumption
<1>8. total_supply \in U128
  BY DEF TxInv, PairTypeOK, LedgerTypeOK
<1> DEFINE queried == [i \in Assets |-> Committed.reserve[i] + IF IsNative[i] THEN deposits[i] ELSE 0]
           pools == [i \in Assets |-> queried[i] - IF IsNative[i] THEN deposits[i] ELSE 0]
<1>9. pools = saved.reserve
  <2>1. \A i \in Assets : pools[i] = saved.reserve[i]
    BY <1>4, <1>7
  <2> QED
    BY <1>7, <2>1
<1>10. \A i \in Assets : deposits[i] # 0 \/ queried[i] # 0
  <2> SUFFICES ASSUME NEW i \in Assets, deposits[i] = 0 PROVE queried[i] # 0
    OBVIOUS
  <2>1. queried[i] = saved.reserve[i]
    BY <1>4, <1>7
  <2> QED
    BY <1>5, <2>1
<1>11. Atomic!Share(pools, Atomic!Evaluated(pools, deposits)) = share
  BY <1>3, <1>4, <1>9, ShareOfSupply, SameQuotes DEF ShareFor
<1>12. Atomic!AccumulatePrices(pools)
  BY <1>4, <1>5, <1>9, OracleCommits DEF Commits
<1> HIDE DEF queried, pools
<1>13. Atomic!ProvideLiquidity(sender, receiver, deposits)
  <2>1. /\ \A i \in Assets : Committed.wallet[sender][i] >= deposits[i]
        /\ Committed.total_supply + share \in U128
    BY <1>1, <1>3, <1>4, <1>6, <1>8
  <2>2. /\ Committed'.reserve = [i \in Assets |-> Committed.reserve[i] + deposits[i]]
        /\ Committed'.wallet = [Committed.wallet EXCEPT ![sender] = [i \in Assets |-> @[i] - deposits[i]]]
        /\ Committed'.lp = [Committed.lp EXCEPT ![receiver] = @ + share]
        /\ Committed'.total_supply = Committed.total_supply + share
        /\ Atomic!ampVars' = Atomic!ampVars
    BY <1>1, <1>3, <1>4, <1>6 DEF Commits
  <2> QED
    BY <1>5, <1>10, <1>11, <1>12, <2>1, <2>2, SameLimits
       DEF Atomic!ProvideLiquidity, queried, pools
<1>14. deposits = [i \in Atomic!Assets |-> IF i = 0 THEN deposits[0] ELSE deposits[1]]
  BY SameLimits DEF Assets
<1>15. deposits[0] \in ProvideAmounts /\ deposits[1] \in ProvideAmounts
  BY DEF Assets
<1>16. Atomic!Call(sender)
  BY <1>13, <1>14, <1>15 DEF Atomic!Call
<1> QED
  BY <1>16 DEF Atomic!PairNext

LEMMA SwapCommits ==
    ASSUME Assumptions, TxInv, SavedWhole, Running("settled"), Swapped, Commits
    PROVE  Atomic!PairNext
<1>1. PICK receiver \in Accounts, i \in Assets, amount \in SwapAmounts,
           belief_price \in BeliefPrices, max_spread \in MaxSpreads :
        /\ OfferAccepted(i, amount, belief_price, max_spread)
        /\ Payout(i, amount) # 0
        /\ Payout(i, amount) <= WithOffer(i, amount)[Other(i)]
        /\ reserve = [WithOffer(i, amount) EXCEPT ![Other(i)] = @ - Payout(i, amount)]
        /\ wallet = [OfferTaken(i, amount) EXCEPT ![receiver][Other(i)] = @ + Payout(i, amount)]
  BY DEF Swapped
<1>2. PICK sender \in Accounts : sender = tx.sender
  BY SettledFacts
<1>3. PICK before : before = Before
  OBVIOUS
<1>4. /\ before.lp = saved.lp /\ before.total_supply = saved.total_supply
      /\ before.block_time_last = saved.block_time_last
      /\ before.price_cumulative_last = saved.price_cumulative_last
      /\ before.reserve \in [Assets -> Nat]
      /\ amount \in Nat
  <2>1. /\ before.reserve = [j \in Assets |-> saved.reserve[j] + tx.surplus[j]]
        /\ saved.reserve \in [Assets -> Nat] /\ tx.surplus \in [Assets -> Nat]
    BY <1>3, SettledFacts, BeforeFields DEF TxInv, StoreOK
  <2>2. before.reserve \in [Assets -> Nat]
    BY <2>1
  <2> QED
    BY <1>3, <2>2, SettledFacts, BeforeFields DEF Assumptions, PairAssumption
<1> DEFINE queried == [before.reserve EXCEPT ![i] = @ + amount]
           pools == Atomic!Without(queried, i, amount)
           quote == Simulation(before.reserve, i, amount)
           paid == [before.wallet EXCEPT ![sender][i] = @ - amount]
<1>5. pools = before.reserve
  <2>1. queried \in [Assets -> Nat] /\ queried[i] = before.reserve[i] + amount
        /\ \A j \in Assets : j # i => queried[j] = before.reserve[j]
    BY <1>4
  <2>2. [queried EXCEPT ![i] = @ - amount] = before.reserve
    <3>1. before.reserve[i] \in Nat /\ \A j \in Assets : before.reserve[j] \in Nat
      BY <1>4
    <3> HIDE DEF queried
    <3>2. queried[i] - amount = before.reserve[i]
      BY <1>4, <2>1, <3>1
    <3> QED
      BY <1>4, <2>1, <3>2
  <2> QED
    BY <2>2 DEF Atomic!Without
<1>6. /\ IsNative[i] \/ amount # 0
      /\ before.wallet[sender][i] >= amount
      /\ ~Void(quote)
      /\ WithinMaxSpread(belief_price, max_spread, amount,
                         quote.return_amount + quote.commission_amount, quote.spread_amount)
      /\ OracleMoved(before.reserve)
      /\ SharesAsBefore
  BY <1>1, <1>2, <1>3 DEF OfferAccepted
<1>7. /\ WithOffer(i, amount) = queried
      /\ Payout(i, amount) = quote.return_amount
      /\ OfferTaken(i, amount) = paid
  BY <1>2, <1>3 DEF WithOffer, Payout, OfferTaken
<1>8. Atomic!AccumulatePrices(pools)
  BY <1>3, <1>4, <1>5, <1>6, OracleCommits
<1>9. Atomic!Simulation(pools, i, amount) = quote
  BY <1>5, SameQuotes
<1>10. Committed = before
  BY <1>3 DEF Commits
<1> HIDE DEF pools, quote
<1>11. Atomic!Swap(sender, receiver, i, amount, belief_price, max_spread)
  <2>1. /\ ~Atomic!Void(quote)
        /\ Atomic!WithinMaxSpread(belief_price, max_spread, amount,
                         quote.return_amount + quote.commission_amount, quote.spread_amount)
        /\ quote.return_amount # 0
        /\ quote.return_amount <= queried[Atomic!Other(i)]
    BY <1>1, <1>6, <1>7, SameLimits
  <2>2. /\ Committed'.reserve = [queried EXCEPT ![Atomic!Other(i)] = @ - quote.return_amount]
        /\ Committed'.wallet = [paid EXCEPT ![receiver][Atomic!Other(i)] = @ + quote.return_amount]
    <3>1. Atomic!Other(i) = Other(i)
      BY SameLimits
    <3>2. /\ reserve = [queried EXCEPT ![Other(i)] = @ - quote.return_amount]
          /\ wallet = [paid EXCEPT ![receiver][Other(i)] = @ + quote.return_amount]
      BY <1>1, <1>7
    <3> HIDE DEF queried, paid
    <3> QED
      BY <3>1, <3>2 DEF Commits
  <2>3. /\ Committed'.lp = Committed.lp /\ Committed'.total_supply = Committed.total_supply
        /\ Atomic!ampVars' = Atomic!ampVars
    BY <1>4, <1>6, <1>10 DEF Commits, SharesAsBefore
  <2> QED
    BY <1>6, <1>8, <1>9, <1>10, <2>1, <2>2, <2>3 DEF Atomic!Swap, pools
<1>12. Atomic!Call(sender)
  BY <1>11, SameLimits DEF Atomic!Call
<1> QED
  BY <1>12 DEF Atomic!PairNext

LEMMA WithdrawalCommits ==
    ASSUME Assumptions, TxInv, SavedWhole, Running("settled"), Withdrawn, Commits
    PROVE  Atomic!PairNext
<1>1. PICK amount \in WithdrawAmounts \cup {saved.lp[tx.sender]} :
        /\ WithdrawalAccepted(amount)
        /\ Refunded(amount, Assets)
        /\ saved.total_supply >= amount
        /\ total_supply = saved.total_supply - amount
  BY DEF Withdrawn
<1>2. PICK sender \in Accounts : sender = tx.sender
  BY SettledFacts
<1>3. PICK refund : refund = Refund(amount)
  OBVIOUS
<1>4. Committed = saved
  BY <1>1, SettledFacts, BeforeFields DEF Commits, WithdrawalAccepted
<1>5. /\ amount # 0 /\ saved.lp[sender] >= amount
      /\ \A i \in Assets : refund[i] # None
      /\ OracleMoved(saved.reserve)
      /\ lp = [saved.lp EXCEPT ![sender] = @ - amount]
  BY <1>1, <1>2, <1>3 DEF WithdrawalAccepted
<1>6. /\ \A i \in Assets : refund[i] # 0 /\ refund[i] <= saved.reserve[i]
      /\ reserve = [i \in Assets |-> saved.reserve[i] - refund[i]]
      /\ wallet = [saved.wallet EXCEPT ![sender] = [i \in Assets |-> @[i] + refund[i]]]
  <2>1. \A i \in Assets : Part(Assets, refund)[i] = refund[i]
    BY DEF Part
  <2> QED
    BY <1>1, <1>2, <1>3, <2>1 DEF Refunded
<1>7. [i \in Assets |-> Atomic!ShareInAsset(Committed.reserve[i], amount, Committed.total_supply)]
        = refund
  BY <1>3, <1>4, SameLimits DEF Refund
<1>8. Atomic!AccumulatePrices(Committed.reserve)
  BY <1>4, <1>5, OracleCommits DEF Commits
<1>9. Atomic!WithdrawLiquidity(sender, amount)
  <2>1. /\ Committed'.reserve = [i \in Assets |-> Committed.reserve[i] - refund[i]]
        /\ Committed'.wallet = [Committed.wallet EXCEPT ![sender] = [i \in Assets |-> @[i] + refund[i]]]
        /\ Committed'.lp = [Committed.lp EXCEPT ![sender] = @ - amount]
        /\ Committed'.total_supply = Committed.total_supply - amount
        /\ Atomic!ampVars' = Atomic!ampVars
    BY <1>1, <1>4, <1>5, <1>6 DEF Commits
  <2>2. /\ Committed.lp[sender] >= amount /\ Committed.total_supply >= amount
        /\ \A i \in Assets : refund[i] \notin {None, 0} /\ refund[i] <= Committed.reserve[i]
    BY <1>1, <1>4, <1>5, <1>6
  <2> QED
    BY <1>5, <1>7, <1>8, <2>1, <2>2, SameLimits DEF Atomic!WithdrawLiquidity
<1>10. Atomic!Call(sender)
  <2>1. amount \in WithdrawAmounts \cup {Committed.lp[sender]}
    BY <1>2, <1>4
  <2> QED
    BY <1>9, <2>1 DEF Atomic!Call
<1> QED
  BY <1>10 DEF Atomic!PairNext

LEMMA CommitIsAtomic ==
    ASSUME Assumptions, TxInv, PlanInv, Commit
    PROVE  Atomic!PairNext
<1>1. Commits /\ Running("settled")
  BY CommitCommits DEF Commit
<1>2. SavedWhole /\ (Deposited \/ Swapped \/ Withdrawn)
  BY <1>1 DEF PlanInv
<1> QED
  BY <1>1, <1>2, DepositCommits, SwapCommits, WithdrawalCommits

LEMMA StoreFields ==
    ASSUME Running("idle")
    PROVE  /\ Committed.reserve = reserve /\ Committed.wallet = wallet /\ Committed.lp = lp
           /\ Committed.total_supply = total_supply
           /\ Committed.block_time_last = block_time_last
           /\ Committed.price_cumulative_last = price_cumulative_last
  BY CommittedAt DEF Store

LEMMA SameRamp ==
    /\ Atomic!AmpInit <=> AmpInit
    /\ Atomic!Tick <=> Tick
    /\ \A amp, end : Atomic!StartChangingAmp(amp, end) <=> StartChangingAmp(amp, end)
    /\ Atomic!StopChangingAmp <=> StopChangingAmp
<1>1. Atomic!AmpInit <=> AmpInit
  BY DEF Atomic!AmpInit, AmpInit
<1>2. Atomic!Tick <=> Tick
  BY DEF Atomic!Tick, Tick, Atomic!rampVars, rampVars
<1>3. \A a, b, e : Atomic!RampFrom(a, b, e) <=> RampFrom(a, b, e)
  BY DEF Atomic!RampFrom, RampFrom
<1>4. \A amp, end : Atomic!StartChangingAmp(amp, end) <=> StartChangingAmp(amp, end)
  BY <1>3, SameAmp
     DEF Atomic!StartChangingAmp, StartChangingAmp, Atomic!AmpAllowed, AmpAllowed,
         Atomic!ChangeAllowed, ChangeAllowed, Atomic!TimesAllowed, TimesAllowed
<1>5. Atomic!StopChangingAmp <=> StopChangingAmp
  BY <1>3, SameAmp DEF Atomic!StopChangingAmp, StopChangingAmp
<1> QED
  BY <1>1, <1>2, <1>4, <1>5

LEMMA SingleMessageIsAtomic ==
    ASSUME SingleMessage
    PROVE  Atomic!PairNext
<1>1. Running("idle") /\ tx' = tx
  BY DEF SingleMessage
<1>2. Running("idle")'
  BY <1>1 DEF Running
<1>3. /\ Committed.reserve = reserve /\ Committed.wallet = wallet /\ Committed.lp = lp
      /\ Committed.total_supply = total_supply
      /\ Committed.block_time_last = block_time_last
      /\ Committed.price_cumulative_last = price_cumulative_last
  BY <1>1, StoreFields
<1>4. /\ Committed'.reserve = reserve' /\ Committed'.wallet = wallet' /\ Committed'.lp = lp'
      /\ Committed'.total_supply = total_supply'
      /\ Committed'.block_time_last = block_time_last'
      /\ Committed'.price_cumulative_last = price_cumulative_last'
  BY <1>2, CommittedAt DEF Store
<1>5. /\ (UNCHANGED ledgerVars) <=> (UNCHANGED Atomic!ledgerVars)
      /\ (UNCHANGED oracleVars) <=> (UNCHANGED Atomic!oracleVars)
      /\ (UNCHANGED ampVars) <=> (UNCHANGED Atomic!ampVars)
  BY <1>3, <1>4 DEF ledgerVars, Atomic!ledgerVars, oracleVars, Atomic!oracleVars,
                    ampVars, Atomic!ampVars
<1>6. ASSUME NEW sender \in Accounts, UpdateConfig(sender)
      PROVE  Atomic!UpdateConfig(sender)
  BY <1>5, <1>6, SameRamp DEF UpdateConfig, Atomic!UpdateConfig
<1>7. ASSUME NEW sender \in Accounts, Donation(sender)
      PROVE  Atomic!Donation(sender)
  <2>1. PICK i \in Assets, amount \in DonateAmounts : Donate(sender, i, amount)
    BY <1>7 DEF Donation
  <2>2. Atomic!Donate(sender, i, amount)
    BY <1>3, <1>4, <1>5, <2>1 DEF Donate, Atomic!Donate
  <2> QED
    BY <2>2, SameLimits DEF Atomic!Donation
<1>8. ASSUME NEW sender \in Accounts, LpCall(sender)
      PROVE  Atomic!LpCall(sender)
  <2>1. ASSUME NEW receiver, NEW amount, TransferLp(sender, receiver, amount)
        PROVE  Atomic!TransferLp(sender, receiver, amount)
    BY <1>3, <1>4, <1>5, <2>1 DEF TransferLp, Atomic!TransferLp
  <2>2. ASSUME NEW amount, BurnLp(sender, amount)
        PROVE  Atomic!BurnLp(sender, amount)
    BY <1>3, <1>4, <1>5, <2>2 DEF BurnLp, Atomic!BurnLp
  <2> QED
    BY <1>8, <2>1, <2>2 DEF LpCall, Atomic!LpCall
<1>9. ASSUME NextBlock
      PROVE  Atomic!NextBlock
  BY <1>5, <1>9, SameRamp DEF NextBlock, Atomic!NextBlock
<1> QED
  BY <1>6, <1>7, <1>8, <1>9 DEF SingleMessage, Atomic!PairNext

LEMMA InitIsAtomic ==
    ASSUME TxInit
    PROVE  Atomic!PairInit
<1>1. Running("idle")
  BY DEF TxInit, Running, Idle
<1> QED
  BY <1>1, StoreFields, SameRamp, SameLimits DEF TxInit, PairInit, Atomic!PairInit

LEMMA StepIsAtomic ==
    ASSUME Assumptions, TxInv, PlanInv, [TxNext]_txVars
    PROVE  [(UNCHANGED <<Committed, ampVars>>) \/ Atomic!PairNext]_txVars
<1>1. ASSUME NEW sender \in Accounts, Submit(sender)
      PROVE  UNCHANGED <<Committed, ampVars>>
  BY <1>1, SubmitUnseen
<1> QED
  BY <1>1, HandlersUnseen, DispatchIsAtomic, CommitIsAtomic, FailUnseen, SingleMessageIsAtomic
     DEF TxNext

(* The running transaction follows from the state it began with, and its   *)
(* messages from what its handler computed there.                          *)
THEOREM PlanInvariant == TxSpec => [](TxInv /\ PlanInv)
<1>1. TxInit => TxInv /\ PlanInv
  BY TxInvInit, PlanInit, AssumptionsHold
<1>2. TxInv /\ PlanInv /\ [TxNext]_txVars => (TxInv /\ PlanInv)'
  BY TxInvStep, PlanStep, PlanStutter, AssumptionsHold
<1> QED
  BY <1>1, <1>2, PTL DEF TxSpec

(* Whatever callers send with a call, in whatever order they name assets,  *)
(* and wherever the call fails: what the world sees of it is one action of *)
(* Pair, or a donation of the coins that came along, or nothing.           *)
THEOREM CallsAreAtomicAlways == TxSpec => CallsAreAtomic
<1>1. TxInit => Atomic!PairInit
  BY InitIsAtomic
<1>2. TxInv /\ PlanInv /\ [TxNext]_txVars
        => [(UNCHANGED <<Committed, ampVars>>) \/ Atomic!PairNext]_txVars
  BY StepIsAtomic, AssumptionsHold
<1> QED
  BY <1>1, <1>2, PlanInvariant, PTL DEF TxSpec, CallsAreAtomic

-----------------------------------------------------------------------------
(* The refinement of Pair.                                                 *)

(* A step that changes nothing changes nothing the world sees.             *)
LEMMA StutterUnseen ==
    ASSUME UNCHANGED txVars
    PROVE  UNCHANGED Atomic!pairVars
<1>1. UNCHANGED <<tx, saved, escrow, reserve, wallet, lp, total_supply,
                  block_time_last, price_cumulative_last>> /\ UNCHANGED ampVars
  BY DEF txVars, pairVars, ledgerVars, oracleVars
<1>2. /\ Running("idle")' <=> Running("idle")
      /\ Running("settled")' <=> Running("settled")
      /\ Store' = Store
  BY <1>1 DEF Running, Store
<1>3. Before' = Before
  BY <1>1 DEF Before, Donated
<1>4. Committed' = Committed
  BY <1>1, <1>2, <1>3, CommittedAt
<1> QED
  BY <1>1, <1>4 DEF Atomic!pairVars, Atomic!ampVars, ampVars, Atomic!ledgerVars, Atomic!oracleVars,
                    Atomic!rampVars, rampVars

(* A step of a transaction is a step of Pair or none at all.               *)
LEMMA StepIsPairStep ==
    ASSUME Assumptions, TxInv, PlanInv, [TxNext]_txVars
    PROVE  [Atomic!PairNext]_(Atomic!pairVars)
<1>1. CASE UNCHANGED txVars
  BY <1>1, StutterUnseen
<1>2. CASE UNCHANGED <<Committed, ampVars>>
  BY <1>2 DEF Atomic!pairVars, Atomic!ampVars, ampVars, Atomic!ledgerVars, Atomic!oracleVars,
              Atomic!rampVars, rampVars
<1> QED
  BY <1>1, <1>2, StepIsAtomic

(* provide_liquidity, swap, withdraw_liquidity and receive_cw20, message   *)
(* by message, failures and rollbacks included, show the world nothing but *)
(* a behaviour of Pair, in which each of these calls is a single step.     *)
THEOREM TxImplementsPair == TxSpec => Atomic!PairSpec
<1>1. TxInit => Atomic!PairInit
  BY InitIsAtomic
<1>2. TxInv /\ PlanInv /\ [TxNext]_txVars => [Atomic!PairNext]_(Atomic!pairVars)
  BY StepIsPairStep, AssumptionsHold
<1> QED
  BY <1>1, <1>2, PlanInvariant, PTL DEF TxSpec, Atomic!PairSpec

-----------------------------------------------------------------------------
(* The traders' guarantee, as the world sees it.                           *)
CommittedTypeOK ==
    /\ Committed.reserve \in [Assets -> Nat]
    /\ Committed.lp \in [Accounts -> Nat]
    /\ Committed.total_supply \in Nat
    /\ AmpTypeOK

(* The world sees amounts: neither a call under way nor a rolled back one  *)
(* shows a ledger that is not one.                                         *)
LEMMA CommittedTypes ==
    ASSUME Assumptions, TxInv, PlanInv
    PROVE  CommittedTypeOK
<1>1. CASE Running("idle")
  <2>1. PairTypeOK /\ Committed.reserve = reserve /\ Committed.lp = lp
        /\ Committed.total_supply = total_supply
    BY <1>1, StoreFields DEF TxInv
  <2> QED
    BY <2>1 DEF CommittedTypeOK, PairTypeOK, LedgerTypeOK, U128
<1>2. /\ saved.reserve \in [Assets -> Nat] /\ saved.lp \in [Accounts -> Nat]
      /\ saved.total_supply \in Nat /\ AmpTypeOK
  BY DEF TxInv, StoreOK, U128, PairTypeOK
<1>3. CASE Running("settled")
  <2>1. tx.sender \in Accounts /\ tx.surplus \in [Assets -> Nat]
    BY <1>3, SettledFacts
  <2>2. /\ Before.reserve = [i \in Assets |-> saved.reserve[i] + tx.surplus[i]]
        /\ Before.lp = saved.lp /\ Before.total_supply = saved.total_supply
    BY <2>1, BeforeFields DEF PlanInv
  <2>3. \A i \in Assets : saved.reserve[i] + tx.surplus[i] \in Nat
    BY <1>2, <2>1
  <2> QED
    BY <1>2, <1>3, <2>2, <2>3, CommittedAt DEF CommittedTypeOK
<1>4. CASE ~Running("idle") /\ ~Running("settled")
  BY <1>2, <1>4, CommittedAt DEF CommittedTypeOK
<1> QED
  BY <1>1, <1>3, <1>4

(* The spreads, expectations and fee are those of Pair.                    *)
LEMMA SameSpreads ==
    /\ Atomic!SpreadLimits = SpreadLimits
    /\ \A offer : Atomic!ExpectedReturns(offer) = ExpectedReturns(offer)
    /\ Atomic!GlobalFee = GlobalFee
<1>1. Atomic!SpreadLimits = SpreadLimits
  BY SameLimits DEF Atomic!SpreadLimits, SpreadLimits
<1>2. \A offer : Atomic!ExpectedReturns(offer) = ExpectedReturns(offer)
  <2> SUFFICES ASSUME NEW offer
               PROVE  Atomic!ExpectedReturns(offer) = ExpectedReturns(offer)
    OBVIOUS
  <2>1. Atomic!None = None
    BY SameLimits
  <2>2. \A b : (IF b = Atomic!None THEN offer
              ELSE Atomic!TimesDecimal(offer, Atomic!DecimalRatio(DECIMAL_ONE, b)))
           = (IF b = None THEN offer ELSE TimesDecimal(offer, DecimalRatio(DECIMAL_ONE, b)))
    BY <2>1, SameRatios, SameLimits
  <2> QED
    BY <2>2 DEF Atomic!ExpectedReturns, ExpectedReturns
<1>3. Atomic!GlobalFee = GlobalFee
  BY SameRatios DEF Atomic!GlobalFee, GlobalFee
<1> QED
  BY <1>1, <1>2, <1>3

(* What provide_liquidity mints is an amount, unless the computation fails.*)
LEMMA ShareAtType ==
    ASSUME Assumptions, NEW supply, NEW pools, NEW deposits
    PROVE  ShareAt(supply, pools, deposits) \in Optional
<1>1. LP_PRECISION \in 0 .. MaxPrecision /\ GreaterPrecision \in 0 .. MaxPrecision
  BY PrecisionTypes DEF Assumptions, PairAssumption
<1>2. \A v : AdjustPrecision(ToU128(v), GreaterPrecision, LP_PRECISION) \in Optional
  BY <1>1, ToU128Type, AdjustType DEF Assumptions
<1>3. None \in Optional
  BY DEF Optional
<1> QED
  BY <1>2, <1>3, MultiplyRatioType DEF ShareAt, Assumptions

(* A swap that the world sees, in the terms of Pair.                       *)
LEMMA CommittedSwap ==
    ASSUME Assumptions, CommittedTypeOK,
           NEW sender \in Accounts, NEW receiver \in Accounts, NEW i \in Assets,
           NEW amount \in Nat, NEW b, NEW m, Atomic!Swap(sender, receiver, i, amount, b, m)
    PROVE  \E quote :
              /\ quote = Simulation(Committed.reserve, i, amount) /\ ~Void(quote)
              /\ WithinMaxSpread(b, m, amount, quote.return_amount + quote.commission_amount,
                                 quote.spread_amount)
              /\ Committed'.reserve[i] - Committed.reserve[i] = amount
              /\ Committed.reserve[Other(i)] - Committed'.reserve[Other(i)] = quote.return_amount
<1>1. PICK pools \in [Assets -> Nat], quote \in {Simulation(Committed.reserve, i, amount)} :
         pools = Committed.reserve
  BY DEF CommittedTypeOK
<1> DEFINE queried == [pools EXCEPT ![i] = @ + amount]
<1>2. Atomic!Without([Committed.reserve EXCEPT ![i] = @ + amount], i, amount) = pools
  BY <1>1, SameQuotes, WithoutOffer
<1>3. Atomic!Simulation(pools, i, amount) = quote
  BY <1>1, SameQuotes
<1>4. Atomic!Other(i) = Other(i) /\ Other(i) \in Assets /\ Other(i) # i
  BY SameLimits DEF Assets, Other
<1>5. /\ ~Atomic!Void(quote)
      /\ Atomic!WithinMaxSpread(b, m, amount, quote.return_amount + quote.commission_amount,
                                quote.spread_amount)
      /\ Committed'.reserve = [queried EXCEPT ![Other(i)] = @ - quote.return_amount]
  BY <1>1, <1>2, <1>3, <1>4 DEF Atomic!Swap
<1>6. /\ ~Void(quote)
      /\ WithinMaxSpread(b, m, amount, quote.return_amount + quote.commission_amount,
                         quote.spread_amount)
  BY <1>5, SameLimits
<1>7. quote.return_amount \in Nat
  BY <1>1, <1>6, QuoteNeedsOffer DEF CommittedTypeOK
<1>8. /\ queried \in [Assets -> Nat]
      /\ queried[i] = pools[i] + amount /\ queried[Other(i)] = pools[Other(i)]
  BY <1>1, <1>4
<1> HIDE DEF queried
<1>9. /\ Committed'.reserve[i] = pools[i] + amount
      /\ Committed'.reserve[Other(i)] = pools[Other(i)] - quote.return_amount
  BY <1>4, <1>5, <1>8
<1>10. pools[i] \in Nat /\ pools[Other(i)] \in Nat
  BY <1>1, <1>4
<1> QED
  BY <1>1, <1>6, <1>7, <1>9, <1>10

(* A payout without a change of the LP supply is a swap.                   *)
LEMMA CommittedPayout ==
    ASSUME Assumptions, CommittedTypeOK, CommittedTypeOK', Atomic!PairNext, NEW i \in Assets,
           Committed'.total_supply = Committed.total_supply,
           Committed'.reserve[Other(i)] < Committed.reserve[Other(i)]
    PROVE  \E sender \in Accounts, receiver \in Accounts, amount \in SwapAmounts,
              b \in BeliefPrices, m \in MaxSpreads :
              Atomic!Swap(sender, receiver, i, amount, b, m)
<1>1. /\ Committed.reserve \in [Assets -> Nat] /\ Committed'.reserve \in [Assets -> Nat]
      /\ Committed.lp \in [Accounts -> Nat]
      /\ Committed.total_supply \in Nat
      /\ Atomic!Assets = Assets /\ Atomic!None = None
      /\ \A j \in Assets : Atomic!Other(j) = Other(j) /\ Other(j) \in Assets
  BY SameLimits DEF CommittedTypeOK, Assets, Other
<1>2. ASSUME \A j \in Assets : Committed'.reserve[j] >= Committed.reserve[j]
      PROVE  FALSE
  <2>1. Other(i) \in Assets /\ Committed'.reserve[Other(i)] >= Committed.reserve[Other(i)]
    BY <1>1, <1>2
  <2> QED
    BY <1>1, <2>1
<1>3. ASSUME NEW sender, NEW receiver, NEW deposits,
             Atomic!ProvideLiquidity(sender, receiver, deposits)
      PROVE  FALSE
  <2>1. PICK pools, evaluated :
           /\ Atomic!Share(pools, evaluated) \notin {Atomic!None, 0}
           /\ Committed'.total_supply = Committed.total_supply + Atomic!Share(pools, evaluated)
    BY <1>3 DEF Atomic!ProvideLiquidity
  <2>2. Atomic!Share(pools, evaluated) \in Nat \ {0}
    BY <1>1, <2>1, ShareOfSupply, ShareAtType DEF Optional
  <2> QED
    BY <1>1, <2>1, <2>2
<1>4. ASSUME NEW sender \in Accounts, NEW amount \in WithdrawAmounts \cup {Committed.lp[sender]},
             Atomic!WithdrawLiquidity(sender, amount)
      PROVE  FALSE
  <2>1. amount \in Nat
    BY <1>1 DEF Assumptions, PairAssumption
  <2> QED
    BY <1>1, <1>4, <2>1 DEF Atomic!WithdrawLiquidity
<1>5. ASSUME NEW sender \in Accounts, NEW receiver \in Accounts, NEW j \in Assets,
             NEW amount \in SwapAmounts, NEW b \in BeliefPrices, NEW m \in MaxSpreads,
             Atomic!Swap(sender, receiver, j, amount, b, m)
      PROVE  j = i
  <2>1. amount \in Nat
    BY DEF Assumptions, PairAssumption
  <2>2. Committed'.reserve[j] - Committed.reserve[j] = amount
    BY <1>5, <2>1, CommittedSwap
  <2>3. CASE j # i
    <3>1. Other(i) = j
      BY <2>3 DEF Assets, Other
    <3> QED
      BY <1>1, <2>1, <2>2, <3>1
  <2> QED
    BY <2>3
<1>6. ASSUME NEW sender \in Accounts, Atomic!Donation(sender)
      PROVE  FALSE
  <2>1. PICK j \in Assets, amount \in DonateAmounts : Atomic!Donate(sender, j, amount)
    BY <1>1, <1>6 DEF Atomic!Donation
  <2>2. amount \in Nat /\ Committed'.reserve = [Committed.reserve EXCEPT ![j] = @ + amount]
    BY <2>1 DEF Atomic!Donate, Assumptions, PairAssumption
  <2> QED
    BY <1>1, <1>2, <2>2
<1>7. ASSUME Committed'.reserve = Committed.reserve PROVE FALSE
  BY <1>1, <1>2, <1>7
<1>8. ASSUME NEW sender \in Accounts, Atomic!Call(sender)
      PROVE  \E receiver \in Accounts, amount \in SwapAmounts,
                b \in BeliefPrices, m \in MaxSpreads :
                Atomic!Swap(sender, receiver, i, amount, b, m)
  <2>1. PICK receiver \in Accounts, j \in Atomic!Assets, amount \in SwapAmounts,
             b \in BeliefPrices, m \in MaxSpreads :
           Atomic!Swap(sender, receiver, j, amount, b, m)
    BY <1>3, <1>4, <1>8 DEF Atomic!Call
  <2>2. j \in Assets
    BY <1>1, <2>1
  <2>3. j = i
    BY <1>5, <2>1, <2>2
  <2> QED
    BY <2>1, <2>3
<1> QED
  BY <1>6, <1>7, <1>8
     DEF Atomic!PairNext, Atomic!UpdateConfig, Atomic!LpCall, Atomic!TransferLp, Atomic!BurnLp,
         Atomic!NextBlock, Atomic!ledgerVars

(* So it is worth what the trader accepted.                                *)
LEMMA CommittedNearParityStep ==
    ASSUME Assumptions, Precision[0] = Precision[1], CommittedTypeOK, CommittedTypeOK',
           Atomic!PairNext, NEW i \in Assets,
           Committed'.total_supply = Committed.total_supply,
           Committed'.reserve[Other(i)] < Committed.reserve[Other(i)]
    PROVE  NearParity(Committed'.reserve[i] - Committed.reserve[i],
                      Committed.reserve[Other(i)] - Committed'.reserve[Other(i)])
<1>1. PICK sender \in Accounts, receiver \in Accounts, amount \in SwapAmounts,
           b \in BeliefPrices, m \in MaxSpreads :
           Atomic!Swap(sender, receiver, i, amount, b, m)
  BY CommittedPayout
<1>2. amount \in Nat
  BY DEF Assumptions, PairAssumption
<1>3. PICK quote :
         /\ quote = Simulation(Committed.reserve, i, amount) /\ ~Void(quote)
         /\ WithinMaxSpread(b, m, amount, quote.return_amount + quote.commission_amount,
                            quote.spread_amount)
         /\ Committed'.reserve[i] - Committed.reserve[i] = amount
         /\ Committed.reserve[Other(i)] - Committed'.reserve[Other(i)] = quote.return_amount
  BY <1>1, <1>2, CommittedSwap
<1>4. NearParity(amount, quote.return_amount)
  BY <1>2, <1>3, QuoteNearParity DEF CommittedTypeOK
<1> QED
  BY <1>3, <1>4

(* assert_max_spread protects a trader end to end, whatever was executed   *)
(* between the decision and the call and whatever coins came with it: for  *)
(* assets of equal precision, a swap that takes effect pays the believed   *)
(* worth of the offer less the accepted spread and the fee.                *)
THEOREM CommittedSwapsNearParity ==
    ASSUME Precision[0] = Precision[1]
    PROVE  TxSpec => CommittedSwapNearParity
<1>1. TxInv /\ PlanInv => CommittedTypeOK
  BY CommittedTypes, AssumptionsHold
<1>2. TxInv /\ PlanInv /\ CommittedTypeOK /\ CommittedTypeOK' /\ [TxNext]_txVars =>
        [\A i \in Atomic!Assets :
           (Committed.total_supply)' = Committed.total_supply
             /\ (Committed.reserve)'[Atomic!Other(i)] < Committed.reserve[Atomic!Other(i)] =>
              \E limit \in Atomic!SpreadLimits,
                 expected \in Atomic!ExpectedReturns((Committed.reserve)'[i] - Committed.reserve[i]) :
                 /\ limit <= MAX_ALLOWED_SLIPPAGE
                 /\ (Committed.reserve[Atomic!Other(i)] - (Committed.reserve)'[Atomic!Other(i)])
                       * DECIMAL_ONE * DECIMAL_ONE
                      >= expected * (DECIMAL_ONE - limit - 1)
                            * (DECIMAL_ONE - Atomic!GlobalFee)]_(Atomic!pairVars)
  <2>1. SUFFICES ASSUME TxInv, PlanInv, CommittedTypeOK, CommittedTypeOK', [TxNext]_txVars,
                        Atomic!PairNext, NEW i \in Assets,
                        Committed'.total_supply = Committed.total_supply,
                        Committed'.reserve[Other(i)] < Committed.reserve[Other(i)]
                 PROVE  NearParity(Committed'.reserve[i] - Committed.reserve[i],
                                   Committed.reserve[Other(i)] - Committed'.reserve[Other(i)])
    BY StepIsPairStep, AssumptionsHold, SameSpreads, SameLimits DEF NearParity
  <2> QED
    BY <2>1, CommittedNearParityStep, AssumptionsHold
<1> QED
  BY <1>1, <1>2, PlanInvariant, PTL DEF TxSpec, CommittedSwapNearParity, Atomic!SwapNearParity

-----------------------------------------------------------------------------
(* The messages a handler returns are covered.                             *)

(* Between transactions, and while one is under way, what the world sees   *)
(* of the LP supply is the sum of what it sees of the holdings.            *)
CommittedSum == Counts(Committed.lp, Committed.total_supply)

(* To the LP tokens the world sees a transaction do what Pair does.        *)
LEMMA CommittedMovesLp ==
    ASSUME Assumptions, CommittedTypeOK, [Atomic!PairNext]_(Atomic!pairVars)
    PROVE  LpMoves(Committed.lp, Committed.total_supply, Committed'.lp, Committed'.total_supply)
<1>1. PICK holds \in [Accounts -> Nat], total \in Nat :
        holds = Committed.lp /\ total = Committed.total_supply
  BY DEF CommittedTypeOK
<1>2. PICK holds2, total2 : holds2 = Committed'.lp /\ total2 = Committed'.total_supply
  OBVIOUS
<1>3. SUFFICES LpMoves(holds, total, holds2, total2)
  BY <1>1, <1>2
<1>4. ASSUME holds2 = holds, total2 = total
      PROVE  LpMoves(holds, total, holds2, total2)
  BY <1>4 DEF LpMoves
<1>5. ASSUME NEW sender, NEW receiver \in Accounts, NEW deposits,
             Atomic!ProvideLiquidity(sender, receiver, deposits)
      PROVE  LpMoves(holds, total, holds2, total2)
  <2>1. PICK pools, evaluated :
          /\ Atomic!Share(pools, evaluated) # Atomic!None
          /\ holds2 = [holds EXCEPT ![receiver] = @ + Atomic!Share(pools, evaluated)]
          /\ total2 = total + Atomic!Share(pools, evaluated)
    BY <1>1, <1>2, <1>5 DEF Atomic!ProvideLiquidity
  <2>2. Atomic!Share(pools, evaluated) \in Nat
    BY <2>1, ShareOfSupply, ShareAtType, SameLimits DEF Optional
  <2> QED
    BY <2>1, <2>2 DEF LpMoves
<1>6. ASSUME NEW sender \in Accounts, NEW amount \in Nat,
             Atomic!WithdrawLiquidity(sender, amount) \/ Atomic!BurnLp(sender, amount)
      PROVE  LpMoves(holds, total, holds2, total2)
  <2>1. /\ holds[sender] >= amount
        /\ holds2 = [holds EXCEPT ![sender] = @ - amount] /\ total2 = total - amount
    BY <1>1, <1>2, <1>6 DEF Atomic!WithdrawLiquidity, Atomic!BurnLp
  <2> QED
    BY <2>1 DEF LpMoves
<1>7. ASSUME NEW sender \in Accounts, NEW receiver \in Accounts, NEW amount \in Nat,
             Atomic!TransferLp(sender, receiver, amount)
      PROVE  LpMoves(holds, total, holds2, total2)
  <2>1. /\ holds[sender] >= amount
        /\ holds2 = [[holds EXCEPT ![sender] = @ - amount] EXCEPT ![receiver] = @ + amount]
        /\ total2 = total
    BY <1>1, <1>2, <1>7 DEF Atomic!TransferLp
  <2> QED
    BY <2>1 DEF LpMoves
<1>8. ASSUME NEW sender \in Accounts, Atomic!Call(sender)
      PROVE  LpMoves(holds, total, holds2, total2)
  <2>1. ASSUME NEW receiver, NEW i, NEW amount, NEW b, NEW m,
               Atomic!Swap(sender, receiver, i, amount, b, m)
        PROVE  holds2 = holds /\ total2 = total
    BY <1>1, <1>2, <2>1 DEF Atomic!Swap
  <2>2. \A amount \in WithdrawAmounts \cup {Committed.lp[sender]} : amount \in Nat
    BY <1>1 DEF Assumptions, PairAssumption
  <2> QED
    BY <1>4, <1>5, <1>6, <1>8, <2>1, <2>2 DEF Atomic!Call
<1>9. ASSUME NEW sender \in Accounts, Atomic!LpCall(sender)
      PROVE  LpMoves(holds, total, holds2, total2)
  <2>1. LpAmounts \subseteq Nat
    BY DEF Assumptions, PairAssumption
  <2> QED
    BY <1>6, <1>7, <1>9, <2>1 DEF Atomic!LpCall
<1>10. ASSUME Committed'.lp = Committed.lp, Committed'.total_supply = Committed.total_supply
       PROVE  LpMoves(holds, total, holds2, total2)
  BY <1>1, <1>2, <1>4, <1>10
<1> QED
  BY <1>8, <1>9, <1>10
     DEF Atomic!PairNext, Atomic!UpdateConfig, Atomic!Donation, Atomic!Donate, Atomic!NextBlock,
         Atomic!pairVars, Atomic!ledgerVars

(* At the start nobody holds anything; then every step keeps the sum.      *)
LEMMA CommittedSumInit ==
    ASSUME Assumptions, TxInit
    PROVE  CommittedSum
<1> DEFINE count == [S \in SUBSET Accounts |-> 0]
<1>1. Running("idle")
  BY DEF TxInit, Running, Idle
<1>2. Committed.lp = [a \in Accounts |-> 0] /\ Committed.total_supply = 0
  BY <1>1, CommittedAt, StoreFields DEF TxInit, PairInit
<1>3. count \in [SUBSET Accounts -> Nat] /\ count[{}] = 0 /\ count[Accounts] = 0
  OBVIOUS
<1>4. ASSUME NEW S \in SUBSET Accounts, NEW x \in Accounts \ S
      PROVE  count[S \cup {x}] = count[S] + Committed.lp[x]
  <2>1. S \cup {x} \in SUBSET Accounts /\ Committed.lp[x] = 0
    BY <1>2
  <2> QED
    BY <2>1
<1> HIDE DEF count
<1> QED
  BY <1>2, <1>3, <1>4 DEF CommittedSum, Counts

(* ... whichever part of a transaction it is.                              *)
LEMMA CommittedSumStep ==
    ASSUME Assumptions, TxInv, PlanInv, CommittedSum, [TxNext]_txVars
    PROVE  CommittedSum'
<1>1. PICK holds \in [Accounts -> Nat], total \in Nat :
        holds = Committed.lp /\ total = Committed.total_supply
  BY CommittedTypes DEF CommittedTypeOK
<1>2. LpMoves(holds, total, Committed'.lp, Committed'.total_supply)
  BY <1>1, CommittedTypes, StepIsPairStep, CommittedMovesLp
<1>3. Counts(Committed'.lp, Committed'.total_supply)
  BY <1>1, <1>2, MovesKeepSum DEF CommittedSum
<1> QED
  BY <1>3 DEF CommittedSum, Counts

(* Nothing that withdraw_liquidity returns is more than is there: refunds  *)
(* are parts of the reserves, because the amount is part of the supply.    *)
LEMMA RefundWithinReserve ==
    ASSUME Assumptions, TxInv, NEW amount \in Nat, WithdrawalAccepted(amount),
           amount <= saved.total_supply, NEW i \in Assets
    PROVE  Refund(amount)[i] <= saved.reserve[i]
<1>1. PICK pool \in Nat, total \in Nat, part \in {Refund(amount)[i]} :
        pool = saved.reserve[i] /\ total = saved.total_supply
  BY DEF TxInv, StoreOK, U128
<1>2. /\ amount # 0 /\ amount <= total
      /\ part = ShareInAsset(pool, amount, total) /\ part # None
  BY <1>1 DEF WithdrawalAccepted, Refund
<1>3. part \in Nat /\ part * total <= pool * amount
  BY <1>2, ShareBounds
<1>4. total * part <= total * pool
  <2>1. pool * amount <= pool * total /\ pool * amount \in Nat /\ pool * total \in Nat
    BY <1>2, ProductMonotone
  <2>2. part * total = total * part /\ pool * total = total * pool /\ part * total \in Nat
    BY <1>3, ProductMonotone
  <2> QED
    BY <1>3, <2>1, <2>2
<1>5. part <= pool
  BY <1>2, <1>3, <1>4, CancelFactor
<1> QED
  BY <1>1, <1>5

(* So both its transfers and its burn are covered, whichever is next.      *)
LEMMA WithdrawalCovered ==
    ASSUME Assumptions, TxInv, PlanInv, CommittedSum, Running("dispatch"), Withdrawing
    PROVE  /\ Head(tx.messages).kind = "transfer" =>
                reserve[Head(tx.messages).asset] >= Head(tx.messages).amount
           /\ Head(tx.messages).kind = "burn" =>
                /\ escrow >= Head(tx.messages).amount
                /\ total_supply >= Head(tx.messages).amount
<1>1. PICK amount \in WithdrawAmounts \cup {saved.lp[tx.sender]}, done \in SUBSET Assets :
        /\ WithdrawalAccepted(amount)
        /\ Refunded(amount, done)
        /\ total_supply = saved.total_supply
        /\ WithdrawalMessages(amount, done)
  BY DEF Withdrawing
<1>2. PICK sender \in Accounts : sender = tx.sender
  BY NextMessageFacts DEF Answers
<1>3. PICK refund, m : refund = Refund(amount) /\ m = Head(tx.messages)
  OBVIOUS
<1>4. /\ saved.reserve \in [Assets -> Nat] /\ saved.lp \in [Accounts -> Nat]
      /\ saved.total_supply \in Nat
  BY DEF TxInv, StoreOK, U128
<1>5. amount \in Nat
  BY <1>2, <1>4 DEF Assumptions, PairAssumption
<1>6. amount <= saved.total_supply
  <2>1. Committed = saved
    BY CommittedAt DEF Running
  <2>2. PICK holds \in [Accounts -> Nat], total \in Nat :
          holds = saved.lp /\ total = saved.total_supply
    BY <1>4
  <2>3. holds[sender] <= total
    BY <2>1, <2>2, PartOfSupply DEF CommittedSum
  <2>4. holds[sender] >= amount
    BY <1>1, <1>2, <2>2 DEF WithdrawalAccepted
  <2> QED
    BY <1>5, <2>2, <2>3, <2>4
<1>7. \A i \in Assets : refund[i] \in Nat /\ refund[i] <= saved.reserve[i]
  BY <1>1, <1>3, <1>5, <1>6, RefundTypes, RefundWithinReserve
<1>8. \A i \in Assets : i \notin done => reserve[i] = saved.reserve[i]
  BY <1>1, <1>4 DEF Refunded, Part
<1>9. ASSUME NEW i \in Assets, i \notin done, m = TransferMsg(sender, i, refund[i])
      PROVE  m.kind = "transfer" /\ reserve[m.asset] >= m.amount
  <2>1. m.kind = "transfer" /\ m.asset = i /\ m.amount = refund[i]
    BY <1>9 DEF TransferMsg
  <2> QED
    BY <1>4, <1>7, <1>8, <1>9, <2>1
<1>10. ASSUME m = Burn(amount)
       PROVE  m.kind = "burn" /\ escrow >= m.amount /\ total_supply >= m.amount
  <2>1. m.kind = "burn" /\ m.amount = amount
    BY <1>10 DEF Burn
  <2>2. escrow = amount
    BY <1>3, <2>1, NextMessageFacts
  <2> QED
    BY <1>1, <1>4, <1>5, <1>6, <2>1, <2>2
<1>11. \/ done = {} /\ m = TransferMsg(sender, 0, refund[0])
       \/ done = {0} /\ m = TransferMsg(sender, 1, refund[1])
       \/ m = Burn(amount)
  BY <1>1, <1>2, <1>3 DEF WithdrawalMessages
<1>12. 0 \in Assets /\ 1 \in Assets
  BY DEF Assets
<1> QED
  BY <1>3, <1>9, <1>10, <1>11, <1>12

(* A swap pays out of what the pool has.                                   *)
LEMMA SwapCovered ==
    ASSUME Assumptions, TxInv, PlanInv, Running("dispatch"), Swapping
    PROVE  /\ Head(tx.messages).kind = "transfer"
           /\ reserve[Head(tx.messages).asset] >= Head(tx.messages).amount
<1>1. PICK receiver \in Accounts, i \in Assets, amount \in SwapAmounts,
           belief_price \in BeliefPrices, max_spread \in MaxSpreads :
        /\ OfferAccepted(i, amount, belief_price, max_spread)
        /\ reserve = WithOffer(i, amount)
        /\ tx.messages = <<TransferMsg(receiver, Other(i), Payout(i, amount))>>
  BY DEF Swapping
<1>2. amount \in Nat /\ Other(i) \in Assets /\ Other(i) # i
  BY DEF Assumptions, PairAssumption, Assets, Other
<1>3. PICK pools \in [Assets -> Nat] : pools = Before.reserve
  <2>1. tx.sender \in Accounts /\ tx.surplus \in [Assets -> Nat]
    BY NextMessageFacts DEF Answers
  <2>2. Before.reserve = [j \in Assets |-> saved.reserve[j] + tx.surplus[j]]
    BY <2>1, BeforeFields DEF PlanInv
  <2>3. saved.reserve \in [Assets -> Nat]
    BY DEF TxInv, StoreOK
  <2> QED
    BY <2>1, <2>2, <2>3
<1>4. PICK payout : payout = Simulation(pools, i, amount).return_amount
  OBVIOUS
<1>5. payout \in Nat /\ payout <= pools[Other(i)]
  BY <1>1, <1>2, <1>3, <1>4, QuoteWithinPool, QuoteNeedsOffer
     DEF OfferAccepted, TxInv, PairTypeOK
<1>6. reserve[Other(i)] = pools[Other(i)]
  BY <1>1, <1>2, <1>3 DEF WithOffer
<1>7. Head(tx.messages) = TransferMsg(receiver, Other(i), payout)
  BY <1>1, <1>3, <1>4 DEF Payout
<1>8. /\ Head(tx.messages).kind = "transfer" /\ Head(tx.messages).asset = Other(i)
      /\ Head(tx.messages).amount = payout
  BY <1>7 DEF TransferMsg
<1> QED
  BY <1>2, <1>5, <1>6, <1>8

(* A deposit fetches and mints only.                                       *)
LEMMA DepositingCovered ==
    ASSUME Depositing
    PROVE  Head(tx.messages).kind \notin {"transfer", "burn"}
<1>1. PICK receiver \in Accounts, deposits \in [Assets -> ProvideAmounts], done \in SUBSET Assets :
        DepositMessages(receiver, deposits, done)
  BY DEF Depositing
<1> QED
  BY <1>1 DEF DepositMessages, TransferFrom, Mint

(* The handlers of the pair return no transfer and no burn that the        *)
(* ledgers must refuse for want of funds: refunds and payouts are within   *)
(* the reserves as they are when the message is carried out, and the LP    *)
(* tokens to burn are in the pair's hands and part of the supply.          *)
THEOREM MessagesAlwaysCovered == TxSpec => []MessagesCovered
<1>1. TxInit => CommittedSum
  BY CommittedSumInit, AssumptionsHold
<1>2. TxInv /\ PlanInv /\ CommittedSum /\ [TxNext]_txVars => CommittedSum'
  BY CommittedSumStep, AssumptionsHold
<1>3. TxInv /\ PlanInv /\ CommittedSum => MessagesCovered
  <2>1. SUFFICES ASSUME TxInv, PlanInv, CommittedSum, Running("dispatch")
                 PROVE  /\ Head(tx.messages).kind = "transfer" =>
                             reserve[Head(tx.messages).asset] >= Head(tx.messages).amount
                        /\ Head(tx.messages).kind = "burn" =>
                             /\ escrow >= Head(tx.messages).amount
                             /\ total_supply >= Head(tx.messages).amount
    BY DEF MessagesCovered
  <2>2. Depositing \/ Swapping \/ Withdrawing
    BY <2>1 DEF PlanInv
  <2> QED
    BY <2>1, <2>2, DepositingCovered, SwapCovered, WithdrawalCovered, AssumptionsHold
<1> QED
  BY <1>1, <1>2, <1>3, PlanInvariant, PTL DEF TxSpec
=============================================================================
