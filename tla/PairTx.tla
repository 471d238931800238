------------------------------- MODULE PairTx -------------------------------
(***************************************************************************)
(* The calls of a pair message by message.  A call of the pair is several  *)
(* steps of several contracts: the bank moves the coins that come with it, *)
(* or a cw20 token moves the amount it was told to send and calls the pair *)
(* itself; the handler tests, computes and returns messages; the chain     *)
(* gives these one by one to the ledgers.  When any step fails, the chain  *)
(* restores the state of before.                                           *)
(*                                                                         *)
(* The variables of Pair hold the state as the running transaction sees    *)
(* it.  Callers are not trusted here: they name assets in any order, also  *)
(* assets the pair does not trade, send coins that are not what they say,  *)
(* and call Receive themselves.  Out of each transaction comes a step of   *)
(* Pair, or nothing.                                                       *)
(***************************************************************************)
EXTENDS Pair, Sequences

CONSTANT MaxCalls           \* bound: calls in a behaviour

VARIABLES
    escrow,         \* LP tokens that the pair itself holds
    tx,             \* the transaction under way: its stage and what it carries
    saved,          \* the state before it
    calls

txVars == <<pairVars, escrow, tx, saved, calls>>

Foreign == 2                        \* a native coin that the pair does not trade
Infos == Assets \cup {Foreign}
NativeInfo(info) == info \in {i \in Assets : IsNative[i]} \cup {Foreign}

LpToken == 3                        \* who calls Receive besides a contract in Assets
Forger == 4                         \* anybody else

NoFunds == [info \in Infos |-> 0]
NoSurplus == [i \in Assets |-> 0]
Idle == [stage |-> "idle"]
Running(stage) == tx.stage = stage

Store == [reserve |-> reserve, wallet |-> wallet, lp |-> lp, total_supply |-> total_supply,
          block_time_last |-> block_time_last,
          price_cumulative_last |-> price_cumulative_last, escrow |-> escrow]

-----------------------------------------------------------------------------
(* The messages that handlers return.                                      *)
TransferFrom(owner, i, amount) ==
    [kind |-> "transfer_from", account |-> owner, asset |-> i, amount |-> amount]
TransferMsg(recipient, i, amount) ==
    [kind |-> "transfer", account |-> recipient, asset |-> i, amount |-> amount]
Mint(recipient, amount) == [kind |-> "mint", account |-> recipient, amount |-> amount]
Burn(amount) == [kind |-> "burn", amount |-> amount]

(* The balances of the pair, as the bank or the asset's contract reports   *)
(* them in the middle of a call: coins are there already.                  *)
QueryPool(i) == reserve[i]
QueryPools == [i \in Assets |-> QueryPool(i)]

(* assert_sent_native_token_balance: a native coin came in the amount that *)
(* the message states.                                                     *)
SentAtLeast(info, amount, funds) ==         \* slip: more than stated will do
    NativeInfo(info) => funds[info] >= amount

Sent(info, amount, funds) == NativeInfo(info) => funds[info] = amount

(* The bank credits the pair before the call.                              *)
BankMoves(sender, funds) ==
    /\ \A i \in Assets : wallet[sender][i] >= funds[i]
    /\ wallet' = [wallet EXCEPT ![sender] = [i \in Assets |-> @[i] - funds[i]]]
    /\ reserve' = [i \in Assets |-> reserve[i] + funds[i]]
    /\ UNCHANGED <<lp, total_supply, escrow>>

Begins(call) ==
    /\ Running("idle")
    /\ calls < MaxCalls
    /\ calls' = calls + 1
    /\ saved' = Store
    /\ tx' = call
    /\ UNCHANGED <<oracleVars, ampVars>>

SubmitProvide(sender, receiver, infos, amounts, funds) ==
    /\ Begins([stage |-> "provide", sender |-> sender, receiver |-> receiver,
               infos |-> infos, amounts |-> amounts, funds |-> funds])
    /\ BankMoves(sender, funds)

SubmitSwap(sender, receiver, info, amount, funds, belief_price, max_spread) ==
    /\ Begins([stage |-> "swap", sender |-> sender, receiver |-> receiver, offer |-> info,
               amount |-> amount, funds |-> funds,
               belief_price |-> belief_price, max_spread |-> max_spread])
    /\ BankMoves(sender, funds)

Hook(caller, sender, receiver, amount, hook, belief_price, max_spread) ==
    [stage |-> "receive", caller |-> caller, sender |-> sender, receiver |-> receiver,
     amount |-> amount, hook |-> hook,
     belief_price |-> belief_price, max_spread |-> max_spread]

(* Send of a cw20 token: the amount is the pair's before its hook runs.    *)
SendAsset(sender, receiver, i, amount, hook, belief_price, max_spread) ==
    /\ ~IsNative[i]
    /\ amount # 0
    /\ Begins(Hook(i, sender, receiver, amount, hook, belief_price, max_spread))
    /\ BankMoves(sender, [NoFunds EXCEPT ![i] = amount])

SendLp(sender, receiver, amount, hook, belief_price, max_spread) ==
    /\ amount # 0
    /\ lp[sender] >= amount
    /\ Begins(Hook(LpToken, sender, receiver, amount, hook, belief_price, max_spread))
    /\ lp' = [lp EXCEPT ![sender] = @ - amount]
    /\ escrow' = escrow + amount
    /\ UNCHANGED <<reserve, wallet, total_supply>>

(* Anybody may call Receive and claim that an amount was sent.             *)
ForgeReceive(sender, receiver, amount, hook, belief_price, max_spread) ==
    /\ Begins(Hook(Forger, sender, receiver, amount, hook, belief_price, max_spread))
    /\ UNCHANGED <<reserve, wallet, lp, total_supply, escrow>>

-----------------------------------------------------------------------------
(* The handlers.  Each ends with its messages and with the coins that came *)
(* along and are not part of what was asked for.                           *)
Returns(messages, sender, surplus) ==
    /\ tx' = [stage |-> "dispatch", messages |-> messages, sender |-> sender,
              surplus |-> surplus]
    /\ UNCHANGED <<ledgerVars, escrow, saved, calls, ampVars>>

(* provide_liquidity                                                       *)
HandleProvide ==
    /\ Running("provide")
    /\ \A k \in 1 .. 2 : Sent(tx.infos[k], tx.amounts[k], tx.funds)
    /\ \A i \in Assets : \E k \in 1 .. 2 : tx.infos[k] = i
    /\ LET deposits == [i \in Assets |->
               IF tx.infos[1] = i THEN tx.amounts[1] ELSE tx.amounts[2]]
           pools == [i \in Assets |->
               QueryPool(i) - IF IsNative[i] THEN deposits[i] ELSE 0]
           share == Share(pools, Evaluated(pools, deposits))
           fetch(i) == IF IsNative[i] \/ deposits[i] = 0 THEN <<>>
                       ELSE <<TransferFrom(tx.sender, i, deposits[i])>>
       IN  /\ \E i \in Assets : deposits[i] # 0
           /\ \A i \in Assets : deposits[i] # 0 \/ QueryPool(i) # 0
           /\ share \notin {None, 0}
           /\ AccumulatePrices(pools)
           /\ Returns(fetch(0) \o fetch(1) \o <<Mint(tx.receiver, share)>>,
                      tx.sender, NoSurplus)

(* swap, on behalf of sender.  Coins of the ask asset that came along are  *)
(* in the queried balance like any other.                                  *)
HandleOffer(offer, funds) ==
    LET pools == Without(QueryPools, offer, tx.amount)
        quote == Simulation(pools, offer, tx.amount)
    IN  /\ Sent(offer, tx.amount, funds)
        /\ offer \in Assets
        /\ pools[offer] >= 0
        /\ ~Void(quote)
        /\ WithinMaxSpread(tx.belief_price, tx.max_spread, tx.amount,
                           quote.return_amount + quote.commission_amount,
                           quote.spread_amount)
        /\ AccumulatePrices(pools)
        /\ Returns(<<TransferMsg(tx.receiver, Other(offer), quote.return_amount)>>,
                   tx.sender, [i \in Assets |-> IF i = offer THEN 0 ELSE funds[i]])

(* ExecuteMsg::Swap takes native coins only.                               *)
HandleSwapOfAny ==              \* slip: also a cw20 token, which did not come along
    /\ Running("swap")
    /\ HandleOffer(tx.offer, tx.funds)

HandleSwap ==
    /\ Running("swap")
    /\ NativeInfo(tx.offer)
    /\ HandleOffer(tx.offer, tx.funds)

(* withdraw_liquidity                                                      *)
HandleWithdrawKeeping ==        \* slip: the LP tokens are not burnt
    LET refund == [i \in Assets |-> ShareInAsset(QueryPool(i), tx.amount, total_supply)]
    IN  /\ \A i \in Assets : refund[i] # None
        /\ AccumulatePrices(QueryPools)
        /\ Returns(<<TransferMsg(tx.sender, 0, refund[0]),
                     TransferMsg(tx.sender, 1, refund[1])>>, tx.sender, NoSurplus)

HandleWithdraw ==
    LET refund == [i \in Assets |-> ShareInAsset(QueryPool(i), tx.amount, total_supply)]
    IN  /\ \A i \in Assets : refund[i] # None
        /\ AccumulatePrices(QueryPools)
        /\ Returns(<<TransferMsg(tx.sender, 0, refund[0]),
                     TransferMsg(tx.sender, 1, refund[1]), Burn(tx.amount)>>,
                   tx.sender, NoSurplus)

(* receive_cw20: a hook counts only when the right contract calls it.      *)
HandleReceive ==
    /\ Running("receive")
    /\ \/ /\ tx.hook = "swap"
          /\ tx.caller \in {i \in Assets : ~IsNative[i]}
          /\ HandleOffer(tx.caller, NoFunds)
       \/ /\ tx.hook = "withdraw"
          /\ tx.caller = LpToken
          /\ HandleWithdraw

-----------------------------------------------------------------------------
(* The ledgers carry out the messages, in order.                           *)
NextMessage(kind) == Running("dispatch") /\ Head(tx.messages).kind = kind

Dispatched ==
    /\ tx' = [tx EXCEPT !.messages = Tail(@),
                        !.stage = IF Tail(tx.messages) = <<>> THEN "settled" ELSE "dispatch"]
    /\ UNCHANGED <<oracleVars, saved, calls, ampVars>>

DispatchTransferFrom ==
    /\ NextMessage("transfer_from")
    /\ LET m == Head(tx.messages)
       IN  /\ wallet[m.account][m.asset] >= m.amount
           /\ wallet' = [wallet EXCEPT ![m.account][m.asset] = @ - m.amount]
           /\ reserve' = [reserve EXCEPT ![m.asset] = @ + m.amount]
    /\ UNCHANGED <<lp, total_supply, escrow>>
    /\ Dispatched

DispatchTransfer ==
    /\ NextMessage("transfer")
    /\ LET m == Head(tx.messages)
       IN  /\ m.amount # 0
           /\ reserve[m.asset] >= m.amount
           /\ wallet' = [wallet EXCEPT ![m.account][m.asset] = @ + m.amount]
           /\ reserve' = [reserve EXCEPT ![m.asset] = @ - m.amount]
    /\ UNCHANGED <<lp, total_supply, escrow>>
    /\ Dispatched

DispatchMint ==
    /\ NextMessage("mint")
    /\ LET m == Head(tx.messages)
       IN  /\ total_supply + m.amount \in U128
           /\ lp' = [lp EXCEPT ![m.account] = @ + m.amount]
           /\ total_supply' = total_supply + m.amount
    /\ UNCHANGED <<reserve, wallet, escrow>>
    /\ Dispatched

DispatchBurn ==
    /\ NextMessage("burn")
    /\ LET m == Head(tx.messages)
       IN  /\ escrow >= m.amount
           /\ total_supply >= m.amount
           /\ escrow' = escrow - m.amount
           /\ total_supply' = total_supply - m.amount
    /\ UNCHANGED <<reserve, wallet, lp>>
    /\ Dispatched

(* Nothing can fail any more: the surplus counts, then the call.           *)
Commit ==
    /\ Running("settled")
    /\ tx' = Idle
    /\ UNCHANGED <<pairVars, escrow, saved, calls>>

(* A test that fails, a ledger that refuses, not enough gas.               *)
Fail ==
    /\ ~Running("idle") /\ ~Running("settled")
    /\ reserve' = saved.reserve
    /\ wallet' = saved.wallet
    /\ lp' = saved.lp
    /\ total_supply' = saved.total_supply
    /\ block_time_last' = saved.block_time_last
    /\ price_cumulative_last' = saved.price_cumulative_last
    /\ escrow' = saved.escrow
    /\ tx' = Idle
    /\ UNCHANGED <<saved, calls, ampVars>>

-----------------------------------------------------------------------------
TxInit ==
    /\ PairInit
    /\ escrow = 0
    /\ tx = Idle
    /\ saved = Store
    /\ calls = 0

(* What comes with a call that speaks of some coins: just these, none of   *)
(* them, or more of one coin.                                              *)
FundsFor(stated) ==
    LET coins == [info \in Infos |-> IF NativeInfo(info) THEN stated[info] ELSE 0]
    IN  {coins, NoFunds} \cup
        {[coins EXCEPT ![info] = @ + amount] :
            info \in {i \in Assets : IsNative[i]}, amount \in DonateAmounts}

Submit(sender) ==
    \E receiver \in Accounts :
        \/ \E infos \in [1 .. 2 -> Infos], amounts \in [1 .. 2 -> ProvideAmounts] :
              \E funds \in FundsFor([info \in Infos |->
                     IF info = infos[1] THEN amounts[1]
                     ELSE IF info = infos[2] THEN amounts[2] ELSE 0]) :
                 SubmitProvide(sender, receiver, infos, amounts, funds)
        \/ \E belief_price \in BeliefPrices, max_spread \in MaxSpreads :
              \/ \E info \in Infos, amount \in SwapAmounts :
                    \E funds \in FundsFor([NoFunds EXCEPT ![info] = amount]) :
                       SubmitSwap(sender, receiver, info, amount, funds, belief_price, max_spread)
              \/ \E i \in Assets, amount \in SwapAmounts, hook \in {"swap", "withdraw"} :
                    SendAsset(sender, receiver, i, amount, hook, belief_price, max_spread)
              \/ \E amount \in WithdrawAmounts \cup {lp[sender]}, hook \in {"swap", "withdraw"} :
                    \/ SendLp(sender, receiver, amount, hook, belief_price, max_spread)
                    \/ ForgeReceive(sender, receiver, amount, hook, belief_price, max_spread)

(* Calls that are one message of one ledger, and the passing of time.      *)
SingleMessage ==
    /\ Running("idle")
    /\ \/ \E sender \in Accounts : UpdateConfig(sender) \/ Donation(sender) \/ LpCall(sender)
       \/ NextBlock
    /\ UNCHANGED <<escrow, tx, saved, calls>>

TxNext ==
    \/ \E sender \in Accounts : Submit(sender)
    \/ HandleProvide \/ HandleSwap \/ HandleReceive
    \/ DispatchTransferFrom \/ DispatchTransfer \/ DispatchMint \/ DispatchBurn
    \/ Commit
    \/ Fail
    \/ SingleMessage

TxSpec == TxInit /\ [][TxNext]_txVars

-----------------------------------------------------------------------------
(* What the world sees.  The moment before a transaction is committed is   *)
(* the moment at which the coins it carried too much count as a donation.  *)
Donated(store, sender, surplus) ==
    [store EXCEPT !.reserve = [i \in Assets |-> @[i] + surplus[i]],
                  !.wallet[sender] = [i \in Assets |-> @[i] - surplus[i]]]

Committed ==
    CASE Running("idle") -> Store
      [] Running("settled") -> Donated(saved, tx.sender, tx.surplus)
      [] OTHER -> saved

Atomic == INSTANCE Pair WITH
    reserve <- Committed.reserve,
    wallet <- Committed.wallet,
    lp <- Committed.lp,
    total_supply <- Committed.total_supply,
    block_time_last <- Committed.block_time_last,
    price_cumulative_last <- Committed.price_cumulative_last

(* Whatever callers send, and wherever a call fails, the pair does what    *)
(* Pair says: a forged or misdirected hook, an asset the pair does not     *)
(* trade, coins that do not match the message have no effect; every other  *)
(* call has its whole effect; coins that came along are a donation.        *)
CallsAreAtomic ==
    Atomic!PairInit /\ [][(UNCHANGED <<Committed, ampVars>>) \/ Atomic!PairNext]_txVars

(* SwapNearParity of what the world sees: between a trader's decision and  *)
(* the execution stand other transactions and the coins the call brings.   *)
CommittedSwapNearParity == Atomic!SwapNearParity

(* The pair does not return messages it cannot honour: the ledgers have    *)
(* what it transfers and burns, so that after the handler a call fails     *)
(* only for amounts of zero, a supply that is full, or deposits that are   *)
(* not there.                                                              *)
MessagesCovered ==
    Running("dispatch") =>
        LET m == Head(tx.messages)
        IN  /\ m.kind = "transfer" => reserve[m.asset] >= m.amount
            /\ m.kind = "burn" => escrow >= m.amount /\ total_supply >= m.amount

(* The LP tokens of a withdrawal pass through the pair's own balance and   *)
(* are gone with the call; none is ever left there.                        *)
NothingInEscrow == Running("idle") => escrow = 0
=============================================================================
