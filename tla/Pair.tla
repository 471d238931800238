-------------------------------- MODULE Pair --------------------------------
(***************************************************************************)
(* A stable pair (contracts/pair) with the accounts that use it and the    *)
(* token ledgers it trades on.  An action is one transaction: the handler, *)
(* every query it makes and every message it returns, which the chain runs *)
(* atomically.  A transaction that fails anywhere is rolled back, so it is *)
(* no step.                                                                *)
(*                                                                         *)
(* The ledgers are not part of the repository's own code: reserve is what  *)
(* the bank and cw20 contracts report as the pair's balances, wallet the   *)
(* balances of the accounts, lp and total_supply the state of the LP       *)
(* token.  Both kinds of ledger refuse to move a zero amount or more than  *)
(* the sender has, and a token counts its supply in 128 bits.  Accounts    *)
(* have approved the pair to take their deposits.                          *)
(***************************************************************************)
EXTENDS AmpRamp, StableMath

CONSTANTS
    Accounts,           \* who may call the pair
    Owner,              \* the owner its factory reports
    IsNative,           \* IsNative[i]: asset i is a native coin, not a cw20 token
    Precision,          \* Precision[i]: the decimals of asset i
    LP_PRECISION,       \* 6: the decimals of the LP token
    TWAP_PRECISION,     \* the decimals of the accumulated prices
    MINIMUM_AMP,        \* deposits are cut to the pool's ratio at this amplification
    InitialWallet,      \* bound: what each account owns of each asset at first
    ProvideAmounts, SwapAmounts, WithdrawAmounts, DonateAmounts,   \* amounts callers pass
    LpAmounts,          \* amounts of LP tokens moved or burnt by their holders
    BeliefPrices, MaxSpreads       \* options callers pass, None among them

Assets == {0, 1}
Other(i) == 1 - i

ASSUME PairAssumption ==
    /\ Owner \in Accounts
    /\ IsNative \in [Assets -> BOOLEAN]
    /\ Precision \in [Assets -> 0 .. MaxPrecision]
    /\ LP_PRECISION \in 0 .. MaxPrecision
    /\ TWAP_PRECISION \in 0 .. MaxPrecision
    /\ MINIMUM_AMP \in Nat
    /\ InitialWallet \in [Assets -> Nat]
    /\ ProvideAmounts \subseteq Nat
    /\ SwapAmounts \subseteq Nat
    /\ WithdrawAmounts \subseteq Nat
    /\ DonateAmounts \subseteq Nat
    /\ LpAmounts \subseteq Nat
    /\ BeliefPrices \cup MaxSpreads \subseteq Nat \cup {None}

VARIABLES
    reserve,                    \* [Assets -> Nat]
    wallet,                     \* [Accounts -> [Assets -> Nat]]
    lp, total_supply,           \* [Accounts -> Nat] and their sum
    block_time_last, price_cumulative_last     \* the price oracle in Config

oracleVars == <<block_time_last, price_cumulative_last>>
ledgerVars == <<reserve, wallet, lp, total_supply>>
pairVars == <<ampVars, ledgerVars, oracleVars>>

-----------------------------------------------------------------------------
(* The reserve of asset i in the units of precision q.                     *)
Adjusted(pools, i, q) == AdjustPrecision(pools[i], Precision[i], q)

GreaterPrecision == Greater(Precision[0], Precision[1])
OraclePrecision == Greater(GreaterPrecision, TWAP_PRECISION)

(* What one whole token of asset i buys, times a number of seconds, in the *)
(* units of the accumulators.                                              *)
PriceTimes(pools, i, seconds, amp) ==
    LET price == CalcAskAmount(Adjusted(pools, i, OraclePrecision),
                               Adjusted(pools, Other(i), OraclePrecision),
                               AdjustPrecision(1, 0, OraclePrecision),
                               amp)
    IN  AdjustPrecision(ToU128(seconds \otimes price), OraclePrecision, TWAP_PRECISION)

(* The same for the seconds since a block time, at the price of now.       *)
PriceTimesElapsed(pools, i, since) == PriceTimes(pools, i, now - since, CurrentAmp)

(* wrapping_add of Uint128                                                 *)
WrappingAddChecked(a, b) == ToU128(a \oplus b)       \* slip: checked_add

WrappingAdd(a, b) == (a + b) % (MaxU128 + 1)

(* Slip: an empty pool does not move block_time_last, so the first price   *)
(* counts for all the time before the first deposit, too.                  *)
AccumulatePricesLate(pools) ==
    IF now <= block_time_last \/ \E i \in Assets : pools[i] = 0
    THEN UNCHANGED oracleVars
    ELSE /\ block_time_last' = now
         /\ price_cumulative_last' = [i \in Assets |->
                WrappingAdd(price_cumulative_last[i],
                            PriceTimesElapsed(pools, i, block_time_last))]

(* accumulate_prices, and the save of its result: nothing in the rest of a *)
(* block that has already been accounted for, no price of an empty side.   *)
AccumulatePrices(pools) ==
    IF now <= block_time_last
    THEN UNCHANGED oracleVars
    ELSE /\ \A i \in Assets : Adjusted(pools, i, OraclePrecision) # None
         /\ block_time_last' = now
         /\ IF \E i \in Assets : pools[i] = 0
            THEN UNCHANGED price_cumulative_last
            ELSE LET gain == [i \in Assets |-> PriceTimesElapsed(pools, i, block_time_last)]
                 IN  /\ \A i \in Assets : gain[i] # None
                     /\ price_cumulative_last' = [i \in Assets |->
                            WrappingAdd(price_cumulative_last[i], gain[i])]

-----------------------------------------------------------------------------
(* The balances as they were before amount of asset i came with the call.  *)
QueriedBalances(queried, i, amount) == queried      \* slip: nothing is taken off

Without(queried, i, amount) == [queried EXCEPT ![i] = @ - amount]

(* The deposit that counts: at MINIMUM_AMP the surplus over the ratio of   *)
(* the pool is not (though it is taken all the same).                      *)
EvaluatedRaised(pools, deposits) ==     \* slip: a deposit is raised to the ratio
    LET optimal == [i \in Assets |->
            MultiplyRatio(pools[i], deposits[Other(i)], pools[Other(i)])]
    IN  IF \E i \in Assets : pools[i] = 0 THEN deposits
        ELSE [i \in Assets |-> Greater(deposits[i], optimal[i])]

Evaluated(pools, deposits) ==
    LET optimal == [i \in Assets |->
            MultiplyRatio(pools[i], deposits[Other(i)], pools[Other(i)])]
    IN  IF CurrentAmp # MINIMUM_AMP \/ \E i \in Assets : pools[i] = 0
        THEN deposits
        ELSE IF None \in {optimal[0], optimal[1]} THEN [i \in Assets |-> None]
        ELSE IF deposits[1] > optimal[1] THEN [deposits EXCEPT ![1] = optimal[1]]
        ELSE IF deposits[0] > optimal[0] THEN [deposits EXCEPT ![0] = optimal[0]]
        ELSE deposits

(* The LP tokens minted for a deposit: the geometric mean for the first    *)
(* one, then the growth of D.                                              *)
Share(pools, deposits) ==
    LET p == [i \in Assets |-> Adjusted(pools, i, GreaterPrecision)]
        d == [i \in Assets |-> Adjusted(deposits, i, GreaterPrecision)]
        sum == [i \in Assets |-> ToU128(p[i] \oplus d[i])]
        before == ComputeD(Leverage(CurrentAmp), p[0], p[1])
        after == ComputeD(Leverage(CurrentAmp), sum[0], sum[1])
    IN  IF None \in {d[0], d[1]} THEN None
        ELSE IF total_supply = 0
        THEN AdjustPrecision(ToU128(IntegerSqrt(d[0] * d[1])), GreaterPrecision, LP_PRECISION)
        ELSE MultiplyRatio(total_supply, after \ominus before, before)

(* provide_liquidity: native coins arrive with the call and are already in *)
(* the queried balance, cw20 tokens are fetched by the returned messages.  *)
ProvideLiquidity(sender, receiver, deposits) ==
    LET queried == [i \in Assets |-> reserve[i] + IF IsNative[i] THEN deposits[i] ELSE 0]
        pools == [i \in Assets |-> queried[i] - IF IsNative[i] THEN deposits[i] ELSE 0]
        share == Share(pools, Evaluated(pools, deposits))
    IN  /\ \A i \in Assets : wallet[sender][i] >= deposits[i]
        /\ \E i \in Assets : deposits[i] # 0
        /\ \A i \in Assets : deposits[i] # 0 \/ queried[i] # 0
        /\ share \notin {None, 0}
        /\ total_supply + share \in U128
        /\ AccumulatePrices(pools)
        /\ reserve' = [i \in Assets |-> reserve[i] + deposits[i]]
        /\ wallet' = [wallet EXCEPT ![sender] = [i \in Assets |-> @[i] - deposits[i]]]
        /\ lp' = [lp EXCEPT ![receiver] = @ + share]
        /\ total_supply' = total_supply + share
        /\ UNCHANGED ampVars

(* withdraw_liquidity, called by the LP token with the amount sender has   *)
(* sent to the pair, which is burnt at the end.                            *)
WithdrawLiquidity(sender, amount) ==
    LET refund == [i \in Assets |-> ShareInAsset(reserve[i], amount, total_supply)]
    IN  /\ amount # 0
        /\ lp[sender] >= amount
        /\ total_supply >= amount
        /\ \A i \in Assets : refund[i] \notin {None, 0} /\ refund[i] <= reserve[i]
        /\ AccumulatePrices(reserve)
        /\ reserve' = [i \in Assets |-> reserve[i] - refund[i]]
        /\ wallet' = [wallet EXCEPT ![sender] = [i \in Assets |-> @[i] + refund[i]]]
        /\ lp' = [lp EXCEPT ![sender] = @ - amount]
        /\ total_supply' = total_supply - amount
        /\ UNCHANGED ampVars

(* query_simulation, on the balances of a pair: sell an amount of asset i. *)
Simulation(pools, i, amount) ==
    ComputeSwap(pools[i], Precision[i], pools[Other(i)], Precision[Other(i)],
                amount, CurrentAmp)

(* swap: of a native coin by the Swap message, of a cw20 token by its Send *)
(* hook.  Either way the offer is in the queried balance already.  The     *)
(* spread is judged on the amount before the commission.                   *)
Swap(sender, receiver, i, amount, belief_price, max_spread) ==
    LET queried == [reserve EXCEPT ![i] = @ + amount]
        pools == Without(queried, i, amount)
        quote == Simulation(pools, i, amount)
        payout == quote.return_amount
        paid == [wallet EXCEPT ![sender][i] = @ - amount]
    IN  /\ IsNative[i] \/ amount # 0
        /\ wallet[sender][i] >= amount
        /\ ~Void(quote)
        /\ WithinMaxSpread(belief_price, max_spread, amount,
                           payout + quote.commission_amount, quote.spread_amount)
        /\ payout # 0
        /\ AccumulatePrices(pools)
        /\ payout <= queried[Other(i)]
        /\ reserve' = [queried EXCEPT ![Other(i)] = @ - payout]
        /\ wallet' = [paid EXCEPT ![receiver][Other(i)] = @ + payout]
        /\ UNCHANGED <<lp, total_supply, ampVars>>

(* update_config: only the owner of the factory bends the amplification.   *)
UpdateConfig(sender) ==
    /\ sender = Owner
    /\ \/ \E amp \in 0 .. MAX_AMP + 1, end \in RampEnds : StartChangingAmp(amp, end)
       \/ StopChangingAmp
    /\ UNCHANGED <<ledgerVars, oracleVars>>

(* Anybody may send assets to the pair without calling it.                 *)
Donate(sender, i, amount) ==
    /\ amount # 0
    /\ wallet[sender][i] >= amount
    /\ reserve' = [reserve EXCEPT ![i] = @ + amount]
    /\ wallet' = [wallet EXCEPT ![sender][i] = @ - amount]
    /\ UNCHANGED <<lp, total_supply, oracleVars, ampVars>>

(* The LP token forwards Transfer and Burn of any holder to cw20-base; the *)
(* pair is not asked.                                                      *)
TransferLp(sender, receiver, amount) ==
    LET debited == [lp EXCEPT ![sender] = @ - amount]
    IN  /\ amount # 0
        /\ lp[sender] >= amount
        /\ lp' = [debited EXCEPT ![receiver] = @ + amount]
        /\ UNCHANGED <<reserve, wallet, total_supply, oracleVars, ampVars>>

BurnLp(sender, amount) ==
    /\ amount # 0
    /\ lp[sender] >= amount
    /\ total_supply >= amount
    /\ lp' = [lp EXCEPT ![sender] = @ - amount]
    /\ total_supply' = total_supply - amount
    /\ UNCHANGED <<reserve, wallet, oracleVars, ampVars>>

NextBlock == Tick /\ UNCHANGED <<ledgerVars, oracleVars>>

-----------------------------------------------------------------------------
PairInit ==
    /\ AmpInit
    /\ reserve = [i \in Assets |-> 0]
    /\ wallet = [a \in Accounts |-> InitialWallet]
    /\ lp = [a \in Accounts |-> 0]
    /\ total_supply = 0
    /\ block_time_last = 0
    /\ price_cumulative_last = [i \in Assets |-> 0]

Call(sender) ==
    \/ \E receiver \in Accounts, d0, d1 \in ProvideAmounts :
          ProvideLiquidity(sender, receiver, [i \in Assets |-> IF i = 0 THEN d0 ELSE d1])
    \/ \E amount \in WithdrawAmounts \cup {lp[sender]} : WithdrawLiquidity(sender, amount)
    \/ \E receiver \in Accounts, i \in Assets, amount \in SwapAmounts,
          belief_price \in BeliefPrices, max_spread \in MaxSpreads :
          Swap(sender, receiver, i, amount, belief_price, max_spread)

Donation(sender) == \E i \in Assets, amount \in DonateAmounts : Donate(sender, i, amount)

LpCall(sender) ==
    \E amount \in LpAmounts :
        \/ \E receiver \in Accounts : TransferLp(sender, receiver, amount)
        \/ BurnLp(sender, amount)

PairNext ==
    \/ \E sender \in Accounts :
          Call(sender) \/ UpdateConfig(sender) \/ Donation(sender) \/ LpCall(sender)
    \/ NextBlock

PairSpec == PairInit /\ [][PairNext]_pairVars

-----------------------------------------------------------------------------
(* Types of the ledgers and of the oracle, with what they bound: no rounding*)
(* drives a ledger below zero, and the oracle is never ahead of the clock. *)
LedgerTypeOK ==
    /\ reserve \in [Assets -> Nat]
    /\ wallet \in [Accounts -> [Assets -> Nat]]
    /\ lp \in [Accounts -> Nat]
    /\ total_supply \in U128
    /\ block_time_last \in 0 .. now
    /\ price_cumulative_last \in [Assets -> U128]

PairTypeOK == AmpTypeOK /\ LedgerTypeOK

(* LP tokens are claims on something: no order of deposits, trades,        *)
(* donations and withdrawals leaves tokens outstanding on an empty pool,   *)
(* which no later deposit could price (D would be zero).                   *)
SharesBacked ==
    total_supply > 0 => \E i \in Assets : reserve[i] > 0

(* A withdrawal never takes more than its share of either asset: what is   *)
(* left per remaining LP token does not shrink, in spite of the rounding   *)
(* through a Decimal.                                                      *)
FairWithdrawal ==
    [][total_supply' < total_supply =>
         \A i \in Assets : reserve'[i] * total_supply >= reserve[i] * total_supply']_pairVars

PoolD(pools) ==
    ComputeD(Leverage(CurrentAmp), Adjusted(pools, 0, GreaterPrecision),
             Adjusted(pools, 1, GreaterPrecision))

(* A deposit does not dilute the earlier providers: the value D behind one *)
(* LP token is not smaller after minting, also when only a part of the     *)
(* deposit counts (MINIMUM_AMP), when it is one-sided and whatever Newton's*)
(* iteration leaves as error.                                              *)
NoDilution ==
    [][total_supply > 0 /\ total_supply' > total_supply =>
         PoolD(reserve') * total_supply >= PoolD(reserve) * total_supply']_pairVars

(* The payout of every executed swap is what query_simulation would have   *)
(* answered before the call, when the offer was not yet in the pool, for   *)
(* both kinds of asset.                                                    *)
SwapPaysSimulation ==
    [][\A i \in Assets :
         total_supply' = total_supply /\ reserve'[Other(i)] < reserve[Other(i)] =>
            reserve[Other(i)] - reserve'[Other(i)] =
               Simulation(reserve, i, reserve'[i] - reserve[i]).return_amount]_pairVars

(* Whether the reserves are on or above the curve of the invariant d at    *)
(* the amplification of now, but for slack units of asset 1 - i.           *)
PoolOnCurve(pools, i, slack, d) ==
    OnCurve(Leverage(CurrentAmp), Adjusted(pools, i, GreaterPrecision),
            Adjusted(pools, Other(i), GreaterPrecision) + slack, d)

(* A swap does not cost the providers: the pool stays on or above every    *)
(* curve it was on (those of more than the sum of the reserves are out of  *)
(* reach), so the exact invariant does not shrink, whatever the two Newton *)
(* iterations, run for at most ITERATIONS passes and rounded down in every *)
(* one, leave as error.  A unit of the asset paid may be missing, unless   *)
(* the trader has paid a commission, which stays in the pool.              *)
SwapKeepsCurve ==
    [][\A i \in Assets :
         total_supply' = total_supply /\ reserve'[Other(i)] < reserve[Other(i)] =>
            LET quote == Simulation(reserve, i, reserve'[i] - reserve[i])
                slack == IF quote.commission_amount = 0 THEN 1 ELSE 0
                sum == Adjusted(reserve, 0, GreaterPrecision) + Adjusted(reserve, 1, GreaterPrecision)
            IN  \A d \in 0 .. sum :
                   PoolOnCurve(reserve, i, 0, d) => PoolOnCurve(reserve', i, slack, d)]_pairVars

(* The spread limit a trader ends up with, for each option a caller passes.*)
SpreadLimits == {IF m = None THEN DEFAULT_SLIPPAGE ELSE m : m \in MaxSpreads}

(* The return a trader expects of an offer, for each belief price passed.  *)
ExpectedReturns(offer) ==
    {IF b = None THEN offer ELSE TimesDecimal(offer, DecimalRatio(DECIMAL_ONE, b)) :
        b \in BeliefPrices}

(* What a trader is sure of, end to end: whatever happened to the pool     *)
(* before the call is executed, the payout is worth the offer at the       *)
(* believed price (1:1 without one) less the accepted spread and the fee,  *)
(* or the call has no effect.  (Assets of equal precision; one unit of     *)
(* Decimal rounding.)                                                      *)
SwapNearParity ==
    [][\A i \in Assets :
         total_supply' = total_supply /\ reserve'[Other(i)] < reserve[Other(i)] =>
            \E limit \in SpreadLimits, expected \in ExpectedReturns(reserve'[i] - reserve[i]) :
               /\ limit <= MAX_ALLOWED_SLIPPAGE
               /\ (reserve[Other(i)] - reserve'[Other(i)]) * DECIMAL_ONE * DECIMAL_ONE
                    >= expected * (DECIMAL_ONE - limit - 1) * (DECIMAL_ONE - GlobalFee)]_pairVars

(* A provider gets out: with both reserves positive, the update of the     *)
(* price oracle that every withdrawal makes in a fresh block succeeds.     *)
OracleAllowsWithdrawal ==
    now > block_time_last /\ (\A i \in Assets : reserve[i] > 0) =>
        \A i \in Assets :
            LET gain == PriceTimesElapsed(reserve, i, block_time_last)
            IN  gain # None /\ WrappingAdd(price_cumulative_last[i], gain) # None

(* LP tokens that stand for a whole unit of each asset, and for one step   *)
(* of the Decimal through which the share is computed.                     *)
WorthUnits(amount) ==
    \A i \in Assets :
        amount * reserve[i] * DECIMAL_ONE >= total_supply * (DECIMAL_ONE + reserve[i])

(* A provider can always leave: LP tokens that stand for a unit of each    *)
(* asset can be turned into assets in any state the pair gets into.        *)
(* Neither the update of the oracle nor the two roundings of the share nor *)
(* a refund that a ledger would refuse stands in the way of a withdrawal;  *)
(* only smaller amounts may fail.  (Pools whose numbers outgrow U256 break *)
(* it: there OracleAllowsWithdrawal is false.)                             *)
ProviderCanLeave ==
    \A a \in Accounts : \A amount \in (WithdrawAmounts \cup {lp[a]}) \cap 1 .. lp[a] :
        WorthUnits(amount) =>
            /\ OracleAllowsWithdrawal
            /\ \A i \in Assets :
                  ShareInAsset(reserve[i], amount, total_supply) \in 1 .. reserve[i]
=============================================================================
