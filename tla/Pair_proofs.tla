----------------------------- MODULE Pair_proofs -----------------------------
(***************************************************************************)
(* Theorems about Pair for every value of its constants.  Pair implements  *)
(* AmpRamp, so what AmpRamp_proofs shows of the amplification holds of a   *)
(* pair; the ledgers and the oracle keep their types; LP tokens are always *)
(* backed and add up to the supply; withdrawals and deposits are fair;     *)
(* swaps pay what was simulated, within the trader's limits and within the *)
(* pool, and leave the pool on the curve that it was on.                   *)
(*                                                                         *)
(* Up to the last section the proofs use only the outermost operations of  *)
(* the arithmetic: a result is None or a natural number, a difference is   *)
(* not larger than what it was taken from, a division by zero has no       *)
(* result.  The last section rests on what StableMath_proofs shows of the  *)
(* two solvers.                                                            *)
(***************************************************************************)
EXTENDS Pair, StableMath_proofs

Assumptions == AmpAssumption /\ ParameterAssumption /\ MathAssumption /\ PairAssumption

-----------------------------------------------------------------------------
(* The amplification of a pair.                                            *)

(* No call of an account touches the amplification.                        *)
LEMMA CallKeepsAmp ==
    ASSUME NEW sender \in Accounts, Call(sender)
    PROVE  UNCHANGED ampVars
<1>1. ASSUME NEW receiver, NEW deposits, ProvideLiquidity(sender, receiver, deposits)
      PROVE  UNCHANGED ampVars
  BY <1>1 DEF ProvideLiquidity
<1>2. ASSUME NEW amount, WithdrawLiquidity(sender, amount)
      PROVE  UNCHANGED ampVars
  BY <1>2 DEF WithdrawLiquidity
<1>3. ASSUME NEW receiver, NEW i, NEW amount, NEW belief_price, NEW max_spread,
             Swap(sender, receiver, i, amount, belief_price, max_spread)
      PROVE  UNCHANGED ampVars
  BY <1>3 DEF Swap
<1> QED
  BY <1>1, <1>2, <1>3 DEF Call

(* Every step of a pair is a step of its ramp or leaves the ramp alone.    *)
LEMMA PairStepIsAmpStep ==
    ASSUME [PairNext]_pairVars
    PROVE  [AmpNext]_ampVars
<1>1. ASSUME NEW sender \in Accounts, Call(sender)
      PROVE  UNCHANGED ampVars
  BY <1>1, CallKeepsAmp
<1>2. ASSUME NEW sender \in Accounts, UpdateConfig(sender)
      PROVE  AmpNext
  BY <1>2 DEF UpdateConfig, AmpNext
<1>3. ASSUME NEW sender \in Accounts, Donation(sender) \/ LpCall(sender)
      PROVE  UNCHANGED ampVars
  BY <1>3 DEF Donation, Donate, LpCall, TransferLp, BurnLp
<1>4. CASE NextBlock
  BY <1>4 DEF NextBlock, AmpNext
<1>5. CASE UNCHANGED pairVars
  BY <1>5 DEF pairVars
<1> QED
  BY <1>1, <1>2, <1>3, <1>4, <1>5 DEF PairNext

(* A pair implements AmpRamp.                                              *)
THEOREM PairImplementsAmpRamp == PairSpec => AmpSpec
<1>1. PairInit => AmpInit
  BY DEF PairInit
<1>2. [PairNext]_pairVars => [AmpNext]_ampVars
  BY PairStepIsAmpStep
<1> QED
  BY <1>1, <1>2, PTL DEF PairSpec, AmpSpec

-----------------------------------------------------------------------------
(* The ledgers and the oracle.                                             *)

LEMMA PrecisionTypes ==
    ASSUME Assumptions
    PROVE  /\ \A i \in Assets : Precision[i] \in 0 .. MaxPrecision
           /\ GreaterPrecision \in 0 .. MaxPrecision
           /\ OraclePrecision \in 0 .. MaxPrecision
           /\ \A i \in Assets : Precision[i] <= GreaterPrecision
           /\ \A i \in Assets : Greater(Precision[i], Precision[Other(i)]) = GreaterPrecision
<1>1. \A i \in Assets : Precision[i] \in 0 .. MaxPrecision /\ Precision[i] \in Nat
  BY DEF Assumptions, PairAssumption, MathAssumption
<1> QED
  BY <1>1 DEF Assumptions, PairAssumption, MathAssumption, Assets, Other,
              GreaterPrecision, OraclePrecision, Greater

(* The prices the oracle adds are natural numbers.                         *)
LEMMA PriceType ==
    ASSUME Assumptions, NEW pools, NEW i \in Assets, NEW since
    PROVE  PriceTimesElapsed(pools, i, since) \in Optional
<1>1. OraclePrecision \in 0 .. MaxPrecision /\ TWAP_PRECISION \in 0 .. MaxPrecision
  BY PrecisionTypes DEF Assumptions, PairAssumption
<1> QED
  BY <1>1, ToU128Type, AdjustType DEF PriceTimesElapsed, PriceTimes, Assumptions

LEMMA WrappingAddType ==
    ASSUME MathAssumption, NEW a \in Nat, NEW b \in Nat
    PROVE  WrappingAdd(a, b) \in U128
  BY DEF WrappingAdd, U128, MathAssumption

(* An accumulation keeps the oracle well typed.                            *)
LEMMA AccumulateType ==
    ASSUME Assumptions, PairTypeOK, NEW pools, AccumulatePrices(pools), now' = now
    PROVE  /\ block_time_last' \in 0 .. now'
           /\ price_cumulative_last' \in [Assets -> U128]
<1>1. now \in Nat /\ MaxU128 \in Nat
  BY DEF PairTypeOK, AmpTypeOK, Assumptions, AmpAssumption, MathAssumption
<1>2. CASE UNCHANGED oracleVars
  BY <1>2 DEF oracleVars, PairTypeOK, LedgerTypeOK
<1>3. CASE ~UNCHANGED oracleVars
  <2>1. block_time_last' = now
    BY <1>3 DEF AccumulatePrices
  <2>2. CASE UNCHANGED price_cumulative_last
    BY <1>1, <2>1, <2>2 DEF PairTypeOK, LedgerTypeOK
  <2>3. CASE ~UNCHANGED price_cumulative_last
    <3> DEFINE gain == [i \in Assets |-> PriceTimesElapsed(pools, i, block_time_last)]
    <3>1. /\ \A i \in Assets : gain[i] # None
          /\ price_cumulative_last' = [i \in Assets |->
                 WrappingAdd(price_cumulative_last[i], gain[i])]
      BY <1>3, <2>3 DEF AccumulatePrices, oracleVars
    <3>2. \A i \in Assets : gain[i] \in Nat
      BY <3>1, PriceType DEF Optional
    <3> HIDE DEF gain
    <3>3. \A i \in Assets : WrappingAdd(price_cumulative_last[i], gain[i]) \in U128
      <4>1. \A i \in Assets : price_cumulative_last[i] \in Nat
        BY DEF PairTypeOK, LedgerTypeOK, U128
      <4> QED
        BY <3>2, <4>1, WrappingAddType DEF Assumptions
    <3> QED
      BY <1>1, <2>1, <3>1, <3>3
  <2> QED
    BY <2>2, <2>3
<1> QED
  BY <1>2, <1>3

-----------------------------------------------------------------------------
(* The transactions, one lemma each.                                       *)

LEMMA ShareType ==
    ASSUME Assumptions, NEW pools, NEW deposits
    PROVE  Share(pools, deposits) \in Optional
<1>1. LP_PRECISION \in 0 .. MaxPrecision /\ GreaterPrecision \in 0 .. MaxPrecision
  BY PrecisionTypes DEF Assumptions, PairAssumption
<1>2. \A v : AdjustPrecision(ToU128(v), GreaterPrecision, LP_PRECISION) \in Optional
  BY <1>1, ToU128Type, AdjustType DEF Assumptions
<1>3. None \in Optional
  BY DEF Optional
<1> QED
  BY <1>2, <1>3, MultiplyRatioType DEF Share, Assumptions

(* A deposit keeps the types and leaves the pool with something in it.     *)
LEMMA ProvideStep ==
    ASSUME Assumptions, PairTypeOK,
           NEW sender \in Accounts, NEW receiver \in Accounts,
           NEW deposits \in [Assets -> Nat],
           ProvideLiquidity(sender, receiver, deposits)
    PROVE  /\ LedgerTypeOK'
           /\ \E i \in Assets : reserve'[i] > 0
           /\ total_supply' > total_supply
<1> DEFINE queried == [i \in Assets |-> reserve[i] + IF IsNative[i] THEN deposits[i] ELSE 0]
           pools == [i \in Assets |-> queried[i] - IF IsNative[i] THEN deposits[i] ELSE 0]
           share == Share(pools, Evaluated(pools, deposits))
<1>1. /\ \A i \in Assets : wallet[sender][i] >= deposits[i]
      /\ \E i \in Assets : deposits[i] # 0
      /\ share \notin {None, 0}
      /\ AccumulatePrices(pools)
      /\ reserve' = [i \in Assets |-> reserve[i] + deposits[i]]
      /\ wallet' = [wallet EXCEPT ![sender] = [i \in Assets |-> @[i] - deposits[i]]]
      /\ lp' = [lp EXCEPT ![receiver] = @ + share]
      /\ total_supply' = total_supply + share
      /\ total_supply + share \in U128
      /\ now' = now
  BY DEF ProvideLiquidity, ampVars
<1>2. share \in Nat
  BY <1>1, ShareType DEF Optional
<1> HIDE DEF share, pools
<1>3. /\ block_time_last' \in 0 .. now'
      /\ price_cumulative_last' \in [Assets -> U128]
  BY <1>1, AccumulateType
<1>4. /\ reserve \in [Assets -> Nat] /\ wallet \in [Accounts -> [Assets -> Nat]]
      /\ lp \in [Accounts -> Nat] /\ total_supply \in Nat
  BY DEF PairTypeOK, LedgerTypeOK, U128
<1>5. wallet' \in [Accounts -> [Assets -> Nat]]
  <2>1. [i \in Assets |-> wallet[sender][i] - deposits[i]] \in [Assets -> Nat]
    BY <1>1, <1>4
  <2> QED
    BY <1>1, <1>4, <2>1
<1>6. /\ reserve' \in [Assets -> Nat]
      /\ \E i \in Assets : reserve'[i] > 0
  BY <1>1, <1>4
<1>7. lp' \in [Accounts -> Nat]
  BY <1>1, <1>2, <1>4
<1>8. total_supply' \in U128 /\ total_supply' > total_supply
  BY <1>1, <1>2, <1>4
<1> QED
  BY <1>3, <1>5, <1>6, <1>7, <1>8 DEF LedgerTypeOK

(* A share of a pool is at most the pool times the part of the supply, and *)
(* less than a positive pool unless the whole supply is redeemed.          *)
LEMMA ShareBounds ==
    ASSUME Assumptions, NEW pool \in Nat, NEW amount \in Nat, NEW total \in Nat,
           amount # 0, amount <= total,
           ShareInAsset(pool, amount, total) # None
    PROVE  /\ ShareInAsset(pool, amount, total) \in Nat
           /\ ShareInAsset(pool, amount, total) * total <= pool * amount
           /\ amount < total /\ pool > 0 => ShareInAsset(pool, amount, total) < pool
<1> DEFINE ratio == DecimalRatio(amount, total)
           part == ShareInAsset(pool, amount, total)
<1>1. DECIMAL_ONE \in Nat \ {0} /\ MaxU256 \in Nat
  BY DEF Assumptions, MathAssumption
<1>2. part = ToU128((pool \otimes ratio) \oslash DECIMAL_ONE)
  BY DEF ShareInAsset, TimesDecimal, MultiplyRatio
<1>3. /\ part \in Nat
      /\ part = (pool \otimes ratio) \oslash DECIMAL_ONE
  BY <1>2, ToU128Type DEF Assumptions
<1>4. pool \otimes ratio # None
  BY <1>3 DEF \oslash, None
<1>5. ratio # None
  BY <1>4 DEF \otimes
<1>6. /\ ratio \in Nat
      /\ ratio = (amount \otimes DECIMAL_ONE) \oslash total
  BY <1>5, ToU128Type DEF DecimalRatio, MultiplyRatio, Assumptions
<1>7. amount \otimes DECIMAL_ONE # None
  BY <1>6 DEF \oslash, None
<1>8. amount \otimes DECIMAL_ONE = amount * DECIMAL_ONE
  BY <1>7 DEF \otimes
<1>9. amount * DECIMAL_ONE \in Nat
  BY <1>1, ProductMonotone
<1>10. ratio = (amount * DECIMAL_ONE) \div total
  BY <1>6, <1>8, <1>9 DEF \oslash, None
<1>11. ratio * total <= amount * DECIMAL_ONE
  BY <1>9, <1>10, DivisionFacts
<1> HIDE DEF ratio, part
<1>12. pool \otimes ratio = pool * ratio
  BY <1>4 DEF \otimes
<1>13. pool * ratio \in Nat
  BY <1>6, ProductMonotone
<1>14. part = (pool * ratio) \div DECIMAL_ONE
  BY <1>1, <1>3, <1>12, <1>13 DEF \oslash, None
<1>15. part * DECIMAL_ONE <= pool * ratio
  BY <1>1, <1>13, <1>14, DivisionFacts
<1>16. part * total <= pool * amount
  <2>1. (part * DECIMAL_ONE) * total <= (pool * ratio) * total
    BY <1>1, <1>3, <1>13, <1>15, ProductMonotone
  <2>2. pool * (ratio * total) <= pool * (amount * DECIMAL_ONE)
    BY <1>6, <1>9, <1>11, ProductMonotone
  <2>3. (pool * ratio) * total = pool * (ratio * total)
    BY <1>6
  <2>4. /\ (part * DECIMAL_ONE) * total = DECIMAL_ONE * (part * total)
        /\ pool * (amount * DECIMAL_ONE) = DECIMAL_ONE * (pool * amount)
    BY <1>1, <1>3
  <2>5. DECIMAL_ONE * (part * total) <= DECIMAL_ONE * (pool * amount)
    BY <1>1, <1>3, <1>6, <2>1, <2>2, <2>3, <2>4
  <2> QED
    BY <1>1, <1>3, <2>5, CancelFactor
<1>17. amount < total /\ pool > 0 => part < pool
  <2> SUFFICES ASSUME amount < total, pool > 0, pool <= part
               PROVE  FALSE
    BY <1>3
  <2>1. pool * total <= part * total
    BY <1>3, ProductMonotone
  <2>2. pool * amount < pool * total
    BY StrictProduct
  <2> QED
    BY <1>3, <1>16, <2>1, <2>2, ProductMonotone
<1> QED
  BY <1>3, <1>16, <1>17 DEF part

(* A withdrawal keeps the types, takes no more than its share of either    *)
(* reserve, and empties neither while LP tokens remain.                    *)
LEMMA WithdrawStep ==
    ASSUME Assumptions, PairTypeOK, NEW sender \in Accounts,
           NEW amount \in Nat, WithdrawLiquidity(sender, amount)
    PROVE  /\ LedgerTypeOK'
           /\ \A i \in Assets : reserve'[i] * total_supply >= reserve[i] * total_supply'
           /\ total_supply' > 0 => \A i \in Assets : reserve[i] > 0 => reserve'[i] > 0
<1> DEFINE refund == [i \in Assets |-> ShareInAsset(reserve[i], amount, total_supply)]
<1>1. /\ amount # 0 /\ lp[sender] >= amount /\ total_supply >= amount
      /\ \A i \in Assets : refund[i] \notin {None, 0} /\ refund[i] <= reserve[i]
      /\ AccumulatePrices(reserve)
      /\ reserve' = [i \in Assets |-> reserve[i] - refund[i]]
      /\ wallet' = [wallet EXCEPT ![sender] = [i \in Assets |-> @[i] + refund[i]]]
      /\ lp' = [lp EXCEPT ![sender] = @ - amount]
      /\ total_supply' = total_supply - amount
      /\ now' = now
  BY DEF WithdrawLiquidity, ampVars
<1>2. /\ block_time_last' \in 0 .. now'
      /\ price_cumulative_last' \in [Assets -> U128]
  BY <1>1, AccumulateType
<1>3. /\ reserve \in [Assets -> Nat] /\ wallet \in [Accounts -> [Assets -> Nat]]
      /\ lp \in [Accounts -> Nat] /\ total_supply \in Nat
  BY DEF PairTypeOK, LedgerTypeOK, U128
<1>4. \A i \in Assets :
        /\ refund[i] \in Nat
        /\ refund[i] * total_supply <= reserve[i] * amount
        /\ amount < total_supply /\ reserve[i] > 0 => refund[i] < reserve[i]
  <2> SUFFICES ASSUME NEW i \in Assets
               PROVE  /\ refund[i] \in Nat
                      /\ refund[i] * total_supply <= reserve[i] * amount
                      /\ amount < total_supply /\ reserve[i] > 0 => refund[i] < reserve[i]
    OBVIOUS
  <2>1. reserve[i] \in Nat /\ ShareInAsset(reserve[i], amount, total_supply) # None
    BY <1>1, <1>3
  <2> QED
    BY <1>1, <1>3, <2>1, ShareBounds
<1> HIDE DEF refund
<1>5. wallet' \in [Accounts -> [Assets -> Nat]]
  <2>1. [i \in Assets |-> wallet[sender][i] + refund[i]] \in [Assets -> Nat]
    BY <1>3, <1>4
  <2> QED
    BY <1>1, <1>3, <2>1
<1>6. reserve' \in [Assets -> Nat]
  BY <1>1, <1>3, <1>4
<1>7. lp' \in [Accounts -> Nat] /\ total_supply' \in U128
  <2>1. lp' \in [Accounts -> Nat]
    BY <1>1, <1>3
  <2>2. total_supply \in U128
    BY DEF PairTypeOK, LedgerTypeOK
  <2>3. total_supply' \in U128
    <3>1. MaxU128 \in Nat /\ total_supply <= MaxU128
      BY <2>2 DEF U128, Assumptions, MathAssumption
    <3>2. total_supply - amount \in 0 .. MaxU128
      BY <1>1, <1>3, <3>1
    <3> QED
      BY <1>1, <3>2 DEF U128
  <2> QED
    BY <2>1, <2>3
<1>8. \A i \in Assets : reserve'[i] * total_supply >= reserve[i] * total_supply'
  <2> SUFFICES ASSUME NEW i \in Assets
               PROVE  reserve'[i] * total_supply >= reserve[i] * total_supply'
    OBVIOUS
  <2> DEFINE r == reserve[i]
             f == refund[i]
             s == total_supply
  <2>1. /\ r \in Nat /\ f \in Nat /\ s \in Nat /\ f * s <= r * amount
        /\ reserve'[i] = r - f /\ total_supply' = s - amount
    BY <1>1, <1>3, <1>4
  <2> HIDE DEF r, f, s
  <2>2. (r - f) * s = r * s - f * s /\ r * (s - amount) = r * s - r * amount
    BY <2>1
  <2>3. r * s \in Nat /\ f * s \in Nat /\ r * amount \in Nat
    BY <2>1, ProductMonotone
  <2>4. (r - f) * s >= r * (s - amount)
    BY <2>1, <2>2, <2>3
  <2> QED
    BY <2>1, <2>4 DEF r, s
<1>9. total_supply' > 0 => \A i \in Assets : reserve[i] > 0 => reserve'[i] > 0
  BY <1>1, <1>3, <1>4
<1> QED
  BY <1>2, <1>5, <1>6, <1>7, <1>8, <1>9 DEF LedgerTypeOK

(* Nothing can be sold for nothing to an empty side: a quote exists only   *)
(* when the offered side is not empty with the offer.                      *)
LEMMA QuoteNeedsOffer ==
    ASSUME Assumptions, AmpTypeOK, NEW pools \in [Assets -> Nat], NEW i \in Assets,
           NEW amount \in Nat, ~Void(Simulation(pools, i, amount))
    PROVE  /\ Simulation(pools, i, amount).return_amount \in Nat
           /\ pools[i] + amount > 0
<1> DEFINE G == GreaterPrecision
           offer == AdjustPrecision(amount, Precision[i], G)
           pool == AdjustPrecision(pools[i], Precision[i], G)
           ask == AdjustPrecision(pools[Other(i)], Precision[Other(i)], G)
           swapped == CalcAskAmount(pool, ask, offer, CurrentAmp)
           commission == TimesDecimal(swapped, GlobalFee)
           quote == Simulation(pools, i, amount)
           new_ask == ComputeNewBalance(Leverage(CurrentAmp), ToU128(pool \oplus offer),
                          ComputeD(Leverage(CurrentAmp), pool, ask))
<1>1. /\ G \in 0 .. MaxPrecision
      /\ Precision[i] \in 0 .. MaxPrecision /\ Precision[Other(i)] \in 0 .. MaxPrecision
      /\ Other(i) \in Assets
      /\ Greater(Precision[i], Precision[Other(i)]) = G
  BY PrecisionTypes DEF Assets, Other
<1>2. /\ offer \in Optional /\ pool \in Optional /\ ask \in Optional
      /\ amount = 0 => offer = 0
      /\ pools[i] = 0 => pool = 0
  <2>1. amount \in Optional /\ pools[i] \in Optional /\ pools[Other(i)] \in Optional
    BY <1>1 DEF Optional
  <2> QED
    BY <1>1, <2>1, AdjustType DEF Assumptions
<1>3. swapped = ask \ominus new_ask
  BY DEF CalcAskAmount
<1>4. new_ask \in Optional
  BY NewBalanceType DEF Assumptions
<1>5. quote.return_amount = AdjustPrecision(swapped \ominus commission, G, Precision[Other(i)])
  BY <1>1 DEF Simulation, ComputeSwap
<1>6. quote.commission_amount = AdjustPrecision(commission, G, Precision[Other(i)])
  BY <1>1 DEF Simulation, ComputeSwap
<1>7. quote.return_amount # None
  BY DEF Void, Simulation, ComputeSwap
<1> HIDE DEF G, quote, offer, pool, ask
<1>8. swapped \in Optional
  BY <1>2, <1>3, <1>4, CheckedTypes
<1>9. commission \in Optional
  BY MultiplyRatioType DEF TimesDecimal, Assumptions
<1> HIDE DEF swapped, commission
<1>10. swapped \ominus commission \in Optional
  BY <1>8, <1>9, CheckedTypes
<1>11. quote.return_amount \in Nat
  <2>1. MathAssumption
    BY DEF Assumptions
  <2>2. quote.return_amount \in Optional
    BY <1>1, <1>5, <1>10, <2>1, AdjustType
  <2> QED
    BY <1>7, <2>2 DEF Optional
<1>12. ASSUME pools[i] + amount = 0 PROVE FALSE
  <2>1. pool = 0 /\ offer = 0
    BY <1>2, <1>12
  <2>2. ToU128(pool \oplus offer) = 0
    BY <2>1 DEF \oplus, ToU128, U128, None, Assumptions, MathAssumption
  <2>3. Leverage(CurrentAmp) \in Nat
    <3>1. CurrentAmp \in Amps
      BY AmpBetweenEnds DEF Assumptions
    <3> QED
      BY <3>1 DEF Amps, Leverage, N_COINS, Assumptions, ParameterAssumption, AmpAssumption
  <2>4. new_ask = None
    BY <2>2, <2>3, NewBalanceOfNothing DEF Assumptions
  <2>5. swapped = None
    BY <1>3, <2>4 DEF \ominus
  <2>6. swapped \ominus commission = None
    BY <2>5 DEF \ominus
  <2>7. AdjustPrecision(None, G, Precision[Other(i)]) = None
    BY <1>1 DEF AdjustPrecision, \otimes, \oslash, ToU128, U128, None
  <2> QED
    BY <1>5, <1>7, <2>6, <2>7
<1> QED
  BY <1>11, <1>12 DEF quote

(* Taking the offer off the queried balances gives the reserves of before  *)
(* the call.                                                               *)
LEMMA WithoutOffer ==
    ASSUME NEW pools \in [Assets -> Nat], NEW i \in Assets, NEW amount \in Nat
    PROVE  Without([pools EXCEPT ![i] = @ + amount], i, amount) = pools
<1> DEFINE queried == [pools EXCEPT ![i] = @ + amount]
           rest == [queried EXCEPT ![i] = @ - amount]
<1>1. /\ queried \in [Assets -> Nat] /\ queried[i] = pools[i] + amount
      /\ \A j \in Assets \ {i} : queried[j] = pools[j]
  OBVIOUS
<1> HIDE DEF queried
<1>2. queried[i] - amount = pools[i]
  BY <1>1
<1>3. rest \in [Assets -> Int] /\ \A j \in Assets : rest[j] = pools[j]
  BY <1>1, <1>2
<1>4. rest = pools
  <2> HIDE DEF rest
  <2> QED
    BY <1>3
<1> QED
  BY <1>4 DEF Without, queried

(* A swap keeps the types and leaves the pool with something in it.        *)
LEMMA SwapStep ==
    ASSUME Assumptions, PairTypeOK, NEW sender \in Accounts, NEW receiver \in Accounts,
           NEW i \in Assets, NEW amount \in Nat, NEW belief_price, NEW max_spread,
           Swap(sender, receiver, i, amount, belief_price, max_spread)
    PROVE  /\ LedgerTypeOK'
           /\ \E j \in Assets : reserve'[j] > 0
           /\ total_supply' = total_supply
<1> DEFINE queried == [reserve EXCEPT ![i] = @ + amount]
           pools == [queried EXCEPT ![i] = @ - amount]
           payout == Simulation(pools, i, amount).return_amount
           paid == [wallet EXCEPT ![sender][i] = @ - amount]
<1>1. /\ wallet[sender][i] >= amount
      /\ ~Void(Simulation(pools, i, amount))
      /\ AccumulatePrices(pools)
      /\ payout <= queried[Other(i)]
      /\ reserve' = [queried EXCEPT ![Other(i)] = @ - payout]
      /\ wallet' = [paid EXCEPT ![receiver][Other(i)] = @ + payout]
      /\ lp' = lp /\ total_supply' = total_supply
      /\ now' = now
  BY DEF Swap, Without, ampVars
<1>2. /\ reserve \in [Assets -> Nat] /\ wallet \in [Accounts -> [Assets -> Nat]]
      /\ lp \in [Accounts -> Nat] /\ total_supply \in Nat
  BY DEF PairTypeOK, LedgerTypeOK, U128
<1>3. Other(i) \in Assets /\ Other(i) # i
  BY DEF Assets, Other
<1>4. /\ queried \in [Assets -> Nat] /\ queried[i] = reserve[i] + amount
      /\ pools \in [Assets -> Nat] /\ pools[i] = reserve[i]
  <2>1. queried \in [Assets -> Nat] /\ queried[i] = reserve[i] + amount
    BY <1>2
  <2>2. queried[i] - amount \in Nat /\ queried[i] - amount = reserve[i]
    BY <1>2, <2>1
  <2> QED
    BY <2>1, <2>2
<1>5. payout \in Nat /\ reserve[i] + amount > 0
  BY <1>1, <1>4, QuoteNeedsOffer DEF PairTypeOK
<1>6. /\ block_time_last' \in 0 .. now'
      /\ price_cumulative_last' \in [Assets -> U128]
  BY <1>1, AccumulateType
<1> HIDE DEF queried, pools, payout
<1>7. reserve' \in [Assets -> Nat] /\ reserve'[i] > 0
  <2>1. queried[Other(i)] - payout \in Nat
    BY <1>1, <1>3, <1>4, <1>5
  <2> QED
    BY <1>1, <1>3, <1>4, <1>5, <2>1
<1>8. wallet' \in [Accounts -> [Assets -> Nat]]
  <2>1. wallet[sender][i] - amount \in Nat
    BY <1>1, <1>2
  <2>2. paid \in [Accounts -> [Assets -> Nat]]
    BY <1>2, <2>1
  <2> HIDE DEF paid
  <2>3. paid[receiver][Other(i)] + payout \in Nat
    BY <1>3, <1>5, <2>2
  <2> QED
    BY <1>1, <2>2, <2>3
<1> QED
  BY <1>1, <1>2, <1>6, <1>7, <1>8 DEF PairTypeOK, LedgerTypeOK

(* A donation keeps the types and empties nothing.                         *)
LEMMA DonateStep ==
    ASSUME Assumptions, PairTypeOK, NEW sender \in Accounts, NEW i \in Assets,
           NEW amount \in Nat, Donate(sender, i, amount)
    PROVE  /\ LedgerTypeOK'
           /\ \E j \in Assets : reserve'[j] > 0
           /\ total_supply' = total_supply
<1>1. /\ amount # 0 /\ wallet[sender][i] >= amount
      /\ reserve' = [reserve EXCEPT ![i] = @ + amount]
      /\ wallet' = [wallet EXCEPT ![sender][i] = @ - amount]
      /\ lp' = lp /\ total_supply' = total_supply
      /\ block_time_last' = block_time_last
      /\ price_cumulative_last' = price_cumulative_last /\ now' = now
  BY DEF Donate, ampVars, oracleVars
<1>2. /\ reserve \in [Assets -> Nat] /\ wallet \in [Accounts -> [Assets -> Nat]]
  BY DEF PairTypeOK, LedgerTypeOK
<1>3. reserve' \in [Assets -> Nat] /\ reserve'[i] > 0
  BY <1>1, <1>2
<1>4. wallet' \in [Accounts -> [Assets -> Nat]]
  <2>1. wallet[sender][i] - amount \in Nat
    BY <1>1, <1>2
  <2> QED
    BY <1>1, <1>2, <2>1
<1> QED
  BY <1>1, <1>3, <1>4 DEF PairTypeOK, LedgerTypeOK

(* The holders of LP tokens keep the types among themselves, and what they *)
(* burn raises everybody else's part of the pool.                          *)
LEMMA LpStep ==
    ASSUME Assumptions, PairTypeOK, NEW sender \in Accounts, LpCall(sender)
    PROVE  /\ LedgerTypeOK'
           /\ reserve' = reserve
           /\ total_supply' <= total_supply
<1>1. PICK amount \in LpAmounts :
        \/ \E receiver \in Accounts : TransferLp(sender, receiver, amount)
        \/ BurnLp(sender, amount)
  BY DEF LpCall
<1>2. /\ amount \in Nat /\ MaxU128 \in Nat
      /\ lp \in [Accounts -> Nat] /\ total_supply \in Nat /\ total_supply <= MaxU128
  BY DEF Assumptions, PairAssumption, MathAssumption, PairTypeOK, LedgerTypeOK, U128
<1>3. /\ lp[sender] >= amount
      /\ reserve' = reserve /\ wallet' = wallet /\ block_time_last' = block_time_last
      /\ price_cumulative_last' = price_cumulative_last /\ now' = now
  BY <1>1 DEF TransferLp, BurnLp, oracleVars, ampVars
<1>4. lp[sender] - amount \in Nat
  BY <1>2, <1>3
<1>5. CASE BurnLp(sender, amount)
  <2>1. /\ lp' \in [Accounts -> Nat]
        /\ total_supply' \in 0 .. MaxU128 /\ total_supply' <= total_supply
    BY <1>2, <1>4, <1>5 DEF BurnLp
  <2> QED
    BY <1>3, <2>1 DEF PairTypeOK, LedgerTypeOK, U128
<1>6. CASE \E receiver \in Accounts : TransferLp(sender, receiver, amount)
  <2>1. PICK receiver \in Accounts : TransferLp(sender, receiver, amount)
    BY <1>6
  <2> DEFINE debited == [lp EXCEPT ![sender] = @ - amount]
  <2>2. debited \in [Accounts -> Nat]
    BY <1>2, <1>4
  <2>3. lp' = [debited EXCEPT ![receiver] = @ + amount] /\ total_supply' = total_supply
    BY <2>1 DEF TransferLp
  <2> HIDE DEF debited
  <2>4. lp' \in [Accounts -> Nat]
    <3>1. debited[receiver] + amount \in Nat
      BY <1>2, <2>2
    <3> QED
      BY <2>2, <2>3, <3>1
  <2> QED
    BY <1>2, <1>3, <2>3, <2>4 DEF PairTypeOK, LedgerTypeOK
<1> QED
  BY <1>1, <1>5, <1>6

(* A swap pays what the simulation answers on the reserves of before it.   *)
LEMMA SwapStepPays ==
    ASSUME Assumptions, PairTypeOK, NEW sender \in Accounts, NEW receiver \in Accounts,
           NEW i \in Assets, NEW amount \in Nat, NEW belief_price, NEW max_spread,
           Swap(sender, receiver, i, amount, belief_price, max_spread)
    PROVE  /\ reserve'[i] - reserve[i] = amount
           /\ reserve[Other(i)] - reserve'[Other(i)]
                = Simulation(reserve, i, amount).return_amount
<1> DEFINE queried == [reserve EXCEPT ![i] = @ + amount]
           payout == Simulation(reserve, i, amount).return_amount
<1>1. reserve \in [Assets -> Nat] /\ Other(i) \in Assets /\ Other(i) # i
  BY DEF PairTypeOK, LedgerTypeOK, Assets, Other
<1>2. Without(queried, i, amount) = reserve
  BY <1>1, WithoutOffer
<1>3. /\ ~Void(Simulation(reserve, i, amount))
      /\ reserve' = [queried EXCEPT ![Other(i)] = @ - payout]
  BY <1>2 DEF Swap
<1>4. payout \in Nat
  BY <1>1, <1>3, QuoteNeedsOffer DEF PairTypeOK
<1>5. /\ queried \in [Assets -> Nat]
      /\ queried[i] = reserve[i] + amount /\ queried[Other(i)] = reserve[Other(i)]
  BY <1>1
<1> HIDE DEF queried, payout
<1>6. reserve'[i] = reserve[i] + amount /\ reserve'[Other(i)] = reserve[Other(i)] - payout
  BY <1>1, <1>3, <1>5
<1> QED
  BY <1>1, <1>4, <1>6 DEF payout

(* Every call that touches the oracle shows it the reserves before the     *)
(* call.                                                                   *)
LEMMA CallShowsReserves ==
    ASSUME Assumptions, PairTypeOK, NEW sender \in Accounts, Call(sender)
    PROVE  AccumulatePrices(reserve)
<1>1. reserve \in [Assets -> Nat]
  BY DEF PairTypeOK, LedgerTypeOK
<1>2. ASSUME NEW receiver \in Accounts, NEW d0 \in ProvideAmounts, NEW d1 \in ProvideAmounts,
             ProvideLiquidity(sender, receiver, [i \in Assets |-> IF i = 0 THEN d0 ELSE d1])
      PROVE  AccumulatePrices(reserve)
  <2> DEFINE deposits == [i \in Assets |-> IF i = 0 THEN d0 ELSE d1]
             queried == [i \in Assets |-> reserve[i] + IF IsNative[i] THEN deposits[i] ELSE 0]
             pools == [i \in Assets |-> queried[i] - IF IsNative[i] THEN deposits[i] ELSE 0]
  <2>1. AccumulatePrices(pools)
    BY <1>2 DEF ProvideLiquidity
  <2>2. deposits \in [Assets -> Nat]
    BY DEF Assumptions, PairAssumption
  <2> HIDE DEF deposits
  <2>3. pools = reserve
    BY <1>1, <2>2
  <2> QED
    BY <2>1, <2>3
<1>3. ASSUME NEW amount, WithdrawLiquidity(sender, amount)
      PROVE  AccumulatePrices(reserve)
  BY <1>3 DEF WithdrawLiquidity
<1>4. ASSUME NEW receiver, NEW i \in Assets, NEW amount \in SwapAmounts,
             NEW belief_price, NEW max_spread,
             Swap(sender, receiver, i, amount, belief_price, max_spread)
      PROVE  AccumulatePrices(reserve)
  <2>1. amount \in Nat
    BY DEF Assumptions, PairAssumption
  <2>2. Without([reserve EXCEPT ![i] = @ + amount], i, amount) = reserve
    BY <1>1, <2>1, WithoutOffer
  <2> QED
    BY <1>4, <2>2 DEF Swap
<1> QED
  BY <1>2, <1>3, <1>4 DEF Call

-----------------------------------------------------------------------------
(* The inductive invariant: types, and tokens that are backed.             *)
PairInv == PairTypeOK /\ SharesBacked

(* What a step does to the ledgers, whichever it is.                       *)
LEMMA LedgerStep ==
    ASSUME Assumptions, PairInv, [PairNext]_pairVars
    PROVE  /\ LedgerTypeOK'
           /\ SharesBacked'
           /\ total_supply' < total_supply =>
                \A i \in Assets : reserve'[i] * total_supply >= reserve[i] * total_supply'
<1>1. AmpTypeOK'
  BY PairStepIsAmpStep, AmpTypeStep DEF PairInv, PairTypeOK, Assumptions
<1>2. PairTypeOK /\ LedgerTypeOK /\ total_supply \in Nat /\ reserve \in [Assets -> Nat]
  BY DEF PairInv, PairTypeOK, LedgerTypeOK, U128
<1>3. ASSUME NEW sender \in Accounts, NEW receiver \in Accounts,
             NEW d0 \in ProvideAmounts, NEW d1 \in ProvideAmounts,
             ProvideLiquidity(sender, receiver, [i \in Assets |-> IF i = 0 THEN d0 ELSE d1])
      PROVE  LedgerTypeOK' /\ SharesBacked' /\ ~(total_supply' < total_supply)
  <2>1. [i \in Assets |-> IF i = 0 THEN d0 ELSE d1] \in [Assets -> Nat]
    BY DEF Assumptions, PairAssumption
  <2>2. /\ LedgerTypeOK' /\ \E i \in Assets : reserve'[i] > 0
        /\ total_supply' > total_supply
    BY <1>2, <1>3, <2>1, ProvideStep
  <2> QED
    BY <1>2, <2>2 DEF SharesBacked, LedgerTypeOK
<1>4. ASSUME NEW sender \in Accounts, NEW amount \in WithdrawAmounts \cup {lp[sender]},
             WithdrawLiquidity(sender, amount)
      PROVE  /\ LedgerTypeOK' /\ SharesBacked'
             /\ \A i \in Assets : reserve'[i] * total_supply >= reserve[i] * total_supply'
  <2>1. amount \in Nat
    BY <1>2 DEF Assumptions, PairAssumption, LedgerTypeOK
  <2>2. /\ LedgerTypeOK'
        /\ \A i \in Assets : reserve'[i] * total_supply >= reserve[i] * total_supply'
        /\ total_supply' > 0 => \A i \in Assets : reserve[i] > 0 => reserve'[i] > 0
    BY <1>2, <1>4, <2>1, WithdrawStep
  <2>3. total_supply' > 0 => total_supply > 0
    BY <1>2, <1>4, <2>1 DEF WithdrawLiquidity
  <2> QED
    BY <2>2, <2>3 DEF SharesBacked, PairInv
<1>5. ASSUME NEW sender \in Accounts, NEW receiver \in Accounts, NEW i \in Assets,
             NEW amount \in SwapAmounts, NEW belief_price \in BeliefPrices,
             NEW max_spread \in MaxSpreads,
             Swap(sender, receiver, i, amount, belief_price, max_spread)
      PROVE  LedgerTypeOK' /\ SharesBacked' /\ ~(total_supply' < total_supply)
  <2>1. amount \in Nat
    BY DEF Assumptions, PairAssumption
  <2>2. /\ LedgerTypeOK' /\ \E j \in Assets : reserve'[j] > 0
        /\ total_supply' = total_supply
    BY <1>2, <1>5, <2>1, SwapStep
  <2> QED
    BY <1>2, <2>2 DEF SharesBacked
<1>6. ASSUME NEW sender \in Accounts, Donation(sender)
      PROVE  LedgerTypeOK' /\ SharesBacked' /\ ~(total_supply' < total_supply)
  <2>1. PICK i \in Assets, amount \in DonateAmounts : Donate(sender, i, amount)
    BY <1>6 DEF Donation
  <2>2. amount \in Nat
    BY DEF Assumptions, PairAssumption
  <2>3. /\ LedgerTypeOK' /\ \E j \in Assets : reserve'[j] > 0
        /\ total_supply' = total_supply
    BY <1>2, <2>1, <2>2, DonateStep
  <2> QED
    BY <1>2, <2>3 DEF SharesBacked
<1>7. ASSUME UNCHANGED <<ledgerVars, oracleVars>>, now' >= now
      PROVE  LedgerTypeOK' /\ SharesBacked' /\ ~(total_supply' < total_supply)
  <2>1. /\ reserve' = reserve /\ wallet' = wallet /\ lp' = lp
        /\ total_supply' = total_supply /\ block_time_last' = block_time_last
        /\ price_cumulative_last' = price_cumulative_last
    BY <1>7 DEF ledgerVars, oracleVars
  <2>2. now \in Nat
    BY <1>2 DEF PairTypeOK, AmpTypeOK, Assumptions, AmpAssumption
  <2>3. now' \in Nat
    BY <1>1 DEF AmpTypeOK, Assumptions, AmpAssumption
  <2> QED
    BY <1>2, <1>7, <2>1, <2>2, <2>3 DEF LedgerTypeOK, SharesBacked, PairInv
<1>8. ASSUME NEW sender \in Accounts, Call(sender)
      PROVE  /\ LedgerTypeOK' /\ SharesBacked'
             /\ total_supply' < total_supply =>
                 \A i \in Assets : reserve'[i] * total_supply >= reserve[i] * total_supply'
  BY <1>3, <1>4, <1>5, <1>8 DEF Call
<1>9. ASSUME NEW sender \in Accounts, UpdateConfig(sender)
      PROVE  LedgerTypeOK' /\ SharesBacked' /\ ~(total_supply' < total_supply)
  <2>1. UNCHANGED <<ledgerVars, oracleVars>> /\ now' = now
    BY <1>9 DEF UpdateConfig, StartChangingAmp, StopChangingAmp, RampFrom
  <2>2. now' >= now
    BY <1>2, <2>1 DEF PairTypeOK, AmpTypeOK, Assumptions, AmpAssumption
  <2> QED
    BY <1>7, <2>1, <2>2
<1>10. ASSUME NEW sender \in Accounts, LpCall(sender)
       PROVE  /\ LedgerTypeOK' /\ SharesBacked'
              /\ \A i \in Assets : reserve'[i] * total_supply >= reserve[i] * total_supply'
  <2>1. LedgerTypeOK' /\ reserve' = reserve /\ total_supply' <= total_supply
    BY <1>2, <1>10, LpStep
  <2>2. total_supply' \in Nat
    BY <2>1 DEF LedgerTypeOK, U128
  <2>3. \A i \in Assets : reserve[i] * total_supply >= reserve[i] * total_supply'
    BY <1>2, <2>1, <2>2, ProductMonotone
  <2> QED
    BY <1>2, <2>1, <2>2, <2>3 DEF SharesBacked, PairInv
<1>11. CASE NextBlock
  <2>1. UNCHANGED <<ledgerVars, oracleVars>> /\ now' >= now
    BY <1>2, <1>11 DEF NextBlock, Tick, PairTypeOK, AmpTypeOK, Assumptions, AmpAssumption
  <2> QED
    BY <1>7, <2>1
<1>12. CASE UNCHANGED pairVars
  <2>1. UNCHANGED <<ledgerVars, oracleVars>> /\ now' >= now
    BY <1>2, <1>12 DEF pairVars, ampVars, PairTypeOK, AmpTypeOK, Assumptions, AmpAssumption
  <2> QED
    BY <1>7, <2>1
<1> QED
  BY <1>6, <1>8, <1>9, <1>10, <1>11, <1>12 DEF PairNext

LEMMA PairInvInit ==
    ASSUME Assumptions, PairInit
    PROVE  PairInv
<1>1. AmpTypeOK
  BY AmpTypeInit DEF PairInit, Assumptions
<1>2. LedgerTypeOK
  BY <1>1 DEF PairInit, LedgerTypeOK, Assets, U128, AmpTypeOK,
              Assumptions, PairAssumption, MathAssumption, AmpAssumption
<1> QED
  BY <1>1, <1>2 DEF PairInv, PairTypeOK, SharesBacked, PairInit

LEMMA PairInvStep ==
    ASSUME Assumptions, PairInv, [PairNext]_pairVars
    PROVE  PairInv'
<1>1. AmpTypeOK'
  BY PairStepIsAmpStep, AmpTypeStep DEF PairInv, PairTypeOK, Assumptions
<1> QED
  BY <1>1, LedgerStep DEF PairInv, PairTypeOK

LEMMA AssumptionsHold == Assumptions
  BY AmpAssumption, ParameterAssumption, MathAssumption, PairAssumption DEF Assumptions

THEOREM PairInvariant == PairSpec => []PairInv
<1>1. PairInit => PairInv
  BY PairInvInit, AssumptionsHold
<1>2. PairInv /\ [PairNext]_pairVars => PairInv'
  BY PairInvStep, AssumptionsHold
<1> QED
  BY <1>1, <1>2, PTL DEF PairSpec

(* The ledgers and the oracle are well typed in every reachable state: in  *)
(* particular no payout and no refund is ever more than the reserve.       *)
THEOREM PairTypeCorrect == PairSpec => []PairTypeOK
  BY PairInvariant, PTL DEF PairInv

(* LP tokens never outlive the pool they are claims on.                    *)
THEOREM SharesAlwaysBacked == PairSpec => []SharesBacked
  BY PairInvariant, PTL DEF PairInv

(* A withdrawal never takes more than its share of either asset.           *)
THEOREM WithdrawalsAreFair == PairSpec => FairWithdrawal
<1>1. PairInv /\ [PairNext]_pairVars =>
        [total_supply' < total_supply =>
           \A i \in Assets : reserve'[i] * total_supply >= reserve[i] * total_supply']_pairVars
  BY LedgerStep, AssumptionsHold
<1> QED
  BY <1>1, PairInvariant, PTL DEF PairSpec, FairWithdrawal

(* A payout at the same supply is a swap.                                  *)
LEMMA PayoutIsSwap ==
    ASSUME Assumptions, PairInv, [PairNext]_pairVars, NEW i \in Assets,
           total_supply' = total_supply, reserve'[Other(i)] < reserve[Other(i)]
    PROVE  \E sender \in Accounts, receiver \in Accounts, amount \in SwapAmounts,
              belief_price \in BeliefPrices, max_spread \in MaxSpreads :
              Swap(sender, receiver, i, amount, belief_price, max_spread)
<1> USE DEF PairInv
<1>1. /\ reserve \in [Assets -> Nat] /\ reserve' \in [Assets -> Nat]
      /\ total_supply \in Nat
      /\ \A j \in Assets : Other(j) \in Assets
  BY LedgerStep DEF PairTypeOK, LedgerTypeOK, U128, Assets, Other
<1>2. ASSUME \A j \in Assets : reserve'[j] >= reserve[j]
      PROVE  FALSE
  <2>1. Other(i) \in Assets /\ reserve'[Other(i)] >= reserve[Other(i)]
    BY <1>1, <1>2
  <2> QED
    BY <1>1, <2>1
<1>3. ASSUME NEW sender \in Accounts, NEW receiver \in Accounts,
             NEW d0 \in ProvideAmounts, NEW d1 \in ProvideAmounts,
             ProvideLiquidity(sender, receiver, [j \in Assets |-> IF j = 0 THEN d0 ELSE d1])
      PROVE  FALSE
  <2>1. [j \in Assets |-> IF j = 0 THEN d0 ELSE d1] \in [Assets -> Nat]
    BY DEF Assumptions, PairAssumption
  <2>2. total_supply' > total_supply
    BY <1>3, <2>1, ProvideStep
  <2> QED
    BY <1>1, <2>2
<1>4. ASSUME NEW sender \in Accounts, NEW amount \in WithdrawAmounts \cup {lp[sender]},
             WithdrawLiquidity(sender, amount)
      PROVE  FALSE
  <2>1. amount \in Nat
    BY DEF Assumptions, PairAssumption, PairTypeOK, LedgerTypeOK
  <2> QED
    BY <1>1, <1>4, <2>1 DEF WithdrawLiquidity
<1>5. ASSUME NEW sender \in Accounts, NEW receiver \in Accounts, NEW j \in Assets,
             NEW amount \in SwapAmounts, NEW belief_price \in BeliefPrices,
             NEW max_spread \in MaxSpreads,
             Swap(sender, receiver, j, amount, belief_price, max_spread)
      PROVE  j = i
  <2>1. amount \in Nat
    BY DEF Assumptions, PairAssumption
  <2>2. reserve'[j] - reserve[j] = amount
    BY <1>5, <2>1, SwapStepPays
  <2>3. CASE j # i
    <3>1. Other(i) = j
      BY <2>3 DEF Assets, Other
    <3> QED
      BY <1>1, <2>1, <2>2, <3>1
  <2> QED
    BY <2>3
<1>6. ASSUME NEW sender \in Accounts, Donation(sender)
      PROVE  FALSE
  <2>1. PICK j \in Assets, amount \in DonateAmounts : Donate(sender, j, amount)
    BY <1>6 DEF Donation
  <2>2. amount \in Nat /\ reserve' = [reserve EXCEPT ![j] = @ + amount]
    BY <2>1 DEF Donate, Assumptions, PairAssumption
  <2> QED
    BY <1>1, <1>2, <2>2
<1>7. ASSUME reserve' = reserve PROVE FALSE
  BY <1>1, <1>2, <1>7
<1> QED
  BY <1>3, <1>4, <1>5, <1>6, <1>7
     DEF PairNext, Call, UpdateConfig, LpCall, TransferLp, BurnLp, NextBlock,
         pairVars, ledgerVars

(* What SwapPaysSimulation says of one step.                               *)
PaysSimulation ==
    \A i \in Assets :
        total_supply' = total_supply /\ reserve'[Other(i)] < reserve[Other(i)] =>
            reserve[Other(i)] - reserve'[Other(i)] =
               Simulation(reserve, i, reserve'[i] - reserve[i]).return_amount

LEMMA PaysSimulationStep ==
    ASSUME Assumptions, PairInv, [PairNext]_pairVars
    PROVE  PaysSimulation
<1>1. SUFFICES ASSUME NEW i \in Assets,
                      total_supply' = total_supply, reserve'[Other(i)] < reserve[Other(i)]
               PROVE  reserve[Other(i)] - reserve'[Other(i)] =
                         Simulation(reserve, i, reserve'[i] - reserve[i]).return_amount
  BY DEF PaysSimulation
<1>2. PICK sender \in Accounts, receiver \in Accounts, amount \in SwapAmounts,
           belief_price \in BeliefPrices, max_spread \in MaxSpreads :
           Swap(sender, receiver, i, amount, belief_price, max_spread)
  BY <1>1, PayoutIsSwap
<1>3. amount \in Nat /\ PairTypeOK
  BY DEF Assumptions, PairAssumption, PairInv
<1> QED
  BY <1>2, <1>3, SwapStepPays

(* A trader gets what the simulation answered, whatever else the contract  *)
(* finds in its balances when the swap is executed.                        *)
THEOREM SwapsPaySimulation == PairSpec => SwapPaysSimulation
<1>1. PairInv /\ [PairNext]_pairVars =>
        [\A i \in Assets :
           total_supply' = total_supply /\ reserve'[Other(i)] < reserve[Other(i)] =>
              reserve[Other(i)] - reserve'[Other(i)] =
                 Simulation(reserve, i, reserve'[i] - reserve[i]).return_amount]_pairVars
  BY PaysSimulationStep, AssumptionsHold DEF PairInv, PaysSimulation
<1> QED
  BY <1>1, PairInvariant, PTL DEF PairSpec, SwapPaysSimulation

-----------------------------------------------------------------------------
(* What a trader is sure of.                                               *)

(* What MultiplyRatio returns when it returns anything.                    *)
LEMMA RatioFacts ==
    ASSUME MathAssumption, NEW v \in Optional, NEW n \in Optional, NEW d \in Optional,
           MultiplyRatio(v, n, d) # None
    PROVE  /\ v \in Nat /\ n \in Nat /\ d \in Nat \ {0}
           /\ MultiplyRatio(v, n, d) \in Nat
           /\ MultiplyRatio(v, n, d) * d <= v * n
           /\ v * n < MultiplyRatio(v, n, d) * d + d
<1>1. /\ (v \otimes n) \oslash d # None
      /\ MultiplyRatio(v, n, d) = (v \otimes n) \oslash d
  BY DEF MultiplyRatio, ToU128, None
<1>2. v \otimes n # None /\ d # None /\ d # 0
  BY <1>1 DEF \oslash
<1>3. v # None /\ n # None /\ v \otimes n = v * n
  BY <1>2 DEF \otimes
<1>4. v \in Nat /\ n \in Nat /\ d \in Nat \ {0} /\ v * n \in Nat
  BY <1>2, <1>3, ProductMonotone DEF Optional
<1>5. MultiplyRatio(v, n, d) = (v * n) \div d
  BY <1>1, <1>2, <1>3, <1>4 DEF \oslash, None
<1> QED
  BY <1>4, <1>5, DivisionFacts

(* The fee is a fraction.                                                  *)
LEMMA FeeType ==
    ASSUME MathAssumption
    PROVE  GlobalFee \in 0 .. DECIMAL_ONE \cup {None}
<1>1. CASE GlobalFee = None
  BY <1>1
<1>2. CASE GlobalFee # None
  <2>1. /\ GLOBAL_FEE_NUMERATOR \in Optional /\ DECIMAL_ONE \in Optional
        /\ GLOBAL_FEE_DENOMINATOR \in Optional
    BY DEF Optional, MathAssumption
  <2> DEFINE n == GLOBAL_FEE_NUMERATOR
             d == GLOBAL_FEE_DENOMINATOR
             fee == GlobalFee
  <2>2. fee \in Nat /\ fee * d <= n * DECIMAL_ONE
    BY <1>2, <2>1, RatioFacts DEF GlobalFee, DecimalRatio
  <2>3. n \in Nat /\ d \in Nat \ {0} /\ n <= d /\ DECIMAL_ONE \in Nat
    BY DEF MathAssumption
  <2> HIDE DEF n, d, fee
  <2>4. n * DECIMAL_ONE <= d * DECIMAL_ONE
    BY <2>3, ProductMonotone
  <2>5. d * fee <= d * DECIMAL_ONE
    BY <2>2, <2>3, <2>4
  <2>6. fee <= DECIMAL_ONE
    BY <2>2, <2>3, <2>5, CancelFactor
  <2> QED
    BY <2>2, <2>3, <2>6 DEF fee
<1> QED
  BY <1>1, <1>2

(* An amount of one precision in the units of the same precision.          *)
LEMMA AdjustSame ==
    ASSUME MathAssumption, NEW p \in 0 .. MaxPrecision
    PROVE  \E u \in Nat \ {0} : \A v \in Optional :
              AdjustPrecision(v, p, p) # None =>
                 v \in Nat /\ AdjustPrecision(v, p, p) = v * u
<1>1. PICK u \in Nat \ {0} : u = PRECISION_BASE ^ (p - p)
  BY UnitsPositive
<1>2. SUFFICES ASSUME NEW v \in Optional, AdjustPrecision(v, p, p) # None
               PROVE  v \in Nat /\ AdjustPrecision(v, p, p) = v * u
  BY <1>1
<1>3. AdjustPrecision(v, p, p) = ToU128(v \otimes u)
  BY <1>1 DEF AdjustPrecision
<1>4. AdjustPrecision(v, p, p) = v \otimes u /\ v \otimes u # None
  BY <1>2, <1>3 DEF ToU128
<1> QED
  BY <1>4 DEF \otimes, Optional

-----------------------------------------------------------------------------
(* The arithmetic of a limit, with all roundings in the pool's favour or   *)
(* one unit against the trader.                                            *)

(* After the commission s - c is left of s.                                *)
LEMMA AfterCommission ==
    ASSUME NEW one \in Nat, NEW fee \in 0 .. one, NEW s \in Nat, NEW c \in Nat,
           c * one <= s * fee
    PROVE  (s - c) * one >= s * (one - fee)
<1>1. (s - c) * one = s * one - c * one
  BY SMT
<1>2. s * (one - fee) = s * one - s * fee
  BY SMT
<1>3. s * one \in Nat /\ c * one \in Nat /\ s * fee \in Nat
  BY SMT
<1> QED
  BY <1>1, <1>2, <1>3

(* A spread of at most limit of the total leaves the rest.                 *)
LEMMA WithinSpread ==
    ASSUME NEW one \in Nat, NEW limit \in Nat, NEW ratio \in Nat, ratio <= limit,
           NEW total \in Nat, NEW lost \in Nat, lost * one < ratio * total + total
    PROVE  (total - lost) * one >= total * (one - limit - 1)
<1>1. ratio * total <= limit * total
  BY ProductMonotone
<1>2. (total - lost) * one = total * one - lost * one
  BY SMT
<1>3. total * (one - limit - 1) = total * one - limit * total - total
  BY SMT
<1>4. total * one \in Nat /\ lost * one \in Nat /\ ratio * total \in Nat /\ limit * total \in Nat
  BY SMT
<1> QED
  BY <1>1, <1>2, <1>3, <1>4

(* A smaller amount is worth less, at any factor that is not negative; at  *)
(* a negative one it is worth nothing.                                     *)
LEMMA WorthLess ==
    ASSUME NEW a \in Nat, NEW b \in Nat, a <= b, NEW f \in Int, NEW g \in Nat, g >= b * f
    PROVE  g >= a * f
<1>1. CASE f >= 0
  <2>1. a * f <= b * f /\ a * f \in Int /\ b * f \in Int
    BY <1>1, ProductMonotone
  <2> QED
    BY <2>1
<1>2. CASE f < 0
  <2>1. a * (0 - f) \in Nat
    BY <1>2, ProductMonotone
  <2>2. a * (0 - f) = 0 - a * f /\ a * f \in Int
    BY SMT
  <2> QED
    BY <2>1, <2>2
<1> QED
  BY <1>1, <1>2

(* The two together.                                                       *)
LEMMA LimitAndFee ==
    ASSUME NEW one \in Nat, NEW payout \in Nat, NEW r \in Nat, NEW e \in Nat,
           NEW f \in Int, NEW rest \in Nat,
           payout * one >= r * rest, r * one >= e * f
    PROVE  payout * one * one >= e * f * rest
<1> DEFINE po == payout * one
           rr == r * rest
           ro == r * one
           ef == e * f
<1>1. po \in Nat /\ rr \in Nat /\ ro \in Nat /\ ef \in Int
  BY SMT
<1>2. rr * one = ro * rest
  BY SMT
<1> HIDE DEF po, rr, ro, ef
<1>3. po >= rr /\ ro >= ef
  BY DEF po, rr, ro, ef
<1>4. po * one >= rr * one
  BY <1>1, <1>3, ProductMonotone
<1>5. ro * rest >= ef * rest
  <2>1. CASE ef >= 0
    BY <1>1, <1>3, <2>1, ProductMonotone
  <2>2. CASE ef < 0
    <3>1. (0 - ef) * rest \in Nat /\ ro * rest \in Nat
      BY <1>1, <2>2, ProductMonotone
    <3>2. (0 - ef) * rest = 0 - ef * rest /\ ef * rest \in Int
      BY <1>1
    <3> QED
      BY <3>1, <3>2
  <2> QED
    BY <1>1, <2>1, <2>2
<1>6. po * one \in Int /\ rr * one \in Int /\ ro * rest \in Int /\ ef * rest \in Int
  BY <1>1
<1>7. po * one >= ef * rest
  BY <1>2, <1>4, <1>5, <1>6
<1> QED
  BY <1>7 DEF po, ef

(* The limit and the return that a caller's options stand for.             *)
LimitOf(max_spread) == IF max_spread = None THEN DEFAULT_SLIPPAGE ELSE max_spread

ExpectedOf(belief_price, offer) ==
    IF belief_price = None THEN offer
    ELSE TimesDecimal(offer, DecimalRatio(DECIMAL_ONE, belief_price))

(* The parts of a quote between assets of one precision with units u:      *)
(* s is what the curve answers and c the commission.                       *)
QuoteParts(quote, amount, u, s, c) ==
    /\ GlobalFee \in 0 .. DECIMAL_ONE
    /\ c * DECIMAL_ONE <= s * GlobalFee /\ c <= s
    /\ quote.return_amount = (s - c) * u
    /\ quote.commission_amount = c * u
    /\ quote.spread_amount = SaturatingSub(amount * u, s) * u

LEMMA EqualPrecisionQuote ==
    ASSUME MathAssumption, NEW p \in 0 .. MaxPrecision,
           NEW x \in Nat, NEW y \in Nat, NEW amount \in Nat, NEW amp,
           NEW quote, quote = ComputeSwap(x, p, y, p, amount, amp), ~Void(quote)
    PROVE  \E u \in Nat \ {0}, s \in Nat, c \in Nat :
              QuoteParts(quote, amount, u, s, c)
<1> DEFINE offer == AdjustPrecision(amount, p, p)
           pool == AdjustPrecision(x, p, p)
           ask == AdjustPrecision(y, p, p)
           swapped == CalcAskAmount(pool, ask, offer, amp)
           commission == TimesDecimal(swapped, GlobalFee)
           spread == IF None \in {offer, swapped} THEN None ELSE SaturatingSub(offer, swapped)
<1>1. PICK u \in Nat \ {0} : \A v \in Optional :
              AdjustPrecision(v, p, p) # None =>
                 v \in Nat /\ AdjustPrecision(v, p, p) = v * u
  BY AdjustSame
<1>2. /\ quote.return_amount = AdjustPrecision(swapped \ominus commission, p, p)
      /\ quote.commission_amount = AdjustPrecision(commission, p, p)
      /\ quote.spread_amount = AdjustPrecision(spread, p, p)
  BY DEF ComputeSwap, Greater
<1>3. /\ quote.return_amount # None /\ quote.commission_amount # None
      /\ quote.spread_amount # None
  BY DEF Void, ComputeSwap
<1>4. ask \in Optional /\ offer \in Optional
  BY AdjustType DEF Optional
<1>5. swapped \in Optional
  BY <1>4, NewBalanceType, CheckedTypes DEF CalcAskAmount
<1>6. commission \in Optional
  BY MultiplyRatioType DEF TimesDecimal
<1> HIDE DEF offer, pool, ask, swapped, commission
<1>7. spread \in Optional
  BY <1>4, <1>5 DEF SaturatingSub, Optional
<1>8. swapped \ominus commission \in Optional
  BY <1>5, <1>6, CheckedTypes
<1>9. /\ quote.return_amount = (swapped \ominus commission) * u
      /\ swapped \ominus commission \in Nat
      /\ quote.commission_amount = commission * u /\ commission \in Nat
      /\ quote.spread_amount = spread * u /\ spread \in Nat
  BY <1>1, <1>2, <1>3, <1>6, <1>7, <1>8
<1>10. /\ swapped \in Nat /\ swapped \ominus commission = swapped - commission
       /\ commission <= swapped
  BY <1>5, <1>9 DEF \ominus, Optional, None
<1>11. /\ GlobalFee \in 0 .. DECIMAL_ONE
       /\ commission * DECIMAL_ONE <= swapped * GlobalFee
  <2>1. MultiplyRatio(swapped, GlobalFee, DECIMAL_ONE) # None
    BY <1>9 DEF commission, TimesDecimal, None
  <2>2. GlobalFee \in Optional /\ DECIMAL_ONE \in Optional /\ GlobalFee \in 0 .. DECIMAL_ONE \cup {None}
    BY FeeType DEF Optional, MathAssumption
  <2>3. /\ GlobalFee \in Nat
        /\ MultiplyRatio(swapped, GlobalFee, DECIMAL_ONE) * DECIMAL_ONE <= swapped * GlobalFee
    BY <1>5, <2>1, <2>2, RatioFacts
  <2> QED
    BY <2>2, <2>3 DEF commission, TimesDecimal, None
<1>12. offer = amount * u /\ spread = SaturatingSub(offer, swapped)
  <2>1. offer # None /\ spread = SaturatingSub(offer, swapped)
    BY <1>9 DEF None
  <2> QED
    BY <1>1, <2>1 DEF offer, Optional
<1> QED
  BY <1>9, <1>10, <1>11, <1>12 DEF QuoteParts

(* A sale that passes the spread check pays what its limit promises.       *)
LEMMA QuoteWithinLimit ==
    ASSUME MathAssumption, NEW amount \in Nat,
           NEW u \in Nat \ {0}, NEW s \in Nat, NEW c \in Nat,
           NEW belief_price \in Optional, NEW max_spread \in Optional,
           NEW quote, QuoteParts(quote, amount, u, s, c),
           WithinMaxSpread(belief_price, max_spread, amount,
                           quote.return_amount + quote.commission_amount, quote.spread_amount)
    PROVE  /\ LimitOf(max_spread) <= MAX_ALLOWED_SLIPPAGE
           /\ quote.return_amount * DECIMAL_ONE * DECIMAL_ONE
                >= ExpectedOf(belief_price, amount) * (DECIMAL_ONE - LimitOf(max_spread) - 1)
                      * (DECIMAL_ONE - GlobalFee)
<1>1. /\ u \in Nat \ {0} /\ s \in Nat /\ c \in Nat
      /\ GlobalFee \in 0 .. DECIMAL_ONE
      /\ c * DECIMAL_ONE <= s * GlobalFee /\ c <= s
      /\ quote.return_amount = (s - c) * u
      /\ quote.commission_amount = c * u
      /\ quote.spread_amount = SaturatingSub(amount * u, s) * u
  BY DEF QuoteParts
<1>2. PICK one \in Nat \ {0}, fee \in Nat, limit \in Nat :
         fee <= one /\ one = DECIMAL_ONE /\ fee = GlobalFee /\ limit = LimitOf(max_spread)
  BY <1>1 DEF MathAssumption, LimitOf, Optional
<1>3. PICK payout \in Nat, r \in Nat, lost \in Nat :
         /\ payout = (s - c) * u /\ r = s * u
         /\ lost = SaturatingSub(amount * u, s) * u
  <2>1. amount * u \in Nat /\ u \in Nat
    BY <1>1, ProductMonotone
  <2>2. s - c \in Nat /\ SaturatingSub(amount * u, s) \in Nat
    BY <1>1, <2>1 DEF SaturatingSub
  <2>3. /\ (s - c) * u \in Nat /\ s * u \in Nat
        /\ SaturatingSub(amount * u, s) * u \in Nat
    BY <1>1, <2>1, <2>2, ProductMonotone
  <2> QED
    BY <2>3
<1>4. quote.return_amount + quote.commission_amount = r
  <2>1. (s - c) * u + c * u = s * u
    BY <1>1
  <2> QED
    BY <1>1, <1>3, <2>1
<1>5. r + lost >= amount
  <2> DEFINE d == SaturatingSub(amount * u, s)
  <2>1. amount * u \in Nat /\ amount * u >= amount
    BY <1>1
  <2>2. d \in Nat /\ s + d >= amount * u
    BY <2>1 DEF SaturatingSub
  <2> HIDE DEF d
  <2>3. /\ s + d <= (s + d) * u
        /\ (s + d) * u = s * u + d * u
    <3>1. s + d \in Nat /\ 1 <= u
      BY <1>1, <2>2
    <3>2. (s + d) * 1 <= (s + d) * u
      BY <1>1, <3>1, ProductMonotone
    <3> QED
      BY <1>1, <2>2, <3>1, <3>2
  <2>4. r = s * u /\ lost = d * u
    BY <1>3 DEF d
  <2>5. s \in Nat /\ r + lost >= s + d
    BY <1>1, <2>3, <2>4
  <2> QED
    BY <1>3, <2>1, <2>2, <2>5
<1>6. payout * one >= r * (one - fee)
  <2>1. (s - c) * one >= s * (one - fee) /\ s - c \in Nat /\ one - fee \in Nat
    BY <1>1, <1>2, AfterCommission
  <2>2. s * (one - fee) \in Nat /\ (s - c) * one \in Nat
    BY <2>1, ProductMonotone
  <2>3. (s * (one - fee)) * u <= ((s - c) * one) * u
    BY <2>1, <2>2, ProductMonotone
  <2>4. (s * (one - fee)) * u = (s * u) * (one - fee)
    BY SMT
  <2>5. ((s - c) * one) * u = ((s - c) * u) * one
    BY SMT
  <2> QED
    BY <1>3, <2>2, <2>3, <2>4, <2>5
<1>7. /\ limit <= MAX_ALLOWED_SLIPPAGE
      /\ IF belief_price = None
         THEN LET ratio == DecimalRatio(lost, ToU128(r \oplus lost))
              IN  ratio # None /\ ratio <= limit
         ELSE LET expected == ExpectedOf(belief_price, amount)
                  ratio == DecimalRatio(expected - r, expected)
              IN  /\ expected # None
                  /\ r >= expected \/ (ratio # None /\ ratio <= limit)
  BY <1>1, <1>2, <1>3, <1>4 DEF WithinMaxSpread, LimitOf, ExpectedOf
<1>8. /\ ExpectedOf(belief_price, amount) \in Nat
      /\ r * one >= ExpectedOf(belief_price, amount) * (one - limit - 1)
  <2>1. CASE belief_price = None
    <3> DEFINE total == ToU128(r \oplus lost)
               ratio == DecimalRatio(lost, total)
    <3>1. ratio # None /\ ratio <= limit
      BY <1>7, <2>1
    <3>2. total \in Optional /\ lost \in Optional /\ DECIMAL_ONE \in Optional
      BY ToU128Type DEF Optional, MathAssumption
    <3>3. /\ total \in Nat /\ ratio \in Nat /\ lost * DECIMAL_ONE < ratio * total + total
      BY <3>1, <3>2, RatioFacts DEF DecimalRatio
    <3>4. total = r + lost
      BY <3>3 DEF ToU128, \oplus, None
    <3> HIDE DEF ratio
    <3>5. (r + lost - lost) * one >= (r + lost) * (one - limit - 1)
      BY <1>2, <3>1, <3>3, <3>4, WithinSpread
    <3>6. r * one >= (r + lost) * (one - limit - 1) /\ r * one \in Nat
      BY <3>5, ProductMonotone
    <3>7. r * one >= amount * (one - limit - 1)
      BY <1>5, <3>6, WorthLess
    <3> QED
      BY <2>1, <3>7 DEF ExpectedOf
  <2>2. CASE belief_price # None
    <3> DEFINE expected == ExpectedOf(belief_price, amount)
               ratio == DecimalRatio(expected - r, expected)
    <3>1. expected \in Nat
      <4>1. expected \in Optional
        BY <2>2, MultiplyRatioType DEF ExpectedOf, TimesDecimal
      <4> QED
        BY <1>7, <2>2, <4>1 DEF Optional
    <3>2. PICK e \in Nat : e = expected
      BY <3>1
    <3>3. CASE r >= e
      <4>1. e * one >= e * (one - limit - 1) /\ e * one \in Nat
        <5>1. e * (one - limit - 1) = e * one - e * limit - e /\ e * limit \in Nat /\ e * one \in Nat
          BY SMT
        <5> QED
          BY <5>1
      <4>2. r * one >= e * one /\ r * one \in Nat
        BY <3>3, ProductMonotone
      <4>3. e * (one - limit - 1) \in Int
        BY SMT
      <4> QED
        BY <3>1, <3>2, <4>1, <4>2, <4>3
    <3>4. CASE ~(r >= e)
      <4>1. ratio # None /\ ratio <= limit
        BY <1>7, <2>2, <3>2, <3>4
      <4>2. e - r \in Nat
        BY <3>4
      <4>3. ratio \in Nat /\ (e - r) * DECIMAL_ONE < ratio * e + e
        BY <3>2, <4>1, <4>2, RatioFacts DEF DecimalRatio, Optional, MathAssumption
      <4> HIDE DEF ratio
      <4>4. (e - (e - r)) * one >= e * (one - limit - 1)
        BY <1>2, <4>1, <4>2, <4>3, WithinSpread
      <4>5. e - (e - r) = r
        OBVIOUS
      <4> QED
        BY <3>1, <3>2, <4>4, <4>5
    <3> QED
      BY <3>3, <3>4
  <2> QED
    BY <2>1, <2>2
<1>9. PICK e \in Nat : e = ExpectedOf(belief_price, amount)
  BY <1>8
<1>10. payout * one * one >= e * (one - limit - 1) * (one - fee)
  <2>1. one - fee \in Nat /\ one - limit - 1 \in Int
    BY <1>2
  <2> QED
    BY <1>6, <1>8, <1>9, <2>1, LimitAndFee
<1> QED
  BY <1>1, <1>2, <1>3, <1>7, <1>9, <1>10

(* What SwapNearParity says of a payout of asset o for asset i.            *)
NearParity(offer, payout) ==
    \E limit \in SpreadLimits, expected \in ExpectedReturns(offer) :
       /\ limit <= MAX_ALLOWED_SLIPPAGE
       /\ payout * DECIMAL_ONE * DECIMAL_ONE
            >= expected * (DECIMAL_ONE - limit - 1) * (DECIMAL_ONE - GlobalFee)

LEMMA QuoteNearParity ==
    ASSUME Assumptions, Precision[0] = Precision[1],
           NEW pools \in [Assets -> Nat], NEW i \in Assets, NEW amount \in Nat,
           NEW belief_price \in BeliefPrices, NEW max_spread \in MaxSpreads,
           NEW quote, quote = Simulation(pools, i, amount), ~Void(quote),
           WithinMaxSpread(belief_price, max_spread, amount,
                           quote.return_amount + quote.commission_amount, quote.spread_amount)
    PROVE  NearParity(amount, quote.return_amount)
<1>1. PICK p \in 0 .. MaxPrecision : p = Precision[i] /\ p = Precision[Other(i)]
  BY DEF Assumptions, PairAssumption, Assets, Other
<1>2. quote = ComputeSwap(pools[i], p, pools[Other(i)], p, amount, CurrentAmp)
  BY <1>1 DEF Simulation
<1>3. pools[i] \in Nat /\ pools[Other(i)] \in Nat
  BY DEF Assets, Other
<1>4. PICK u \in Nat \ {0}, s \in Nat, c \in Nat : QuoteParts(quote, amount, u, s, c)
  BY <1>2, <1>3, EqualPrecisionQuote DEF Assumptions
<1>5. belief_price \in Optional /\ max_spread \in Optional
  BY DEF Assumptions, PairAssumption, Optional
<1>6. /\ LimitOf(max_spread) <= MAX_ALLOWED_SLIPPAGE
      /\ quote.return_amount * DECIMAL_ONE * DECIMAL_ONE
           >= ExpectedOf(belief_price, amount) * (DECIMAL_ONE - LimitOf(max_spread) - 1)
                 * (DECIMAL_ONE - GlobalFee)
  BY <1>4, <1>5, QuoteWithinLimit DEF Assumptions
<1>7. LimitOf(max_spread) \in SpreadLimits /\ ExpectedOf(belief_price, amount) \in ExpectedReturns(amount)
  BY DEF SpreadLimits, ExpectedReturns, LimitOf, ExpectedOf
<1> QED
  BY <1>6, <1>7 DEF NearParity

(* What a step means for a trader.                                         *)
LEMMA NearParityStep ==
    ASSUME Assumptions, Precision[0] = Precision[1], PairInv, [PairNext]_pairVars,
           NEW i \in Assets,
           total_supply' = total_supply, reserve'[Other(i)] < reserve[Other(i)]
    PROVE  NearParity(reserve'[i] - reserve[i], reserve[Other(i)] - reserve'[Other(i)])
<1>1. PICK sender \in Accounts, receiver \in Accounts, amount \in SwapAmounts,
           belief_price \in BeliefPrices, max_spread \in MaxSpreads :
           Swap(sender, receiver, i, amount, belief_price, max_spread)
  BY PayoutIsSwap
<1>2. amount \in Nat /\ PairTypeOK /\ reserve \in [Assets -> Nat]
  BY DEF Assumptions, PairAssumption, PairInv, PairTypeOK, LedgerTypeOK
<1>3. PICK quote : quote = Simulation(reserve, i, amount)
  OBVIOUS
<1>4. /\ reserve'[i] - reserve[i] = amount
      /\ reserve[Other(i)] - reserve'[Other(i)] = quote.return_amount
  BY <1>1, <1>2, <1>3, SwapStepPays
<1>5. /\ ~Void(quote)
      /\ WithinMaxSpread(belief_price, max_spread, amount,
                         quote.return_amount + quote.commission_amount, quote.spread_amount)
  BY <1>1, <1>2, <1>3, WithoutOffer DEF Swap
<1> QED
  BY <1>2, <1>3, <1>4, <1>5, QuoteNearParity

(* What a trader is sure of, whatever Newton's iteration answers and       *)
(* whatever happened to the pool before the call: between assets of equal  *)
(* precision the payout of every swap is worth the offer at the believed   *)
(* price less the accepted spread and the fee.                             *)
THEOREM SwapsNearParity ==
    ASSUME Precision[0] = Precision[1]
    PROVE  PairSpec => SwapNearParity
<1>1. PairInv /\ [PairNext]_pairVars =>
        [\A i \in Assets :
           total_supply' = total_supply /\ reserve'[Other(i)] < reserve[Other(i)] =>
              \E limit \in SpreadLimits, expected \in ExpectedReturns(reserve'[i] - reserve[i]) :
                 /\ limit <= MAX_ALLOWED_SLIPPAGE
                 /\ (reserve[Other(i)] - reserve'[Other(i)]) * DECIMAL_ONE * DECIMAL_ONE
                      >= expected * (DECIMAL_ONE - limit - 1) * (DECIMAL_ONE - GlobalFee)]_pairVars
  BY NearParityStep, AssumptionsHold DEF NearParity
<1> QED
  BY <1>1, PairInvariant, PTL DEF PairSpec, SwapNearParity

-----------------------------------------------------------------------------
(* The supply is the sum of what the accounts hold.  A sum over a set is   *)
(* said by what it does when an account is added to the set: count[S] is   *)
(* what the accounts in S hold together.                                   *)
Counts(holds, total) ==
    \E count \in [SUBSET Accounts -> Nat] :
        /\ count[{}] = 0
        /\ \A S \in SUBSET Accounts : \A x \in Accounts \ S :
              count[S \cup {x}] = count[S] + holds[x]
        /\ count[Accounts] = total

SupplyIsSum == Counts(lp, total_supply)

(* Nobody holds more than the supply.                                      *)
LEMMA PartOfSupply ==
    ASSUME NEW holds \in [Accounts -> Nat], NEW total, Counts(holds, total),
           NEW x \in Accounts
    PROVE  total \in Nat /\ holds[x] <= total
<1>1. PICK count \in [SUBSET Accounts -> Nat] :
        /\ \A S \in SUBSET Accounts : \A y \in Accounts \ S :
              count[S \cup {y}] = count[S] + holds[y]
        /\ count[Accounts] = total
  BY DEF Counts
<1> DEFINE others == Accounts \ {x}
<1>2. others \in SUBSET Accounts /\ x \in Accounts \ others /\ others \cup {x} = Accounts
  OBVIOUS
<1> HIDE DEF others
<1>3. count[Accounts] = count[others] + holds[x] /\ count[others] \in Nat
  BY <1>1, <1>2
<1> QED
  BY <1>1, <1>3

(* The sum follows a change of one holding.                                *)
LEMMA SumFollows ==
    ASSUME NEW holds \in [Accounts -> Nat], NEW total, Counts(holds, total),
           NEW x \in Accounts, NEW v \in Nat
    PROVE  Counts([holds EXCEPT ![x] = v], total - holds[x] + v)
<1>1. PICK count \in [SUBSET Accounts -> Nat] :
        /\ count[{}] = 0
        /\ \A S \in SUBSET Accounts : \A y \in Accounts \ S :
              count[S \cup {y}] = count[S] + holds[y]
        /\ count[Accounts] = total
  BY DEF Counts
<1> DEFINE changed == [holds EXCEPT ![x] = v]
           recount == [S \in SUBSET Accounts |->
                          IF x \in S THEN count[S] - holds[x] + v ELSE count[S]]
<1>2. \A S \in SUBSET Accounts : x \in S => count[S] - holds[x] \in Nat
  <2> SUFFICES ASSUME NEW S \in SUBSET Accounts, x \in S
               PROVE  count[S] - holds[x] \in Nat
    OBVIOUS
  <2>1. S \ {x} \in SUBSET Accounts /\ x \in Accounts \ (S \ {x}) /\ (S \ {x}) \cup {x} = S
    OBVIOUS
  <2>2. count[S] = count[S \ {x}] + holds[x]
    BY <1>1, <2>1
  <2>3. count[S \ {x}] \in Nat /\ holds[x] \in Nat
    BY <2>1
  <2> QED
    BY <2>2, <2>3
<1>3. recount \in [SUBSET Accounts -> Nat]
  BY <1>2
<1>4. recount[{}] = 0
  BY <1>1
<1>5. ASSUME NEW S \in SUBSET Accounts, NEW y \in Accounts \ S
      PROVE  recount[S \cup {y}] = recount[S] + changed[y]
  <2>1. /\ S \cup {y} \in SUBSET Accounts /\ count[S \cup {y}] = count[S] + holds[y]
        /\ count[S] \in Nat /\ holds[y] \in Nat /\ holds[x] \in Nat
    BY <1>1
  <2>2. CASE y = x
    <3>1. recount[S \cup {y}] = count[S \cup {y}] - holds[x] + v /\ recount[S] = count[S]
      BY <2>1, <2>2
    <3>2. changed[y] = v
      BY <2>2
    <3> QED
      BY <2>1, <2>2, <3>1, <3>2
  <2>3. CASE y # x
    <3>1. changed[y] = holds[y]
      BY <2>3
    <3>2. CASE x \in S
      <4>1. /\ recount[S \cup {y}] = count[S \cup {y}] - holds[x] + v
            /\ recount[S] = count[S] - holds[x] + v
        BY <2>1, <3>2
      <4> QED
        BY <2>1, <3>1, <4>1
    <3>3. CASE x \notin S
      <4>1. recount[S \cup {y}] = count[S \cup {y}] /\ recount[S] = count[S]
        BY <2>1, <2>3, <3>3
      <4> QED
        BY <2>1, <3>1, <4>1
    <3> QED
      BY <3>2, <3>3
  <2> QED
    BY <2>2, <2>3
<1>6. recount[Accounts] = total - holds[x] + v
  BY <1>1
<1> HIDE DEF recount
<1> QED
  BY <1>3, <1>4, <1>5, <1>6 DEF Counts

(* What a step may do to the holdings and to the supply: mint, burn, move. *)
LpMoves(holds, total, holds2, total2) ==
    \/ holds2 = holds /\ total2 = total
    \/ \E x \in Accounts, v \in Nat :
          holds2 = [holds EXCEPT ![x] = @ + v] /\ total2 = total + v
    \/ \E x \in Accounts, v \in Nat :
          /\ holds[x] >= v
          /\ holds2 = [holds EXCEPT ![x] = @ - v] /\ total2 = total - v
    \/ \E x \in Accounts, y \in Accounts, v \in Nat :
          /\ holds[x] >= v
          /\ holds2 = [[holds EXCEPT ![x] = @ - v] EXCEPT ![y] = @ + v] /\ total2 = total

(* After any of these the supply is still the sum.                         *)
LEMMA MovesKeepSum ==
    ASSUME NEW holds \in [Accounts -> Nat], NEW total \in Nat, Counts(holds, total),
           NEW holds2, NEW total2, LpMoves(holds, total, holds2, total2)
    PROVE  Counts(holds2, total2)
<1>1. ASSUME NEW x \in Accounts, NEW v \in Nat,
             holds2 = [holds EXCEPT ![x] = @ + v], total2 = total + v
      PROVE  Counts(holds2, total2)
  <2>1. holds[x] \in Nat /\ holds[x] + v \in Nat
    OBVIOUS
  <2>2. Counts([holds EXCEPT ![x] = holds[x] + v], total - holds[x] + (holds[x] + v))
    BY <2>1, SumFollows
  <2>3. total - holds[x] + (holds[x] + v) = total2
    BY <1>1, <2>1
  <2> QED
    BY <1>1, <2>2, <2>3
<1>2. ASSUME NEW x \in Accounts, NEW v \in Nat, holds[x] >= v
      PROVE  /\ [holds EXCEPT ![x] = @ - v] \in [Accounts -> Nat] /\ total - v \in Nat
             /\ Counts([holds EXCEPT ![x] = @ - v], total - v)
  <2>1. holds[x] \in Nat /\ holds[x] - v \in Nat
    BY <1>2
  <2>2. Counts([holds EXCEPT ![x] = holds[x] - v], total - holds[x] + (holds[x] - v))
    BY <2>1, SumFollows
  <2>3. total - holds[x] + (holds[x] - v) = total - v
    BY <2>1
  <2>4. holds[x] <= total
    BY PartOfSupply
  <2>5. total - v \in Nat
    BY <1>2, <2>1, <2>4
  <2> QED
    BY <2>1, <2>2, <2>3, <2>5
<1>3. ASSUME NEW x \in Accounts, NEW y \in Accounts, NEW v \in Nat, holds[x] >= v,
             holds2 = [[holds EXCEPT ![x] = @ - v] EXCEPT ![y] = @ + v], total2 = total
      PROVE  Counts(holds2, total2)
  <2>1. PICK debited \in [Accounts -> Nat] :
          /\ debited = [holds EXCEPT ![x] = @ - v] /\ total - v \in Nat
          /\ Counts(debited, total - v)
    BY <1>2, <1>3
  <2>2. debited[y] \in Nat /\ debited[y] + v \in Nat
    BY <2>1
  <2>3. Counts([debited EXCEPT ![y] = debited[y] + v], (total - v) - debited[y] + (debited[y] + v))
    BY <2>1, <2>2, SumFollows
  <2>4. (total - v) - debited[y] + (debited[y] + v) = total2
    BY <1>3, <2>2
  <2>5. holds2 = [debited EXCEPT ![y] = debited[y] + v]
    BY <1>3, <2>1
  <2> QED
    BY <2>3, <2>4, <2>5
<1> QED
  BY <1>1, <1>2, <1>3 DEF LpMoves

(* A pair does nothing else to its LP tokens.                              *)
LEMMA StepMovesLp ==
    ASSUME Assumptions, PairTypeOK, [PairNext]_pairVars
    PROVE  LpMoves(lp, total_supply, lp', total_supply')
<1>1. ASSUME lp' = lp, total_supply' = total_supply
      PROVE  LpMoves(lp, total_supply, lp', total_supply')
  BY <1>1 DEF LpMoves
<1>2. ASSUME NEW sender \in Accounts, NEW receiver \in Accounts,
             NEW deposits, ProvideLiquidity(sender, receiver, deposits)
      PROVE  LpMoves(lp, total_supply, lp', total_supply')
  <2>1. PICK pools, evaluated :
          /\ Share(pools, evaluated) # None
          /\ lp' = [lp EXCEPT ![receiver] = @ + Share(pools, evaluated)]
          /\ total_supply' = total_supply + Share(pools, evaluated)
    BY <1>2 DEF ProvideLiquidity
  <2>2. Share(pools, evaluated) \in Nat
    BY <2>1, ShareType DEF Optional
  <2> QED
    BY <2>1, <2>2 DEF LpMoves
<1>3. ASSUME NEW sender \in Accounts, NEW amount \in WithdrawAmounts \cup {lp[sender]},
             WithdrawLiquidity(sender, amount)
      PROVE  LpMoves(lp, total_supply, lp', total_supply')
  <2>1. amount \in Nat
    BY DEF Assumptions, PairAssumption, PairTypeOK, LedgerTypeOK
  <2> QED
    BY <1>3, <2>1 DEF WithdrawLiquidity, LpMoves
<1>4. ASSUME NEW sender \in Accounts, LpCall(sender)
      PROVE  LpMoves(lp, total_supply, lp', total_supply')
  <2>1. PICK amount \in LpAmounts :
          \/ \E receiver \in Accounts : TransferLp(sender, receiver, amount)
          \/ BurnLp(sender, amount)
    BY <1>4 DEF LpCall
  <2>2. amount \in Nat
    BY DEF Assumptions, PairAssumption
  <2>3. CASE BurnLp(sender, amount)
    BY <2>2, <2>3 DEF BurnLp, LpMoves
  <2>4. CASE \E receiver \in Accounts : TransferLp(sender, receiver, amount)
    BY <2>2, <2>4 DEF TransferLp, LpMoves
  <2> QED
    BY <2>1, <2>3, <2>4
<1>5. ASSUME NEW sender \in Accounts, Call(sender)
      PROVE  LpMoves(lp, total_supply, lp', total_supply')
  <2>1. ASSUME NEW receiver, NEW i, NEW amount, NEW b, NEW m,
               Swap(sender, receiver, i, amount, b, m)
        PROVE  lp' = lp /\ total_supply' = total_supply
    BY <2>1 DEF Swap
  <2> QED
    BY <1>1, <1>2, <1>3, <1>5, <2>1 DEF Call
<1> QED
  BY <1>1, <1>4, <1>5
     DEF PairNext, UpdateConfig, Donation, Donate, NextBlock, pairVars, ledgerVars

(* provide_liquidity mints, withdraw_liquidity and Burn destroy, Transfer  *)
(* moves: after any of them the supply is what the holders have together,  *)
(* so a refund is computed from an amount that is part of the supply.      *)
THEOREM SupplyAlwaysSum == PairSpec => []SupplyIsSum
<1>1. PairInit => SupplyIsSum
  <2>1. SUFFICES ASSUME PairInit PROVE SupplyIsSum
    OBVIOUS
  <2> DEFINE count == [S \in SUBSET Accounts |-> 0]
  <2>2. count \in [SUBSET Accounts -> Nat]
    OBVIOUS
  <2>3. count[{}] = 0 /\ count[Accounts] = total_supply
    BY <2>1 DEF PairInit
  <2>4. ASSUME NEW S \in SUBSET Accounts, NEW x \in Accounts \ S
        PROVE  count[S \cup {x}] = count[S] + lp[x]
    <3>1. S \cup {x} \in SUBSET Accounts /\ lp[x] = 0
      BY <2>1 DEF PairInit
    <3> QED
      BY <3>1
  <2> HIDE DEF count
  <2> QED
    BY <2>2, <2>3, <2>4 DEF SupplyIsSum, Counts
<1>2. PairInv /\ SupplyIsSum /\ [PairNext]_pairVars => SupplyIsSum'
  <2>1. SUFFICES ASSUME PairInv, SupplyIsSum, [PairNext]_pairVars
                 PROVE  SupplyIsSum'
    OBVIOUS
  <2>2. /\ lp \in [Accounts -> Nat] /\ total_supply \in Nat
        /\ LpMoves(lp, total_supply, lp', total_supply')
    BY <2>1, StepMovesLp, AssumptionsHold DEF PairInv, PairTypeOK, LedgerTypeOK, U128
  <2>3. Counts(lp', total_supply')
    BY <2>1, <2>2, MovesKeepSum DEF SupplyIsSum
  <2> QED
    BY <2>3 DEF SupplyIsSum, Counts
<1> QED
  BY <1>1, <1>2, PairInvariant, PTL DEF PairSpec

(* A share that stands for a unit, and for one step of the Decimal through *)
(* which it is computed, can be paid: two roundings cost less than that.   *)
LEMMA ShareCanBePaid ==
    ASSUME Assumptions, NEW pool \in U128, NEW total \in U128, NEW amount \in 1 .. total,
           amount * pool * DECIMAL_ONE >= total * (DECIMAL_ONE + pool)
    PROVE  ShareInAsset(pool, amount, total) \in 1 .. pool
<1> DEFINE scaled == amount * DECIMAL_ONE
           ratio == scaled \div total
           product == pool * ratio
           part == product \div DECIMAL_ONE
<1>1. /\ DECIMAL_ONE \in Nat \ {0} /\ DECIMAL_ONE <= MaxU128
      /\ MaxU128 \in Nat /\ MaxU256 \in Nat /\ MaxU128 * MaxU128 <= MaxU256
  BY DEF Assumptions, MathAssumption
<1>2. /\ pool \in Nat /\ pool <= MaxU128
      /\ total \in Nat \ {0} /\ total <= MaxU128
      /\ amount \in Nat \ {0} /\ amount <= total
  BY <1>1 DEF U128
<1>3. scaled \in Nat /\ scaled <= total * DECIMAL_ONE /\ scaled <= MaxU256
  <2>1. scaled \in Nat /\ scaled <= total * DECIMAL_ONE
    BY <1>1, <1>2, ProductMonotone
  <2>2. amount * DECIMAL_ONE <= MaxU128 * DECIMAL_ONE
    BY <1>1, <1>2, ProductMonotone
  <2>3. MaxU128 * DECIMAL_ONE <= MaxU128 * MaxU128
    BY <1>1, ProductMonotone
  <2>4. MaxU128 * DECIMAL_ONE \in Nat /\ MaxU128 * MaxU128 \in Nat
    BY <1>1, ProductMonotone
  <2> QED
    BY <1>1, <2>1, <2>2, <2>3, <2>4
<1>4. amount \otimes DECIMAL_ONE = scaled
  BY <1>1, <1>2, <1>3, CheckedFits DEF Assumptions
<1> HIDE DEF scaled
<1>5. ratio \in Nat /\ ratio * total <= scaled /\ scaled < ratio * total + total
  BY <1>2, <1>3, DivisionFacts
<1>6. scaled \oslash total = ratio
  BY <1>2, <1>3, CheckedFits DEF Assumptions
<1> HIDE DEF ratio
<1>7. ratio <= DECIMAL_ONE
  <2>1. total * ratio <= total * DECIMAL_ONE
    BY <1>1, <1>2, <1>3, <1>5
  <2> QED
    BY <1>1, <1>2, <1>5, <2>1, CancelFactor
<1>8. DecimalRatio(amount, total) = ratio
  BY <1>1, <1>4, <1>5, <1>6, <1>7 DEF DecimalRatio, MultiplyRatio, ToU128, U128
<1>9. product \in Nat /\ product <= pool * DECIMAL_ONE /\ product <= MaxU256
  <2>1. product \in Nat /\ product <= pool * DECIMAL_ONE
    BY <1>1, <1>2, <1>5, <1>7, ProductMonotone
  <2>2. pool * DECIMAL_ONE <= MaxU128 * DECIMAL_ONE
    BY <1>1, <1>2, ProductMonotone
  <2>3. MaxU128 * DECIMAL_ONE <= MaxU128 * MaxU128
    BY <1>1, ProductMonotone
  <2>4. /\ pool * DECIMAL_ONE \in Nat /\ MaxU128 * DECIMAL_ONE \in Nat
        /\ MaxU128 * MaxU128 \in Nat
    BY <1>1, <1>2, ProductMonotone
  <2> QED
    BY <1>1, <2>1, <2>2, <2>3, <2>4
<1>10. pool \otimes ratio = product
  BY <1>2, <1>5, <1>9, CheckedFits DEF Assumptions
<1>11. DECIMAL_ONE <= product
  <2>1. /\ pool * scaled \in Nat /\ product * total \in Nat /\ pool * total \in Nat
        /\ total * DECIMAL_ONE \in Nat
    BY <1>1, <1>2, <1>3, <1>9, ProductMonotone
  <2>2. pool * scaled <= pool * (ratio * total + total)
    BY <1>2, <1>3, <1>5, ProductMonotone
  <2>3. pool * (ratio * total + total) = product * total + pool * total
    BY <1>2, <1>5
  <2>4. amount * pool * DECIMAL_ONE = pool * scaled
    BY <1>1, <1>2 DEF scaled
  <2>5. total * (DECIMAL_ONE + pool) = total * DECIMAL_ONE + pool * total
    BY <1>1, <1>2
  <2> HIDE DEF product
  <2>6. total * DECIMAL_ONE + pool * total <= product * total + pool * total
    BY <2>1, <2>2, <2>3, <2>4, <2>5
  <2>7. total * DECIMAL_ONE <= total * product
    BY <1>2, <1>9, <2>1, <2>6
  <2> QED
    BY <1>1, <1>2, <1>9, <2>7, CancelFactor
<1> HIDE DEF product
<1>12. part \in Nat /\ part * DECIMAL_ONE <= product /\ product < part * DECIMAL_ONE + DECIMAL_ONE
  BY <1>1, <1>9, DivisionFacts
<1>13. product \oslash DECIMAL_ONE = part
  BY <1>1, <1>9, CheckedFits DEF Assumptions
<1> HIDE DEF part
<1>14. part <= pool
  <2>1. DECIMAL_ONE * part <= DECIMAL_ONE * pool
    BY <1>1, <1>2, <1>9, <1>12
  <2> QED
    BY <1>1, <1>2, <1>12, <2>1, CancelFactor
<1>15. part >= 1
  <2>1. part = 0 => part * DECIMAL_ONE = 0
    BY <1>1
  <2> QED
    BY <1>1, <1>9, <1>11, <1>12, <2>1
<1>16. ShareInAsset(pool, amount, total) = part
  BY <1>1, <1>2, <1>8, <1>10, <1>12, <1>13, <1>14
     DEF ShareInAsset, TimesDecimal, MultiplyRatio, ToU128, U128
<1> QED
  BY <1>2, <1>12, <1>14, <1>15, <1>16

(* A provider can always leave, as long as the update of the oracle still  *)
(* succeeds: whatever the LP tokens stand for, from a unit on, is paid.    *)
(* (The ledgers count in 128 bits, like the pair.)                         *)
THEOREM ProvidersCanLeave ==
    PairSpec => [](OracleAllowsWithdrawal /\ reserve \in [Assets -> U128] => ProviderCanLeave)
<1>1. PairInv /\ SupplyIsSum =>
        (OracleAllowsWithdrawal /\ reserve \in [Assets -> U128] => ProviderCanLeave)
  <2>1. SUFFICES ASSUME PairInv, SupplyIsSum, OracleAllowsWithdrawal,
                        reserve \in [Assets -> U128],
                        NEW a \in Accounts,
                        NEW amount \in (WithdrawAmounts \cup {lp[a]}) \cap 1 .. lp[a],
                        WorthUnits(amount), NEW i \in Assets
                 PROVE  ShareInAsset(reserve[i], amount, total_supply) \in 1 .. reserve[i]
    BY DEF ProviderCanLeave
  <2>2. /\ lp \in [Accounts -> Nat] /\ total_supply \in U128
        /\ reserve[i] \in U128
    BY <2>1 DEF PairInv, PairTypeOK, LedgerTypeOK
  <2>3. total_supply \in Nat /\ lp[a] <= total_supply
    BY <2>1, <2>2, PartOfSupply DEF SupplyIsSum
  <2>4. lp[a] \in Nat /\ amount \in 1 .. total_supply
    BY <2>1, <2>2, <2>3
  <2>5. amount * reserve[i] * DECIMAL_ONE >= total_supply * (DECIMAL_ONE + reserve[i])
    BY <2>1 DEF WorthUnits
  <2> QED
    BY <2>2, <2>4, <2>5, ShareCanBePaid, AssumptionsHold
<1> QED
  BY <1>1, PairInvariant, SupplyAlwaysSum, PTL

-----------------------------------------------------------------------------
(* A payout is never more than the pool has.                               *)

(* No more comes back from a finer precision than went there.              *)
LEMMA AdjustBack ==
    ASSUME MathAssumption, NEW p \in 0 .. MaxPrecision, NEW q \in 0 .. MaxPrecision, p <= q,
           NEW v \in Nat, AdjustPrecision(v, p, q) # None,
           NEW w \in Nat, w <= AdjustPrecision(v, p, q),
           AdjustPrecision(w, q, p) # None
    PROVE  AdjustPrecision(w, q, p) <= v
<1> DEFINE power == PRECISION_BASE ^ (q - p)
<1>1. PICK u \in Nat \ {0} : u = power
  BY UnitsPositive
<1>2. AdjustPrecision(v, p, q) = ToU128(v \otimes u)
  BY <1>1 DEF AdjustPrecision
<1>3. AdjustPrecision(v, p, q) = v \otimes u /\ v \otimes u # None
  BY <1>2, ToU128Type
<1>4. v \otimes u = v * u
  BY <1>3 DEF \otimes
<1>5. w <= v * u
  BY <1>3, <1>4
<1>6. CASE p = q
  <2>1. power = PRECISION_BASE ^ 0 /\ PRECISION_BASE ^ (p - q) = PRECISION_BASE ^ 0
    <3>1. q - p = 0 /\ p - q = 0
      BY <1>6
    <3> QED
      BY <3>1
  <2>2. u = 1 /\ PRECISION_BASE ^ (p - q) = 1
    BY <1>1, <2>1 DEF MathAssumption
  <2>3. AdjustPrecision(w, q, p) = ToU128(w \otimes 1)
    BY <1>6, <2>2 DEF AdjustPrecision
  <2>4. w \otimes 1 = w * 1 /\ AdjustPrecision(w, q, p) = w \otimes 1
    <3>1. AdjustPrecision(w, q, p) = w \otimes 1 /\ w \otimes 1 # None
      BY <2>3, ToU128Type
    <3> QED
      BY <3>1 DEF \otimes
  <2> QED
    BY <1>5, <2>2, <2>4
<1>7. CASE p # q
  <2>1. AdjustPrecision(w, q, p) = w \oslash u
    BY <1>1, <1>7 DEF AdjustPrecision
  <2>2. AdjustPrecision(w, q, p) = w \div u
    BY <2>1 DEF \oslash, None
  <2>3. w \div u \in Nat /\ (w \div u) * u <= w
    BY DivisionFacts
  <2>4. u * (w \div u) <= u * v
    <3>1. (w \div u) * u <= v * u /\ v * u \in Nat
      <4>1. v * u \in Nat
        BY ProductMonotone
      <4> QED
        BY <1>5, <2>3, <4>1
    <3>2. (w \div u) * u = u * (w \div u) /\ v * u = u * v
      BY <2>3
    <3> QED
      BY <3>1, <3>2
  <2> QED
    BY <2>2, <2>3, <2>4, CancelFactor
<1> QED
  BY <1>6, <1>7

(* A difference that has a result is no larger than what it was taken from.*)
LEMMA DifferenceWithin ==
    ASSUME NEW a \in Optional, NEW b \in Optional, a \ominus b # None
    PROVE  /\ a \in Nat /\ b \in Nat /\ a \ominus b \in Nat
           /\ a \ominus b <= a
  BY DEF \ominus, Optional, None

(* compute_swap answers with at most the ask pool, whatever the solvers    *)
(* find and whatever the precisions are.                                   *)
LEMMA QuoteWithinPool ==
    ASSUME Assumptions, AmpTypeOK, NEW pools \in [Assets -> Nat], NEW i \in Assets,
           NEW amount \in Nat, ~Void(Simulation(pools, i, amount))
    PROVE  Simulation(pools, i, amount).return_amount <= pools[Other(i)]
<1> DEFINE G == GreaterPrecision
           p == Precision[Other(i)]
           offer == AdjustPrecision(amount, Precision[i], G)
           pool == AdjustPrecision(pools[i], Precision[i], G)
           ask == AdjustPrecision(pools[Other(i)], p, G)
           swapped == CalcAskAmount(pool, ask, offer, CurrentAmp)
           commission == TimesDecimal(swapped, GlobalFee)
           quote == Simulation(pools, i, amount)
           new_ask == ComputeNewBalance(Leverage(CurrentAmp), ToU128(pool \oplus offer),
                          ComputeD(Leverage(CurrentAmp), pool, ask))
<1>1. /\ G \in 0 .. MaxPrecision
      /\ Precision[i] \in 0 .. MaxPrecision /\ p \in 0 .. MaxPrecision
      /\ Other(i) \in Assets
      /\ Greater(Precision[i], p) = G
  BY PrecisionTypes DEF Assets, Other
<1>2. p <= G
  BY <1>1 DEF Greater
<1>3. pools[Other(i)] \in Nat
  BY <1>1
<1>4. ask \in Optional
  BY <1>1, <1>3, AdjustType DEF Assumptions, Optional
<1>5. swapped = ask \ominus new_ask
  BY DEF CalcAskAmount
<1>6. new_ask \in Optional
  BY NewBalanceType DEF Assumptions
<1>7. quote.return_amount = AdjustPrecision(swapped \ominus commission, G, p)
  BY <1>1 DEF Simulation, ComputeSwap
<1>8. quote.return_amount # None
  BY DEF Void, Simulation, ComputeSwap
<1>9. commission \in Optional
  BY MultiplyRatioType DEF TimesDecimal, Assumptions
<1> HIDE DEF G, p, quote, offer, pool, ask, new_ask, swapped, commission
<1>10. swapped \in Optional
  BY <1>4, <1>5, <1>6, CheckedTypes
<1>11. swapped \ominus commission # None
  <2>1. AdjustPrecision(None, G, p) = None
    BY <1>1 DEF AdjustPrecision, \otimes, \oslash, ToU128, U128, None
  <2> QED
    BY <1>7, <1>8, <2>1
<1>12. /\ swapped \ominus commission \in Nat /\ swapped \ominus commission <= swapped
       /\ swapped \in Nat
  BY <1>9, <1>10, <1>11, DifferenceWithin
<1>13. swapped <= ask /\ ask \in Nat
  BY <1>4, <1>5, <1>6, <1>12, DifferenceWithin DEF Optional, None
<1>14. swapped \ominus commission <= ask /\ ask # None
  BY <1>12, <1>13 DEF None
<1>15. quote.return_amount <= pools[Other(i)]
  BY <1>1, <1>2, <1>3, <1>7, <1>8, <1>12, <1>14, AdjustBack DEF ask, Assumptions
<1> QED
  BY <1>15 DEF quote

-----------------------------------------------------------------------------
(* Deposits.                                                               *)

(* To a finer precision amounts can be taken together or one by one.       *)
LEMMA AdjustAdds ==
    ASSUME MathAssumption, NEW p \in 0 .. MaxPrecision, NEW q \in 0 .. MaxPrecision, p <= q,
           NEW a \in Nat, NEW b \in Nat,
           ToU128(AdjustPrecision(a, p, q) \oplus AdjustPrecision(b, p, q)) # None
    PROVE  AdjustPrecision(a + b, p, q)
             = ToU128(AdjustPrecision(a, p, q) \oplus AdjustPrecision(b, p, q))
<1> DEFINE fa == AdjustPrecision(a, p, q)
           fb == AdjustPrecision(b, p, q)
<1>1. PICK u \in Nat \ {0} : u = PRECISION_BASE ^ (q - p)
  BY UnitsPositive
<1>2. \A v : AdjustPrecision(v, p, q) = ToU128(v \otimes u)
  BY <1>1 DEF AdjustPrecision
<1>3. fa # None /\ fb # None
  <2>1. ToU128(None) = None
    BY DEF ToU128, U128, None
  <2>2. fa \oplus fb # None
    BY <2>1
  <2> QED
    BY <2>2 DEF \oplus
<1>4. fa = a * u /\ fb = b * u
  <2>1. /\ fa = a \otimes u /\ a \otimes u # None
        /\ fb = b \otimes u /\ b \otimes u # None
    BY <1>2, <1>3, ToU128Type
  <2> QED
    BY <2>1 DEF \otimes
<1>5. a * u \in Nat /\ b * u \in Nat
  BY ProductMonotone
<1>6. PICK x \in Nat, y \in Nat : x = a * u /\ y = b * u /\ fa = x /\ fb = y
  BY <1>4, <1>5
<1> HIDE DEF fa, fb
<1>7. ToU128(x \oplus y) = x + y /\ x + y \in U128
  <2>1. ToU128(x \oplus y) # None
    BY <1>6 DEF fa, fb
  <2>2. x \oplus y # None /\ x \oplus y \in U128 /\ ToU128(x \oplus y) = x \oplus y
    <3>1. ToU128(x \oplus y) = x \oplus y
      BY <2>1, ToU128Type
    <3> QED
      BY <2>1, <3>1, ToU128Type
  <2>3. x \oplus y = x + y
    BY <2>2 DEF \oplus
  <2> QED
    BY <2>2, <2>3
<1>8. (a + b) * u = x + y
  BY <1>6
<1>9. (a + b) \otimes u = (a + b) * u
  <2>1. MaxU256 \in Nat /\ x + y <= MaxU256
    <3>1. MaxU128 \in Nat \ {0} /\ MaxU256 \in Nat /\ MaxU128 * MaxU128 <= MaxU256
      BY DEF MathAssumption
    <3>2. 1 * MaxU128 <= MaxU128 * MaxU128
      BY <3>1, ProductMonotone
    <3>3. x + y <= MaxU128
      BY <1>7 DEF U128
    <3> QED
      BY <3>1, <3>2, <3>3
  <2>2. a + b <= MaxU256 \div u
    <3>1. PICK most \in Nat : most = MaxU256 \div u /\ MaxU256 < most * u + u
      BY <2>1, DivisionFacts
    <3>2. SUFFICES ASSUME most + 1 <= a + b PROVE FALSE
      BY <3>1
    <3>3. (most + 1) * u <= (a + b) * u
      BY <3>2, ProductMonotone
    <3>4. (most + 1) * u = most * u + u /\ most * u \in Nat
      BY ProductMonotone
    <3> QED
      BY <1>8, <2>1, <3>1, <3>3, <3>4
  <2>3. MaxU256 \div u \in Nat
    BY <2>1, DivisionFacts
  <2> QED
    BY <2>2, <2>3 DEF \otimes, None
<1>10. AdjustPrecision(a + b, p, q) = x + y
  <2>1. AdjustPrecision(a + b, p, q) = ToU128(x + y)
    BY <1>2, <1>8, <1>9
  <2> QED
    BY <1>7, <2>1 DEF ToU128
<1> QED
  BY <1>6, <1>7, <1>10 DEF fa, fb

(* What the pair counts of a deposit: all of it, or at MINIMUM_AMP one     *)
(* side in full and no more than came of the other.                        *)
LEMMA CountedPart ==
    ASSUME Assumptions, NEW pools, NEW deposits \in [Assets -> Nat],
           NEW counted, counted = Evaluated(pools, deposits),
           \A i \in Assets : counted[i] # None
    PROVE  /\ counted \in [Assets -> Nat]
           /\ \A i \in Assets : counted[i] <= deposits[i]
           /\ \E i \in Assets : counted[i] = deposits[i]
           /\ counted # deposits => CurrentAmp = MINIMUM_AMP
<1> DEFINE optimal == [i \in Assets |->
               MultiplyRatio(pools[i], deposits[Other(i)], pools[Other(i)])]
<1>1. optimal \in [Assets -> Optional]
  BY MultiplyRatioType DEF Assumptions
<1>2. 0 \in Assets /\ 1 \in Assets /\ Assets = {0, 1}
  BY DEF Assets
<1>3. \/ counted = deposits
      \/ /\ CurrentAmp = MINIMUM_AMP /\ None \in {optimal[0], optimal[1]}
         /\ counted = [i \in Assets |-> None]
      \/ /\ CurrentAmp = MINIMUM_AMP /\ None \notin {optimal[0], optimal[1]}
         /\ \E j \in Assets : deposits[j] > optimal[j]
                              /\ counted = [deposits EXCEPT ![j] = optimal[j]]
  BY <1>2 DEF Evaluated
<1> HIDE DEF optimal
<1>4. ASSUME NEW j \in Assets, deposits[j] > optimal[j], optimal[0] # None, optimal[1] # None,
             counted = [deposits EXCEPT ![j] = optimal[j]]
      PROVE  /\ counted \in [Assets -> Nat]
             /\ \A i \in Assets : counted[i] <= deposits[i]
             /\ \E i \in Assets : counted[i] = deposits[i]
  <2>1. optimal[j] \in Nat
    BY <1>1, <1>2, <1>4 DEF Optional
  <2>2. PICK k \in Assets : k # j
    BY <1>2
  <2>3. counted[k] = deposits[k]
    BY <1>4, <2>2
  <2> QED
    BY <1>4, <2>1, <2>3
<1> QED
  BY <1>2, <1>3, <1>4

(* The tokens minted for a later deposit, times D before, are at most the  *)
(* supply times the growth of D.                                           *)
LEMMA ShareOfGrowth ==
    ASSUME Assumptions, AmpTypeOK, total_supply \in Nat, total_supply # 0,
           NEW pools \in [Assets -> Nat], NEW counted, Share(pools, counted) # None,
           counted \in [Assets -> Optional]
    PROVE  /\ counted \in [Assets -> Nat]
           /\ PoolD([i \in Assets |-> pools[i] + counted[i]]) * total_supply
                >= PoolD(pools) * (total_supply + Share(pools, counted))
<1> DEFINE G == GreaterPrecision
           p == [i \in Assets |-> Adjusted(pools, i, G)]
           d == [i \in Assets |-> Adjusted(counted, i, G)]
           sum == [i \in Assets |-> ToU128(p[i] \oplus d[i])]
           before == ComputeD(Leverage(CurrentAmp), p[0], p[1])
           after == ComputeD(Leverage(CurrentAmp), sum[0], sum[1])
           share == Share(pools, counted)
           whole == [i \in Assets |-> pools[i] + counted[i]]
<1>1. /\ G \in 0 .. MaxPrecision /\ Assets = {0, 1}
      /\ \A i \in Assets : Precision[i] \in 0 .. MaxPrecision /\ Precision[i] <= G
  BY PrecisionTypes DEF Assets
<1>2. d[0] # None /\ d[1] # None /\ share = MultiplyRatio(total_supply, after \ominus before, before)
  BY DEF Share
<1>3. counted[0] # None /\ counted[1] # None
  <2>1. \A q \in 0 .. MaxPrecision : q <= G => AdjustPrecision(None, q, G) = None
    BY <1>1 DEF AdjustPrecision, \otimes, ToU128, U128, None
  <2>2. \A i \in Assets : d[i] = AdjustPrecision(counted[i], Precision[i], G)
    BY DEF Adjusted
  <2> QED
    BY <1>1, <1>2, <2>1, <2>2
<1>4. counted \in [Assets -> Nat]
  BY <1>1, <1>3 DEF Optional
<1>5. after \ominus before # None
  BY <1>2 DEF MultiplyRatio, \otimes, \oslash, ToU128, U128, None
<1>6. after # None /\ before # None
  BY <1>5 DEF \ominus
<1>7. sum[0] # None /\ sum[1] # None
  <2>1. \A leverage, a, b : None \in {a, b} => ComputeD(leverage, a, b) = None
    <3>1. \A a, b : None \in {a, b} => ToU128(a \oplus b) = None
      BY DEF \oplus, ToU128, U128, None
    <3>2. None # 0
      BY DEF None
    <3> QED
      BY <3>1, <3>2 DEF ComputeD
  <2> HIDE DEF sum
  <2> QED
    BY <1>6, <2>1
<1>8. \A i \in Assets : Adjusted(whole, i, G) = sum[i]
  <2>1. SUFFICES ASSUME NEW i \in Assets PROVE Adjusted(whole, i, G) = sum[i]
    OBVIOUS
  <2>2. sum[i] # None
    BY <1>1, <1>7
  <2>3. sum[i] = ToU128(AdjustPrecision(pools[i], Precision[i], G)
                          \oplus AdjustPrecision(counted[i], Precision[i], G))
    BY DEF Adjusted
  <2>4. pools[i] \in Nat /\ counted[i] \in Nat
    BY <1>4
  <2>5. AdjustPrecision(pools[i] + counted[i], Precision[i], G) = sum[i]
    BY <1>1, <2>2, <2>3, <2>4, AdjustAdds DEF Assumptions
  <2> QED
    BY <2>5 DEF Adjusted
<1>9. PoolD(whole) = after
  BY <1>1, <1>8 DEF PoolD
<1>10. PoolD(pools) = before
  BY <1>1 DEF PoolD
<1>11. after \in Optional /\ before \in Optional
  <2>1. 0 \in Optional /\ None \in Optional
    BY DEF Optional
  <2> QED
    BY <2>1, ToU128Type DEF ComputeD, Assumptions
<1> HIDE DEF G, p, d, sum, before, after, whole
<1>12. /\ after \in Nat /\ before \in Nat /\ after \ominus before \in Nat
       /\ after \ominus before <= after
  BY <1>5, <1>11, DifferenceWithin
<1>13. PICK growth \in Nat : growth = after \ominus before /\ after = before + growth
  BY <1>5, <1>12 DEF \ominus
<1>14. share \in Nat /\ share * before <= total_supply * growth
  <2>1. share = MultiplyRatio(total_supply, growth, before) /\ share # None
    BY <1>2, <1>13
  <2>2. total_supply \in Optional /\ growth \in Optional /\ before \in Optional
    BY <1>12 DEF Optional
  <2> QED
    BY <2>1, <2>2, RatioFacts DEF Assumptions
<1>15. after * total_supply >= before * (total_supply + share)
  <2>1. after * total_supply = before * total_supply + total_supply * growth
    BY <1>12, <1>13
  <2>2. before * (total_supply + share) = before * total_supply + share * before
    BY <1>12, <1>14
  <2>3. /\ before * total_supply \in Nat /\ total_supply * growth \in Nat
        /\ share * before \in Nat
    BY <1>12, <1>14, ProductMonotone
  <2> QED
    BY <1>14, <2>1, <2>2, <2>3
<1> QED
  BY <1>4, <1>9, <1>10, <1>15 DEF whole

(* A deposit that mints shows what was counted of it.                      *)
Counted(counted) ==
    /\ \A i \in Assets : counted[i] <= reserve'[i] - reserve[i]
    /\ \E i \in Assets : counted[i] = reserve'[i] - reserve[i]
    /\ CurrentAmp # MINIMUM_AMP => \A i \in Assets : counted[i] = reserve'[i] - reserve[i]
    /\ PoolD([i \in Assets |-> reserve[i] + counted[i]]) * total_supply
         >= PoolD(reserve) * total_supply'

(* Every deposit into a pool with tokens outstanding does.                 *)
LEMMA ProvideCounts ==
    ASSUME Assumptions, PairTypeOK, total_supply # 0,
           NEW sender \in Accounts, NEW receiver \in Accounts,
           NEW deposits \in [Assets -> Nat],
           ProvideLiquidity(sender, receiver, deposits)
    PROVE  \E counted \in [Assets -> Nat] : Counted(counted)
<1> DEFINE queried == [i \in Assets |-> reserve[i] + IF IsNative[i] THEN deposits[i] ELSE 0]
           pools == [i \in Assets |-> queried[i] - IF IsNative[i] THEN deposits[i] ELSE 0]
<1>1. /\ Share(pools, Evaluated(pools, deposits)) \notin {None, 0}
      /\ reserve' = [i \in Assets |-> reserve[i] + deposits[i]]
      /\ total_supply' = total_supply + Share(pools, Evaluated(pools, deposits))
  BY DEF ProvideLiquidity
<1>2. reserve \in [Assets -> Nat] /\ total_supply \in Nat
  BY DEF PairTypeOK, LedgerTypeOK, U128
<1>3. pools = reserve
  BY <1>2
<1> HIDE DEF pools
<1>4. PICK counted : counted = Evaluated(reserve, deposits)
  OBVIOUS
<1>5. counted \in [Assets -> Optional]
  <2> DEFINE optimal == [i \in Assets |->
                 MultiplyRatio(reserve[i], deposits[Other(i)], reserve[Other(i)])]
  <2>1. optimal \in [Assets -> Optional]
    BY MultiplyRatioType DEF Assumptions
  <2>2. deposits \in [Assets -> Optional] /\ [i \in Assets |-> None] \in [Assets -> Optional]
    BY DEF Optional
  <2>3. \/ counted = deposits \/ counted = [i \in Assets |-> None]
        \/ counted = [deposits EXCEPT ![0] = optimal[0]]
        \/ counted = [deposits EXCEPT ![1] = optimal[1]]
    BY <1>4 DEF Evaluated
  <2>4. 0 \in Assets /\ 1 \in Assets
    BY DEF Assets
  <2> HIDE DEF optimal
  <2> QED
    BY <2>1, <2>2, <2>3, <2>4
<1>6. /\ Share(reserve, counted) # None
      /\ total_supply' = total_supply + Share(reserve, counted)
  BY <1>1, <1>3, <1>4
<1>7. /\ counted \in [Assets -> Nat]
      /\ PoolD([i \in Assets |-> reserve[i] + counted[i]]) * total_supply
           >= PoolD(reserve) * total_supply'
  BY <1>2, <1>5, <1>6, ShareOfGrowth DEF PairTypeOK
<1>8. /\ \A i \in Assets : counted[i] <= deposits[i]
      /\ \E i \in Assets : counted[i] = deposits[i]
      /\ counted # deposits => CurrentAmp = MINIMUM_AMP
  <2>1. \A i \in Assets : counted[i] # None
    BY <1>7 DEF None
  <2> QED
    BY <1>4, <2>1, CountedPart
<1>9. \A i \in Assets : reserve'[i] - reserve[i] = deposits[i]
  BY <1>1, <1>2
<1> QED
  BY <1>7, <1>8, <1>9 DEF Counted

(* What provide_liquidity counts of a deposit is never overpaid: the value *)
(* D behind one LP token does not shrink when the pool gets just that,     *)
(* which is the whole deposit, or at MINIMUM_AMP one side of it and no     *)
(* more than came of the other.  (That the rest, which the pool keeps too, *)
(* does not lower D, is NoDilution at MINIMUM_AMP: it needs that Newton's  *)
(* iteration is monotone.)                                                 *)
THEOREM CountedDepositsAreFair ==
    PairSpec => [][total_supply > 0 /\ total_supply' > total_supply =>
                      \E counted \in [Assets -> Nat] : Counted(counted)]_pairVars
<1>1. PairInv /\ [PairNext]_pairVars =>
        [total_supply > 0 /\ total_supply' > total_supply =>
            \E counted \in [Assets -> Nat] : Counted(counted)]_pairVars
  <2>1. SUFFICES ASSUME PairInv, PairNext, total_supply > 0, total_supply' > total_supply
                 PROVE  \E counted \in [Assets -> Nat] : Counted(counted)
    OBVIOUS
  <2>2. total_supply \in Nat /\ total_supply # 0 /\ PairTypeOK /\ lp \in [Accounts -> Nat]
    BY <2>1 DEF PairInv, PairTypeOK, LedgerTypeOK, U128
  <2>3. ~(total_supply' <= total_supply)
    <3>1. total_supply' \in Nat
      BY <2>1, PairInvStep, AssumptionsHold DEF PairInv, PairTypeOK, LedgerTypeOK, U128
    <3> QED
      BY <2>1, <2>2, <3>1
  <2>4. ASSUME NEW sender \in Accounts, LpCall(sender) PROVE FALSE
    BY <2>2, <2>3, <2>4, LpStep, AssumptionsHold
  <2>5. ASSUME NEW sender \in Accounts, NEW amount \in WithdrawAmounts \cup {lp[sender]},
               WithdrawLiquidity(sender, amount)
        PROVE  FALSE
    <3>1. amount \in Nat /\ total_supply' = total_supply - amount
      BY <2>2, <2>5, AssumptionsHold DEF WithdrawLiquidity, Assumptions, PairAssumption
    <3> QED
      BY <2>2, <2>3, <3>1
  <2>6. total_supply' # total_supply
    BY <2>2, <2>3
  <2>7. PICK sender \in Accounts : Call(sender)
    BY <2>1, <2>4, <2>6
       DEF PairNext, UpdateConfig, Donation, Donate, NextBlock, ledgerVars
  <2>8. PICK receiver \in Accounts, d0 \in ProvideAmounts, d1 \in ProvideAmounts :
          ProvideLiquidity(sender, receiver, [i \in Assets |-> IF i = 0 THEN d0 ELSE d1])
    <3>1. ASSUME NEW receiver, NEW i, NEW amount, NEW b, NEW m,
                 Swap(sender, receiver, i, amount, b, m)
          PROVE  FALSE
      BY <2>6, <3>1 DEF Swap
    <3> QED
      BY <2>5, <2>7, <3>1 DEF Call
  <2>9. [i \in Assets |-> IF i = 0 THEN d0 ELSE d1] \in [Assets -> Nat]
    BY AssumptionsHold DEF Assumptions, PairAssumption
  <2> QED
    BY <2>2, <2>8, <2>9, ProvideCounts, AssumptionsHold
<1> QED
  BY <1>1, PairInvariant, PTL DEF PairSpec

(* Above MINIMUM_AMP everything counts: so a deposit of any kind then      *)
(* leaves the earlier providers at least what they had.                    *)
THEOREM NoDilutionAboveMinimum ==
    PairSpec => [][total_supply > 0 /\ total_supply' > total_supply /\ CurrentAmp # MINIMUM_AMP =>
                      PoolD(reserve') * total_supply >= PoolD(reserve) * total_supply']_pairVars
<1>1. PairInv /\ [PairNext]_pairVars
        /\ [total_supply > 0 /\ total_supply' > total_supply =>
               \E counted \in [Assets -> Nat] : Counted(counted)]_pairVars =>
        [total_supply > 0 /\ total_supply' > total_supply /\ CurrentAmp # MINIMUM_AMP =>
            PoolD(reserve') * total_supply >= PoolD(reserve) * total_supply']_pairVars
  <2>1. SUFFICES ASSUME PairInv, PairNext, CurrentAmp # MINIMUM_AMP,
                        NEW counted \in [Assets -> Nat], Counted(counted)
                 PROVE  PoolD(reserve') * total_supply >= PoolD(reserve) * total_supply'
    OBVIOUS
  <2>2. reserve \in [Assets -> Nat] /\ reserve' \in [Assets -> Nat]
    BY <2>1, PairInvStep, AssumptionsHold DEF PairInv, PairTypeOK, LedgerTypeOK
  <2>3. [i \in Assets |-> reserve[i] + counted[i]] = reserve'
    <3>1. \A i \in Assets : reserve[i] + counted[i] = reserve'[i]
      <4>1. SUFFICES ASSUME NEW i \in Assets PROVE reserve[i] + counted[i] = reserve'[i]
        OBVIOUS
      <4>2. counted[i] = reserve'[i] - reserve[i]
        BY <2>1 DEF Counted
      <4>3. reserve[i] \in Nat /\ reserve'[i] \in Nat
        BY <2>2
      <4> QED
        BY <4>2, <4>3
    <3> QED
      BY <2>2, <3>1
  <2> QED
    BY <2>1, <2>3 DEF Counted
<1> QED
  BY <1>1, CountedDepositsAreFair, PairInvariant, PTL DEF PairSpec

-----------------------------------------------------------------------------
(* What a swap leaves to the providers.                                    *)

(* An amount less what comes back from the finer precision for w of it is  *)
(* worth at least the rest.                                                *)
LEMMA AdjustRest ==
    ASSUME MathAssumption, NEW p \in 0 .. MaxPrecision, NEW q \in 0 .. MaxPrecision, p <= q,
           NEW v \in Nat, AdjustPrecision(v, p, q) # None,
           NEW w \in Nat, w <= AdjustPrecision(v, p, q),
           AdjustPrecision(w, q, p) # None
    PROVE  /\ v - AdjustPrecision(w, q, p) \in Nat
           /\ AdjustPrecision(v, p, q) \in Nat
           /\ AdjustPrecision(v - AdjustPrecision(w, q, p), p, q) \in Nat
           /\ AdjustPrecision(v - AdjustPrecision(w, q, p), p, q)
                 >= AdjustPrecision(v, p, q) - w
<1> DEFINE u == PRECISION_BASE ^ (q - p)
           r == AdjustPrecision(w, q, p)
<1>1. u \in Nat \ {0}
  BY UnitsPositive
<1>2. \A n : AdjustPrecision(n, p, q) = ToU128(n \otimes u)
  BY DEF AdjustPrecision
<1>3. r \in Nat /\ r <= v
  <2>1. r \in Optional
    BY AdjustType DEF Optional
  <2> QED
    BY <2>1, AdjustBack DEF Optional
<1>4. r * u <= w
  <2>1. CASE p = q
    <3>1. q - p = 0 /\ p - q = 0 /\ PRECISION_BASE ^ 0 = 1
      BY <2>1 DEF MathAssumption
    <3>2. u = 1 /\ r = ToU128(w \otimes 1)
      BY <2>1, <3>1 DEF AdjustPrecision
    <3>3. r = w \otimes 1 /\ w \otimes 1 # None
      BY <3>2, ToU128Type DEF r
    <3>4. r = w * 1
      BY <3>3 DEF \otimes
    <3> QED
      BY <3>2, <3>4
  <2>2. CASE p # q
    <3>1. r = w \oslash u
      BY <2>2 DEF AdjustPrecision
    <3>2. r = w \div u
      BY <1>1, <3>1 DEF \oslash, None
    <3> QED
      BY <1>1, <3>2, DivisionFacts
  <2> QED
    BY <2>1, <2>2
<1> HIDE DEF u, r
<1>5. AdjustPrecision(v, p, q) = v \otimes u /\ v \otimes u # None /\ v \otimes u \in U128
  BY <1>2, ToU128Type
<1>6. v \otimes u = v * u /\ (u # 0 => v <= MaxU256 \div u)
  <2>1. MaxU256 \div u \in Nat
    BY <1>1, DivisionFacts DEF MathAssumption
  <2> QED
    BY <1>1, <1>5, <2>1 DEF \otimes, None
<1>7. v - r \in Nat /\ (v - r) * u = v * u - r * u /\ r * u \in Nat /\ v * u \in Nat
  <2>1. v - r \in Nat
    BY <1>3
  <2>2. (v - r) * u = v * u - r * u
    BY <1>1, <1>3, SMT
  <2> QED
    BY <1>1, <1>3, <2>1, <2>2, ProductMonotone
<1>8. (v - r) \otimes u = (v - r) * u
  <2>1. MaxU256 \div u \in Nat
    BY <1>1, DivisionFacts DEF MathAssumption
  <2>2. v - r <= MaxU256 \div u
    BY <1>1, <1>3, <1>6, <1>7, <2>1
  <2> QED
    BY <1>1, <1>7, <2>1, <2>2 DEF \otimes, None
<1>9. (v - r) * u \in U128
  <2>1. (v - r) * u \in Nat /\ (v - r) * u <= v * u
    BY <1>1, <1>7, ProductMonotone
  <2> QED
    BY <1>5, <1>6, <2>1 DEF U128, MathAssumption
<1>10. AdjustPrecision(v - r, p, q) = (v - r) * u
  BY <1>2, <1>8, <1>9 DEF ToU128
<1> QED
  BY <1>4, <1>5, <1>6, <1>7, <1>9, <1>10 DEF r, U128, MathAssumption

(* A quote leaves the pool on or above every curve that it was on.         *)
LEMMA QuoteKeepsCurve ==
    ASSUME Assumptions, AmpTypeOK, NEW pools \in [Assets -> Nat], NEW i \in Assets,
           NEW amount \in Nat, ~Void(Simulation(pools, i, amount)),
           NEW after \in [Assets -> Nat],
           after[i] = pools[i] + amount,
           after[Other(i)] = pools[Other(i)] - Simulation(pools, i, amount).return_amount,
           NEW slack \in Nat,
           Simulation(pools, i, amount).commission_amount = 0 => slack >= 1,
           NEW d \in Nat, PoolOnCurve(pools, i, 0, d)
    PROVE  PoolOnCurve(after, i, slack, d)
<1> DEFINE G == GreaterPrecision
           p == Precision[Other(i)]
           lev == Leverage(CurrentAmp)
           offer == AdjustPrecision(amount, Precision[i], G)
           pool == AdjustPrecision(pools[i], Precision[i], G)
           ask == AdjustPrecision(pools[Other(i)], p, G)
           swapped == CalcAskAmount(pool, ask, offer, CurrentAmp)
           commission == TimesDecimal(swapped, GlobalFee)
           paid == swapped \ominus commission
           quote == Simulation(pools, i, amount)
<1>1. /\ G \in 0 .. MaxPrecision
      /\ Precision[i] \in 0 .. MaxPrecision /\ p \in 0 .. MaxPrecision
      /\ Other(i) \in Assets
      /\ Greater(Precision[i], p) = G
      /\ Precision[i] <= G /\ p <= G
  BY PrecisionTypes DEF Assets, Other
<1>2. pools[i] \in Nat /\ pools[Other(i)] \in Nat
  BY <1>1
<1>3. offer \in Optional /\ pool \in Optional /\ ask \in Optional
  BY <1>1, <1>2, AdjustType DEF Assumptions, Optional
<1>4. CurrentAmp \in Nat
  BY AmpBetweenEnds DEF Assumptions, Amps
<1>5. quote.return_amount = AdjustPrecision(paid, G, p)
  BY <1>1 DEF Simulation, ComputeSwap
<1>6. quote.commission_amount = AdjustPrecision(commission, G, p)
  BY <1>1 DEF Simulation, ComputeSwap
<1>7. quote.return_amount # None /\ quote.commission_amount # None
  BY DEF Void, Simulation, ComputeSwap
<1>8. commission \in Optional
  BY MultiplyRatioType DEF TimesDecimal, Assumptions
<1>9. lev \in Nat
  BY <1>4 DEF Leverage, N_COINS
<1>10. OnCurve(lev, pool, ask + 0, d)
  BY DEF PoolOnCurve, Adjusted
<1> HIDE DEF G, p, lev, offer, pool, ask, swapped, commission, paid, quote
<1>11. AdjustPrecision(None, G, p) = None
  BY <1>1 DEF AdjustPrecision, \otimes, \oslash, ToU128, U128, None
<1>12. paid # None /\ swapped # None
  <2>1. paid # None
    BY <1>5, <1>7, <1>11
  <2> QED
    BY <2>1 DEF paid, \ominus
<1>13. /\ pool \in Nat /\ ask \in Nat /\ offer \in Nat
       /\ ToU128(pool \oplus offer) = pool + offer
       /\ swapped \in 0 .. ask
       /\ OnCurve(lev, pool, ask, d) => OnCurve(lev, pool + offer, (ask - swapped) + 1, d)
  BY <1>3, <1>4, <1>12, SaleKeepsCurve DEF Assumptions, swapped, lev
<1>14. commission \in Nat /\ paid = swapped - commission /\ paid \in Nat /\ paid <= ask
  <2>1. swapped \in Optional
    BY <1>13 DEF Optional
  <2> QED
    BY <1>8, <1>12, <1>13, <2>1, CheckedAnswer DEF paid, Assumptions
<1>15. AdjustPrecision(after[i], Precision[i], G) = pool + offer
  <2>1. ToU128(pool \oplus offer) # None
    BY <1>13 DEF None
  <2> QED
    BY <1>1, <1>2, <1>13, <2>1, AdjustAdds DEF pool, offer, Assumptions
<1> DEFINE rest == AdjustPrecision(after[Other(i)], p, G)
<1>16. rest \in Nat /\ rest >= ask - paid
  <2>1. ask # None /\ AdjustPrecision(paid, G, p) # None
    BY <1>5, <1>7, <1>13 DEF None
  <2>2. after[Other(i)] = pools[Other(i)] - AdjustPrecision(paid, G, p)
    BY <1>5 DEF quote
  <2> QED
    BY <1>1, <1>2, <1>14, <2>1, <2>2, AdjustRest DEF ask, Assumptions
<1> HIDE DEF rest
<1>17. commission + slack >= 1
  <2>1. CASE commission = 0
    <3>1. AdjustPrecision(commission, G, p) = 0
      BY <1>1, <1>8, <2>1, AdjustType DEF Assumptions
    <3> QED
      BY <1>6, <1>14, <3>1 DEF quote
  <2>2. CASE commission # 0
    BY <1>14, <2>2
  <2> QED
    BY <2>1, <2>2
<1>18. (ask - swapped) + 1 <= rest + slack /\ (ask - swapped) + 1 \in Nat /\ rest + slack \in Nat
       /\ pool + offer \in Nat
  BY <1>13, <1>14, <1>16, <1>17
<1>19. OnCurve(lev, pool + offer, (ask - swapped) + 1, d)
  BY <1>10, <1>13
<1>20. OnCurve(lev, pool + offer, rest + slack, d)
  <2>1. ParameterAssumption
    BY DEF Assumptions
  <2> HIDE DEF OnCurve
  <2> QED
    BY <1>9, <1>18, <1>19, <2>1, CurveAbove
<1> QED
  BY <1>15, <1>20 DEF PoolOnCurve, Adjusted, rest, lev, p, G

(* What SwapKeepsCurve says of one step.                                   *)
KeepsCurve ==
    \A i \in Assets :
        total_supply' = total_supply /\ reserve'[Other(i)] < reserve[Other(i)] =>
            LET quote == Simulation(reserve, i, reserve'[i] - reserve[i])
                slack == IF quote.commission_amount = 0 THEN 1 ELSE 0
                sum == Adjusted(reserve, 0, GreaterPrecision) + Adjusted(reserve, 1, GreaterPrecision)
            IN  \A d \in 0 .. sum :
                   PoolOnCurve(reserve, i, 0, d) => PoolOnCurve(reserve', i, slack, d)

LEMMA KeepsCurveStep ==
    ASSUME Assumptions, PairInv, [PairNext]_pairVars
    PROVE  KeepsCurve
<1> DEFINE quote(i) == Simulation(reserve, i, reserve'[i] - reserve[i])
           slack(i) == IF quote(i).commission_amount = 0 THEN 1 ELSE 0
           sum == Adjusted(reserve, 0, GreaterPrecision) + Adjusted(reserve, 1, GreaterPrecision)
<1>1. SUFFICES ASSUME NEW i \in Assets,
                      total_supply' = total_supply, reserve'[Other(i)] < reserve[Other(i)],
                      NEW d \in 0 .. sum, PoolOnCurve(reserve, i, 0, d)
               PROVE  PoolOnCurve(reserve', i, slack(i), d)
  BY DEF KeepsCurve
<1>2. PICK sender \in Accounts, receiver \in Accounts, amount \in SwapAmounts,
           belief_price \in BeliefPrices, max_spread \in MaxSpreads :
           Swap(sender, receiver, i, amount, belief_price, max_spread)
  BY <1>1, PayoutIsSwap
<1>3. /\ amount \in Nat /\ PairTypeOK /\ AmpTypeOK
      /\ reserve \in [Assets -> Nat] /\ reserve' \in [Assets -> Nat]
  BY LedgerStep DEF Assumptions, PairAssumption, PairInv, PairTypeOK, LedgerTypeOK
<1>4. /\ reserve'[i] - reserve[i] = amount
      /\ reserve[Other(i)] - reserve'[Other(i)] = Simulation(reserve, i, amount).return_amount
  BY <1>2, <1>3, SwapStepPays
<1>5. ~Void(Simulation(reserve, i, amount))
  BY <1>2, <1>3, WithoutOffer DEF Swap
<1>6. Other(i) \in Assets /\ d \in Nat
  BY DEF Assets, Other
<1>7. /\ reserve'[i] = reserve[i] + amount
      /\ reserve'[Other(i)] = reserve[Other(i)] - Simulation(reserve, i, amount).return_amount
  <2>1. Simulation(reserve, i, amount).return_amount \in Int
    BY <1>3, <1>5, QuoteNeedsOffer
  <2> QED
    BY <1>3, <1>4, <1>6, <2>1
<1>8. slack(i) \in Nat /\ (Simulation(reserve, i, amount).commission_amount = 0 => slack(i) >= 1)
  BY <1>4
<1> HIDE DEF slack
<1> QED
  BY <1>1, <1>3, <1>5, <1>6, <1>7, <1>8, QuoteKeepsCurve

(* A swap leaves the providers a pool of at least the invariant that it    *)
(* found, by exact arithmetic, whatever Newton's iterations answered.      *)
THEOREM SwapsKeepCurve == PairSpec => SwapKeepsCurve
<1>1. PairInv /\ [PairNext]_pairVars =>
        [\A i \in Assets :
           total_supply' = total_supply /\ reserve'[Other(i)] < reserve[Other(i)] =>
              LET quote == Simulation(reserve, i, reserve'[i] - reserve[i])
                  slack == IF quote.commission_amount = 0 THEN 1 ELSE 0
                  sum == Adjusted(reserve, 0, GreaterPrecision)
                            + Adjusted(reserve, 1, GreaterPrecision)
              IN  \A d \in 0 .. sum :
                     PoolOnCurve(reserve, i, 0, d) => PoolOnCurve(reserve', i, slack, d)]_pairVars
  BY KeepsCurveStep, AssumptionsHold DEF PairInv, KeepsCurve
<1> QED
  BY <1>1, PairInvariant, PTL DEF PairSpec, SwapKeepsCurve
=============================================================================
