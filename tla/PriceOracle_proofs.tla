------------------------- MODULE PriceOracle_proofs -------------------------
(***************************************************************************)
(* The price oracle, for every value of the constants and whatever the     *)
(* arithmetic answers: it records the prices that its blocks began with    *)
(* (PairHistory), a client's readings do not depend on their place in a    *)
(* block, and their difference is the sum of the prices in between, one    *)
(* unit a second and the wraps aside (PriceReader).                        *)
(***************************************************************************)
EXTENDS PairHistory, PriceReader, Pair_proofs

-----------------------------------------------------------------------------
(* What the oracle records of a block.                                     *)

(* Until the block is accounted for, the oracle and (without a donation)   *)
(* the reserves are as the block found them; afterwards the accumulators   *)
(* are Recorded.                                                           *)
HistoryInv ==
    /\ PairInv
    /\ block_time_last < now =>
          /\ price_cumulative_last = opening.price_cumulative_last
          /\ block_time_last = opening.block_time_last
          /\ ~donated => reserve = opening.reserve
    /\ OracleIgnoresOwnBlock

watchVars == <<pairVars, historyVars>>

LEMMA HistoryStepIsPairStep ==
    ASSUME [HistoryNext]_watchVars
    PROVE  [PairNext]_pairVars
  BY DEF HistoryNext, AccountCall, OwnerCall, BlockBegins, PairNext, watchVars

(* The history variables only watch.                                       *)
THEOREM HistoryImplementsPair == HistorySpec => PairSpec
<1>1. HistoryInit => PairInit
  BY DEF HistoryInit
<1>2. [HistoryNext]_watchVars => [PairNext]_pairVars
  BY HistoryStepIsPairStep
<1> QED
  BY <1>1, <1>2, PTL DEF HistorySpec, PairSpec, watchVars

(* Within a block, what is to be recorded of it does not change.           *)
LEMMA RecordedStable ==
    ASSUME Assumptions, PairInv, [PairNext]_pairVars, now' = now, opening' = opening
    PROVE  Recorded' = Recorded
<1>1. CurrentAmp' = CurrentAmp
  BY PairStepIsAmpStep, NoJumpStep DEF PairInv, PairTypeOK, Assumptions
<1>2. \A i \in Assets :
        PriceTimesElapsed(opening.reserve, i, opening.block_time_last)'
          = PriceTimesElapsed(opening.reserve, i, opening.block_time_last)
  BY <1>1 DEF PriceTimesElapsed, PriceTimes
<1>3. \A i \in Assets :
        WrappingAdd(opening.price_cumulative_last[i],
                    PriceTimesElapsed(opening.reserve, i, opening.block_time_last))'
          = WrappingAdd(opening.price_cumulative_last[i],
                    PriceTimesElapsed(opening.reserve, i, opening.block_time_last))
  BY <1>2 DEF WrappingAdd
<1> QED
  BY <1>3 DEF Recorded

LEMMA HistoryInvStep ==
    ASSUME Assumptions, HistoryInv, [HistoryNext]_watchVars
    PROVE  HistoryInv'
<1>1. PairInv' /\ PairInv
  BY HistoryStepIsPairStep, PairInvStep DEF HistoryInv
<1>2. now \in Nat /\ block_time_last \in Nat /\ block_time_last <= now
  BY <1>1 DEF PairInv, PairTypeOK, AmpTypeOK, LedgerTypeOK, Assumptions, AmpAssumption
<1>3. ASSUME NEW sender \in Accounts, Call(sender), UNCHANGED <<donated, opening>>
      PROVE  HistoryInv'
  <2>1. AccumulatePrices(reserve)
    BY <1>1, <1>3, CallShowsReserves DEF PairInv
  <2>2. now' = now
    BY <1>3, CallKeepsAmp DEF ampVars
  <2>3. Recorded' = Recorded
    BY <1>1, <1>3, <2>2, RecordedStable DEF PairNext
  <2>4. CASE now <= block_time_last
    BY <1>1, <1>2, <1>3, <2>1, <2>2, <2>3, <2>4
       DEF AccumulatePrices, oracleVars, HistoryInv, OracleIgnoresOwnBlock
  <2>5. CASE block_time_last < now
    <3>1. block_time_last' = now
      BY <1>2, <2>1, <2>5 DEF AccumulatePrices
    <3>2. ASSUME ~donated PROVE price_cumulative_last' = Recorded
      <4>1. /\ reserve = opening.reserve
            /\ price_cumulative_last = opening.price_cumulative_last
            /\ block_time_last = opening.block_time_last
        BY <2>5, <3>2 DEF HistoryInv
      <4> QED
        BY <1>2, <2>1, <2>5, <4>1 DEF AccumulatePrices, Recorded
    <3> QED
      BY <1>1, <1>2, <1>3, <2>2, <2>3, <3>1, <3>2 DEF HistoryInv, OracleIgnoresOwnBlock
  <2> QED
    BY <1>2, <2>4, <2>5
<1>4. ASSUME NEW sender \in Accounts, Donation(sender), donated' = TRUE, UNCHANGED opening
      PROVE  HistoryInv'
  <2>1. /\ now' = now /\ block_time_last' = block_time_last
        /\ price_cumulative_last' = price_cumulative_last
    BY <1>4 DEF Donation, Donate, ampVars, oracleVars
  <2> QED
    BY <1>1, <1>4, <2>1 DEF HistoryInv, OracleIgnoresOwnBlock
<1>5. ASSUME NEW sender \in Accounts, LpCall(sender), UNCHANGED <<donated, opening>>
      PROVE  HistoryInv'
  <2>1. /\ now' = now /\ block_time_last' = block_time_last
        /\ price_cumulative_last' = price_cumulative_last /\ reserve' = reserve
    BY <1>5 DEF LpCall, TransferLp, BurnLp, ampVars, oracleVars
  <2>2. Recorded' = Recorded
    BY <1>1, <1>5, <2>1, RecordedStable DEF PairNext
  <2> QED
    BY <1>1, <1>5, <2>1, <2>2 DEF HistoryInv, OracleIgnoresOwnBlock
<1>6. CASE OwnerCall
  <2>1. PICK sender \in Accounts : UpdateConfig(sender)
    BY <1>6 DEF OwnerCall
  <2>2. /\ now' = now /\ UNCHANGED <<ledgerVars, oracleVars>>
        /\ opening' = opening /\ donated' = donated
    BY <1>6, <2>1 DEF OwnerCall, UpdateConfig, StartChangingAmp, StopChangingAmp, RampFrom, historyVars
  <2>3. Recorded' = Recorded
    BY <1>1, <2>1, <2>2, RecordedStable DEF PairNext
  <2> QED
    BY <1>1, <2>2, <2>3 DEF HistoryInv, OracleIgnoresOwnBlock, ledgerVars, oracleVars
<1>7. CASE BlockBegins
  <2>1. /\ now' = now + 1 /\ block_time_last' = block_time_last
        /\ opening' = Snapshot' /\ donated' = FALSE
    BY <1>7 DEF BlockBegins, NextBlock, Tick, oracleVars
  <2>2. block_time_last' < now'
    BY <1>2, <2>1
  <2> QED
    BY <1>1, <1>2, <2>1, <2>2 DEF HistoryInv, OracleIgnoresOwnBlock, Snapshot
<1>8. CASE UNCHANGED watchVars
  <2>1. /\ now' = now /\ UNCHANGED <<ledgerVars, oracleVars>>
        /\ opening' = opening /\ donated' = donated /\ UNCHANGED pairVars
    BY <1>8 DEF watchVars, pairVars, ampVars, historyVars
  <2>2. Recorded' = Recorded
    BY <1>1, <2>1, RecordedStable
  <2> QED
    BY <1>1, <2>1, <2>2 DEF HistoryInv, OracleIgnoresOwnBlock, ledgerVars, oracleVars
<1> QED
  BY <1>3, <1>4, <1>5, <1>6, <1>7, <1>8 DEF HistoryNext, AccountCall

(* Trades never show in the prices recorded for their own block.           *)
THEOREM OracleNeverSeesOwnBlock == HistorySpec => []OracleIgnoresOwnBlock
<1>1. HistoryInit => HistoryInv
  <2>1. HistoryInit => PairInv
    BY PairInvInit, AssumptionsHold DEF HistoryInit
  <2> QED
    BY <2>1 DEF HistoryInit, HistoryInv, Snapshot, OracleIgnoresOwnBlock, Recorded,
                PairInit, Assets
<1>2. HistoryInv /\ [HistoryNext]_watchVars => HistoryInv'
  BY HistoryInvStep, AssumptionsHold
<1>3. HistoryInv => OracleIgnoresOwnBlock
  BY DEF HistoryInv
<1> QED
  BY <1>1, <1>2, <1>3, PTL DEF HistorySpec, watchVars

-----------------------------------------------------------------------------
(* What a client reads.                                                    *)

readVars == <<pairVars, readerVars, calls>>

LEMMA ReaderStepIsPairStep ==
    ASSUME [ReaderNext]_readVars
    PROVE  [PairNext]_pairVars
  BY DEF ReaderNext, Ask, AccountActs, OwnerActs, SecondPasses, PairNext, readVars

(* A pair in use satisfies the invariant of the pair like a new one.       *)
LEMMA ReaderInitInv ==
    ASSUME Assumptions, ReaderAssumption, ReaderInit
    PROVE  PairInv
<1>1. CASE PairInit
  BY <1>1, PairInvInit
<1>2. CASE UsedPair
  <2>1. AmpTypeOK
    BY <1>2, AmpTypeInit DEF UsedPair, Assumptions
  <2>2. MaxU128 \in Nat /\ StartTime \in Nat /\ now = StartTime
    BY <1>2 DEF UsedPair, AmpInit, Assumptions, MathAssumption, AmpAssumption
  <2>3. LedgerTypeOK
    BY <1>2, <2>2 DEF UsedPair, LedgerTypeOK, U128, ReaderAssumption, Assumptions, PairAssumption
  <2>4. SharesBacked
    BY <1>2 DEF UsedPair, SharesBacked, ReaderAssumption, Assets
  <2> QED
    BY <2>1, <2>3, <2>4 DEF PairInv, PairTypeOK
<1> QED
  BY <1>1, <1>2 DEF ReaderInit

THEOREM ReaderInvariant == ReaderSpec => []PairInv
<1>1. ReaderInit => PairInv
  BY ReaderInitInv, AssumptionsHold, ReaderAssumption
<1>2. PairInv /\ [ReaderNext]_readVars => PairInv'
  BY ReaderStepIsPairStep, PairInvStep, AssumptionsHold
<1> QED
  BY <1>1, <1>2, PTL DEF ReaderSpec, readVars

-----------------------------------------------------------------------------
(* The reading after a step, in the values that a step leaves.             *)
NextReading ==
    UpToDate(now', CurrentAmp', reserve', block_time_last', price_cumulative_last')

(* A call saves what a reader saw before it.                               *)
LEMMA CallSavesReading ==
    ASSUME Assumptions, PairTypeOK, NEW sender \in Accounts, Call(sender)
    PROVE  NextReading = Reading
<1>1. AccumulatePrices(reserve) /\ now' = now
  BY CallShowsReserves, CallKeepsAmp DEF ampVars
<1>2. now \in Nat /\ block_time_last \in Nat
  BY DEF PairTypeOK, AmpTypeOK, LedgerTypeOK, Assumptions, AmpAssumption
<1>3. CASE now <= block_time_last
  BY <1>1, <1>3 DEF AccumulatePrices, oracleVars, NextReading, Reading, UpToDate
<1>4. CASE ~(now <= block_time_last)
  <2>1. NextReading = price_cumulative_last'
    BY <1>1, <1>2, <1>4 DEF AccumulatePrices, NextReading, UpToDate
  <2>2. \A i \in Assets : Adjusted(reserve, i, OraclePrecision) # None
    BY <1>1, <1>4 DEF AccumulatePrices
  <2>3. CASE \E i \in Assets : reserve[i] = 0
    BY <1>1, <1>4, <2>1, <2>3, <2>2 DEF AccumulatePrices, Reading, UpToDate
  <2>4. CASE ~\E i \in Assets : reserve[i] = 0
    <3> DEFINE gain == [i \in Assets |-> PriceTimesElapsed(reserve, i, block_time_last)]
    <3>1. /\ \A i \in Assets : gain[i] # None
          /\ price_cumulative_last' = [i \in Assets |->
                 WrappingAdd(price_cumulative_last[i], gain[i])]
      BY <1>1, <1>4, <2>4 DEF AccumulatePrices
    <3>2. \A i \in Assets :
            gain[i] = PriceTimes(reserve, i, now - block_time_last, CurrentAmp)
      BY DEF PriceTimesElapsed
    <3> HIDE DEF gain
    <3>3. Reading = [i \in Assets |-> WrappingAdd(price_cumulative_last[i], gain[i])]
      BY <1>4, <2>4, <2>2, <3>1, <3>2 DEF Reading, UpToDate
    <3> QED
      BY <2>1, <3>1, <3>3
  <2> QED
    BY <2>3, <2>4
<1> QED
  BY <1>3, <1>4

LEMMA ReadingStableStep ==
    ASSUME Assumptions, PairInv, [ReaderNext]_readVars,
           now' = now, reserve' = reserve \/ block_time_last' = now
    PROVE  NextReading = Reading
<1>1. CurrentAmp' = CurrentAmp
  BY ReaderStepIsPairStep, PairStepIsAmpStep, NoJumpStep DEF PairInv, PairTypeOK, Assumptions
<1>2. now \in Nat /\ block_time_last \in Nat
  BY DEF PairInv, PairTypeOK, AmpTypeOK, LedgerTypeOK, Assumptions, AmpAssumption
<1>3. ASSUME NEW sender \in Accounts, Call(sender)
      PROVE  NextReading = Reading
  BY <1>3, CallSavesReading DEF PairInv
<1>4. ASSUME NEW sender \in Accounts, Donation(sender)
      PROVE  NextReading = Reading
  <2>1. UNCHANGED oracleVars
    BY <1>4 DEF Donation, Donate
  <2>2. CASE reserve' = reserve
    BY <1>1, <2>1, <2>2 DEF NextReading, Reading, oracleVars
  <2>3. CASE block_time_last' = now
    BY <1>2, <2>1, <2>3 DEF NextReading, Reading, UpToDate, oracleVars
  <2> QED
    BY <2>2, <2>3
<1>5. ASSUME UNCHANGED <<reserve, oracleVars>>
      PROVE  NextReading = Reading
  BY <1>1, <1>5 DEF NextReading, Reading, oracleVars
<1>6. CASE SecondPasses
  BY <1>2, <1>6 DEF SecondPasses, NextBlock, Tick
<1>7. CASE AccountActs
  BY <1>3, <1>4, <1>5, <1>7 DEF AccountActs, LpCall, TransferLp, BurnLp
<1> QED
  BY <1>5, <1>6, <1>7
     DEF ReaderNext, Ask, OwnerActs, UpdateConfig, readVars, pairVars, ledgerVars

(* What query_cumulative_prices answers does not depend on where in a      *)
(* block it is asked, and is what the next call of the block saves.        *)
THEOREM ReadingsAreStable == ReaderSpec => ReadingStable
<1>1. PairInv /\ [ReaderNext]_readVars =>
        [now' = now /\ (reserve' = reserve \/ block_time_last' = now) =>
           UpToDate(now', CurrentAmp', reserve', block_time_last', price_cumulative_last')
             = Reading]_readVars
  BY ReadingStableStep, AssumptionsHold DEF NextReading
<1> QED
  BY <1>1, ReaderInvariant, PTL DEF ReaderSpec, ReadingStable, readVars

-----------------------------------------------------------------------------
(* Numbers that differ by a multiple of m have the same remainder.         *)
LEMMA SameRemainder ==
    ASSUME NEW m \in Nat \ {0}, NEW x \in Int, NEW y \in Int, NEW k \in Int, x = y + k * m
    PROVE  x % m = y % m
<1>1. /\ x \div m \in Int /\ y \div m \in Int /\ x % m \in 0 .. m - 1 /\ y % m \in 0 .. m - 1
      /\ x = m * (x \div m) + (x % m)
      /\ y = m * (y \div m) + (y % m)
  BY SMT
<1> DEFINE p == x \div m
           q == y \div m
           c == x % m
           d == y % m
           e == p - q - k
<1> HIDE DEF p, q, c, d
<1>2. p \in Int /\ q \in Int /\ c \in Int /\ d \in Int /\ c >= 0 /\ c < m /\ d >= 0 /\ d < m
  BY <1>1 DEF p, q, c, d
<1>3. m * p + c = m * q + d + k * m
  BY <1>1 DEF p, q, c, d
<1>4. m * e = d - c /\ e \in Int
  BY <1>2, <1>3
<1> HIDE DEF e
<1>5. e = 0
  <2>1. ASSUME e >= 1 PROVE FALSE
    <3>1. m * e >= m
      BY <1>4, <2>1
    <3> QED
      BY <3>1, <1>2, <1>4
  <2>2. ASSUME e <= -1 PROVE FALSE
    <3>1. m * e <= -m
      BY <1>4, <2>2
    <3> QED
      BY <3>1, <1>2, <1>4
  <2> QED
    BY <2>1, <2>2, <1>4
<1> QED
  BY <1>4, <1>5, <1>2 DEF c, d

(* A checked product that fits, and every smaller one, is the product.     *)
LEMMA ProductFits ==
    ASSUME MathAssumption, NEW a \in Nat, NEW b \in Nat, NEW c \in Nat, a <= b,
           ToU128(b \otimes c) # None
    PROVE  /\ ToU128(a \otimes c) = a * c
           /\ a * c \in Nat
<1>1. b \otimes c \in U128 /\ b \otimes c # None
  BY DEF ToU128, U128, None
<1>2. b \otimes c = b * c /\ (c = 0 \/ b <= MaxU256 \div c)
  <2>1. CASE c = 0
    BY <1>1, <2>1 DEF \otimes
  <2>2. CASE c # 0
    <3>1. MaxU256 \div c \in Nat
      BY <2>2, DivisionFacts DEF MathAssumption
    <3> QED
      BY <1>1, <2>2, <3>1 DEF \otimes
  <2> QED
    BY <2>1, <2>2
<1>3. a * c <= b * c /\ a * c \in Nat
  BY ProductMonotone
<1>4. a \otimes c = a * c
  <2>1. CASE c = 0
    BY <2>1 DEF \otimes, None
  <2>2. CASE c # 0
    <3>1. MaxU256 \div c \in Nat
      BY <2>2, DivisionFacts DEF MathAssumption
    <3>2. ~(a > MaxU256 \div c)
      BY <1>2, <2>2, <3>1
    <3> QED
      BY <3>2 DEF \otimes, None
  <2> QED
    BY <2>1, <2>2
<1>5. b * c \in 0 .. MaxU128
  BY <1>1, <1>2 DEF U128
<1>6. a * c \in U128
  BY <1>3, <1>5 DEF U128, MathAssumption
<1> QED
  BY <1>3, <1>4, <1>6 DEF ToU128

(* Division with rounding down loses at most one unit of a sum.            *)
LEMMA DivisionOfSum ==
    ASSUME NEW v \in Nat, NEW w \in Nat, NEW u \in Nat \ {0}
    PROVE  \/ (v + w) \div u = (v \div u) + (w \div u)
           \/ (v + w) \div u = (v \div u) + (w \div u) + 1
<1> DEFINE p == v \div u
           q == w \div u
           s == (v + w) \div u
<1>1. /\ p \in Nat /\ p * u <= v /\ v < p * u + u
      /\ q \in Nat /\ q * u <= w /\ w < q * u + u
      /\ s \in Nat /\ s * u <= v + w /\ v + w < s * u + u
  BY DivisionFacts
<1> HIDE DEF p, q, s
<1>2. /\ p * u \in Nat /\ q * u \in Nat /\ s * u \in Nat
      /\ (p + q) * u = p * u + q * u
      /\ (s + 1) * u = s * u + u
      /\ (p + q + 2) * u = p * u + q * u + u + u
  BY <1>1
<1>3. p + q < s + 1
  <2>1. SUFFICES ASSUME s + 1 <= p + q PROVE FALSE
    BY <1>1
  <2>2. (s + 1) * u <= (p + q) * u
    BY <1>1, <2>1, ProductMonotone
  <2> QED
    BY <1>1, <1>2, <2>2
<1>4. s < p + q + 2
  <2>1. SUFFICES ASSUME p + q + 2 <= s PROVE FALSE
    BY <1>1
  <2>2. (p + q + 2) * u <= s * u
    BY <1>1, <2>1, ProductMonotone
  <2> QED
    BY <1>1, <1>2, <2>2
<1>5. s = p + q \/ s = p + q + 1
  BY <1>1, <1>3, <1>4
<1> QED
  BY <1>5 DEF p, q, s

(* So does the change to a smaller precision.                              *)
LEMMA AdjustOfSum ==
    ASSUME MathAssumption, NEW v \in Nat, NEW w \in Nat,
           NEW p \in 0 .. MaxPrecision, NEW q \in 0 .. MaxPrecision, q <= p,
           AdjustPrecision(v + w, p, q) # None
    PROVE  /\ AdjustPrecision(v, p, q) \in Nat
           /\ AdjustPrecision(w, p, q) \in Nat
           /\ \/ AdjustPrecision(v + w, p, q)
                   = AdjustPrecision(v, p, q) + AdjustPrecision(w, p, q)
              \/ AdjustPrecision(v + w, p, q)
                   = AdjustPrecision(v, p, q) + AdjustPrecision(w, p, q) + 1
<1>0. \A d \in Nat \ {0} : \/ (v + w) \div d = (v \div d) + (w \div d)
                            \/ (v + w) \div d = (v \div d) + (w \div d) + 1
  BY DivisionOfSum
<1>1. CASE p <= q
  <2> DEFINE u == PRECISION_BASE ^ (q - p)
  <2>1. u \in Nat \ {0}
    BY <1>1, UnitsPositive
  <2>2. \A x : AdjustPrecision(x, p, q) = ToU128(x \otimes u)
    BY <1>1 DEF AdjustPrecision
  <2> HIDE DEF u
  <2>3. /\ AdjustPrecision(v, p, q) = v * u /\ v * u \in Nat
        /\ AdjustPrecision(w, p, q) = w * u /\ w * u \in Nat
        /\ AdjustPrecision(v + w, p, q) = (v + w) * u
    BY <2>1, <2>2, ProductFits
  <2>4. (v + w) * u = v * u + w * u
    BY <2>1
  <2> QED
    BY <2>3, <2>4
<1>2. CASE ~(p <= q)
  <2>1. PICK u \in Nat \ {0} : u = PRECISION_BASE ^ (p - q)
    BY <1>2, UnitsPositive
  <2>2. \A x : AdjustPrecision(x, p, q) = x \oslash u
    BY <1>2, <2>1 DEF AdjustPrecision
  <2>3. \A x \in Nat : AdjustPrecision(x, p, q) = x \div u /\ x \div u \in Nat
    BY <2>1, <2>2, DivisionFacts DEF \oslash, None
  <2>4. v + w \in Nat
    OBVIOUS
  <2>5. \/ (v + w) \div u = (v \div u) + (w \div u)
        \/ (v + w) \div u = (v \div u) + (w \div u) + 1
    BY <1>0, <2>1
  <2>6. /\ AdjustPrecision(v, p, q) = v \div u /\ v \div u \in Nat
        /\ AdjustPrecision(w, p, q) = w \div u /\ w \div u \in Nat
        /\ AdjustPrecision(v + w, p, q) = (v + w) \div u
    BY <2>3, <2>4
  <2> HIDE DEF AdjustPrecision
  <2> QED
    BY <2>5, <2>6
<1> QED
  BY <1>1, <1>2

(* The prices of two intervals add up, but for the rounding.               *)
LEMMA PriceOfSum ==
    ASSUME Assumptions, NEW pools \in [Assets -> Nat], NEW i \in Assets, NEW amp,
           NEW t \in Nat, PriceTimes(pools, i, t + 1, amp) # None
    PROVE  /\ PriceTimes(pools, i, t, amp) \in Nat
           /\ PriceTimes(pools, i, 1, amp) \in Nat
           /\ \/ PriceTimes(pools, i, t + 1, amp)
                   = PriceTimes(pools, i, t, amp) + PriceTimes(pools, i, 1, amp)
              \/ PriceTimes(pools, i, t + 1, amp)
                   = PriceTimes(pools, i, t, amp) + PriceTimes(pools, i, 1, amp) + 1
<1> DEFINE price == CalcAskAmount(Adjusted(pools, i, OraclePrecision),
                                  Adjusted(pools, Other(i), OraclePrecision),
                                  AdjustPrecision(1, 0, OraclePrecision), amp)
           Scaled(v) == AdjustPrecision(v, OraclePrecision, TWAP_PRECISION)
<1>1. \A s : PriceTimes(pools, i, s, amp) = Scaled(ToU128(s \otimes price))
  BY DEF PriceTimes
<1>2. /\ OraclePrecision \in 0 .. MaxPrecision /\ TWAP_PRECISION \in 0 .. MaxPrecision
      /\ TWAP_PRECISION <= OraclePrecision
      /\ Precision[Other(i)] \in 0 .. MaxPrecision
      /\ MathAssumption
  BY PrecisionTypes DEF Assumptions, PairAssumption, OraclePrecision, Greater, MathAssumption, Assets, Other
<1>3. price \in Optional
  <2>1. pools[Other(i)] \in Optional
    BY DEF Assets, Other, Optional
  <2>2. Adjusted(pools, Other(i), OraclePrecision) \in Optional
    BY <1>2, <2>1, AdjustType DEF Adjusted
  <2> QED
    BY <2>2, <1>2, NewBalanceType, CheckedTypes DEF CalcAskAmount, Leverage, ComputeNewBalance
<1> HIDE DEF price
<1>4. Scaled(None) = None
  BY DEF AdjustPrecision, \otimes, \oslash, ToU128, None, U128
<1>5. ToU128((t + 1) \otimes price) # None
  BY <1>1, <1>4
<1>6. price \in Nat
  BY <1>3, <1>5 DEF \otimes, ToU128, Optional, U128, None
<1>7. /\ ToU128((t + 1) \otimes price) = (t + 1) * price
      /\ ToU128(t \otimes price) = t * price /\ t * price \in Nat
      /\ ToU128(1 \otimes price) = 1 * price
  BY <1>2, <1>5, <1>6, ProductFits
<1>8. (t + 1) * price = t * price + price /\ 1 * price = price
  BY <1>6
<1>9. Scaled(t * price + price) # None
  BY <1>1, <1>7, <1>8
<1> DEFINE v == t * price
<1> HIDE DEF v
<1>10. /\ Scaled(v) \in Nat /\ Scaled(price) \in Nat
       /\ \/ Scaled(v + price) = Scaled(v) + Scaled(price)
          \/ Scaled(v + price) = Scaled(v) + Scaled(price) + 1
  BY <1>2, <1>6, <1>7, <1>9, AdjustOfSum DEF v
<1> QED
  BY <1>1, <1>7, <1>8, <1>10 DEF v

-----------------------------------------------------------------------------
(* Equal but for wraps of an accumulator.                                  *)
Wrapped(x, y) == \E k \in Int : x = y + k * (MaxU128 + 1)

(* The sum of the prices so far: a reading exceeds the sample by what is   *)
(* owed, at most one more for each second, and whole wraps.                *)
Accounted(i) ==
    \E sum \in owed[i] .. owed[i] + (now - asked_at) : Wrapped(Reading[i] - sample[i], sum)

ReaderTypeOK ==
    /\ asked_at \in Nat
    /\ asked_at <= now
    /\ owed \in [Assets -> Nat]
    /\ sample \in [Assets -> Nat]

AverageInv ==
    /\ ReaderTypeOK
    /\ steady /\ Readable => \A i \in Assets : Accounted(i)

(* An addition that wraps is the sum, but for a wrap.                      *)
LEMMA WrappingAddWraps ==
    ASSUME MathAssumption, NEW a \in Nat, NEW b \in Nat
    PROVE  Wrapped(WrappingAdd(a, b), a + b)
<1> DEFINE m == MaxU128 + 1
           c == a + b
<1>1. m \in Nat \ {0} /\ c \in Nat
  BY DEF MathAssumption
<1> HIDE DEF m, c
<1>2. c \div m \in Int /\ c % m \in Int /\ c = m * (c \div m) + (c % m)
  BY <1>1
<1>3. c % m = c + (0 - (c \div m)) * m /\ 0 - (c \div m) \in Int
  BY <1>1, <1>2
<1> QED
  BY <1>3 DEF Wrapped, WrappingAdd, m, c

(* What a reading is, when there is one.                                   *)
LEMMA ReadingType ==
    ASSUME Assumptions, PairTypeOK, Readable
    PROVE  Reading \in [Assets -> Nat]
<1>1. price_cumulative_last \in [Assets -> Nat]
  BY DEF PairTypeOK, LedgerTypeOK, U128
<1>2. \A i \in Assets : \A t : PriceTimes(reserve, i, t, CurrentAmp) \in Optional
  <2>1. OraclePrecision \in 0 .. MaxPrecision /\ TWAP_PRECISION \in 0 .. MaxPrecision
    BY PrecisionTypes DEF Assumptions, PairAssumption
  <2> QED
    BY <2>1, ToU128Type, AdjustType DEF PriceTimes, Assumptions
<1>3. \A i \in Assets : \A t : PriceTimes(reserve, i, t, CurrentAmp) # None =>
         WrappingAdd(price_cumulative_last[i], PriceTimes(reserve, i, t, CurrentAmp)) \in Nat
  BY <1>1, <1>2, WrappingAddType DEF Optional, U128, Assumptions
<1>4. CASE Reading = price_cumulative_last
  BY <1>1, <1>4
<1>5. CASE Reading # price_cumulative_last
  <2>1. Reading = [i \in Assets |->
            LET gain == PriceTimes(reserve, i, now - block_time_last, CurrentAmp)
            IN  IF gain = None THEN None ELSE WrappingAdd(price_cumulative_last[i], gain)]
    BY <1>5 DEF Reading, UpToDate, Readable, Assets
  <2> QED
    BY <1>3, <2>1 DEF Readable
<1> QED
  BY <1>4, <1>5

(* A second adds its price to what a client reads, or one more.            *)
LEMMA ReadingGrows ==
    ASSUME Assumptions, PairTypeOK, SecondPasses, CurrentAmp' = CurrentAmp, Readable'
    PROVE  /\ Readable
           /\ \A i \in Assets : PriceOfSecond(i) \in Nat
           /\ \A i \in Assets : \E r \in 0 .. 1 :
                 Wrapped(Reading'[i], Reading[i] + PriceOfSecond(i) + r)
<1> DEFINE saved == price_cumulative_last
           t == now - block_time_last
           Gain(i, s) == PriceTimes(reserve, i, s, CurrentAmp)
<1>1. /\ now' = now + 1 /\ reserve' = reserve
      /\ block_time_last' = block_time_last /\ price_cumulative_last' = saved
      /\ \A i \in Assets : PriceOfSecond(i) # None
  BY DEF SecondPasses, NextBlock, Tick, ledgerVars, oracleVars
<1>2. /\ now \in Nat /\ block_time_last \in Nat /\ block_time_last <= now /\ t \in Nat
      /\ now + 1 - block_time_last = t + 1
      /\ saved \in [Assets -> Nat] /\ \A i \in Assets : saved[i] \in U128
      /\ reserve \in [Assets -> Nat]
      /\ MaxU128 \in Nat /\ MathAssumption
  BY DEF PairTypeOK, AmpTypeOK, LedgerTypeOK, Assumptions, AmpAssumption, U128, MathAssumption
<1>3. Reading' = UpToDate(now + 1, CurrentAmp, reserve, block_time_last, saved)
  BY <1>1 DEF Reading
<1>4. \A i \in Assets : Reading'[i] # None
  BY DEF Readable
<1>5. \A i \in Assets : Adjusted(reserve, i, OraclePrecision) # None
  BY <1>2, <1>3, <1>4 DEF UpToDate
<1>6. CASE \E i \in Assets : reserve[i] = 0
  <2>1. Reading' = saved /\ Reading = saved
    BY <1>2, <1>3, <1>5, <1>6 DEF UpToDate, Reading
  <2>2. \A i \in Assets : PriceOfSecond(i) = 0
    BY <1>6 DEF PriceOfSecond
  <2>3. Readable
    BY <1>2, <2>1 DEF Readable, None
  <2>4. \A i \in Assets : Wrapped(Reading'[i], Reading[i] + PriceOfSecond(i) + 0)
    <3>1. \A i \in Assets : saved[i] = saved[i] + 0 + 0 + 0 * (MaxU128 + 1) /\ 0 \in Int
      BY <1>2
    <3> QED
      BY <2>1, <2>2, <3>1 DEF Wrapped
  <2> QED
    BY <2>2, <2>3, <2>4
<1>7. CASE ~\E i \in Assets : reserve[i] = 0
  <2>1. Reading' = [i \in Assets |->
            IF Gain(i, t + 1) = None THEN None ELSE WrappingAdd(saved[i], Gain(i, t + 1))]
    BY <1>2, <1>3, <1>5, <1>7 DEF UpToDate
  <2>2. \A i \in Assets : Gain(i, t + 1) # None
    BY <1>4, <2>1
  <2>3. \A i \in Assets :
           /\ Gain(i, t) \in Nat /\ Gain(i, 1) \in Nat
           /\ \/ Gain(i, t + 1) = Gain(i, t) + Gain(i, 1)
              \/ Gain(i, t + 1) = Gain(i, t) + Gain(i, 1) + 1
    BY <1>2, <2>2, PriceOfSum
  <2>4. \A i \in Assets : PriceOfSecond(i) = Gain(i, 1)
    <3>1. now - (now - 1) = 1
      BY <1>2
    <3> QED
      BY <1>7, <3>1 DEF PriceOfSecond, PriceTimesElapsed
  <2>5. \A i \in Assets : Reading[i] \in Nat /\ Wrapped(Reading[i], saved[i] + Gain(i, t))
    <3>1. CASE t = 0
      <4>1. Reading = saved
        BY <1>2, <3>1 DEF Reading, UpToDate
      <4>2. \A i \in Assets : Gain(i, 0) = 0
        <5>1. SUFFICES ASSUME NEW i \in Assets PROVE Gain(i, 0) = 0
          OBVIOUS
        <5>2. t + 1 = 1
          BY <3>1
        <5>3. Gain(i, t) = Gain(i, 0) /\ Gain(i, t + 1) = Gain(i, 1)
          BY <3>1, <5>2
        <5> QED
          BY <2>3, <5>3
      <4>3. \A i \in Assets : saved[i] = saved[i] + 0 + 0 * (MaxU128 + 1) /\ 0 \in Int
        BY <1>2
      <4> QED
        BY <1>2, <3>1, <4>1, <4>2, <4>3 DEF Wrapped
    <3>2. CASE t # 0
      <4>1. ~(now <= block_time_last)
        BY <1>2, <3>2
      <4>2. Reading = [i \in Assets |->
                IF Gain(i, t) = None THEN None ELSE WrappingAdd(saved[i], Gain(i, t))]
        BY <1>5, <1>7, <4>1 DEF Reading, UpToDate
      <4>3. \A i \in Assets : Reading[i] = WrappingAdd(saved[i], Gain(i, t))
        BY <2>3, <4>2 DEF None
      <4> SUFFICES ASSUME NEW i \in Assets
                   PROVE  Reading[i] \in Nat /\ Wrapped(Reading[i], saved[i] + Gain(i, t))
        OBVIOUS
      <4>4. PICK g \in Nat, c \in Nat : g = Gain(i, t) /\ c = saved[i]
        BY <1>2, <2>3
      <4>5. Reading[i] = WrappingAdd(c, g)
        BY <4>3, <4>4
      <4>6. WrappingAdd(c, g) \in Nat /\ Wrapped(WrappingAdd(c, g), c + g)
        BY <1>2, <4>4, WrappingAddWraps, WrappingAddType DEF U128
      <4> QED
        BY <4>4, <4>5, <4>6
    <3> QED
      BY <3>1, <3>2
  <2>6. \A i \in Assets :
           Wrapped(Reading'[i], saved[i] + Gain(i, t + 1)) /\ Reading'[i] \in Nat
    <3>1. SUFFICES ASSUME NEW i \in Assets
                   PROVE  Wrapped(Reading'[i], saved[i] + Gain(i, t + 1)) /\ Reading'[i] \in Nat
      OBVIOUS
    <3>2. Reading'[i] = WrappingAdd(saved[i], Gain(i, t + 1))
      BY <2>1, <2>2
    <3>3. Gain(i, t + 1) \in Nat /\ saved[i] \in Nat
      BY <1>2, <2>3
    <3> QED
      BY <1>2, <3>2, <3>3, WrappingAddWraps, WrappingAddType DEF U128
  <2>7. ASSUME NEW i \in Assets
        PROVE  \E r \in 0 .. 1 : Wrapped(Reading'[i], Reading[i] + PriceOfSecond(i) + r)
    <3>1. PICK g1 \in Nat, g \in Nat, s \in Nat, r \in 0 .. 1 :
             /\ g1 = Gain(i, t + 1) /\ g = Gain(i, t) /\ s = Gain(i, 1)
             /\ g1 = g + s + r
      <4>1. Gain(i, t) \in Nat /\ Gain(i, 1) \in Nat /\ Gain(i, t + 1) \in Nat
        BY <2>3
      <4>2. \/ Gain(i, t + 1) = Gain(i, t) + Gain(i, 1) + 0
            \/ Gain(i, t + 1) = Gain(i, t) + Gain(i, 1) + 1
        BY <2>3
      <4> QED
        BY <4>1, <4>2
    <3>2. PICK k \in Int : Reading'[i] = saved[i] + g1 + k * (MaxU128 + 1)
      BY <2>6, <3>1 DEF Wrapped
    <3>3. PICK l \in Int : Reading[i] = saved[i] + g + l * (MaxU128 + 1)
      BY <2>5, <3>1 DEF Wrapped
    <3>4. Reading'[i] = Reading[i] + s + r + (k - l) * (MaxU128 + 1) /\ k - l \in Int
      BY <1>2, <2>5, <2>6, <3>1, <3>2, <3>3
    <3> QED
      BY <2>4, <3>1, <3>4 DEF Wrapped
  <2>8. Readable
    BY <2>5 DEF Readable, None
  <2> QED
    BY <2>3, <2>4, <2>7, <2>8
<1> QED
  BY <1>6, <1>7

(* The inductive invariant: it holds at the first reading, ...             *)
LEMMA AverageInit ==
    ASSUME Assumptions, ReaderAssumption, ReaderInit
    PROVE  AverageInv
<1>1. /\ asked_at = now /\ now \in Nat /\ sample = price_cumulative_last
      /\ owed = [i \in Assets |-> 0]
  BY DEF ReaderInit, PairInit, UsedPair, AmpInit, Assumptions, AmpAssumption
<1>2. price_cumulative_last \in [Assets -> Nat]
  BY ReaderInitInv DEF PairInv, PairTypeOK, LedgerTypeOK, U128
<1>3. ReaderTypeOK
  BY <1>1, <1>2 DEF ReaderTypeOK
<1>4. ASSUME Readable PROVE Reading = price_cumulative_last
  <2>1. CASE PairInit
    <3>1. \A i \in Assets : reserve[i] = 0
      BY <2>1 DEF PairInit
    <3> QED
      BY <1>4, <3>1 DEF Reading, UpToDate, Readable, Assets
  <2>2. CASE UsedPair
    BY <1>1, <2>2 DEF UsedPair, AmpInit, Reading, UpToDate
  <2> QED
    BY <2>1, <2>2 DEF ReaderInit
<1>5. ASSUME Readable, NEW i \in Assets PROVE Accounted(i)
  <2>1. /\ 0 \in owed[i] .. owed[i] + (now - asked_at) /\ 0 \in Int
        /\ Reading[i] - sample[i] = 0 + 0 * (MaxU128 + 1)
    BY <1>1, <1>2, <1>4, <1>5 DEF Assumptions, MathAssumption
  <2> QED
    BY <2>1 DEF Accounted, Wrapped
<1> QED
  BY <1>3, <1>5 DEF AverageInv

(* A step that changes neither the reading nor what the reader keeps.      *)
LEMMA AverageSame ==
    ASSUME AverageInv, UNCHANGED <<asked_at, sample, owed>>, now' = now,
           steady' => steady /\ Reading' = Reading
    PROVE  AverageInv'
<1>1. ReaderTypeOK'
  BY DEF AverageInv, ReaderTypeOK
<1>2. ASSUME steady', Readable', NEW i \in Assets PROVE Accounted(i)'
  <2>1. Readable /\ steady /\ Reading' = Reading
    BY <1>2 DEF Readable
  <2> QED
    BY <2>1 DEF AverageInv, Accounted, Wrapped
<1> QED
  BY <1>1, <1>2 DEF AverageInv

(* (Two differences, one after the other.)                                 *)
LEMMA TwoSteps ==
    ASSUME NEW a \in Int, NEW b \in Int, NEW c \in Int, NEW d \in Int,
           NEW e \in Int, NEW k \in Int, NEW l \in Int, a - b = c + l
    PROVE  a + d + e + k - b = (c + d + e) + (k + l)
  OBVIOUS

LEMMA AverageStep ==
    ASSUME Assumptions, PairInv, AverageInv, [ReaderNext]_readVars
    PROVE  AverageInv'
<1> USE DEF PairInv
<1>1. Reading' = NextReading
  BY DEF Reading, NextReading
<1>2. CASE Ask
  <2>1. /\ asked_at' = now /\ sample' = Reading /\ owed' = [i \in Assets |-> 0]
        /\ now' = now /\ Reading' = Reading /\ now \in Nat /\ Readable
    BY <1>2 DEF Ask, Reading, CurrentAmp, pairVars, ledgerVars, oracleVars, ampVars, rampVars,
                PairTypeOK, AmpTypeOK, Assumptions, AmpAssumption
  <2>2. Reading \in [Assets -> Nat]
    BY <2>1, ReadingType
  <2>3. ReaderTypeOK'
    BY <2>1, <2>2 DEF ReaderTypeOK
  <2>4. ASSUME NEW i \in Assets PROVE Accounted(i)'
    <3>1. /\ 0 \in owed'[i] .. owed'[i] + (now' - asked_at') /\ 0 \in Int
          /\ Reading'[i] - sample'[i] = 0 + 0 * (MaxU128 + 1)
      BY <2>1, <2>2 DEF Assumptions, MathAssumption
    <3> QED
      BY <3>1 DEF Accounted, Wrapped
  <2> QED
    BY <2>3, <2>4 DEF AverageInv
<1>3. ASSUME now' = now, UNCHANGED <<asked_at, sample, owed>>,
             steady' => steady /\ (reserve' = reserve \/ block_time_last' = now)
      PROVE  AverageInv'
  BY <1>1, <1>3, ReadingStableStep, AverageSame
<1>4. CASE AccountActs
  <2>1. now' = now
    <3>1. ASSUME NEW sender \in Accounts, Donation(sender) \/ LpCall(sender) \/ Call(sender)
          PROVE  now' = now
      BY <3>1, CallKeepsAmp DEF ampVars, Donation, Donate, LpCall, TransferLp, BurnLp
    <3> QED
      BY <1>4, <3>1 DEF AccountActs
  <2>2. ASSUME NEW sender \in Accounts, Call(sender), UNCHANGED steady
        PROVE  AverageInv'
    BY <1>1, <1>4, <2>1, <2>2, CallSavesReading, AverageSame DEF AccountActs
  <2>3. ASSUME NEW sender \in Accounts, LpCall(sender), UNCHANGED steady
        PROVE  AverageInv'
    BY <1>3, <1>4, <2>1, <2>3 DEF AccountActs, LpCall, TransferLp, BurnLp
  <2>4. ASSUME NEW sender \in Accounts, Donation(sender),
               steady' = (steady /\ block_time_last = now)
        PROVE  AverageInv'
    BY <1>3, <1>4, <2>1, <2>4 DEF AccountActs, Donation, Donate, oracleVars
  <2> QED
    BY <1>4, <2>2, <2>3, <2>4 DEF AccountActs
<1>5. CASE OwnerActs
  BY <1>3, <1>5 DEF OwnerActs, UpdateConfig, readerVars, ledgerVars, StartChangingAmp, StopChangingAmp, RampFrom
<1>6. CASE UNCHANGED readVars
  BY <1>3, <1>6 DEF readVars, readerVars, pairVars, ledgerVars, ampVars
<1>7. CASE SecondPasses
  <2>1. /\ now' = now + 1 /\ UNCHANGED <<asked_at, sample>>
        /\ owed' = [i \in Assets |-> owed[i] + PriceOfSecond(i)]
        /\ now \in Nat
        /\ \A i \in Assets : PriceOfSecond(i) \in Nat
    <3>1. now \in Nat
      BY DEF PairTypeOK, AmpTypeOK, Assumptions, AmpAssumption
    <3>2. \A i \in Assets : PriceOfSecond(i) \in Nat
      BY <1>7, PriceType DEF SecondPasses, PriceOfSecond, Optional
    <3> QED
      BY <1>7, <3>1, <3>2 DEF SecondPasses, NextBlock, Tick
  <2>2. ReaderTypeOK'
    BY <2>1 DEF AverageInv, ReaderTypeOK
  <2>3. ASSUME steady', Readable', NEW i \in Assets PROVE Accounted(i)'
    <3>1. steady /\ CurrentAmp' = CurrentAmp
      BY <1>7, <2>3 DEF SecondPasses
    <3>2. Readable
      BY <1>7, <2>3, <3>1, ReadingGrows
    <3>3. PICK r \in 0 .. 1 : Wrapped(Reading'[i], Reading[i] + PriceOfSecond(i) + r)
      BY <1>7, <2>3, <3>1, ReadingGrows
    <3>4. PICK sum \in owed[i] .. owed[i] + (now - asked_at) :
             Wrapped(Reading[i] - sample[i], sum)
      BY <3>1, <3>2 DEF AverageInv, Accounted
    <3>5. PICK k \in Int : Reading'[i] = Reading[i] + PriceOfSecond(i) + r + k * (MaxU128 + 1)
      BY <3>3 DEF Wrapped
    <3>6. PICK l \in Int : Reading[i] - sample[i] = sum + l * (MaxU128 + 1)
      BY <3>4 DEF Wrapped
    <3>7. /\ Reading[i] \in Nat /\ sample[i] \in Nat /\ owed[i] \in Nat
          /\ PriceOfSecond(i) \in Nat /\ asked_at \in Nat /\ MaxU128 \in Nat
      BY <2>1, <3>2, ReadingType DEF AverageInv, ReaderTypeOK, Assumptions, MathAssumption
    <3> DEFINE s == sum + PriceOfSecond(i) + r
    <3>8. /\ Reading'[i] - sample'[i] = s + (k + l) * (MaxU128 + 1) /\ k + l \in Int
      <4>1. PICK m \in Nat, price \in Nat, now_read \in Nat, first_read \in Nat :
               /\ m = MaxU128 + 1 /\ price = PriceOfSecond(i)
               /\ now_read = Reading[i] /\ first_read = sample[i]
        BY <3>7
      <4>2. PICK km \in Int, lm \in Int :
               km = k * m /\ lm = l * m /\ (k + l) * m = km + lm
        BY <3>5, <3>6, <4>1
      <4>3. /\ now_read - first_read = sum + lm
            /\ now_read \in Int /\ first_read \in Int /\ price \in Int
            /\ sum \in Int /\ r \in Int /\ km \in Int /\ lm \in Int
        BY <3>3, <3>4, <3>6, <3>7, <4>1, <4>2
      <4>4. now_read + price + r + km - first_read = (sum + price + r) + (km + lm)
        BY <4>3, TwoSteps
      <4>5. sample'[i] = first_read /\ Reading'[i] = now_read + price + r + km
        BY <2>1, <3>5, <4>1, <4>2
      <4>6. (k + l) * (MaxU128 + 1) = km + lm /\ s = sum + price + r
        BY <4>1, <4>2
      <4> QED
        BY <3>5, <3>6, <4>4, <4>5, <4>6
    <3>9. s \in owed'[i] .. owed'[i] + (now' - asked_at')
      BY <2>1, <3>3, <3>4, <3>7
    <3> HIDE DEF s
    <3> QED
      BY <3>8, <3>9 DEF Accounted, Wrapped
  <2> QED
    BY <2>2, <2>3 DEF AverageInv
<1> QED
  BY <1>2, <1>4, <1>5, <1>6, <1>7 DEF ReaderNext

(* ... and modulo 2^128 it is the property.                                *)
LEMMA AverageInvImplies ==
    ASSUME Assumptions, PairInv, AverageInv
    PROVE  AverageOfPrices
<1>1. SUFFICES ASSUME steady, Readable, NEW i \in Assets
               PROVE  \E sum \in owed[i] .. owed[i] + (now - asked_at) :
                         Difference(Reading[i], sample[i]) = sum % (MaxU128 + 1)
  BY DEF AverageOfPrices
<1>2. PICK sum \in owed[i] .. owed[i] + (now - asked_at), k \in Int :
         Reading[i] - sample[i] = sum + k * (MaxU128 + 1)
  BY <1>1 DEF AverageInv, Accounted, Wrapped
<1>3. /\ Reading[i] - sample[i] \in Int /\ MaxU128 + 1 \in Nat \ {0}
      /\ sum \in Int
  BY <1>1, <1>2, ReadingType DEF AverageInv, ReaderTypeOK, PairInv, Assumptions, MathAssumption
<1>4. (Reading[i] - sample[i]) % (MaxU128 + 1) = sum % (MaxU128 + 1)
  BY <1>2, <1>3, SameRemainder
<1> QED
  BY <1>2, <1>4 DEF Difference

(* What a client takes for the time-weighted average is one: for every     *)
(* pair, every amplification and any number of wraps, the difference of    *)
(* two readings is the sum of the prices of the seconds in between, each   *)
(* rounded up or down.                                                     *)
THEOREM ReaderGetsAverage == ReaderSpec => []AverageOfPrices
<1>1. ReaderInit => AverageInv
  BY AverageInit, AssumptionsHold, ReaderAssumption
<1>2. PairInv /\ AverageInv /\ [ReaderNext]_readVars => AverageInv'
  BY AverageStep, AssumptionsHold
<1>3. PairInv /\ AverageInv => AverageOfPrices
  BY AverageInvImplies, AssumptionsHold
<1> QED
  BY <1>1, <1>2, <1>3, ReaderInvariant, PTL DEF ReaderSpec, readVars
=============================================================================
