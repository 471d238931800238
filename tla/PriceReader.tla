----------------------------- MODULE PriceReader -----------------------------
(***************************************************************************)
(* A client of the price oracle beside the accounts that use the pair.  It *)
(* asks for the cumulative prices at some block time, asks again later and *)
(* divides the difference by the time between: the accumulators are there  *)
(* for nothing else.  What it should get is kept beside what it gets: owed *)
(* adds up the price of every second since the first reading.              *)
(*                                                                         *)
(* The pair is a new one, or one that has been used for so long that its   *)
(* accumulators are about to wrap around.                                  *)
(***************************************************************************)
EXTENDS PairCalls

CONSTANTS
    UsedReserve, UsedSupply,    \* a pair in use: its reserves and LP tokens
    UsedPrices                  \* and what its accumulators may hold

ASSUME ReaderAssumption ==
    /\ UsedReserve \in [Assets -> Nat \ {0}]
    /\ UsedSupply \in U128
    /\ UsedPrices \subseteq [Assets -> U128]

VARIABLES
    asked_at, sample,       \* the block time and the answer of the first reading
    owed,                   \* [Assets -> Nat]: the prices of the seconds since
    steady                  \* nothing moved the price behind the oracle's back

readerVars == <<asked_at, sample, owed, steady>>

(* query_cumulative_prices: what was saved, brought up to date with the    *)
(* price of the pool as the query finds it.                                *)
UpToDateAsSaved(time, amp, pools, last, saved) == saved     \* slip: it is not

UpToDate(time, amp, pools, last, saved) ==
    IF time <= last THEN saved
    ELSE IF \E i \in Assets : Adjusted(pools, i, OraclePrecision) = None
    THEN [i \in Assets |-> None]
    ELSE IF \E i \in Assets : pools[i] = 0 THEN saved
    ELSE [i \in Assets |->
            LET gain == PriceTimes(pools, i, time - last, amp)
            IN  IF gain = None THEN None ELSE WrappingAdd(saved[i], gain)]

Reading == UpToDate(now, CurrentAmp, reserve, block_time_last, price_cumulative_last)

Readable == \A i \in Assets : Reading[i] # None

(* The price of asset i during the second that begins now: that of one     *)
(* whole token, and none while a side is empty.                            *)
PriceOfSecond(i) ==
    IF \E j \in Assets : reserve[j] = 0 THEN 0 ELSE PriceTimesElapsed(reserve, i, now - 1)

-----------------------------------------------------------------------------
UsedPair ==
    /\ AmpInit
    /\ reserve = UsedReserve
    /\ wallet = [a \in Accounts |-> InitialWallet]
    /\ lp = [a \in Accounts |-> IF a = Owner THEN UsedSupply ELSE 0]
    /\ total_supply = UsedSupply
    /\ block_time_last = StartTime
    /\ price_cumulative_last \in UsedPrices

ReaderInit ==
    /\ PairInit \/ UsedPair
    /\ asked_at = StartTime
    /\ sample = price_cumulative_last
    /\ owed = [i \in Assets |-> 0]
    /\ steady = TRUE
    /\ calls = 0

(* The reader starts over with a new first reading.                        *)
Ask ==
    /\ asked_at < now
    /\ Readable
    /\ asked_at' = now
    /\ sample' = Reading
    /\ owed' = [i \in Assets |-> 0]
    /\ steady' = TRUE
    /\ UNCHANGED <<pairVars, calls>>

(* Assets that arrive without a call change the price of the seconds that  *)
(* are not accounted for yet.                                              *)
AccountActs ==
    /\ CountCall
    /\ \E sender \in Accounts :
          \/ (Call(sender) \/ LpCall(sender)) /\ UNCHANGED steady
          \/ Donation(sender) /\ steady' = (steady /\ block_time_last = now)
    /\ UNCHANGED <<asked_at, sample, owed>>

OwnerActs ==
    /\ \E sender \in Accounts : UpdateConfig(sender)
    /\ UNCHANGED <<readerVars, calls>>

(* A second passes at the price of the pool as the block left it.  A ramp  *)
(* under way moves the price without a call.                               *)
SecondPasses ==
    /\ NextBlock
    /\ \A i \in Assets : PriceOfSecond(i) # None
    /\ owed' = [i \in Assets |-> owed[i] + PriceOfSecond(i)]
    /\ steady' = (steady /\ CurrentAmp' = CurrentAmp)
    /\ UNCHANGED <<asked_at, sample, calls>>

ReaderNext == Ask \/ AccountActs \/ OwnerActs \/ SecondPasses

ReaderSpec == ReaderInit /\ [][ReaderNext]_<<pairVars, readerVars, calls>>

-----------------------------------------------------------------------------
(* The difference of two readings, which the reader takes modulo 2^128 as  *)
(* the accumulators wrap around.                                           *)
Difference(later, earlier) == (later - earlier) % (MaxU128 + 1)

(* A time-weighted average: the difference of two readings is the sum of   *)
(* the prices of the seconds in between, each rounded up or down, however  *)
(* trades, deposits, withdrawals and the first deposit of all lie in       *)
(* between, whichever calls accumulate, and also across wraps.             *)
AverageOfPrices ==
    steady /\ Readable =>
        \A i \in Assets : \E sum \in owed[i] .. owed[i] + (now - asked_at) :
            Difference(Reading[i], sample[i]) = sum % (MaxU128 + 1)

(* Within a block a call changes no reading: what query_cumulative_prices  *)
(* answers is what the next call will save, and stays so (until assets     *)
(* that arrive without a call in a block not accounted for).               *)
ReadingStable ==
    [][now' = now /\ (reserve' = reserve \/ block_time_last' = now) =>
         UpToDate(now', CurrentAmp', reserve', block_time_last', price_cumulative_last')
           = Reading]_<<pairVars, readerVars, calls>>

(* A cumulative price cumulates: a reading is never behind an earlier one. *)
CumulativeNeverFalls ==
    Readable =>
        \A i \in Assets : Difference(Reading[i], sample[i]) <= MaxU128 \div 2
=============================================================================
