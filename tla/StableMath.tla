----------------------------- MODULE StableMath -----------------------------
(***************************************************************************)
(* The arithmetic of a stable pair: the StableSwap invariant and its two   *)
(* solvers (contracts/pair/src/math.rs) and the quotes built from them     *)
(* (contracts/pair/src/utils.rs).                                          *)
(*                                                                         *)
(* Rust computes with fixed widths and answers None, an error or a panic   *)
(* when a result does not fit, a subtraction goes below zero or a divisor  *)
(* is zero.  All three abort the transaction, because every caller unwraps *)
(* or propagates and the build checks overflows; so all three are the one  *)
(* value None here, and every operation that meets None yields None.       *)
(***************************************************************************)
EXTENDS StableParameters

CONSTANTS
    MaxU128,                \* 2^128 - 1 in the code
    MaxU256,                \* 2^256 - 1 in the code
    DECIMAL_ONE,            \* the value 1 of a Decimal: 10^18 in the code
    PRECISION_BASE,         \* 10: a token of precision p has 10^p units
    MaxPrecision,           \* the largest precision: 255, a u8
    GLOBAL_FEE_NUMERATOR,
    GLOBAL_FEE_DENOMINATOR,
    DEFAULT_SLIPPAGE,       \* as Decimals
    MAX_ALLOWED_SLIPPAGE

ASSUME MathAssumption ==
    /\ MaxU128 \in Nat \ {0}
    /\ MaxU256 \in Nat
    /\ MaxU128 * MaxU128 <= MaxU256
    /\ DECIMAL_ONE \in Nat \ {0}
    /\ DECIMAL_ONE <= MaxU128
    /\ PRECISION_BASE \in Nat \ {0, 1}
    /\ MaxPrecision \in Nat
    /\ \A p \in 0 .. MaxPrecision : PRECISION_BASE ^ p \in Nat \ {0}
    /\ PRECISION_BASE ^ 0 = 1       \* so it is; the provers know no power
    /\ GLOBAL_FEE_NUMERATOR \in Nat
    /\ GLOBAL_FEE_DENOMINATOR \in Nat \ {0}
    /\ GLOBAL_FEE_NUMERATOR < GLOBAL_FEE_DENOMINATOR
    /\ DEFAULT_SLIPPAGE \in Nat
    /\ MAX_ALLOWED_SLIPPAGE \in Nat

None == -1
U128 == 0 .. MaxU128
U256 == 0 .. MaxU256

-----------------------------------------------------------------------------
(* The checked operations of U256.  Overflow is tested before the product  *)
(* is formed.                                                              *)
a \oplus b == IF None \in {a, b} \/ a > MaxU256 - b THEN None ELSE a + b
a \ominus b == IF None \in {a, b} \/ a < b THEN None ELSE a - b
a \otimes b == IF None \in {a, b} \/ (b # 0 /\ a > MaxU256 \div b) THEN None ELSE a * b
a \oslash b == IF None \in {a, b} \/ b = 0 THEN None ELSE a \div b

(* Conversion to u128, which fails when the value does not fit.            *)
ToU128(v) == IF v \in U128 THEN v ELSE None

(* Uint128::saturating_sub                                                 *)
SaturatingSub(a, b) == IF a > b THEN a - b ELSE 0

(* Uint128 * Decimal, Decimal::from_ratio and Uint128::multiply_ratio: the *)
(* product has 256 bits, the quotient is rounded down and must fit in 128. *)
MultiplyRatio(v, n, d) == ToU128((v \otimes n) \oslash d)
TimesDecimal(v, dec) == MultiplyRatio(v, dec, DECIMAL_ONE)
DecimalRatio(n, d) == MultiplyRatio(n, DECIMAL_ONE, d)

(* Newton's method as the code runs it: the function step is applied from  *)
(* first on, at most ITERATIONS times, until a value repeats (or cannot be *)
(* computed).                                                              *)
Newton(step, first) ==
    LET iterate[k \in 1 .. ITERATIONS] == [v \in Nat |->
            LET next == step[v]
            IN  IF k = ITERATIONS \/ next \in {v, None} THEN next ELSE iterate[k + 1][next]]
    IN  iterate[1][first]

-----------------------------------------------------------------------------
(* Operators marked "slip" are no part of the model: each is the operator  *)
(* after it with a plausible mistake, which the runs must notice.          *)

(* calculate_step: the next approximation of D from d, where d_product is  *)
(* d^3 / ((2a + 1)(2b + 1)).                                               *)
CalculateStep(d, leverage, sum_x, d_product) ==
    LET l_val == ((((leverage \otimes sum_x) \oslash AMP_PRECISION)
                      \oplus (d_product \otimes N_COINS)) \otimes d)
        r_val == ((d \otimes (leverage \ominus AMP_PRECISION)) \oslash AMP_PRECISION)
                      \oplus (d_product \otimes (N_COINS + 1))
    IN  l_val \oslash r_val

DProductOfOneAsset(d, a, b) ==      \* slip: amount_a for both divisors
    (((d \otimes d) \oslash (N_COINS * a + 1)) \otimes d) \oslash (N_COINS * a + 1)

DProductRoot(d, a, b) ==            \* slip: one power of d is lost
    ((d \otimes d) \oslash (N_COINS * a + 1)) \oslash (N_COINS * b + 1)

DProduct(d, a, b) ==
    (((d \otimes d) \oslash (N_COINS * a + 1)) \otimes d) \oslash (N_COINS * b + 1)

(* One pass of the loop of compute_d.                                      *)
ImproveD(leverage, a, b, d) == CalculateStep(d, leverage, a + b, DProduct(d, a, b))

(* compute_d: the invariant D of a pool that holds a and b.                *)
ComputeD(leverage, a, b) ==
    LET sum_x == ToU128(a \oplus b)
        step == [d \in Nat |-> ImproveD(leverage, a, b, d)]
    IN  CASE None \in {a, b, sum_x} -> None
          [] sum_x = 0 -> 0
          [] OTHER -> ToU128(Newton(step, sum_x))

(***************************************************************************)
(* What the solvers stand for, in exact arithmetic: the equation in the    *)
(* comment on compute_d, free of divisions, as an inequality.  A pool that *)
(* holds a and b is on or above the curve of the invariant d.              *)
(***************************************************************************)
OnCurve(leverage, a, b, d) ==
    AMP_PRECISION * (d * (d * d))
        <= (4 * (a * b)) * (leverage * (a + b) - (leverage - AMP_PRECISION) * d)

(* compute_new_balance: the other side of a pool with invariant d whose    *)
(* one side is x.                                                          *)
ComputeNewBalance(leverage, x, d) ==
    LET c == (((d \otimes d) \otimes d) \otimes AMP_PRECISION)
                \oslash ((x \otimes N_COINS_SQUARED) \otimes leverage)
        b == x \oplus ((d \otimes AMP_PRECISION) \oslash leverage)
        step == [y \in Nat |->
                    ((y \otimes y) \oplus c) \oslash (((y \oplus y) \oplus b) \ominus d)]
    IN  IF None \in {b, c} THEN None ELSE ToU128(Newton(step, d))

Leverage(amp) == amp * N_COINS

(* calc_ask_amount: what offer_amount buys, fee not deducted.              *)
CalcAskAmountPlainAmp(offer_pool, ask_pool, offer_amount, amp) ==    \* slip: D for amp
    ask_pool \ominus ComputeNewBalance(Leverage(amp), offer_pool + offer_amount,
                                      ComputeD(amp, offer_pool, ask_pool))

CalcAskAmountAfter(offer_pool, ask_pool, offer_amount, amp) ==       \* slip: D after the offer
    ask_pool \ominus ComputeNewBalance(Leverage(amp), offer_pool,
                        ComputeD(Leverage(amp), offer_pool + offer_amount, ask_pool))

CalcAskAmount(offer_pool, ask_pool, offer_amount, amp) ==
    LET d == ComputeD(Leverage(amp), offer_pool, ask_pool)
        new_offer_pool == ToU128(offer_pool \oplus offer_amount)
    IN  ask_pool \ominus ComputeNewBalance(Leverage(amp), new_offer_pool, d)

(* calc_offer_amount: what ask_amount costs, fee not added.                *)
CalcOfferAmountInAsk(offer_pool, ask_pool, ask_amount, amp) ==       \* slip: wrong pool
    ComputeNewBalance(Leverage(amp), ask_pool \ominus ask_amount,
                      ComputeD(Leverage(amp), offer_pool, ask_pool)) \ominus ask_pool

CalcOfferAmount(offer_pool, ask_pool, ask_amount, amp) ==
    LET d == ComputeD(Leverage(amp), offer_pool, ask_pool)
        new_ask_pool == ask_pool \ominus ask_amount
    IN  ComputeNewBalance(Leverage(amp), new_ask_pool, d) \ominus offer_pool

-----------------------------------------------------------------------------
(* adjust_precision: the amount v of a token with precision p in the units *)
(* of precision q.                                                         *)
AdjustPrecision(v, p, q) ==
    IF p <= q
    THEN ToU128(v \otimes PRECISION_BASE ^ (q - p))
    ELSE v \oslash (PRECISION_BASE ^ (p - q))

Greater(p, q) == IF p > q THEN p ELSE q

GlobalFee == DecimalRatio(GLOBAL_FEE_NUMERATOR, GLOBAL_FEE_DENOMINATOR)

(* A quote is the triple the two functions below return; it is void when   *)
(* the computation of any of its parts failed.                             *)
Void(quote) == \E f \in DOMAIN quote : quote[f] = None

(* compute_swap: sell offer_amount to a pool.                              *)
ComputeSwap(offer_pool, offer_precision, ask_pool, ask_precision, offer_amount, amp) ==
    LET greater == Greater(offer_precision, ask_precision)
        offer == AdjustPrecision(offer_amount, offer_precision, greater)
        swapped == CalcAskAmount(AdjustPrecision(offer_pool, offer_precision, greater),
                                 AdjustPrecision(ask_pool, ask_precision, greater),
                                 offer, amp)
        commission == TimesDecimal(swapped, GlobalFee)
        spread == IF None \in {offer, swapped} THEN None ELSE SaturatingSub(offer, swapped)
        InAsk(v) == AdjustPrecision(v, greater, ask_precision)
    IN  [return_amount |-> InAsk(swapped \ominus commission),
         spread_amount |-> InAsk(spread),
         commission_amount |-> InAsk(commission)]

(* The amount of which ask_amount is left when the fee has been taken.     *)
BeforeCommissionAdded(ask_amount) ==        \* slip: the fee of ask_amount is added
    TimesDecimal(ask_amount, DECIMAL_ONE + GlobalFee)

BeforeCommission(ask_amount) ==
    TimesDecimal(ask_amount, DecimalRatio(DECIMAL_ONE, DECIMAL_ONE - GlobalFee))

(* compute_offer_amount: the sale that ComputeSwap answers with ask_amount.*)
ComputeOfferAmount(offer_pool, offer_precision, ask_pool, ask_precision, ask_amount, amp) ==
    LET greater == Greater(offer_precision, ask_precision)
        before_commission == BeforeCommission(AdjustPrecision(ask_amount, ask_precision, greater))
        offer == CalcOfferAmount(AdjustPrecision(offer_pool, offer_precision, greater),
                                 AdjustPrecision(ask_pool, ask_precision, greater),
                                 before_commission, amp)
        spread == IF None \in {offer, before_commission} THEN None
                  ELSE SaturatingSub(offer, before_commission)
        InAsk(v) == AdjustPrecision(v, greater, ask_precision)
    IN  [offer_amount |-> AdjustPrecision(offer, greater, offer_precision),
         spread_amount |-> InAsk(spread),
         commission_amount |-> InAsk(TimesDecimal(before_commission, GlobalFee))]

(***************************************************************************)
(* assert_max_spread: whether a sale is within the trader's limit.  Both   *)
(* belief_price and max_spread may be None, an absent option.              *)
(***************************************************************************)
WithinMaxSpreadOperandsSwapped(belief_price, max_spread, offer_amount, return_amount, spread_amount) ==
    LET limit == IF max_spread = None THEN DEFAULT_SLIPPAGE ELSE max_spread     \* slip
        expected == TimesDecimal(offer_amount, DecimalRatio(DECIMAL_ONE, belief_price))
    IN  belief_price # None => DecimalRatio(SaturatingSub(return_amount, expected), expected) <= limit

WithinMaxSpread(belief_price, max_spread, offer_amount, return_amount, spread_amount) ==
    LET limit == IF max_spread = None THEN DEFAULT_SLIPPAGE ELSE max_spread
        expected == TimesDecimal(offer_amount, DecimalRatio(DECIMAL_ONE, belief_price))
        WithinLimit(ratio) == ratio # None /\ ratio <= limit
    IN  /\ limit <= MAX_ALLOWED_SLIPPAGE
        /\ IF belief_price = None
           THEN WithinLimit(DecimalRatio(spread_amount, ToU128(return_amount \oplus spread_amount)))
           ELSE /\ expected # None
                /\ \/ return_amount >= expected
                   \/ WithinLimit(DecimalRatio(expected - return_amount, expected))

(* get_share_in_assets: what amount out of total_share LP tokens stands    *)
(* for in a pool of size pool.                                             *)
ShareInAssetRoundedUp(pool, amount, total_share) ==     \* slip
    TimesDecimal(pool, IF total_share = 0 THEN 0 ELSE DecimalRatio(amount, total_share)) + 1

ShareInAssetAfterBurn(pool, amount, total_share) ==     \* slip: the supply without amount
    TimesDecimal(pool, IF total_share = amount THEN DECIMAL_ONE
                       ELSE DecimalRatio(amount, total_share - amount))

ShareInAsset(pool, amount, total_share) ==
    TimesDecimal(pool, IF total_share = 0 THEN 0 ELSE DecimalRatio(amount, total_share))

(* The integer square root, for the LP tokens of the first deposit.        *)
IntegerSqrt(v) == CHOOSE r \in U128 : r * r <= v /\ v < (r + 1) * (r + 1)
=============================================================================
