---------------------------- MODULE CurveLockstep ----------------------------
(***************************************************************************)
(* The contracts' arithmetic and the Python simulator side by side: both   *)
(* begin with the same pool and fee and see the same sales.  The test      *)
(* swap_simulation of the pair runs the simulator's cases without judging  *)
(* the outcome; here every pool, series of sales and amplification of a    *)
(* small instance is judged.                                               *)
(***************************************************************************)
EXTENDS StableMath

CONSTANTS
    FEE_BASE, MaxPasses,
    StartPools,         \* bound: the balances both begin with
    SaleAmounts,        \* bound: the amounts sold
    Amps,               \* bound: amplifications, in whole units
    MaxSales,           \* bound: sales in a row
    LeastBalance,       \* bound: no sale takes a balance below
    Supply              \* LP tokens outstanding when a deposit is judged

Simulator == INSTANCE Curve

VARIABLES
    amp,                \* the amplification of both, in whole units
    pool,               \* the reserves of the pair
    simulated,          \* the balances of the simulator
    sales               \* how many sales were made

lockstepVars == <<amp, pool, simulated, sales>>

Coins == Simulator!Coins

(* The same fee: compute_global_fee for the pair, self.fee for the model.  *)
SimulatorFee == (FEE_BASE * GLOBAL_FEE_NUMERATOR) \div GLOBAL_FEE_DENOMINATOR

(* What the pair pays for amount of coin i.                                *)
Paid(i, amount) ==
    ComputeSwap(pool[i], 0, pool[1 - i], 0, amount, amp * AMP_PRECISION).return_amount

LockstepInit ==
    /\ amp \in Amps
    /\ pool \in [Coins -> StartPools]
    /\ simulated = pool
    /\ sales = 0

Sell(i, amount) ==
    /\ sales < MaxSales
    /\ Paid(i, amount) > 0
    /\ pool[1 - i] - Paid(i, amount) >= LeastBalance
    /\ Simulator!dy(amp, simulated, i, amount) > 0
    /\ pool' = [pool EXCEPT ![i] = @ + amount, ![1 - i] = @ - Paid(i, amount)]
    /\ simulated' = Simulator!exchange(amp, SimulatorFee, simulated, i, amount).pool
    /\ sales' = sales + 1
    /\ UNCHANGED amp

LockstepNext == \E i \in Coins, amount \in SaleAmounts : Sell(i, amount)

LockstepSpec == LockstepInit /\ [][LockstepNext]_lockstepVars

-----------------------------------------------------------------------------
(* The pair does not drift away from its reference: after any series of    *)
(* sales in both directions the two pools differ by at most two units per  *)
(* sale, although they round, shift divisors and stop iterating            *)
(* differently, and the simulator itself always comes to an answer.  The   *)
(* two units are a fact of pools filled as in StartPools: the more uneven  *)
(* a pool, the further the two solvers are apart.                          *)
FollowsSimulator ==
    \A i \in Coins : Simulator!Distance(pool[i], simulated[i]) <= 2 * sales

(* What a one-sided deposit mints, as in provide_liquidity.                *)
MintedBySum(deposit) ==         \* slip: the growth of the sum, not of D
    MultiplyRatio(Supply, deposit, pool[0] + pool[1])

Minted(deposit) ==
    LET leverage == Leverage(amp * AMP_PRECISION)
        before == ComputeD(leverage, pool[0], pool[1])
        after == ComputeD(leverage, pool[0] + deposit, pool[1])
    IN  MultiplyRatio(Supply, after \ominus before, before)

(* A deposit of one coin gains nothing by itself: the simulator values the *)
(* LP tokens that the pair mints for it, taken out again in the same coin  *)
(* and without a fee, at no more than the deposit (two units of rounding   *)
(* aside).  What the other coin of a proportional withdrawal is worth is   *)
(* not judged here.                                                        *)
DepositWorthItself ==
    \A deposit \in SaleAmounts :
        LET share == Minted(deposit)
            funded == [pool EXCEPT ![0] = @ + deposit]
        IN  share > 0 =>
              Simulator!calc_withdraw_one_coin(amp, funded, Supply + share, share, 0)
                  <= deposit + 2

(* Nor is a withdrawal: for the assets that the pair refunds the simulator *)
(* would charge no more LP tokens than were burnt (one unit of rounding    *)
(* aside), even if it took its imbalance fee.                              *)
RefundNotOverpaid ==
    \A burnt \in SaleAmounts :
        LET refund == [i \in Coins |-> ShareInAsset(pool[i], burnt, Supply)]
        IN  Simulator!remove_liquidity_imbalance(amp, SimulatorFee, pool, Supply, refund)
                <= burnt + 1
=============================================================================
