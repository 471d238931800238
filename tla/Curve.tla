-------------------------------- MODULE Curve --------------------------------
(***************************************************************************)
(* The reference that the contracts were tuned against: the class Curve of *)
(* curve_simulator, a Python model of a pool with two coins whose target   *)
(* prices are one.  Its integers have no width, its amplification no       *)
(* fractional part, its divisors no "+ 1", and its iterations end as soon  *)
(* as a value moves by no more than one.  A pool x is a function from the  *)
(* coins 0 and 1 to their balances.                                        *)
(***************************************************************************)
EXTENDS Integers

CONSTANTS
    FEE_BASE,           \* 10^10: a fee is a fraction of it
    MaxPasses           \* bound: a loop that has not ended by then never does

Coins == {0, 1}
n == 2

NoAnswer == -1          \* of a loop that does not end

Distance(a, b) == IF a < b THEN b - a ELSE a - b
Total(x) == x[0] + x[1]

(* while abs(v - previous) > 1, with v starting at first.                  *)
Settle(Step(_), first) ==
    LET pass[k \in 0 .. MaxPasses, previous \in Int, v \in Int] ==
            IF Distance(v, previous) <= 1 THEN v
            ELSE IF k = MaxPasses THEN NoAnswer
            ELSE pass[k + 1, v, Step(v)]
    IN  pass[0, 0, first]

(* D: the invariant of the pool.                                           *)
D(A, x) ==
    LET Ann == A * n
        D_P(d) == (((d * d) \div (n * x[0])) * d) \div (n * x[1])
        Step(d) == ((Ann * Total(x) + D_P(d) * n) * d)
                       \div ((Ann - 1) * d + (n + 1) * D_P(d))
    IN  Settle(Step, Total(x))

(* y_D: the balance of one coin when the other is other and the invariant  *)
(* is d.                                                                   *)
y_D(A, other, d) ==
    LET Ann == A * n
        c == (((d * d) \div (other * n)) * d) \div (n * Ann)
        b == other + d \div Ann
        Step(v) == (v * v + c) \div (2 * v + b - d)
    IN  Settle(Step, d)

(* y: the balance of coin j once coin i has been brought to xi.            *)
y(A, x, xi) == y_D(A, xi, D(A, x))

(* dy and exchange: what selling dx of coin i pays, and the pool after.    *)
dy(A, x, i, dx) == x[1 - i] - y(A, x, x[i] + dx)

exchange(A, fee, x, i, dx) ==
    LET sold == dy(A, x, i, dx)
        kept == (sold * fee) \div FEE_BASE
    IN  [pays |-> sold - kept,
         pool |-> [x EXCEPT ![i] = @ + dx, ![1 - i] = @ - sold + kept]]

(* remove_liquidity_imbalance: the tokens that amounts cost.  A fee is due *)
(* on what each balance deviates from its proportional reduction.          *)
remove_liquidity_imbalance(A, fee, x, tokens, amounts) ==
    LET left == [i \in Coins |-> x[i] - amounts[i]]
        D0 == D(A, x)
        D1 == D(A, left)
        half == (fee * n) \div (4 * (n - 1))
        charged == [i \in Coins |->
            left[i] - (half * Distance((D1 * x[i]) \div D0, left[i])) \div FEE_BASE]
    IN  ((D0 - D(A, charged)) * tokens) \div D0

(* calc_withdraw_one_coin without a fee: what token_amount of tokens is    *)
(* worth when it is taken out in coin i alone.                             *)
calc_withdraw_one_coin(A, x, tokens, token_amount, i) ==
    LET D0 == D(A, x)
        D1 == D0 - (token_amount * D0) \div tokens
    IN  x[i] - y_D(A, x[1 - i], D1)
=============================================================================
