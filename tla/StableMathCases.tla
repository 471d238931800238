--------------------------- MODULE StableMathCases ---------------------------
(***************************************************************************)
(* What the formulas of StableMath promise, over every pool and amount of  *)
(* a grid: a state is one case (the reserves x and y of a pool of equal    *)
(* precisions, an amount and an amplification), a step moves to a          *)
(* neighbouring case.                                                      *)
(***************************************************************************)
EXTENDS StableMath

CONSTANTS
    Lowest,         \* bound: smallest reserve and smallest amount of the grid
    MaxReserve,     \* bound: largest reserve
    MaxAmount,      \* bound: largest amount
    CaseAmps,       \* the amplifications of the grid
    Factors,        \* bound: how much fuller the sides of an uneven pool are
    Precisions      \* bound: the precisions of its assets

ASSUME CasesAssumption ==
    /\ Lowest \in Nat
    /\ MaxReserve \in Nat
    /\ MaxAmount \in Nat
    /\ CaseAmps \subseteq Nat
    /\ Factors \subseteq Nat
    /\ Precisions \subseteq 0 .. MaxPrecision

(* The pools that DBetweenMeans is about: no reserve is tiny, compared     *)
(* with the ones that are added to the divisors of D, the products of two  *)
(* reserves and the amplification leave room in 256 bits, and the          *)
(* amplification is at least one.                                          *)
ASSUME GridAssumption ==
    /\ Lowest >= 10
    /\ Lowest <= MaxReserve
    /\ 2 * MaxReserve <= MaxU128
    /\ \A a \in CaseAmps :
          /\ AMP_PRECISION <= a
          /\ (Leverage(a) + 2 * MaxReserve) * ((2 * MaxReserve) * (2 * MaxReserve)) <= MaxU256

VARIABLES x, y, amount, amp

caseVars == <<x, y, amount, amp>>

CasesInit ==
    /\ x = Lowest
    /\ y = Lowest
    /\ amount = 0
    /\ amp \in CaseAmps

LargerX == x < MaxReserve /\ x' = x + 1 /\ UNCHANGED <<y, amount, amp>>
LargerY == y < MaxReserve /\ y' = y + 1 /\ UNCHANGED <<x, amount, amp>>
LargerAmount == amount < MaxAmount /\ amount' = amount + 1 /\ UNCHANGED <<x, y, amp>>

CasesNext == LargerX \/ LargerY \/ LargerAmount

CasesSpec == CasesInit /\ [][CasesNext]_caseVars

-----------------------------------------------------------------------------
D(a, b) == ComputeD(Leverage(amp), a, b)

Sell(offer_pool, ask_pool, offer) == ComputeSwap(offer_pool, 0, ask_pool, 0, offer, amp)

(* compute_d answers on the whole grid, and although its Newton iteration  *)
(* may oscillate instead of reaching a fixed point, the answer lies where  *)
(* the invariant of a stable pool must lie: between the constant-product   *)
(* value 2 * sqrt(x * y) and the constant-sum value x + y.                 *)
DBetweenMeans ==
    /\ D(x, y) # None
    /\ 4 * x * y <= D(x, y) * D(x, y)
    /\ D(x, y) <= x + y

(* compute_d never answers less than the exact invariant of the pool: no   *)
(* curve that the pool is on or above belongs to a larger one, whatever    *)
(* its divisions round down and wherever its iteration stops.              *)
DReachesCurve ==
    D(x, y) # None =>
        \A d \in 0 .. x + y : OnCurve(Leverage(amp), x, y, d) => d <= D(x, y)

(* A reverse simulation never names an offer below the exact curve: with   *)
(* one unit more than it asks for, the pool is, after the exchange, on     *)
(* each curve that it was on, however far rounding and the two iterations  *)
(* are from the solutions.                                                 *)
QuoteOnCurve ==
    LET offer == CalcOfferAmount(x, y, amount, amp)
    IN  offer # None =>
            \A d \in 0 .. x + y :
                OnCurve(Leverage(amp), x, y, d)
                    => OnCurve(Leverage(amp), x + offer + 1, y - amount, d)

(* The two divisions by the reserves inside compute_d are done one after   *)
(* the other: the order of the assets shifts D by at most two units, in    *)
(* pools as evenly filled as those of the grid (it shifts D by more in     *)
(* very uneven ones).                                                      *)
DSymmetric ==
    /\ D(x, y) - D(y, x) <= 2
    /\ D(y, x) - D(x, y) <= 2

(* Selling an amount and selling the proceeds back at once never returns   *)
(* more than the amount, as soon as both sales pay a commission of a unit: *)
(* both computations round in the trader's favour, in an unbalanced pool   *)
(* by several units, and the fee must make up for it.                      *)
RoundTripLoses ==
    LET sale == Sell(x, y, amount)
        back == Sell(y - sale.return_amount, x + amount, sale.return_amount)
    IN  ~Void(sale) /\ sale.commission_amount > 0 /\ ~Void(back) /\ back.commission_amount > 0
            => back.return_amount <= amount

(* ask of an asset, quoted by a reverse simulation, and the sales that it  *)
(* is to predict, of one unit more and of one unit less than the quote.    *)
QuoteMeets(offer_pool, offer_precision, ask_pool, ask_precision, ask) ==
    LET quote == ComputeOfferAmount(offer_pool, offer_precision, ask_pool, ask_precision, ask, amp)
        Sale(offer) ==
            ComputeSwap(offer_pool, offer_precision, ask_pool, ask_precision, offer, amp)
        more == Sale(quote.offer_amount + 1)
        less == Sale(quote.offer_amount - 1)
    IN  ~Void(quote) =>
            /\ ~Void(more) => ask <= more.return_amount + 1 + ask \div DECIMAL_ONE
            /\ quote.offer_amount > 0 /\ ~Void(less) => less.return_amount <= ask

(* A reverse simulation is exact to the unit of the offer: with one unit   *)
(* more than it names the sale returns the amount asked for (but for one   *)
(* unit, the rounding of the commission, and one in every DECIMAL_ONE, the *)
(* rounding of the inverse fee), and with one unit less no more than it.   *)
(* That unit matters: the named offer is rounded down, and when a unit of  *)
(* the offer is worth many of what is asked for, in an uneven pool or      *)
(* between different precisions, it buys too little by as many.  So either *)
(* side of the pool is made larger here, the amount with it, and both are  *)
(* counted in any two precisions (only the difference counts: one is 0).   *)
QuoteInvertsSale ==
    \A f \in Factors, g \in Factors, p \in Precisions, q \in Precisions :
        LET greater == Greater(p, q)
        IN  0 \in {p, q} =>
                QuoteMeets(AdjustPrecision(f * x, greater, p), p,
                           AdjustPrecision(g * y, greater, q), q,
                           AdjustPrecision(g * amount, greater, q))

(* A larger sale never returns less: splitting rounding does not make the  *)
(* price curve fold back.                                                  *)
SaleMonotone ==
    LET sale == Sell(x, y, amount)
        larger == Sell(x, y, amount + 1)
    IN  ~Void(sale) /\ ~Void(larger) => sale.return_amount <= larger.return_amount
=============================================================================
