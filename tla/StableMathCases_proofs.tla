----------------------- MODULE StableMathCases_proofs -----------------------
(***************************************************************************)
(* What compute_d promises, for every grid of pools and every value of the *)
(* other constants.                                                        *)
(***************************************************************************)
EXTENDS StableMathCases, StableMath_proofs

(* A case is a case.                                                       *)
CasesTypeOK ==
    /\ x \in Lowest .. MaxReserve
    /\ y \in Lowest .. MaxReserve
    /\ amount \in Nat
    /\ amp \in CaseAmps

LEMMA CasesTypeCorrect == CasesSpec => []CasesTypeOK
<1>1. CasesInit => CasesTypeOK
  BY CasesAssumption, GridAssumption
  DEF CasesInit, CasesTypeOK, CasesAssumption, GridAssumption
<1>2. CasesTypeOK /\ [CasesNext]_caseVars => CasesTypeOK'
  BY CasesAssumption
  DEF CasesTypeOK, CasesNext, LargerX, LargerY, LargerAmount, caseVars, CasesAssumption
<1> QED
  BY <1>1, <1>2, PTL DEF CasesSpec

(* In no case does compute_d answer less than the exact invariant.         *)
THEOREM DAlwaysReachesCurve == CasesSpec => []DReachesCurve
<1>1. CasesTypeOK => DReachesCurve
  <2>1. SUFFICES ASSUME CasesTypeOK, D(x, y) # None,
                        NEW d \in 0 .. x + y, OnCurve(Leverage(amp), x, y, d)
                 PROVE  d <= D(x, y)
    BY DEF DReachesCurve
  <2>2. x \in Nat /\ y \in Nat /\ d \in Nat /\ Leverage(amp) \in Nat
    BY <2>1, CasesAssumption DEF CasesTypeOK, CasesAssumption, Leverage, N_COINS
  <2> QED
    BY <2>1, <2>2, DNotBelow, MathAssumption, ParameterAssumption DEF D
<1> QED
  BY <1>1, CasesTypeCorrect, PTL

(* In no case is a reverse quote below the exact curve.                    *)
THEOREM QuotesStayOnCurve == CasesSpec => []QuoteOnCurve
<1>1. CasesTypeOK => QuoteOnCurve
  <2> SUFFICES ASSUME CasesTypeOK, CalcOfferAmount(x, y, amount, amp) # None,
                      NEW d \in 0 .. x + y, OnCurve(Leverage(amp), x, y, d)
               PROVE  OnCurve(Leverage(amp), x + CalcOfferAmount(x, y, amount, amp) + 1,
                              y - amount, d)
    BY DEF QuoteOnCurve
  <2>1. x \in Nat /\ y \in Nat /\ amount \in Nat /\ amp \in Nat /\ d \in Nat
    BY CasesAssumption DEF CasesTypeOK, CasesAssumption
  <2> QED
    BY <2>1, OfferKeepsCurve, MathAssumption, ParameterAssumption
<1> QED
  BY <1>1, CasesTypeCorrect, PTL

(* In every case compute_d answers between the constant-product value and  *)
(* the constant-sum value of the pool.                                     *)
THEOREM DAlwaysBetweenMeans == CasesSpec => []DBetweenMeans
<1>1. CasesTypeOK => DBetweenMeans
  <2> SUFFICES ASSUME CasesTypeOK PROVE DBetweenMeans
    OBVIOUS
  <2> DEFINE lev == Leverage(amp)
             R == 2 * MaxReserve
             S == x + y
  <2>1. /\ x \in Nat /\ y \in Nat /\ x >= 10 /\ y >= 10
        /\ S \in Nat /\ R \in Nat /\ S <= R /\ R <= MaxU128
    BY CasesAssumption, GridAssumption
    DEF CasesTypeOK, CasesAssumption, GridAssumption
  <2>2. lev \in Nat /\ 2 * AMP_PRECISION <= lev /\ (lev + R) * (R * R) <= MaxU256
    <3>1. amp \in Nat /\ AMP_PRECISION <= amp /\ (lev + R) * (R * R) <= MaxU256
      BY CasesAssumption, GridAssumption DEF CasesTypeOK, CasesAssumption, GridAssumption
    <3> QED
      BY <3>1, ParameterAssumption DEF Leverage, N_COINS, ParameterAssumption
  <2> HIDE DEF lev
  <2>3. (lev + S) * (S * S) <= MaxU256
    <3>1. S * S <= R * R /\ S * S \in Nat /\ R * R \in Nat
      BY <2>1, MonotoneSquare
    <3> HIDE DEF S, R
    <3>2. (lev + S) * (S * S) <= (lev + R) * (S * S) /\ (lev + S) * (S * S) \in Nat
      BY <2>1, <2>2, <3>1, ProductMonotone
    <3>3. (lev + R) * (S * S) <= (lev + R) * (R * R) /\ (lev + R) * (S * S) \in Nat
          /\ (lev + R) * (R * R) \in Nat
      BY <2>1, <2>2, <3>1, ProductMonotone
    <3> QED
      BY <2>2, <3>2, <3>3, MathAssumption DEF MathAssumption
  <2>4. S <= MaxU128
    BY <2>1, MathAssumption DEF MathAssumption
  <2> DEFINE d == ComputeD(lev, x, y)
  <2>5. d \in Nat /\ 4 * (x * y) <= d * d /\ d <= x + y
    BY <2>1, <2>2, <2>3, <2>4, DBetween, MathAssumption, ParameterAssumption
  <2>6. D(x, y) = d
    BY DEF D, lev
  <2> HIDE DEF d
  <2>7. 4 * x * y = 4 * (x * y)
    BY <2>1
  <2> QED
    BY <2>5, <2>6, <2>7 DEF DBetweenMeans, None
<1> QED
  BY <1>1, CasesTypeCorrect, PTL
=============================================================================
