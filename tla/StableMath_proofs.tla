-------------------------- MODULE StableMath_proofs --------------------------
(***************************************************************************)
(* Lemmas about the arithmetic of a stable pair: the checked operations,   *)
(* Newton's method, and what the two solvers answer.  Nothing is assumed   *)
(* of the number of passes or of where they lead: what a solver answers is *)
(* one step away from a point of any set that its steps do not leave, and  *)
(* the lemmas bound what a step can make of such a point.                  *)
(***************************************************************************)
EXTENDS StableMath, AmpRamp_proofs, NaturalsInduction, WellFoundedInduction

Optional == Nat \cup {None}

-----------------------------------------------------------------------------
(* Arithmetic.                                                             *)

(* A positive factor can be cancelled.                                     *)
LEMMA CancelFactor ==
    ASSUME NEW a \in Nat, NEW b \in Nat, NEW c \in Nat \ {0}, c * a <= c * b
    PROVE  a <= b
<1>1. SUFFICES ASSUME b + 1 <= a PROVE FALSE
  OBVIOUS
<1>2. c * (b + 1) <= c * a
  BY <1>1, ProductMonotone
<1> QED
  BY <1>2

(* A product with a positive factor is strictly monotone.                  *)
LEMMA StrictProduct ==
    ASSUME NEW a \in Nat, NEW b \in Nat, a < b, NEW c \in Nat, c > 0
    PROVE  c * a < c * b
<1>1. c * (a + 1) <= c * b
  BY ProductMonotone
<1> QED
  BY <1>1

(* The checked operations on optional naturals yield optional naturals.    *)
LEMMA CheckedTypes ==
    ASSUME NEW a \in Optional, NEW b \in Optional
    PROVE  /\ a \oplus b \in Optional
           /\ a \ominus b \in Optional
           /\ a \otimes b \in Optional
           /\ a \oslash b \in Optional
<1> USE DEF Optional, None
<1>1. a \oplus b \in Optional /\ a \ominus b \in Optional
  BY DEF \oplus, \ominus
<1>2. a \otimes b \in Optional
  <2>1. CASE None \in {a, b} \/ (b # 0 /\ a > MaxU256 \div b)
    BY <2>1 DEF \otimes
  <2>2. CASE ~(None \in {a, b} \/ (b # 0 /\ a > MaxU256 \div b))
    <3>1. a \in Nat /\ b \in Nat /\ a \otimes b = a * b
      BY <2>2 DEF \otimes
    <3> QED
      BY <3>1, ProductMonotone
  <2> QED
    BY <2>1, <2>2
<1>3. a \oslash b \in Optional
  <2>1. CASE None \in {a, b} \/ b = 0
    BY <2>1 DEF \oslash
  <2>2. CASE ~(None \in {a, b} \/ b = 0)
    <3>1. a \in Nat /\ b \in Nat \ {0} /\ a \oslash b = a \div b
      BY <2>2 DEF \oslash
    <3> QED
      BY <3>1, DivisionFacts
  <2> QED
    BY <2>1, <2>2
<1> QED
  BY <1>1, <1>2, <1>3

(* What ToU128 returns, and what is not None is in range.                  *)
LEMMA ToU128Type ==
    ASSUME MathAssumption, NEW v
    PROVE  /\ ToU128(v) \in Optional
           /\ ToU128(v) # None => ToU128(v) = v /\ v \in U128 /\ v \in Nat
  BY DEF ToU128, U128, Optional, None, MathAssumption

(* The units of a precision are a positive number.                         *)
LEMMA UnitsPositive ==
    ASSUME MathAssumption, NEW p \in 0 .. MaxPrecision, NEW q \in 0 .. MaxPrecision
    PROVE  /\ p <= q => PRECISION_BASE ^ (q - p) \in Nat \ {0}
           /\ ~(p <= q) => PRECISION_BASE ^ (p - q) \in Nat \ {0}
<1>1. /\ p <= q => q - p \in 0 .. MaxPrecision
      /\ ~(p <= q) => p - q \in 0 .. MaxPrecision
  BY DEF MathAssumption
<1> QED
  BY <1>1 DEF MathAssumption

(* Changing the precision of an amount: a result is None or a natural      *)
(* number, and nothing stays nothing.                                      *)
LEMMA AdjustType ==
    ASSUME MathAssumption, NEW v \in Optional,
           NEW p \in 0 .. MaxPrecision, NEW q \in 0 .. MaxPrecision
    PROVE  /\ AdjustPrecision(v, p, q) \in Optional
           /\ v = 0 => AdjustPrecision(v, p, q) = 0
<1>1. CASE p <= q
  <2> DEFINE u == PRECISION_BASE ^ (q - p)
  <2>1. u \in Nat \ {0}
    BY <1>1, UnitsPositive
  <2>2. AdjustPrecision(v, p, q) = ToU128(v \otimes u)
    BY <1>1 DEF AdjustPrecision
  <2> HIDE DEF u
  <2>3. v = 0 => v \otimes u = 0
    <3>1. MaxU256 \div u \in Nat
      BY <2>1, DivisionFacts DEF MathAssumption
    <3> QED
      BY <2>1, <3>1 DEF \otimes, None
  <2> QED
    BY <2>2, <2>3, ToU128Type DEF ToU128, U128, MathAssumption
<1>2. CASE ~(p <= q)
  <2> DEFINE u == PRECISION_BASE ^ (p - q)
  <2>1. u \in Nat \ {0}
    BY <1>2, UnitsPositive
  <2>2. AdjustPrecision(v, p, q) = v \oslash u
    BY <1>2 DEF AdjustPrecision
  <2> HIDE DEF u
  <2>3. v = 0 => v \oslash u = 0
    <3>1. 0 \div u \in Nat /\ (0 \div u) * u <= 0
      BY <2>1, DivisionFacts
    <3>2. 0 \div u = 0
      BY <2>1, <3>1
    <3> QED
      BY <2>1, <3>2 DEF \oslash, None
  <2>4. v \oslash u \in Optional
    BY <2>1, CheckedTypes DEF Optional
  <2> QED
    BY <2>2, <2>3, <2>4
<1> QED
  BY <1>1, <1>2

LEMMA MultiplyRatioType ==
    ASSUME MathAssumption, NEW v, NEW n, NEW d
    PROVE  MultiplyRatio(v, n, d) \in Optional
  BY ToU128Type DEF MultiplyRatio

(* The other side of a pool cannot be computed from an empty side: the     *)
(* division by it fails.                                                   *)
LEMMA NewBalanceOfNothing ==
    ASSUME MathAssumption, NEW leverage \in Nat, NEW d
    PROVE  ComputeNewBalance(leverage, 0, d) = None
<1>1. MaxU256 \div N_COINS_SQUARED \in Nat
  BY DivisionFacts DEF N_COINS_SQUARED, MathAssumption
<1>2. 0 \otimes N_COINS_SQUARED = 0
  BY <1>1 DEF \otimes, None, N_COINS_SQUARED
<1>3. 0 \otimes leverage = 0
  <2>1. CASE leverage = 0
    BY <2>1 DEF \otimes, None
  <2>2. CASE leverage # 0
    <3>1. MaxU256 \div leverage \in Nat
      BY <2>2, DivisionFacts DEF MathAssumption
    <3> QED
      BY <3>1 DEF \otimes, None
  <2> QED
    BY <2>1, <2>2
<1>4. (((d \otimes d) \otimes d) \otimes AMP_PRECISION)
          \oslash ((0 \otimes N_COINS_SQUARED) \otimes leverage) = None
  BY <1>2, <1>3 DEF \oslash
<1> QED
  BY <1>4 DEF ComputeNewBalance

LEMMA NewBalanceType ==
    ASSUME MathAssumption, NEW leverage, NEW x, NEW d
    PROVE  ComputeNewBalance(leverage, x, d) \in Optional
  BY ToU128Type DEF ComputeNewBalance, Optional

-----------------------------------------------------------------------------
(* Newton's method.                                                        *)

(* A set of naturals with 0 and the successor of each of its elements is   *)
(* all of them: induction, with a set in the place of a predicate.         *)
LEMMA SetInduction ==
    ASSUME NEW S, 0 \in S, \A n \in Nat : n \in S => n + 1 \in S
    PROVE  Nat \subseteq S
<1> DEFINE Less == {ss \in Nat \X Nat : ss[1] < ss[2]}
           rest == Nat \ S
<1>1. IsWellFoundedOn(Less, Nat)
  BY NatLessThanWellFounded, Zenon DEF OpToRel
<1>2. \A m, n \in Nat : <<m, n>> \in Less <=> m < n
  OBVIOUS
<1> HIDE DEF Less
<1>3. SUFFICES ASSUME rest # {} PROVE FALSE
  OBVIOUS
<1>4. PICK n \in rest : \A m \in rest : ~(<<m, n>> \in Less)
  BY <1>1, <1>3, WFMin
<1>5. n # 0 /\ n \in Nat /\ n - 1 \in Nat /\ n - 1 < n
  BY <1>4
<1>6. n - 1 \in S
  BY <1>2, <1>4, <1>5
<1> QED
  BY <1>4, <1>5, <1>6, n - 1 + 1 = n

(* The k-th pass of Newton's method, and the value it returns, satisfy the *)
(* recursive definition: such a function exists.                           *)
Pass(step, next_pass, k, v) ==
    IF k = ITERATIONS \/ step[v] \in {v, None} THEN step[v] ELSE next_pass[k + 1][step[v]]

IsIterate(step, f) == f = [k \in 1 .. ITERATIONS |-> [v \in Nat |-> Pass(step, f, k, v)]]

LEMMA IterateExists ==
    ASSUME NEW step \in [Nat -> Optional]
    PROVE  \E f : IsIterate(step, f)
<1> DEFINE Right(f, j) == \A k \in 1 .. ITERATIONS, v \in Nat :
                              k + j >= ITERATIONS => f[k][v] = Pass(step, f, k, v)
           S == {j \in Nat : \E f : Right(f, j)}
<1>1. 0 \in S
  <2> DEFINE f == [k \in 1 .. ITERATIONS |-> [v \in Nat |-> step[v]]]
  <2>1. \A k \in 1 .. ITERATIONS, v \in Nat : f[k][v] = step[v]
    OBVIOUS
  <2>2. Right(f, 0)
    BY <2>1 DEF Pass, ITERATIONS
  <2> QED
    BY <2>2
<1>2. ASSUME NEW j \in Nat, j \in S
      PROVE  j + 1 \in S
  <2>1. PICK f : Right(f, j)
    BY <1>2
  <2> DEFINE g == [k \in 1 .. ITERATIONS |-> [v \in Nat |->
                      IF k + j >= ITERATIONS THEN f[k][v] ELSE Pass(step, f, k, v)]]
  <2>2. \A k \in 1 .. ITERATIONS, v \in Nat :
            g[k][v] = IF k + j >= ITERATIONS THEN f[k][v] ELSE Pass(step, f, k, v)
    OBVIOUS
  <2> HIDE DEF g
  <2>3. ASSUME NEW k \in 1 .. ITERATIONS, NEW v \in Nat, k + (j + 1) >= ITERATIONS
        PROVE  g[k][v] = Pass(step, g, k, v)
    <3>1. g[k][v] = Pass(step, f, k, v)
      BY <2>1, <2>2
    <3>2. k # ITERATIONS /\ step[v] # None => g[k + 1][step[v]] = f[k + 1][step[v]]
      <4>1. SUFFICES ASSUME k # ITERATIONS, step[v] # None
                     PROVE  g[k + 1][step[v]] = f[k + 1][step[v]]
        OBVIOUS
      <4>2. k + 1 \in 1 .. ITERATIONS /\ (k + 1) + j >= ITERATIONS /\ step[v] \in Nat
        BY <2>3, <4>1 DEF ITERATIONS, Optional
      <4> QED
        BY <2>2, <4>2
    <3> QED
      BY <3>1, <3>2 DEF Pass
  <2>4. Right(g, j + 1)
    BY <2>3
  <2> QED
    BY <2>4
<1>3. ITERATIONS \in S
  <2> HIDE DEF S
  <2>1. Nat \subseteq S
    BY <1>1, <1>2, SetInduction
  <2> QED
    BY <2>1 DEF ITERATIONS
<1>4. PICK f : Right(f, ITERATIONS)
  BY <1>3
<1> DEFINE g == [k \in 1 .. ITERATIONS |-> [v \in Nat |-> f[k][v]]]
<1>5. \A k \in 1 .. ITERATIONS, v \in Nat : g[k][v] = f[k][v]
  OBVIOUS
<1> HIDE DEF g
<1>6. ASSUME NEW k \in 1 .. ITERATIONS, NEW v \in Nat
      PROVE  f[k][v] = Pass(step, g, k, v)
  <2>1. f[k][v] = Pass(step, f, k, v)
    BY <1>4 DEF ITERATIONS
  <2>2. k # ITERATIONS /\ step[v] # None => k + 1 \in 1 .. ITERATIONS /\ step[v] \in Nat
    BY DEF ITERATIONS, Optional
  <2>3. k # ITERATIONS /\ step[v] # None => g[k + 1][step[v]] = f[k + 1][step[v]]
    BY <1>5, <2>2
  <2> QED
    BY <2>1, <2>3 DEF Pass
<1>7. IsIterate(step, g)
  BY <1>6 DEF IsIterate, g
<1> QED
  BY <1>7

(* What Newton's method answers is one step away from a point of any set   *)
(* that contains the first value and that no step leaves.                  *)
LEMMA NewtonAnswer ==
    ASSUME NEW step \in [Nat -> Optional], NEW V \in SUBSET Nat, NEW first \in V,
           \A v \in V : step[v] # None => step[v] \in V
    PROVE  \E v \in V : Newton(step, first) = step[v]
<1> DEFINE iterate == CHOOSE f : IsIterate(step, f)
           S == {j \in Nat : \A k \in 1 .. ITERATIONS, v \in V :
                     k + j >= ITERATIONS => \E u \in V : iterate[k][v] = step[u]}
<1>1. Newton(step, first) = iterate[1][first]
  BY DEF Newton, IsIterate, Pass
<1>2. IsIterate(step, iterate)
  BY IterateExists
<1> HIDE DEF iterate
<1>3. \A k \in 1 .. ITERATIONS, v \in Nat : iterate[k][v] = Pass(step, iterate, k, v)
  <2>1. iterate = [k \in 1 .. ITERATIONS |-> [v \in Nat |-> Pass(step, iterate, k, v)]]
    BY <1>2 DEF IsIterate
  <2>2. \A k \in 1 .. ITERATIONS : iterate[k] = [v \in Nat |-> Pass(step, iterate, k, v)]
    BY <2>1, Zenon
  <2> QED
    BY <2>2
<1>4. 0 \in S
  <2>1. \A k \in 1 .. ITERATIONS, v \in V :
            k + 0 >= ITERATIONS => iterate[k][v] = step[v]
    BY <1>3 DEF Pass, ITERATIONS
  <2> QED
    BY <2>1
<1>5. ASSUME NEW j \in Nat, j \in S
      PROVE  j + 1 \in S
  <2>1. ASSUME NEW k \in 1 .. ITERATIONS, NEW v \in V, k + (j + 1) >= ITERATIONS
        PROVE  \E u \in V : iterate[k][v] = step[u]
    <3>1. CASE k = ITERATIONS \/ step[v] \in {v, None}
      BY <1>3, <3>1 DEF Pass
    <3>2. CASE ~(k = ITERATIONS \/ step[v] \in {v, None})
      <4>1. /\ k + 1 \in 1 .. ITERATIONS /\ (k + 1) + j >= ITERATIONS
            /\ step[v] \in V
        BY <2>1, <3>2 DEF ITERATIONS
      <4>2. iterate[k][v] = iterate[k + 1][step[v]]
        <5>1. iterate[k][v] = Pass(step, iterate, k, v)
          BY <1>3
        <5> QED
          BY <3>2, <5>1 DEF Pass
      <4>3. \A m \in 1 .. ITERATIONS, w \in V :
                m + j >= ITERATIONS => \E u \in V : iterate[m][w] = step[u]
        BY <1>5
      <4>4. \E u \in V : iterate[k + 1][step[v]] = step[u]
        BY <4>1, <4>3
      <4> QED
        BY <4>2, <4>4
    <3> QED
      BY <3>1, <3>2
  <2> QED
    BY <2>1
<1>6. ITERATIONS \in S
  <2> HIDE DEF S
  <2>1. Nat \subseteq S
    BY <1>4, <1>5, SetInduction
  <2> QED
    BY <2>1 DEF ITERATIONS
<1> QED
  BY <1>1, <1>6 DEF ITERATIONS

-----------------------------------------------------------------------------
(* The curve.                                                              *)

(* A checked operation that answers has met no None and computed exactly.  *)
LEMMA CheckedAnswer ==
    ASSUME MathAssumption, NEW a \in Optional, NEW b \in Optional
    PROVE  /\ a \oplus b # None => a \in Nat /\ b \in Nat /\ a \oplus b = a + b
           /\ a \ominus b # None => a \in Nat /\ b \in Nat /\ b <= a /\ a \ominus b = a - b
           /\ a \otimes b # None => a \in Nat /\ b \in Nat /\ a \otimes b = a * b
           /\ a \oslash b # None =>
                 a \in Nat /\ b \in Nat \ {0} /\ a \oslash b = a \div b
<1> USE DEF Optional, None
<1>1. a \oplus b # None => a \in Nat /\ b \in Nat /\ a \oplus b = a + b
  BY DEF \oplus
<1>2. a \ominus b # None => a \in Nat /\ b \in Nat /\ b <= a /\ a \ominus b = a - b
  BY DEF \ominus
<1>3. a \otimes b # None => a \in Nat /\ b \in Nat /\ a \otimes b = a * b
  BY DEF \otimes
<1>4. a \oslash b # None => a \in Nat /\ b \in Nat \ {0} /\ a \oslash b = a \div b
  BY DEF \oslash
<1> QED
  BY <1>1, <1>2, <1>3, <1>4

(* The product of two numbers is at most the square of their mean.         *)
LEMMA MeansSquared ==
    ASSUME NEW a \in Int, NEW b \in Int
    PROVE  4 * (a * b) <= (a + b) * (a + b)
<1>1. (a - b) * (a - b) >= 0
  BY SMT
<1> QED
  BY <1>1, SMT

(* An inequality can be scaled by a natural number.                        *)
LEMMA Scale ==
    ASSUME NEW a \in Int, NEW b \in Int, a <= b, NEW c \in Nat
    PROVE  /\ c * a <= c * b
           /\ a * c <= b * c
  BY SMT

(* A cube lies above its tangents.                                         *)
LEMMA CubeAboveTangent ==
    ASSUME NEW w \in Nat, NEW v \in Nat
    PROVE  3 * (w * (v * v)) <= w * (w * w) + 2 * (v * (v * v))
<1>1. (w - v) * (w - v) \in Nat /\ w + 2 * v \in Nat
  BY SMT
<1>2. ((w - v) * (w - v)) * (w + 2 * v) >= 0
  BY <1>1, SMT
<1>3. ((w - v) * (w - v)) * (w + 2 * v) = w * (w * w) - 3 * (w * (v * v)) + 2 * (v * (v * v))
  BY SMT
<1> QED
  BY <1>2, <1>3, SMT

(* What a value w that a step from v does not reach satisfies, the rounded *)
(* quotients N and Q replaced by their exact values.                       *)
LEMMA ImprovedValue ==
    ASSUME NEW A \in Nat \ {0}, NEW lev \in Nat, A <= lev, NEW S \in Nat, NEW v \in Nat,
           NEW N \in Nat, NEW Q \in Nat, NEW P \in Nat, NEW w \in Nat,
           lev * S < A * N + A,
           A * Q <= v * (lev - A),
           (N + 2 * P) * v < w * (Q + 3 * P)
    PROVE  v * (lev * S - (lev - A) * w) + v + A <= (A * P) * (3 * w - 2 * v) + A * v
<1>1. (N + 2 * P) * v + 1 <= w * (Q + 3 * P)
  BY SMT
<1>2. A * ((N + 2 * P) * v + 1) <= A * (w * (Q + 3 * P))
  BY <1>1, ProductMonotone, SMT
<1>3. A * ((N + 2 * P) * v + 1) = v * (A * N) + 2 * ((A * P) * v) + A
  BY SMT
<1>4. A * (w * (Q + 3 * P)) = w * (A * Q) + 3 * ((A * P) * w)
  BY SMT
<1>5. w * (A * Q) <= w * (v * (lev - A))
  BY Scale
<1>6. v * (lev * S - A + 1) <= v * (A * N)
  BY Scale
<1>7. v * (lev * S - A + 1) = v * (lev * S) - A * v + v
  BY SMT
<1>8. v * (lev * S - (lev - A) * w) = v * (lev * S) - w * (v * (lev - A))
  BY SMT
<1>9. (A * P) * (3 * w - 2 * v) = 3 * ((A * P) * w) - 2 * ((A * P) * v)
  BY SMT
<1> QED
  BY <1>2, <1>3, <1>4, <1>5, <1>6, <1>7, <1>8, <1>9, SMT

(* Such a w, up to the sum S of the reserves, is above the invariant of    *)
(* the pool, X standing for four times the product of the reserves.        *)
LEMMA AboveCurveWithinSum ==
    ASSUME NEW A \in Nat \ {0}, NEW lev \in Nat, A <= lev, NEW S \in Nat, S >= 2,
           NEW X \in Nat, X <= S * S,
           NEW v \in Nat, NEW P \in Nat, NEW w \in Nat, w <= S,
           P * (X + 2 * S + 1) <= v * (v * v),
           v * (lev * S - (lev - A) * w) + v + A <= (A * P) * (3 * w - 2 * v) + A * v
    PROVE  X * (lev * S - (lev - A) * w) < A * (w * (w * w))
<1> DEFINE T == lev * S - (lev - A) * w
           t == 3 * w - 2 * v
           R == P * t
           C == v * (v * v)
           G == w * (w * w)
<1>1. T \in Int /\ t \in Int /\ R \in Int /\ C \in Nat /\ G \in Nat
  BY ProductMonotone, SMT
<1>2. v * T + v + A <= A * R + A * v
  <2>1. (A * P) * t = A * R
    BY SMT
  <2> QED
    BY <2>1, SMT
<1>3. A * S <= T
  <2>1. T = A * S + (lev - A) * (S - w)
    BY SMT
  <2>2. (lev - A) * (S - w) >= 0
    BY SMT
  <2> QED
    BY <2>1, <2>2, SMT
<1>4. R >= v * (S - 1) + 1
  <2>1. v * (A * S) <= v * T
    BY <1>1, <1>3, Scale, SMT
  <2>2. v * (A * S) - A * v = A * (v * (S - 1))
    BY SMT
  <2> HIDE DEF T, R
  <2>3. A * (v * (S - 1)) + v + A <= A * R
    BY <1>1, <1>2, <2>1, <2>2, SMT
  <2>4. A * (v * (S - 1) + 1) <= A * R
    <3>1. A * (v * (S - 1) + 1) = A * (v * (S - 1)) + A
      BY SMT
    <3> QED
      BY <1>1, <2>3, <3>1, SMT
  <2>5. SUFFICES ASSUME R + 1 <= v * (S - 1) + 1 PROVE FALSE
    BY <1>1, SMT
  <2>6. A * (R + 1) <= A * (v * (S - 1) + 1)
    BY <1>1, <2>5, Scale, SMT
  <2> QED
    BY <1>1, <2>4, <2>6, SMT
<1>5. t \in Nat
  <2>1. SUFFICES ASSUME t <= 0 PROVE FALSE
    BY <1>1, SMT
  <2>2. P * t <= 0
    BY <1>1, <2>1, SMT
  <2>3. v * (S - 1) >= 0
    BY SMT
  <2> QED
    BY <1>4, <2>2, <2>3, SMT
<1>6. C * t <= v * G
  <2>1. v * (3 * (w * (v * v))) <= v * (G + 2 * C)
    <3>1. 3 * (w * (v * v)) <= G + 2 * C
      BY CubeAboveTangent
    <3> QED
      BY <1>1, <3>1, Scale, SMT
  <2>2. v * (3 * (w * (v * v))) = 3 * (C * w)
    BY SMT
  <2>3. C * t = 3 * (C * w) - 2 * (C * v)
    BY SMT
  <2>4. v * (G + 2 * C) = v * G + 2 * (C * v)
    BY SMT
  <2> QED
    BY <2>1, <2>2, <2>3, <2>4, <1>1, SMT
<1>7. X * R + (2 * S + 1) * R <= C * t
  <2>1. (P * (X + 2 * S + 1)) * t <= C * t
    BY <1>1, <1>5, Scale, SMT
  <2>2. (P * (X + 2 * S + 1)) * t = X * R + (2 * S + 1) * R
    BY <1>1, SMT
  <2> QED
    BY <2>1, <2>2
<1>8. X * v - X < (2 * S + 1) * R
  <2>1. (2 * S + 1) * (v * (S - 1) + 1) <= (2 * S + 1) * R
    BY <1>1, <1>4, Scale, SMT
  <2>2. (2 * S + 1) * (v * (S - 1) + 1) = (2 * (S * S) - S - 1) * v + 2 * S + 1
    BY SMT
  <2>3. 2 * S <= S * S
    BY ProductMonotone
  <2>4. (S * S) * v <= (2 * (S * S) - S - 1) * v
    BY <2>3, Scale, SMT
  <2>5. X * v <= (S * S) * v
    BY ProductMonotone, SMT
  <2> QED
    BY <2>1, <2>2, <2>4, <2>5, <1>1, SMT
<1>9. v * (X * T) < v * (A * G)
  <2>1. X * (v * T + v + A) <= X * (A * R + A * v)
    BY <1>1, <1>2, Scale, SMT
  <2>2. X * (v * T + v + A) = v * (X * T) + X * v + A * X
    BY <1>1, SMT
  <2>3. X * (A * R + A * v) = A * (X * R) + A * (X * v)
    BY <1>1, SMT
  <2>4. A * (X * R + (2 * S + 1) * R) <= A * (v * G)
    BY <1>1, <1>6, <1>7, Scale, SMT
  <2>5. A * (X * R + (2 * S + 1) * R) = A * (X * R) + A * ((2 * S + 1) * R)
    BY <1>1, SMT
  <2>6. A * (X * v - X + 1) <= A * ((2 * S + 1) * R)
    BY <1>1, <1>8, Scale, SMT
  <2>7. A * (X * v - X + 1) = A * (X * v) - A * X + A
    BY SMT
  <2>8. A * (v * G) = v * (A * G)
    BY <1>1, SMT
  <2>9. X * v >= 0
    BY ProductMonotone
  <2> HIDE DEF T, G, R
  <2> QED
    BY <1>1, <2>1, <2>2, <2>3, <2>4, <2>5, <2>6, <2>7, <2>8, <2>9, SMT
<1>10. SUFFICES ASSUME A * G <= X * T PROVE FALSE
  BY <1>1, SMT
<1>11. v * (A * G) <= v * (X * T)
  BY <1>1, <1>10, Scale, SMT
<1> QED
  BY <1>1, <1>9, <1>11, SMT

(* So is every w above the sum of the reserves.                            *)
LEMMA AboveCurveBeyondSum ==
    ASSUME NEW A \in Nat \ {0}, NEW lev \in Nat, A <= lev, NEW S \in Nat,
           NEW X \in Nat, X <= S * S, NEW w \in Nat, w > S
    PROVE  X * (lev * S - (lev - A) * w) < A * (w * (w * w))
<1> DEFINE T == lev * S - (lev - A) * w
<1>1. T <= A * w
  <2>1. T = A * w - lev * (w - S)
    BY SMT
  <2>2. lev * (w - S) >= 0
    BY SMT
  <2> QED
    BY <2>1, <2>2, SMT
<1>2. X * T <= X * (A * w)
  BY <1>1, Scale, SMT
<1>3. X * (A * w) <= (S * S) * (A * w)
  BY ProductMonotone, SMT
<1>4. S * S < w * w
  BY SMT
<1>5. (S * S + 1) * (A * w) <= (w * w) * (A * w)
  BY <1>4, ProductMonotone, SMT
<1>6. (S * S + 1) * (A * w) = (S * S) * (A * w) + A * w
  BY SMT
<1>7. A * w >= 1
  BY SMT
<1>8. (w * w) * (A * w) = A * (w * (w * w))
  BY SMT
<1> QED
  BY <1>2, <1>3, <1>5, <1>6, <1>7, <1>8, SMT

(* Algebra, without a context that would distract the provers.             *)
LEMMA SuccessorProduct ==
    ASSUME NEW w \in Int, NEW m \in Int
    PROVE  (w + 1) * m = w * m + m
  BY SMT

LEMMA TangentProduct ==
    ASSUME NEW u \in Int, NEW y \in Int, NEW g \in Int
    PROVE  u * (2 * y + g) = 2 * (u * y) + u * g
  BY SMT

LEMMA DivisorProduct ==
    ASSUME NEW a \in Int, NEW b \in Int
    PROVE  (2 * a + 1) * (2 * b + 1) = 4 * (a * b) + 2 * (a + b) + 1
  BY SMT

LEMMA TwiceProduct ==
    ASSUME NEW u \in Int, NEW y \in Int
    PROVE  2 * (u * y) <= u * u + y * y
<1>1. (u - y) * (u - y) >= 0
  BY SMT
<1> QED
  BY <1>1, SMT

(* A square is monotone, and a cube of something is something.             *)
LEMMA MonotoneSquare ==
    ASSUME NEW d \in Nat, NEW e \in Nat, d <= e
    PROVE  d * d \in Nat /\ e * e \in Nat /\ d * d <= e * e
<1>1. d * d <= e * d /\ e * d <= e * e
  BY ProductMonotone
<1> QED
  BY <1>1, ProductMonotone

LEMMA PositiveCube ==
    ASSUME NEW u \in Nat, u > 0
    PROVE  u * (u * u) > 0
<1>1. u * u > 0 /\ u * u \in Nat
  BY SMT
<1> QED
  BY <1>1, SMT

(* One step of Newton's method for y * y + g * y = c ends above the        *)
(* positive root or less than a unit below it, wherever it starts.         *)
LEMMA StepAboveRoot ==
    ASSUME NEW y \in Nat, NEW g \in Int, NEW c \in Nat, 2 * y + g \in Nat \ {0},
           NEW w \in Nat, w = (y * y + c) \div (2 * y + g)
    PROVE  (w + 1) * (w + 1) + (w + 1) * g > c
<1> DEFINE u == w + 1
           m == 2 * y + g
<1>1. y * y + c \in Nat /\ m \in Nat \ {0}
  BY ProductMonotone
<1>2. y * y + c < w * m + m
  BY <1>1, DivisionFacts
<1>3. u * m = w * m + m
  <2> HIDE DEF m
  <2> QED
    BY <1>1, SuccessorProduct
<1>4. u * m = 2 * (u * y) + u * g
  BY TangentProduct
<1>5. 2 * (u * y) <= u * u + y * y
  BY TwiceProduct
<1>6. u * u \in Int /\ u * y \in Int /\ u * g \in Int /\ y * y \in Int /\ w * m \in Int
  BY <1>1
<1> HIDE DEF u, m
<1>7. u * u + u * g > c
  BY <1>1, <1>2, <1>3, <1>4, <1>5, <1>6
<1> QED
  BY <1>7 DEF u

(* A natural number is an optional one.                                    *)
LEMMA NatIsOptional ==
    /\ Nat \subseteq Optional
    /\ \A v \in Nat : v # None
    /\ \A v \in Optional : v # None => v \in Nat
  BY DEF Optional, None

(* d_product is not more than its exact value.                             *)
LEMMA DProductBelow ==
    ASSUME MathAssumption, NEW v \in Nat, NEW a \in Nat, NEW b \in Nat,
           DProduct(v, a, b) # None
    PROVE  /\ DProduct(v, a, b) \in Nat
           /\ DProduct(v, a, b) * (4 * (a * b) + 2 * (a + b) + 1) <= v * (v * v)
<1> DEFINE p == 2 * a + 1
           q == 2 * b + 1
           square == v \otimes v
           first == square \oslash p
           cube == first \otimes v
           P == cube \oslash q
<1>1. p \in Nat \ {0} /\ q \in Nat \ {0}
  OBVIOUS
<1>2. P = DProduct(v, a, b)
  BY DEF DProduct, N_COINS
<1>3. square = v \otimes v /\ first = square \oslash p /\ cube = first \otimes v /\ P = cube \oslash q
  OBVIOUS
<1>4. p * q = 4 * (a * b) + 2 * (a + b) + 1
  BY DivisorProduct
<1> HIDE DEF p, q, square, first, cube, P
<1>5. v \in Optional /\ p \in Optional /\ q \in Optional
  BY <1>1, NatIsOptional
<1>6. /\ square \in Optional /\ first \in Optional /\ cube \in Optional /\ P \in Optional
  <2>1. square \in Optional
    BY <1>3, <1>5, CheckedTypes
  <2>2. first \in Optional
    BY <1>3, <1>5, <2>1, CheckedTypes
  <2>3. cube \in Optional
    BY <1>3, <1>5, <2>2, CheckedTypes
  <2> QED
    BY <1>3, <1>5, <2>1, <2>2, <2>3, CheckedTypes
<1>7. cube \in Nat /\ P = cube \div q
  BY <1>2, <1>3, <1>5, <1>6, CheckedAnswer
<1>8. first \in Nat /\ cube = first * v
  BY <1>3, <1>5, <1>6, <1>7, CheckedAnswer, NatIsOptional
<1>9. square \in Nat /\ first = square \div p
  BY <1>3, <1>5, <1>6, <1>8, CheckedAnswer, NatIsOptional
<1>10. square = v * v
  BY <1>3, <1>5, <1>9, CheckedAnswer, NatIsOptional
<1>11. P \in Nat /\ P * q <= first * v
  BY <1>1, <1>7, <1>8, DivisionFacts
<1>12. first * p <= v * v
  BY <1>1, <1>9, <1>10, DivisionFacts
<1>13. (P * q) * p <= (first * v) * p
  BY <1>1, <1>8, <1>11, Scale
<1>14. (first * p) * v <= (v * v) * v
  BY <1>1, <1>8, <1>12, Scale
<1>15. (first * v) * p = (first * p) * v /\ (P * q) * p = P * (p * q)
       /\ (v * v) * v = v * (v * v)
  BY <1>1, <1>8, <1>11, SMT
<1>16. P * (p * q) <= v * (v * v)
  BY <1>1, <1>8, <1>11, <1>13, <1>14, <1>15
<1> QED
  BY <1>2, <1>4, <1>11, <1>16

(* w is what calculate_step makes of v: the quotient of two sums, N and Q  *)
(* of which are themselves rounded quotients.                              *)
IsStep(w, v, leverage, sum, P) ==
    \E N, Q \in Nat :
        /\ AMP_PRECISION * N <= leverage * sum
        /\ leverage * sum < AMP_PRECISION * N + AMP_PRECISION
        /\ AMP_PRECISION * Q <= v * (leverage - AMP_PRECISION)
        /\ v * (leverage - AMP_PRECISION) < AMP_PRECISION * Q + AMP_PRECISION
        /\ Q + 3 * P > 0
        /\ w = ((N + 2 * P) * v) \div (Q + 3 * P)

LEMMA CalculateStepValue ==
    ASSUME MathAssumption, ParameterAssumption, NEW v \in Nat, NEW leverage \in Nat,
           NEW sum \in Nat, NEW P \in Nat, CalculateStep(v, leverage, sum, P) # None
    PROVE  /\ CalculateStep(v, leverage, sum, P) \in Nat
           /\ AMP_PRECISION <= leverage
           /\ IsStep(CalculateStep(v, leverage, sum, P), v, leverage, sum, P)
<1> DEFINE A == AMP_PRECISION
           weighted == leverage \otimes sum
           N == weighted \oslash A
           twice == P \otimes 2
           left == N \oplus twice
           l_val == left \otimes v
           reduced == leverage \ominus A
           scaled == v \otimes reduced
           Q == scaled \oslash A
           thrice == P \otimes 3
           r_val == Q \oplus thrice
           w == CalculateStep(v, leverage, sum, P)
<1>1. A \in Nat \ {0}
  BY DEF ParameterAssumption
<1>2. w = l_val \oslash r_val
  BY DEF CalculateStep, N_COINS
<1>3. /\ weighted = leverage \otimes sum /\ N = weighted \oslash A /\ twice = P \otimes 2
      /\ left = N \oplus twice /\ l_val = left \otimes v
      /\ reduced = leverage \ominus A /\ scaled = v \otimes reduced /\ Q = scaled \oslash A
      /\ thrice = P \otimes 3 /\ r_val = Q \oplus thrice
  OBVIOUS
<1> HIDE DEF A, weighted, N, twice, left, l_val, reduced, scaled, Q, thrice, r_val, w
<1>4. /\ v \in Optional /\ leverage \in Optional /\ sum \in Optional /\ P \in Optional
      /\ A \in Optional /\ 2 \in Optional /\ 3 \in Optional
  BY <1>1, NatIsOptional
<1>5. weighted \in Optional /\ twice \in Optional /\ reduced \in Optional /\ thrice \in Optional
  BY <1>3, <1>4, CheckedTypes
<1>6. N \in Optional /\ scaled \in Optional
  BY <1>3, <1>4, <1>5, CheckedTypes
<1>7. left \in Optional /\ Q \in Optional
  BY <1>3, <1>4, <1>5, <1>6, CheckedTypes
<1>8. l_val \in Optional /\ r_val \in Optional
  BY <1>3, <1>4, <1>5, <1>7, CheckedTypes
<1>9. l_val \in Nat /\ r_val \in Nat \ {0} /\ w = l_val \div r_val
  BY <1>2, <1>8, CheckedAnswer DEF w
<1>10. left \in Nat /\ l_val = left * v
  BY <1>3, <1>4, <1>7, <1>9, CheckedAnswer, NatIsOptional
<1>11. N \in Nat /\ twice \in Nat /\ left = N + twice
  BY <1>3, <1>5, <1>6, <1>10, CheckedAnswer, NatIsOptional
<1>12. Q \in Nat /\ thrice \in Nat /\ r_val = Q + thrice
  BY <1>3, <1>5, <1>7, <1>9, CheckedAnswer, NatIsOptional
<1>13. twice = P * 2 /\ thrice = P * 3
  BY <1>3, <1>4, <1>11, <1>12, CheckedAnswer, NatIsOptional
<1>14. weighted \in Nat /\ N = weighted \div A
  BY <1>3, <1>4, <1>5, <1>11, CheckedAnswer, NatIsOptional
<1>15. weighted = leverage * sum
  BY <1>3, <1>4, <1>14, CheckedAnswer, NatIsOptional
<1>16. scaled \in Nat /\ Q = scaled \div A
  BY <1>3, <1>4, <1>6, <1>12, CheckedAnswer, NatIsOptional
<1>17. reduced \in Nat /\ scaled = v * reduced
  BY <1>3, <1>4, <1>5, <1>16, CheckedAnswer, NatIsOptional
<1>18. A <= leverage /\ reduced = leverage - A
  BY <1>3, <1>4, <1>17, CheckedAnswer, NatIsOptional
<1>19. /\ N * A <= weighted /\ weighted < N * A + A
       /\ Q * A <= scaled /\ scaled < Q * A + A
  BY <1>1, <1>14, <1>16, DivisionFacts
<1>20. N * A = A * N /\ Q * A = A * Q
  BY <1>1, <1>11, <1>12
<1>21. w = ((N + 2 * P) * v) \div (Q + 3 * P) /\ Q + 3 * P > 0
  BY <1>9, <1>10, <1>11, <1>12, <1>13
<1>22. w \in Nat
  BY <1>9, DivisionFacts
<1> QED
  BY <1>11, <1>12, <1>15, <1>17, <1>18, <1>19, <1>20, <1>21, <1>22 DEF A, w, IsStep

(* The curve of a larger invariant lies above.                             *)
LEMMA CurvesNested ==
    ASSUME ParameterAssumption, NEW leverage \in Nat, AMP_PRECISION <= leverage,
           NEW a \in Nat, NEW b \in Nat, NEW d \in Nat, NEW e \in Nat, d <= e,
           OnCurve(leverage, a, b, e)
    PROVE  OnCurve(leverage, a, b, d)
<1> DEFINE A == AMP_PRECISION
           X == 4 * (a * b)
           L == leverage * (a + b)
<1>1. A \in Nat \ {0} /\ X \in Nat /\ L \in Nat
  BY ProductMonotone DEF ParameterAssumption
<1>2. A * (e * (e * e)) <= X * (L - (leverage - A) * e)
  BY DEF OnCurve
<1> SUFFICES A * (d * (d * d)) <= X * (L - (leverage - A) * d)
  BY DEF OnCurve
<1> HIDE DEF A, X, L
<1>3. leverage - A \in Nat
  BY <1>1 DEF A
<1>4. /\ d * d \in Nat /\ e * e \in Nat /\ d * d <= e * e
  BY MonotoneSquare
<1>5. d * (d * d) <= e * (e * e) /\ d * (d * d) \in Nat /\ e * (e * e) \in Nat
  <2>1. d * (d * d) <= e * (d * d) /\ d * (d * d) \in Nat
    BY <1>4, ProductMonotone
  <2>2. e * (d * d) <= e * (e * e) /\ e * (e * e) \in Nat /\ e * (d * d) \in Nat
    BY <1>4, ProductMonotone
  <2> QED
    BY <2>1, <2>2
<1>6. A * (d * (d * d)) <= A * (e * (e * e))
  BY <1>1, <1>5, ProductMonotone
<1>7. (leverage - A) * d <= (leverage - A) * e
      /\ (leverage - A) * d \in Nat /\ (leverage - A) * e \in Nat
  BY <1>3, ProductMonotone
<1>8. X * (L - (leverage - A) * e) <= X * (L - (leverage - A) * d)
  BY <1>1, <1>7, Scale
<1>9. /\ A * (d * (d * d)) \in Int /\ A * (e * (e * e)) \in Int
      /\ X * (L - (leverage - A) * e) \in Int /\ X * (L - (leverage - A) * d) \in Int
  BY <1>1, <1>5, <1>7
<1> QED
  BY <1>2, <1>6, <1>8, <1>9

(* Every pool is on the curve of 0, an empty one on no other.              *)
LEMMA AlwaysOnFirstCurve ==
    ASSUME ParameterAssumption, NEW leverage \in Nat, NEW a \in Nat, NEW b \in Nat
    PROVE  OnCurve(leverage, a, b, 0)
<1>1. leverage * (a + b) \in Nat /\ 4 * (a * b) \in Nat
  BY ProductMonotone
<1>2. (leverage - AMP_PRECISION) * 0 = 0 /\ AMP_PRECISION * (0 * (0 * 0)) = 0
  BY DEF ParameterAssumption
<1>3. (4 * (a * b)) * (leverage * (a + b)) >= 0
  BY <1>1, ProductMonotone
<1>4. leverage * (a + b) - 0 = leverage * (a + b)
  BY <1>1
<1> QED
  BY <1>2, <1>3, <1>4 DEF OnCurve

LEMMA NothingOnFirstCurve ==
    ASSUME ParameterAssumption, NEW leverage \in Nat, NEW d \in Nat, d > 0
    PROVE  ~OnCurve(leverage, 0, 0, d)
<1>1. d * (d * d) > 0 /\ d * (d * d) \in Nat
  BY PositiveCube, MonotoneSquare, ProductMonotone
<1>2. AMP_PRECISION * (d * (d * d)) > 0
  BY <1>1, SMT DEF ParameterAssumption
<1>3. (4 * (0 * 0)) * (leverage * (0 + 0) - (leverage - AMP_PRECISION) * d) = 0
  BY SMT DEF ParameterAssumption
<1> QED
  BY <1>2, <1>3 DEF OnCurve

(* Without d_product there is no step.                                     *)
LEMMA StepNeedsProduct ==
    ASSUME NEW v, NEW leverage, NEW sum, NEW P, CalculateStep(v, leverage, sum, P) # None
    PROVE  P # None
<1> SUFFICES ASSUME P = None PROVE CalculateStep(v, leverage, sum, P) = None
  OBVIOUS
<1>1. P \otimes (N_COINS + 1) = None
  BY DEF \otimes
<1>2. \A q : q \oplus (P \otimes (N_COINS + 1)) = None
  BY <1>1 DEF \oplus
<1> QED
  BY <1>2 DEF CalculateStep, \oslash

(* A pass of compute_d ends on the far side of the pool or within a unit   *)
(* of it, wherever it starts and whatever is rounded: the pool is below    *)
(* the curve of the next number.                                           *)
LEMMA ImprovedIsNotBelow ==
    ASSUME MathAssumption, ParameterAssumption, NEW leverage \in Nat,
           NEW a \in Nat, NEW b \in Nat, a + b > 0, NEW v \in Nat,
           ImproveD(leverage, a, b, v) # None
    PROVE  /\ ImproveD(leverage, a, b, v) \in Nat
           /\ AMP_PRECISION <= leverage
           /\ ~OnCurve(leverage, a, b, ImproveD(leverage, a, b, v) + 1)
<1> DEFINE A == AMP_PRECISION
           P == DProduct(v, a, b)
           S == a + b
           X == 4 * (a * b)
           w == ImproveD(leverage, a, b, v)
           u == w + 1
<1>1. w = CalculateStep(v, leverage, S, P) /\ w # None
  BY DEF ImproveD
<1>2. P \in Nat /\ P * (X + 2 * S + 1) <= v * (v * v)
  <2>1. P # None
    BY <1>1, StepNeedsProduct
  <2> QED
    BY <2>1, DProductBelow
<1>3. A \in Nat \ {0} /\ S \in Nat /\ S > 0 /\ X \in Nat /\ X <= S * S
  BY MeansSquared, ProductMonotone DEF ParameterAssumption
<1> HIDE DEF P, S, w
<1>4. w \in Nat /\ A <= leverage /\ IsStep(w, v, leverage, S, P)
  BY <1>1, <1>2, <1>3, CalculateStepValue
<1>5. PICK N \in Nat, Q \in Nat :
            /\ leverage * S < A * N + A
            /\ A * Q <= v * (leverage - A)
            /\ Q + 3 * P > 0
            /\ w = ((N + 2 * P) * v) \div (Q + 3 * P)
  BY <1>4 DEF IsStep
<1>6. u \in Nat /\ u > 0
  BY <1>4
<1>7. (N + 2 * P) * v < u * (Q + 3 * P)
  <2>1. (N + 2 * P) * v \in Nat /\ Q + 3 * P \in Nat \ {0}
    BY <1>2, <1>5, ProductMonotone
  <2>2. (N + 2 * P) * v < w * (Q + 3 * P) + (Q + 3 * P)
    BY <1>5, <2>1, DivisionFacts
  <2>3. u * (Q + 3 * P) = w * (Q + 3 * P) + (Q + 3 * P)
    BY <1>4, <2>1, SuccessorProduct
  <2> QED
    BY <2>2, <2>3
<1>8. X * (leverage * S - (leverage - A) * u) < A * (u * (u * u))
  <2>1. CASE u > S
    BY <1>3, <1>4, <1>6, <2>1, AboveCurveBeyondSum
  <2>2. CASE X = 0
    <3>1. u * (u * u) > 0 /\ leverage * S - (leverage - A) * u \in Int
      BY <1>3, <1>4, <1>6, PositiveCube
    <3>2. A * (u * (u * u)) > 0 /\ X * (leverage * S - (leverage - A) * u) = 0
      BY <1>3, <1>6, <2>2, <3>1, SMT
    <3> QED
      BY <3>2
  <2>3. CASE u <= S /\ X # 0
    <3>1. S >= 2
      <4>1. a # 0 /\ b # 0
        BY <2>3, SMT
      <4> QED
        BY <4>1 DEF S
    <3>2. v * (leverage * S - (leverage - A) * u) + v + A
            <= (A * P) * (3 * u - 2 * v) + A * v
      BY <1>2, <1>3, <1>4, <1>5, <1>6, <1>7, ImprovedValue
    <3> QED
      BY <1>2, <1>3, <1>4, <1>6, <2>3, <3>1, <3>2, AboveCurveWithinSum
  <2> QED
    BY <1>3, <1>6, <2>1, <2>2, <2>3
<1>9. ~OnCurve(leverage, a, b, u)
  <2>1. /\ X * (leverage * S - (leverage - A) * u) \in Int
        /\ A * (u * (u * u)) \in Int
    BY <1>3, <1>4, <1>6
  <2> QED
    BY <1>8, <2>1 DEF OnCurve, S
<1> QED
  BY <1>4, <1>9 DEF w

(* compute_d never answers less than the invariant of the pool, rounded    *)
(* down: a pool is on no curve above the one that it computes, whether or  *)
(* not the iteration has come to rest.                                     *)
LEMMA DNotBelow ==
    ASSUME MathAssumption, ParameterAssumption, NEW leverage \in Nat,
           NEW a \in Nat, NEW b \in Nat, ComputeD(leverage, a, b) # None
    PROVE  /\ ComputeD(leverage, a, b) \in Nat
           /\ \A e \in Nat : OnCurve(leverage, a, b, e) => e <= ComputeD(leverage, a, b)
           /\ a + b > 0 => AMP_PRECISION <= leverage
<1> DEFINE sum_x == ToU128(a \oplus b)
           step == [v \in Nat |-> ImproveD(leverage, a, b, v)]
           d == ComputeD(leverage, a, b)
<1>1. d = CASE None \in {a, b, sum_x} -> None
            [] sum_x = 0 -> 0
            [] OTHER -> ToU128(Newton(step, sum_x))
  BY DEF ComputeD
<1>2. sum_x # None /\ d # None
  BY <1>1
<1>3. sum_x = a + b /\ sum_x \in Nat
  <2>1. a \oplus b # None /\ sum_x = a \oplus b
    BY <1>2 DEF ToU128, U128, None, MathAssumption
  <2> QED
    BY <2>1, CheckedAnswer, NatIsOptional
<1>4. CASE sum_x = 0
  <2>1. a = 0 /\ b = 0 /\ d = 0
    BY <1>1, <1>2, <1>3, <1>4 DEF None
  <2>2. ASSUME NEW e \in Nat, e > 0 PROVE ~OnCurve(leverage, a, b, e)
    BY <2>1, <2>2, NothingOnFirstCurve
  <2> QED
    BY <1>3, <1>4, <2>1, <2>2
<1>5. CASE sum_x # 0
  <2>1. a + b > 0
    BY <1>3, <1>5
  <2>2. \A v \in Nat : step[v] = ImproveD(leverage, a, b, v)
    OBVIOUS
  <2>3. \A v \in Nat : step[v] # None =>
            step[v] \in Nat /\ AMP_PRECISION <= leverage /\ ~OnCurve(leverage, a, b, step[v] + 1)
    BY <2>1, <2>2, ImprovedIsNotBelow
  <2>4. step \in [Nat -> Optional]
    BY <2>2, <2>3 DEF Optional
  <2>5. d = ToU128(Newton(step, sum_x))
    BY <1>1, <1>2, <1>3, <1>5 DEF None
  <2>6. d = Newton(step, sum_x) /\ d \in Nat
    BY <1>2, <2>5, ToU128Type
  <2> HIDE DEF step
  <2>7. PICK v \in Nat : Newton(step, sum_x) = step[v]
    BY <1>3, <2>3, <2>4, NewtonAnswer
  <2> HIDE DEF d
  <2>8. d \in Nat /\ AMP_PRECISION <= leverage /\ ~OnCurve(leverage, a, b, d + 1)
    BY <1>2, <2>3, <2>6, <2>7
  <2>9. ASSUME NEW e \in Nat, OnCurve(leverage, a, b, e) PROVE e <= d
    <3>1. SUFFICES ASSUME d + 1 <= e PROVE FALSE
      BY <2>8
    <3>2. d + 1 \in Nat
      BY <2>8
    <3>3. OnCurve(leverage, a, b, d + 1)
      BY <2>8, <2>9, <3>1, <3>2, CurvesNested
    <3> QED
      BY <2>8, <3>3
  <2> QED
    BY <2>8, <2>9 DEF d
<1> QED
  BY <1>4, <1>5

(* The curve in the form that compute_new_balance solves.                  *)
LEMMA RootOnCurve ==
    ASSUME NEW A \in Nat \ {0}, NEW lev \in Nat \ {0}, NEW x \in Nat \ {0},
           NEW d \in Nat, NEW u \in Nat, NEW c \in Nat, NEW q \in Nat, NEW C \in Nat,
           C < c * ((x * 4) * lev) + (x * 4) * lev,
           q * lev <= d * A,
           u * u + u * (x + q - d) > c
    PROVE  C <= (4 * (x * u)) * (lev * (x + u) - (lev - A) * d)
<1> DEFINE M == (x * 4) * lev
           s == u * u + u * (x + q - d)
<1>1. M \in Nat /\ s \in Int
  BY ProductMonotone, SMT
<1>2. (c + 1) * M <= s * M
  BY <1>1, Scale
<1>3. (c + 1) * M = c * M + M
  BY <1>1, SuccessorProduct
<1>4. s * M = (4 * (x * u)) * (lev * (u + x + q - d))
  BY SMT
<1>5. lev * (u + x + q - d) <= lev * (x + u) - (lev - A) * d
  <2>1. lev * (u + x + q - d) = lev * (x + u) + q * lev - lev * d
    BY SMT
  <2>2. (lev - A) * d = lev * d - d * A
    BY SMT
  <2> QED
    BY <2>1, <2>2, SMT
<1>6. 4 * (x * u) \in Nat
  BY ProductMonotone
<1>7. /\ lev * (u + x + q - d) \in Int /\ lev * (x + u) - (lev - A) * d \in Int
  BY SMT
<1>8. (4 * (x * u)) * (lev * (u + x + q - d))
         <= (4 * (x * u)) * (lev * (x + u) - (lev - A) * d)
  BY <1>5, <1>6, <1>7, Scale
<1>9. C < s * M
  BY <1>1, <1>2, <1>3
<1> QED
  BY <1>1, <1>4, <1>6, <1>7, <1>8, <1>9, SMT

(* compute_new_balance never answers a unit less than the curve asks for,  *)
(* whether or not its iteration has come to rest.                          *)
LEMMA NewBalanceOnCurve ==
    ASSUME MathAssumption, ParameterAssumption, NEW leverage \in Nat,
           NEW x \in Optional, NEW d \in Optional,
           ComputeNewBalance(leverage, x, d) # None
    PROVE  /\ x \in Nat /\ d \in Nat
           /\ ComputeNewBalance(leverage, x, d) \in Nat
           /\ OnCurve(leverage, x, ComputeNewBalance(leverage, x, d) + 1, d)
<1> DEFINE A == AMP_PRECISION
           square == d \otimes d
           cube == square \otimes d
           C == cube \otimes A
           four == x \otimes N_COINS_SQUARED
           M == four \otimes leverage
           c == C \oslash M
           da == d \otimes A
           q == da \oslash leverage
           b == x \oplus q
           step == [y \in Nat |->
                       ((y \otimes y) \oplus c) \oslash (((y \oplus y) \oplus b) \ominus d)]
           w == ComputeNewBalance(leverage, x, d)
<1>1. A \in Nat \ {0} /\ N_COINS_SQUARED = 4
  BY DEF ParameterAssumption, N_COINS_SQUARED
<1>2. b # None /\ c # None /\ w = ToU128(Newton(step, d)) /\ w # None
  BY DEF ComputeNewBalance
<1>3. /\ square = d \otimes d /\ cube = square \otimes d /\ C = cube \otimes A
      /\ four = x \otimes 4 /\ M = four \otimes leverage /\ c = C \oslash M
      /\ da = d \otimes A /\ q = da \oslash leverage /\ b = x \oplus q
  BY <1>1
<1>4. \A y \in Nat :
         step[y] = ((y \otimes y) \oplus c) \oslash (((y \oplus y) \oplus b) \ominus d)
  OBVIOUS
<1>5. step = [y \in Nat |-> step[y]]
  OBVIOUS
<1> HIDE DEF A, square, cube, C, four, M, c, da, q, b, step, w
<1>6. A \in Optional /\ 4 \in Optional /\ leverage \in Optional
  BY <1>1, NatIsOptional
<1>7. square \in Optional /\ four \in Optional /\ da \in Optional
  BY <1>3, <1>6, CheckedTypes
<1>8. cube \in Optional /\ M \in Optional /\ q \in Optional
  BY <1>3, <1>6, <1>7, CheckedTypes
<1>9. C \in Optional /\ b \in Optional
  BY <1>3, <1>6, <1>8, CheckedTypes
<1>10. c \in Optional
  BY <1>3, <1>8, <1>9, CheckedTypes
<1>11. C \in Nat /\ M \in Nat \ {0} /\ c = C \div M
  BY <1>2, <1>3, <1>8, <1>9, CheckedAnswer
<1>12. x \in Nat /\ q \in Nat /\ b = x + q
  BY <1>2, <1>3, <1>8, CheckedAnswer
<1>13. da \in Nat /\ leverage \in Nat \ {0} /\ q = da \div leverage
  BY <1>3, <1>6, <1>7, <1>12, CheckedAnswer, NatIsOptional
<1>14. d \in Nat /\ da = d * A
  BY <1>3, <1>6, <1>13, CheckedAnswer, NatIsOptional
<1>15. cube \in Nat /\ C = cube * A
  BY <1>3, <1>6, <1>8, <1>11, CheckedAnswer, NatIsOptional
<1>16. square \in Nat /\ cube = square * d
  BY <1>3, <1>7, <1>15, CheckedAnswer, NatIsOptional
<1>17. square = d * d
  BY <1>3, <1>16, CheckedAnswer, NatIsOptional
<1>18. four \in Nat /\ M = four * leverage
  BY <1>3, <1>6, <1>7, <1>11, CheckedAnswer, NatIsOptional
<1>19. four = x * 4
  BY <1>3, <1>6, <1>18, CheckedAnswer, NatIsOptional
<1>20. x # 0
  BY <1>11, <1>12, <1>13, <1>18, <1>19
<1>21. c \in Nat /\ C < c * M + M
  BY <1>11, DivisionFacts
<1>22. q * leverage <= d * A
  BY <1>13, <1>14, DivisionFacts
<1>23. ASSUME NEW y \in Nat
       PROVE  /\ step[y] \in Optional
              /\ step[y] # None =>
                    /\ step[y] \in Nat
                    /\ (step[y] + 1) * (step[y] + 1) + (step[y] + 1) * (b - d) > c
  <2> DEFINE yy == y \otimes y
             top == yy \oplus c
             twice == y \oplus y
             more == twice \oplus b
             bottom == more \ominus d
             z == step[y]
  <2>1. z = top \oslash bottom
    BY <1>4
  <2>2. /\ yy = y \otimes y /\ top = yy \oplus c /\ twice = y \oplus y /\ more = twice \oplus b
        /\ bottom = more \ominus d
    OBVIOUS
  <2> HIDE DEF yy, top, twice, more, bottom, z
  <2>3. y \in Optional /\ yy \in Optional /\ twice \in Optional
    BY <2>2, NatIsOptional, CheckedTypes
  <2>4. top \in Optional /\ more \in Optional
    BY <1>9, <1>10, <2>2, <2>3, CheckedTypes
  <2>5. bottom \in Optional
    BY <2>2, <2>4, CheckedTypes
  <2>6. z \in Optional
    BY <2>1, <2>4, <2>5, CheckedTypes
  <2>7. ASSUME z # None
        PROVE  /\ z \in Nat
               /\ (z + 1) * (z + 1) + (z + 1) * (b - d) > c
    <3>1. top \in Nat /\ bottom \in Nat \ {0} /\ z = top \div bottom
      BY <2>1, <2>4, <2>5, <2>7, CheckedAnswer
    <3>2. yy \in Nat /\ top = yy + c
      BY <1>10, <2>2, <2>3, <3>1, CheckedAnswer, NatIsOptional
    <3>3. yy = y * y
      BY <2>2, <2>3, <3>2, CheckedAnswer, NatIsOptional
    <3>4. more \in Nat /\ bottom = more - d
      BY <2>2, <2>4, <3>1, CheckedAnswer, NatIsOptional
    <3>5. twice \in Nat /\ more = twice + b
      BY <1>9, <2>2, <2>3, <3>4, CheckedAnswer, NatIsOptional
    <3>6. twice = y + y
      BY <2>2, <2>3, <3>5, CheckedAnswer, NatIsOptional
    <3> DEFINE g == b - d
    <3>7. g \in Int /\ bottom = 2 * y + g
      BY <1>12, <1>14, <3>4, <3>5, <3>6
    <3>8. z \in Nat
      BY <3>1, DivisionFacts
    <3> HIDE DEF g
    <3>9. 2 * y + g \in Nat \ {0} /\ z = (y * y + c) \div (2 * y + g)
      BY <3>1, <3>2, <3>3, <3>7
    <3>10. (z + 1) * (z + 1) + (z + 1) * g > c
      BY <1>21, <3>7, <3>8, <3>9, StepAboveRoot
    <3> QED
      BY <3>8, <3>10 DEF g
  <2> QED
    BY <2>6, <2>7 DEF z
<1>24. step \in [Nat -> Optional]
  BY <1>5, <1>23
<1>25. w = Newton(step, d) /\ w \in Nat
  BY <1>2, ToU128Type
<1>26. PICK y \in Nat : Newton(step, d) = step[y]
  BY <1>14, <1>23, <1>24, NewtonAnswer
<1> DEFINE u == w + 1
<1>27. u \in Nat /\ u * u + u * (x + q - d) > c
  BY <1>2, <1>12, <1>23, <1>25, <1>26
<1> HIDE DEF u
<1>28. C < c * ((x * 4) * leverage) + (x * 4) * leverage
  BY <1>18, <1>19, <1>21
<1>29. C <= (4 * (x * u)) * (leverage * (x + u) - (leverage - A) * d)
  BY <1>1, <1>11, <1>12, <1>13, <1>14, <1>20, <1>21, <1>22, <1>27, <1>28, RootOnCurve
<1>30. C = A * (d * (d * d))
  BY <1>1, <1>14, <1>15, <1>16, <1>17, SMT
<1>31. OnCurve(leverage, x, u, d)
  BY <1>29, <1>30 DEF OnCurve, A
<1> QED
  BY <1>12, <1>14, <1>25, <1>31 DEF u, w

(* More of the other asset keeps a pool on its curve.                      *)
LEMMA CurveAbove ==
    ASSUME ParameterAssumption, NEW leverage \in Nat,
           NEW a \in Nat, NEW b \in Nat, NEW c \in Nat, b <= c, NEW d \in Nat,
           OnCurve(leverage, a, b, d)
    PROVE  OnCurve(leverage, a, c, d)
<1> DEFINE A == AMP_PRECISION
           T(z) == leverage * (a + z) - (leverage - A) * d
           C == A * (d * (d * d))
<1>1. A \in Nat \ {0}
  BY DEF ParameterAssumption
<1>2. C <= (4 * (a * b)) * T(b)
  BY DEF OnCurve
<1>3. C \in Nat
  BY <1>1, MonotoneSquare, ProductMonotone
<1>4. T(b) \in Int /\ T(c) \in Int /\ T(b) <= T(c)
  <2>1. leverage * (a + b) <= leverage * (a + c)
    BY ProductMonotone
  <2> QED
    BY <1>1, <2>1
<1>5. 4 * (a * b) \in Nat /\ 4 * (a * c) \in Nat /\ 4 * (a * b) <= 4 * (a * c)
  BY ProductMonotone
<1> HIDE DEF T, C
<1>6. CASE T(c) >= 0
  <2>1. (4 * (a * b)) * T(b) <= (4 * (a * b)) * T(c)
    BY <1>4, <1>5, Scale
  <2>2. (4 * (a * b)) * T(c) <= (4 * (a * c)) * T(c)
    BY <1>4, <1>5, <1>6, ProductMonotone
  <2>3. C <= (4 * (a * c)) * T(c)
    BY <1>2, <1>3, <1>4, <1>5, <2>1, <2>2
  <2> QED
    BY <2>3 DEF OnCurve, T, C
<1>7. CASE T(c) < 0
  <2> DEFINE X == 4 * (a * b)
  <2>1. T(b) < 0
    BY <1>4, <1>7
  <2>2. X \in Nat /\ C <= X * T(b)
    BY <1>2, <1>5
  <2> HIDE DEF X
  <2>3. X * T(b) <= 0
    BY <1>4, <2>1, <2>2, SMT
  <2>4. C = 0
    BY <1>3, <1>4, <2>2, <2>3
  <2>5. d = 0
    <3>1. SUFFICES ASSUME d > 0 PROVE FALSE
      OBVIOUS
    <3>2. d * (d * d) > 0 /\ d * (d * d) \in Nat
      BY <3>1, PositiveCube, MonotoneSquare, ProductMonotone
    <3>3. A * (d * (d * d)) > 0
      BY <1>1, <3>2, SMT
    <3> QED
      BY <2>4, <3>3 DEF C
  <2>6. T(b) >= 0
    <3>1. leverage * (a + b) \in Nat /\ (leverage - A) * d = 0
      BY <1>1, <2>5, ProductMonotone
    <3> QED
      BY <3>1 DEF T
  <2> QED
    BY <1>4, <2>1, <2>6
<1> QED
  BY <1>4, <1>6, <1>7

(* A sale that calc_ask_amount answers leaves the pool on every curve that *)
(* it was on, but for a unit of the asset that is paid.                    *)
LEMMA SaleKeepsCurve ==
    ASSUME MathAssumption, ParameterAssumption,
           NEW offer_pool \in Optional, NEW ask_pool \in Optional,
           NEW offer_amount \in Optional, NEW amp \in Nat,
           CalcAskAmount(offer_pool, ask_pool, offer_amount, amp) # None
    PROVE  /\ offer_pool \in Nat /\ ask_pool \in Nat /\ offer_amount \in Nat
           /\ ToU128(offer_pool \oplus offer_amount) = offer_pool + offer_amount
           /\ CalcAskAmount(offer_pool, ask_pool, offer_amount, amp) \in 0 .. ask_pool
           /\ \A d \in Nat :
                 OnCurve(Leverage(amp), offer_pool, ask_pool, d) =>
                    OnCurve(Leverage(amp), offer_pool + offer_amount,
                        (ask_pool - CalcAskAmount(offer_pool, ask_pool, offer_amount, amp)) + 1, d)
<1> DEFINE leverage == Leverage(amp)
           D == ComputeD(leverage, offer_pool, ask_pool)
           new_offer_pool == ToU128(offer_pool \oplus offer_amount)
           w == ComputeNewBalance(leverage, new_offer_pool, D)
           s == CalcAskAmount(offer_pool, ask_pool, offer_amount, amp)
<1>1. s = ask_pool \ominus w /\ s # None
  BY DEF CalcAskAmount
<1>2. leverage \in Nat
  BY DEF Leverage, N_COINS
<1>3. w \in Optional
  BY NewBalanceType
<1>4. ask_pool \in Nat /\ w \in Nat /\ w <= ask_pool /\ s = ask_pool - w
  BY <1>1, <1>3, CheckedAnswer
<1>5. new_offer_pool \in Optional
  BY ToU128Type
<1>6. D \in Optional
  BY ToU128Type DEF ComputeD, Optional, None
<1>7. new_offer_pool \in Nat /\ D \in Nat /\ OnCurve(leverage, new_offer_pool, w + 1, D)
  <2>1. w # None
    BY <1>4 DEF None
  <2> HIDE DEF leverage, D, new_offer_pool
  <2> QED
    BY <1>2, <1>5, <1>6, <2>1, NewBalanceOnCurve
<1>8. offer_pool \in Nat /\ offer_amount \in Nat /\ new_offer_pool = offer_pool + offer_amount
  <2>1. new_offer_pool # None
    BY <1>7 DEF None
  <2>2. offer_pool \oplus offer_amount # None /\ new_offer_pool = offer_pool \oplus offer_amount
    BY <2>1 DEF ToU128, U128, None, MathAssumption
  <2> QED
    BY <2>2, CheckedAnswer
<1>9. D # None
  BY <1>7 DEF None
<1>10. \A d \in Nat : OnCurve(leverage, offer_pool, ask_pool, d) => d <= D
  <2> HIDE DEF leverage
  <2> QED
    BY <1>2, <1>4, <1>8, <1>9, DNotBelow DEF D
<1>11. offer_pool + ask_pool > 0 => AMP_PRECISION <= leverage
  <2> HIDE DEF leverage
  <2> QED
    BY <1>2, <1>4, <1>8, <1>9, DNotBelow DEF D
<1> HIDE DEF leverage, D, new_offer_pool, w, s
<1>12. ASSUME NEW d \in Nat, OnCurve(leverage, offer_pool, ask_pool, d)
       PROVE  OnCurve(leverage, offer_pool + offer_amount, (ask_pool - s) + 1, d)
  <2>1. d <= D
    BY <1>10, <1>12
  <2>2. OnCurve(leverage, new_offer_pool, w + 1, d)
    <3>1. CASE d = 0
      BY <1>2, <1>4, <1>7, <3>1, AlwaysOnFirstCurve
    <3>2. CASE d # 0
      <4>1. ~(offer_pool = 0 /\ ask_pool = 0)
        BY <1>2, <1>12, <3>2, NothingOnFirstCurve
      <4> QED
        BY <1>2, <1>4, <1>7, <1>8, <1>11, <2>1, <4>1, CurvesNested
    <3> QED
      BY <3>1, <3>2
  <2>3. (ask_pool - s) + 1 = w + 1
    BY <1>4
  <2> QED
    BY <1>8, <2>2, <2>3
<1> QED
  BY <1>4, <1>8, <1>12 DEF leverage, s, new_offer_pool

(* The order of the reserves does not matter to the curve.                 *)
LEMMA CurveSymmetric ==
    ASSUME NEW leverage \in Nat, NEW a \in Nat, NEW b \in Nat, NEW d \in Nat,
           OnCurve(leverage, a, b, d)
    PROVE  OnCurve(leverage, b, a, d)
<1>1. a * b = b * a /\ a + b = b + a
  BY SMT
<1> QED
  BY <1>1 DEF OnCurve

(* The offer that calc_offer_amount answers leaves the pool, but for a     *)
(* unit of it, on every curve that it was on.                              *)
LEMMA OfferKeepsCurve ==
    ASSUME MathAssumption, ParameterAssumption,
           NEW offer_pool \in Nat, NEW ask_pool \in Nat, NEW ask_amount \in Nat, NEW amp \in Nat,
           CalcOfferAmount(offer_pool, ask_pool, ask_amount, amp) # None
    PROVE  /\ ask_amount <= ask_pool
           /\ CalcOfferAmount(offer_pool, ask_pool, ask_amount, amp) \in Nat
           /\ \A d \in Nat :
                 OnCurve(Leverage(amp), offer_pool, ask_pool, d) =>
                    OnCurve(Leverage(amp),
                        offer_pool + CalcOfferAmount(offer_pool, ask_pool, ask_amount, amp) + 1,
                        ask_pool - ask_amount, d)
<1> DEFINE leverage == Leverage(amp)
           D == ComputeD(leverage, offer_pool, ask_pool)
           new_ask_pool == ask_pool \ominus ask_amount
           w == ComputeNewBalance(leverage, new_ask_pool, D)
           offer == CalcOfferAmount(offer_pool, ask_pool, ask_amount, amp)
<1>1. offer = w \ominus offer_pool /\ offer # None
  BY DEF CalcOfferAmount
<1>2. leverage \in Nat
  BY DEF Leverage, N_COINS
<1>3. w \in Optional /\ D \in Optional /\ new_ask_pool \in Optional
  BY NewBalanceType, ToU128Type, CheckedTypes, NatIsOptional DEF ComputeD, Optional, None
<1>4. w \in Nat /\ offer_pool <= w /\ offer = w - offer_pool
  BY <1>1, <1>3, CheckedAnswer, NatIsOptional
<1>5. new_ask_pool \in Nat /\ D \in Nat /\ OnCurve(leverage, new_ask_pool, w + 1, D)
  <2>1. w # None
    BY <1>4 DEF None
  <2> HIDE DEF leverage, D, new_ask_pool
  <2> QED
    BY <1>2, <1>3, <2>1, NewBalanceOnCurve
<1>6. ask_amount <= ask_pool /\ new_ask_pool = ask_pool - ask_amount
  BY <1>5, CheckedAnswer, NatIsOptional
<1>7. D # None
  BY <1>5 DEF None
<1>8. /\ \A d \in Nat : OnCurve(leverage, offer_pool, ask_pool, d) => d <= D
      /\ offer_pool + ask_pool > 0 => AMP_PRECISION <= leverage
  <2> HIDE DEF leverage
  <2> QED
    BY <1>2, <1>7, DNotBelow DEF D
<1> HIDE DEF leverage, D, new_ask_pool, w, offer
<1>9. ASSUME NEW d \in Nat, OnCurve(leverage, offer_pool, ask_pool, d)
      PROVE  OnCurve(leverage, offer_pool + offer + 1, ask_pool - ask_amount, d)
  <2>1. d <= D
    BY <1>8, <1>9
  <2>2. OnCurve(leverage, new_ask_pool, w + 1, d)
    <3>1. CASE d = 0
      BY <1>2, <1>4, <1>5, <3>1, AlwaysOnFirstCurve
    <3>2. CASE d # 0
      <4>1. ~(offer_pool = 0 /\ ask_pool = 0)
        BY <1>2, <1>9, <3>2, NothingOnFirstCurve
      <4> QED
        BY <1>2, <1>4, <1>5, <1>8, <2>1, <4>1, CurvesNested
    <3> QED
      BY <3>1, <3>2
  <2>3. OnCurve(leverage, w + 1, new_ask_pool, d)
    BY <1>2, <1>4, <1>5, <2>2, CurveSymmetric
  <2>4. offer_pool + offer + 1 = w + 1
    BY <1>4
  <2> QED
    BY <1>6, <2>3, <2>4
<1> QED
  BY <1>4, <1>6, <1>9 DEF leverage, offer

-----------------------------------------------------------------------------
(* Between the means.                                                      *)

(* Whether a step from v stays below the sum v + k of the reserves comes   *)
(* down to an inequality between polynomials in v, k and the difference e  *)
(* of the reserves.  Two lemmas bound what does not depend on e, ...       *)
LEMMA RoomFar ==
    ASSUME NEW v \in Nat, NEW k \in Nat, k >= 2, v >= 29, 40 * k <= v * v - 40 * v + 400
    PROVE  8 * ((v * (v * v) - v * v - (v + k) * (v + 1)) * (v + 3 * k + 3)
                  - ((v + 1) * (v + 1) + 2 * k) * (v * v + k * v + k + 1))
             >= (v + 40 * k) * ((v - 1) * (v + 3 * k + 3))
<1>1. (4 * (k * v)) * (40 * k) <= (4 * (k * v)) * (v * v - 40 * v + 400)
  BY ProductMonotone, Scale, SMT
<1>2. 8 * ((v * (v * v) - v * v - (v + k) * (v + 1)) * (v + 3 * k + 3)
             - ((v + 1) * (v + 1) + 2 * k) * (v * v + k * v + k + 1))
          - (v + 40 * k) * ((v - 1) * (v + 3 * k + 3))
          - (4 * (k * v)) * (v * v - 40 * v + 400) + (4 * (k * v)) * (40 * k)
      = (12 * k - 9) * (v * (v * v)) + (21 * k - 74) * (v * v) - (1757 * k + 37) * v
            + 80 * (k * k) + 72 * k - 8
  BY SMT
<1>3. v * v >= 29 * v /\ v * (v * v) >= 841 * v /\ v * (v * v) >= 29 * (v * v)
  BY SMT
<1> QED
  BY <1>1, <1>2, <1>3, SMT

LEMMA RoomOneBelow ==
    ASSUME NEW v \in Nat, v >= 32
    PROVE  8 * ((v * (v * v) - v * v - (v + 1) * (v + 1)) * (v + 6)
                  - ((v + 1) * (v + 1) + 2) * (v * v + v + 2))
             >= (v + 40) * ((v - 1) * (v + 6))
<1>1. 8 * ((v * (v * v) - v * v - (v + 1) * (v + 1)) * (v + 6)
             - ((v + 1) * (v + 1) + 2) * (v * v + v + 2))
         - (v + 40) * ((v - 1) * (v + 6))
      = 7 * (v * (v * v)) - 213 * (v * v) - 354 * v + 144
  BY SMT
<1>2. CASE v = 32
  BY <1>1, <1>2
<1>3. CASE v >= 33
  <2>1. v * v >= 33 * v /\ v * (v * v) >= 33 * (v * v)
    BY <1>3, SMT
  <2> QED
    BY <1>1, <1>3, <2>1, SMT
<1> QED
  BY <1>2, <1>3

(* ... the next one adds what does, ...                                    *)
LEMMA RoomWithDifference ==
    ASSUME NEW v \in Nat, NEW k \in Nat, NEW Y \in Nat, NEW e \in Int, k >= 1, v >= 27,
           e * e = k * (2 * v + k) + Y, 
           NEW B \in Int, 8 * B >= (v + 40 * k) * ((v - 1) * (v + 3 * k + 3))
    PROVE  B + Y * (v + 3 * k + 3 + (v * v + k * v + k + 1)) >= e * ((v - 1) * (v + 3 * k + 3))
<1> DEFINE t == v + 3 * k + 3
           h == v * v + k * v + k + 1
           r == (v - 1) * t
           m == v + 40 * k
<1>1. t \in Nat /\ h \in Nat /\ r \in Nat /\ m \in Nat /\ t + h \in Nat
  BY ProductMonotone, SMT
<1>2. CASE 8 * e <= m
  <2>1. (8 * e) * r <= m * r
    BY <1>1, <1>2, Scale
  <2>2. Y * (t + h) >= 0
    BY <1>1, ProductMonotone
  <2>3. 8 * B >= m * r /\ (8 * e) * r = 8 * (e * r)
    BY SMT
  <2>4. 8 * (e * r) <= 8 * B
    BY <2>1, <2>3, SMT
  <2>5. e * r <= B + Y * (t + h)
    BY <1>1, <2>2, <2>4, SMT
  <2> QED
    BY <2>5
<1>3. CASE 8 * e > m
  <2>1. m * m >= 64 * (k * (2 * v + k))
    <3>1. m * m - 64 * (k * (2 * v + k)) = (v - 24 * k) * (v - 24 * k) + 960 * (k * k)
      BY SMT
    <3>2. (v - 24 * k) * (v - 24 * k) >= 0 /\ k * k >= 0
      BY SMT
    <3> QED
      BY <3>1, <3>2, SMT
  <2>2. 64 * Y >= (8 * e - m) * (8 * e + m)
    <3>1. (8 * e - m) * (8 * e + m) = 64 * (e * e) - m * m
      BY SMT
    <3> QED
      BY <2>1, <3>1, SMT
  <2>3. (t + h) * (8 * e + m) >= 8 * r
    <3>1. 8 * e + m >= 8 /\ 8 * e + m \in Nat
      BY <1>1, <1>3, SMT
    <3>2. (t + h) * 8 <= (t + h) * (8 * e + m)
      BY <1>1, <3>1, Scale
    <3>3. (t + h) * 2 * (v + 20) >= 8 * r
      BY SMT
    <3>4. (t + h) * (2 * (v + 20)) <= (t + h) * (8 * e + m)
      BY <1>1, <1>3, Scale, SMT
    <3> QED
      BY <1>1, <3>3, <3>4, SMT
  <2>4. (8 * e - m) * (8 * r) <= (8 * e - m) * ((t + h) * (8 * e + m))
    BY <1>1, <1>3, <2>3, Scale, SMT
  <2>5. ((8 * e - m) * (8 * e + m)) * (t + h) <= (64 * Y) * (t + h)
    BY <1>1, <2>2, Scale, SMT
  <2>6. /\ (8 * e - m) * (8 * r) = 64 * (e * r) - 8 * (m * r)
        /\ (8 * e - m) * ((t + h) * (8 * e + m)) = ((8 * e - m) * (8 * e + m)) * (t + h)
        /\ (64 * Y) * (t + h) = 64 * (Y * (t + h))
    BY <1>1, SMT
  <2>7. e * r <= B + Y * (t + h)
    <3>1. 8 * B >= m * r
      OBVIOUS
    <3> QED
      BY <1>1, <2>4, <2>5, <2>6, <3>1, SMT
  <2> QED
    BY <2>7
<1> QED
  BY <1>1, <1>2, <1>3

(* ... and together they cover every pool of which both reserves are at    *)
(* least ten.  That bound is needed when k is 1 and v less than 32.        *)
LEMMA RoomBelowSum ==
    ASSUME NEW v \in Nat, NEW k \in Nat, NEW Y \in Nat, NEW e \in Int, k >= 1, v >= 20,
           e * e = k * (2 * v + k) + Y, 40 * k <= v * v - 40 * v + 400
    PROVE  (v * v - Y + 2 * (v + k) + 1) * (v * v + k * v + k + 1)
             <= (v * (v * v) - v * v - (v + k) * (v + 1) + Y - e * (v - 1)) * (v + 3 * k + 3)
<1> DEFINE t == v + 3 * k + 3
           h == v * v + k * v + k + 1
           B == (v * (v * v) - v * v - (v + k) * (v + 1)) * t - ((v + 1) * (v + 1) + 2 * k) * h
<1>1. v >= 27
  <2>1. (v - 20) * (v - 20) >= 40
    BY SMT
  <2>2. SUFFICES ASSUME v - 20 <= 6 PROVE FALSE
    OBVIOUS
  <2> QED
    BY <2>1, <2>2, SMT
<1>2. (v * (v * v) - v * v - (v + k) * (v + 1) + Y - e * (v - 1)) * t
           - (v * v - Y + 2 * (v + k) + 1) * h
        = B + Y * (t + h) - e * ((v - 1) * t)
  BY SMT
<1>3. B + Y * (t + h) >= e * ((v - 1) * t)
  <2>1. CASE k >= 2
    <3>1. v >= 29
      <4>1. (v - 20) * (v - 20) >= 80
        BY <2>1, SMT
      <4>2. SUFFICES ASSUME v - 20 <= 8 PROVE FALSE
        OBVIOUS
      <4> QED
        BY <1>1, <4>1, <4>2, SMT
    <3>2. B \in Int /\ 8 * B >= (v + 40 * k) * ((v - 1) * (v + 3 * k + 3))
      BY <2>1, <3>1, RoomFar
    <3> HIDE DEF B
    <3> QED
      BY <1>1, <3>2, RoomWithDifference
  <2>2. CASE k = 1 /\ v >= 32
    BY <2>2, RoomOneBelow, RoomWithDifference, SMT
  <2>3. CASE k = 1 /\ v \in 27 .. 31
    <3>1. CASE e <= 7
      <4>1. e <= -7
        BY <1>1, <2>3, <3>1, SMT
      <4> QED
       BY <2>3, <4>1, SMT
    <3>2. CASE e >= 8
      <4>1. e * e >= 16 * e - 64
        <5>1. (e - 8) * (e - 8) >= 0
          BY SMT
        <5> QED
          BY <5>1, SMT
      <4>2. CASE v = 27
        BY <2>3, <3>2, <4>1, <4>2, SMT
      <4>3. CASE v = 28
        BY <2>3, <3>2, <4>1, <4>3, SMT
      <4>4. CASE v = 29
        BY <2>3, <3>2, <4>1, <4>4, SMT
      <4>5. CASE v = 30
        BY <2>3, <3>2, <4>1, <4>5, SMT
      <4>6. CASE v = 31
        BY <2>3, <3>2, <4>1, <4>6, SMT
      <4> QED
        BY <2>3, <4>2, <4>3, <4>4, <4>5, <4>6
    <3> QED
      BY <3>1, <3>2
  <2> QED
    BY <1>1, <2>1, <2>2, <2>3
<1> QED
  BY <1>2, <1>3, SMT

(* At the sum S of the reserves the two rounded quotients of a step differ *)
(* by S exactly.                                                           *)
LEMMA QuotientsAtSum ==
    ASSUME NEW A \in Nat \ {0}, NEW lev \in Nat, A <= lev, NEW S \in Nat,
           NEW N \in Nat, NEW Q \in Nat,
           A * N <= lev * S, lev * S < A * N + A,
           A * Q <= S * (lev - A), S * (lev - A) < A * Q + A
    PROVE  N = Q + S
<1>1. S * (lev - A) = lev * S - A * S
  BY SMT
<1>2. A * (Q + S) <= A * N + A - 1
  BY <1>1, SMT
<1>3. A * N <= A * (Q + S) + A - 1
  BY <1>1, SMT
<1>4. SUFFICES ASSUME N # Q + S PROVE FALSE
  OBVIOUS
<1>5. CASE N + 1 <= Q + S
  <2>1. A * (N + 1) <= A * (Q + S)
    BY <1>5, Scale, SMT
  <2> QED
    BY <1>2, <2>1, SMT
<1>6. CASE Q + S + 1 <= N
  <2>1. A * (Q + S + 1) <= A * N
    BY <1>6, Scale, SMT
  <2> QED
    BY <1>3, <2>1, SMT
<1> QED
  BY <1>4, <1>5, <1>6

(* A step from the sum of the reserves does not pass it, ...               *)
LEMMA StepFromSum ==
    ASSUME NEW A \in Nat \ {0}, NEW lev \in Nat, 2 * A <= lev,
           NEW a \in Nat, NEW b \in Nat, a >= 10, b >= 10, NEW S \in Nat, S = a + b,
           NEW P \in Nat, NEW N \in Nat, NEW Q \in Nat,
           A * N <= lev * S, lev * S < A * N + A,
           A * Q <= S * (lev - A), S * (lev - A) < A * Q + A,
           S * (S * S) <= P * (4 * (a * b) + 2 * S + 1) + 2 * (a * S) + 4 * (a * b) + 2 * b
    PROVE  (N + 2 * P) * S < (S + 1) * (Q + 3 * P)
<1>1. N = Q + S
  BY QuotientsAtSum, SMT
<1>2. N >= 2 * S
  <2>1. (2 * A) * S <= lev * S
    BY Scale, SMT
  <2>2. SUFFICES ASSUME N + 1 <= 2 * S PROVE FALSE
    OBVIOUS
  <2>3. A * (N + 1) <= A * (2 * S)
    BY <2>2, Scale, SMT
  <2> QED
    BY <2>1, <2>3, SMT
<1>3. P >= S - 3
  <2> DEFINE e == a - b
             M == 4 * (a * b) + 2 * S + 1
  <2>1. SUFFICES ASSUME P <= S - 4 PROVE FALSE
    OBVIOUS
  <2>2. S * (S * S) - 2 * (a * S) - 4 * (a * b) - 2 * b - (S - 4) * M
          = (e * e) * (S - 3) - e * (S - 1) + 6 * S + 4
    BY SMT
  <2>3. P * M <= (S - 4) * M
    <3>1. M \in Nat
      BY ProductMonotone, SMT
    <3> QED
      BY <2>1, <3>1, Scale, SMT
  <2>4. (e * e) * (S - 3) - e * (S - 1) + 6 * S + 4 > 0
    <3>1. CASE e <= 1
      <4>1. e * (S - 1) <= 1 * (S - 1)
        BY <3>1, Scale, SMT
      <4>2. (e * e) * (S - 3) >= 0
        BY SMT
      <4> QED
        BY <4>1, <4>2, SMT
    <3>2. CASE e >= 2
      <4>1. e * e >= 2 * e
        BY <3>2, SMT
      <4>2. (e * e) * (S - 3) >= (2 * e) * (S - 3)
        BY <4>1, Scale, SMT
      <4>3. e * (2 * (S - 3) - (S - 1)) >= 0
        BY <3>2, SMT
      <4> QED
        BY <4>2, <4>3, SMT
    <3> QED
      BY <3>1, <3>2
  <2> HIDE DEF e
  <2> QED
    BY <2>2, <2>3, <2>4, SMT
<1>4. (S + 1) * (Q + 3 * P) - (N + 2 * P) * S = N - S * S - S + S * P + 3 * P
  BY <1>1, SMT
<1>5. (S + 3) * (S - 3) <= (S + 3) * P
  BY <1>3, Scale, SMT
<1> QED
  BY <1>2, <1>4, <1>5, SMT

(* ... nor does a step from below.                                         *)
LEMMA StepFromBelowSum ==
    ASSUME NEW A \in Nat \ {0}, NEW lev \in Nat, 2 * A <= lev,
           NEW a \in Nat, NEW b \in Nat, a >= 10, b >= 10, NEW S \in Nat, S = a + b,
           NEW v \in Nat, v < S, 4 * (a * b) <= v * v,
           NEW P \in Nat, NEW N \in Nat, NEW Q \in Nat,
           A * N <= lev * S, v * (lev - A) < A * Q + A,
           v * (v * v) <= P * (4 * (a * b) + 2 * S + 1) + 2 * (a * v) + 4 * (a * b) + 2 * b
    PROVE  (N + 2 * P) * v < (S + 1) * (Q + 3 * P)
<1> DEFINE X == 4 * (a * b)
           M == X + 2 * S + 1
           t == 3 * S + 3 - 2 * v
           h == v * (S - 1) + S + 1
           k == S - v
           e == a - b
           Y == v * v - X
<1>1. t \in Nat /\ h \in Nat /\ M \in Nat \ {0} /\ k \in Nat /\ k >= 1 /\ e \in Int /\ Y \in Nat
  BY ProductMonotone, SMT
<1>2. v >= 20
  <2>1. a * b >= 100
    BY SMT
  <2> QED
    BY <2>1, SMT
<1>3. e * e = k * (2 * v + k) + Y
  BY SMT
<1>4. 40 * k <= v * v - 40 * v + 400
  <2>1. e * e <= (S - 20) * (S - 20)
    BY SMT
  <2>2. (S - 20) * (S - 20) = k * (2 * v + k) + v * v - 40 * (v + k) + 400
    BY SMT
  <2> QED
    BY <1>1, <1>3, <2>1, <2>2, SMT
<1>5. M * h <= (v * (v * v) - 2 * (a * v) - X - 2 * b) * t
  <2>1. (v * v - Y + 2 * (v + k) + 1) * (v * v + k * v + k + 1)
             <= (v * (v * v) - v * v - (v + k) * (v + 1) + Y - e * (v - 1)) * (v + 3 * k + 3)
    <3> HIDE DEF k, e, Y
    <3> QED
      BY <1>1, <1>2, <1>3, <1>4, RoomBelowSum
  <2>2. /\ v * v - Y + 2 * (v + k) + 1 = M
        /\ v * v + k * v + k + 1 = h
        /\ v * (v * v) - v * v - (v + k) * (v + 1) + Y - e * (v - 1) = v * (v * v) - 2 * (a * v) - X - 2 * b
        /\ v + 3 * k + 3 = t
    BY SMT
  <2> QED
    BY <2>1, <2>2
<1>6. h <= P * t
  <2>1. (v * (v * v) - 2 * (a * v) - X - 2 * b) * t <= (P * M) * t
    BY <1>1, Scale, SMT
  <2>2. M * h <= M * (P * t)
    BY <1>5, <2>1, SMT
  <2> HIDE DEF M, t, h
  <2> QED
    BY <1>1, <2>2, CancelFactor, ProductMonotone
<1>7. N * v - (S + 1) * Q < h
  <2>1. v * (A * N) <= v * (lev * S)
    BY Scale, SMT
  <2>2. (S + 1) * (v * (lev - A) - A + 1) <= (S + 1) * (A * Q)
    BY Scale, SMT
  <2>3. v * (2 * A) <= v * lev
    BY Scale, SMT
  <2>4. A * (N * v - (S + 1) * Q) = v * (A * N) - (S + 1) * (A * Q)
    BY SMT
  <2>5. (S + 1) * (v * (lev - A) - A + 1) = v * (lev * S) + v * lev - (S + 1) * ((v + 1) * A) + S + 1
    BY SMT
  <2>6. A * h = (S + 1) * ((v + 1) * A) - v * (2 * A)
    BY SMT
  <2>7. A * (N * v - (S + 1) * Q) < A * h
    BY <2>1, <2>2, <2>3, <2>4, <2>5, <2>6, SMT
  <2>8. SUFFICES ASSUME h <= N * v - (S + 1) * Q PROVE FALSE
    BY <1>1, SMT
  <2>9. A * h <= A * (N * v - (S + 1) * Q)
    BY <1>1, <2>8, Scale, SMT
  <2> QED
    BY <1>1, <2>7, <2>9, SMT
<1>8. (S + 1) * (Q + 3 * P) - (N + 2 * P) * v = P * t - (N * v - (S + 1) * Q)
  BY SMT
<1> QED
  BY <1>1, <1>6, <1>7, <1>8, SMT

(* A step from at least the constant-product value, whose square is X,     *)
(* does not fall below it.                                                 *)
LEMMA StepAboveProduct ==
    ASSUME NEW A \in Nat \ {0}, NEW lev \in Nat, 2 * A <= lev,
           NEW S \in Nat, NEW X \in Nat, NEW v \in Nat, v <= S, X <= v * v,
           NEW P \in Nat, NEW N \in Nat, NEW Q \in Nat, NEW w \in Nat,
           A * N <= lev * S, lev * S < A * N + A,
           A * Q <= v * (lev - A), v * (lev - A) < A * Q + A,
           P * (X + 2 * S + 1) <= v * (v * v),
           (N + 2 * P) * v < (w + 1) * (Q + 3 * P)
    PROVE  X <= w * w
<1> DEFINE u == w + 1
           M == X + 2 * S + 1
<1>1. SUFFICES ASSUME w * w + 1 <= X PROVE FALSE
  OBVIOUS
<1>2. u <= v
  <2>1. SUFFICES ASSUME v <= w PROVE FALSE
    OBVIOUS
  <2>2. v * v <= w * w
    BY <2>1, SMT
  <2> QED
    BY <1>1, <2>2, SMT
<1>3. u * u + 3 + 2 * (S - u) <= M
  BY <1>1, SMT
<1>4. CASE u = S
  <2>1. v = S
    BY <1>2, <1>4
  <2>2. N = Q + S
    BY <2>1, QuotientsAtSum, SMT
  <2>3. P >= S + 1
    <3>1. (Q + S + 2 * P) * S < S * (Q + 3 * P)
      BY <1>4, <2>1, <2>2
    <3>2. S * (Q + 3 * P) - (Q + S + 2 * P) * S = S * (P - S)
      BY SMT
    <3>3. S * (P - S) > 0
      BY <3>1, <3>2, SMT
    <3>4. SUFFICES ASSUME P - S <= 0 PROVE FALSE
      OBVIOUS
    <3>5. S * (P - S) <= S * 0
      BY <3>4, Scale, SMT
    <3> QED
      BY <3>3, <3>5, SMT
  <2>4. (S + 1) * (S * S) <= P * M
    <3>1. (S + 1) * (S * S) <= P * (S * S)
      BY <2>3, Scale, SMT
    <3>2. P * (S * S) <= P * M
      BY <1>3, <1>4, Scale, SMT
    <3> QED
      BY <3>1, <3>2, SMT
  <2>5. S > 0
    BY <1>4
  <2> QED
    BY <2>1, <2>4, <2>5, SMT
<1>5. CASE u + 1 <= S
  <2> DEFINE t == 3 * u - 2 * v
  <2>1. v * (u + 1) <= N * v - u * Q
    <3>1. v * (lev * S - A + 1) <= v * (A * N)
      BY Scale, SMT
    <3>2. u * (A * Q) <= u * (v * (lev - A))
      BY Scale, SMT
    <3>3. v * (lev * S - A + 1) - u * (v * (lev - A)) = v * (lev * (S - u) - A + u * A + 1)
      BY SMT
    <3>4. lev * (S - u) >= 2 * A
      <4>1. lev * 1 <= lev * (S - u)
        BY <1>5, Scale, SMT
      <4> QED
        BY <4>1, SMT
    <3>5. v * (A * (u + 1)) <= v * (lev * (S - u) - A + u * A + 1)
      <4>1. A * (u + 1) <= lev * (S - u) - A + u * A + 1
        BY <3>4, SMT
      <4> QED
        BY <4>1, Scale, SMT
    <3>6. A * (N * v - u * Q) = v * (A * N) - u * (A * Q)
      BY SMT
    <3>7. A * (v * (u + 1)) <= A * (N * v - u * Q)
      BY <3>1, <3>2, <3>3, <3>5, <3>6, SMT
    <3>8. SUFFICES ASSUME N * v - u * Q + 1 <= v * (u + 1) PROVE FALSE
      BY SMT
    <3>9. A * (N * v - u * Q + 1) <= A * (v * (u + 1))
      BY <3>8, Scale, SMT
    <3> QED
      BY <3>7, <3>9, SMT
  <2>2. v * (u + 1) < P * t
    <3>1. P * t = u * (3 * P) - (2 * P) * v
      BY SMT
    <3>2. (N + 2 * P) * v - u * (Q + 3 * P) = (N * v - u * Q) - (u * (3 * P) - (2 * P) * v)
      BY SMT
    <3> QED
      BY <2>1, <3>1, <3>2, SMT
  <2>3. t \in Nat
    <3>1. SUFFICES ASSUME t <= 0 PROVE FALSE
      BY SMT
    <3>2. P * t <= P * 0
      BY <3>1, Scale, SMT
    <3> QED
      BY <2>2, <3>2, SMT
  <2>4. (v * (u + 1)) * M <= (P * t) * M
    BY <2>2, Scale, SMT
  <2>5. (P * M) * t <= (v * (v * v)) * t
    BY <2>3, Scale, SMT
  <2>6. (v * (v * v)) * t <= v * (u * (u * u))
    <3>1. (v * v) * t <= u * (u * u)
      BY CubeAboveTangent, SMT
    <3>2. v * ((v * v) * t) <= v * (u * (u * u))
      BY <3>1, Scale, SMT
    <3> QED
      BY <3>2, SMT
  <2>7. (v * (u + 1)) * (u * u + 5) <= (v * (u + 1)) * M
    BY <1>3, <1>5, Scale, SMT
  <2>8. (v * (u + 1)) * (u * u + 5) > v * (u * (u * u))
    <3>1. v > 0
      BY <1>2
    <3>2. (v * (u + 1)) * (u * u + 5) = v * (u * (u * u)) + v * (u * u + 5 * u + 5)
      BY SMT
    <3>3. v * (u * u + 5 * u + 5) > 0
      BY <3>1, SMT
    <3> QED
      BY <3>2, <3>3, SMT
  <2>9. (P * t) * M = (P * M) * t
    BY SMT
  <2>10. /\ (v * (u + 1)) * (u * u + 5) \in Int /\ v * (u * (u * u)) \in Int
         /\ (v * (u + 1)) * M \in Int /\ (P * M) * t \in Int /\ (v * (v * v)) * t \in Int
    BY SMT
  <2> HIDE DEF u, M, t
  <2> QED
    BY <2>4, <2>5, <2>6, <2>7, <2>8, <2>9, <2>10
<1> QED
  BY <1>2, <1>4, <1>5

(* A checked operation answers when the exact result fits.                 *)
LEMMA CheckedFits ==
    ASSUME MathAssumption, NEW a \in Nat, NEW b \in Nat
    PROVE  /\ a + b <= MaxU256 => a \oplus b = a + b
           /\ b <= a => a \ominus b = a - b
           /\ a * b <= MaxU256 => a \otimes b = a * b
           /\ b # 0 => a \oslash b = a \div b
<1>1. None \notin {a, b} /\ MaxU256 \in Nat
  BY DEF None, MathAssumption
<1>2. a + b <= MaxU256 => a \oplus b = a + b
  BY <1>1 DEF \oplus
<1>3. b <= a => a \ominus b = a - b
  BY <1>1 DEF \ominus
<1>4. b # 0 => a \oslash b = a \div b
  BY <1>1 DEF \oslash
<1>5. ASSUME a * b <= MaxU256 PROVE a \otimes b = a * b
  <2>1. SUFFICES ASSUME b # 0, a > MaxU256 \div b PROVE FALSE
    BY <1>1 DEF \otimes
  <2> DEFINE q == MaxU256 \div b
  <2>2. q \in Nat /\ MaxU256 < q * b + b
    BY <1>1, <2>1, DivisionFacts
  <2> HIDE DEF q
  <2>3. (q + 1) * b <= a * b
    BY <2>1, <2>2, ProductMonotone DEF q
  <2>4. (q + 1) * b = q * b + b
    BY <2>2, SuccessorProduct
  <2> QED
    BY <1>1, <1>5, <2>2, <2>3, <2>4
<1> QED
  BY <1>2, <1>3, <1>4, <1>5

(* d_product is not much less than its exact value.                        *)
LEMMA DProductAbove ==
    ASSUME MathAssumption, NEW v \in Nat, NEW a \in Nat, NEW b \in Nat,
           v * v <= MaxU256, v * (v * v) <= MaxU256
    PROVE  /\ DProduct(v, a, b) \in Nat
           /\ v * (v * v) <= DProduct(v, a, b) * (4 * (a * b) + 2 * (a + b) + 1)
                                 + 2 * (a * v) + 4 * (a * b) + 2 * b
<1> DEFINE p == 2 * a + 1
           q == 2 * b + 1
           first == (v * v) \div p
           P == (first * v) \div q
<1>1. p \in Nat \ {0} /\ q \in Nat \ {0}
  OBVIOUS
<1>2. v * v \in Nat /\ v * (v * v) \in Nat
  BY ProductMonotone
<1>3. first \in Nat /\ first * p <= v * v /\ v * v < first * p + p
  BY <1>1, <1>2, DivisionFacts
<1>4. first <= v * v
  <2>1. first * 1 <= first * p
    BY <1>1, <1>3, ProductMonotone
  <2> QED
    BY <1>1, <1>2, <1>3, <2>1
<1>5. first * v \in Nat /\ first * v <= MaxU256
  <2>1. first * v <= (v * v) * v /\ first * v \in Nat
    BY <1>2, <1>3, <1>4, ProductMonotone
  <2> QED
    BY <1>2, <2>1, SMT DEF MathAssumption
<1>6. P \in Nat /\ first * v < P * q + q
  BY <1>1, <1>5, DivisionFacts
<1>7. DProduct(v, a, b) = P
  <2>1. v \otimes v = v * v
    BY CheckedFits
  <2>2. (v * v) \oslash p = first
    BY <1>1, <1>2, CheckedFits
  <2>3. first \otimes v = first * v
    BY <1>3, <1>5, CheckedFits
  <2>4. (first * v) \oslash q = P
    BY <1>1, <1>5, CheckedFits
  <2>5. DProduct(v, a, b) = (((v \otimes v) \oslash p) \otimes v) \oslash q
    BY DEF DProduct, N_COINS
  <2> QED
    BY <2>1, <2>2, <2>3, <2>4, <2>5
<1> HIDE DEF p, q, first, P
<1>8. v * (v * v) <= v * (first * p + 2 * a)
  BY <1>1, <1>2, <1>3, Scale DEF p
<1>9. (first * v) * p <= (P * q + 2 * b) * p
  BY <1>1, <1>5, <1>6, Scale DEF q
<1>10. /\ v * (first * p + 2 * a) = (first * v) * p + 2 * (a * v)
       /\ (P * q + 2 * b) * p = P * (p * q) + (2 * b) * p
  BY <1>1, <1>3, <1>6, SMT
<1>11. p * q = 4 * (a * b) + 2 * (a + b) + 1 /\ (2 * b) * p = 4 * (a * b) + 2 * b
  BY DivisorProduct, SMT DEF p, q
<1>12. /\ P * (p * q) \in Int /\ (2 * b) * p \in Int /\ 2 * (a * v) \in Int /\ a * b \in Int
       /\ (first * v) * p \in Int
  BY <1>1, <1>3, <1>6
<1>13. v * (v * v) <= P * (p * q) + (2 * b) * p + 2 * (a * v)
  BY <1>2, <1>8, <1>9, <1>10, <1>12
<1> QED
  BY <1>6, <1>7, <1>11, <1>12, <1>13

(* calculate_step answers when the sum of the reserves and the leverage    *)
(* leave room in 256 bits.                                                 *)
LEMMA CalculateStepFits ==
    ASSUME MathAssumption, ParameterAssumption, NEW leverage \in Nat, 2 * AMP_PRECISION <= leverage,
           NEW S \in Nat, S >= 2, NEW v \in Nat, v >= 1, v <= S, NEW P \in Nat,
           P * (2 * S + 1) <= v * (v * v),
           (leverage + S) * (S * S) <= MaxU256
    PROVE  CalculateStep(v, leverage, S, P) # None
<1> DEFINE A == AMP_PRECISION
           L == leverage * S
           s == S * S
           N == L \div A
           Q == (v * (leverage - A)) \div A
<1>1. A \in Nat \ {0} /\ leverage - A \in Nat
  BY DEF ParameterAssumption
<1>2. L \in Nat /\ s \in Nat /\ v * (leverage - A) \in Nat /\ L * S \in Nat /\ s * S \in Nat
  BY <1>1, ProductMonotone
<1>3. L * S + s * S <= MaxU256 /\ MaxU256 \in Nat
  <2>1. L * S + s * S = (leverage + S) * (S * S)
    BY SMT
  <2> QED
    BY <2>1 DEF MathAssumption
<1>4. 2 * P <= s
  <2>1. v * v <= s /\ v * v \in Nat
    BY MonotoneSquare
  <2>2. v * (v * v) <= S * (v * v) /\ S * (v * v) <= S * s
    BY <1>2, <2>1, ProductMonotone
  <2>3. S * (2 * P) <= P * (2 * S + 1)
    <3>1. P * (2 * S + 1) = S * (2 * P) + P
      BY SMT
    <3> QED
      BY <3>1, SMT
  <2>4. S * (2 * P) <= S * s
    <3>1. v * (v * v) \in Nat /\ S * (v * v) \in Nat /\ S * s \in Nat /\ S * (2 * P) \in Nat
          /\ P * (2 * S + 1) \in Nat
      BY <1>2, <2>1, ProductMonotone
    <3> QED
      BY <2>2, <2>3, <3>1
  <2> QED
    BY <1>2, <2>4, CancelFactor
<1>5. v * (leverage - A) <= L
  <2>1. v * (leverage - A) <= S * (leverage - A)
    BY <1>1, ProductMonotone
  <2>2. S * (leverage - A) <= S * leverage /\ S * leverage = L
    BY <1>1, ProductMonotone
  <2> QED
    BY <1>1, <1>2, <2>1, <2>2
<1>6. N \in Nat /\ N <= L
  <2>1. N \in Nat /\ N * A <= L
    BY <1>1, <1>2, DivisionFacts
  <2>2. N * 1 <= N * A
    BY <1>1, <2>1, ProductMonotone
  <2> QED
    BY <1>1, <1>2, <2>1, <2>2
<1>7. Q \in Nat /\ Q <= L /\ Q # 0
  <2>1. Q \in Nat /\ Q * A <= v * (leverage - A) /\ v * (leverage - A) < Q * A + A
    BY <1>1, <1>2, DivisionFacts
  <2>2. Q * 1 <= Q * A
    BY <1>1, <2>1, ProductMonotone
  <2>3. v * (leverage - A) >= 1 * (leverage - A)
    BY <1>1, ProductMonotone
  <2> QED
    BY <1>1, <1>2, <1>5, <2>1, <2>2, <2>3
<1>8. L * 2 <= L * S /\ s * 2 <= s * S
  BY <1>2, ProductMonotone
<1>9. (N + 2 * P) * v <= L * S + s * S /\ (N + 2 * P) * v \in Nat
  <2>1. (N + 2 * P) * v <= (L + s) * v /\ (N + 2 * P) * v \in Nat
    BY <1>2, <1>4, <1>6, ProductMonotone
  <2>2. (L + s) * v <= (L + s) * S /\ (L + s) * v \in Nat
    BY <1>2, ProductMonotone
  <2>3. (L + s) * S = L * S + s * S
    BY <1>2, SMT
  <2> HIDE DEF L, s, N
  <2> QED
    BY <1>2, <2>1, <2>2, <2>3
<1> HIDE DEF L, s, N, Q
<1>10. leverage \otimes S = L /\ L \oslash A = N
  <2>1. L <= MaxU256
    BY <1>2, <1>3, <1>8
  <2>2. leverage \otimes S = L
    BY <2>1, CheckedFits DEF L
  <2>3. L \oslash A = N
    BY <1>1, <1>2, CheckedFits DEF N
  <2> QED
    BY <2>2, <2>3
<1>11. P \otimes 2 = 2 * P /\ N \oplus (2 * P) = N + 2 * P
  <2>1. P * 2 <= MaxU256 /\ N + 2 * P <= MaxU256 /\ P * 2 = 2 * P
    BY <1>2, <1>3, <1>4, <1>6, <1>8
  <2> QED
    BY <1>6, <2>1, CheckedFits
<1>12. (N + 2 * P) \otimes v = (N + 2 * P) * v
  <2>1. (N + 2 * P) * v <= MaxU256
    BY <1>2, <1>3, <1>9
  <2> QED
    BY <1>6, <2>1, CheckedFits
<1>13. leverage \ominus A = leverage - A
  BY <1>1, CheckedFits
<1>14. v \otimes (leverage - A) = v * (leverage - A) /\ (v * (leverage - A)) \oslash A = Q
  <2>1. v * (leverage - A) <= MaxU256
    BY <1>2, <1>3, <1>5, <1>8
  <2> QED
    BY <1>1, <1>2, <2>1, CheckedFits DEF Q
<1>15. P \otimes 3 = 3 * P /\ Q \oplus (3 * P) = Q + 3 * P
  <2>1. P * 3 <= MaxU256 /\ Q + 3 * P <= MaxU256 /\ P * 3 = 3 * P
    BY <1>2, <1>3, <1>4, <1>7, <1>8
  <2> QED
    BY <1>7, <2>1, CheckedFits
<1>16. ((N + 2 * P) * v) \oslash (Q + 3 * P) = ((N + 2 * P) * v) \div (Q + 3 * P)
  BY <1>7, <1>9, CheckedFits
<1>17. ((N + 2 * P) * v) \div (Q + 3 * P) \in Nat
  BY <1>7, <1>9, DivisionFacts
<1>18. CalculateStep(v, leverage, S, P) = ((N + 2 * P) * v) \oslash (Q + 3 * P)
  BY <1>10, <1>11, <1>12, <1>13, <1>14, <1>15 DEF CalculateStep, N_COINS
<1> QED
  BY <1>16, <1>17, <1>18 DEF None

(* A pass of compute_d that starts between the constant-product value and  *)
(* the constant-sum value of the pool answers, and ends there.             *)
LEMMA ImprovedBetweenMeans ==
    ASSUME MathAssumption, ParameterAssumption, NEW leverage \in Nat, 2 * AMP_PRECISION <= leverage,
           NEW a \in Nat, NEW b \in Nat, a >= 10, b >= 10,
           (leverage + (a + b)) * ((a + b) * (a + b)) <= MaxU256,
           NEW v \in Nat, 4 * (a * b) <= v * v, v <= a + b
    PROVE  /\ ImproveD(leverage, a, b, v) \in Nat
           /\ 4 * (a * b) <= ImproveD(leverage, a, b, v) * ImproveD(leverage, a, b, v)
           /\ ImproveD(leverage, a, b, v) <= a + b
<1> DEFINE A == AMP_PRECISION
           P == DProduct(v, a, b)
           S == a + b
           X == 4 * (a * b)
           w == ImproveD(leverage, a, b, v)
<1>1. A \in Nat \ {0} /\ S \in Nat /\ X \in Nat /\ X >= 400
  <2>1. a * b >= 100
    BY SMT
  <2> QED
    BY <2>1, ProductMonotone DEF ParameterAssumption
<1>2. v >= 1
  <2>1. v # 0
    BY <1>1
  <2> QED
    BY <2>1
<1>3. v * v <= MaxU256 /\ v * (v * v) <= MaxU256
  <2>1. v * v <= S * S /\ v * v \in Nat /\ S * S \in Nat
    BY <1>1, MonotoneSquare
  <2>2. v * (v * v) <= S * (v * v) /\ S * (v * v) <= S * (S * S)
    BY <1>1, <2>1, ProductMonotone
  <2>3. S * (S * S) <= (leverage + S) * (S * S)
    BY <1>1, <2>1, ProductMonotone
  <2>4. 1 * (v * v) <= v * (v * v) /\ v * (v * v) \in Nat
    BY <1>2, <2>1, ProductMonotone
  <2>5. S * (v * v) \in Nat /\ S * (S * S) \in Nat /\ (leverage + S) * (S * S) \in Nat
    BY <1>1, <2>1, ProductMonotone
  <2> QED
    BY <2>1, <2>2, <2>3, <2>4, <2>5 DEF MathAssumption
<1>4. /\ P \in Nat
      /\ v * (v * v) <= P * (X + 2 * S + 1) + 2 * (a * v) + X + 2 * b
  BY <1>3, DProductAbove
<1>5. P * (X + 2 * S + 1) <= v * (v * v)
  <2>1. P # None
    BY <1>4 DEF None
  <2> QED
    BY <2>1, DProductBelow
<1>6. w = CalculateStep(v, leverage, S, P)
  BY DEF ImproveD
<1>7. w # None
  <2>1. P * (2 * S + 1) <= P * (X + 2 * S + 1)
    BY <1>1, <1>4, ProductMonotone
  <2>2. P * (2 * S + 1) \in Nat /\ P * (X + 2 * S + 1) \in Nat /\ v * (v * v) \in Nat
    BY <1>1, <1>4, ProductMonotone
  <2>3. P * (2 * S + 1) <= v * (v * v)
    BY <1>5, <2>1, <2>2
  <2> HIDE DEF P
  <2> QED
    BY <1>1, <1>2, <1>4, <1>6, <2>3, CalculateStepFits
<1> HIDE DEF P, w
<1>8. w \in Nat /\ IsStep(w, v, leverage, S, P)
  BY <1>1, <1>4, <1>6, <1>7, CalculateStepValue
<1>9. PICK N \in Nat, Q \in Nat :
            /\ A * N <= leverage * S
            /\ leverage * S < A * N + A
            /\ A * Q <= v * (leverage - A)
            /\ v * (leverage - A) < A * Q + A
            /\ Q + 3 * P > 0
            /\ w = ((N + 2 * P) * v) \div (Q + 3 * P)
  BY <1>8 DEF IsStep
<1> DEFINE l == (N + 2 * P) * v
           r == Q + 3 * P
<1>10. l \in Nat /\ r \in Nat \ {0} /\ w * r <= l /\ l < w * r + r
  <2>1. l \in Nat /\ r \in Nat \ {0}
    BY <1>4, <1>9, ProductMonotone
  <2> QED
    BY <1>9, <2>1, DivisionFacts
<1>11. l < (w + 1) * r
  BY <1>8, <1>10, SuccessorProduct
<1>12. X <= w * w
  <2> HIDE DEF A, X, S
  <2>1. 2 * A <= leverage /\ v <= S /\ X <= v * v
    BY DEF A, X, S
  <2>2. (N + 2 * P) * v < (w + 1) * (Q + 3 * P)
    BY <1>11
  <2>3. /\ A * N <= leverage * S /\ leverage * S < A * N + A
        /\ A * Q <= v * (leverage - A) /\ v * (leverage - A) < A * Q + A
    BY <1>9
  <2>4. P * (X + 2 * S + 1) <= v * (v * v)
    BY <1>5
  <2> HIDE DEF l, r
  <2> QED
    BY <1>1, <1>4, <1>8, <2>1, <2>2, <2>3, <2>4, StepAboveProduct
<1>13. l < (S + 1) * r
  <2> HIDE DEF A, S
  <2>1. 2 * A <= leverage /\ v <= S /\ S = a + b
    BY DEF A, S
  <2>2. CASE v = S
    BY <1>1, <1>4, <1>9, <2>1, <2>2, StepFromSum
  <2>3. CASE v < S
    BY <1>1, <1>4, <1>9, <2>1, <2>3, StepFromBelowSum
  <2> QED
    BY <1>1, <2>1, <2>2, <2>3
<1>14. w <= S
  <2> HIDE DEF l, r
  <2>1. SUFFICES ASSUME S + 1 <= w PROVE FALSE
    BY <1>1, <1>8
  <2>2. (S + 1) * r <= w * r /\ (S + 1) * r \in Nat /\ w * r \in Nat
    BY <1>1, <1>8, <1>10, <2>1, ProductMonotone
  <2> QED
    BY <1>10, <1>13, <2>2
<1> QED
  BY <1>8, <1>12, <1>14 DEF w

(* compute_d answers between the constant-product value and the            *)
(* constant-sum value of a pool that is not tiny and leaves room in 256    *)
(* bits.                                                                   *)
LEMMA DBetween ==
    ASSUME MathAssumption, ParameterAssumption, NEW leverage \in Nat, 2 * AMP_PRECISION <= leverage,
           NEW a \in Nat, NEW b \in Nat, a >= 10, b >= 10, a + b <= MaxU128,
           (leverage + (a + b)) * ((a + b) * (a + b)) <= MaxU256
    PROVE  /\ ComputeD(leverage, a, b) \in Nat
           /\ 4 * (a * b) <= ComputeD(leverage, a, b) * ComputeD(leverage, a, b)
           /\ ComputeD(leverage, a, b) <= a + b
<1> DEFINE S == a + b
           step == [v \in Nat |-> ImproveD(leverage, a, b, v)]
           V == {v \in Nat : 4 * (a * b) <= v * v /\ v <= S}
<1>1. S \in V
  BY MeansSquared
<1>2. \A v \in Nat : step[v] = ImproveD(leverage, a, b, v)
  OBVIOUS
<1>3. \A v \in V : step[v] \in V
  BY <1>2, ImprovedBetweenMeans
<1>4. step \in [Nat -> Optional]
  <2>1. \A v \in Nat : ImproveD(leverage, a, b, v) \in Optional
    BY ImprovedIsNotBelow DEF Optional
  <2> QED
    BY <2>1
<1>5. ToU128(a \oplus b) = S
  <2>1. S <= MaxU256
    <3>1. MaxU128 <= MaxU128 * MaxU128
      BY ProductMonotone DEF MathAssumption
    <3> QED
      BY <3>1 DEF MathAssumption
  <2>2. a \oplus b = S
    BY <2>1, CheckedFits
  <2>3. S \in U128
    BY DEF U128, MathAssumption
  <2> QED
    BY <2>2, <2>3 DEF ToU128
<1>6. ComputeD(leverage, a, b) = ToU128(Newton(step, S))
  BY <1>5 DEF ComputeD, None
<1> HIDE DEF step
<1>7. PICK v \in V : Newton(step, S) = step[v]
  BY <1>1, <1>3, <1>4, NewtonAnswer
<1>8. Newton(step, S) \in V
  BY <1>3, <1>7
<1>9. ToU128(Newton(step, S)) = Newton(step, S)
  BY <1>8 DEF ToU128, U128, MathAssumption
<1> QED
  BY <1>6, <1>8, <1>9
=============================================================================
