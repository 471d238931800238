------------------------- MODULE AmpHistory_proofs -------------------------
(***************************************************************************)
(* The history of the amplification obeys AmpPath for every value of the   *)
(* constants.  The heart of it is arithmetic: two ramps can share a window *)
(* of MIN_AMP_CHANGING_TIME seconds, the end of one and the beginning of   *)
(* the next, and together they still do not exceed one factor.             *)
(***************************************************************************)
EXTENDS AmpHistory, AmpRamp_proofs, SequenceTheorems

(* A positive factor cancels.                                              *)
LEMMA Cancel ==
    ASSUME NEW a \in Int, NEW b \in Int, NEW c \in Nat \ {0}, c * a <= c * b
    PROVE  a <= b
<1>1. SUFFICES ASSUME b + 1 <= a PROVE FALSE
  OBVIOUS
<1>2. PICK x \in Nat : a = b + 1 + x
  BY <1>1, a - b - 1 \in Nat
<1>3. c * a = c * b + c + c * x
  BY <1>2
<1>4. c * x \in Nat
  BY ProductMonotone
<1> QED
  BY <1>3, <1>4

(* A ramp of length L upwards from p has risen h * e / L when it began e   *)
(* seconds ago.  Its value s of at most d seconds earlier (d2 of them on   *)
(* the ramp) is not too far below its value u of now.                      *)
LEMMA RisenSince ==
    ASSUME NEW K \in Nat, NEW W \in Nat \ {0}, NEW L \in Nat, NEW p \in Nat, NEW h \in Nat,
           NEW e \in Nat, NEW d \in Nat, NEW d2 \in Nat, NEW s \in Nat, NEW u \in Nat,
           W <= L, W <= e, d <= W, d2 <= d, d2 <= e, h <= K * p,
           L * u <= L * p + h * e,
           L * p + h * (e - d2) <= L * (s + 1)
    PROVE  u * ((K + 1) * W - K * d) <= (s + 1) * ((K + 1) * W)
<1> DEFINE X == L * p + h * e
           F == (K + 1) * W - K * d
           G == (K + 1) * W
<1>1. W * h <= L * (K * p)
  <2>1. W * h <= L * h /\ K * p \in Nat
    BY ProductMonotone
  <2>2. L * h <= L * (K * p) /\ L * h \in Nat /\ W * h \in Nat
    BY <2>1, ProductMonotone
  <2> QED
    BY <2>1, <2>2, L * (K * p) \in Int
<1>2. (K + 1) * (W * h) <= K * X
  <2>1. K * (h * W) <= K * (h * e)
    BY ProductMonotone, h * W \in Nat, h * e \in Nat, h * W <= h * e
  <2>2. K * X = L * (K * p) + K * (h * e)
    BY SMT
  <2>3. (K + 1) * (W * h) = W * h + K * (h * W)
    BY SMT
  <2> QED
    BY <1>1, <2>1, <2>2, <2>3, W * h \in Int, L * (K * p) \in Int,
       K * (h * W) \in Int, K * (h * e) \in Int
<1>3. (K + 1) * (W * h) * d2 <= (K * X) * d
  <2>1. (K + 1) * (W * h) \in Nat /\ K * X \in Nat
    BY ProductMonotone, W * h \in Nat, L * p \in Nat, h * e \in Nat, K + 1 \in Nat, X \in Nat
  <2> HIDE DEF X
  <2>2. (K + 1) * (W * h) * d2 <= (K * X) * d2
    BY <1>2, <2>1, ProductMonotone
  <2>3. (K * X) * d2 <= (K * X) * d
    BY <2>1, ProductMonotone
  <2> QED
    BY <2>1, <2>2, <2>3, (K + 1) * (W * h) * d2 \in Int, (K * X) * d2 \in Int, (K * X) * d \in Int
<1>4. F \in Nat
  <2>1. K * d <= K * W /\ K * d \in Nat /\ K * W \in Nat
    BY ProductMonotone
  <2>2. F = K * W + W - K * d
    BY SMT
  <2> QED
    BY <2>1, <2>2
<1>5. X \in Nat /\ G \in Nat /\ h * d2 \in Nat /\ h * d2 <= X /\ L * u \in Nat
      /\ X - h * d2 \in Nat /\ X - h * d2 <= L * (s + 1) /\ L * (s + 1) \in Nat
  <2>1. L * p \in Nat /\ h * e \in Nat /\ h * d2 \in Nat /\ h * d2 <= h * e
        /\ L * u \in Nat /\ (K + 1) * W \in Nat /\ L * (s + 1) \in Nat
    BY ProductMonotone, K + 1 \in Nat, s + 1 \in Nat
  <2>2. h * (e - d2) = h * e - h * d2
    BY SMT
  <2> QED
    BY <2>1, <2>2
<1>6. (L * u) * F <= X * F
  BY <1>4, <1>5, ProductMonotone
<1>7. X * F = X * G - (K * X) * d
  BY <1>5
<1>8. (X - h * d2) * G = X * G - (K + 1) * (W * h) * d2
  BY <1>5
<1>9. (X - h * d2) * G <= (L * (s + 1)) * G
  BY <1>5, ProductMonotone
<1>10. (L * u) * F = L * (u * F) /\ (L * (s + 1)) * G = L * ((s + 1) * G)
  BY <1>4, <1>5
<1> HIDE DEF X, F, G
<1>11. L * (u * F) <= L * ((s + 1) * G)
  BY <1>3, <1>4, <1>5, <1>6, <1>7, <1>8, <1>9, <1>10, X * F \in Int, X * G \in Int,
     (K * X) * d \in Int, (K + 1) * (W * h) * d2 \in Int, (L * (s + 1)) * G \in Int,
     (L * u) * F \in Int
<1>12. u * F <= (s + 1) * G
  BY <1>4, <1>5, <1>11, Cancel, u * F \in Int, (s + 1) * G \in Int
<1> QED
  BY <1>12 DEF F, G

(* The same of a ramp downwards, that ends at p - h at the lowest: the     *)
(* value s of before is not too far above the value u of now.              *)
LEMMA FallenSince ==
    ASSUME NEW K \in Nat, NEW W \in Nat \ {0}, NEW L \in Nat, NEW p \in Nat, NEW h \in Nat,
           NEW e \in Nat, NEW d \in Nat, NEW d2 \in Nat, NEW s \in Nat, NEW u \in Nat,
           W <= L, e <= L, d2 <= d, d2 <= e, h <= p, h <= K * (p - h),
           L * p - h * e <= L * u,
           L * (s - 1) <= L * p - h * (e - d2)
    PROVE  (s - 1) * W <= u * (W + K * d)
<1> DEFINE Y == L * p - h * e
           q == p - h
           F == W + K * d
<1>1. q \in Nat /\ Y \in Nat /\ L * q <= Y /\ L * q \in Nat /\ F \in Nat
  <2>1. h * e <= h * L /\ h * e \in Nat /\ h * L \in Nat /\ L * (p - h) \in Nat /\ K * d \in Nat
        /\ L * p \in Nat
    BY ProductMonotone, p - h \in Nat
  <2>2. L * (p - h) = L * p - h * L
    BY SMT
  <2> QED
    BY <2>1, <2>2
<1>2. (W * h) * d2 <= (K * Y) * d
  <2>1. W * h <= L * h /\ W * h \in Nat /\ L * h \in Nat
    BY ProductMonotone
  <2>2. L * h <= L * (K * q) /\ K * q \in Nat /\ L * (K * q) \in Nat
    BY <1>1, ProductMonotone
  <2> HIDE DEF q, Y
  <2>3. L * (K * q) = K * (L * q) /\ K * (L * q) <= K * Y /\ K * Y \in Nat
    BY <1>1, ProductMonotone
  <2>4. W * h <= K * Y
    BY <2>1, <2>2, <2>3
  <2>5. (W * h) * d2 <= (K * Y) * d2 /\ (W * h) * d2 \in Nat
    BY <2>1, <2>3, <2>4, ProductMonotone
  <2>6. (K * Y) * d2 <= (K * Y) * d /\ (K * Y) * d2 \in Nat /\ (K * Y) * d \in Nat
    BY <2>3, ProductMonotone
  <2> QED
    BY <2>5, <2>6
<1>3. (L * p - h * (e - d2)) = Y + h * d2
  BY SMT
<1>4. (Y + h * d2) * W <= Y * F
  <2>1. (Y + h * d2) * W = Y * W + (W * h) * d2
    BY <1>1
  <2>2. Y * F = Y * W + (K * Y) * d
    BY <1>1
  <2> QED
    BY <1>1, <1>2, <2>1, <2>2, Y * W \in Int, (W * h) * d2 \in Int, (K * Y) * d \in Int
<1>5. Y * F <= (L * u) * F /\ Y * F \in Nat /\ (L * u) * F \in Nat
  BY <1>1, ProductMonotone, L * u \in Nat
<1> HIDE DEF Y, F
<1>6. L * ((s - 1) * W) <= (Y + h * d2) * W
  <2>1. CASE s = 0
    <3>1. (s - 1) * W = 0 - W /\ L * (0 - W) = 0 - (L * W)
      BY <2>1
    <3>2. L * W \in Nat /\ h * d2 \in Nat /\ (Y + h * d2) * W \in Nat
      BY <1>1, ProductMonotone, h * d2 \in Nat, Y + h * d2 \in Nat
    <3> QED
      BY <3>1, <3>2
  <2>2. CASE s # 0
    <3>1. s - 1 \in Nat /\ h * d2 \in Nat /\ L * (s - 1) \in Nat /\ Y + h * d2 \in Nat
      BY <1>1, <2>2, ProductMonotone
    <3>2. (L * (s - 1)) * W <= (Y + h * d2) * W
      BY <1>3, <3>1, ProductMonotone
    <3>3. (L * (s - 1)) * W = L * ((s - 1) * W)
      BY <3>1
    <3> QED
      BY <3>2, <3>3
  <2> QED
    BY <2>1, <2>2
<1>7. (L * u) * F = L * (u * F)
  BY <1>1
<1>8. L * ((s - 1) * W) <= L * (u * F)
  BY <1>1, <1>4, <1>5, <1>6, <1>7, L * ((s - 1) * W) \in Int, (Y + h * d2) * W \in Int,
     Y * F \in Int
<1>9. (s - 1) * W <= u * F
  BY <1>1, <1>8, Cancel, (s - 1) * W \in Int, u * F \in Int
<1> QED
  BY <1>9 DEF F

(* When a ramp upwards has begun at p, y seconds ago, a value a of x       *)
(* seconds before that which was near enough to p is near enough to the    *)
(* value b of now.                                                         *)
LEMMA RisesWithin ==
    ASSUME NEW K \in Nat, NEW W \in Nat \ {0}, NEW L \in Nat, NEW p \in Nat, NEW h \in Nat,
           NEW x \in Nat, NEW y \in Nat, NEW a \in Nat, NEW b \in Nat,
           W <= L, x + y <= W, h <= K * p,
           L * b <= L * p + h * y,
           p * ((K + 1) * W - K * x) <= (a + 1) * ((K + 1) * W)
    PROVE  b <= (a + 1) * (K + 1)
<1>1. (W * h) * y <= L * ((K * p) * y)
  <2>1. W * h <= L * h /\ W * h \in Nat /\ L * h \in Nat
    BY ProductMonotone
  <2>2. L * h <= L * (K * p) /\ K * p \in Nat /\ L * (K * p) \in Nat
    BY ProductMonotone
  <2>3. W * h <= L * (K * p)
    BY <2>1, <2>2
  <2>4. (W * h) * y <= (L * (K * p)) * y
    BY <2>1, <2>2, <2>3, ProductMonotone
  <2> QED
    BY <2>2, <2>4
<1>2. W * (L * b) <= W * (L * p) + (W * h) * y
  <2>1. L * b \in Nat /\ L * p \in Nat /\ h * y \in Nat
    BY ProductMonotone
  <2>2. W * (L * b) <= W * (L * p + h * y)
    BY <2>1, ProductMonotone
  <2>3. W * (L * p + h * y) = W * (L * p) + (W * h) * y
    BY SMT
  <2> QED
    BY <2>2, <2>3
<1>3. W * b <= p * (W + K * y)
  <2>1. W * (L * b) = L * (W * b) /\ W * (L * p) = L * (W * p)
    BY SMT
  <2>2. L * (W * p) + L * ((K * p) * y) = L * (p * (W + K * y))
    BY SMT
  <2>3. L * (W * b) <= L * (p * (W + K * y))
    BY <1>1, <1>2, <2>1, <2>2, (W * h) * y \in Int, L * (W * b) \in Int, L * (W * p) \in Int,
       L * ((K * p) * y) \in Int, L * (p * (W + K * y)) \in Int
  <2> QED
    BY <2>3, Cancel, W * b \in Int, p * (W + K * y) \in Int
<1>4. p * (W + K * y) <= p * ((K + 1) * W - K * x)
  <2>1. K * y <= K * (W - x) /\ K * y \in Nat /\ K * (W - x) \in Nat
    BY ProductMonotone, W - x \in Nat
  <2>2. (K + 1) * W - K * x = W + K * (W - x)
    BY SMT
  <2>3. W + K * y <= W + K * (W - x) /\ W + K * y \in Nat /\ W + K * (W - x) \in Nat
    BY <2>1
  <2> QED
    BY <2>2, <2>3, ProductMonotone
<1>5. (a + 1) * ((K + 1) * W) = W * ((a + 1) * (K + 1))
  BY SMT
<1>6. W * b <= W * ((a + 1) * (K + 1))
  BY <1>3, <1>4, <1>5, W * b \in Int, p * (W + K * y) \in Int,
     p * ((K + 1) * W - K * x) \in Int, W * ((a + 1) * (K + 1)) \in Int
<1> QED
  BY <1>6, Cancel, (a + 1) * (K + 1) \in Int

LEMMA FallsWithin ==
    ASSUME NEW K \in Nat, NEW W \in Nat \ {0}, NEW L \in Nat, NEW p \in Nat, NEW h \in Nat,
           NEW x \in Nat, NEW y \in Nat, NEW a \in Nat, NEW b \in Nat,
           W <= L, x + y <= W, h <= p, h <= K * (p - h),
           L * p - h * y <= L * b,
           (a - 1) * W <= p * (W + K * x)
    PROVE  a <= (b + 1) * (K + 1)
<1>1. (K + 1) * h <= K * p
  BY K * (p - h) = K * p - K * h, (K + 1) * h = K * h + h, K * p \in Int, K * h \in Int
<1>2. (W * y) * ((K + 1) * h) <= L * ((K * p) * y)
  <2>1. (K + 1) * h \in Nat /\ K * p \in Nat /\ W * y \in Nat /\ L * y \in Nat
    BY ProductMonotone, K + 1 \in Nat
  <2>2. (W * y) * ((K + 1) * h) <= (W * y) * (K * p)
    BY <1>1, <2>1, ProductMonotone
  <2>3. W * y <= L * y
    BY ProductMonotone
  <2>4. (W * y) * (K * p) <= (L * y) * (K * p)
    BY <2>1, <2>3, ProductMonotone
  <2>5. (L * y) * (K * p) = L * ((K * p) * y)
    BY SMT
  <2> QED
    BY <2>2, <2>4, <2>5, (W * y) * ((K + 1) * h) \in Int, (W * y) * (K * p) \in Int,
       (L * y) * (K * p) \in Int
<1> DEFINE G == (K + 1) * W
<1>3. L * (p * (G - K * y)) <= L * (G * b)
  <2>1. G \in Nat /\ L * p - h * y \in Int /\ L * b \in Int
    BY ProductMonotone, K + 1 \in Nat
  <2>2. G * (L * p - h * y) <= G * (L * b)
    <3>1. PICK z \in Nat : L * b = L * p - h * y + z
      BY <2>1, L * b - (L * p - h * y) \in Nat
    <3>2. G * (L * b) = G * (L * p - h * y) + G * z
      BY <2>1, <3>1
    <3>3. G * z \in Nat
      BY <2>1, ProductMonotone
    <3> QED
      BY <2>1, <3>2, <3>3
  <2>3. G * (L * p - h * y) = L * (G * p) - (W * y) * ((K + 1) * h)
    BY SMT
  <2>4. G * (L * b) = L * (G * b) /\ L * (p * (G - K * y)) = L * (G * p) - L * ((K * p) * y)
    BY SMT
  <2> QED
    BY <1>2, <2>1, <2>2, <2>3, <2>4, L * (G * p) \in Int, (W * y) * ((K + 1) * h) \in Int,
       L * ((K * p) * y) \in Int, L * (G * b) \in Int
<1>4. p * (G - K * y) <= G * b
  BY <1>3, Cancel, p * (G - K * y) \in Int, G * b \in Int, L \in Nat \ {0}
<1>5. p * (W + K * x) <= p * (G - K * y)
  <2>1. K * x <= K * (W - y) /\ K * x \in Nat /\ K * (W - y) \in Nat
    BY ProductMonotone, W - y \in Nat
  <2>2. G - K * y = W + K * (W - y)
    BY SMT
  <2>3. W + K * x <= W + K * (W - y) /\ W + K * x \in Nat /\ W + K * (W - y) \in Nat
    BY <2>1
  <2> QED
    BY <2>2, <2>3, ProductMonotone
<1>6. G * b = W * ((K + 1) * b) /\ (a - 1) * W = W * (a - 1)
  BY SMT
<1>7. W * (a - 1) <= W * ((K + 1) * b)
  BY <1>4, <1>5, <1>6, p * (W + K * x) \in Int, p * (G - K * y) \in Int, G * b \in Int,
     W * (a - 1) \in Int
<1>8. a - 1 <= (K + 1) * b
  BY <1>7, Cancel, (K + 1) * b \in Int
<1>9. (b + 1) * (K + 1) = (K + 1) * b + K + 1
  BY SMT
<1> QED
  BY <1>8, <1>9, (K + 1) * b \in Int

-----------------------------------------------------------------------------
(* One ramp, from p at time t0 to q at time t1, as compute_current_amp     *)
(* evaluates it at time t; and how long it has been under way then.        *)
RampValue(p, q, t0, t1, t) ==
    IF t < t1
    THEN IF q > p THEN p + Covered(q - p, t0, t1, t) ELSE p - Covered(p - q, t0, t1, t)
    ELSE q

Elapsed(t0, t1, t) == IF t < t1 THEN t - t0 ELSE t1 - t0

K == MAX_AMP_CHANGE - 1
W == MIN_AMP_CHANGING_TIME

(* What start_changing_amp demands of a ramp.                              *)
Legal(p, q, t0, t1) ==
    /\ t0 + W <= t1
    /\ q <= p * (K + 1)
    /\ p <= q * (K + 1)

(* A value a of x seconds before a ramp began at p: so near to p that the  *)
(* whole window is within the factor, however steep the ramp is.           *)
Near(a, p, x) ==
    /\ p * ((K + 1) * W - K * x) <= (a + 1) * ((K + 1) * W)
    /\ (a - 1) * W <= p * (W + K * x)

LEMMA FactorFacts ==
    /\ K \in Nat
    /\ W \in Nat \ {0}
    /\ MAX_AMP_CHANGE = K + 1
  BY AmpAssumption DEF AmpAssumption, K, W

LEMMA RampValueUp ==
    ASSUME NEW p \in Nat, NEW q \in Nat, NEW t0 \in Nat, NEW t1 \in Nat, NEW t \in Nat,
           t0 <= t, t0 < t1, q > p
    PROVE  LET v == RampValue(p, q, t0, t1, t)
           IN  /\ v \in p .. q
               /\ (t1 - t0) * v <= (t1 - t0) * p + (q - p) * Elapsed(t0, t1, t)
               /\ (t1 - t0) * p + (q - p) * Elapsed(t0, t1, t) <= (t1 - t0) * (v + 1)
<1> DEFINE L == t1 - t0
           h == q - p
           e == Elapsed(t0, t1, t)
           v == RampValue(p, q, t0, t1, t)
<1>1. L \in Nat \ {0} /\ h \in Nat /\ e \in Nat
  BY DEF Elapsed
<1>2. CASE t < t1
  <2> DEFINE c == (h * e) \div L
  <2>1. v = p + c /\ c = Covered(h, t0, t1, t)
    BY <1>2 DEF RampValue, Covered, Elapsed
  <2>2. c \in 0 .. h
    BY <1>1, <1>2, <2>1, CoveredBounds
  <2>3. h * e \in Nat
    BY <1>1, ProductMonotone
  <2> HIDE DEF L, h, e
  <2>4. c * L <= h * e /\ h * e < c * L + L
    BY <1>1, <2>3, DivisionFacts
  <2> HIDE DEF c, v
  <2>5. L * v = L * p + c * L /\ L * (v + 1) = L * p + c * L + L
    BY <1>1, <2>1, <2>2
  <2>6. L * v <= L * p + h * e /\ L * p + h * e <= L * (v + 1)
    BY <1>1, <2>2, <2>3, <2>4, <2>5, L * p \in Int, c * L \in Int
  <2>7. v \in p .. q
    BY <1>1, <2>1, <2>2 DEF h
  <2> QED
    BY <2>6, <2>7 DEF L, h, e, v
<1>3. CASE ~(t < t1)
  <2>1. v = q /\ e = L
    BY <1>3 DEF RampValue, Elapsed
  <2>2. L * q = L * p + h * L /\ L * (q + 1) = L * p + h * L + L
    BY SMT
  <2> QED
    BY <1>1, <2>1, <2>2, L * p \in Int, h * L \in Int
<1> QED
  BY <1>2, <1>3

LEMMA RampValueDown ==
    ASSUME NEW p \in Nat, NEW q \in Nat, NEW t0 \in Nat, NEW t1 \in Nat, NEW t \in Nat,
           t0 <= t, t0 < t1, q <= p
    PROVE  LET v == RampValue(p, q, t0, t1, t)
           IN  /\ v \in q .. p
               /\ (t1 - t0) * p - (p - q) * Elapsed(t0, t1, t) <= (t1 - t0) * v
               /\ (t1 - t0) * (v - 1) <= (t1 - t0) * p - (p - q) * Elapsed(t0, t1, t)
<1> DEFINE L == t1 - t0
           h == p - q
           e == Elapsed(t0, t1, t)
           v == RampValue(p, q, t0, t1, t)
<1>1. L \in Nat \ {0} /\ h \in Nat /\ e \in Nat
  BY DEF Elapsed
<1>2. CASE t < t1
  <2> DEFINE c == (h * e) \div L
  <2>1. v = p - c /\ c = Covered(h, t0, t1, t)
    BY <1>2 DEF RampValue, Covered, Elapsed
  <2>2. c \in 0 .. h
    BY <1>1, <1>2, <2>1, CoveredBounds
  <2>3. h * e \in Nat
    BY <1>1, ProductMonotone
  <2> HIDE DEF L, h, e
  <2>4. c * L <= h * e /\ h * e < c * L + L
    BY <1>1, <2>3, DivisionFacts
  <2> HIDE DEF c, v
  <2>5. L * v = L * p - c * L /\ L * (v - 1) = L * p - c * L - L
    BY <1>1, <2>1, <2>2
  <2>6. L * p - h * e <= L * v /\ L * (v - 1) <= L * p - h * e
    BY <1>1, <2>2, <2>3, <2>4, <2>5, L * p \in Int, c * L \in Int
  <2>7. v \in q .. p
    BY <1>1, <2>1, <2>2 DEF h
  <2> QED
    BY <2>6, <2>7 DEF L, h, e, v
<1>3. CASE ~(t < t1)
  <2>1. v = q /\ e = L
    BY <1>3 DEF RampValue, Elapsed
  <2>2. L * q = L * p - h * L /\ L * (q - 1) = L * p - h * L - L
    BY SMT
  <2> QED
    BY <1>1, <2>1, <2>2, L * p \in Int, h * L \in Int
<1> QED
  BY <1>2, <1>3

(* A ramp goes one way only.                                               *)
LEMMA RampMonotone ==
    ASSUME NEW p \in Nat, NEW q \in Nat, NEW t0 \in Nat, NEW t1 \in Nat,
           NEW s \in Nat, NEW t \in Nat, t0 <= s, s <= t, t0 < t1
    PROVE  /\ q > p => RampValue(p, q, t0, t1, s) <= RampValue(p, q, t0, t1, t)
           /\ q <= p => RampValue(p, q, t0, t1, t) <= RampValue(p, q, t0, t1, s)
<1>1. CASE t < t1
  <2>1. CASE q > p
    <3>1. Covered(q - p, t0, t1, s) <= Covered(q - p, t0, t1, t)
      BY <1>1, <2>1, CoveredMonotone, q - p \in Nat
    <3>2. Covered(q - p, t0, t1, s) \in 0 .. q - p /\ Covered(q - p, t0, t1, t) \in 0 .. q - p
      BY <1>1, <2>1, CoveredBounds, q - p \in Nat, t0 <= t, s < t1
    <3> QED
      BY <1>1, <2>1, <3>1, <3>2 DEF RampValue
  <2>2. CASE q <= p
    <3>1. Covered(p - q, t0, t1, s) <= Covered(p - q, t0, t1, t)
      BY <1>1, <2>2, CoveredMonotone, p - q \in Nat
    <3>2. Covered(p - q, t0, t1, s) \in 0 .. p - q /\ Covered(p - q, t0, t1, t) \in 0 .. p - q
      BY <1>1, <2>2, CoveredBounds, p - q \in Nat, t0 <= t, s < t1
    <3> QED
      BY <1>1, <2>2, <3>1, <3>2 DEF RampValue
  <2> QED
    BY <2>1, <2>2
<1>2. CASE ~(t < t1)
  <2>1. RampValue(p, q, t0, t1, t) = q
    BY <1>2 DEF RampValue
  <2>2. q > p => RampValue(p, q, t0, t1, s) \in p .. q
    BY RampValueUp
  <2>3. q <= p => RampValue(p, q, t0, t1, s) \in q .. p
    BY RampValueDown
  <2> QED
    BY <2>1, <2>2, <2>3
<1> QED
  BY <1>1, <1>2

LEMMA LegalFacts ==
    ASSUME NEW p \in Nat, NEW q \in Nat, NEW t0 \in Nat, NEW t1 \in Nat, Legal(p, q, t0, t1)
    PROVE  /\ t1 - t0 \in Nat /\ W <= t1 - t0 /\ t0 < t1
           /\ q > p => q - p \in Nat /\ q - p <= K * p
           /\ q <= p => p - q \in Nat /\ p - q <= K * (p - (p - q))
<1>1. p * (K + 1) = K * p + p /\ q * (K + 1) = K * q + q /\ p - (p - q) = q
  BY FactorFacts
<1>2. K * p \in Nat /\ K * q \in Nat
  BY FactorFacts, ProductMonotone
<1> QED
  BY <1>1, <1>2, FactorFacts DEF Legal

(* A value of the last W seconds is near the value of now, when the ramp   *)
(* has been in place for W seconds: so when the next one begins.           *)
LEMMA RampNear ==
    ASSUME NEW p \in Nat, NEW q \in Nat, NEW t0 \in Nat, NEW t1 \in Nat, Legal(p, q, t0, t1),
           NEW s \in Nat, NEW u \in Nat, t0 <= s, s <= u, u - s <= W, t0 + W <= u
    PROVE  Near(RampValue(p, q, t0, t1, s), RampValue(p, q, t0, t1, u), u - s)
<1> DEFINE L == t1 - t0
           a == RampValue(p, q, t0, t1, s)
           b == RampValue(p, q, t0, t1, u)
           d == u - s
           e == Elapsed(t0, t1, u)
           e1 == Elapsed(t0, t1, s)
           d2 == e - e1
<1>1. K \in Nat /\ W \in Nat \ {0}
  BY FactorFacts
<1>2. L \in Nat /\ W <= L /\ t0 < t1
  BY LegalFacts
<1>3. /\ d \in Nat /\ d <= W /\ e \in Nat /\ e1 \in Nat /\ e <= L
      /\ d2 \in Nat /\ d2 <= d /\ d2 <= e /\ W <= e /\ e - d2 = e1 /\ t0 <= u
  BY <1>1, <1>2 DEF Elapsed
<1>4. CASE q > p
  <2> DEFINE h == q - p
  <2>1. h \in Nat /\ h <= K * p
    BY <1>4, LegalFacts
  <2>2. a \in Nat /\ b \in Nat /\ L * b <= L * p + h * e /\ L * p + h * e1 <= L * (a + 1)
    BY <1>2, <1>3, <1>4, RampValueUp, p .. q \subseteq Nat
  <2>3. a <= b
    BY <1>2, <1>4, RampMonotone
  <2> HIDE DEF L, a, b, d, e, e1, d2, h
  <2>4. b * ((K + 1) * W - K * d) <= (a + 1) * ((K + 1) * W)
    BY <1>1, <1>2, <1>3, <2>1, <2>2, RisenSince
  <2>5. (a - 1) * W <= b * (W + K * d)
    <3>1. K * d \in Nat
      BY <1>1, <1>3, ProductMonotone
    <3>2. a * W <= b * W /\ a * W \in Nat /\ b * W \in Nat /\ b * (K * d) \in Nat
      BY <1>1, <2>2, <2>3, <3>1, ProductMonotone
    <3>3. (a - 1) * W = a * W - W /\ b * (W + K * d) = b * W + b * (K * d)
      BY <1>1, <2>2, <3>1
    <3> QED
      BY <1>1, <3>2, <3>3
  <2> QED
    BY <2>4, <2>5 DEF Near, a, b, d
<1>5. CASE q <= p
  <2> DEFINE h == p - q
  <2>1. h \in Nat /\ h <= p /\ h <= K * (p - h)
    BY <1>5, LegalFacts
  <2>2. a \in Nat /\ b \in Nat /\ L * p - h * e <= L * b /\ L * (a - 1) <= L * p - h * e1
    BY <1>2, <1>3, <1>5, RampValueDown, q .. p \subseteq Nat
  <2>3. b <= a
    BY <1>2, <1>5, RampMonotone
  <2> HIDE DEF L, a, b, d, e, e1, d2, h
  <2>4. (a - 1) * W <= b * (W + K * d)
    <3>1. L * (a - 1) <= L * p - h * (e - d2)
      BY <1>3, <2>2
    <3>2. L * p - h * e <= L * b
      BY <2>2
    <3> QED
      BY <1>1, <1>2, <1>3, <2>1, <2>2, <3>1, <3>2, FallenSince
  <2>5. b * ((K + 1) * W - K * d) <= (a + 1) * ((K + 1) * W)
    <3> DEFINE G == (K + 1) * W
    <3>1. K * d \in Nat /\ K * d <= K * W /\ K * W \in Nat
      BY <1>1, <1>3, ProductMonotone
    <3>2. G \in Nat /\ G - K * d \in Nat /\ G - K * d <= G
      <4>1. G = K * W + W
        BY <1>1
      <4> QED
        BY <1>1, <3>1, <4>1
    <3> HIDE DEF G
    <3>3. b * (G - K * d) <= b * G /\ b * (G - K * d) \in Nat /\ b * G \in Nat
      BY <2>2, <3>2, ProductMonotone
    <3>4. b * G <= (a + 1) * G /\ (a + 1) * G \in Nat
      BY <2>2, <2>3, <3>2, ProductMonotone, a + 1 \in Nat
    <3> QED
      BY <3>3, <3>4 DEF G
  <2> QED
    BY <2>4, <2>5 DEF Near, a, b, d
<1> QED
  BY <1>4, <1>5

(* A value that was near when the ramp began is within the factor of all   *)
(* that the ramp passes in the rest of the window.                         *)
LEMMA NearWithin ==
    ASSUME NEW p \in Nat, NEW q \in Nat, NEW t0 \in Nat, NEW t1 \in Nat, Legal(p, q, t0, t1),
           NEW a \in Nat, NEW x \in Nat, NEW t \in Nat, Near(a, p, x),
           t0 <= t, x + (t - t0) <= W
    PROVE  Promise!WithinFactor(a, RampValue(p, q, t0, t1, t))
<1> DEFINE L == t1 - t0
           b == RampValue(p, q, t0, t1, t)
           y == t - t0
           e == Elapsed(t0, t1, t)
<1>1. K \in Nat /\ W \in Nat \ {0} /\ MAX_AMP_CHANGE = K + 1
  BY FactorFacts
<1>2. L \in Nat /\ W <= L /\ t0 < t1
  BY LegalFacts
<1>3. y \in Nat /\ e \in Nat /\ x + y <= W /\ e <= y
  BY <1>2 DEF Elapsed
<1>4. /\ p * ((K + 1) * W - K * x) <= (a + 1) * ((K + 1) * W)
      /\ (a - 1) * W <= p * (W + K * x)
  BY DEF Near
<1>5. CASE q > p
  <2> DEFINE h == q - p
  <2>1. h \in Nat /\ h <= K * p
    BY <1>5, LegalFacts
  <2>2. b \in p .. q /\ b \in Nat /\ L * b <= L * p + h * e
    BY <1>2, <1>5, RampValueUp, p .. q \subseteq Nat
  <2>3. p <= b
    BY <2>2
  <2> HIDE DEF L, b, y, e, h
  <2>4. L * b <= L * p + h * y
    <3>1. h * e <= h * y /\ h * e \in Nat /\ h * y \in Nat /\ L * b \in Nat /\ L * p \in Nat
      BY <1>2, <1>3, <2>1, <2>2, ProductMonotone
    <3> QED
      BY <2>2, <3>1
  <2>5. b <= (a + 1) * (K + 1)
    BY <1>1, <1>2, <1>3, <1>4, <2>1, <2>2, <2>4, RisesWithin
  <2>6. a <= (b + 1) * (K + 1)
    <3>1. K * x <= K * W /\ K * x \in Nat /\ K * W \in Nat
      BY <1>1, <1>3, ProductMonotone, x <= W
    <3>2. p * (W + K * x) <= p * (W + K * W) /\ p * (W + K * x) \in Nat
          /\ p * (W + K * W) \in Nat
      BY <1>1, <3>1, ProductMonotone, W + K * x \in Nat, W + K * W \in Nat
    <3>3. p * (W + K * W) = W * ((K + 1) * p) /\ (a - 1) * W = W * (a - 1)
      BY <1>1
    <3>4. W * (a - 1) <= W * ((K + 1) * p)
      BY <1>1, <1>4, <3>2, <3>3
    <3>5. a - 1 <= (K + 1) * p
      BY <1>1, <3>4, Cancel, (K + 1) * p \in Int
    <3>6. (K + 1) * p <= (K + 1) * b /\ (K + 1) * p \in Nat /\ (K + 1) * b \in Nat
      BY <1>1, <2>2, <2>3, ProductMonotone, K + 1 \in Nat
    <3>7. (b + 1) * (K + 1) = (K + 1) * b + K + 1
      BY <1>1, <2>2
    <3> QED
      BY <1>1, <3>5, <3>6, <3>7
  <2> QED
    BY <1>1, <2>5, <2>6 DEF Promise!WithinFactor, b
<1>6. CASE q <= p
  <2> DEFINE h == p - q
  <2>1. h \in Nat /\ h <= p /\ h <= K * (p - h)
    BY <1>6, LegalFacts
  <2>2. b \in q .. p /\ b \in Nat /\ L * p - h * e <= L * b
    BY <1>2, <1>6, RampValueDown, q .. p \subseteq Nat
  <2>3. b <= p
    BY <2>2
  <2> HIDE DEF L, b, y, e, h
  <2>4. L * p - h * y <= L * b
    <3>1. h * e <= h * y /\ h * e \in Nat /\ h * y \in Nat /\ L * b \in Nat /\ L * p \in Nat
      BY <1>2, <1>3, <2>1, <2>2, ProductMonotone
    <3> QED
      BY <2>2, <3>1
  <2>5. a <= (b + 1) * (K + 1)
    BY <1>1, <1>2, <1>3, <1>4, <2>1, <2>2, <2>4, FallsWithin
  <2>6. b <= (a + 1) * (K + 1)
    <3>1. K * x <= K * W /\ K * x \in Nat /\ K * W \in Nat
      BY <1>1, <1>3, ProductMonotone, x <= W
    <3>2. (K + 1) * W - K * x \in Nat /\ W <= (K + 1) * W - K * x
      <4>1. (K + 1) * W = K * W + W
        BY <1>1
      <4> QED
        BY <1>1, <3>1, <4>1
    <3>3. p * W <= p * ((K + 1) * W - K * x) /\ p * W \in Nat
          /\ p * ((K + 1) * W - K * x) \in Nat
      BY <1>1, <3>2, ProductMonotone
    <3>4. b * W <= p * W /\ b * W \in Nat
      BY <1>1, <2>2, <2>3, ProductMonotone
    <3>5. (a + 1) * ((K + 1) * W) = W * ((a + 1) * (K + 1)) /\ b * W = W * b
      BY <1>1, <2>2
    <3>6. W * b <= W * ((a + 1) * (K + 1))
      BY <1>1, <1>4, <3>3, <3>4, <3>5, (a + 1) * ((K + 1) * W) \in Int
    <3> QED
      BY <1>1, <2>2, <3>6, Cancel, (a + 1) * (K + 1) \in Int
  <2> QED
    BY <1>1, <2>5, <2>6 DEF Promise!WithinFactor, b
<1> QED
  BY <1>5, <1>6

(* One ramp alone stays within the factor.                                 *)
LEMMA BetweenWithin ==
    ASSUME NEW l \in Nat, NEW h \in Nat, h <= l * (K + 1),
           NEW a \in l .. h, NEW b \in l .. h
    PROVE  Promise!WithinFactor(a, b)
<1>1. K \in Nat /\ MAX_AMP_CHANGE = K + 1
  BY FactorFacts
<1>2. /\ l * (K + 1) <= (a + 1) * (K + 1) /\ l * (K + 1) <= (b + 1) * (K + 1)
      /\ l * (K + 1) \in Nat /\ (a + 1) * (K + 1) \in Nat /\ (b + 1) * (K + 1) \in Nat
  BY <1>1, ProductMonotone, a + 1 \in Nat, b + 1 \in Nat, K + 1 \in Nat, l <= a + 1, l <= b + 1
<1> QED
  BY <1>1, <1>2 DEF Promise!WithinFactor

LEMMA RampWithin ==
    ASSUME NEW p \in Nat, NEW q \in Nat, NEW t0 \in Nat, NEW t1 \in Nat, Legal(p, q, t0, t1),
           NEW s \in Nat, NEW t \in Nat, t0 <= s, t0 <= t
    PROVE  Promise!WithinFactor(RampValue(p, q, t0, t1, s), RampValue(p, q, t0, t1, t))
<1>1. t0 < t1
  BY LegalFacts
<1>2. CASE q > p
  <2>1. RampValue(p, q, t0, t1, s) \in p .. q /\ RampValue(p, q, t0, t1, t) \in p .. q
    BY <1>1, <1>2, RampValueUp
  <2> QED
    BY <2>1, BetweenWithin DEF Legal
<1>3. CASE q <= p
  <2>1. RampValue(p, q, t0, t1, s) \in q .. p /\ RampValue(p, q, t0, t1, t) \in q .. p
    BY <1>1, <1>3, RampValueDown
  <2> QED
    BY <2>1, BetweenWithin DEF Legal
<1> QED
  BY <1>2, <1>3

-----------------------------------------------------------------------------
(* The inductive invariant.  The history forgets which ramps it came from; *)
(* what the next steps need of it is this: the entries since the ramp in   *)
(* force began are its values, and those of the window before are near     *)
(* enough to its beginning - or, when the owner has stopped the ramp, no   *)
(* more than the factor away, which is enough because no ramp may begin in *)
(* the rest of their window.                                               *)
TimeOf(k) == StartTime + k - 1

Resting == next_amp_time = init_amp_time

ValueAt(t) == RampValue(init_amp, next_amp, init_amp_time, next_amp_time, t)

PathTypeOK == path \in Seq(Amps) /\ Len(path) = now - StartTime + 1

RampShape ==
    IF Resting THEN next_amp = init_amp
    ELSE Legal(init_amp, next_amp, init_amp_time, next_amp_time)

PathOnRamp ==
    \A k \in 1 .. Len(path) : init_amp_time <= TimeOf(k) => path[k] = ValueAt(TimeOf(k))

PathBeforeRamp ==
    \A k \in 1 .. Len(path) :
        TimeOf(k) <= init_amp_time /\ now - TimeOf(k) <= W =>
            IF Resting THEN Promise!WithinFactor(path[k], init_amp)
            ELSE Near(path[k], init_amp, init_amp_time - TimeOf(k))

HistoryInv == AmpTypeOK /\ PathTypeOK /\ RampShape /\ PathOnRamp /\ PathBeforeRamp

LEMMA CurrentIsValue == CurrentAmp = ValueAt(now)
  BY DEF CurrentAmp, ValueAt, RampValue

LEMMA HistoryFacts ==
    ASSUME HistoryInv
    PROVE  /\ now \in Nat /\ init_amp \in Nat /\ next_amp \in Nat
           /\ init_amp_time \in Nat /\ next_amp_time \in Nat /\ init_amp_time <= now
           /\ StartTime \in Nat /\ Len(path) \in Nat \ {0}
           /\ \A k \in 1 .. Len(path) :
                 path[k] \in Nat /\ TimeOf(k) \in Nat /\ TimeOf(k) <= now
           /\ CurrentAmp \in Amps /\ Amps \subseteq Nat
<1>1. /\ now \in Nat /\ StartTime \in Nat /\ StartTime <= now
      /\ init_amp_time \in Nat /\ init_amp_time <= now /\ next_amp_time \in Nat
  BY AmpAssumption DEF HistoryInv, AmpTypeOK, AmpAssumption
<1>2. Amps \subseteq Nat /\ init_amp \in Amps /\ next_amp \in Amps
  BY ParameterAssumption DEF HistoryInv, AmpTypeOK, Amps, ParameterAssumption
<1>3. path \in Seq(Amps) /\ Len(path) = now - StartTime + 1
  BY DEF HistoryInv, PathTypeOK
<1>4. \A k \in 1 .. Len(path) : path[k] \in Amps
  BY <1>3, ElementOfSeq
<1>5. CurrentAmp \in Amps
  BY AmpAssumption, ParameterAssumption, AmpBetweenEnds DEF HistoryInv
<1>6. Len(path) \in Nat \ {0}
  BY <1>1, <1>3
<1>7. \A k \in 1 .. Len(path) : TimeOf(k) \in Nat /\ TimeOf(k) <= now
  BY <1>1, <1>3 DEF TimeOf
<1>8. \A k \in 1 .. Len(path) : path[k] \in Nat
  BY <1>2, <1>4
<1> QED
  BY <1>1, <1>2, <1>5, <1>6, <1>7, <1>8

LEMMA WithinItself ==
    ASSUME NEW a \in Nat
    PROVE  Promise!WithinFactor(a, a)
<1>1. K \in Nat
  BY FactorFacts
<1>2. a * (K + 1) = K * a + a /\ K * a \in Nat
  BY <1>1, ProductMonotone
<1>3. a <= a * (K + 1) /\ a \in a .. a
  BY <1>2
<1> QED
  BY <1>3, BetweenWithin

LEMMA NearItself ==
    ASSUME NEW a \in Nat, NEW x \in Nat
    PROVE  Near(a, a, x)
<1>1. K \in Nat /\ W \in Nat
  BY FactorFacts
<1>2. /\ a * ((K + 1) * W - K * x) = a * ((K + 1) * W) - a * (K * x)
      /\ (a + 1) * ((K + 1) * W) = a * ((K + 1) * W) + (K + 1) * W
      /\ (a - 1) * W = a * W - W
      /\ a * (W + K * x) = a * W + a * (K * x)
  BY <1>1
<1>3. /\ K * x \in Nat /\ a * (K * x) \in Nat /\ (K + 1) * W \in Nat
      /\ a * ((K + 1) * W) \in Nat /\ a * W \in Nat
  BY <1>1, ProductMonotone, K + 1 \in Nat, K * x \in Nat, (K + 1) * W \in Nat
<1> QED
  BY <1>1, <1>2, <1>3 DEF Near

(* What the invariant is for: the rest of the window, as the ramp in force *)
(* will pass through it, is within the factor of every entry.              *)
LEMMA PathWithin ==
    ASSUME HistoryInv, NEW k \in 1 .. Len(path), NEW t \in Nat, now <= t, t - TimeOf(k) <= W
    PROVE  Promise!WithinFactor(path[k], ValueAt(t))
<1>1. /\ now \in Nat /\ init_amp \in Nat /\ next_amp \in Nat
      /\ init_amp_time \in Nat /\ next_amp_time \in Nat /\ init_amp_time <= now
      /\ path[k] \in Nat /\ TimeOf(k) \in Nat /\ TimeOf(k) <= now
      /\ W \in Nat /\ init_amp_time <= t
  BY HistoryFacts, FactorFacts
<1>2. CASE Resting
  <2>1. /\ next_amp = init_amp /\ next_amp_time = init_amp_time
        /\ \A s \in Nat : init_amp_time <= s => ValueAt(s) = init_amp
    BY <1>1, <1>2 DEF HistoryInv, RampShape, Resting, ValueAt, RampValue
  <2>2. CASE init_amp_time <= TimeOf(k)
    <3>1. path[k] = init_amp
      BY <1>1, <2>1, <2>2 DEF HistoryInv, PathOnRamp
    <3> QED
      BY <1>1, <2>1, <3>1, WithinItself
  <2>3. CASE TimeOf(k) <= init_amp_time
    <3>1. now - TimeOf(k) <= W
      BY <1>1
    <3>2. Promise!WithinFactor(path[k], init_amp)
      BY <1>2, <2>3, <3>1 DEF HistoryInv, PathBeforeRamp
    <3> QED
      BY <1>1, <2>1, <3>2
  <2> QED
    BY <1>1, <2>2, <2>3
<1>3. CASE ~Resting
  <2>1. Legal(init_amp, next_amp, init_amp_time, next_amp_time)
    BY <1>3 DEF HistoryInv, RampShape
  <2>2. CASE init_amp_time <= TimeOf(k)
    <3>1. path[k] = ValueAt(TimeOf(k))
      BY <2>2 DEF HistoryInv, PathOnRamp
    <3> QED
      BY <1>1, <2>1, <2>2, <3>1, RampWithin DEF ValueAt
  <2>3. CASE TimeOf(k) <= init_amp_time
    <3> DEFINE x == init_amp_time - TimeOf(k)
    <3>1. x \in Nat /\ now - TimeOf(k) <= W /\ x + (t - init_amp_time) <= W
      BY <1>1, <2>3
    <3>2. Near(path[k], init_amp, x)
      BY <1>3, <2>3, <3>1 DEF HistoryInv, PathBeforeRamp
    <3> HIDE DEF x
    <3> QED
      BY <1>1, <2>1, <3>1, <3>2, NearWithin DEF ValueAt
  <2> QED
    BY <1>1, <2>2, <2>3
<1> QED
  BY <1>2, <1>3

-----------------------------------------------------------------------------
LEMMA HistoryInvInit ==
    ASSUME HistoryInit
    PROVE  HistoryInv
<1>1. AmpTypeOK
  BY AmpTypeInit, AmpAssumption, ParameterAssumption DEF HistoryInit
<1>2. CurrentAmp \in Amps
  BY <1>1, AmpBetweenEnds, AmpAssumption, ParameterAssumption
<1>3. /\ now = StartTime /\ init_amp_time = StartTime /\ next_amp_time = StartTime
      /\ init_amp = next_amp /\ StartTime \in Nat /\ next_amp \in Nat
      /\ path = <<CurrentAmp>>
  BY <1>1, AmpAssumption, ParameterAssumption
  DEF HistoryInit, AmpInit, AmpAssumption, ParameterAssumption, AmpTypeOK, Amps
<1>4. CurrentAmp = next_amp
  BY <1>3 DEF CurrentAmp
<1>5. path \in Seq(Amps) /\ Len(path) = 1 /\ path[1] = next_amp
  BY <1>2, <1>3, <1>4
<1>6. PathTypeOK
  BY <1>3, <1>5 DEF PathTypeOK
<1>7. RampShape
  BY <1>3 DEF RampShape, Resting
<1>8. PathOnRamp
  BY <1>3, <1>5 DEF PathOnRamp, ValueAt, RampValue, TimeOf
<1>9. PathBeforeRamp
  <2>1. Promise!WithinFactor(path[1], init_amp)
    BY <1>3, <1>5, WithinItself
  <2> QED
    BY <1>3, <1>5, <2>1 DEF PathBeforeRamp, Resting
<1> QED
  BY <1>1, <1>6, <1>7, <1>8, <1>9 DEF HistoryInv

(* A start or a stop takes place in the second of the last entry, whose    *)
(* value is the beginning of the new ramp.                                 *)
LEMMA LastEntry ==
    ASSUME HistoryInv, NEW k \in 1 .. Len(path), now <= TimeOf(k)
    PROVE  TimeOf(k) = now /\ path[k] = CurrentAmp
<1>1. TimeOf(k) = now /\ init_amp_time <= TimeOf(k)
  BY HistoryFacts
<1> QED
  BY <1>1, CurrentIsValue DEF HistoryInv, PathOnRamp

LEMMA HistoryStart ==
    ASSUME HistoryInv, NEW amp \in 0 .. MAX_AMP + 1, NEW end \in RampEnds,
           StartChangingAmp(amp, end), path' = path
    PROVE  RampShape' /\ PathOnRamp' /\ PathBeforeRamp'
<1> DEFINE target == amp * AMP_PRECISION
           cur == CurrentAmp
<1>1. /\ now \in Nat /\ init_amp \in Nat /\ next_amp \in Nat
      /\ init_amp_time \in Nat /\ next_amp_time \in Nat /\ init_amp_time <= now
      /\ \A k \in 1 .. Len(path) : path[k] \in Nat /\ TimeOf(k) \in Nat /\ TimeOf(k) <= now
      /\ cur \in Nat
  BY HistoryFacts
<1>2. /\ init_amp' = cur /\ next_amp' = target
      /\ init_amp_time' = now /\ next_amp_time' = end /\ now' = now
      /\ end \in Nat /\ now + W <= end /\ init_amp_time + W <= now
      /\ cur <= target * MAX_AMP_CHANGE /\ target <= cur * MAX_AMP_CHANGE
  BY <1>1, AmpAssumption
  DEF StartChangingAmp, ChangeAllowed, TimesAllowed, RampFrom, AmpAssumption, W
<1>3. target \in Nat
  BY ProductMonotone, ParameterAssumption, amp \in Nat DEF ParameterAssumption
<1> HIDE DEF target
<1>4. Legal(cur, target, now, end) /\ ~Resting'
  <2>1. K \in Nat /\ W \in Nat \ {0} /\ MAX_AMP_CHANGE = K + 1
    BY FactorFacts
  <2> QED
    BY <1>1, <1>2, <1>3, <2>1 DEF Legal, Resting
<1>5. RampShape'
  BY <1>2, <1>4 DEF RampShape
<1>6. PathOnRamp'
  <2> SUFFICES ASSUME NEW k \in 1 .. Len(path), now <= TimeOf(k)
               PROVE  path[k] = RampValue(cur, target, now, end, TimeOf(k))
    BY <1>2 DEF PathOnRamp, ValueAt, TimeOf
  <2>1. TimeOf(k) = now /\ path[k] = cur
    BY LastEntry
  <2>2. CurrentAmp' = cur
    BY NoJumpStep, <1>2, AmpAssumption, ParameterAssumption DEF HistoryInv, AmpNext
  <2>3. CurrentAmp' = RampValue(cur, target, now, end, now)
    BY <1>2 DEF CurrentAmp, RampValue, Covered
  <2> QED
    BY <2>1, <2>2, <2>3
<1>7. PathBeforeRamp'
  <2> SUFFICES ASSUME NEW k \in 1 .. Len(path), TimeOf(k) <= now, now - TimeOf(k) <= W
               PROVE  Near(path[k], cur, now - TimeOf(k))
    BY <1>2, <1>4 DEF PathBeforeRamp, TimeOf
  <2>1. init_amp_time <= TimeOf(k) /\ TimeOf(k) \in Nat /\ now - TimeOf(k) \in Nat
    BY <1>1, <1>2, FactorFacts
  <2>2. path[k] = ValueAt(TimeOf(k)) /\ cur = ValueAt(now)
    BY <2>1, CurrentIsValue DEF HistoryInv, PathOnRamp
  <2>3. CASE Resting
    <3>1. ValueAt(TimeOf(k)) = init_amp /\ ValueAt(now) = init_amp
      BY <1>1, <2>1, <2>3 DEF HistoryInv, RampShape, Resting, ValueAt, RampValue
    <3> QED
      BY <1>1, <2>1, <2>2, <3>1, NearItself
  <2>4. CASE ~Resting
    <3>1. Legal(init_amp, next_amp, init_amp_time, next_amp_time)
      BY <2>4 DEF HistoryInv, RampShape
    <3>2. Near(ValueAt(TimeOf(k)), ValueAt(now), now - TimeOf(k))
      BY <1>1, <1>2, <2>1, <3>1, RampNear DEF ValueAt
    <3> QED
      BY <2>2, <3>2
  <2> QED
    BY <2>3, <2>4
<1> QED
  BY <1>5, <1>6, <1>7

LEMMA HistoryStop ==
    ASSUME HistoryInv, StopChangingAmp, path' = path
    PROVE  RampShape' /\ PathOnRamp' /\ PathBeforeRamp'
<1> DEFINE cur == CurrentAmp
<1>1. /\ now \in Nat /\ cur \in Nat
      /\ \A k \in 1 .. Len(path) : path[k] \in Nat /\ TimeOf(k) \in Nat /\ TimeOf(k) <= now
  BY HistoryFacts
<1>2. /\ init_amp' = cur /\ next_amp' = cur
      /\ init_amp_time' = now /\ next_amp_time' = now /\ now' = now
  BY DEF StopChangingAmp, RampFrom
<1>3. RampShape' /\ Resting'
  BY <1>2 DEF RampShape, Resting
<1>4. PathOnRamp'
  <2> SUFFICES ASSUME NEW k \in 1 .. Len(path), now <= TimeOf(k)
               PROVE  path[k] = RampValue(cur, cur, now, now, TimeOf(k))
    BY <1>2 DEF PathOnRamp, ValueAt, TimeOf
  <2>1. TimeOf(k) = now /\ path[k] = cur
    BY LastEntry
  <2> QED
    BY <1>1, <2>1 DEF RampValue
<1>5. PathBeforeRamp'
  <2> SUFFICES ASSUME NEW k \in 1 .. Len(path), now - TimeOf(k) <= W
               PROVE  Promise!WithinFactor(path[k], cur)
    BY <1>2, <1>3 DEF PathBeforeRamp, TimeOf, Promise!WithinFactor
  <2> QED
    BY <1>1, PathWithin, CurrentIsValue
<1> QED
  BY <1>3, <1>4, <1>5

LEMMA HistoryTick ==
    ASSUME HistoryInv, Tick, path' = Append(path, CurrentAmp')
    PROVE  RampShape' /\ PathOnRamp' /\ PathBeforeRamp'
<1>1. /\ now \in Nat /\ StartTime \in Nat /\ Len(path) \in Nat
      /\ init_amp_time \in Nat /\ init_amp_time <= now
      /\ path \in Seq(Amps) /\ Len(path) = now - StartTime + 1
  BY HistoryFacts DEF HistoryInv, PathTypeOK
<1>2. /\ now' = now + 1
      /\ init_amp' = init_amp /\ next_amp' = next_amp
      /\ init_amp_time' = init_amp_time /\ next_amp_time' = next_amp_time
  BY DEF Tick, rampVars
<1>3. /\ Len(path') = Len(path) + 1
      /\ \A k \in 1 .. Len(path) : path'[k] = path[k]
      /\ path'[Len(path) + 1] = CurrentAmp'
  BY <1>1, AppendProperties
<1>4. RampShape'
  BY <1>2 DEF HistoryInv, RampShape, Resting, Legal, W, K
<1>5. ASSUME NEW k \in 1 .. Len(path') PROVE k \in 1 .. Len(path) \/ k = Len(path) + 1
  BY <1>1, <1>3
<1>6. TimeOf(Len(path) + 1) = now + 1
  BY <1>1 DEF TimeOf
<1>7. PathOnRamp'
  <2> SUFFICES ASSUME NEW k \in 1 .. Len(path'), init_amp_time <= TimeOf(k)
               PROVE  path'[k] = ValueAt(TimeOf(k))
    BY <1>2 DEF PathOnRamp, ValueAt, TimeOf, RampValue, Covered
  <2>1. CASE k \in 1 .. Len(path)
    BY <1>3, <2>1 DEF HistoryInv, PathOnRamp
  <2>2. CASE k = Len(path) + 1
    <3>1. CurrentAmp' = ValueAt(now + 1)
      BY <1>2 DEF CurrentAmp, ValueAt, RampValue, Covered
    <3> QED
      BY <1>3, <1>6, <2>2, <3>1
  <2> QED
    BY <1>5, <2>1, <2>2
<1>8. PathBeforeRamp'
  <2>1. ASSUME NEW k \in 1 .. Len(path'), TimeOf(k) <= init_amp_time, now + 1 - TimeOf(k) <= W
        PROVE  IF Resting THEN Promise!WithinFactor(path'[k], init_amp)
               ELSE Near(path'[k], init_amp, init_amp_time - TimeOf(k))
    <3>1. k \in 1 .. Len(path)
      BY <1>1, <1>5, <1>6, <2>1
    <3>2. TimeOf(k) \in Int /\ now - TimeOf(k) <= W
      BY <1>1, <2>1, FactorFacts DEF TimeOf
    <3> QED
      BY <1>3, <2>1, <3>1, <3>2 DEF HistoryInv, PathBeforeRamp
  <2>2. Resting' <=> Resting
    BY <1>2 DEF Resting
  <2>3. SUFFICES ASSUME NEW k \in 1 .. Len(path'), TimeOf(k) <= init_amp_time', now' - TimeOf(k) <= W'
        PROVE  (IF Resting THEN Promise!WithinFactor(path[k], init_amp)
                ELSE Near(path[k], init_amp, init_amp_time - TimeOf(k)))'
    BY DEF PathBeforeRamp, TimeOf
  <2>4. W' = W
    BY DEF W
  <2>5. TimeOf(k) <= init_amp_time /\ now + 1 - TimeOf(k) <= W
    BY <1>1, <1>2, <2>3, <2>4, FactorFacts DEF TimeOf
  <2>6. CASE Resting
    <3>1. Promise!WithinFactor(path'[k], init_amp)
      BY <2>1, <2>3, <2>5, <2>6
    <3> QED
      BY <1>2, <2>2, <2>6, <3>1 DEF Promise!WithinFactor
  <2>7. CASE ~Resting
    <3>1. Near(path'[k], init_amp, init_amp_time - TimeOf(k))
      BY <2>1, <2>3, <2>5, <2>7
    <3> QED
      BY <1>2, <2>2, <2>4, <2>7, <3>1 DEF Near, K, W
  <2> QED
    BY <2>6, <2>7
<1> QED
  BY <1>4, <1>7, <1>8

LEMMA CurrentLegal == AmpTypeOK => CurrentAmp \in Amps
  BY AmpBetweenEnds, AmpAssumption, ParameterAssumption

LEMMA CurrentLegalNext == AmpTypeOK' => CurrentAmp' \in Amps
<1>1. (AmpTypeOK => CurrentAmp \in Amps)'
  BY CurrentLegal, PTL
<1> QED
  BY <1>1 DEF Amps

LEMMA HistoryInvStep ==
    ASSUME HistoryInv, [HistoryNext]_<<ampVars, path>>
    PROVE  HistoryInv'
<1>1. CASE HistoryNext
  <2>1. AmpNext
    BY <1>1 DEF HistoryNext
  <2>2. AmpTypeOK'
    BY <2>1, AmpTypeStep, AmpAssumption, ParameterAssumption DEF HistoryInv
  <2>3. now \in Nat /\ path \in Seq(Amps) /\ Len(path) = now - StartTime + 1 /\ StartTime \in Nat
    BY HistoryFacts DEF HistoryInv, PathTypeOK
  <2>4. CASE Tick
    <3>1. now' = now + 1 /\ path' = Append(path, CurrentAmp')
      BY <1>1, <2>3, <2>4 DEF HistoryNext, Tick
    <3>2. CurrentAmp' \in Amps
      BY <2>2, CurrentLegalNext
    <3>3. PathTypeOK'
      <4>1. path' \in Seq(Amps) /\ Len(path') = Len(path) + 1
        BY <2>3, <3>1, <3>2, AppendProperties
      <4> QED
        BY <2>3, <3>1, <4>1 DEF PathTypeOK, Amps
    <3> QED
      BY <2>2, <2>4, <3>1, <3>3, HistoryTick DEF HistoryInv
  <2>5. ASSUME NEW amp \in 0 .. MAX_AMP + 1, NEW end \in RampEnds, StartChangingAmp(amp, end)
        PROVE  HistoryInv'
    <3>1. now' = now /\ path' = path
      BY <1>1, <2>5 DEF HistoryNext, StartChangingAmp, RampFrom
    <3>2. PathTypeOK'
      BY <2>3, <3>1 DEF PathTypeOK, Amps
    <3> QED
      BY <2>2, <2>5, <3>1, <3>2, HistoryStart DEF HistoryInv
  <2>6. CASE StopChangingAmp
    <3>1. now' = now /\ path' = path
      BY <1>1, <2>6 DEF HistoryNext, StopChangingAmp, RampFrom
    <3>2. PathTypeOK'
      BY <2>3, <3>1 DEF PathTypeOK, Amps
    <3> QED
      BY <2>2, <2>6, <3>1, <3>2, HistoryStop DEF HistoryInv
  <2> QED
    BY <2>1, <2>4, <2>5, <2>6 DEF AmpNext
<1>2. CASE UNCHANGED <<ampVars, path>>
  BY <1>2 DEF ampVars, HistoryInv, AmpTypeOK, PathTypeOK, RampShape, PathOnRamp, PathBeforeRamp,
              Resting, Legal, ValueAt, RampValue, Covered, TimeOf, Near, Amps, K, W,
              Promise!WithinFactor
<1> QED
  BY <1>1, <1>2

THEOREM HistoryInvariant == HistorySpec => []HistoryInv
<1>1. HistoryInit => HistoryInv
  BY HistoryInvInit
<1>2. HistoryInv /\ [HistoryNext]_<<ampVars, path>> => HistoryInv'
  BY HistoryInvStep
<1> QED
  BY <1>1, <1>2, PTL DEF HistorySpec

(* However the owner chains, interrupts and stops ramps, no window of      *)
(* MIN_AMP_CHANGING_TIME seconds sees the amplification change by more     *)
(* than the factor MAX_AMP_CHANGE that a single call may ask for.          *)
THEOREM AmpRateIsLimited == HistorySpec => AmpIsRateLimited
<1>1. HistoryInit => Promise!PathInit
  <2> SUFFICES ASSUME HistoryInit PROVE Promise!PathInit
    OBVIOUS
  <2>1. CurrentAmp \in Amps
    BY HistoryInvInit, HistoryFacts
  <2> QED
    BY <2>1 DEF HistoryInit, Promise!PathInit, Promise!Limits, Amps
<1>2. HistoryInv /\ [HistoryNext]_<<ampVars, path>> => [Promise!PathNext]_path
  <2> SUFFICES ASSUME HistoryInv, HistoryNext, path' # path PROVE Promise!PathNext
    OBVIOUS
  <2>1. path' = Append(path, CurrentAmp') /\ now' # now /\ AmpNext
    BY DEF HistoryNext
  <2>2. Tick
    BY <2>1 DEF AmpNext, StartChangingAmp, StopChangingAmp, RampFrom
  <2>3. /\ now \in Nat /\ StartTime \in Nat /\ Len(path) = now - StartTime + 1
        /\ now' = now + 1
    BY <2>2, HistoryFacts DEF HistoryInv, PathTypeOK, Tick
  <2>4. CurrentAmp' = ValueAt(now + 1)
    BY <2>2, <2>3 DEF Tick, rampVars, CurrentAmp, ValueAt, RampValue, Covered
  <2>5. CurrentAmp' \in Amps
    <3>1. AmpTypeOK'
      BY HistoryInvStep DEF HistoryInv
    <3> QED
      BY <3>1, CurrentLegalNext
  <2>6. ASSUME NEW k \in 1 .. Len(path), Len(path) + 1 - k <= W
        PROVE  Promise!WithinFactor(path[k], CurrentAmp')
    <3> DEFINE t == now + 1
    <3>1. t - TimeOf(k) <= W /\ t \in Nat /\ now <= t
      BY <2>3, <2>6, FactorFacts DEF TimeOf
    <3> HIDE DEF t
    <3>2. Promise!WithinFactor(path[k], ValueAt(t))
      BY <2>6, <3>1, PathWithin
    <3> QED
      BY <2>4, <3>2 DEF t
  <2> QED
    BY <2>1, <2>5, <2>6 DEF Promise!PathNext, Promise!Limits, Amps, W
<1> QED
  BY <1>1, <1>2, HistoryInvariant, PTL DEF HistorySpec, AmpIsRateLimited, Promise!PathSpec
=============================================================================
