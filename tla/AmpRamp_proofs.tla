--------------------------- MODULE AmpRamp_proofs ---------------------------
(***************************************************************************)
(* Theorems about AmpRamp for every value of its constants: the type and   *)
(* shape invariant, the bounds of the amplification in force, and the two  *)
(* action properties that say how it may move.                             *)
(***************************************************************************)
EXTENDS AmpRamp, TLAPS

(* Integer division by a positive number: the quotient q of a by b is the  *)
(* one natural number with q * b <= a < q * b + b.                         *)
LEMMA DivisionFacts ==
    ASSUME NEW a \in Nat, NEW b \in Nat \ {0}
    PROVE  /\ a \div b \in Nat
           /\ (a \div b) * b <= a
           /\ a < (a \div b) * b + b
  BY SMT

(* Products of naturals are monotone.                                      *)
LEMMA ProductMonotone ==
    ASSUME NEW a \in Nat, NEW b \in Nat, NEW c \in Nat, a <= b
    PROVE  /\ a * c <= b * c
           /\ c * a <= c * b
           /\ a * c \in Nat
           /\ c * a \in Nat
  BY SMT

(* Division by a positive number is monotone.                              *)
LEMMA DivisionMonotone ==
    ASSUME NEW a \in Nat, NEW b \in Nat, a <= b, NEW c \in Nat \ {0}
    PROVE  a \div c <= b \div c
<1> DEFINE q == a \div c
           r == b \div c
<1>1. /\ q \in Nat /\ q * c <= a
      /\ r \in Nat /\ b < r * c + c
  BY DivisionFacts
<1>2. SUFFICES ASSUME r < q PROVE FALSE
  BY <1>1
<1> HIDE DEF q, r
<1>3. (r + 1) * c <= q * c
  BY <1>1, <1>2, ProductMonotone
<1>4. (r + 1) * c = r * c + c
  BY <1>1
<1> QED
  BY <1>1, <1>3, <1>4

(* A ramp of height h covers between 0 and h of it while it is under way.  *)
LEMMA CoveredBounds ==
    ASSUME NEW h \in Nat, NEW t0 \in Nat, NEW t1 \in Nat, NEW t \in Nat,
           t0 <= t, t < t1
    PROVE  Covered(h, t0, t1, t) \in 0 .. h
<1> DEFINE e == t - t0
           r == t1 - t0
           q == (h * e) \div r
<1>1. e \in Nat /\ r \in Nat \ {0} /\ e <= r
  OBVIOUS
<1>2. q = Covered(h, t0, t1, t)
  BY DEF Covered
<1> HIDE DEF e, r
<1>3. h * e \in Nat /\ h * e <= h * r
  BY <1>1, ProductMonotone
<1>4. q \in Nat /\ q * r <= h * e
  BY <1>1, <1>3, DivisionFacts
<1> HIDE DEF q
<1>5. q <= h
  <2>1. SUFFICES ASSUME h + 1 <= q PROVE FALSE
    BY <1>4
  <2>2. (h + 1) * r <= q * r
    BY <1>1, <1>4, <2>1, ProductMonotone
  <2>3. (h + 1) * r = h * r + r
    BY <1>1
  <2> QED
    BY <1>1, <1>3, <1>4, <2>2, <2>3
<1> QED
  BY <1>2, <1>4, <1>5

(* The later, the more of a ramp is covered.                               *)
LEMMA CoveredMonotone ==
    ASSUME NEW h \in Nat, NEW t0 \in Nat, NEW t1 \in Nat,
           NEW s \in Nat, NEW t \in Nat, t0 <= s, s <= t, t < t1
    PROVE  Covered(h, t0, t1, s) <= Covered(h, t0, t1, t)
<1>1. h * (s - t0) \in Nat /\ h * (t - t0) \in Nat /\ h * (s - t0) <= h * (t - t0)
  BY ProductMonotone
<1> QED
  BY <1>1, DivisionMonotone DEF Covered

-----------------------------------------------------------------------------
(* The bounds of the amplification follow from the shape of the ramp       *)
(* alone: it lies between the two end points.                              *)
LEMMA AmpBetweenEnds ==
    ASSUME AmpAssumption, ParameterAssumption, AmpTypeOK
    PROVE  /\ CurrentAmp \in Amps
           /\ next_amp > init_amp => CurrentAmp \in init_amp .. next_amp
           /\ next_amp <= init_amp => CurrentAmp \in next_amp .. init_amp
<1> USE DEF Amps
<1>1. /\ AMP_PRECISION \in Nat \ {0} /\ MAX_AMP * AMP_PRECISION \in Nat
      /\ now \in Nat /\ init_amp \in Nat /\ next_amp \in Nat
      /\ init_amp_time \in Nat /\ next_amp_time \in Nat /\ init_amp_time <= now
  BY DEF AmpAssumption, AmpTypeOK
<1>2. CASE now < next_amp_time /\ next_amp > init_amp
  <2>1. Covered(next_amp - init_amp, init_amp_time, next_amp_time, now)
            \in 0 .. next_amp - init_amp
    BY <1>1, <1>2, CoveredBounds
  <2> QED
    BY <1>1, <1>2, <2>1 DEF CurrentAmp, AmpTypeOK
<1>3. CASE now < next_amp_time /\ ~(next_amp > init_amp)
  <2>1. Covered(init_amp - next_amp, init_amp_time, next_amp_time, now)
            \in 0 .. init_amp - next_amp
    BY <1>1, <1>3, CoveredBounds
  <2> QED
    BY <1>1, <1>3, <2>1 DEF CurrentAmp, AmpTypeOK
<1>4. CASE ~(now < next_amp_time)
  BY <1>1, <1>4 DEF CurrentAmp, AmpTypeOK
<1> QED
  BY <1>2, <1>3, <1>4
-----------------------------------------------------------------------------
LEMMA AmpTypeInit ==
    ASSUME AmpAssumption, ParameterAssumption, AmpInit
    PROVE  AmpTypeOK
<1>1. PICK amp \in 1 .. MAX_AMP : init_amp = amp * AMP_PRECISION
                                /\ next_amp = amp * AMP_PRECISION
  BY DEF AmpInit
<1>2. amp * AMP_PRECISION \in Amps
  <2>1. 1 * AMP_PRECISION <= amp * AMP_PRECISION
        /\ amp * AMP_PRECISION <= MAX_AMP * AMP_PRECISION
        /\ amp * AMP_PRECISION \in Nat
    BY <1>1, ProductMonotone DEF AmpAssumption, ParameterAssumption
  <2> QED
    BY <2>1 DEF Amps, AmpAssumption, ParameterAssumption
<1> QED
  BY <1>1, <1>2 DEF AmpInit, AmpTypeOK, AmpAssumption, ParameterAssumption

LEMMA AmpTypeStep ==
    ASSUME AmpAssumption, ParameterAssumption, AmpTypeOK, [AmpNext]_ampVars
    PROVE  AmpTypeOK'
<1>1. CurrentAmp \in Amps
  BY AmpBetweenEnds
<1>2. ASSUME NEW amp \in 0 .. MAX_AMP + 1, NEW end \in RampEnds,
             StartChangingAmp(amp, end)
      PROVE  AmpTypeOK'
  <2>1. amp * AMP_PRECISION \in Amps
    <3>1. amp \in 1 .. MAX_AMP
      BY <1>2 DEF StartChangingAmp, AmpAllowed, ChangeAllowed, TimesAllowed, RampFrom,
              AmpAssumption, ParameterAssumption
    <3>2. 1 * AMP_PRECISION <= amp * AMP_PRECISION
          /\ amp * AMP_PRECISION <= MAX_AMP * AMP_PRECISION
          /\ amp * AMP_PRECISION \in Nat
      BY <3>1, ProductMonotone DEF AmpAssumption, ParameterAssumption
    <3> QED
      BY <3>2 DEF Amps, AmpAssumption, ParameterAssumption
  <2>2. /\ init_amp' = CurrentAmp
        /\ next_amp' = amp * AMP_PRECISION
        /\ init_amp_time' = now /\ next_amp_time' = end /\ now' = now
        /\ end \in Nat /\ end >= now
    BY <1>2 DEF StartChangingAmp, AmpAllowed, ChangeAllowed, TimesAllowed, RampFrom,
              AmpAssumption, AmpTypeOK
  <2> QED
    BY <1>1, <2>1, <2>2 DEF AmpTypeOK, AmpAssumption, Amps
<1>3. CASE StopChangingAmp
  BY <1>1, <1>3 DEF StopChangingAmp, RampFrom, AmpTypeOK, AmpAssumption, Amps
<1>4. CASE Tick
  BY <1>4 DEF Tick, rampVars, AmpTypeOK, AmpAssumption, Amps
<1>5. CASE UNCHANGED ampVars
  BY <1>5 DEF ampVars, AmpTypeOK, Amps
<1> QED
  BY <1>2, <1>3, <1>4, <1>5 DEF AmpNext

(* The stored ramp is well formed in every reachable state: both ends are  *)
(* legal amplifications and it never ends before it starts, so             *)
(* compute_current_amp neither underflows nor divides by zero.             *)
THEOREM AmpTypeCorrect == AmpSpec => []AmpTypeOK
<1>1. AmpInit => AmpTypeOK
  BY AmpTypeInit, AmpAssumption, ParameterAssumption
<1>2. AmpTypeOK /\ [AmpNext]_ampVars => AmpTypeOK'
  BY AmpTypeStep, AmpAssumption, ParameterAssumption
<1> QED
  BY <1>1, <1>2, PTL DEF AmpSpec

(* The amplification in force is always one that instantiate would accept. *)
THEOREM AmpAlwaysInBounds == AmpSpec => []AmpInBounds
<1>1. AmpTypeOK => AmpInBounds
  BY AmpBetweenEnds, AmpAssumption, ParameterAssumption DEF AmpInBounds
<1> QED
  BY <1>1, AmpTypeCorrect, PTL

-----------------------------------------------------------------------------
(* A fresh ramp that starts now has covered nothing yet.                   *)
LEMMA FreshRamp ==
    ASSUME NEW h \in Nat, NEW t0 \in Nat, NEW t1 \in Nat, t0 < t1
    PROVE  Covered(h, t0, t1, t0) = 0
<1>1. h * (t0 - t0) = 0
  BY SMT
<1>2. 0 \div (t1 - t0) = 0
  BY DivisionFacts, 0 \in Nat, t1 - t0 \in Nat \ {0}
<1> QED
  BY <1>1, <1>2 DEF Covered

LEMMA NoJumpStep ==
    ASSUME AmpAssumption, ParameterAssumption, AmpTypeOK, [AmpNext]_ampVars, now' = now
    PROVE  CurrentAmp' = CurrentAmp
<1>1. CurrentAmp \in Amps /\ CurrentAmp \in Nat /\ now \in Nat
  BY AmpBetweenEnds DEF Amps, AmpTypeOK, AmpAssumption, ParameterAssumption
<1>2. ASSUME NEW amp \in 0 .. MAX_AMP + 1, NEW end \in RampEnds,
             StartChangingAmp(amp, end)
      PROVE  CurrentAmp' = CurrentAmp
  <2> DEFINE cur == CurrentAmp
  <2>1. /\ init_amp' = cur
        /\ next_amp' = amp * AMP_PRECISION
        /\ init_amp_time' = now /\ next_amp_time' = end
        /\ end \in Nat /\ now < end
    BY <1>1, <1>2 DEF StartChangingAmp, TimesAllowed, RampFrom, AmpAssumption, AmpTypeOK
  <2>2. amp * AMP_PRECISION \in Nat
    BY ProductMonotone, amp \in Nat, AMP_PRECISION \in Nat DEF AmpAssumption, ParameterAssumption
  <2>3. CurrentAmp' =
          IF amp * AMP_PRECISION > cur
          THEN cur + Covered(amp * AMP_PRECISION - cur, now, end, now)
          ELSE cur - Covered(cur - amp * AMP_PRECISION, now, end, now)
    BY <2>1 DEF CurrentAmp, Covered
  <2> HIDE DEF cur
  <2>4. cur \in Nat
    BY <1>1 DEF cur
  <2>5. CASE amp * AMP_PRECISION > cur
    BY <1>1, <2>1, <2>2, <2>3, <2>4, <2>5, FreshRamp DEF cur
  <2>6. CASE ~(amp * AMP_PRECISION > cur)
    <3>1. Covered(cur - amp * AMP_PRECISION, now, end, now) = 0
      BY <1>1, <2>1, <2>2, <2>4, <2>6, FreshRamp
    <3> QED
      BY <2>3, <2>4, <2>6, <3>1 DEF cur
  <2> QED
    BY <2>5, <2>6
<1>3. CASE StopChangingAmp
  <2>1. next_amp' = CurrentAmp /\ next_amp_time' = now /\ ~(now' < next_amp_time')
    BY <1>1, <1>3 DEF StopChangingAmp, RampFrom
  <2> QED
    BY <2>1 DEF CurrentAmp
<1>4. CASE Tick
  BY <1>1, <1>4 DEF Tick
<1>5. CASE UNCHANGED ampVars
  BY <1>5 DEF ampVars, CurrentAmp, Covered
<1> QED
  BY <1>2, <1>3, <1>4, <1>5 DEF AmpNext

(* No configuration call makes the amplification in force jump.            *)
THEOREM AmpNeverJumps == AmpSpec => NoAmpJump
<1>1. AmpTypeOK /\ [AmpNext]_ampVars => [now' = now => CurrentAmp' = CurrentAmp]_ampVars
  BY NoJumpStep, AmpAssumption, ParameterAssumption
<1> QED
  BY <1>1, AmpTypeCorrect, PTL DEF AmpSpec, NoAmpJump

LEMMA TowardsTargetStep ==
    ASSUME AmpAssumption, ParameterAssumption, AmpTypeOK, AmpNext, now' > now
    PROVE  \/ CurrentAmp <= CurrentAmp' /\ CurrentAmp' <= next_amp
           \/ next_amp <= CurrentAmp' /\ CurrentAmp' <= CurrentAmp
<1>1. now \in Nat
  BY DEF AmpTypeOK, AmpAssumption, ParameterAssumption
<1>2. Tick
  BY <1>1 DEF AmpNext, StartChangingAmp, StopChangingAmp, RampFrom
<1>3. /\ now' = now + 1
      /\ UNCHANGED rampVars
      /\ init_amp' = init_amp /\ next_amp' = next_amp
      /\ init_amp_time' = init_amp_time /\ next_amp_time' = next_amp_time
  BY <1>2 DEF Tick, rampVars
<1>4. /\ init_amp \in Nat /\ next_amp \in Nat /\ init_amp_time \in Nat
      /\ next_amp_time \in Nat /\ init_amp_time <= now
  BY DEF AmpTypeOK, AmpAssumption, Amps
<1>5. /\ next_amp > init_amp => CurrentAmp \in init_amp .. next_amp
      /\ next_amp <= init_amp => CurrentAmp \in next_amp .. init_amp
  BY AmpBetweenEnds
<1>6. CASE ~(now' < next_amp_time)
  <2>1. CurrentAmp' = next_amp
    BY <1>3, <1>6 DEF CurrentAmp
  <2> QED
    BY <1>4, <1>5, <2>1
<1>7. CASE now' < next_amp_time /\ next_amp > init_amp
  <2> DEFINE h == next_amp - init_amp
  <2>1. /\ CurrentAmp = init_amp + Covered(h, init_amp_time, next_amp_time, now)
        /\ CurrentAmp' = init_amp + Covered(h, init_amp_time, next_amp_time, now + 1)
    BY <1>1, <1>3, <1>4, <1>7 DEF CurrentAmp, Covered
  <2>2. /\ h \in Nat /\ now + 1 \in Nat
        /\ now < next_amp_time /\ now + 1 < next_amp_time /\ init_amp_time <= now + 1
    BY <1>1, <1>3, <1>4, <1>7
  <2>3. Covered(h, init_amp_time, next_amp_time, now)
            <= Covered(h, init_amp_time, next_amp_time, now + 1)
    BY <1>1, <1>4, <2>2, CoveredMonotone
  <2>4. /\ Covered(h, init_amp_time, next_amp_time, now + 1) \in 0 .. h
        /\ Covered(h, init_amp_time, next_amp_time, now) \in 0 .. h
    BY <1>1, <1>4, <2>2, CoveredBounds
  <2> QED
    BY <1>4, <1>7, <2>1, <2>3, <2>4
<1>8. CASE now' < next_amp_time /\ ~(next_amp > init_amp)
  <2> DEFINE h == init_amp - next_amp
  <2>1. /\ CurrentAmp = init_amp - Covered(h, init_amp_time, next_amp_time, now)
        /\ CurrentAmp' = init_amp - Covered(h, init_amp_time, next_amp_time, now + 1)
    BY <1>1, <1>3, <1>4, <1>8 DEF CurrentAmp, Covered
  <2>2. /\ h \in Nat /\ now + 1 \in Nat
        /\ now < next_amp_time /\ now + 1 < next_amp_time /\ init_amp_time <= now + 1
    BY <1>1, <1>3, <1>4, <1>8
  <2>3. Covered(h, init_amp_time, next_amp_time, now)
            <= Covered(h, init_amp_time, next_amp_time, now + 1)
    BY <1>1, <1>4, <2>2, CoveredMonotone
  <2>4. /\ Covered(h, init_amp_time, next_amp_time, now + 1) \in 0 .. h
        /\ Covered(h, init_amp_time, next_amp_time, now) \in 0 .. h
    BY <1>1, <1>4, <2>2, CoveredBounds
  <2> QED
    BY <1>4, <1>8, <2>1, <2>3, <2>4
<1> QED
  BY <1>6, <1>7, <1>8

(* Time moves the amplification towards next_amp and never past it.        *)
THEOREM AmpMovesTowardsTarget == AmpSpec => TowardsTarget
<1>1. AmpTypeOK /\ [AmpNext]_ampVars =>
        [now' > now =>
           \/ CurrentAmp <= CurrentAmp' /\ CurrentAmp' <= next_amp
           \/ next_amp <= CurrentAmp' /\ CurrentAmp' <= CurrentAmp]_ampVars
  BY TowardsTargetStep, AmpAssumption, ParameterAssumption
<1> QED
  BY <1>1, AmpTypeCorrect, PTL DEF AmpSpec, TowardsTarget
=============================================================================
