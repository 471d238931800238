------------------------------- MODULE AmpRamp -------------------------------
(***************************************************************************)
(* The amplification coefficient of a pair (contracts/pair): a piecewise   *)
(* linear function of block time that the owner of the factory bends with  *)
(* StartChangingAmp and freezes with StopChangingAmp.  The four variables  *)
(* init_amp .. next_amp_time are the fields of Config with these names;    *)
(* now is the block time in seconds.  Every amplification is stored in     *)
(* units of 1 / AMP_PRECISION.  A rejected call changes nothing, so it is  *)
(* no step.  Who may call is checked where the pair is composed (Pair).    *)
(***************************************************************************)
EXTENDS StableParameters

CONSTANTS
    MAX_AMP,                \* largest amplification, in whole units
    MAX_AMP_CHANGE,         \* largest factor of one change
    MIN_AMP_CHANGING_TIME,  \* shortest change, and pause between two, in seconds
    StartTime,              \* block time of the instantiation
    MaxTime,                \* bound: the clock stops here
    RampEnds                \* the next_amp_time values callers pass

ASSUME AmpAssumption ==
    /\ MAX_AMP \in Nat \ {0}
    /\ MAX_AMP_CHANGE \in Nat \ {0}
    /\ MIN_AMP_CHANGING_TIME \in Nat \ {0}
    /\ StartTime \in Nat
    /\ MaxTime \in Nat
    /\ StartTime <= MaxTime
    /\ RampEnds \subseteq Nat

VARIABLES now, init_amp, init_amp_time, next_amp, next_amp_time

rampVars == <<init_amp, init_amp_time, next_amp, next_amp_time>>
ampVars == <<now, init_amp, init_amp_time, next_amp, next_amp_time>>

(* Every stored amplification lies in this set.                            *)
Amps == AMP_PRECISION .. MAX_AMP * AMP_PRECISION

(***************************************************************************)
(* The way covered at time t of a ramp of height h that starts at t0 and   *)
(* ends at t1: amp_range * elapsed_time / time_range, rounded down.        *)
(***************************************************************************)
Covered(h, t0, t1, t) == (h * (t - t0)) \div (t1 - t0)

(* Slips that the runs must notice, in place of the definition below: a    *)
(* ramp run backwards, one run away from its target, one that never ends.  *)
CurrentAmpBackwards ==
    IF now < next_amp_time
    THEN IF init_amp > next_amp
         THEN next_amp + Covered(init_amp - next_amp, init_amp_time, next_amp_time, now)
         ELSE next_amp - Covered(next_amp - init_amp, init_amp_time, next_amp_time, now)
    ELSE next_amp

CurrentAmpAway ==
    IF now < next_amp_time
    THEN init_amp + Covered(init_amp - next_amp, init_amp_time, next_amp_time, now)
    ELSE next_amp

CurrentAmpStuck == init_amp

(* compute_current_amp                                                     *)
CurrentAmp ==
    IF now < next_amp_time
    THEN IF next_amp > init_amp
         THEN init_amp + Covered(next_amp - init_amp, init_amp_time, next_amp_time, now)
         ELSE init_amp - Covered(init_amp - next_amp, init_amp_time, next_amp_time, now)
    ELSE next_amp

-----------------------------------------------------------------------------
(* instantiate: any legal amplification, in force at once.                 *)
AmpInit ==
    /\ now = StartTime
    /\ \E amp \in 1 .. MAX_AMP :
         /\ init_amp = amp * AMP_PRECISION
         /\ next_amp = amp * AMP_PRECISION
    /\ init_amp_time = StartTime
    /\ next_amp_time = StartTime

(* The three tests of start_changing_amp: a legal amplification, no more   *)
(* than a factor MAX_AMP_CHANGE away from the one in force, and neither    *)
(* too soon after the last change nor too fast.                            *)
AmpAllowedUncapped(amp) == amp # 0      \* slip: no upper limit

AmpAllowed(amp) == amp # 0 /\ amp <= MAX_AMP

ChangeAllowed(target) ==
    /\ target * MAX_AMP_CHANGE >= CurrentAmp
    /\ target <= CurrentAmp * MAX_AMP_CHANGE

(* Slip: the length of the ramp counts from the previous change.           *)
TimesAllowedFromLastChange(end) ==
    /\ now >= init_amp_time + MIN_AMP_CHANGING_TIME
    /\ end >= init_amp_time + MIN_AMP_CHANGING_TIME

TimesAllowed(end) ==
    /\ now >= init_amp_time + MIN_AMP_CHANGING_TIME
    /\ end >= now + MIN_AMP_CHANGING_TIME

(* The ramp from amp0 now to amp1 at time end replaces the one in force.   *)
RampFrom(amp0, amp1, end) ==
    /\ init_amp' = amp0
    /\ next_amp' = amp1
    /\ init_amp_time' = now
    /\ next_amp_time' = end
    /\ UNCHANGED now

(* update_config with StartChangingAmp {next_amp: amp, next_amp_time: end} *)
StartChangingAmp(amp, end) ==
    LET target == amp * AMP_PRECISION
    IN  /\ AmpAllowed(amp)
        /\ ChangeAllowed(target)
        /\ TimesAllowed(end)
        /\ RampFrom(CurrentAmp, target, end)

(* update_config with StopChangingAmp {}                                   *)
StopChangingAmpAtTarget == RampFrom(next_amp, next_amp, now)       \* slip

StopChangingAmp == RampFrom(CurrentAmp, CurrentAmp, now)

(* The next block: time passes, in steps of one second, up to MaxTime.     *)
Tick ==
    /\ now < MaxTime
    /\ now' = now + 1
    /\ UNCHANGED rampVars

AmpNext ==
    \/ \E amp \in 0 .. MAX_AMP + 1, end \in RampEnds : StartChangingAmp(amp, end)
    \/ StopChangingAmp
    \/ Tick

AmpSpec == AmpInit /\ [][AmpNext]_ampVars

-----------------------------------------------------------------------------
(* Types, and the shape of a stored ramp: it started in the past, it does  *)
(* not end before it starts, and a ramp still under way has a positive     *)
(* length, so compute_current_amp never subtracts below zero nor divides   *)
(* by zero.                                                                *)
AmpTypeOK ==
    /\ now \in StartTime .. MaxTime
    /\ init_amp \in Amps
    /\ next_amp \in Amps
    /\ init_amp_time \in StartTime .. now
    /\ next_amp_time \in Nat
    /\ next_amp_time >= init_amp_time

(* The amplification in force is one that instantiate would accept, at     *)
(* every instant of every chain of ramps, restarts and stops: the rounding *)
(* of compute_current_amp never leaves the range of the end points.        *)
AmpInBounds == CurrentAmp \in Amps

(* No configuration call makes the amplification in force jump: start and  *)
(* stop re-base the ramp on the value computed at the time of the call.    *)
NoAmpJump == [][now' = now => CurrentAmp' = CurrentAmp]_ampVars

(* The passage of time moves the amplification towards next_amp and never  *)
(* past it, whatever the rounding of the interpolation.                    *)
TowardsTarget ==
    [][now' > now =>
         \/ CurrentAmp <= CurrentAmp' /\ CurrentAmp' <= next_amp
         \/ next_amp <= CurrentAmp' /\ CurrentAmp' <= CurrentAmp]_ampVars

(* A change that is not interfered with completes: every target is reached *)
(* unless a later call replaces the target first.                          *)
RampCompletes ==
    \A a \in Amps : (next_amp = a) ~> (CurrentAmp = a \/ next_amp # a)
=============================================================================
