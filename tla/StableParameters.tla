-------------------------- MODULE StableParameters --------------------------
(***************************************************************************)
(* The constants of contracts/pair/src/math.rs that both the ramp of the   *)
(* amplification and the arithmetic use.                                   *)
(***************************************************************************)
EXTENDS Integers

CONSTANT AMP_PRECISION          \* units of a stored amplification: 100 in the code

ASSUME ParameterAssumption == AMP_PRECISION \in Nat \ {0}

N_COINS == 2
N_COINS_SQUARED == 4
ITERATIONS == 32
=============================================================================
