------------------------------- MODULE AmpPath -------------------------------
(***************************************************************************)
(* What the amplification of a pair promises its liquidity providers,      *)
(* with no word about ramps: path[k] is the amplification in force k       *)
(* seconds after the instantiation.  It stays within its limits, and over  *)
(* any Window seconds it changes by no more than the factor MaxFactor      *)
(* (one unit of rounding aside).                                           *)
(***************************************************************************)
EXTENDS Integers, Sequences

CONSTANTS Lowest, Highest, MaxFactor, Window

VARIABLE path

Limits == Lowest .. Highest

(* b may be in force at most Window seconds after a.                       *)
WithinFactor(a, b) ==
    /\ b <= (a + 1) * MaxFactor
    /\ a <= (b + 1) * MaxFactor

PathInit == \E a \in Limits : path = <<a>>

PathNext ==
    \E a \in Limits :
        /\ \A k \in 1 .. Len(path) :
              Len(path) + 1 - k <= Window => WithinFactor(path[k], a)
        /\ path' = Append(path, a)

PathSpec == PathInit /\ [][PathNext]_path
=============================================================================
