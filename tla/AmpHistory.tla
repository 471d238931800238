----------------------------- MODULE AmpHistory -----------------------------
(***************************************************************************)
(* AmpRamp with the history of the amplification in force, one entry per   *)
(* second, and the claim that this history is a path of AmpPath: however   *)
(* the owner chains starts, restarts in the middle of a ramp and stops,    *)
(* the rate limit of a single call (MAX_AMP_CHANGE, MIN_AMP_CHANGING_TIME) *)
(* is a rate limit of the amplification itself.                            *)
(***************************************************************************)
EXTENDS AmpRamp, Sequences

VARIABLE path

HistoryInit == AmpInit /\ path = <<CurrentAmp>>

(* The history grows with the clock and with nothing else.                 *)
HistoryNext ==
    /\ AmpNext
    /\ path' = IF now' = now THEN path ELSE Append(path, CurrentAmp')

HistorySpec == HistoryInit /\ [][HistoryNext]_<<ampVars, path>>

(* Blocks keep coming; nobody is obliged to call the contract.             *)
HistoryFairSpec == HistorySpec /\ WF_<<ampVars, path>>(Tick /\ HistoryNext)

Promise == INSTANCE AmpPath WITH
    Lowest <- AMP_PRECISION,
    Highest <- MAX_AMP * AMP_PRECISION,
    MaxFactor <- MAX_AMP_CHANGE,
    Window <- MIN_AMP_CHANGING_TIME

(* The history of the amplification obeys AmpPath: it is bounded, it only  *)
(* moves with the clock, and no window of MIN_AMP_CHANGING_TIME seconds    *)
(* sees more than a factor MAX_AMP_CHANGE, across any chain of owner calls.*)
AmpIsRateLimited == Promise!PathSpec
=============================================================================
