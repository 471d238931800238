---------------------------- MODULE MCPriceReader ----------------------------
EXTENDS PriceReader

CONSTANT alice

MCMaxU128 == 2^15 - 1
MCMaxU256 == 2^30 - 1
MCAccounts == {alice}
(* A native coin against a cw20 token of another precision.                *)
MCIsNative == [i \in {0, 1} |-> i = 0]
MCPrecision == [i \in {0, 1} |-> i + 1]
MCInitialWallet == [i \in {0, 1} |-> IF i = 0 THEN 40 ELSE 80]
MCNoBelief == {-1}
(* An unbalanced pair that has been in use, with one accumulator about to  *)
(* wrap around in a few seconds.                                           *)
MCUsedReserve == [i \in {0, 1} |-> IF i = 0 THEN 12 ELSE 60]
MCUsedPrices == {[i \in {0, 1} |-> IF i = 0 THEN MCMaxU128 - 3 ELSE 5]}
=============================================================================
