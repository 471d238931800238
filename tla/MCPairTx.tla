------------------------------ MODULE MCPairTx ------------------------------
EXTENDS PairTx

CONSTANTS alice, bob

MCMaxU128 == 2^15 - 1
MCMaxU256 == 2^30 - 1
(* A native coin against a cw20 token, and two native coins.               *)
MCIsNative == [i \in {0, 1} |-> i = 0]
MCCoins == [i \in {0, 1} |-> TRUE]
MCPrecision == [i \in {0, 1} |-> 1]
MCInitialWallet == [i \in {0, 1} |-> 30]
MCNoBelief == {-1}
(* No belief price, and the belief that the coins are worth the same.      *)
MCBelief == {-1, 1000}
=============================================================================
