------------------------------- MODULE MCPair -------------------------------
EXTENDS PairHistory

CONSTANT alice

MCMaxU128 == 2^15 - 1
MCMaxU256 == 2^30 - 1
MCRampEnds == {3}
MCAccounts == {alice}
(* A native coin against a cw20 token.                                     *)
MCIsNative == [i \in {0, 1} |-> i = 0]
(* Two precisions: one unit of asset 0 is worth two of asset 1.            *)
MCPrecision == [i \in {0, 1} |-> i + 1]
MCInitialWallet == [i \in {0, 1} |-> IF i = 0 THEN 40 ELSE 80]
(* No belief price; the largest limit the pair accepts.                    *)
MCNoBelief == {-1}
MCMaxSpreads == {500}

(* Two cw20 tokens of the same precision, in wallets large enough for an   *)
(* invariant D whose cube leaves U256, as some ten million whole tokens of *)
(* 18 decimals do.                                                         *)
MCTokens == [i \in {0, 1} |-> FALSE]
MCSamePrecision == [i \in {0, 1} |-> 1]
MCLargeWallet == [i \in {0, 1} |-> 300]
=============================================================================
