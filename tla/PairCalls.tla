----------------------------- MODULE PairCalls ------------------------------
(***************************************************************************)
(* Pair with a count of the transactions of its accounts, which bounds     *)
(* the behaviours of the modules that watch a pair.                        *)
(***************************************************************************)
EXTENDS Pair

CONSTANT MaxCalls           \* bound: transactions of the accounts in a behaviour

VARIABLE calls

(* One more transaction.                                                   *)
CountCall ==
    /\ calls < MaxCalls
    /\ calls' = calls + 1
=============================================================================
