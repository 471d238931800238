---------------------------- MODULE PairHistory ----------------------------
(***************************************************************************)
(* Pair with the memory of how the current block began: the reserves and   *)
(* the oracle at its start, and whether assets were sent to the pair       *)
(* without a call since.  It states what the price oracle is for: a trade  *)
(* cannot move the price that the accumulators record for its own block.   *)
(***************************************************************************)
EXTENDS PairCalls

VARIABLES opening, donated

historyVars == <<opening, donated, calls>>

Snapshot == [reserve |-> reserve,
             block_time_last |-> block_time_last,
             price_cumulative_last |-> price_cumulative_last]

HistoryInit ==
    /\ PairInit
    /\ opening = Snapshot
    /\ donated = FALSE
    /\ calls = 0

AccountCall ==
    /\ CountCall
    /\ \E sender \in Accounts :
          \/ (Call(sender) \/ LpCall(sender)) /\ UNCHANGED donated
          \/ Donation(sender) /\ donated' = TRUE
    /\ UNCHANGED opening

OwnerCall ==
    /\ \E sender \in Accounts : UpdateConfig(sender)
    /\ UNCHANGED historyVars

BlockBegins ==
    /\ NextBlock
    /\ opening' = Snapshot'
    /\ donated' = FALSE
    /\ UNCHANGED calls

HistoryNext == AccountCall \/ OwnerCall \/ BlockBegins

HistorySpec == HistoryInit /\ [][HistoryNext]_<<pairVars, historyVars>>

(* The accumulators after a block that began as opening is accounted for.  *)
Recorded ==
    IF \E i \in Assets : opening.reserve[i] = 0
    THEN opening.price_cumulative_last
    ELSE [i \in Assets |->
            WrappingAdd(opening.price_cumulative_last[i],
                PriceTimesElapsed(opening.reserve, i, opening.block_time_last))]

(* Once a block is accounted for, the accumulators hold the prices of the  *)
(* pool as the block found it, for the time since the last accumulation:   *)
(* neither the call that triggers the accumulation nor any later call of   *)
(* the block shows in them, in whatever order deposits, swaps, withdrawals *)
(* and ramp changes of the block come (assets sent without a call aside).  *)
OracleIgnoresOwnBlock ==
    block_time_last = now /\ ~donated => price_cumulative_last = Recorded
=============================================================================
