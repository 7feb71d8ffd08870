-------------------------- MODULE MCBackfillQueue --------------------------
(* BackfillQueue with small sets for TLC.                                    *)
EXTENDS BackfillQueueRefinement

CONSTANTS ticks, bars

TwoKeys == {ticks, bars}

(* History ticks are enqueued with 100, bars with 90 (market_data.go:204,    *)
(* 427).                                                                     *)
PriorityOfTwo == [k \in TwoKeys |-> IF k = ticks THEN 100 ELSE 90]
=============================================================================
