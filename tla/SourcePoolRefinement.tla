------------------------ MODULE SourcePoolRefinement ------------------------
(***************************************************************************)
(* SourcePool implements LeasePool: what its callers see of hosts, circuits,*)
(* wait sets and finishers is only who holds which client, and whether the *)
(* pool is open, closing or closed.                                        *)
(***************************************************************************)
EXTENDS SourcePool

CONSTANTS Free, Gone

ASSUME MarkAssumption == Free # Gone /\ {Free, Gone} \cap Worker = {}

Phase == IF closed THEN "closed" ELSE IF closing THEN "closing" ELSE "open"

Holder ==
  [c \in Client |->
     IF closeCalls[c] > 0 THEN Gone
     ELSE IF client[c].inUse THEN CHOOSE w \in Worker : Holding(w, c)
     ELSE Free]

Abstract == INSTANCE LeasePool WITH phase <- Phase, holder <- Holder

(* Every step of the pool is a step of the lending contract or changes       *)
(* nothing its callers see (Acquire, Release and Close, pool.go:298-578).    *)
ImplementsLeasePool == Abstract!Spec
=============================================================================
