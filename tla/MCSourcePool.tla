---------------------------- MODULE MCSourcePool ----------------------------
(* Small pools for TLC.                                                      *)
EXTENDS SourcePoolRefinement, TLC

OneHostTwoClients == 0 :> 2
TwoHosts == 0 :> 1 @@ 1 :> 1
OneHostOneClient == 0 :> 1

WorkerSymmetry == Permutations(Worker)
=============================================================================
