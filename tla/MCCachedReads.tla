--------------------------- MODULE MCCachedReads ---------------------------
EXTENDS CachedReads, TLC

(* Both symbols are of one market, so that their lists are one entry.        *)
OneMarket == [s \in Symbol |-> "SH"]

ReadSymmetry == Permutations(Reader) \cup Permutations(Symbol)

=============================================================================
