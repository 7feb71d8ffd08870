---------------------------- MODULE Subsequences ----------------------------
(***************************************************************************)
(* What a loop keeps that goes over a slice and appends some of its        *)
(* elements to an empty one, as uniqueNonEmptyHosts, filterBarsByDate and  *)
(* QueryBars do.  Whether an element is kept depends on its place: on what *)
(* it is, and on what comes before it.                                     *)
(***************************************************************************)
EXTENDS Naturals, Sequences

(* The elements of s at the given places, in their order.                    *)
Kept(s, places) ==
  LET kept[i \in 0..Len(s)] ==
        IF i = 0 THEN <<>>
        ELSE IF i \in places THEN Append(kept[i - 1], s[i]) ELSE kept[i - 1]
  IN  kept[Len(s)]

Ascends(s) == \A i, j \in DOMAIN s : i < j => s[i] < s[j]

=============================================================================
