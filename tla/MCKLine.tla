------------------------------- MODULE MCKLine -------------------------------
EXTENDS KLine, TLC

CONSTANTS r1, r2

(* Five trading days, of which the market is shut on one in between.  With   *)
(* MaxGap = 2, two pages of two days leave a gap.                            *)
Days == {1, 2, 4, 5, 6}

Span(from, to) ==
  [start |-> 0, count |-> 0, from |-> from, to |-> to, force |-> FALSE]
Page(start, count) ==
  [start |-> start, count |-> count, from |-> 0, to |-> 0, force |-> FALSE]
Fresh(q) == [q EXCEPT !.force = TRUE]

(* One caller asks for the days or the newest two, another for the newest    *)
(* two, fetched afresh.                                                      *)
SpanAndPages ==
  r1 :> {Span(1, 7), Page(0, 2)} @@ r2 :> {Fresh(Page(0, 2))}

KeysOf == {CacheKey(q) : q \in UNION {Requests[r] : r \in Caller}}
Loads == {Bars(days) : days \in SUBSET Trading} \cup {Failed}
=============================================================================
