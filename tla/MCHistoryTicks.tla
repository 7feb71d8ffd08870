--------------------------- MODULE MCHistoryTicks ---------------------------
EXTENDS HistoryTicks, TLC

CONSTANTS r1, r2

(* Three ticks: each of its own minute, or the first two of one minute.      *)
OwnMinutes == <<1, 2, 3>>
SharedMinute == <<1, 1, 2>>

Full == [start |-> 0, count |-> 0, full |-> TRUE, force |-> FALSE]
Fresh(q) == [q EXCEPT !.force = TRUE]
Page(start, count) ==
  [start |-> start, count |-> count, full |-> FALSE, force |-> FALSE]

(* One reader of pages and of the whole day, and one that forces a page or   *)
(* needs no more than one tick.                                              *)
FirstPagesAndFull ==
  r1 :> {Page(0, 0), Full, Fresh(Full)}
    @@ r2 :> {Page(0, 1), Fresh(Page(0, 3))}

TwoReaders(requests) == r1 :> requests @@ r2 :> requests
FirstPageAndFull == TwoReaders({Page(0, 1), Full})

OneReader(requests) == r1 :> requests
SecondPageAndFull == OneReader({Page(1, 2), Full})
=============================================================================
