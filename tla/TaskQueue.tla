----------------------------- MODULE TaskQueue -----------------------------
(***************************************************************************)
(* What a backfill queue promises: a piece of work is entered once, worked *)
(* on by one worker at a time, and left alone once it has finished.        *)
(* BackfillQueue implements it with the in-memory store and PostgreSQL.    *)
(***************************************************************************)
CONSTANTS Worker, WorkKey,
          Absent,    \* work nobody has asked for
          Waiting,   \* work that waits for a worker
          Finished   \* work that succeeded or failed for good

VARIABLE owner       \* for each work key: a worker, or one of the three marks

TypeOK == owner \in [WorkKey -> Worker \cup {Absent, Waiting, Finished}]

Init == owner = [k \in WorkKey |-> Absent]

Move(k, from, to) ==
  /\ owner[k] = from
  /\ owner' = [owner EXCEPT ![k] = to]

Next ==
  \E k \in WorkKey :
    \/ Move(k, Absent, Waiting)
    \/ \E w \in Worker : \/ Move(k, Waiting, w)
                         \/ Move(k, w, Waiting)
                         \/ Move(k, w, Finished)

Spec == Init /\ [][Next]_owner
=============================================================================
