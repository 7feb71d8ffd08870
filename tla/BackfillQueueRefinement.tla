---------------------- MODULE BackfillQueueRefinement ----------------------
(***************************************************************************)
(* BackfillQueue implements TaskQueue when Next claims in one step: races  *)
(* of inserts, retries and copies of rows do not show.                     *)
(***************************************************************************)
EXTENDS BackfillQueue

CONSTANTS Absent, Waiting, Finished

Owner ==
  [k \in WorkKey |->
     CASE task[k] = NoTask -> Absent
       [] task[k] # NoTask /\ task[k].status \in {"pending", "retrying"} -> Waiting
       [] task[k] # NoTask /\ task[k].status \in {"success", "failed"} -> Finished
       [] OTHER -> CHOOSE w \in Worker : doing[w] = "working" /\ copy[w].key = k]

Queue == INSTANCE TaskQueue WITH owner <- Owner

(* Where claims are exclusive, every step of the store is a step of the      *)
(* promised queue, or changes nothing of it (memory_store.go:278-363,        *)
(* sql_store.go:445-580).                                                    *)
ImplementsTaskQueue ==
  /\ Queue!Init
  /\ [][ClaimsInOneStep => Queue!Next]_Owner
=============================================================================
