------------------------- MODULE HistoryStoreProofs -------------------------
(***************************************************************************)
(* Proofs about the history store.                                         *)
(*                                                                         *)
(* BackfillQueue, for any requesters, workers, work keys and priorities:   *)
(* tasks are created once, claimed by one worker where a claim is one      *)
(* step, and moved forward; and the queue implements TaskQueue.            *)
(*                                                                         *)
(* HistoryTicks, for any day, readers and requests from the start of the   *)
(* day: the store, the cache and the readers hold the beginning of the day *)
(* and nothing else, so that a covered day is stored and no tick is        *)
(* answered twice; and what is answered is what the upstream has, but for  *)
(* one race.  That loads are merged is taken from CallGroupProofs.         *)
(***************************************************************************)
EXTENDS BackfillQueueRefinement, HistoryTicks, FiniteSetTheorems, TLAPS

-----------------------------------------------------------------------------
(* A new queue is empty and well typed.                                      *)
LEMMA QueueTypeInit == QueueInit => QueueTypeOK
  BY DEF QueueInit, QueueTypeOK

(* The row that Store writes is a task (sql_store.go:566-571).               *)
LEMMA StoredTask ==
  ASSUME QueueTypeOK, NEW w \in Worker, copy[w] # NoTask,
         NEW st \in Status, NEW n \in Nat, Store(w, st, n)
  PROVE  /\ copy[w].key \in WorkKey /\ copy[w].row \in Task
         /\ task' \in [WorkKey -> Task \cup {NoTask}]
         /\ task'[copy[w].key] # NoTask
         /\ task'[copy[w].key].status = st
         /\ task'[copy[w].key].retries = n
         /\ task'[copy[w].key].born = copy[w].row.born
         /\ \A k \in WorkKey : k # copy[w].key => task'[k] = task[k]
<1> DEFINE row == [copy[w].row EXCEPT !.status = st, !.retries = n]
<1>1. copy[w].key \in WorkKey /\ copy[w].row \in Task
  BY DEF QueueTypeOK, Copy
<1>2. /\ row \in Task /\ row.status = st /\ row.retries = n
      /\ row.born = copy[w].row.born
  BY <1>1 DEF Task
<1>3. row # NoTask
  BY <1>2, QueueAssumption
<1>4. task' = [task EXCEPT ![copy[w].key] = row]
  BY DEF Store
<1>5. task \in [WorkKey -> Task \cup {NoTask}]
  BY DEF QueueTypeOK
<1> HIDE DEF row
<1>6. QED
  BY <1>1, <1>2, <1>3, <1>4, <1>5

(* The row a worker reads, and what it keeps of it (sql_store.go:515-521).   *)
LEMMA ReadRow ==
  ASSUME QueueTypeOK, NEW w \in Worker, NEW k \in WorkKey, Best(k), Read(w, k)
  PROVE  /\ task[k] \in Task
         /\ task[k].status \in {"pending", "retrying"}
         /\ copy' \in [Worker -> Copy \cup {NoTask}]
         /\ copy'[w] = [key |-> k, row |-> task[k]]
         /\ copy'[w] # NoTask
         /\ \A v \in Worker : v # w => copy'[v] = copy[v]
<1>1. task[k] # NoTask /\ task[k].status \in {"pending", "retrying"}
  BY DEF Best, WaitingTasks
<1>2. task[k] \in Task
  BY <1>1 DEF QueueTypeOK
<1>3. [key |-> k, row |-> task[k]] \in Copy
  BY <1>2 DEF Copy
<1>4. [key |-> k, row |-> task[k]] # NoTask
  BY <1>3, QueueAssumption
<1>5. copy \in [Worker -> Copy \cup {NoTask}]
  BY DEF QueueTypeOK
<1>6. copy' = [copy EXCEPT ![w] = [key |-> k, row |-> task[k]]]
  BY DEF Read
<1>7. QED
  BY <1>1, <1>2, <1>3, <1>4, <1>5, <1>6

(* Inserting a task for k (sql_store.go:474-489).                            *)
LEMMA InsertRow ==
  ASSUME QueueTypeOK, NEW k \in WorkKey, NEW t \in Nat, Insert(k, t)
  PROVE  /\ task' \in [WorkKey -> Task \cup {NoTask}]
         /\ created' \in [WorkKey -> Nat]
         /\ task'[k] # NoTask
         /\ created'[k] = created[k] + 1
         /\ \A j \in WorkKey : j # k => task'[j] = task[j] /\ created'[j] = created[j]
<1>1. NewTask(t) \in Task
  BY DEF NewTask, Task, Status
<1>2. NewTask(t) # NoTask
  BY <1>1, QueueAssumption
<1>3. /\ task' = [task EXCEPT ![k] = NewTask(t)]
      /\ created' = [created EXCEPT ![k] = created[k] + 1]
  BY DEF Insert
<1>4. task \in [WorkKey -> Task \cup {NoTask}] /\ created \in [WorkKey -> Nat]
  BY DEF QueueTypeOK
<1>5. QED
  BY <1>1, <1>2, <1>3, <1>4

-----------------------------------------------------------------------------
(* What each kind of step of a worker does to tasks, in the terms the        *)
(* invariants use: it claims a waiting task, or it stores a row.             *)
Claims(w, k) ==
  /\ Best(k) /\ Read(w, k)
  /\ task' = [task EXCEPT ![k].status = "running"]

(* No step breaks the types.                                                 *)
LEMMA QueueTypeNext == QueueTypeOK /\ [QueueNext]_queueVars => QueueTypeOK'
<1> SUFFICES ASSUME QueueTypeOK, [QueueNext]_queueVars PROVE QueueTypeOK'
  OBVIOUS
<1>1. ASSUME NEW k \in WorkKey, EnqueueLocked(k) PROVE QueueTypeOK'
  <2>1. clock \in Nat
    BY DEF QueueTypeOK
  <2>2. Insert(k, clock) /\ clock' = clock + 1 /\ UNCHANGED <<dialect, asking, doing, copy>>
    BY <1>1 DEF EnqueueLocked
  <2>3. QED
    BY <2>1, <2>2, InsertRow DEF QueueTypeOK
<1>2. ASSUME NEW r \in Requester, NEW k \in WorkKey, EnqueueSelect(r, k)
      PROVE  QueueTypeOK'
  <2>1. [key |-> k, born |-> clock] \in Asked
    BY DEF QueueTypeOK, Asked
  <2>2. QED
    BY <1>2, <2>1 DEF QueueTypeOK, EnqueueSelect
<1>3. ASSUME NEW r \in Requester, EnqueueInsert(r) PROVE QueueTypeOK'
  <2>1. asking[r] \in Asked
    BY <1>3 DEF QueueTypeOK, EnqueueInsert
  <2>2. asking[r].key \in WorkKey /\ asking[r].born \in Nat
    BY <2>1 DEF Asked
  <2>3. task' \in [WorkKey -> Task \cup {NoTask}] /\ created' \in [WorkKey -> Nat]
    <3>1. CASE task[asking[r].key] = NoTask
      BY <1>3, <2>2, <3>1, InsertRow DEF EnqueueInsert
    <3>2. CASE task[asking[r].key] # NoTask
      BY <1>3, <3>2 DEF EnqueueInsert, QueueTypeOK
    <3>3. QED
      BY <3>1, <3>2
  <2>4. QED
    BY <1>3, <2>3 DEF QueueTypeOK, EnqueueInsert
<1>4. ASSUME NEW w \in Worker, NextClaims(w) PROVE QueueTypeOK'
  <2>1. PICK k \in WorkKey : Claims(w, k)
    BY <1>4 DEF NextClaims, Claims
  <2>2. task[k] \in Task
    BY <2>1, ReadRow DEF Claims
  <2>3. [task[k] EXCEPT !.status = "running"] \in Task
    BY <2>2 DEF Task, Status
  <2>4. task' \in [WorkKey -> Task \cup {NoTask}]
    BY <2>1, <2>3 DEF Claims, QueueTypeOK
  <2>5. /\ copy' \in [Worker -> Copy \cup {NoTask}] /\ copy'[w] # NoTask
        /\ \A v \in Worker : v # w => copy'[v] = copy[v]
    BY <2>1, ReadRow DEF Claims
  <2>6. QED
    BY <1>4, <2>4, <2>5 DEF NextClaims, QueueTypeOK
<1>5. ASSUME NEW w \in Worker, NextSelects(w) PROVE QueueTypeOK'
  <2>1. PICK k \in WorkKey : Best(k) /\ Read(w, k)
    BY <1>5 DEF NextSelects
  <2>2. /\ copy' \in [Worker -> Copy \cup {NoTask}] /\ copy'[w] # NoTask
        /\ \A v \in Worker : v # w => copy'[v] = copy[v]
    BY <2>1, ReadRow
  <2>3. QED
    BY <1>5, <2>2 DEF NextSelects, QueueTypeOK
<1>6. ASSUME NEW w \in Worker, NextUpdates(w) PROVE QueueTypeOK'
  <2>1. copy[w] # NoTask /\ copy[w].row.retries \in Nat
    BY <1>6 DEF NextUpdates, QueueTypeOK, Copy, Task
  <2>2. task' \in [WorkKey -> Task \cup {NoTask}]
    BY <1>6, <2>1, StoredTask DEF NextUpdates, Status
  <2>3. QED
    BY <1>6, <2>1, <2>2 DEF NextUpdates, QueueTypeOK
<1>7. ASSUME NEW w \in Worker, NEW st \in Status, NEW n \in Nat,
             doing[w] = "working", Store(w, st, n), Done(w)
      PROVE  QueueTypeOK'
  <2>1. task' \in [WorkKey -> Task \cup {NoTask}]
    BY <1>7, StoredTask DEF QueueTypeOK
  <2>2. QED
    BY <1>7, <2>1 DEF Done, QueueTypeOK
<1>8. ASSUME NEW w \in Worker, doing[w] = "working"
      PROVE  copy[w].row.retries \in Nat /\ copy[w].row.retries + 1 \in Nat
  BY <1>8 DEF QueueTypeOK, Copy, Task
<1>9. ASSUME NEW w \in Worker, Retry(w) PROVE QueueTypeOK'
  BY <1>7, <1>8, <1>9 DEF Retry, Status
<1>10. ASSUME NEW w \in Worker, NEW st \in Status, Finish(w, st) PROVE QueueTypeOK'
  BY <1>7, <1>8, <1>10 DEF Finish
<1>11. CASE UNCHANGED queueVars
  BY <1>11 DEF queueVars, QueueTypeOK
<1>12. QED
  BY <1>1, <1>2, <1>3, <1>4, <1>5, <1>6, <1>9, <1>10, <1>11 DEF QueueNext, WorkerStep

(* Whatever the stores and workers, the queue stays well typed.              *)
THEOREM QueueTypeCorrect == QueueSpec => []QueueTypeOK
<1>1. QED
  BY QueueTypeInit, QueueTypeNext, PTL DEF QueueSpec

-----------------------------------------------------------------------------
(* Whatever a worker has read was stored, and stays so.                      *)
CopiesStored == \A w \in Worker : copy[w] # NoTask => task[copy[w].key] # NoTask

CreatedInv == QueueTypeOK /\ CopiesStored /\ CreatedOnce

(* No step adds a task but those that count it (memory_store.go:300-314,     *)
(* sql_store.go:482-499), and none removes one.                              *)
LEMMA CreatedInvNext == CreatedInv /\ [QueueNext]_queueVars => CreatedInv'
<1> SUFFICES ASSUME CreatedInv, [QueueNext]_queueVars PROVE CreatedInv'
  OBVIOUS
<1> USE DEF CreatedInv
<1>t. QueueTypeOK'
  BY QueueTypeNext
<1>1. ASSUME NEW k \in WorkKey, NEW t \in Nat, task[k] = NoTask, Insert(k, t),
             UNCHANGED copy
      PROVE  CopiesStored' /\ CreatedOnce'
  <2>1. /\ task'[k] # NoTask /\ created'[k] = created[k] + 1
        /\ \A j \in WorkKey : j # k => task'[j] = task[j] /\ created'[j] = created[j]
    BY <1>1, InsertRow
  <2>2. created[k] = 0
    BY <1>1 DEF CreatedOnce
  <2>3. \A w \in Worker : copy[w] # NoTask => copy[w].key \in WorkKey
    BY DEF QueueTypeOK, Copy
  <2>4. QED
    BY <1>1, <2>1, <2>2, <2>3 DEF CopiesStored, CreatedOnce
<1>2. ASSUME NEW k \in WorkKey, EnqueueLocked(k) PROVE CreatedInv'
  BY <1>1, <1>2, <1>t DEF EnqueueLocked, QueueTypeOK
<1>3. ASSUME NEW r \in Requester, EnqueueInsert(r) PROVE CreatedInv'
  <2>1. asking[r].key \in WorkKey /\ asking[r].born \in Nat
    BY <1>3 DEF EnqueueInsert, QueueTypeOK, Asked
  <2>2. CASE task[asking[r].key] = NoTask
    BY <1>1, <1>3, <1>t, <2>1, <2>2 DEF EnqueueInsert
  <2>3. CASE task[asking[r].key] # NoTask
    BY <1>3, <1>t, <2>3 DEF EnqueueInsert, CopiesStored, CreatedOnce
  <2>4. QED
    BY <2>2, <2>3
<1>4. ASSUME NEW r \in Requester, NEW k \in WorkKey, EnqueueSelect(r, k)
      PROVE  CreatedInv'
  BY <1>4, <1>t DEF EnqueueSelect, CopiesStored, CreatedOnce
<1>5. ASSUME NEW w \in Worker, NextClaims(w) PROVE CreatedInv'
  <2>1. PICK k \in WorkKey : Claims(w, k)
    BY <1>5 DEF NextClaims, Claims
  <2>2. /\ task[k] \in Task /\ copy'[w] = [key |-> k, row |-> task[k]]
        /\ \A v \in Worker : v # w => copy'[v] = copy[v]
    BY <2>1, ReadRow DEF Claims
  <2>3. [task[k] EXCEPT !.status = "running"] \in Task
    BY <2>2 DEF Task, Status
  <2>4. task'[k] # NoTask /\ task[k] # NoTask
    BY <2>1, <2>2, <2>3, QueueAssumption DEF Claims, QueueTypeOK
  <2>5. \A j \in WorkKey : j # k => task'[j] = task[j]
    BY <2>1 DEF Claims, QueueTypeOK
  <2>6. \A v \in Worker : copy[v] # NoTask => copy[v].key \in WorkKey
    BY DEF QueueTypeOK, Copy
  <2>7. CopiesStored'
    BY <2>2, <2>4, <2>5, <2>6 DEF CopiesStored
  <2>8. CreatedOnce'
    BY <1>5, <2>4, <2>5 DEF NextClaims, CreatedOnce
  <2>9. QED
    BY <1>t, <2>7, <2>8
<1>6. ASSUME NEW w \in Worker, NextSelects(w) PROVE CreatedInv'
  <2>1. PICK k \in WorkKey : Best(k) /\ Read(w, k)
    BY <1>6 DEF NextSelects
  <2>2. /\ task[k] \in Task /\ copy'[w] = [key |-> k, row |-> task[k]]
        /\ \A v \in Worker : v # w => copy'[v] = copy[v]
    BY <2>1, ReadRow
  <2>3. QED
    BY <1>6, <1>t, <2>2, QueueAssumption DEF NextSelects, CopiesStored, CreatedOnce
<1>7. ASSUME NEW w \in Worker, copy[w] # NoTask, NEW st \in Status, NEW n \in Nat,
             Store(w, st, n), UNCHANGED created,
             \A v \in Worker : copy'[v] = copy[v] \/ copy'[v] = NoTask
      PROVE  CreatedInv'
  <2>1. /\ copy[w].key \in WorkKey /\ task'[copy[w].key] # NoTask
        /\ \A k \in WorkKey : k # copy[w].key => task'[k] = task[k]
    BY <1>7, StoredTask
  <2>2. \A v \in Worker : copy[v] # NoTask => copy[v].key \in WorkKey
    BY DEF QueueTypeOK, Copy
  <2>3. CopiesStored'
    BY <1>7, <2>1, <2>2 DEF CopiesStored
  <2>4. CreatedOnce'
    BY <1>7, <2>1 DEF CreatedOnce, CopiesStored
  <2>5. QED
    BY <1>t, <2>3, <2>4
<1>8. ASSUME NEW w \in Worker, doing[w] # "idle"
      PROVE  /\ copy[w] # NoTask
             /\ copy[w].row.retries \in Nat /\ copy[w].row.retries + 1 \in Nat
  BY <1>8 DEF QueueTypeOK, Copy, Task
<1>9. ASSUME NEW w \in Worker, NextUpdates(w) PROVE CreatedInv'
  BY <1>7, <1>8, <1>9 DEF NextUpdates, Status
<1>10. ASSUME NEW w \in Worker, Done(w)
       PROVE  /\ UNCHANGED created
              /\ \A v \in Worker : copy'[v] = copy[v] \/ copy'[v] = NoTask
  BY <1>10 DEF Done, QueueTypeOK
<1>11. ASSUME NEW w \in Worker, Retry(w) PROVE CreatedInv'
  BY <1>7, <1>8, <1>10, <1>11 DEF Retry, Status
<1>12. ASSUME NEW w \in Worker, NEW st \in Status, Finish(w, st) PROVE CreatedInv'
  BY <1>7, <1>8, <1>10, <1>12 DEF Finish
<1>13. CASE UNCHANGED queueVars
  BY <1>13, <1>t DEF queueVars, CopiesStored, CreatedOnce
<1>14. QED
  BY <1>2, <1>3, <1>4, <1>5, <1>6, <1>9, <1>11, <1>12, <1>13 DEF QueueNext, WorkerStep

(* Exactly one call of Enqueue is told that it created a task, in memory and *)
(* over the SQL store's separate SELECT and INSERT.                          *)
THEOREM TasksAreCreatedOnce == QueueSpec => []CreatedOnce
<1>1. QueueInit => CreatedInv
  BY QueueTypeInit DEF QueueInit, CreatedInv, CopiesStored, CreatedOnce
<1>2. CreatedInv => CreatedOnce
  BY DEF CreatedInv
<1>3. QED
  BY <1>1, <1>2, CreatedInvNext, PTL DEF QueueSpec

-----------------------------------------------------------------------------
(* When Next claims in one step, what a worker works on is stored as it read *)
(* it, running, and nobody else's.                                           *)
CopyIsCurrent ==
  \A w \in Worker :
    /\ doing[w] # "claiming"
    /\ doing[w] = "working" =>
         /\ task[copy[w].key] # NoTask
         /\ task[copy[w].key].status = "running"
         /\ task[copy[w].key].retries = copy[w].row.retries
         /\ task[copy[w].key].born = copy[w].row.born

ClaimFacts == QueueTypeOK /\ CopyIsCurrent /\ Exclusive

ClaimInv == QueueTypeOK /\ (ClaimsInOneStep => ClaimFacts)

(* How the tasks may change in one step.                                     *)
MovesForward ==
  \A k \in WorkKey : task[k] # NoTask =>
    /\ task'[k] # NoTask
    /\ task[k].status \in {"success", "failed"} => task'[k] = task[k]
    /\ task'[k].retries >= task[k].retries
    /\ task'[k].born = task[k].born

(* A claim takes a task no worker has; only the worker that has it stores    *)
(* it (memory_store.go:322-363, sql_store.go:530-580).                       *)
LEMMA ClaimFactsNext ==
  ASSUME ClaimsInOneStep, ClaimFacts, [QueueNext]_queueVars
  PROVE  ClaimFacts' /\ MovesForward
<1> USE DEF ClaimFacts, ClaimsInOneStep
<1>t. QueueTypeOK'
  BY QueueTypeNext
<1>r. \A k \in WorkKey : task[k] # NoTask => task[k].retries \in Nat
  BY DEF QueueTypeOK, Task
<1>k. \A w \in Worker : copy[w] # NoTask => copy[w].key \in WorkKey
  BY DEF QueueTypeOK, Copy
<1>w. \A w \in Worker : doing[w] = "working" => copy[w] # NoTask
  BY DEF QueueTypeOK
<1>1. ASSUME NEW k \in WorkKey, NEW t \in Nat, task[k] = NoTask, Insert(k, t),
             UNCHANGED <<doing, copy>>
      PROVE  ClaimFacts' /\ MovesForward
  <2>1. \A j \in WorkKey : j # k => task'[j] = task[j]
    BY <1>1, InsertRow
  <2>2. \A w \in Worker : doing[w] = "working" => copy[w].key # k
    BY <1>1 DEF CopyIsCurrent
  <2>3. QED
    BY <1>1, <1>t, <1>r, <1>k, <1>w, <2>1, <2>2
    DEF CopyIsCurrent, Exclusive, MovesForward
<1>2. ASSUME UNCHANGED <<task, doing, copy>> PROVE ClaimFacts' /\ MovesForward
  BY <1>2, <1>t, <1>r DEF CopyIsCurrent, Exclusive, MovesForward
<1>3. ASSUME NEW k \in WorkKey, EnqueueLocked(k) PROVE ClaimFacts' /\ MovesForward
  BY <1>1, <1>3 DEF EnqueueLocked, QueueTypeOK
<1>4. ASSUME NEW r \in Requester, EnqueueInsert(r) PROVE ClaimFacts' /\ MovesForward
  <2>1. asking[r].key \in WorkKey /\ asking[r].born \in Nat
    BY <1>4 DEF EnqueueInsert, QueueTypeOK, Asked
  <2>2. CASE task[asking[r].key] = NoTask
    BY <1>1, <1>4, <2>1, <2>2 DEF EnqueueInsert
  <2>3. CASE task[asking[r].key] # NoTask
    BY <1>2, <1>4, <2>3 DEF EnqueueInsert
  <2>4. QED
    BY <2>2, <2>3
<1>5. ASSUME NEW r \in Requester, NEW k \in WorkKey, EnqueueSelect(r, k)
      PROVE  ClaimFacts' /\ MovesForward
  BY <1>2, <1>5 DEF EnqueueSelect
<1>6. ASSUME NEW w \in Worker, NextClaims(w) PROVE ClaimFacts' /\ MovesForward
  <2>1. PICK k \in WorkKey : Claims(w, k)
    BY <1>6 DEF NextClaims, Claims
  <2>2. /\ task[k] \in Task /\ task[k].status \in {"pending", "retrying"}
        /\ copy'[w] = [key |-> k, row |-> task[k]]
        /\ \A v \in Worker : v # w => copy'[v] = copy[v]
    BY <2>1, ReadRow DEF Claims
  <2>3. /\ [task[k] EXCEPT !.status = "running"] \in Task
        /\ [task[k] EXCEPT !.status = "running"].status = "running"
        /\ [task[k] EXCEPT !.status = "running"].retries = task[k].retries
        /\ [task[k] EXCEPT !.status = "running"].born = task[k].born
    BY <2>2 DEF Task, Status
  <2>4. /\ task'[k] # NoTask /\ task'[k].status = "running"
        /\ task'[k].retries = task[k].retries /\ task'[k].born = task[k].born
    BY <2>1, <2>3, QueueAssumption DEF Claims, QueueTypeOK
  <2>5. \A j \in WorkKey : j # k => task'[j] = task[j]
    BY <2>1 DEF Claims, QueueTypeOK
  <2>6. \A v \in Worker : doing[v] = "working" => copy[v].key # k
    BY <2>2 DEF CopyIsCurrent
  <2>7. /\ doing[w] = "idle" /\ doing'[w] = "working"
        /\ \A v \in Worker : v # w => doing'[v] = doing[v]
    BY <1>6 DEF NextClaims, QueueTypeOK
  <2>8. CopyIsCurrent'
    <3> SUFFICES ASSUME NEW v \in Worker
                 PROVE  /\ doing'[v] # "claiming"
                        /\ doing'[v] = "working" =>
                             /\ task'[copy'[v].key] # NoTask
                             /\ task'[copy'[v].key].status = "running"
                             /\ task'[copy'[v].key].retries = copy'[v].row.retries
                             /\ task'[copy'[v].key].born = copy'[v].row.born
      BY DEF CopyIsCurrent
    <3>1. CASE v = w
      BY <2>2, <2>4, <2>7, <3>1
    <3>2. CASE v # w
      BY <1>k, <1>w, <2>2, <2>5, <2>6, <2>7, <3>2 DEF CopyIsCurrent
    <3>3. QED
      BY <3>1, <3>2
  <2>9. Exclusive'
    BY <1>k, <1>w, <2>2, <2>4, <2>5, <2>6, <2>7 DEF Exclusive
  <2>10. MovesForward
    BY <1>r, <2>2, <2>4, <2>5 DEF MovesForward
  <2>11. QED
    BY <1>t, <2>8, <2>9, <2>10
<1>7. ASSUME NEW w \in Worker, NextSelects(w) PROVE FALSE
  BY <1>7 DEF NextSelects
<1>8. ASSUME NEW w \in Worker, NextUpdates(w) PROVE FALSE
  BY <1>8 DEF NextUpdates, CopyIsCurrent
<1>9. ASSUME NEW w \in Worker, doing[w] = "working", NEW st \in Status,
             NEW n \in Nat, n >= copy[w].row.retries, Store(w, st, n), Done(w)
      PROVE  ClaimFacts' /\ MovesForward
  <2>1. /\ copy[w].key \in WorkKey /\ copy[w].row \in Task
        /\ task'[copy[w].key] # NoTask
        /\ task'[copy[w].key].retries = n
        /\ task'[copy[w].key].born = copy[w].row.born
        /\ \A k \in WorkKey : k # copy[w].key => task'[k] = task[k]
    BY <1>9, <1>w, StoredTask
  <2>2. /\ doing'[w] = "idle"
        /\ \A v \in Worker : v # w => doing'[v] = doing[v] /\ copy'[v] = copy[v]
    BY <1>9 DEF Done, QueueTypeOK
  <2>3. \A v \in Worker : v # w /\ doing[v] = "working" => copy[v].key # copy[w].key
    BY <1>9 DEF Exclusive
  <2>4. CopyIsCurrent' /\ Exclusive'
    BY <1>k, <1>w, <2>1, <2>2, <2>3 DEF CopyIsCurrent, Exclusive
  <2>5. MovesForward
    BY <1>9, <1>r, <2>1 DEF MovesForward, CopyIsCurrent
  <2>6. QED
    BY <1>t, <2>4, <2>5
<1>10. ASSUME NEW w \in Worker, doing[w] = "working"
       PROVE  /\ copy[w].row.retries \in Nat /\ copy[w].row.retries + 1 \in Nat
              /\ copy[w].row.retries + 1 >= copy[w].row.retries
              /\ copy[w].row.retries >= copy[w].row.retries
  BY <1>10, <1>w DEF QueueTypeOK, Copy, Task
<1>11. ASSUME NEW w \in Worker, Retry(w) PROVE ClaimFacts' /\ MovesForward
  BY <1>9, <1>10, <1>11 DEF Retry, Status
<1>12. ASSUME NEW w \in Worker, NEW st \in Status, Finish(w, st)
       PROVE  ClaimFacts' /\ MovesForward
  BY <1>9, <1>10, <1>12 DEF Finish
<1>13. CASE UNCHANGED queueVars
  BY <1>2, <1>13 DEF queueVars
<1>14. QED
  BY <1>3, <1>4, <1>5, <1>6, <1>7, <1>8, <1>11, <1>12, <1>13 DEF QueueNext, WorkerStep

(* A new queue has no workers at work.                                       *)
LEMMA ClaimInvInit == QueueInit => ClaimInv
  BY QueueTypeInit
  DEF QueueInit, ClaimInv, ClaimFacts, CopyIsCurrent, Exclusive

(* The store in use does not change.                                         *)
LEMMA DialectKept == [QueueNext]_queueVars => dialect' = dialect
  BY DEF QueueNext, WorkerStep, queueVars, EnqueueLocked, EnqueueSelect, EnqueueInsert,
         NextClaims, NextSelects, NextUpdates, Retry, Finish, Done

(* Whichever the store, no step breaks what its claims are worth.            *)
LEMMA ClaimInvNext == ClaimInv /\ [QueueNext]_queueVars => ClaimInv'
<1> SUFFICES ASSUME ClaimInv, [QueueNext]_queueVars PROVE ClaimInv'
  OBVIOUS
<1>1. QueueTypeOK'
  BY QueueTypeNext DEF ClaimInv
<1>2. ClaimsInOneStep' => ClaimsInOneStep
  BY DialectKept DEF ClaimsInOneStep
<1>3. ClaimsInOneStep => ClaimFacts'
  BY ClaimFactsNext DEF ClaimInv
<1>4. QED
  BY <1>1, <1>2, <1>3 DEF ClaimInv

(* In memory and on PostgreSQL two workers never have the same task.         *)
THEOREM ClaimsAreExclusive == QueueSpec => []ClaimIsExclusive
<1>1. ClaimInv => ClaimIsExclusive
  BY DEF ClaimInv, ClaimFacts, ClaimIsExclusive
<1>2. QED
  BY <1>1, ClaimInvInit, ClaimInvNext, PTL DEF QueueSpec

-----------------------------------------------------------------------------
(* What a worker has read is as old as the stored task.                      *)
CopiesKeepAge ==
  \A w \in Worker : copy[w] # NoTask => task[copy[w].key].born = copy[w].row.born

AgeInv == CreatedInv /\ CopiesKeepAge

(* No task is lost, and none changes its age.                                *)
AgesKept ==
  \A k \in WorkKey : task[k] # NoTask => task'[k] # NoTask /\ task'[k].born = task[k].born

(* Store writes back the age that was read (sql_store.go:566-571), and       *)
(* nothing else touches a stored task but a claim.                           *)
LEMMA AgeInvNext == AgeInv /\ [QueueNext]_queueVars => AgeInv' /\ AgesKept
<1> SUFFICES ASSUME AgeInv, [QueueNext]_queueVars PROVE AgeInv' /\ AgesKept
  OBVIOUS
<1> USE DEF AgeInv
<1>c. CreatedInv'
  BY CreatedInvNext
<1>o. QueueTypeOK /\ CopiesStored
  BY DEF CreatedInv
<1>k. \A w \in Worker : copy[w] # NoTask => copy[w].key \in WorkKey
  BY <1>o DEF QueueTypeOK, Copy
<1>1. ASSUME NEW k \in WorkKey, NEW t \in Nat, task[k] = NoTask, Insert(k, t),
             UNCHANGED copy
      PROVE  CopiesKeepAge' /\ AgesKept
  <2>1. \A j \in WorkKey : j # k => task'[j] = task[j]
    BY <1>o, <1>1, InsertRow
  <2>2. \A w \in Worker : copy[w] # NoTask => copy[w].key # k
    BY <1>o, <1>1 DEF CopiesStored
  <2>3. QED
    BY <1>k, <1>1, <2>1, <2>2 DEF CopiesKeepAge, AgesKept
<1>2. ASSUME UNCHANGED <<task, copy>> PROVE CopiesKeepAge' /\ AgesKept
  BY <1>2 DEF CopiesKeepAge, AgesKept
<1>3. ASSUME NEW k \in WorkKey, EnqueueLocked(k) PROVE AgeInv' /\ AgesKept
  BY <1>c, <1>o, <1>1, <1>3 DEF EnqueueLocked, QueueTypeOK
<1>4. ASSUME NEW r \in Requester, EnqueueInsert(r) PROVE AgeInv' /\ AgesKept
  <2>1. asking[r].key \in WorkKey /\ asking[r].born \in Nat
    BY <1>o, <1>4 DEF EnqueueInsert, QueueTypeOK, Asked
  <2>2. CASE task[asking[r].key] = NoTask
    BY <1>c, <1>1, <1>4, <2>1, <2>2 DEF EnqueueInsert
  <2>3. CASE task[asking[r].key] # NoTask
    BY <1>c, <1>2, <1>4, <2>3 DEF EnqueueInsert
  <2>4. QED
    BY <2>2, <2>3
<1>5. ASSUME NEW r \in Requester, NEW k \in WorkKey, EnqueueSelect(r, k)
      PROVE  AgeInv' /\ AgesKept
  BY <1>c, <1>2, <1>5 DEF EnqueueSelect
<1>6. ASSUME NEW w \in Worker, NextClaims(w) PROVE AgeInv' /\ AgesKept
  <2>1. PICK k \in WorkKey : Claims(w, k)
    BY <1>6 DEF NextClaims, Claims
  <2>2. /\ task[k] \in Task /\ copy'[w] = [key |-> k, row |-> task[k]]
        /\ \A v \in Worker : v # w => copy'[v] = copy[v]
    BY <1>o, <2>1, ReadRow DEF Claims
  <2>3. /\ [task[k] EXCEPT !.status = "running"] \in Task
        /\ [task[k] EXCEPT !.status = "running"].born = task[k].born
    BY <2>2 DEF Task, Status
  <2>4. task'[k] # NoTask /\ task'[k].born = task[k].born
    BY <1>o, <2>1, <2>3, QueueAssumption DEF Claims, QueueTypeOK
  <2>5. \A j \in WorkKey : j # k => task'[j] = task[j]
    BY <1>o, <2>1 DEF Claims, QueueTypeOK
  <2>6. CopiesKeepAge'
    BY <1>k, <2>2, <2>4, <2>5 DEF CopiesKeepAge
  <2>7. QED
    BY <1>c, <2>4, <2>5, <2>6 DEF AgesKept
<1>7. ASSUME NEW w \in Worker, NextSelects(w) PROVE AgeInv' /\ AgesKept
  <2>1. PICK k \in WorkKey : Best(k) /\ Read(w, k)
    BY <1>7 DEF NextSelects
  <2>2. /\ copy'[w] = [key |-> k, row |-> task[k]]
        /\ \A v \in Worker : v # w => copy'[v] = copy[v]
    BY <1>o, <2>1, ReadRow
  <2>3. QED
    BY <1>c, <1>7, <2>2 DEF NextSelects, CopiesKeepAge, AgesKept
<1>8. ASSUME NEW w \in Worker, copy[w] # NoTask, NEW st \in Status, NEW n \in Nat,
             Store(w, st, n),
             \A v \in Worker : copy'[v] = copy[v] \/ copy'[v] = NoTask
      PROVE  AgeInv' /\ AgesKept
  <2>1. /\ copy[w].key \in WorkKey /\ task'[copy[w].key] # NoTask
        /\ task'[copy[w].key].born = copy[w].row.born
        /\ \A k \in WorkKey : k # copy[w].key => task'[k] = task[k]
    BY <1>o, <1>8, StoredTask
  <2>2. task'[copy[w].key].born = task[copy[w].key].born
    BY <1>8, <2>1 DEF CopiesKeepAge
  <2>3. CopiesKeepAge'
    BY <1>k, <1>8, <2>1, <2>2 DEF CopiesKeepAge
  <2>4. QED
    BY <1>c, <2>1, <2>2, <2>3 DEF AgesKept
<1>9. ASSUME NEW w \in Worker, doing[w] # "idle"
      PROVE  /\ copy[w] # NoTask
             /\ copy[w].row.retries \in Nat /\ copy[w].row.retries + 1 \in Nat
  BY <1>o, <1>9 DEF QueueTypeOK, Copy, Task
<1>10. ASSUME NEW w \in Worker, NextUpdates(w) PROVE AgeInv' /\ AgesKept
  BY <1>8, <1>9, <1>10 DEF NextUpdates, Status
<1>11. ASSUME NEW w \in Worker, Done(w)
       PROVE  \A v \in Worker : copy'[v] = copy[v] \/ copy'[v] = NoTask
  BY <1>o, <1>11 DEF Done, QueueTypeOK
<1>12. ASSUME NEW w \in Worker, Retry(w) PROVE AgeInv' /\ AgesKept
  BY <1>8, <1>9, <1>11, <1>12 DEF Retry, Status
<1>13. ASSUME NEW w \in Worker, NEW st \in Status, Finish(w, st)
       PROVE  AgeInv' /\ AgesKept
  BY <1>8, <1>9, <1>11, <1>13 DEF Finish
<1>14. CASE UNCHANGED queueVars
  BY <1>c, <1>2, <1>14 DEF queueVars
<1>15. QED
  BY <1>3, <1>4, <1>5, <1>6, <1>7, <1>10, <1>12, <1>13, <1>14 DEF QueueNext, WorkerStep

(* There, too, finished tasks stay finished and retries are counted up; and  *)
(* whichever the store, no task is lost or changes its age.                  *)
THEOREM TasksAreKept == QueueSpec => TasksMoveForward
<1> DEFINE Inv == ClaimInv /\ AgeInv
<1>1. QueueInit => Inv
  BY ClaimInvInit, QueueTypeInit
  DEF QueueInit, AgeInv, CreatedInv, CopiesStored, CreatedOnce, CopiesKeepAge
<1>2. Inv /\ [QueueNext]_queueVars => Inv'
  BY ClaimInvNext, AgeInvNext
<1>3. Inv /\ [QueueNext]_queueVars =>
        \A k \in WorkKey : task[k] # NoTask =>
          /\ task'[k] # NoTask /\ task'[k].born = task[k].born
          /\ ClaimsInOneStep =>
               /\ task[k].status \in {"success", "failed"} => task'[k] = task[k]
               /\ task'[k].retries >= task[k].retries
  BY AgeInvNext, ClaimFactsNext DEF ClaimInv, AgesKept, MovesForward
<1> HIDE DEF Inv
<1>4. QED
  BY <1>1, <1>2, <1>3, PTL DEF QueueSpec, TasksMoveForward

-----------------------------------------------------------------------------
(* The refinement.                                                           *)

(* A stored task that says it is running is somebody's.                      *)
RunningIsOwned ==
  \A k \in WorkKey :
    task[k] # NoTask /\ task[k].status = "running" =>
      \E w \in Worker : doing[w] = "working" /\ copy[w].key = k

OwnedFacts == ClaimFacts /\ RunningIsOwned

OwnedInv == ClaimInv /\ (ClaimsInOneStep => RunningIsOwned)

(* Who owns a piece of work, without the CHOOSE.                             *)
OwnerKnown ==
  \A k \in WorkKey :
    /\ task[k] = NoTask => Owner[k] = Absent
    /\ task[k] # NoTask /\ task[k].status \in {"pending", "retrying"} => Owner[k] = Waiting
    /\ task[k] # NoTask /\ task[k].status \in {"success", "failed"} => Owner[k] = Finished
    /\ \A w \in Worker :
         task[k] # NoTask /\ doing[w] = "working" /\ copy[w].key = k => Owner[k] = w

(* The marks and the workers are read off the stored tasks (Next, Update).   *)
LEMMA OwnerIs == OwnedFacts => OwnerKnown
<1> SUFFICES ASSUME OwnedFacts, NEW k \in WorkKey, task[k] # NoTask
             PROVE  /\ task[k].status \in {"pending", "retrying"} => Owner[k] = Waiting
                    /\ task[k].status \in {"success", "failed"} => Owner[k] = Finished
                    /\ \A w \in Worker :
                         doing[w] = "working" /\ copy[w].key = k => Owner[k] = w
  BY DEF OwnerKnown, Owner
<1>1. ASSUME NEW w \in Worker, doing[w] = "working", copy[w].key = k PROVE Owner[k] = w
  <2>1. task[k].status = "running"
    BY <1>1 DEF OwnedFacts, ClaimFacts, Exclusive
  <2>2. \A v \in Worker : doing[v] = "working" /\ copy[v].key = k <=> v = w
    BY <1>1 DEF OwnedFacts, ClaimFacts, Exclusive
  <2>3. (CHOOSE v \in Worker : doing[v] = "working" /\ copy[v].key = k) = w
    BY <2>2
  <2>. QED BY <2>1, <2>3 DEF Owner
<1>2. task[k].status \in {"pending", "retrying"} => Owner[k] = Waiting
  BY DEF Owner
<1>3. task[k].status \in {"success", "failed"} => Owner[k] = Finished
  BY DEF Owner
<1>. QED BY <1>1, <1>2, <1>3

(* Also in the next state.                                                   *)
LEMMA OwnerIsNext == OwnedFacts' => OwnerKnown'
  BY OwnerIs, PTL

(* Owner is a function on the work keys.                                     *)
LEMMA OwnerFunction ==
  /\ Owner = [k \in WorkKey |-> Owner[k]]
  /\ Owner' = [k \in WorkKey |-> Owner'[k]]
  BY DEF Owner

(* What a step does to one task and at most one worker; all others stay.     *)
OneTask(k, W) ==
  /\ \A j \in WorkKey : j # k => task'[j] = task[j]
  /\ \A v \in Worker \ W : doing'[v] = doing[v] /\ copy'[v] = copy[v]

(* Where it touches one task, the others keep their owners.                  *)
LEMMA OthersKeepOwner ==
  ASSUME OwnedFacts, OwnedFacts', NEW k \in WorkKey, NEW W, OneTask(k, W),
         \A w \in W \cap Worker : doing[w] = "working" => copy[w].key = k,
         NEW j \in WorkKey, j # k
  PROVE  Owner'[j] = Owner[j]
<1>1. task'[j] = task[j]
  BY DEF OneTask
<1>2. CASE task[j] = NoTask
  BY <1>1, <1>2, OwnerIs, OwnerIsNext DEF OwnerKnown
<1>3. CASE task[j] # NoTask /\ task[j].status \in {"pending", "retrying"}
  BY <1>1, <1>3, OwnerIs, OwnerIsNext DEF OwnerKnown
<1>4. CASE task[j] # NoTask /\ task[j].status \in {"success", "failed"}
  BY <1>1, <1>4, OwnerIs, OwnerIsNext DEF OwnerKnown
<1>5. CASE task[j] # NoTask /\ task[j].status = "running"
  <2>1. PICK w \in Worker : doing[w] = "working" /\ copy[w].key = j
    BY <1>5 DEF OwnedFacts, RunningIsOwned
  <2>2. doing'[w] = doing[w] /\ copy'[w] = copy[w]
    BY <2>1 DEF OneTask
  <2>. QED BY <1>1, <1>5, <2>1, <2>2, OwnerIs, OwnerIsNext DEF OwnerKnown
<1>6. task[j] = NoTask \/ task[j].status \in Status
  BY DEF OwnedFacts, ClaimFacts, QueueTypeOK, Task
<1>. QED BY <1>2, <1>3, <1>4, <1>5, <1>6 DEF Status

(* So that the step is a move of that one task.                              *)
LEMMA MovesOne ==
  ASSUME OwnedFacts, OwnedFacts', NEW k \in WorkKey, NEW W, OneTask(k, W),
         \A w \in W \cap Worker : doing[w] = "working" => copy[w].key = k,
         NEW to, Owner'[k] = to
  PROVE  Queue!Move(k, Owner[k], to)
<1>1. \A j \in WorkKey : j # k => Owner'[j] = Owner[j]
  BY OthersKeepOwner
<1>2. Owner' = [Owner EXCEPT ![k] = to]
  BY <1>1, OwnerFunction
<1>. QED BY <1>2 DEF Queue!Move

(* Every task that runs stays somebody's (NextClaims, Update).               *)
LEMMA OwnedNext ==
  ASSUME ClaimsInOneStep, OwnedFacts, [QueueNext]_queueVars
  PROVE  OwnedFacts'
<1> USE DEF OwnedFacts, RunningIsOwned
<1>0. ClaimFacts'
  BY ClaimFactsNext
<1>1. QueueTypeOK
  BY DEF ClaimFacts
<1>2. ASSUME NEW k \in WorkKey, NEW t \in Nat, Insert(k, t), UNCHANGED <<doing, copy>>
      PROVE  RunningIsOwned'
  <2>1. task'[k].status = "pending" /\ \A j \in WorkKey : j # k => task'[j] = task[j]
    BY <1>1, <1>2 DEF Insert, NewTask, QueueTypeOK
  <2>2. doing' = doing /\ copy' = copy
    BY <1>2
  <2>. QED BY <2>1, <2>2
<1>3. CASE UNCHANGED <<task, doing, copy>>
  BY <1>0, <1>3
<1>4. ASSUME NEW w \in Worker, NextClaims(w) PROVE RunningIsOwned'
  <2>1. PICK k \in WorkKey : /\ Best(k) /\ Read(w, k)
                             /\ task' = [task EXCEPT ![k].status = "running"]
    BY <1>4 DEF NextClaims
  <2>2. /\ copy'[w] = [key |-> k, row |-> task[k]]
        /\ \A v \in Worker : v # w => copy'[v] = copy[v]
    BY <1>1, <2>1, ReadRow
  <2>3. /\ doing[w] = "idle" /\ doing'[w] = "working"
        /\ \A v \in Worker : v # w => doing'[v] = doing[v]
        /\ \A j \in WorkKey : j # k => task'[j] = task[j]
    BY <1>1, <1>4, <2>1 DEF NextClaims, QueueTypeOK
  <2>. QED BY <2>2, <2>3
<1>5. ASSUME NEW w \in Worker, NEW st \in {"success", "failed", "retrying"}, NEW n \in Nat,
             doing[w] = "working", Store(w, st, n), Done(w)
      PROVE  RunningIsOwned'
  <2>1. copy[w] # NoTask
    BY <1>1, <1>5 DEF QueueTypeOK
  <2>2. /\ task'[copy[w].key].status = st
        /\ \A k \in WorkKey : k # copy[w].key => task'[k] = task[k]
    BY <1>1, <1>5, <2>1, StoredTask DEF Status
  <2>3. \A v \in Worker : v # w => doing'[v] = doing[v] /\ copy'[v] = copy[v]
    BY <1>1, <1>5 DEF Done, QueueTypeOK
  <2>. QED BY <2>2, <2>3
<1>6. ASSUME NEW w \in Worker, NextSelects(w) \/ NextUpdates(w) PROVE FALSE
  BY <1>6 DEF NextSelects, NextUpdates, ClaimsInOneStep, ClaimFacts, CopyIsCurrent
<1>7. ASSUME NEW w \in Worker, Retry(w) \/ \E status \in Status : Finish(w, status)
      PROVE  RunningIsOwned'
  <2>1. copy[w] # NoTask /\ doing[w] = "working"
    BY <1>1, <1>7 DEF Retry, Finish, QueueTypeOK
  <2>2. copy[w].row.retries \in Nat
    BY <1>1, <2>1 DEF QueueTypeOK, Copy, Task
  <2>. QED BY <1>5, <1>7, <2>1, <2>2 DEF Retry, Finish
<1>8. ASSUME NEW r \in Requester, EnqueueInsert(r) PROVE RunningIsOwned'
  <2>1. asking[r].key \in WorkKey /\ asking[r].born \in Nat
    BY <1>1, <1>8 DEF EnqueueInsert, QueueTypeOK, Asked
  <2>. QED BY <1>2, <1>3, <1>8, <2>1 DEF EnqueueInsert
<1>9. ASSUME NEW k \in WorkKey, EnqueueLocked(k) PROVE RunningIsOwned'
  BY <1>1, <1>2, <1>9 DEF EnqueueLocked, QueueTypeOK
<1>. QED BY <1>0, <1>3, <1>4, <1>6, <1>7, <1>8, <1>9
         DEF QueueNext, WorkerStep, EnqueueSelect, queueVars

(* Where claims are exclusive, every step is one of the promised queue or    *)
(* changes no owner.                                                         *)
LEMMA QueueStepImplements ==
  ASSUME ClaimsInOneStep, OwnedFacts, OwnedFacts', [QueueNext]_queueVars
  PROVE  Queue!Next \/ Owner' = Owner
<1> USE DEF Queue!Next
<1>1. QueueTypeOK
  BY DEF OwnedFacts, ClaimFacts
<1>2. ASSUME NEW k \in WorkKey, NEW t \in Nat, task[k] = NoTask, Insert(k, t),
             UNCHANGED <<doing, copy>>
      PROVE  Queue!Next
  <2>1. /\ task' = [task EXCEPT ![k] = NewTask(t)] /\ NewTask(t).status = "pending"
        /\ task'[k] # NoTask
    BY <1>1, <1>2, InsertRow DEF Insert, NewTask
  <2>2. OneTask(k, {})
    BY <1>2, <2>1 DEF OneTask
  <2>3. task'[k].status = "pending"
    BY <1>1, <2>1 DEF QueueTypeOK
  <2>4. Owner[k] = Absent /\ Owner'[k] = Waiting
    BY <1>2, <2>1, <2>3, OwnerIs, OwnerIsNext DEF OwnerKnown
  <2>5. Queue!Move(k, Absent, Waiting)
    BY <2>2, <2>4, MovesOne
  <2>. QED BY <2>5
<1>3. CASE UNCHANGED <<task, doing, copy>>
  BY <1>3 DEF Owner
<1>4. ASSUME NEW w \in Worker, NextClaims(w) PROVE Queue!Next
  <2>1. PICK k \in WorkKey : /\ Best(k) /\ Read(w, k)
                             /\ task' = [task EXCEPT ![k].status = "running"]
    BY <1>4 DEF NextClaims
  <2>2. /\ copy'[w] = [key |-> k, row |-> task[k]] /\ copy'[w].key = k
        /\ task[k] \in Task /\ task[k].status \in {"pending", "retrying"}
        /\ \A v \in Worker : v # w => copy'[v] = copy[v]
    BY <1>1, <2>1, ReadRow
  <2>3. /\ doing[w] = "idle" /\ doing'[w] = "working"
        /\ \A v \in Worker : v # w => doing'[v] = doing[v]
        /\ \A j \in WorkKey : j # k => task'[j] = task[j]
    BY <1>1, <1>4, <2>1 DEF NextClaims, QueueTypeOK
  <2>4. task[k] # NoTask /\ task'[k] # NoTask
    BY <2>2, <2>3, QueueAssumption DEF OwnedFacts, ClaimFacts, CopyIsCurrent
  <2>5. OneTask(k, {w})
    BY <2>2, <2>3 DEF OneTask
  <2>6. Owner[k] = Waiting /\ Owner'[k] = w
    BY <2>2, <2>3, <2>4, OwnerIs, OwnerIsNext DEF OwnerKnown
  <2>7. Queue!Move(k, Waiting, w)
    BY <2>3, <2>5, <2>6, MovesOne
  <2>. QED BY <2>7
<1>5. ASSUME NEW w \in Worker, NEW st \in {"success", "failed", "retrying"}, NEW n \in Nat,
             doing[w] = "working", Store(w, st, n), Done(w)
      PROVE  Queue!Next
  <2> DEFINE k == copy[w].key
  <2>1. copy[w] # NoTask
    BY <1>1, <1>5 DEF QueueTypeOK
  <2>2. /\ k \in WorkKey /\ task'[k].status = st /\ task'[k] # NoTask
        /\ \A j \in WorkKey : j # k => task'[j] = task[j]
    BY <1>1, <1>5, <2>1, StoredTask DEF Status
  <2>3. \A v \in Worker : v # w => doing'[v] = doing[v] /\ copy'[v] = copy[v]
    BY <1>1, <1>5 DEF Done, QueueTypeOK
  <2>4. task[k] # NoTask
    BY <1>5 DEF OwnedFacts, ClaimFacts, CopyIsCurrent
  <2>5. OneTask(k, {w})
    BY <2>2, <2>3 DEF OneTask
  <2>6. Owner[k] = w
    BY <1>5, <2>2, <2>4, OwnerIs DEF OwnerKnown
  <2>7. Owner'[k] \in {Finished, Waiting}
    BY <2>2, OwnerIsNext DEF OwnerKnown
  <2>8. Queue!Move(k, w, Owner'[k])
    BY <2>2, <2>5, <2>6, MovesOne
  <2>. QED BY <2>2, <2>7, <2>8
<1>6. ASSUME NEW w \in Worker, NextSelects(w) \/ NextUpdates(w) PROVE FALSE
  BY <1>6 DEF NextSelects, NextUpdates, ClaimsInOneStep, OwnedFacts, ClaimFacts, CopyIsCurrent
<1>7. ASSUME NEW w \in Worker, Retry(w) \/ \E status \in Status : Finish(w, status)
      PROVE  Queue!Next
  <2>1. copy[w] # NoTask /\ doing[w] = "working"
    BY <1>1, <1>7 DEF Retry, Finish, QueueTypeOK
  <2>2. copy[w].row.retries \in Nat
    BY <1>1, <2>1 DEF QueueTypeOK, Copy, Task
  <2>. QED BY <1>5, <1>7, <2>1, <2>2 DEF Retry, Finish
<1>8. ASSUME NEW r \in Requester, EnqueueInsert(r) PROVE Queue!Next \/ Owner' = Owner
  <2>1. asking[r].key \in WorkKey /\ asking[r].born \in Nat
    BY <1>1, <1>8 DEF EnqueueInsert, QueueTypeOK, Asked
  <2>. QED BY <1>2, <1>3, <1>8, <2>1 DEF EnqueueInsert
<1>9. ASSUME NEW k \in WorkKey, EnqueueLocked(k) PROVE Queue!Next
  BY <1>1, <1>2, <1>9 DEF EnqueueLocked, QueueTypeOK
<1>. QED BY <1>3, <1>4, <1>6, <1>7, <1>8, <1>9
         DEF QueueNext, WorkerStep, EnqueueSelect, queueVars

(* Where claims are exclusive, every step of the store is a step of the      *)
(* promised queue, or changes nothing of it (memory_store.go:278-363,        *)
(* sql_store.go:445-580).                                                    *)
THEOREM StoreImplementsQueue == QueueSpec => ImplementsTaskQueue
<1>1. QueueInit => OwnedInv /\ Queue!Init
  BY ClaimInvInit DEF QueueInit, OwnedInv, RunningIsOwned, Queue!Init, Owner
<1>2. OwnedInv /\ [QueueNext]_queueVars => OwnedInv'
  <2> SUFFICES ASSUME OwnedInv, [QueueNext]_queueVars PROVE OwnedInv'
    OBVIOUS
  <2>1. ClaimInv' /\ (ClaimsInOneStep' => ClaimsInOneStep)
    BY ClaimInvNext, DialectKept DEF OwnedInv, ClaimsInOneStep
  <2>2. ClaimsInOneStep => OwnedFacts'
    BY OwnedNext DEF OwnedInv, OwnedFacts, ClaimInv
  <2>. QED BY <2>1, <2>2 DEF OwnedInv, OwnedFacts
<1>3. OwnedInv /\ [QueueNext]_queueVars => [ClaimsInOneStep => Queue!Next]_Owner
  <2> SUFFICES ASSUME OwnedInv, [QueueNext]_queueVars, ClaimsInOneStep
               PROVE  Queue!Next \/ Owner' = Owner
    OBVIOUS
  <2>1. OwnedFacts
    BY DEF OwnedInv, OwnedFacts, ClaimInv
  <2>. QED BY <2>1, OwnedNext, QueueStepImplements
<1>. QED BY <1>1, <1>2, <1>3, PTL DEF QueueSpec, ImplementsTaskQueue

-----------------------------------------------------------------------------
(* The rest is about HistoryTicks, for requests of pages from the start of   *)
(* the day and of the whole day.                                             *)

(* The rows of a page are numbered from one whatever its start is            *)
(* (memory_store.go:149-161), so that a page from further on is stored over  *)
(* the beginning of the day: run HistoryTicks_twice.                         *)
FromTheStart == \A r \in Reader : \A q \in Requests[r] : q.start = 0

Ticks == Len(Minute)

(* The first m ticks of the day, and the row that holds the i-th of them.    *)
First(m) == [i \in 1..m |-> i]
RowOf(i) == <<Minute[i], i>>

Beginning(ticks) == \E m \in 0..Ticks : ticks = First(m)

(* The store has the first m ticks, each in its row.                         *)
Has(m) ==
  /\ DOMAIN store = {RowOf(i) : i \in 1..m}
  /\ \A i \in 1..m : store[RowOf(i)] = i

(* How many ticks the upstream has for a key.                                *)
Size(k) == IF k.full \/ LocalLimit(k) > Ticks THEN Ticks ELSE LocalLimit(k)

(* The day is finite, and its ticks are in the order of their minutes.       *)
LEMMA DayFacts ==
  /\ Ticks \in Nat /\ Tick = 1..Ticks /\ Day = First(Ticks)
  /\ \A i \in 1..Ticks : Minute[i] \in Nat
  /\ \A i, j \in 1..Ticks : i < j => Minute[i] <= Minute[j]
<1>1. Minute \in Seq(Nat) /\ \A i, j \in DOMAIN Minute : i < j => Minute[i] <= Minute[j]
  BY HistoryAssumption
<1>2. Ticks \in Nat /\ DOMAIN Minute = 1..Ticks
  BY <1>1 DEF Ticks
<1>3. \A i \in 1..Ticks : Minute[i] \in Nat
  BY <1>1, <1>2
<1>. QED BY <1>1, <1>2, <1>3 DEF Tick, Day, First

(* Numbers of ticks are compared.                                            *)
LEMMA TickNumbers ==
  ASSUME NEW m \in 0..Ticks, NEW n \in 0..Ticks
  PROVE  /\ m \in Nat /\ n \in Nat /\ Ticks \in Nat /\ Ticks \in 0..Ticks
         /\ n <= Ticks /\ m <= Ticks /\ (m <= n \/ n <= m)
<1>1. Ticks \in Nat
  BY DayFacts
<1>. QED BY <1>1

(* A number between two that meet, or below one that is beyond a bound.      *)
LEMMA Squeezed ==
  ASSUME NEW n \in Nat, NEW s \in Nat, NEW l \in Nat, NEW t \in Nat,
         n <= s, s <= t, n >= l, s = l \/ l > t
  PROVE  n = s
OBVIOUS

(* A number up to another.                                                   *)
LEMMA UpTo ==
  ASSUME NEW t \in Nat, NEW n \in 0..t
  PROVE  n \in Nat /\ n <= t
OBVIOUS

(* The rows come in the order of the ticks they hold (Earlier).              *)
LEMMA RowOrder ==
  ASSUME NEW i \in 1..Ticks, NEW j \in 1..Ticks
  PROVE  /\ Earlier(RowOf(i), RowOf(j)) <=> i < j
         /\ RowOf(i) = RowOf(j) => i = j
<1>1. /\ i \in Nat /\ j \in Nat /\ Minute[i] \in Nat /\ Minute[j] \in Nat
      /\ i < j => Minute[i] <= Minute[j]
      /\ j < i => Minute[j] <= Minute[i]
  BY DayFacts
<1>2. /\ RowOf(i)[1] = Minute[i] /\ RowOf(i)[2] = i
      /\ RowOf(j)[1] = Minute[j] /\ RowOf(j)[2] = j
  BY DEF RowOf
<1>3. Earlier(RowOf(i), RowOf(j)) <=> (Minute[i] < Minute[j] \/ (Minute[i] = Minute[j] /\ i < j))
  BY <1>2 DEF Earlier
<1>. QED BY <1>1, <1>2, <1>3

(* The first n ticks have n rows.                                            *)
LEMMA RowCount ==
  ASSUME NEW n \in 0..Ticks
  PROVE  Cardinality({RowOf(i) : i \in 1..n}) = n
<1>1. n \in Nat /\ \A i \in 1..n : i \in 1..Ticks
  BY DayFacts
<1> DEFINE S == {RowOf(i) : i \in 1..n}
           f == [i \in 1..n |-> RowOf(i)]
<1>2. f \in Bijection(1..n, S)
  <2>1. f \in [1..n -> S]
    OBVIOUS
  <2>2. \A i, j \in 1..n : f[i] = f[j] => i = j
    BY <1>1, RowOrder
  <2>3. \A t \in S : \E i \in 1..n : f[i] = t
    OBVIOUS
  <2>. QED BY <2>1, <2>2, <2>3 DEF Bijection, Injection, Surjection, IsInjective
<1>3. ExistsBijection(1..n, S)
  BY <1>2 DEF ExistsBijection
<1>. QED BY <1>1, <1>3, FS_CountingElements

(* Read in order, the rows of the first m ticks are these ticks (QueryTicks).*)
LEMMA RowsAre ==
  ASSUME NEW m \in 0..Ticks, Has(m)
  PROVE  Rows = First(m)
<1> DEFINE Place(k) == Cardinality({l \in DOMAIN store : Earlier(l, k)})
<1>1. /\ m \in Nat /\ \A i \in 1..m : i \in 1..Ticks /\ i \in Nat /\ i - 1 \in 0..Ticks
      /\ DOMAIN store = {RowOf(i) : i \in 1..m}
  BY DayFacts DEF Has
<1>2. ASSUME NEW i \in 1..m
      PROVE  Place(RowOf(i)) = i - 1
  <2>1. {l \in DOMAIN store : Earlier(l, RowOf(i))} = {RowOf(j) : j \in 1..(i - 1)}
    <3>1. \A j \in 1..m : Earlier(RowOf(j), RowOf(i)) <=> j < i
      BY <1>1, RowOrder
    <3>2. \A j \in 1..(i - 1) : j \in 1..m /\ j < i
      BY <1>1
    <3>3. \A j \in 1..m : j < i => j \in 1..(i - 1)
      BY <1>1
    <3>. QED BY <1>1, <3>1, <3>2, <3>3
  <2>. QED BY <1>1, <2>1, RowCount
<1>3. ASSUME NEW i \in 1..m
      PROVE  store[CHOOSE k \in DOMAIN store : Place(k) = i - 1] = i
  <2> DEFINE At(k) == k \in DOMAIN store /\ Place(k) = i - 1
  <2>1. At(RowOf(i))
    BY <1>1, <1>2
  <2>2. ASSUME NEW k, At(k) PROVE store[k] = i
    <3>1. PICK j \in 1..m : k = RowOf(j)
      BY <1>1, <2>2
    <3>2. j - 1 = i - 1
      BY <1>2, <2>2, <3>1
    <3>. QED BY <1>1, <3>1, <3>2 DEF Has
  <2>3. At(CHOOSE k : At(k))
    <3>. HIDE DEF At
    <3>. QED BY <2>1
  <2>4. store[CHOOSE k : At(k)] = i
    <3>. HIDE DEF At
    <3>. QED BY <2>2, <2>3
  <2>. QED BY <2>4
<1>4. Cardinality(DOMAIN store) = m
  BY <1>1, RowCount
<1>5. Rows = [i \in 1..Cardinality(DOMAIN store) |->
                store[CHOOSE k \in DOMAIN store : Place(k) = i - 1]]
  BY DEF Rows
<1>. HIDE DEF Place
<1>. QED BY <1>3, <1>4, <1>5 DEF First

(* A page from the start of some first ticks.                                *)
LEMMA SliceIs ==
  ASSUME NEW m \in Nat, NEW limit \in Nat
  PROVE  Slice(First(m), 0, limit) = First(IF limit = 0 \/ limit > m THEN m ELSE limit)
<1> DEFINE n == IF limit = 0 \/ limit > m THEN m ELSE limit
<1>1. First(m) \in Seq(Nat) /\ Len(First(m)) = m
  BY DEF First
<1>2. Slice(First(m), 0, limit) = SubSeq(First(m), 1, n)
  BY <1>1 DEF Slice
<1>3. n \in Nat /\ \A i \in 1..n : i \in 1..m
  OBVIOUS
<1>4. SubSeq(First(m), 1, n) = [i \in 1..n |-> First(m)[i]]
  BY <1>1, <1>3
<1>5. \A i \in 1..n : First(m)[i] = i
  BY <1>3 DEF First
<1>. HIDE DEF n
<1>6. SubSeq(First(m), 1, n) = First(n)
  BY <1>4, <1>5 DEF First
<1>. QED BY <1>2, <1>6 DEF n

(* Different numbers of ticks are different pages.                           *)
LEMMA FirstIs ==
  ASSUME NEW m \in Nat
  PROVE  /\ Len(First(m)) = m /\ DOMAIN First(m) = 1..m
         /\ \A i \in 1..m : First(m)[i] = i
         /\ First(m) = <<>> <=> m = 0
<1>1. DOMAIN First(m) = 1..m /\ Len(First(m)) = m /\ First(m) \in Seq(Nat)
  BY DEF First
<1>2. m = 0 => First(m) = <<>>
  BY <1>1
<1>3. First(m) = <<>> => m = 0
  BY <1>1
<1>. QED BY <1>1, <1>2, <1>3 DEF First

(* A request and its key ask for the same ticks: historyTickCacheKey keeps   *)
(* all but the wish for fresh ones.                                          *)
LEMMA RequestIs ==
  ASSUME FromTheStart, NEW r \in Reader, NEW q \in Requests[r]
  PROVE  /\ CacheKey(q) \in Keys /\ q.start = 0 /\ q.full \in BOOLEAN
         /\ LocalLimit(q) \in Nat /\ (LocalLimit(q) = 0 <=> q.full)
         /\ Size(CacheKey(q)) = Size(q) /\ CacheKey(q).full = q.full
<1>1. q.start = 0 /\ q.count \in Nat /\ q.full \in BOOLEAN /\ DefaultCount \in Nat \ {0}
  BY HistoryAssumption DEF FromTheStart
<1>2. CacheKey(q).full = q.full /\ CacheKey(q).count = q.count
  BY DEF CacheKey
<1>3. LocalLimit(CacheKey(q)) = LocalLimit(q)
  BY <1>2 DEF LocalLimit
<1>4. LocalLimit(q) \in Nat /\ (LocalLimit(q) = 0 <=> q.full)
  BY <1>1 DEF LocalLimit
<1>5. CacheKey(q) \in Keys
  BY DEF Keys
<1>. QED BY <1>1, <1>2, <1>3, <1>4, <1>5 DEF Size

(* The upstream answers a key with the first ticks of the day.               *)
LEMMA UpstreamIs ==
  ASSUME FromTheStart, NEW k \in Keys
  PROVE  Size(k) \in 0..Ticks /\ Upstream(k) = First(Size(k)) /\ (k.full => Size(k) = Ticks)
<1>1. PICK r \in Reader : \E q \in Requests[r] : k = CacheKey(q)
  BY DEF Keys
<1> PICK q \in Requests[r] : k = CacheKey(q)
  BY <1>1
<1>2. /\ k.start = 0 /\ k.full = q.full /\ LocalLimit(k) = LocalLimit(q)
      /\ LocalLimit(k) \in Nat /\ (LocalLimit(k) = 0 <=> k.full) /\ k.full \in BOOLEAN
  BY RequestIs DEF CacheKey, LocalLimit
<1>3. Size(k) \in 0..Ticks /\ (k.full => Size(k) = Ticks)
  BY <1>2, DayFacts DEF Size
<1>4. CASE k.full
  BY <1>2, <1>3, <1>4, DayFacts DEF Upstream
<1>5. CASE ~k.full
  <2>1. Upstream(k) = Slice(First(Ticks), 0, LocalLimit(k))
    BY <1>2, <1>5, DayFacts DEF Upstream
  <2>2. Upstream(k) = First(IF LocalLimit(k) = 0 \/ LocalLimit(k) > Ticks THEN Ticks
                                                                          ELSE LocalLimit(k))
    BY <1>2, <2>1, SliceIs, DayFacts
  <2>. QED BY <1>2, <1>3, <1>5, <2>2 DEF Size
<1>. QED BY <1>4, <1>5

(* A store that has the first m ticks answers with as many of them as are    *)
(* asked for (QueryTicks).                                                   *)
LEMMA QueryIs ==
  ASSUME FromTheStart, NEW r \in Reader, NEW q \in Requests[r], NEW m \in 0..Ticks, Has(m)
  PROVE  \E n \in 0..Size(q) : QueryTicks(q) = First(n) /\ (m = Ticks => n = Size(q))
<1>1. m \in Nat /\ Ticks \in Nat /\ m <= Ticks
  BY DayFacts
<1>2. /\ LocalLimit(q) \in Nat /\ (LocalLimit(q) = 0 <=> q.full) /\ q.start = 0
  BY RequestIs
<1> DEFINE n == IF LocalLimit(q) = 0 \/ LocalLimit(q) > m THEN m ELSE LocalLimit(q)
<1>3. QueryTicks(q) = First(n)
  BY <1>1, <1>2, RowsAre, SliceIs DEF QueryTicks
<1>4. n \in 0..Size(q) /\ (m = Ticks => n = Size(q))
  BY <1>1, <1>2 DEF Size
<1>. HIDE DEF n
<1>. QED BY <1>3, <1>4

(* Storing the first n ticks takes none away and adds those up to n          *)
(* (PutTicks).                                                               *)
LEMMA PutIs ==
  ASSUME NEW m \in 0..Ticks, NEW n \in 0..Ticks, Has(m), store' = WithRows(First(n))
  PROVE  /\ m <= n => Has(n)'
         /\ n <= m => Has(m)'
<1>1. /\ m \in Nat /\ n \in Nat /\ \A i \in 1..m : i \in 1..Ticks
      /\ \A i \in 1..n : i \in 1..Ticks
  BY DayFacts
<1> DEFINE RowKeys == {RowOf(i) : i \in 1..n}
           Old == DOMAIN store \ RowKeys
<1>2. {<<Minute[First(n)[i]], i>> : i \in DOMAIN First(n)} = RowKeys
  BY <1>1, FirstIs DEF RowOf
<1>3. store' = [k \in RowKeys \cup Old |-> IF k \in Old THEN store[k] ELSE First(n)[k[2]]]
  BY <1>2 DEF WithRows
<1>4. DOMAIN store' = RowKeys \cup {RowOf(i) : i \in 1..m}
  BY <1>3 DEF Has
<1>5. ASSUME NEW i \in 1..n PROVE store'[RowOf(i)] = i
  <2>1. RowOf(i) \in RowKeys /\ RowOf(i) \notin Old /\ RowOf(i)[2] = i
    BY DEF RowOf
  <2>2. store'[RowOf(i)] = First(n)[i]
    <3>. HIDE DEF RowKeys, Old
    <3>. QED BY <1>3, <2>1
  <2>. QED BY <1>1, <2>2, FirstIs
<1>6. ASSUME NEW i \in 1..m PROVE i \in 1..n \/ store'[RowOf(i)] = i
  <2>1. CASE RowOf(i) \in RowKeys
    <3>1. PICK j \in 1..n : RowOf(i) = RowOf(j)
      BY <2>1
    <3>. QED BY <1>1, <3>1, RowOrder
  <2>2. CASE RowOf(i) \notin RowKeys
    <3>1. RowOf(i) \in Old /\ store[RowOf(i)] = i
      BY <2>2 DEF Has
    <3>2. store'[RowOf(i)] = store[RowOf(i)]
      <4>. HIDE DEF RowKeys, Old
      <4>. QED BY <1>3, <3>1
    <3>. QED BY <3>1, <3>2
  <2>. QED BY <2>1, <2>2
<1>7. ASSUME m <= n PROVE Has(n)'
  <2>1. \A i \in 1..m : i \in 1..n
    BY <1>1, <1>7
  <2>2. DOMAIN store' = RowKeys
    BY <1>4, <2>1
  <2>. QED BY <1>5, <2>2 DEF Has, RowOf
<1>8. ASSUME n <= m PROVE Has(m)'
  <2>1. \A i \in 1..n : i \in 1..m
    BY <1>1, <1>8
  <2>2. DOMAIN store' = {RowOf(i) : i \in 1..m}
    BY <1>4, <2>1
  <2>3. \A i \in 1..m : store'[RowOf(i)] = i
    BY <1>5, <1>6
  <2>. QED BY <2>2, <2>3 DEF Has, RowOf
<1>. QED BY <1>7, <1>8

-----------------------------------------------------------------------------
(* Loads are merged by the group.                                            *)

G == INSTANCE CallGroupProofs WITH Caller <- Reader, Key <- Keys,
                                   Value <- Seq(Tick) \cup {Failed}

(* A step of r on the variables of the group.                                *)
GroupStep(r) ==
  \/ \E k \in Keys : Lead(r, k) \/ Join(r, k)
  \/ \E v \in Seq(Tick) \cup {Failed} : LoadReturns(r, v)
  \/ Returns(r)
  \/ UNCHANGED doVars

(* The group's assumption holds.                                             *)
LEMMA GroupAssumed ==
  MaxCalls \in Nat /\ None \notin Nat /\ None \notin Seq(Tick) \cup {Failed}
BY HistoryAssumption DEF Tick

(* What the invariant of the group says, in this module's terms.             *)
LEMMA GroupFacts ==
  ASSUME G!GroupInv
  PROVE  /\ step \in [Reader -> {"out", "loading", "leaving", "waiting"}]
         /\ call \in [Reader -> CallId \cup {None}] /\ made \in 0..MaxCalls
         /\ keyOf \in [CallId -> Keys \cup {None}] /\ DOMAIN value = CallId
         /\ \A r \in Reader : step[r] # "out" => call[r] \in 1..made /\ call[r] \in CallId
         /\ \A k \in Keys :
              calls[k] # None => calls[k] \in 1..made /\ calls[k] \in CallId /\ keyOf[calls[k]] = k
         /\ \A r \in Reader : step[r] = "loading" => value[call[r]] = None
         /\ \A r \in Reader : step[r] = "leaving" => value[call[r]] # None
         /\ \A c \in CallId : c \notin 1..made => value[c] = None
<1>1. /\ step \in [Reader -> {"out", "loading", "leaving", "waiting"}]
      /\ call \in [Reader -> CallId \cup {None}] /\ made \in 0..MaxCalls
      /\ keyOf \in [CallId -> Keys \cup {None}] /\ DOMAIN value = CallId
      /\ \A r \in Reader : step[r] # "out" => call[r] \in 1..made
  BY DEF G!GroupInv, G!GroupTypeOK, CallId, G!CallId
<1>2. \A r \in Reader : step[r] # "out" => call[r] \in CallId
  BY <1>1, GroupAssumed DEF CallId
<1>3. ASSUME NEW k \in Keys, calls[k] # None
      PROVE  calls[k] \in 1..made /\ calls[k] \in CallId /\ keyOf[calls[k]] = k
  <2>1. PICK s \in Reader : G!Leading(s) /\ call[s] = calls[k] /\ keyOf[calls[k]] = k
    BY <1>3 DEF G!GroupInv, G!MapHoldsLedCalls
  <2>. QED BY <1>1, <1>2, <2>1 DEF G!Leading
<1>4. /\ \A c \in CallId : c \notin 1..made => value[c] = None
      /\ \A c \in CallId : c \in 1..made =>
           ((value[c] = None) <=> \E s \in Reader : step[s] = "loading" /\ call[s] = c)
  BY DEF G!GroupInv, G!PendingHasLeader, CallId, G!CallId
<1>5. \A r, s \in Reader : step[r] = "leaving" /\ step[s] = "loading" => call[r] # call[s]
  BY DEF G!GroupInv, G!LeadersDiffer, G!Leading
<1>. QED BY <1>1, <1>2, <1>3, <1>4, <1>5

(* A step of r keeps the invariant of the group, and changes nothing that    *)
(* other readers, or calls that were made, rely on.                          *)
LEMMA GroupKeeps ==
  ASSUME G!GroupInv, NEW r \in Reader, GroupStep(r)
  PROVE  /\ G!GroupInv'
         /\ \A s \in Reader \ {r} : step'[s] = step[s] /\ call'[s] = call[s]
         /\ \A c \in CallId : c \in 1..made => keyOf'[c] = keyOf[c]
<1> USE GroupFacts
<1>1. ASSUME NEW k \in Keys, Lead(r, k)
      PROVE  /\ G!GroupInv' /\ value' = value
             /\ \A s \in Reader \ {r} : step'[s] = step[s] /\ call'[s] = call[s]
             /\ \A c \in CallId : c \in 1..made => keyOf'[c] = keyOf[c]
  <2>1. G!Lead(r, k)
    BY <1>1 DEF Lead, G!Lead
  <2>2. G!GroupInv'
    BY <2>1, G!LeadKeepsInv, GroupAssumed
  <2>3. \A c \in 1..made : c # made + 1
    OBVIOUS
  <2>. QED BY <1>1, <2>2, <2>3 DEF Lead
<1>2. ASSUME NEW k \in Keys, Join(r, k)
      PROVE  /\ G!GroupInv' /\ UNCHANGED <<keyOf, value>>
             /\ \A s \in Reader \ {r} : step'[s] = step[s] /\ call'[s] = call[s]
  <2>1. G!Join(r, k)
    BY <1>2 DEF Join, G!Join
  <2>2. G!GroupInv'
    BY <2>1, G!JoinKeepsInv, GroupAssumed
  <2>. QED BY <1>2, <2>2 DEF Join
<1>3. ASSUME NEW v \in Seq(Tick) \cup {Failed}, LoadReturns(r, v)
      PROVE  /\ G!GroupInv' /\ UNCHANGED keyOf
             /\ \A s \in Reader \ {r} : step'[s] = step[s] /\ call'[s] = call[s]
  <2>1. G!LoadReturns(r, v)
    BY <1>3 DEF LoadReturns, G!LoadReturns
  <2>2. G!GroupInv'
    BY <2>1, G!LoadReturnsKeepsInv, GroupAssumed
  <2>. QED BY <1>3, <2>2 DEF LoadReturns
<1>4. ASSUME Returns(r)
      PROVE  /\ G!GroupInv' /\ UNCHANGED <<keyOf, value>>
             /\ \A s \in Reader \ {r} : step'[s] = step[s] /\ call'[s] = call[s]
  <2>1. G!Leave(r) \/ G!JoinReturns(r)
    BY <1>4 DEF Returns, Leave, JoinReturns, G!Leave, G!JoinReturns
  <2>2. G!GroupInv'
    BY <2>1, G!LeaveKeepsInv, G!JoinReturnsKeepsInv, GroupAssumed
  <2>. QED BY <1>4, <2>2 DEF Returns, Leave, JoinReturns
<1>5. ASSUME UNCHANGED doVars
      PROVE  G!GroupInv' /\ UNCHANGED <<step, call, keyOf, value>>
  BY <1>5 DEF doVars, G!GroupInv, G!GroupTypeOK, G!LeadersDiffer, G!MapHoldsLedCalls,
              G!PendingHasLeader, G!Leading
<1>. QED BY <1>1, <1>2, <1>3, <1>4, <1>5 DEF GroupStep

-----------------------------------------------------------------------------
(* What holds whatever readers race: everything is the beginning of the day. *)

(* The variables have their types, as far as the proofs need them.           *)
TicksTypeOK ==
  /\ at \in [Reader -> {"idle", "check cached", "query", "check local", "group",
                        "put missing", "put ticks", "put coverage", "put page"}]
  /\ DOMAIN asked = Reader /\ DOMAIN page = Reader /\ DOMAIN answer = Reader
  /\ DOMAIN cache = Keys /\ covered \in BOOLEAN

(* The store has the beginning of the day, and all of it once it is covered. *)
StoreInv == (\E m \in 0..Ticks : Has(m)) /\ (covered => Has(Ticks))

(* A load gives what the upstream has for its key, or nothing, or fails.     *)
LoadsInv ==
  \A c \in CallId : value[c] \in {None, Failed, <<>>} \/ value[c] = Upstream(keyOf[c])

CacheInv == \A k \in Keys : cache[k] # None => Beginning(cache[k])

Answered(r) == answer[r] \notin {None, Failed}
Whole(r) == Upstream(CacheKey(asked[r]))

(* A reader holds the beginning of the day; what it stores is all that the   *)
(* upstream has for it; and it records the day as covered after storing it.  *)
TickReader(r) ==
  /\ at[r] # "idle" \/ answer[r] # None => asked[r] \in Requests[r]
  /\ step[r] # "out" => at[r] = "group" /\ keyOf[call[r]] = CacheKey(asked[r])
  /\ at[r] \in {"check cached", "check local", "put ticks", "put coverage", "put page"} =>
       Beginning(page[r])
  /\ at[r] \in {"put ticks", "put coverage"} => page[r] = Whole(r)
  /\ at[r] = "put coverage" => Has(Ticks)
  /\ Answered(r) => Beginning(answer[r])

TicksInv ==
  G!GroupInv /\ TicksTypeOK /\ StoreInv /\ LoadsInv /\ CacheInv /\ \A r \in Reader : TickReader(r)

(* The first ticks of the day are ticks, and neither an error nor nothing.   *)
LEMMA BeginningIs ==
  ASSUME NEW t, Beginning(t)
  PROVE  t \in Seq(Tick) /\ t # None
<1>1. PICK m \in 0..Ticks : t = First(m)
  BY DEF Beginning
<1>2. m \in Nat /\ \A i \in 1..m : i \in Tick
  BY DayFacts
<1>3. First(m) \in Seq(Tick)
  BY <1>2 DEF First
<1>. QED BY <1>1, <1>3, GroupAssumed

(* What a step of r leaves alone.                                            *)
Aside(r) ==
  /\ GroupStep(r)
  /\ \A s \in Reader \ {r} : /\ at'[s] = at[s] /\ asked'[s] = asked[s] /\ page'[s] = page[s]
                            /\ answer'[s] = answer[s]

(* A step keeps the invariant if it keeps the data and the reader that takes *)
(* it in order, and a store that has the day.                                *)
LEMMA ReaderKeeps ==
  ASSUME TicksInv, NEW r \in Reader, Aside(r), TicksTypeOK', StoreInv', LoadsInv', CacheInv',
         TickReader(r)', Has(Ticks) => Has(Ticks)'
  PROVE  TicksInv'
<1>1. /\ G!GroupInv'
      /\ \A s \in Reader \ {r} : step'[s] = step[s] /\ call'[s] = call[s]
      /\ \A c \in CallId : c \in 1..made => keyOf'[c] = keyOf[c]
  BY GroupKeeps DEF TicksInv, Aside
<1>2. ASSUME NEW s \in Reader \ {r} PROVE TickReader(s)'
  <2>1. /\ step'[s] = step[s] /\ call'[s] = call[s] /\ at'[s] = at[s] /\ asked'[s] = asked[s]
        /\ page'[s] = page[s] /\ answer'[s] = answer[s]
    BY <1>1 DEF Aside
  <2>2. TickReader(s)
    BY DEF TicksInv
  <2>3. step[s] # "out" => keyOf'[call[s]] = keyOf[call[s]]
    BY <1>1, GroupFacts DEF TicksInv
  <2>4. /\ Whole(s)' = Whole(s) /\ (Beginning(page[s])' <=> Beginning(page[s]))
        /\ (Beginning(answer[s])' <=> Beginning(answer[s]))
    BY <2>1 DEF Whole, Beginning
  <2>. QED BY <2>1, <2>2, <2>3, <2>4 DEF TickReader, Answered
<1>. QED BY <1>1, <1>2 DEF TicksInv

(* A step that leaves the group, the cache and the store alone keeps the     *)
(* invariant if it keeps its reader in order.                                *)
LEMMA QuietKeeps ==
  ASSUME TicksInv, NEW r \in Reader, UNCHANGED <<doVars, cache, store, covered>>,
         NEW p, at' = [at EXCEPT ![r] = p],
         p \in {"idle", "check cached", "query", "check local", "group", "put page"},
         \A s \in Reader \ {r} : /\ asked'[s] = asked[s] /\ page'[s] = page[s]
                                /\ answer'[s] = answer[s],
         DOMAIN asked' = Reader, DOMAIN page' = Reader, DOMAIN answer' = Reader,
         step[r] = "out",
         p # "idle" \/ answer'[r] # None => asked'[r] \in Requests[r],
         p \in {"check cached", "check local", "put page"} => Beginning(page'[r]),
         answer'[r] \notin {None, Failed} => Beginning(answer'[r])
  PROVE  TicksInv'
<1>1. TicksTypeOK' /\ at'[r] = p /\ Aside(r)
  BY DEF TicksInv, TicksTypeOK, Aside, GroupStep
<1>2. /\ (Has(Ticks)' <=> Has(Ticks)) /\ StoreInv' /\ LoadsInv' /\ CacheInv' /\ step'[r] = "out"
  BY DEF TicksInv, StoreInv, LoadsInv, CacheInv, Has, doVars, Beginning
<1>3. TickReader(r)'
  BY <1>1, <1>2 DEF TickReader, Answered, Beginning
<1>. QED BY <1>1, <1>2, <1>3, ReaderKeeps

(* The initial state is empty.                                               *)
LEMMA TicksInit == Init => TicksInv
<1> SUFFICES ASSUME Init PROVE TicksInv
  OBVIOUS
<1>1. G!GroupInv
  <2>1. G!GroupInit
    BY DEF Init, GroupInit, G!GroupInit, CallId, G!CallId
  <2>. QED BY <2>1, G!GroupInvInit, GroupAssumed
<1>2. TicksTypeOK /\ covered = FALSE
  BY DEF Init, TicksTypeOK
<1>3. Has(0)
  <2>1. DOMAIN store = {} /\ \A i \in 1..0 : FALSE
    BY DEF Init
  <2>. QED BY <2>1 DEF Has
<1>4. StoreInv
  BY <1>2, <1>3, DayFacts DEF StoreInv
<1>5. LoadsInv /\ CacheInv
  BY DEF Init, GroupInit, LoadsInv, CacheInv
<1>6. \A r \in Reader : TickReader(r)
  BY DEF Init, GroupInit, TickReader, Answered
<1>. QED BY <1>1, <1>2, <1>4, <1>5, <1>6 DEF TicksInv

(* A request begins.                                                         *)
LEMMA ReadCacheKeeps ==
  ASSUME TicksInv, NEW r \in Reader, NEW q \in Requests[r], ReadCache(r, q)
  PROVE  TicksInv'
<1>1. /\ at[r] = "idle" /\ UNCHANGED <<doVars, cache, store, covered>>
      /\ asked' = [asked EXCEPT ![r] = q] /\ answer' = [answer EXCEPT ![r] = None]
  BY DEF ReadCache
<1> DEFINE hit == ~q.force /\ cache[CacheKey(q)] # None
           p == IF q.force THEN "group" ELSE IF hit THEN "check cached" ELSE "query"
<1>2. /\ at' = [at EXCEPT ![r] = p]
      /\ page' = [page EXCEPT ![r] = IF hit THEN cache[CacheKey(q)] ELSE <<>>]
  BY DEF ReadCache
<1>3. CacheKey(q) \in Keys
  BY DEF Keys
<1>4. hit => Beginning(cache[CacheKey(q)])
  BY <1>3 DEF TicksInv, CacheInv
<1>5. step[r] = "out"
  BY <1>1 DEF TicksInv, TickReader
<1>6. /\ p \in {"group", "check cached", "query"} /\ (p = "check cached" => hit)
      /\ asked'[r] = q /\ answer'[r] = None /\ (hit => page'[r] = cache[CacheKey(q)])
      /\ DOMAIN asked' = Reader /\ DOMAIN page' = Reader /\ DOMAIN answer' = Reader
      /\ \A s \in Reader \ {r} : /\ asked'[s] = asked[s] /\ page'[s] = page[s]
                                /\ answer'[s] = answer[s]
  BY <1>1, <1>2 DEF TicksInv, TicksTypeOK
<1>7. p \in {"check cached", "check local", "put page"} => Beginning(page'[r])
  BY <1>4, <1>6
<1>. HIDE DEF hit, p
<1>. QED BY <1>1, <1>2, <1>5, <1>6, <1>7, QuietKeeps

(* A reader is outside of the group wherever it is in the rest of            *)
(* GetHistoryTicks.                                                          *)
LEMMA OutsideGroup ==
  ASSUME TicksInv, NEW r \in Reader, at[r] # "group"
  PROVE  step[r] = "out"
BY DEF TicksInv, TickReader

(* Steps that only move the reader on, or answer it what it holds.           *)
LEMMA MoveKeeps ==
  ASSUME TicksInv, NEW r \in Reader, step[r] = "out", at[r] # "idle",
         UNCHANGED <<doVars, cache, store, covered, asked>>, NEW p,
         p \in {"idle", "check cached", "query", "check local", "group", "put page"},
         at' = [at EXCEPT ![r] = p],
         \/ UNCHANGED <<page, answer>>
            /\ (p \in {"check cached", "check local", "put page"} => Beginning(page[r]))
         \/ UNCHANGED page /\ \E a : /\ answer' = [answer EXCEPT ![r] = a]
                                    /\ p = "idle" /\ (a = Failed \/ Beginning(a))
         \/ UNCHANGED answer /\ \E t : page' = [page EXCEPT ![r] = t] /\ Beginning(t)
  PROVE  TicksInv'
<1>1. TickReader(r) /\ TicksTypeOK
  BY DEF TicksInv
<1>2. /\ DOMAIN asked' = Reader /\ DOMAIN page' = Reader /\ DOMAIN answer' = Reader
      /\ \A s \in Reader \ {r} : /\ asked'[s] = asked[s] /\ page'[s] = page[s]
                                /\ answer'[s] = answer[s]
  BY <1>1 DEF TicksTypeOK
<1>3. asked'[r] \in Requests[r]
  BY <1>1 DEF TickReader
<1>4. p \in {"check cached", "check local", "put page"} => Beginning(page'[r])
  BY <1>1 DEF TicksTypeOK
<1>5. answer'[r] \notin {None, Failed} => Beginning(answer'[r])
  BY <1>1 DEF TicksTypeOK, TickReader, Answered
<1>. QED BY <1>2, <1>3, <1>4, <1>5, QuietKeeps

(* The cached page is checked; the store is read; its rows are checked.      *)
LEMMA ChecksKeep ==
  ASSUME FromTheStart, TicksInv, NEW r \in Reader,
         CheckCached(r) \/ QueryLocal(r) \/ CheckLocal(r)
  PROVE  TicksInv'
<1>1. /\ at[r] \in {"check cached", "query", "check local"}
      /\ UNCHANGED <<doVars, cache, store, covered, asked>>
  BY DEF CheckCached, QueryLocal, CheckLocal
<1>2. step[r] = "out" /\ asked[r] \in Requests[r]
  BY <1>1, OutsideGroup DEF TicksInv, TickReader
<1>3. CASE CheckCached(r)
  <2>1. Beginning(page[r])
    BY <1>3 DEF CheckCached, TicksInv, TickReader
  <2>2. /\ UNCHANGED page
        /\ \/ at' = [at EXCEPT ![r] = "idle"] /\ answer' = [answer EXCEPT ![r] = page[r]]
           \/ at' = [at EXCEPT ![r] = "query"] /\ UNCHANGED answer
    BY <1>3 DEF CheckCached, Answer, GoTo
  <2>. QED BY <1>1, <1>2, <2>1, <2>2, MoveKeeps
<1>4. CASE QueryLocal(r)
  <2>1. Beginning(QueryTicks(asked[r]))
    <3>1. PICK m \in 0..Ticks : Has(m)
      BY DEF TicksInv, StoreInv
    <3>2. PICK n \in 0..Size(asked[r]) : QueryTicks(asked[r]) = First(n)
      BY <1>2, <3>1, QueryIs
    <3>3. Size(asked[r]) \in 0..Ticks
      BY <1>2, RequestIs, UpstreamIs
    <3>. QED BY <3>2, <3>3, DayFacts DEF Beginning
  <2>2. /\ page' = [page EXCEPT ![r] = QueryTicks(asked[r])] /\ UNCHANGED answer
        /\ at' = [at EXCEPT ![r] = "check local"]
    BY <1>4 DEF QueryLocal, GoTo
  <2>. QED BY <1>1, <1>2, <2>1, <2>2, MoveKeeps
<1>5. CASE CheckLocal(r)
  <2>1. Beginning(page[r])
    BY <1>5 DEF CheckLocal, TicksInv, TickReader
  <2>2. /\ UNCHANGED <<page, answer>>
        /\ at' = [at EXCEPT ![r] = "put page"] \/ at' = [at EXCEPT ![r] = "group"]
    BY <1>5 DEF CheckLocal, GoTo
  <2>. QED BY <1>1, <1>2, <2>1, <2>2, MoveKeeps
<1>. QED BY <1>3, <1>4, <1>5

(* The request is cancelled.                                                 *)
LEMMA CancelledKeeps ==
  ASSUME TicksInv, NEW r \in Reader, Cancelled(r)
  PROVE  TicksInv'
<1>1. /\ at[r] # "idle" /\ step[r] = "out" /\ UNCHANGED <<doVars, cache, store, covered, asked, page>>
      /\ at' = [at EXCEPT ![r] = "idle"] /\ answer' = [answer EXCEPT ![r] = Failed]
  BY DEF Cancelled, Answer
<1>. QED BY <1>1, MoveKeeps

(* A reader enters the group with the key of its request.                    *)
LEMMA EnterKeeps ==
  ASSUME TicksInv, NEW r \in Reader, EnterGroup(r)
  PROVE  TicksInv'
<1>1. /\ at[r] = "group" /\ UNCHANGED <<cache, store, covered, at, asked, page, answer>>
      /\ Lead(r, CacheKey(asked[r])) \/ Join(r, CacheKey(asked[r]))
  BY DEF EnterGroup
<1>2. TickReader(r) /\ asked[r] \in Requests[r] /\ CacheKey(asked[r]) \in Keys
  BY <1>1 DEF TicksInv, TickReader, Keys
<1>3. Aside(r)
  BY <1>1, <1>2 DEF Aside, GroupStep
<1>4. TicksTypeOK' /\ StoreInv' /\ CacheInv' /\ (Has(Ticks) => Has(Ticks)')
  BY <1>1 DEF TicksInv, TicksTypeOK, StoreInv, CacheInv, Has, Beginning
<1>5. keyOf'[call'[r]] = CacheKey(asked[r])
  <2>1. CASE Lead(r, CacheKey(asked[r]))
    <3>1. /\ made' = made + 1 /\ made < MaxCalls /\ call' = [call EXCEPT ![r] = made + 1]
          /\ keyOf' = [keyOf EXCEPT ![made + 1] = CacheKey(asked[r])]
      BY <2>1 DEF Lead
    <3>2. made + 1 \in CallId
      BY <3>1, GroupFacts, GroupAssumed DEF TicksInv, CallId
    <3>. QED BY <3>1, <3>2, GroupFacts DEF TicksInv
  <2>2. CASE Join(r, CacheKey(asked[r]))
    BY <1>2, <2>2, GroupFacts DEF TicksInv, Join
  <2>. QED BY <1>1, <2>1, <2>2
<1>6. TickReader(r)'
  BY <1>1, <1>2, <1>4, <1>5 DEF TickReader, Answered, Whole, Beginning
<1>7. LoadsInv'
  <2>1. value' = value
    BY <1>1 DEF Lead, Join
  <2>2. \A c \in CallId : value[c] # None => keyOf'[c] = keyOf[c]
    BY <1>3, GroupKeeps, GroupFacts DEF TicksInv, Aside
  <2>3. ASSUME NEW c \in CallId
        PROVE  value'[c] \in {None, Failed, <<>>} \/ value'[c] = Upstream(keyOf'[c])
    BY <2>1, <2>2 DEF TicksInv, LoadsInv
  <2>. QED BY <2>3 DEF LoadsInv
<1>. QED BY <1>3, <1>4, <1>6, <1>7, ReaderKeeps

(* A load returns, with what the upstream has for its key, or nothing, or    *)
(* with an error.                                                            *)
LEMMA LoadKeeps ==
  ASSUME FromTheStart, TicksInv, NEW r \in Reader, Load(r)
  PROVE  TicksInv'
<1>1. step[r] = "loading" /\ UNCHANGED <<cache, store, covered, at, asked, page, answer>>
  BY DEF Load
<1>2. /\ call[r] \in CallId /\ at[r] = "group" /\ keyOf[call[r]] = CacheKey(asked[r])
      /\ TickReader(r) /\ asked[r] \in Requests[r]
  BY <1>1, GroupFacts DEF TicksInv, TickReader
<1>3. Upstream(keyOf[call[r]]) \in Seq(Tick)
  <2>1. keyOf[call[r]] \in Keys
    BY <1>2, RequestIs
  <2>2. Beginning(Upstream(keyOf[call[r]]))
    BY <2>1, UpstreamIs DEF Beginning
  <2>. QED BY <2>2, BeginningIs
<1>4. <<>> \in Seq(Tick)
  OBVIOUS
<1>5. PICK v \in {Upstream(keyOf[call[r]]), <<>>, Failed} : LoadReturns(r, v)
  BY DEF Load
<1>6. Aside(r)
  BY <1>1, <1>3, <1>4, <1>5 DEF Aside, GroupStep
<1>7. TicksTypeOK' /\ StoreInv' /\ CacheInv' /\ (Has(Ticks) => Has(Ticks)')
  BY <1>1 DEF TicksInv, TicksTypeOK, StoreInv, CacheInv, Has, Beginning
<1>8. call' = call /\ keyOf' = keyOf /\ value' = [value EXCEPT ![call[r]] = v]
  BY <1>5 DEF LoadReturns
<1>9. TickReader(r)'
  BY <1>1, <1>2, <1>7, <1>8 DEF TickReader, Answered, Whole, Beginning
<1>10. LoadsInv'
  <2>1. ASSUME NEW c \in CallId
        PROVE  value'[c] \in {None, Failed, <<>>} \/ value'[c] = Upstream(keyOf[c])
    BY <1>2, <1>8, GroupFacts DEF TicksInv, LoadsInv
  <2>. QED BY <1>8, <2>1 DEF LoadsInv
<1>. QED BY <1>6, <1>7, <1>9, <1>10, ReaderKeeps

(* A load gave a reader what the upstream has for its request.               *)
LEMMA ResultIs ==
  ASSUME FromTheStart, TicksInv, NEW r \in Reader, Returns(r), Result(r) \notin {Failed, <<>>}
  PROVE  Result(r) = Whole(r) /\ Beginning(Result(r)) /\ asked[r] \in Requests[r]
<1>1. step[r] # "out" /\ Result(r) # None /\ Result(r) = value[call[r]]
  BY GroupFacts DEF TicksInv, Returns, Leave, JoinReturns, Result
<1>2. /\ call[r] \in CallId /\ keyOf[call[r]] = CacheKey(asked[r]) /\ asked[r] \in Requests[r]
  BY <1>1, GroupFacts DEF TicksInv, TickReader
<1>3. Result(r) = Whole(r)
  BY <1>1, <1>2 DEF TicksInv, LoadsInv, Whole
<1>4. Beginning(Upstream(CacheKey(asked[r])))
  BY <1>2, RequestIs, UpstreamIs DEF Beginning
<1>. QED BY <1>2, <1>3, <1>4 DEF Whole

(* The group returns to a reader.                                            *)
LEMMA ReturnKeeps ==
  ASSUME FromTheStart, TicksInv, NEW r \in Reader, GroupReturns(r)
  PROVE  TicksInv'
<1>1. Returns(r) /\ UNCHANGED <<cache, store, covered, asked>>
  BY DEF GroupReturns
<1>2. step[r] # "out" /\ step'[r] = "out" /\ UNCHANGED <<keyOf, value>>
  BY <1>1, GroupFacts DEF TicksInv, Returns, Leave, JoinReturns
<1>3. TickReader(r) /\ asked[r] \in Requests[r] /\ TicksTypeOK
  BY <1>2 DEF TicksInv, TickReader
<1>4. PICK p \in {"idle", "put missing", "put ticks"} :
        /\ at' = [at EXCEPT ![r] = p]
        /\ \/ p = "idle" /\ answer' = [answer EXCEPT ![r] = Failed] /\ UNCHANGED page
           \/ p = "put missing" /\ UNCHANGED <<page, answer>>
           \/ /\ p = "put ticks" /\ UNCHANGED answer /\ Result(r) \notin {Failed, <<>>}
              /\ page' = [page EXCEPT ![r] = Result(r)]
  BY DEF GroupReturns, Answer, GoTo
<1>5. Aside(r)
  BY <1>1, <1>3, <1>4 DEF Aside, GroupStep, TicksTypeOK
<1>6. TicksTypeOK' /\ at'[r] = p /\ asked' = asked
  BY <1>1, <1>3, <1>4 DEF TicksTypeOK
<1>7. StoreInv' /\ CacheInv' /\ LoadsInv' /\ (Has(Ticks) => Has(Ticks)')
  BY <1>1, <1>2 DEF TicksInv, StoreInv, CacheInv, LoadsInv, Has, Beginning
<1>8. p = "put ticks" => Beginning(page'[r]) /\ page'[r] = Whole(r)
  BY <1>1, <1>3, <1>4, ResultIs DEF TicksTypeOK
<1>9. Whole(r)' = Whole(r)
  BY <1>1 DEF Whole
<1>10. answer'[r] \notin {None, Failed} => Beginning(answer'[r])
  BY <1>3, <1>4 DEF TickReader, TicksTypeOK, Answered
<1>11. TickReader(r)'
  BY <1>2, <1>3, <1>6, <1>8, <1>9, <1>10 DEF TickReader, Answered, Beginning
<1>. QED BY <1>5, <1>6, <1>7, <1>11, ReaderKeeps

(* The day is recorded as missing.                                           *)
LEMMA PutMissingKeeps ==
  ASSUME TicksInv, NEW r \in Reader, PutMissing(r)
  PROVE  TicksInv'
<1>1. /\ at[r] = "put missing" /\ UNCHANGED <<doVars, cache, store, asked, page>>
      /\ covered' = Recorded(FALSE)
      /\ at' = [at EXCEPT ![r] = "idle"] /\ answer' = [answer EXCEPT ![r] = Failed]
  BY DEF PutMissing, Answer
<1>2. TickReader(r) /\ step[r] = "out" /\ TicksTypeOK
  BY <1>1, OutsideGroup DEF TicksInv
<1>3. covered' \in BOOLEAN /\ (covered' => covered)
  BY <1>1, <1>2, HistoryAssumption DEF Recorded, TicksTypeOK
<1>4. TicksTypeOK' /\ at'[r] = "idle" /\ answer'[r] = Failed /\ Aside(r)
  BY <1>1, <1>2, <1>3 DEF TicksTypeOK, Aside, GroupStep
<1>5. StoreInv' /\ CacheInv' /\ LoadsInv' /\ (Has(Ticks) => Has(Ticks)')
  BY <1>1, <1>3 DEF TicksInv, StoreInv, CacheInv, LoadsInv, Has, Beginning, doVars
<1>6. TickReader(r)'
  BY <1>1, <1>2, <1>4 DEF TickReader, Answered, doVars
<1>. QED BY <1>4, <1>5, <1>6, ReaderKeeps

(* The ticks are stored: no tick is taken away.                              *)
LEMMA PutTicksKeeps ==
  ASSUME FromTheStart, TicksInv, NEW r \in Reader, PutTicks(r)
  PROVE  TicksInv'
<1>1. /\ at[r] = "put ticks" /\ UNCHANGED <<doVars, cache, covered, asked, page, answer>>
      /\ store' = WithRows(page[r])
  BY DEF PutTicks, GoTo
<1>2. PICK p \in {"put coverage", "put page"} :
        at' = [at EXCEPT ![r] = p] /\ (p = "put coverage" => asked[r].full)
  BY DEF PutTicks, GoTo
<1>3. TickReader(r) /\ step[r] = "out" /\ TicksTypeOK /\ asked[r] \in Requests[r]
  BY <1>1, OutsideGroup DEF TicksInv, TickReader
<1>4. PICK n \in 0..Ticks : page[r] = First(n) /\ (asked[r].full => n = Ticks)
  <2>1. CacheKey(asked[r]) \in Keys /\ CacheKey(asked[r]).full = asked[r].full
    BY <1>3, RequestIs
  <2>2. page[r] = Upstream(CacheKey(asked[r]))
    BY <1>1, <1>3 DEF TickReader, Whole
  <2>. QED BY <2>1, <2>2, UpstreamIs
<1>5. PICK m \in 0..Ticks : Has(m) /\ (covered => Has(Ticks))
  BY DEF TicksInv, StoreInv
<1>6. /\ m \in Nat /\ n \in Nat /\ Ticks \in Nat /\ Ticks \in 0..Ticks
      /\ n <= Ticks /\ m <= Ticks /\ (m <= n \/ n <= m)
  BY TickNumbers
<1>7. (Has(Ticks) \/ n = Ticks) => Has(Ticks)'
  BY <1>1, <1>4, <1>5, <1>6, PutIs
<1>8. StoreInv'
  <2>1. Has(m)' \/ Has(n)'
    BY <1>1, <1>4, <1>5, <1>6, PutIs
  <2>2. covered' => Has(Ticks)'
    BY <1>1, <1>5, <1>7
  <2>. QED BY <2>1, <2>2 DEF StoreInv, Has, Ticks
<1>9. CacheInv' /\ LoadsInv'
  BY <1>1 DEF TicksInv, CacheInv, LoadsInv, Beginning, doVars
<1>10. TicksTypeOK' /\ at'[r] = p /\ Aside(r)
  BY <1>1, <1>2, <1>3 DEF TicksTypeOK, Aside, GroupStep
<1>11. TickReader(r)'
  <2>1. /\ Beginning(page'[r]) /\ page'[r] = Whole(r)' /\ step'[r] = "out"
        /\ asked'[r] \in Requests[r]
    BY <1>1, <1>3 DEF TickReader, Whole, doVars
  <2>2. p = "put coverage" => Has(Ticks)'
    BY <1>2, <1>4, <1>7
  <2>3. Answered(r)' => Beginning(answer'[r])
    BY <1>1, <1>3 DEF TickReader, Answered
  <2>. QED BY <1>10, <2>1, <2>2, <2>3 DEF TickReader, Beginning
<1>. QED BY <1>7, <1>8, <1>9, <1>10, <1>11, ReaderKeeps

(* The day is recorded as covered, by a reader that has stored it.           *)
LEMMA PutCoverageKeeps ==
  ASSUME TicksInv, NEW r \in Reader, PutCoverage(r)
  PROVE  TicksInv'
<1>1. /\ at[r] = "put coverage" /\ UNCHANGED <<doVars, cache, store, asked, page, answer>>
      /\ covered' = TRUE /\ at' = [at EXCEPT ![r] = "put page"]
  BY DEF PutCoverage, GoTo, Recorded
<1>2. TickReader(r) /\ step[r] = "out" /\ TicksTypeOK /\ asked[r] \in Requests[r]
  BY <1>1, OutsideGroup DEF TicksInv, TickReader
<1>3. Has(Ticks) /\ Has(Ticks)'
  BY <1>1, <1>2 DEF TickReader, Has
<1>4. TicksTypeOK' /\ at'[r] = "put page" /\ Aside(r)
  BY <1>1, <1>2 DEF TicksTypeOK, Aside, GroupStep
<1>5. StoreInv' /\ CacheInv' /\ LoadsInv'
  BY <1>1, <1>3 DEF TicksInv, StoreInv, CacheInv, LoadsInv, Has, Beginning, doVars
<1>6. TickReader(r)'
  BY <1>1, <1>2, <1>4 DEF TickReader, Answered, Beginning, doVars
<1>. QED BY <1>3, <1>4, <1>5, <1>6, ReaderKeeps

(* The answer is cached.                                                     *)
LEMMA PutPageKeeps ==
  ASSUME TicksInv, NEW r \in Reader, PutPage(r)
  PROVE  TicksInv'
<1>1. /\ at[r] = "put page" /\ UNCHANGED <<doVars, store, covered, asked, page>>
      /\ cache' = [cache EXCEPT ![CacheKey(asked[r])] = page[r]]
      /\ at' = [at EXCEPT ![r] = "idle"] /\ answer' = [answer EXCEPT ![r] = page[r]]
  BY DEF PutPage, Answer
<1>2. /\ TickReader(r) /\ step[r] = "out" /\ TicksTypeOK /\ asked[r] \in Requests[r]
      /\ Beginning(page[r])
  BY <1>1, OutsideGroup DEF TicksInv, TickReader
<1>3. TicksTypeOK' /\ at'[r] = "idle" /\ answer'[r] = page[r] /\ Aside(r)
  BY <1>1, <1>2 DEF TicksTypeOK, Aside, GroupStep
<1>4. CacheInv'
  BY <1>1, <1>2 DEF TicksInv, TicksTypeOK, CacheInv, Beginning
<1>5. StoreInv' /\ LoadsInv' /\ (Has(Ticks) => Has(Ticks)')
  BY <1>1 DEF TicksInv, StoreInv, LoadsInv, Has, doVars
<1>6. TickReader(r)'
  BY <1>1, <1>2, <1>3 DEF TickReader, Answered, Beginning, doVars
<1>. QED BY <1>3, <1>4, <1>5, <1>6, ReaderKeeps

(* A cached page expires.                                                    *)
LEMMA ExpireKeeps ==
  ASSUME TicksInv, NEW k \in Keys, Expire(k)
  PROVE  TicksInv'
<1>1. UNCHANGED <<doVars, store, covered, at, asked, page, answer>>
      /\ cache' = [cache EXCEPT ![k] = None]
  BY DEF Expire
<1>2. G!GroupInv'
  BY <1>1 DEF TicksInv, doVars, G!GroupInv, G!GroupTypeOK, G!LeadersDiffer, G!MapHoldsLedCalls,
              G!PendingHasLeader, G!Leading
<1>3. CacheInv' /\ TicksTypeOK'
  BY <1>1 DEF TicksInv, TicksTypeOK, CacheInv, Beginning
<1>4. StoreInv' /\ LoadsInv'
  BY <1>1 DEF TicksInv, StoreInv, LoadsInv, Has, doVars
<1>5. \A r \in Reader : TickReader(r)'
  BY <1>1 DEF TicksInv, TickReader, Answered, Beginning, Whole, Has, doVars
<1>. QED BY <1>2, <1>3, <1>4, <1>5 DEF TicksInv

(* No step breaks the invariant.                                             *)
LEMMA TicksNext ==
  ASSUME FromTheStart, TicksInv, [Next]_vars
  PROVE  TicksInv'
<1>1. CASE UNCHANGED vars
  <2>1. G!GroupInv'
    BY <1>1 DEF TicksInv, vars, doVars, G!GroupInv, G!GroupTypeOK, G!LeadersDiffer,
                G!MapHoldsLedCalls, G!PendingHasLeader, G!Leading
  <2>2. TicksTypeOK' /\ StoreInv' /\ LoadsInv' /\ CacheInv'
    BY <1>1 DEF TicksInv, vars, doVars, TicksTypeOK, StoreInv, LoadsInv, CacheInv, Has, Beginning
  <2>3. \A r \in Reader : TickReader(r)'
    BY <1>1 DEF TicksInv, vars, doVars, TickReader, Answered, Beginning, Whole, Has
  <2>. QED BY <2>1, <2>2, <2>3 DEF TicksInv
<1>2. ASSUME NEW r \in Reader,
             \/ \E q \in Requests[r] : ReadCache(r, q)
             \/ CheckCached(r) \/ QueryLocal(r) \/ CheckLocal(r)
             \/ EnterGroup(r) \/ Load(r) \/ GroupReturns(r)
             \/ PutMissing(r) \/ PutTicks(r) \/ PutCoverage(r) \/ PutPage(r)
             \/ Cancelled(r)
      PROVE  TicksInv'
  BY <1>2, ReadCacheKeeps, ChecksKeep, EnterKeeps, LoadKeeps, ReturnKeeps, PutMissingKeeps,
     PutTicksKeeps, PutCoverageKeeps, PutPageKeeps, CancelledKeeps
<1>3. ASSUME NEW k \in Keys, Expire(k) PROVE TicksInv'
  BY <1>3, ExpireKeeps
<1>. QED BY <1>1, <1>2, <1>3 DEF Next

LEMMA TicksInvariance ==
  ASSUME FromTheStart
  PROVE  Spec => []TicksInv
BY TicksInit, TicksNext, PTL DEF Spec

(* A day that is recorded as covered has every tick in the store, whatever   *)
(* readers race and however often pages are stored over it: a page only ever *)
(* writes the rows it agrees with, and the record comes last                 *)
(* (market_data.go:217-225).                                                 *)
THEOREM CoverageIsStored ==
  ASSUME FromTheStart
  PROVE  Spec => []CoveredMeansStored
<1>1. TicksInv => CoveredMeansStored
  <2> SUFFICES ASSUME TicksInv, covered, NEW i \in Tick
               PROVE  i \in {store[k] : k \in DOMAIN store}
    BY DEF CoveredMeansStored
  <2>1. Has(Ticks) /\ i \in 1..Ticks
    BY DayFacts DEF TicksInv, StoreInv
  <2>. QED BY <2>1 DEF Has
<1>. QED BY <1>1, TicksInvariance, PTL

(* No answer holds a tick twice, also when the store answered with rows that *)
(* several requests stored (memory_store.go:149-161).                        *)
THEOREM AnswersHaveNoTickTwice ==
  ASSUME FromTheStart
  PROVE  Spec => []NoTickTwice
<1>1. TicksInv => NoTickTwice
  <2> SUFFICES ASSUME TicksInv, NEW r \in Reader, answer[r] \notin {None, Failed},
                      NEW i \in DOMAIN answer[r], NEW j \in DOMAIN answer[r],
                      answer[r][i] = answer[r][j]
               PROVE  i = j
    BY DEF NoTickTwice
  <2>1. PICK m \in 0..Ticks : answer[r] = First(m)
    BY DEF TicksInv, TickReader, Answered, Beginning
  <2>. QED BY <2>1, DayFacts, FirstIs
<1>. QED BY <1>1, TicksInvariance, PTL

-----------------------------------------------------------------------------
(* Where a reader is in GetHistoryTicks tells what it asked for.             *)

(* Only who does not insist on fresh ticks looks for them in the cache and   *)
(* the store, where it finds no more than it asked for; only who asked for   *)
(* the whole day records it as covered.                                      *)
Placed(r) ==
  /\ at[r] \in {"check cached", "query", "check local"} => ~asked[r].force
  /\ at[r] = "check local" => \E n \in 0..Size(asked[r]) : page[r] = First(n)
  /\ at[r] = "put coverage" => asked[r].full

PlaceInv == \A r \in Reader : Placed(r)

(* A step keeps it if it keeps it for its reader.                            *)
LEMMA PlaceKeeps ==
  ASSUME PlaceInv, NEW r \in Reader, Placed(r)',
         \A s \in Reader \ {r} : at'[s] = at[s] /\ asked'[s] = asked[s] /\ page'[s] = page[s]
  PROVE  PlaceInv'
<1>1. ASSUME NEW s \in Reader \ {r} PROVE Placed(s)'
  <2>1. at'[s] = at[s] /\ asked'[s] = asked[s] /\ page'[s] = page[s] /\ Placed(s)
    BY DEF PlaceInv
  <2>2. Size(asked[s])' = Size(asked[s])
    BY <2>1 DEF Size, LocalLimit
  <2>. QED BY <2>1, <2>2 DEF Placed
<1>. QED BY <1>1 DEF PlaceInv

(* No step breaks it.                                                        *)
LEMMA PlaceNext ==
  ASSUME FromTheStart, TicksInv, PlaceInv, [Next]_vars
  PROVE  PlaceInv'
<1>1. CASE UNCHANGED vars
  BY <1>1 DEF vars, PlaceInv, Placed, Size, LocalLimit
<1>2. ASSUME NEW k \in Keys, Expire(k) PROVE PlaceInv'
  BY <1>2 DEF Expire, PlaceInv, Placed, Size, LocalLimit
<1>3. ASSUME NEW r \in Reader, NEW q \in Requests[r], ReadCache(r, q) PROVE PlaceInv'
  <2>1. /\ asked' = [asked EXCEPT ![r] = q]
        /\ \E p \in {"group", "check cached", "query"} :
             at' = [at EXCEPT ![r] = p] /\ (p # "group" => ~q.force)
        /\ \E t : page' = [page EXCEPT ![r] = t]
    BY <1>3 DEF ReadCache
  <2>2. TicksTypeOK
    BY DEF TicksInv
  <2>3. /\ asked'[r] = q /\ at'[r] \in {"group", "check cached", "query"}
        /\ at'[r] # "group" => ~q.force
        /\ \A s \in Reader \ {r} : at'[s] = at[s] /\ asked'[s] = asked[s] /\ page'[s] = page[s]
    BY <2>1, <2>2 DEF TicksTypeOK
  <2>4. Placed(r)'
    BY <2>3 DEF Placed
  <2>. QED BY <2>3, <2>4, PlaceKeeps
<1>4. ASSUME NEW r \in Reader, QueryLocal(r) PROVE PlaceInv'
  <2>1. /\ at[r] = "query" /\ UNCHANGED asked
        /\ page' = [page EXCEPT ![r] = QueryTicks(asked[r])]
        /\ at' = [at EXCEPT ![r] = "check local"]
    BY <1>4 DEF QueryLocal, GoTo
  <2>2. TicksTypeOK /\ Placed(r) /\ asked[r] \in Requests[r]
    BY <2>1 DEF TicksInv, TickReader, PlaceInv
  <2>3. \E n \in 0..Size(asked[r]) : QueryTicks(asked[r]) = First(n)
    BY <2>2, QueryIs DEF TicksInv, StoreInv
  <2>4. /\ at'[r] = "check local" /\ page'[r] = QueryTicks(asked[r])
        /\ \A s \in Reader \ {r} : at'[s] = at[s] /\ asked'[s] = asked[s] /\ page'[s] = page[s]
    BY <2>1, <2>2 DEF TicksTypeOK
  <2>5. Size(asked[r])' = Size(asked[r]) /\ ~asked[r].force
    BY <2>1, <2>2 DEF Size, LocalLimit, Placed
  <2>6. Placed(r)'
    BY <2>1, <2>3, <2>4, <2>5 DEF Placed
  <2>. QED BY <2>4, <2>6, PlaceKeeps
<1>5. ASSUME NEW r \in Reader, EnterGroup(r) \/ Load(r) PROVE PlaceInv'
  BY <1>5 DEF EnterGroup, Load, PlaceInv, Placed, Size, LocalLimit
<1>6. ASSUME NEW r \in Reader,
             \/ CheckCached(r) \/ CheckLocal(r) \/ GroupReturns(r) \/ PutMissing(r)
             \/ PutTicks(r) \/ PutCoverage(r) \/ PutPage(r) \/ Cancelled(r)
      PROVE  PlaceInv'
  <2>1. /\ UNCHANGED asked
        /\ \E p : /\ at' = [at EXCEPT ![r] = p]
                  /\ \/ p \in {"idle", "group", "put missing", "put ticks", "put page"}
                     \/ p = "query" /\ at[r] = "check cached"
                     \/ p = "put coverage" /\ asked[r].full
        /\ UNCHANGED page \/ page' = [page EXCEPT ![r] = Result(r)]
    BY <1>6 DEF CheckCached, CheckLocal, GroupReturns, PutMissing, PutTicks, PutCoverage, PutPage,
                Cancelled, Answer, GoTo
  <2>2. TicksTypeOK /\ Placed(r)
    BY DEF TicksInv, PlaceInv
  <2>3. /\ \/ at'[r] \in {"idle", "group", "put missing", "put ticks", "put page"}
           \/ at'[r] = "query" /\ at[r] = "check cached"
           \/ at'[r] = "put coverage" /\ asked[r].full
        /\ \A s \in Reader \ {r} : at'[s] = at[s] /\ asked'[s] = asked[s] /\ page'[s] = page[s]
    BY <2>1, <2>2 DEF TicksTypeOK
  <2>4. Placed(r)'
    BY <2>1, <2>2, <2>3 DEF Placed
  <2>. QED BY <2>3, <2>4, PlaceKeeps
<1>. QED BY <1>1, <1>2, <1>3, <1>4, <1>5, <1>6 DEF Next

LEMMA PlaceInvariance ==
  ASSUME FromTheStart
  PROVE  Spec => []PlaceInv
<1>1. Init => PlaceInv
  BY DEF Init, PlaceInv, Placed
<1>. QED BY <1>1, TicksInvariance, PlaceNext, PTL DEF Spec

-----------------------------------------------------------------------------
(* What holds when no reader loses the one race: a request of the whole day  *)
(* never records the day as covered between the two steps in which another   *)
(* request reads some of its rows and asks whether they are enough           *)
(* (memory_store.go:163-195, market_data.go:535-543).  Run HistoryTicks_race *)
(* shows the race; that the readers of HistoryTicks_pages never run it, and  *)
(* so satisfy NoRace, is what makes its properties hold.                     *)
NoRace ==
  ~covered /\ covered' =>
    \A r \in Reader : at[r] = "check local" => page[r] \in {<<>>, Whole(r)}

(* A reader answers what the upstream has for its request: so is what it     *)
(* found cached, what it loaded, and, unless nothing was found, what it read *)
(* once the day was covered.                                                 *)
Right(r) ==
  /\ at[r] \in {"check cached", "put page"} => page[r] = Whole(r)
  /\ covered /\ at[r] = "check local" => page[r] \in {<<>>, Whole(r)}
  /\ Answered(r) => answer[r] = Whole(r)

CacheRight == \A k \in Keys : cache[k] # None => cache[k] = Upstream(k)

RightInv == CacheRight /\ \A r \in Reader : Right(r)

(* What a reader's request is answered with by the upstream.                 *)
LEMMA WholeIs ==
  ASSUME FromTheStart, NEW r \in Reader, asked[r] \in Requests[r]
  PROVE  /\ Whole(r) = First(Size(asked[r])) /\ Size(asked[r]) \in 0..Ticks
         /\ CacheKey(asked[r]) \in Keys /\ (asked[r].full => Size(asked[r]) = Ticks)
BY RequestIs, UpstreamIs DEF Whole

(* Ticks that are enough for a request are all that the upstream has for it  *)
(* (historyTicksCoverRequest).                                               *)
LEMMA CoveringIs ==
  ASSUME FromTheStart, TicksInv, PlaceInv, NEW r \in Reader, Right(r), at[r] = "check local",
         Covers(page[r], asked[r])
  PROVE  page[r] = Whole(r)
<1>1. asked[r] \in Requests[r]
  BY DEF TicksInv, TickReader
<1>2. PICK n \in 0..Size(asked[r]) : page[r] = First(n)
  BY DEF PlaceInv, Placed
<1>3. CASE covered
  BY <1>3 DEF Right, Covers
<1>4. CASE ~covered
  <2>1. ~asked[r].full /\ Len(page[r]) >= LocalLimit(asked[r])
    BY <1>4 DEF Covers
  <2>2. /\ LocalLimit(asked[r]) \in Nat /\ Size(asked[r]) \in 0..Ticks /\ Ticks \in Nat
        /\ Whole(r) = First(Size(asked[r]))
    BY <1>1, RequestIs, WholeIs, DayFacts
  <2>3. n \in Nat /\ Size(asked[r]) \in Nat /\ n <= Size(asked[r])
    BY <2>2, TickNumbers, UpTo
  <2>4. Len(page[r]) = n
    BY <1>2, <2>3, FirstIs
  <2>5. Size(asked[r]) = LocalLimit(asked[r]) \/ LocalLimit(asked[r]) > Ticks
    BY <2>1 DEF Size
  <2>6. n = Size(asked[r])
    <3>1. Size(asked[r]) <= Ticks
      BY <2>2, UpTo
    <3>. QED BY <2>1, <2>2, <2>3, <2>4, <2>5, <3>1, Squeezed
  <2>. QED BY <1>2, <2>2, <2>6
<1>. QED BY <1>3, <1>4

(* A step keeps it right if it keeps the cache and its reader right.         *)
LEMMA RightKeeps ==
  ASSUME RightInv, NEW r \in Reader, CacheRight', Right(r)', covered' /\ ~covered => NoRace,
         \A s \in Reader \ {r} : /\ at'[s] = at[s] /\ asked'[s] = asked[s] /\ page'[s] = page[s]
                                /\ answer'[s] = answer[s]
  PROVE  RightInv'
<1>1. ASSUME NEW s \in Reader \ {r} PROVE Right(s)'
  <2>1. /\ at'[s] = at[s] /\ asked'[s] = asked[s] /\ page'[s] = page[s]
        /\ answer'[s] = answer[s] /\ Right(s)
    BY DEF RightInv
  <2>2. Whole(s)' = Whole(s) /\ Size(asked[s])' = Size(asked[s])
    BY <2>1 DEF Whole, Size, LocalLimit
  <2>3. covered' /\ at[s] = "check local" => page[s] \in {<<>>, Whole(s)}
    BY <2>1 DEF NoRace, Right
  <2>. QED BY <2>1, <2>2, <2>3 DEF Right, Answered
<1>. QED BY <1>1 DEF RightInv

(* Steps after which the reader holds no ticks that it would answer with.    *)
LEMMA IdleRight ==
  ASSUME RightInv, NEW r \in Reader, CacheRight', covered' /\ ~covered => NoRace,
         \A s \in Reader \ {r} : /\ at'[s] = at[s] /\ asked'[s] = asked[s] /\ page'[s] = page[s]
                                /\ answer'[s] = answer[s],
         at'[r] \notin {"check cached", "check local", "put page"},
         answer'[r] \in {None, Failed} \/ (answer'[r] = Whole(r) /\ asked'[r] = asked[r])
  PROVE  RightInv'
<1>1. Right(r)'
  BY DEF Right, Answered, Whole
<1>. QED BY <1>1, RightKeeps

(* A request begins with what was cached for its key.                        *)
LEMMA ReadCacheRight ==
  ASSUME TicksInv, RightInv, NEW r \in Reader, NEW q \in Requests[r], ReadCache(r, q)
  PROVE  RightInv'
<1>1. /\ UNCHANGED <<cache, covered>> /\ CacheKey(q) \in Keys /\ TicksTypeOK
      /\ asked' = [asked EXCEPT ![r] = q] /\ answer' = [answer EXCEPT ![r] = None]
  BY DEF ReadCache, Keys, TicksInv
<1> DEFINE hit == ~q.force /\ cache[CacheKey(q)] # None
           p == IF q.force THEN "group" ELSE IF hit THEN "check cached" ELSE "query"
<1>2. /\ at' = [at EXCEPT ![r] = p]
      /\ page' = [page EXCEPT ![r] = IF hit THEN cache[CacheKey(q)] ELSE <<>>]
  BY DEF ReadCache
<1>3. /\ at'[r] \in {"group", "check cached", "query"} /\ (at'[r] = "check cached" => hit)
      /\ asked'[r] = q /\ answer'[r] = None /\ (hit => page'[r] = cache[CacheKey(q)])
  BY <1>1, <1>2 DEF TicksTypeOK
<1>4. hit => page'[r] = Whole(r)'
  BY <1>1, <1>3 DEF RightInv, CacheRight, Whole
<1>5. Right(r)' /\ CacheRight'
  <2>. HIDE DEF hit
  <2>. QED BY <1>1, <1>3, <1>4 DEF Right, Answered, RightInv, CacheRight
<1>6. \A s \in Reader \ {r} : /\ at'[s] = at[s] /\ asked'[s] = asked[s] /\ page'[s] = page[s]
                             /\ answer'[s] = answer[s]
  BY <1>1, <1>2 DEF TicksTypeOK
<1>. QED BY <1>1, <1>5, <1>6, RightKeeps

(* The cached page is checked, and answered if it is enough.                 *)
LEMMA CheckCachedRight ==
  ASSUME TicksInv, RightInv, NEW r \in Reader, CheckCached(r)
  PROVE  RightInv'
<1>1. /\ at[r] = "check cached" /\ UNCHANGED <<cache, covered, asked, page>>
      /\ \/ at' = [at EXCEPT ![r] = "idle"] /\ answer' = [answer EXCEPT ![r] = page[r]]
         \/ at' = [at EXCEPT ![r] = "query"] /\ UNCHANGED answer
  BY DEF CheckCached, Answer, GoTo
<1>2. Right(r) /\ CacheRight' /\ TicksTypeOK
  BY <1>1 DEF RightInv, CacheRight, TicksInv
<1>3. /\ at'[r] \in {"idle", "query"}
      /\ answer'[r] = page[r] \/ answer'[r] = answer[r]
      /\ \A s \in Reader \ {r} : /\ at'[s] = at[s] /\ asked'[s] = asked[s] /\ page'[s] = page[s]
                                /\ answer'[s] = answer[s]
  BY <1>1, <1>2 DEF TicksTypeOK
<1>4. answer'[r] \in {None, Failed} \/ (answer'[r] = Whole(r) /\ asked'[r] = asked[r])
  BY <1>1, <1>2, <1>3 DEF Right, Answered
<1>. QED BY <1>1, <1>2, <1>3, <1>4, IdleRight

(* The store is read: it has all that is asked for once the day is covered.  *)
LEMMA QueryLocalRight ==
  ASSUME FromTheStart, TicksInv, RightInv, NEW r \in Reader, QueryLocal(r)
  PROVE  RightInv'
<1>1. /\ at[r] = "query" /\ UNCHANGED <<cache, store, covered, asked, answer>>
      /\ page' = [page EXCEPT ![r] = QueryTicks(asked[r])]
      /\ at' = [at EXCEPT ![r] = "check local"]
  BY DEF QueryLocal, GoTo
<1>2. asked[r] \in Requests[r] /\ TicksTypeOK /\ Right(r) /\ CacheRight'
  BY <1>1 DEF TicksInv, TickReader, RightInv, CacheRight
<1>3. PICK n \in 0..Size(asked[r]) :
        QueryTicks(asked[r]) = First(n) /\ (covered => n = Size(asked[r]))
  <2>1. CASE covered
    <3>1. Has(Ticks) /\ Ticks \in 0..Ticks
      BY <2>1, DayFacts DEF TicksInv, StoreInv
    <3>. QED BY <1>2, <3>1, QueryIs
  <2>2. CASE ~covered
    <3>1. \E m \in 0..Ticks : Has(m)
      BY DEF TicksInv, StoreInv
    <3>. QED BY <1>2, <2>2, <3>1, QueryIs
  <2>. QED BY <2>1, <2>2
<1>4. /\ at'[r] = "check local" /\ page'[r] = First(n)
      /\ \A s \in Reader \ {r} : /\ at'[s] = at[s] /\ asked'[s] = asked[s] /\ page'[s] = page[s]
                                /\ answer'[s] = answer[s]
  BY <1>1, <1>2, <1>3 DEF TicksTypeOK
<1>5. Whole(r)' = Whole(r) /\ Size(asked[r])' = Size(asked[r])
  BY <1>1 DEF Whole, Size, LocalLimit
<1>6. covered => page'[r] = Whole(r)
  BY <1>2, <1>3, <1>4, WholeIs
<1>7. Right(r)'
  BY <1>1, <1>2, <1>3, <1>4, <1>5, <1>6 DEF Right, Answered
<1>. QED BY <1>1, <1>2, <1>4, <1>7, RightKeeps

(* The rows are checked.                                                     *)
LEMMA CheckLocalRight ==
  ASSUME FromTheStart, TicksInv, PlaceInv, RightInv, NEW r \in Reader, CheckLocal(r)
  PROVE  RightInv'
<1>1. /\ at[r] = "check local" /\ UNCHANGED <<cache, covered, asked, page, answer>>
      /\ at' = [at EXCEPT ![r] = IF Covers(page[r], asked[r]) THEN "put page" ELSE "group"]
  BY DEF CheckLocal, GoTo
<1>2. Right(r) /\ CacheRight' /\ TicksTypeOK
  BY <1>1 DEF RightInv, CacheRight, TicksInv
<1>3. /\ at'[r] \in {"put page", "group"} /\ (at'[r] = "put page" => page[r] = Whole(r))
      /\ \A s \in Reader \ {r} : at'[s] = at[s]
  BY <1>1, <1>2, CoveringIs DEF TicksTypeOK
<1>4. Whole(r)' = Whole(r)
  BY <1>1 DEF Whole
<1>5. Right(r)'
  BY <1>1, <1>2, <1>3, <1>4 DEF Right, Answered
<1>. QED BY <1>1, <1>2, <1>3, <1>5, RightKeeps

(* Steps of a reader between entering the group and storing what it loaded,  *)
(* and cancelled ones.                                                       *)
LEMMA LoadingRight ==
  ASSUME TicksInv, RightInv, NEW r \in Reader,
         EnterGroup(r) \/ Load(r) \/ GroupReturns(r) \/ PutMissing(r) \/ Cancelled(r)
  PROVE  RightInv'
<1>1. Right(r) /\ TicksTypeOK /\ TickReader(r)
  BY DEF RightInv, TicksInv
<1>2. UNCHANGED <<cache, asked>> /\ (covered' => covered)
  <2>1. UNCHANGED <<cache, asked>> /\ (UNCHANGED covered \/ PutMissing(r))
    BY DEF EnterGroup, Load, GroupReturns, PutMissing, Cancelled
  <2>2. CASE PutMissing(r)
    <3>1. covered' = Recorded(FALSE)
      BY <2>2 DEF PutMissing
    <3>2. covered' => covered
      BY <1>1, <3>1, HistoryAssumption DEF Recorded, TicksTypeOK
    <3>. QED BY <2>1, <3>2
  <2>3. CASE UNCHANGED covered
    BY <2>1, <2>3
  <2>. QED BY <2>1, <2>2, <2>3
<1>3. CASE EnterGroup(r) \/ Load(r)
  <2>1. UNCHANGED <<at, page, answer>> /\ at[r] = "group"
    BY <1>1, <1>3 DEF EnterGroup, Load, TickReader
  <2>. QED BY <1>1, <1>2, <2>1, IdleRight DEF Right, Answered, RightInv, CacheRight
<1>4. CASE GroupReturns(r) \/ PutMissing(r) \/ Cancelled(r)
  <2>1. /\ \/ at' = [at EXCEPT ![r] = "idle"] /\ answer' = [answer EXCEPT ![r] = Failed]
           \/ /\ at' = [at EXCEPT ![r] = "put missing"] \/ at' = [at EXCEPT ![r] = "put ticks"]
              /\ UNCHANGED answer
        /\ UNCHANGED page \/ page' = [page EXCEPT ![r] = Result(r)]
    BY <1>4 DEF GroupReturns, PutMissing, Cancelled, Answer, GoTo
  <2>2. /\ at'[r] \in {"idle", "put missing", "put ticks"}
        /\ answer'[r] = Failed \/ answer'[r] = answer[r]
        /\ \A s \in Reader \ {r} : at'[s] = at[s] /\ page'[s] = page[s] /\ answer'[s] = answer[s]
    BY <1>1, <2>1 DEF TicksTypeOK
  <2>3. answer'[r] \in {None, Failed} \/ (answer'[r] = Whole(r) /\ asked'[r] = asked[r])
    BY <1>1, <1>2, <2>2 DEF Right, Answered
  <2>4. CacheRight'
    BY <1>2 DEF RightInv, CacheRight
  <2>. QED BY <1>2, <2>2, <2>3, <2>4, IdleRight
<1>. QED BY <1>3, <1>4

(* What was loaded is stored, and the day may then be covered.               *)
LEMMA StoringRight ==
  ASSUME TicksInv, RightInv, NEW r \in Reader, PutTicks(r) \/ PutCoverage(r),
         covered' /\ ~covered => NoRace
  PROVE  RightInv'
<1>1. /\ at[r] \in {"put ticks", "put coverage"} /\ UNCHANGED <<cache, asked, page, answer>>
      /\ at' = [at EXCEPT ![r] = "put coverage"] \/ at' = [at EXCEPT ![r] = "put page"]
  BY DEF PutTicks, PutCoverage, GoTo
<1>2. Right(r) /\ TicksTypeOK /\ page[r] = Whole(r)
  BY <1>1 DEF RightInv, TicksInv, TickReader
<1>3. /\ at'[r] \in {"put coverage", "put page"}
      /\ \A s \in Reader \ {r} : at'[s] = at[s]
  BY <1>1, <1>2 DEF TicksTypeOK
<1>4. Whole(r)' = Whole(r) /\ CacheRight'
  BY <1>1 DEF Whole, RightInv, CacheRight
<1>5. Right(r)'
  BY <1>1, <1>2, <1>3, <1>4 DEF Right, Answered
<1>. QED BY <1>1, <1>3, <1>4, <1>5, RightKeeps

(* The answer is cached under the key of the request.                        *)
LEMMA PutPageRight ==
  ASSUME TicksInv, RightInv, NEW r \in Reader, PutPage(r)
  PROVE  RightInv'
<1>1. /\ at[r] = "put page" /\ UNCHANGED <<covered, asked, page>>
      /\ cache' = [cache EXCEPT ![CacheKey(asked[r])] = page[r]]
      /\ at' = [at EXCEPT ![r] = "idle"] /\ answer' = [answer EXCEPT ![r] = page[r]]
  BY DEF PutPage, Answer
<1>2. Right(r) /\ TicksTypeOK /\ page[r] = Whole(r)
  BY <1>1 DEF RightInv, TicksInv, Right
<1>3. /\ at'[r] = "idle" /\ answer'[r] = Whole(r) /\ asked'[r] = asked[r]
      /\ \A s \in Reader \ {r} : at'[s] = at[s] /\ answer'[s] = answer[s]
  BY <1>1, <1>2 DEF TicksTypeOK
<1>4. CacheRight'
  BY <1>1, <1>2 DEF RightInv, CacheRight, Whole, TicksTypeOK
<1>. QED BY <1>1, <1>3, <1>4, IdleRight

(* No step breaks it but one that runs the race.                             *)
LEMMA RightNext ==
  ASSUME FromTheStart, TicksInv, PlaceInv, RightInv, [Next]_vars, [NoRace]_vars
  PROVE  RightInv'
<1>1. CASE UNCHANGED vars
  <2>1. CacheRight'
    BY <1>1 DEF vars, RightInv, CacheRight
  <2>2. \A r \in Reader : Right(r)'
    BY <1>1 DEF vars, RightInv, Right, Answered, Whole, Size, LocalLimit
  <2>. QED BY <2>1, <2>2 DEF RightInv
<1>2. covered' /\ ~covered => NoRace
  BY DEF vars
<1>3. ASSUME NEW r \in Reader,
             \/ \E q \in Requests[r] : ReadCache(r, q)
             \/ CheckCached(r) \/ QueryLocal(r) \/ CheckLocal(r)
             \/ EnterGroup(r) \/ Load(r) \/ GroupReturns(r)
             \/ PutMissing(r) \/ PutTicks(r) \/ PutCoverage(r) \/ PutPage(r)
             \/ Cancelled(r)
      PROVE  RightInv'
  BY <1>2, <1>3, ReadCacheRight, CheckCachedRight, QueryLocalRight, CheckLocalRight, LoadingRight,
     StoringRight, PutPageRight
<1>4. ASSUME NEW k \in Keys, Expire(k) PROVE RightInv'
  <2>1. /\ UNCHANGED <<covered, at, asked, page, answer>> /\ TicksTypeOK
        /\ cache' = [cache EXCEPT ![k] = None]
    BY <1>4 DEF Expire, TicksInv
  <2>2. CacheRight'
    BY <2>1 DEF RightInv, CacheRight, TicksTypeOK
  <2>3. \A r \in Reader : Right(r)'
    BY <2>1 DEF RightInv, Right, Answered, Whole, Size, LocalLimit
  <2>. QED BY <2>2, <2>3 DEF RightInv
<1>. QED BY <1>1, <1>3, <1>4 DEF Next

LEMMA RightInvariance ==
  ASSUME FromTheStart
  PROVE  Spec /\ [][NoRace]_vars => []RightInv
<1>1. Init => RightInv
  BY DEF Init, RightInv, CacheRight, Right, Answered
<1>. QED BY <1>1, TicksInvariance, PlaceInvariance, RightNext, PTL DEF Spec

(* A full request is answered with the whole day, be it cached, stored or    *)
(* loaded, where the race of NoRace is not run (market_data.go:535-538).     *)
THEOREM FullAnswersHaveTheDay ==
  ASSUME FromTheStart
  PROVE  Spec /\ [][NoRace]_vars => []FullAnswersAreWhole
<1>1. TicksInv /\ RightInv => FullAnswersAreWhole
  <2> SUFFICES ASSUME TicksInv, RightInv, NEW r \in Reader, answer[r] \notin {None, Failed},
                      asked[r].full
               PROVE  ToSet(answer[r]) = Tick
    BY DEF FullAnswersAreWhole
  <2>1. answer[r] = Whole(r) /\ asked[r] \in Requests[r]
    BY DEF TicksInv, TickReader, RightInv, Right, Answered
  <2>2. answer[r] = First(Ticks) /\ Ticks \in Nat
    BY <2>1, WholeIs, DayFacts
  <2>3. ToSet(answer[r]) = 1..Ticks
    BY <2>2, FirstIs DEF ToSet
  <2>. QED BY <2>3, DayFacts
<1>. QED BY <1>1, TicksInvariance, RightInvariance, PTL

(* A page is answered with the ticks the upstream would have answered it     *)
(* with, where the race of NoRace is not run (market_data.go:539-543).       *)
THEOREM PagesAreAnsweredRight ==
  ASSUME FromTheStart
  PROVE  Spec /\ [][NoRace]_vars => []PageAnswersMatch
<1>1. RightInv => PageAnswersMatch
  BY DEF RightInv, Right, Answered, Whole, PageAnswersMatch
<1>. QED BY <1>1, RightInvariance, PTL

(* The race needs a request that may find some of its ticks stored and not   *)
(* all.  Here nobody asks for the whole day while another may look in the    *)
(* store for more than one tick; the readers of HistoryTicks_pages do not.   *)
OneTickBesideFull ==
  \A r, s \in Reader : r # s =>
    \A q \in Requests[r] : \A p \in Requests[s] :
      q.full /\ ~p.force => LocalLimit(p) = 1

(* Such readers do not run the race: what one of them holds when the day     *)
(* becomes covered is nothing or its one tick (market_data.go:218-225).      *)
THEOREM OneTickDoesNotRace ==
  ASSUME FromTheStart, OneTickBesideFull
  PROVE  Spec => [][NoRace]_vars
<1>1. ASSUME TicksInv, PlaceInv, Next, ~covered, covered',
             NEW s \in Reader, at[s] = "check local"
      PROVE  page[s] \in {<<>>, Whole(s)}
  <2>1. PICK r \in Reader : PutCoverage(r)
    BY <1>1 DEF Next, ReadCache, CheckCached, QueryLocal, CheckLocal, EnterGroup, Load,
               GroupReturns, PutMissing, PutTicks, PutPage, Cancelled, Expire, Recorded
  <2>2. /\ asked[r] \in Requests[r] /\ asked[s] \in Requests[s] /\ r # s
        /\ asked[r].full /\ ~asked[s].force
    BY <1>1, <2>1 DEF PutCoverage, TicksInv, TickReader, PlaceInv, Placed
  <2>3. LocalLimit(asked[s]) = 1
    BY <2>2 DEF OneTickBesideFull
  <2>4. PICK n \in 0..Size(asked[s]) : page[s] = First(n)
    BY <1>1 DEF PlaceInv, Placed
  <2>5. Whole(s) = First(Size(asked[s])) /\ Size(asked[s]) \in 0..Ticks /\ Ticks \in Nat
    BY <2>2, WholeIs, DayFacts
  <2>6. ~asked[s].full
    BY <2>2, <2>3, RequestIs
  <2>7. Size(asked[s]) = 1 \/ Size(asked[s]) = 0
    <3>1. Size(asked[s]) = IF 1 > Ticks THEN Ticks ELSE 1
      BY <2>3, <2>6 DEF Size
    <3>. QED BY <2>5, <3>1
  <2>8. n = 0 \/ n = Size(asked[s])
    BY <2>4, <2>7
  <2>. QED BY <2>4, <2>5, <2>8, FirstIs
<1>2. TicksInv /\ PlaceInv /\ [Next]_vars => [NoRace]_vars
  BY <1>1 DEF NoRace
<1>. QED BY <1>2, TicksInvariance, PlaceInvariance, PTL DEF Spec

(* So they are answered right, whatever else they race.                      *)
THEOREM AnswersBesideFullAreRight ==
  ASSUME FromTheStart, OneTickBesideFull
  PROVE  Spec => [](FullAnswersAreWhole /\ PageAnswersMatch)
BY OneTickDoesNotRace, FullAnswersHaveTheDay, PagesAreAnsweredRight, PTL
=============================================================================
