--------------------------- MODULE BackfillQueue ---------------------------
(***************************************************************************)
(* The backfill task queue of history.MemoryStore and storage.SQLStore.    *)
(* Requests that find a gap enqueue a task; workers claim the best waiting *)
(* task and report how it went.                                            *)
(*                                                                         *)
(* The in-memory store does every operation under its mutex.  The SQL      *)
(* store does its statements one by one: Enqueue selects and then inserts, *)
(* and Next is one UPDATE on PostgreSQL but a SELECT and an UPDATE on      *)
(* SQLite and MySQL.  The repository has no worker yet; the workers here   *)
(* call Next and Update as the store's tests do.                           *)
(***************************************************************************)
EXTENDS Naturals

CONSTANTS
  Requester,   \* goroutines and instances that call Enqueue
  Worker,      \* those that call Next and Update
  WorkKey,     \* dataset, symbol, range, period and adjustment of a task
  Priority,    \* the priority each work key is enqueued with
  MaxRetries,  \* how often a worker asks for one more try
  NoTask

Status == {"pending", "running", "success", "failed", "retrying"}

(* The stores; "sqlite" stands for MySQL too.                                *)
Dialect == {"memory", "postgres", "sqlite"}

Task == [status : Status, retries : Nat, born : Nat]
Asked == [key : WorkKey, born : Nat]
Copy == [key : WorkKey, row : Task]

ASSUME QueueAssumption ==
  /\ Priority \in [WorkKey -> Nat]
  /\ MaxRetries \in Nat
  /\ NoTask \notin Task \cup Asked \cup Copy

VARIABLES
  dialect,     \* the store in use, which does not change
  task,        \* the stored task of each work key, or NoTask
  clock,       \* time.Now, which no two tasks share
  asking,      \* the work a requester is about to insert, and when it asked
  created,     \* how many calls of Enqueue were told they created the task
  doing,       \* what each worker does
  copy         \* the task a worker read, and its work key

queueVars == <<dialect, task, clock, asking, created, doing, copy>>

QueueInit ==
  /\ dialect \in Dialect
  /\ task = [k \in WorkKey |-> NoTask]
  /\ clock = 0
  /\ asking = [r \in Requester |-> NoTask]
  /\ created = [k \in WorkKey |-> 0]
  /\ doing = [w \in Worker |-> "idle"]
  /\ copy = [w \in Worker |-> NoTask]

-----------------------------------------------------------------------------
(* Enqueue.                                                                  *)

NewTask(t) == [status |-> "pending", retries |-> 0, born |-> t]

Insert(k, t) ==
  /\ task' = [task EXCEPT ![k] = NewTask(t)]
  /\ created' = [created EXCEPT ![k] = @ + 1]

(* The store's mutex covers the lookup and the insertion.                    *)
EnqueueLocked(k) ==
  /\ dialect = "memory" /\ task[k] = NoTask
  /\ Insert(k, clock) /\ clock' = clock + 1
  /\ UNCHANGED <<dialect, asking, doing, copy>>

(* The first SELECT of the SQL store finds nothing; a caller that finds the  *)
(* task is answered with it, and changes nothing.                            *)
EnqueueSelect(r, k) ==
  /\ dialect # "memory" /\ asking[r] = NoTask /\ task[k] = NoTask
  /\ asking' = [asking EXCEPT ![r] = [key |-> k, born |-> clock]]
  /\ clock' = clock + 1
  /\ UNCHANGED <<dialect, task, created, doing, copy>>

EnqueueInsert_Upserts(r) ==
  /\ asking[r] # NoTask
  /\ Insert(asking[r].key, asking[r].born)
  /\ asking' = [asking EXCEPT ![r] = NoTask]
  /\ UNCHANGED <<dialect, clock, doing, copy>>

EnqueueInsert_KeepsTask(r) ==
  /\ asking[r] # NoTask
  /\ created' = [created EXCEPT ![asking[r].key] = @ + 1]
  /\ task' = IF task[asking[r].key] # NoTask THEN task
             ELSE [task EXCEPT ![asking[r].key] = NewTask(asking[r].born)]
  /\ asking' = [asking EXCEPT ![r] = NoTask]
  /\ UNCHANGED <<dialect, clock, doing, copy>>

(* The INSERT meets the unique index over the work key: the loser of a race  *)
(* is answered with the task that got there first.                           *)
EnqueueInsert(r) ==
  /\ asking[r] # NoTask
  /\ IF task[asking[r].key] = NoTask
     THEN Insert(asking[r].key, asking[r].born)
     ELSE UNCHANGED <<task, created>>
  /\ asking' = [asking EXCEPT ![r] = NoTask]
  /\ UNCHANGED <<dialect, clock, doing, copy>>

-----------------------------------------------------------------------------
(* Next and Update.                                                          *)

WaitingTasks_PendingOnly ==
  {k \in WorkKey : task[k] # NoTask /\ task[k].status = "pending"}

WaitingTasks_Unfinished ==
  {k \in WorkKey : /\ task[k] # NoTask
                   /\ task[k].status \in {"pending", "retrying", "running"}}

WaitingTasks ==
  {k \in WorkKey : /\ task[k] # NoTask
                   /\ task[k].status \in {"pending", "retrying"}}

(* Highest priority first, then the oldest.                                  *)
Best(k) ==
  /\ k \in WaitingTasks
  /\ \A j \in WaitingTasks \ {k} :
       \/ Priority[j] < Priority[k]
       \/ Priority[j] = Priority[k] /\ task[k].born < task[j].born

Read(w, k) == copy' = [copy EXCEPT ![w] = [key |-> k, row |-> task[k]]]

(* Next in one step: under the mutex, or UPDATE .. FOR UPDATE SKIP LOCKED.   *)
NextClaims(w) ==
  /\ dialect # "sqlite" /\ doing[w] = "idle"
  /\ \E k \in WorkKey :
       /\ Best(k) /\ Read(w, k)
       /\ task' = [task EXCEPT ![k].status = "running"]
  /\ doing' = [doing EXCEPT ![w] = "working"]
  /\ UNCHANGED <<dialect, clock, asking, created>>

(* Next in two: the SELECT ..                                                *)
NextSelects(w) ==
  /\ dialect = "sqlite" /\ doing[w] = "idle"
  /\ \E k \in WorkKey : Best(k) /\ Read(w, k)
  /\ doing' = [doing EXCEPT ![w] = "claiming"]
  /\ UNCHANGED <<dialect, task, clock, asking, created>>

(* Update writes the whole row from the caller's copy, whatever it is now.   *)
Store(w, status, retries) ==
  task' = [task EXCEPT ![copy[w].key] =
             [copy[w].row EXCEPT !.status = status, !.retries = retries]]

(* .. and the UPDATE.                                                        *)
NextUpdates(w) ==
  /\ doing[w] = "claiming"
  /\ Store(w, "running", copy[w].row.retries)
  /\ doing' = [doing EXCEPT ![w] = "working"]
  /\ UNCHANGED <<dialect, clock, asking, created, copy>>

(* Update returns.                                                           *)
Done(w) ==
  /\ doing' = [doing EXCEPT ![w] = "idle"]
  /\ copy' = [copy EXCEPT ![w] = NoTask]
  /\ UNCHANGED <<dialect, clock, asking, created>>

Finish(w, status) ==
  /\ doing[w] = "working" /\ status \in {"success", "failed"}
  /\ Store(w, status, copy[w].row.retries)
  /\ Done(w)

(* A worker leaves the task to be tried again; Next does not look at         *)
(* next_retry_time.                                                          *)
Retry(w) ==
  /\ doing[w] = "working" /\ copy[w].row.retries < MaxRetries
  /\ Store(w, "retrying", copy[w].row.retries + 1)
  /\ Done(w)

-----------------------------------------------------------------------------

WorkerStep(w) ==
  \/ NextClaims(w) \/ NextSelects(w) \/ NextUpdates(w) \/ Retry(w)
  \/ \E status \in Status : Finish(w, status)

QueueNext ==
  \/ \E k \in WorkKey : EnqueueLocked(k)
  \/ \E r \in Requester : EnqueueInsert(r) \/ \E k \in WorkKey : EnqueueSelect(r, k)
  \/ \E w \in Worker : WorkerStep(w)

QueueSpec == QueueInit /\ [][QueueNext]_queueVars

(* Workers keep calling Next, and what they work on ends.                    *)
FairSpec == QueueSpec /\ \A w \in Worker : WF_queueVars(WorkerStep(w))

-----------------------------------------------------------------------------
(* Tasks, copies and counters have their shape.                              *)
QueueTypeOK ==
  /\ dialect \in Dialect
  /\ task \in [WorkKey -> Task \cup {NoTask}]
  /\ clock \in Nat
  /\ asking \in [Requester -> Asked \cup {NoTask}]
  /\ created \in [WorkKey -> Nat]
  /\ doing \in [Worker -> {"idle", "claiming", "working"}]
  /\ copy \in [Worker -> Copy \cup {NoTask}]
  /\ \A w \in Worker : doing[w] = "idle" <=> copy[w] = NoTask

(* However many requests meet the same gap at once, one of them is told it   *)
(* created the task (memory_store.go:300-314, sql_store.go:464-499).         *)
CreatedOnce == \A k \in WorkKey : created[k] = IF task[k] = NoTask THEN 0 ELSE 1

ClaimsInOneStep == dialect # "sqlite"

Exclusive ==
  \A w \in Worker : doing[w] = "working" =>
    /\ task[copy[w].key].status = "running"
    /\ \A v \in Worker \ {w} :
         doing[v] = "working" => copy[v].key # copy[w].key

(* In memory and on PostgreSQL no two workers work on the same task, and the *)
(* stored task says that it is running for as long as one does               *)
(* (memory_store.go:322-343, sql_store.go:530-552).                          *)
ClaimIsExclusive == ClaimsInOneStep => Exclusive

(* A task is never lost, and keeps its place in the queue.  Where claims are *)
(* exclusive it is not forgotten either: once finished it stays as it is,    *)
(* and its tries are never counted back (memory_store.go:300-314, 346-363,   *)
(* sql_store.go:464-499, 555-580).                                           *)
TasksMoveForward ==
  [][\A k \in WorkKey : task[k] # NoTask =>
       /\ task'[k] # NoTask /\ task'[k].born = task[k].born
       /\ ClaimsInOneStep =>
            /\ task[k].status \in {"success", "failed"} => task'[k] = task[k]
            /\ task'[k].retries >= task[k].retries]_queueVars

(* Every task that is enqueued is finished, even when low priorities meet    *)
(* retries of higher ones, or Next hands a task out twice                    *)
(* (memory_store.go:317-363, sql_store.go:503-580).                          *)
TasksFinish ==
  \A k \in WorkKey :
    task[k] # NoTask ~> task[k] # NoTask /\ task[k].status \in {"success", "failed"}
=============================================================================
