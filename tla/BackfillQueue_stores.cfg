SPECIFICATION FairSpec
CONSTANTS
  ticks = ticks
  bars = bars
  WorkKey <- TwoKeys
  Priority <- PriorityOfTwo
  Requester = {r1, r2}
  Worker = {w1, w2}
  MaxRetries = 2
  NoTask = NoTask
  Absent = Absent
  Waiting = Waiting
  Finished = Finished
INVARIANTS
  CreatedOnce
  ClaimIsExclusive
PROPERTIES
  TasksMoveForward
  TasksFinish
  ImplementsTaskQueue
CHECK_DEADLOCK FALSE
