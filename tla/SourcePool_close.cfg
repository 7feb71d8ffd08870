SPECIFICATION ScheduledSpec
CONSTANTS
  NumHosts = 2
  NumClients <- TwoHosts
  FailureThreshold = 1
  HalfOpenSuccessThreshold = 1
  OpenTimeout = 1
  Worker = {w1, w2}
  Closer = {k1, k2}
  Background = bg
  NoLease = NoLease
  Free = Free
  Gone = Gone
  MaxTime = 1
  MaxGeneration = 1
  MaxFailures = 1
INVARIANTS
  ClosedOnceDrained
PROPERTIES
  ImplementsLeasePool
  TurnComesCloser
  CloseCompletes
  CancelReturns
