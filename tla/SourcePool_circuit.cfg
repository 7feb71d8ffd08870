SPECIFICATION Spec
CONSTANTS
  NumHosts = 1
  NumClients <- OneHostTwoClients
  FailureThreshold = 2
  HalfOpenSuccessThreshold = 2
  OpenTimeout = 1
  Worker = {w1, w2, w3}
  Closer = {}
  Background = bg
  NoLease = NoLease
  Free = Free
  Gone = Gone
  MaxTime = 3
  MaxGeneration = 2
  MaxFailures = 3
SYMMETRY WorkerSymmetry
INVARIANTS
  LeaseExclusive
  InFlightCounts
  ProbeIsAlone
  NoLostWakeup
PROPERTIES
  LeaseRespectsCircuit
  CircuitMoves
