SPECIFICATION FairAppSpec
CONSTANTS
  Builder = builder
  App = app
  Closer = {app}
  TimingOut = {app}
  Request = {web1, web2, rpc1}
  Rpc = {rpc1}
  Caller = {main, c1}
  Server = main
  Client = {web1, web2}
  Burst = 1
  Scale = 1
  MaxTime = 1
  MaxArrivals = 2
INVARIANTS
  CloseMeansClosed
  HandlersKeepResources
  ProviderBeforeStore
  ServeLeavesNothing
  RateIsLimited
  MetricsAddUp
PROPERTIES
  NotServedAfterClose
  LateProviderGetsClosed
  ShutdownCompletes
CHECK_DEADLOCK FALSE
