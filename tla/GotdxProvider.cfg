SPECIFICATION FairSpec
CONSTANTS
  h1 = h1
  h2 = h2
  NoHost = NoHost
  MaxHosts = 1
  PoolOrder <- ThreeKinds
  ConfigHosts <- Hosts
  ClientsPerHost <- Clients
  Worker = {w1, w2}
  Asked = {"kline", "mac"}
  Reply <- Replies
  BarDays <- DaysOfBars
  MaxPages = 2
INVARIANTS
  HostsChosen
  ConnectionsOwned
  PreviousDayIsLatest
PROPERTIES
  RequestsReturn
  ConnectionsGetClosed
CHECK_DEADLOCK FALSE
