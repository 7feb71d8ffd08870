SPECIFICATION FairSpec
CONSTANTS
  Builder = builder
  Closer = {k1, k2}
  TimingOut = {k1, k2}
  Request = {r1, r2}
PROPERTIES
  ProviderGetsClosed
CHECK_DEADLOCK FALSE
