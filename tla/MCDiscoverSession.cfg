\* A network that is just fast enough, and one that answers during the teardown.
SPECIFICATION FairSpec
CONSTANTS
  Reader = reader
  NoCallback = NoCallback
  s1 = s1
  s2 = s2
  Stations <- Adapters
  Networks <- SmallNetworks
  Delays <- FastAndSlow
  Wait = 3
  MaxFaults = 1
INVARIANTS
  TypeOK CompleteDiscovery NwInfoFollowsStation SocketOutlivesReader NothingLeftOpen
PROPERTY Terminates
