SPECIFICATION Spec
CONSTANTS
  NNodes = 2
  EXPIRY = 0
  IndexSize = 256
  Routes = {2}
  MaxRequests = 2
  MaxFaults = 1
INVARIANTS
  TypeOK
  MapMatchesDeque
  InSync
  BroadcastReaches
PROPERTY
  NodesFollow
