SPECIFICATION MonitorFairSpec
CONSTANTS
  NNodes = 2
  EXPIRY = 0
  IndexSize = 256
  Routes = {}
  MaxRequests = 0
  MaxFaults = 1
  Readers = {1, 2}
  Writers = {2}
  Limits = {19, 20}
  MaxStrays = 1
INVARIANTS
  PostsFit
  OneRowEach
PROPERTIES
  GoneNodesLeave
