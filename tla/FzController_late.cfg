SPECIFICATION Spec
CONSTANTS
  NNodes = 2
  EXPIRY = 1
  IndexSize = 256
  Routes = {2}
  MaxRequests = 2
  MaxFaults = 1
INVARIANT FailedIsNotDone
