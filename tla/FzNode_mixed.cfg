SPECIFICATION Spec
CONSTANTS
  NParsers = 1
  HWM = 1
  Burst = 2
  Modes = {FALSE}
  MaxEvents = 2
  MaxCommands = 3
INVARIANT StoredInItsRun
