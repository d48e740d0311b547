SPECIFICATION FairSpec
CONSTANTS
  NParsers = 1
  HWM = 1
  Burst = 2
  Modes = {FALSE}
  MaxEvents = 4
  MaxCommands = 1
PROPERTY QuitEnds
