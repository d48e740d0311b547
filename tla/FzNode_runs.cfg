SPECIFICATION FairSpec
CONSTANTS
  NParsers = 1
  HWM = 1
  Burst = 2
  Modes = {TRUE, FALSE}
  MaxEvents = 4
  MaxCommands = 2
INVARIANTS
  TypeOK
  EventsConserved
  LateBounded
PROPERTY
  Flows
