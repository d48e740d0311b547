SPECIFICATION Spec
CONSTANTS
  MaxCli = 2
  MaxEcc = 5
  MaxEpics = 1
  MaxLate = 2
INVARIANTS
  TypeOK
  OkIsDone
  EccInStep
CHECK_DEADLOCK FALSE
