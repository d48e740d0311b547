SPECIFICATION Spec
CONSTANTS
  runid = 1
  TagNumber <- NoTagNumber
  event_file_size = 1
  event_dir_size = 5
  Sizes = {1, 2}
  MaxSize = 2
  SizeMod = 16
  Garbage <- SomeGarbage
  Faults = {}
  Remote = FALSE
  Overlap = FALSE
  MaxRuns = 2
  MaxEvents = 4
  MaxEpochs = 0
INVARIANTS
  TypeOK
  FreshDirectory
  Writable
  FileBound
  CountedIsStored
PROPERTIES
  StartIsFresh
