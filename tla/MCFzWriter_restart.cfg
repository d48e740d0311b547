SPECIFICATION Spec
CONSTANTS
  runid = 1
  TagNumber <- NoTagNumber
  event_file_size = 1
  event_dir_size = 2
  Sizes = {2}
  MaxSize = 2
  SizeMod = 16
  Garbage = {7}
  Faults = {"mkdir", "open", "write"}
  Remote = TRUE
  Overlap = TRUE
  MaxRuns = 2
  MaxEvents = 1
  MaxEpochs = 2
INVARIANTS
  EpochsApart
