SPECIFICATION Spec
CONSTANTS
  Stream <- ThreeEvents
  MaxDatagram = 4
  WordMod = 16
  FirstSeq = 35
  PAD = 8
  MAX_EVENT_SIZE = 4
  SocketBuffer = 2
  ReceiveBuffer = 5
  Lossy = TRUE
  MaxSwitches = 3
INVARIANTS
  TypeOK
  Reassembly
  WholeEvents
