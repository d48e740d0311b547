SPECIFICATION Spec
CONSTANTS
  LengthMod = 32
  Formats = {0, 1}
  Inputs <- RawEvents
  Garbage = {{}, {3}}
  MaxEvents = 2
INVARIANTS
  TypeOK
  PointersLive
  RoundTrip
  DamageIsNoticed
  ForwardedAreCounted
  StructureRoundTrip
  GoodIsClean
PROPERTY
  Advances
