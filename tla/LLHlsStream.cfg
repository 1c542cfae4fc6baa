SPECIFICATION FairSpec
CONSTANTS
  Modes = {"prefetch", "hints"}
  Window = 1
  Capacity = 1
  MaxErrors = 1
  MaxPart = 3
INVARIANTS
  TypeOK
  WaitsForMissing
PROPERTIES
  StreamIsWhole
  SignalEndsThreads
  StopCompletes
