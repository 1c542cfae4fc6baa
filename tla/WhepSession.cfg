SPECIFICATION Spec
CONSTANTS
  Kinds <- MCKinds
  Modes <- MCModes
  Instants = {1, 2}
INVARIANTS DecodersOutliveCallbacks EndsClean
PROPERTIES FrozenIsNoticed StopEnds
