SPECIFICATION FairSpec
CONSTANTS
  MaxEra = 2
  MaxMedia = 3
  MaxFrames = 1
  Delay = 1
  None = None
INVARIANTS
  TypeOK
  BuffersAreCurrent
  SubmitEndsBeforeReset
  AtMostOneStray
PROPERTIES
  ResetReturns
  ImplementsGate
