SPECIFICATION Spec
CONSTANTS
  GapThreshold = 1
  GapMatch = 2
  AudioSlack = 2
  MaxSpan = 3
  MaxBytes = 5
  None = None
  MaxTime = 6
  MaxSkew = 2
  Loss = 2
  MaxLosses = 1
  Pauses = {"audio"}
INVARIANTS
  WithinLimits
  NoSmearAfterGap
PROPERTY
  CutsPastGaps
