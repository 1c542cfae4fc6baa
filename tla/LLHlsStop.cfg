SPECIFICATION FairSpec
CONSTANTS
  Modes = {"parts"}
  Window = 2
  Capacity = 2
  MaxErrors = 2
  MaxPart = 2
PROPERTY
  StopAlwaysCompletes
