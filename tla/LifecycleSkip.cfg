SPECIFICATION FairSpec
CONSTANTS
  Kinds <- MCAllKinds
  Commands <- MCSkipping
INVARIANTS
  StopHeard
  WatchdogSparesNewConnection
PROPERTIES
  StopCompletes
  SkipTaken
