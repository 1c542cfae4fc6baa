SPECIFICATION FairSpec
CONSTANTS
  Kinds <- MCAllKinds
  Commands <- MCRefreshing
INVARIANTS
  TypeOK
  StoppedIsQuiescent
  DemuxerExclusive
PROPERTIES
  RefreshDone
  AttemptsGoOn
