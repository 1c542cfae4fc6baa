SPECIFICATION Spec
CONSTANTS
  Sockets = {c1, c2}
  Local = {c2}
  MaxClients = 1
  MaxBatch = 1
  Sources = {s1}
  Names = {n1, n2}
  Keys = {k1}
INVARIANTS TypeOK SendsToOpenSockets NoCallIntoTheGone KeyIsCurrent
PROPERTY StopReturns
CHECK_DEADLOCK FALSE
