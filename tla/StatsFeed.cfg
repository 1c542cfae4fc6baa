SPECIFICATION Spec
CONSTANTS
  Clients = {c1}
  QueueCap = 1
  Sources = {s1}
  StatsValues = {1}
  MaxBusy = 2
PROPERTY PanelCatchesUp
CHECK_DEADLOCK FALSE
