SPECIFICATION Spec
CONSTANTS
  Main = m
  Followers = {f1}
  Base = 2
  Floor = 1
  MaxShift = 2
  SavedDelay = 0
  Paths <- AnyWay
  Delays = {1}
  Offsets = {1}
  MaxAsks = 2
PROPERTIES LinesUp SettlesUnlessOvertaken
