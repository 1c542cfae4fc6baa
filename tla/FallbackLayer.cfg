SPECIFICATION Spec
CONSTANTS
  States = {"loading", "disconnected"}
  Kinds = {"card", "video"}
  Preloaded = {"card"}
  Contents = {1, 2, 3}
  Steps = 2
  MaxTasks = 3
INVARIANT CountsBalance
PROPERTY EndsInPlace
