SPECIFICATION Spec
CONSTANTS
  Device = {"a", "b"}
  MaxDials = 2
  Backlog = 1
  Ports = 2
  MaxLost = 1
  Quitters = {"a"}
  Talkers = {}
CHECK_DEADLOCK FALSE
INVARIANT BackgroundServes
