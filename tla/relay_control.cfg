SPECIFICATION MCSpec
CONSTANTS
  Device = {"a", "b"}
  MaxDials = 2
  Backlog = 1
  Ports = 2
  MaxLost = 1
  Quitters = {"a"}
  Talkers = {"a"}
CHECK_DEADLOCK FALSE
PROPERTIES DeadUnlisted RosterRepaired
