SPECIFICATION PSpec
CONSTANTS
  Peers = {"a"}
  Files = {"long", "short"}
  Size <- MCSize
  Hole = "hole"
  MaxPulls = 2
  Tries = 1
  Restarts = 0
  Mishaps = {"peerRestart"}
CHECK_DEADLOCK FALSE
INVARIANTS NoForeignTail
