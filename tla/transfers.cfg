SPECIFICATION MCSpec
CONSTANTS
  N = 3
  Pulls = 1
  Streams = {1, 2}
  Mode = "pull"
  InboundCap = 2
  Ctls = 1
  Edits = 1
  Faults = {"pause", "throttle", "cancel"}
  Peers = {"a"}
  Files = {"long", "short"}
  Size <- MCSize
  Hole = "hole"
  MaxPulls = 3
  Tries = 1
  Restarts = 0
  Mishaps = {"peerRestart", "gcWhileRunning", "destroy", "push"}
  Cards = 1
  Dirs = 1
  HistoryCap = 0
  Commands = 1
  Failures = 1
  Rebuilds = 1
  Job = {"j", "k"}
  Inboxes = {"A"}
  Down = "down"
  Private = "private"
  Nowhere = "nowhere"
  ByPolicy = {"k"}
  History = 1
  Reopens = 1
  Wishes = 3
  Errand = {1, 2, 3, 4, 5}
  Kind <- MCKind
  SmallOf <- MCSmall
  LargeOf <- MCLarge
  CardOf <- MCCardOf
  Plain = {1}
  Meet = {{1, 2}, {1, 5}, {3}, {4}}
  Cancels = 1
CHECK_DEADLOCK FALSE
INVARIANTS PipelineSound BatchSound TablesSound
PROPERTIES RestartKeeps
