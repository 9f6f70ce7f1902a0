SPECIFICATION MCSpec
CONSTANTS
  N = 2
  Pulls = 2
  Streams = {1, 2}
  Mode = "pull"
  InboundCap = 1
  Ctls = 1
  Edits = 1
  Faults = {"cancel", "disconnect", "rpcTimeout"}
  Peers = {"a"}
  Files = {"long", "short", "empty"}
  Size <- MCSize
  Hole = "hole"
  MaxPulls = 3
  Tries = 2
  Restarts = 1
  Mishaps = {"torn", "rmdirFails"}
  Task = {1, 2, 3, 4, 5, 6, 7, 8}
  Op <- MCOp
  Name = {1, 2, 3}
  AtStart = {1, 2}
  PageSize = 1
  Permits = 1
  CtrlCap = 1
  FolderEdits = 1
  Drops = 1
  Together = {{1, 2, 5}, {3, 6}, {4, 6}, {2, 7, 8}}
  Share = {1, 2}
  Revisions = 2
CHECK_DEADLOCK FALSE
INVARIANTS BitmapSound LandedIntact AckAfterLanding PartsSound RemoteSound
PROPERTIES RowOutcomeFinal DeliversFile PartsKept DeleteAllowed WatchSound
