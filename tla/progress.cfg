SPECIFICATION MCSpec
CONSTANTS
  Offered = {"x"}
  PeerOf <- MCPeerOf
  NoFile = "nofile"
  Cards = 2
  Pulls = 2
  Permits = 2
  Commands = 2
  CtlCap = 2
  Restarts = 1
  Offer = {1, 2, 3}
  WithNew = {2, 3}
  WithHeld = {1, 3}
  WithLarge = {3}
CHECK_DEADLOCK FALSE
INVARIANTS CardsSound OneWriterPerDir PushTruthful
PROPERTIES TransfersEnd
