SPECIFICATION MCSpec
CONSTANTS
  MaxConns = 2
  MaxFails = 1
  MaxHeals = 1
  Device = {"a", "b"}
  Addr = {"home", "moved"}
  None = "none"
  MaxPort = 2
  MaxSessions = 2
  MaxPackets = 2
  Dev = {"a", "b"}
  Ghost = {"g"}
  Segment <- MCSegment
  Retry = 2
  Offline = 4
  Eviction = 2
  MaxTargets = 1
  Losses = 1
  Commands = 4
  Packet = {1, 2, 3}
  Stamp <- MCStamp
  Skew = 2
  Room = 2
  Horizon = 8
  Id = {1, 2, 3}
  Called <- MCCalled
  Alias <- MCAlias
  NoAlias = "-"
  Keeps = 1
  Stale = 2
  Address = {1, 2, 3}
  Relays = {2, 3}
  Rtts = {5, 50}
  Rates = {10, 100}
  DegradeAfter = 1
  RemoveAfter = 3
  Window = 2
  Prober = {"loop", "hand"}
  MaxGen = 2
  MaxTries = 3
CHECK_DEADLOCK FALSE
INVARIANTS DevicesKnown RoutingSound Watched PortsSound
PROPERTIES StaysListed TriesPaced
