SPECIFICATION MCSpec
CONSTANTS
  Device = {"a", "b", "c"}
  None = "none"
  MaxPort = 2
  MaxTokens = 2
  MaxCalls = 3
  MaxActive = 2
  PerIp = 1
  AuthMax = 2
  Ip = {"i", "j"}
  Peer = {"a", "b", "c"}
  Hidden = {}
  MaxPunches = 2
  MaxClients = 3
  Refusals = 1
CHECK_DEADLOCK FALSE
INVARIANTS TokensCurrent PortOwned SlotsExact CallsSound ClientSound
PROPERTIES RelayLive
