SPECIFICATION FairSpec
CONSTANTS
  a = a
  b = b
  Device = {a, b}
  None = None
  MaxConns = 1
  MaxCodes = 1
  MaxTyped = 1
  MaxUpsets = 1
  MaxFails = 2
CHECK_DEADLOCK FALSE
PROPERTY TrustBrokenHeard
