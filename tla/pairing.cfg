SPECIFICATION Spec
CONSTANTS
  a = a
  b = b
  Device = {a, b}
  None = None
  MaxConns = 2
  MaxCodes = 1
  MaxTyped = 2
  MaxUpsets = 1
  MaxFails = 2
SYMMETRY Symmetry
CHECK_DEADLOCK FALSE
INVARIANTS SessionHasLoop GateArmed TrustMutual
PROPERTIES NewestKept
