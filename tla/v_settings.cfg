SPECIFICATION RSpec
CONSTANTS
  MaxClients = 3
  Refusals = 0
CHECK_DEADLOCK FALSE
PROPERTIES CommandsEnd
