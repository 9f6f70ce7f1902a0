SPECIFICATION MCSpec
CONSTANTS
  Ask = {"a", "b"}
  Job = {"1", "2"}
  Secs = 1
  Grace = 2
  Late = 1
  Horizon = 0
  Tasks = 2
  Inbound = 1
  Jobs = 2
  Files = 2
  Peer = {"p"}
  Permits = 1
  Commands = 2
CHECK_DEADLOCK FALSE
INVARIANTS Answerable InboundClosed
PROPERTIES QuestionsEnd CardsEnd
