SPECIFICATION Spec
CONSTANTS
  Latency = {1, 2}
  MaxCalls = 5
INVARIANTS DisconnectStays
CHECK_DEADLOCK FALSE
