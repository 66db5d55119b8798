SPECIFICATION Spec
CONSTANTS
  Latency = {1, 2}
  MaxCalls = 5
INVARIANTS OnlyDeadSessionsAreReplaced RunsAtSetLatency HandleIsTruthful
PROPERTIES SessionComesBack
CHECK_DEADLOCK FALSE
