SPECIFICATION Spec
CONSTANTS
  Session = {s1}
  Viewers = {s1}
  Publishers = {s1}
  QueueCap = 1
  MaxReleases = 3
INVARIANTS Conservation
PROPERTIES DeadSessionIsFreed StopIsHeard
CHECK_DEADLOCK FALSE
