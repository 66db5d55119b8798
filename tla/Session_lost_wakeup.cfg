SPECIFICATION Spec
CONSTANTS
  Session = {s1}
  Viewers = {s1}
  Publishers = {}
  QueueCap = 1
  MaxReleases = 0
PROPERTY FinishedSessionIsClosed
CHECK_DEADLOCK FALSE
