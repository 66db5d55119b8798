SPECIFICATION Spec
CONSTANTS
  Name = {n1}
  Bc = {t1, t2, e1}
  Embedded = {e1}
  Endless = {e1}
  Viewer = {v1}
  MaxViewers = 1
  None = None
PROPERTY ShutdownSignalsEvery
CHECK_DEADLOCK FALSE
