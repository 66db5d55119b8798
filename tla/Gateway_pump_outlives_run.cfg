SPECIFICATION Spec
CONSTANTS
  Conn = {c1, c2}
  Name = {n1}
  Source = {obs}
  None = None
INVARIANT NoPumpOutlivesRun
CHECK_DEADLOCK FALSE
