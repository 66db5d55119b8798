SPECIFICATION Spec
CONSTANTS
  Conn = {c1, c2}
  Name = {n1}
  Source = {obs}
  None = None
INVARIANTS NothingSlipsThrough
PROPERTIES FirstWins DeadSessionsAreReleased RunReturns ShutdownReleasesAll
CHECK_DEADLOCK FALSE
