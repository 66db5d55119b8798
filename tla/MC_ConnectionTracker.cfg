SPECIFICATION Spec
CONSTANTS
  Conn = {c1, c2, c3, c4}
  Prefix = {0}
  Host = {0, 1}
  ZeroHost = 0
  MaxPerIp = 2
  MaxSessions = 3
  NoLimit = NoLimit
  NoAddr = NoAddr
INVARIANTS Accounting
PROPERTIES PoolSpec
