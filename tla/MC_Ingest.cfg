SPECIFICATION Spec
CONSTANTS
  Conn = {"c1", "c2", "c3"}
  SocketsOf <- MCSocketsOf
  Publisher = {"p1", "p2"}
  StreamIdsOf <- MCStreamIdsOf
  Filter = "live"
  Default = "default"
  NoId = "noid"
  None = "none"
  Pid = {"a", "b"}
  NoPid = "nopid"
  Files <- MCFiles
  ChunkPackets = 2
  CcModulus = 3
  MaxLoops = 2
INVARIANTS EverySocketIsHeld GapsOnlyAtLoops
PROPERTIES PublisherComesBack NameIsFreed
CHECK_DEADLOCK FALSE
