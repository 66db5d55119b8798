SPECIFICATION Spec
CONSTANTS
  PacketSize = 188
  CcModulus = 4
  VersionModulus = 32
  ResendCount = 2
  PsiInterval = 2
  SparseThreshold = 0
  Pids = {"video", "audio", "audio2"}
  MisreadSize = 280
  Muxers <- MCManyStreams
  Lens = {346}
  Steps = {1}
  MaxPushes = 6
  MaxLost = 1
INVARIANT WholeTablesAreUsed
CHECK_DEADLOCK FALSE
