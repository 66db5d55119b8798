SPECIFICATION Spec
CONSTANTS
  PacketSize = 188
  CcModulus = 4
  VersionModulus = 32
  ResendCount = 2
  PsiInterval = 2
  SparseThreshold = 0
  Pids = {"video", "audio", "audio2"}
  MisreadSize = 150
  Muxers <- MCMuxers
  Lens = {346}
  Steps = {1}
  MaxPushes = 4
  MaxLost = 2
INVARIANT AudioDamageIsContained
CHECK_DEADLOCK FALSE
