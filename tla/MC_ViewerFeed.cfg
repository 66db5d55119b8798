SPECIFICATION Spec
CONSTANTS
  Viewer = {v1}
  Capacity = 6
  MaxPerTick = 3
  Unit = 2
  Rate = 1
  DefaultRate = 2
  Overhead = 1
  Estimates = {0, 1, 2}
INVARIANTS StartsAtTheLiveEdge
PROPERTIES ViewersAreLetGo BacklogInRingShrinks
CHECK_DEADLOCK FALSE
