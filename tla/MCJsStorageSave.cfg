SPECIFICATION SafetySpec
CONSTANTS
  LocalCapacity = 2
  Capacity = 3
  MaxBufs = 2
  Below = {0}
  MaxFrames = 1
  MaxTimers = 1
  Mishaps = {}
INVARIANT UpdatedIsFound
CHECK_DEADLOCK FALSE
