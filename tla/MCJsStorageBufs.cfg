SPECIFICATION SafetySpec
CONSTANTS
  LocalCapacity = 2
  Capacity = 3
  MaxBufs = 3
  Below = {0}
  MaxFrames = 1
  MaxTimers = 1
  Mishaps = {}
INVARIANT ReadsAreCurrent
CHECK_DEADLOCK FALSE
