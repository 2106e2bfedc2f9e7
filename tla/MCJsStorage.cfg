SPECIFICATION Spec
CONSTANTS
  LocalCapacity = 2
  Capacity = 3
  MaxBufs = 2
  Below = {0}
  MaxFrames = 1
  MaxTimers = 1
  Mishaps = {"absent", "broken", "number", "readonly"}
INVARIANTS TypeOK MappedBack ReadsAreCurrent LatestIsHeld WatchdogPerRequest SomethingWakes
PROPERTIES ReaderResumes
CHECK_DEADLOCK FALSE
