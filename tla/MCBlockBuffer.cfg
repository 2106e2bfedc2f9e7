SPECIFICATION Spec
CONSTANTS
  Volumes = {v1}
  NoVolume = NoVolume
  Contents = {c1}
  Blank = Blank
  Zeros = Garbage
  Junk = Garbage
  Torn = Garbage
  MaxBlock = 2
  MaxDepth = 3
  Faults = {"read", "write", "open", "signal"}
INVARIANTS TypeOK LoadsNested SuspendedAreSaved
PROPERTIES OnlyAssignedBlockChanges GrowsByBlanks
