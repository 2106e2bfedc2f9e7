SPECIFICATION EdSpec
CONSTANTS
  Volumes = {v1}
  NoVolume = NoVolume
  Contents = {c1, c2}
  Blank = Blank
  Zeros = Garbage
  Junk = Garbage
  Torn = Garbage
  MaxBlock = 2
  MaxDepth = 1
  Faults = {}
  Unedited = Unedited
INVARIANTS EditsReachTheFile
