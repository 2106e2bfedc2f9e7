SPECIFICATION CareSpec
CONSTANTS
  Volumes = {v1, v2}
  NoVolume = NoVolume
  Contents = {c1, c2}
  Blank = Blank
  Zeros = Garbage
  Junk = Garbage
  Torn = Garbage
  MaxBlock = 2
  MaxDepth = 3
  Faults = {}
  Nothing = Nothing
INVARIANTS CleanIsCurrent
PROPERTIES ImplementsStore

