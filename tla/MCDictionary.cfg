CONSTANTS
  WORDLISTS = 2
  Addresses = {a1, a2, a3}
  Builtin = Builtin
  NULL = NULL
  End = 7
  MaxEnclosing = 1
  MaxRelease = 2
  Sessions = {{}, {"release", "quotation"}, {"break"}}
SPECIFICATION Spec
SYMMETRY Symmetry
CHECK_DEADLOCK FALSE
INVARIANTS TypeOK HiddenIsOpenUnbroken WordsBelowHere StopsStayLive
PROPERTIES MarkerRestores DiscardRestores
