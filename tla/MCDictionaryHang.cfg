CONSTANTS
  WORDLISTS = 2
  Addresses = {a1, a2, a3}
  Builtin = Builtin
  NULL = NULL
  End = 7
  MaxEnclosing = 1
  MaxRelease = 2
  Sessions = {{}}
SPECIFICATION Spec
SYMMETRY Symmetry
CHECK_DEADLOCK FALSE
INVARIANT NeverHung
