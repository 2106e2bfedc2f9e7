SPECIFICATION Spec
CONSTANTS
  MaxActs = 2
  MaxInputs = 3
  Mishaps = {"block"}
PROPERTIES CatchRestoresInput
CHECK_DEADLOCK FALSE
