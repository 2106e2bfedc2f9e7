SPECIFICATION Spec
CONSTANTS
  MaxActs = 4
  MaxInputs = 5
  Mishaps = {"block", "quit", "signal"}
INVARIANTS TypeOK FrameChain ReturnsToLiveInput InputsMatchTexts FilesClosed PromptSurvives
CHECK_DEADLOCK FALSE
