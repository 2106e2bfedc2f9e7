SPECIFICATION Spec
CONSTANTS
  StackCells = {0, 3}
  MaxDepth = 6
  MaxReturn = 2
  FloatNumbers <- MCNumbers
  FloatCells <- MCCells
  FloatBits = 3
  MaxItems = 3
  MaxHere = 1
  MaxCode = 8
  MaxOpen = 6
  ChunkSizes = {1, 4}
  HeapCells = 18
  LineLen = 2
  Lines = 2
  Keys = {"a", "b"}
  Typed <- MCTyped
  TibSize = 3
  MathBits = 6
  Mantissa = 9
  Corners <- MCCorners
  Radixes = {2, 10, 16}
  Names = {"a", "b"}
  MaxHeads = 2
  MaxVocs = 1
  MaxOrder = 2
  Strings = {1}
  BlockTexts = {0, 1}
  TextLen = 2
  MaxNested = 6
  MaxSaved = 4
INVARIANTS
  LandsOnWords
  LoopsUnwound
  HeapTiled
  ChunksNumbered
  FreeMerged
  ScreenCounted
  EchoIsInput
  SinglesExact
  DoublesExact
  NumbersReadBack
PROPERTIES
  StackEffectsHold
  FloatEffectsHold
  MarkersForget
  SourceReturns
CHECK_DEADLOCK FALSE
