CONSTANTS
  Registers = {r3, r4}
  Length = 4
  Odd = 1
  Blocks <- MCBlocks
  LiveOuts <- MCLiveOuts
  MinImmediate <- MCMinImmediate
  MaxImmediate = 1
SPECIFICATION Spec
SYMMETRY Symmetry
INVARIANTS
  FoldsAreSound
  InferenceErrsOneWay
  TraceDecidesTheFirstFold
CHECK_DEADLOCK FALSE
