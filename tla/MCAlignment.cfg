CONSTANTS
  One = 1000
  MinMatchScore = 400
  MinConfidentScore = 600
  AmbiguityMargin = 70
  FirstVirtual = 4
  Phase = "after"
  Pairs <- MCPairs
SPECIFICATION Spec
INVARIANTS
  PotentialsCertify
  AssignmentIsMaximal
  RenumberingIsInvisible
CHECK_DEADLOCK FALSE
