CONSTANTS
    NPhys = 4
    RegCount = 8
    NBlocks = 1
    LastVolatile = 0
    FirstSaved = 2
    SavedFloor = 1
    InitialColors = {0}
    Inputs <- MCInputs
    Owned <- MCOwned
    MaxAttempts = 2
SPECIFICATION FairSpec
INVARIANTS
    ProperColoring
    LowDegreeNeverSpills
    CountsAreRight
    ObjectsFollowOperands
    ReplayIsExact
PROPERTIES
    AttemptsEnd
    RefinesGraphColoring
