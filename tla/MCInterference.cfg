CONSTANTS
    NPhys = 3
    RegCount = 5
    NBlocks = 4
    Programs <- MCPrograms
    DeleteDead = TRUE
    IsGPR = TRUE
    FixedFrom = 3
    FixedRange = {1, 2}
SPECIFICATION BuildSpec
INVARIANTS
    RemovedAreDead
    LastUseIsLast
    EdgesAreEnough
CHECK_DEADLOCK FALSE
