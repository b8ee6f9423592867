CONSTANTS
    NPhys = 1
    RegCount = 2
    NBlocks = 3
    Programs <- MCPrograms
SPECIFICATION FairSpec
INVARIANTS
    BelowEverySolution
    LiveInIsExact
PROPERTIES
    SolverTerminates
CHECK_DEADLOCK FALSE
