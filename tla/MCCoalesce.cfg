CONSTANTS
    NPhys = 2
    RegCount = 5
    NBlocks = 1
    First = 3
    Last = 4
SPECIFICATION MCSpec
INVARIANTS
    ClassesDontInterfere
    QuotientIsExact
    RemovedCopiesNameOneRoot
CONSTRAINT FewRemoved
CHECK_DEADLOCK FALSE
