CONSTANTS
    o1 = o1
    o2 = o2
    o3 = o3
    Object = {o1, o2, o3}
    NPhys = 4
    ScanFrom <- MCScanFrom
    SavedFloor <- MCSavedFloor
    CounterLimit = 5
    ArgRegs = {1, 2, 3}
    Reserved <- MCReserved
    MaxCounter <- MCMaxCounter
    SoftFloat = FALSE
    Inputs <- MCInputs
SPECIFICATION Spec
INVARIANTS
    NobodySharesARegister
    RegisterCountCovers
    
