CONSTANT Options <- MCOptions
SPECIFICATION DriverSpec
INVARIANTS
    CopiesAreSettled
    IndexIsFresh
