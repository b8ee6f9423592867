CONSTANT Options <- MCOptions
SPECIFICATION DriverSpec
INVARIANTS
    ArrayChangesArePropagated
