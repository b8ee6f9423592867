CONSTANTS
  FirstVirtual = 4
  InitialColors = {0, 1}
  FirstSavedColor = 2
  Pinned = {{}, {5}}
  Captures <- MCCaptures
  Queries <- MCQueries
  Samples = 2
  MaxExtra = 2
SPECIFICATION SearchSpec
INVARIANTS
  VerdictIsExact
  NearestOrderIsFound
  DegreesAreEdges
CHECK_DEADLOCK FALSE
