CONSTANTS
    outerLoop = outerLoop
    innerLoop = innerLoop
    secondLoop = secondLoop
    Node = {outerLoop, innerLoop, secondLoop}
    NoNode = NoNode
    Shapes <- MCShapes
    SizeLimit = 2
    NPhys = 2
    Objects <- MCObjects
    Info <- MCInfo
    Functions <- MCFunctions
    Stale <- MCStale
SPECIFICATION FairSpec
INVARIANTS
    IndexIsRight
    AvailableIsExact
    WalksAreComplete
    DirectMovesAreAlone
PROPERTIES
    FixedPoint
    MotionEnds
