SPECIFICATION Spec
CONSTANTS
    Players = {p1, p2}
    Width = 3
    Height = 1
    SectorSize = 2
    ViewRange = 1
    Obstacles = {}
    StartPositions <- MCStart
    MaxHandlers = 3
SYMMETRY MCSymmetry
INVARIANTS
    NeverLost
    QuietHandlerIsExact
    ViewIsSight
CHECK_DEADLOCK FALSE
