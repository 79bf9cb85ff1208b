SPECIFICATION SearchSpec
CONSTANTS
    Width = 3
    Height = 3
INVARIANTS
    PathIsWalk
    SettledIsLeast
PROPERTY
    ImplementsShortestPath
CHECK_DEADLOCK FALSE
