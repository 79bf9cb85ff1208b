SPECIFICATION Spec
CONSTANTS
    Players = {p1}
    Potions = {i1}
    Monster = m
    MonsterTypes <- MCTypes
    Width = 4
    Height = 2
    SectorSize = 2
    ViewRange = 2
    SearchRange = 1
    Obstacles <- MCObstacles
    Graves <- MCGraves
    MaxHandlers = 2
INVARIANTS
    TypeOK
    MonsterListed
    ShownIsSight
    WatchedIsAwake
PROPERTIES
    HunterArrives
CHECK_DEADLOCK FALSE
