SPECIFICATION FairSpec
CONSTANTS
    Workers = {w1, w2}
    MaxHP = 1
    MaxHits = 1
PROPERTY
    WokenMonsterMoves
