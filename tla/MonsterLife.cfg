SPECIFICATION FairSpec
CONSTANTS
    Workers = {w1, w2, w3}
    MaxHP = 1
    MaxHits = 3
INVARIANTS
    OneMoveChain
    ChainMeansActive
    DeadHasRevive
PROPERTIES
    DeadRevives
    AbandonedSleeps
