SPECIFICATION FairSpec
CONSTANTS
    p1 = p1
    p2 = p2
    Players = {p1, p2}
    Monsters = {m1}
    Workers = {w1, w2}
    MaxHP = 20
    MonsterHP = 40
    Damage = 20
    PotionHP = 10
    Debt = 23
    Budgets <- MCBudgets
    MaxItems = 3
INVARIANTS
    OneRevivePerDeath
    AliveIsNotShownDead
    PotionReachable
    HPWithinMeans
    RewardMeansKill
PROPERTIES
    DeadPlayersRevive
CHECK_DEADLOCK FALSE
