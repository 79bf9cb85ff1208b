SPECIFICATION FairSpec
CONSTANTS
    s1 = s1
    s2 = s2
    p1 = p1
    p2 = p2
    Sessions = {s1, s2}
    Ids = {p1, p2}
    Known = {p1}
    Wants <- MCWants
    MaxLogins = 2
    Habits <- MCHabits
    Workers = {w1}
    Sectors = {a, b}
    Spawn = {a}
    Nobody = Nobody
    Absent = Absent
    Gone = Gone
    LevelStep = 1
    MaxProgress = 0
    DbMayFail = TRUE
INVARIANTS
    NothingLeftBehind
    EraseFindsKey
PROPERTIES
    OneObjectPerId
    LeaverIsRemoved
CHECK_DEADLOCK FALSE
