SPECIFICATION Spec
CONSTANTS
    s1 = s1
    s2 = s2
    p1 = p1
    p2 = p2
    Sessions = {s1, s2}
    Ids = {p1}
    Known = {p1}
    Wants <- MCRivals
    MaxLogins = 1
    Habits <- MCHalves
    Workers = {}
    Sectors = {a}
    Spawn = {a}
    Nobody = Nobody
    Absent = Absent
    Gone = Gone
    LevelStep = 2
    MaxProgress = 2
    DbMayFail = FALSE
INVARIANT
    RefusedMeansInUse
CHECK_DEADLOCK FALSE
