CONSTANTS
    N = 1
    Kind <- KindOneJson
    Legacy <- NoLegacyOne
    u1 = u1
    u2 = u2
    g1 = g1
    g2 = g2
    UserText = {u1}
    GenText = {g1, g2}
    Modes = {"patch", "copy"}
    Absent = Absent
    Link = Link
    NoRecord = NoRecord
    Conflict = Conflict
    NoOrigin = NoOrigin
    Faults = {"statedir", "crash", "revert"}
    Concurrent = FALSE
    MaxEnv = 4
SPECIFICATION LSpec
INVARIANTS
    RevertRestoresOrigin
    UserTextSurvives
