CONSTANTS
    N = 2
    Kind <- KindInstructionFile
    Legacy <- NoLegacy
    u1 = u1
    u2 = u2
    g1 = g1
    g2 = g2
    UserText = {u1}
    GenText = {g1, g2}
    Modes = {"patch", "copy"}
    Absent = Absent
    Link = Link
    NoRecord = NoRecord
    Conflict = Conflict
    Faults = {"noop"}
    Concurrent = FALSE
    MaxEnv = 3
SPECIFICATION Spec
INVARIANTS
    FailureIsCompensatedOrReported
