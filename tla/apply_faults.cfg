CONSTANTS
    N = 2
    Kind <- KindRetainedInstruction
    Legacy <- LegacySecond
    u1 = u1
    u2 = u2
    g1 = g1
    g2 = g2
    UserText = {u1}
    GenText = {g1, g2}
    Modes = {"patch", "copy"}
    Absent = Absent
    Link = Link
    NoRecord = NoRecord
    Conflict = Conflict
    Faults = {"preflight", "check", "noop", "action", "statedir", "state", "success", "restore", "crash"}
    Concurrent = FALSE
    MaxEnv = 3
SPECIFICATION Spec
INVARIANTS
    TypeOK
    CompensationExact
