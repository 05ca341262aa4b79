CONSTANTS
    N = 2
    Kind <- KindJsonFile
    Legacy <- NoLegacy
    u1 = u1
    u2 = u2
    g1 = g1
    g2 = g2
    UserText = {u1}
    GenText = {g1, g2}
    Modes = {"patch", "copy", "symlink", "takeover"}
    Absent = Absent
    Link = Link
    NoRecord = NoRecord
    Conflict = Conflict
    Faults = {}
    Concurrent = FALSE
    MaxEnv = 4
SPECIFICATION Spec
INVARIANTS
    SuccessRecordsDisk
    ApplyConverges
    RecordedBackupExists
