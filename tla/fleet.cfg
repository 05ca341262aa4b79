CONSTANTS
    f1 = f1
    f2 = f2
    a1 = a1
    a2 = a2
    b1 = b1
    r1 = r1
    r2 = r2
    Proc = {f1, f2, a1, a2, b1}
    Root = {r1, r2}
    RootOf <- Roots
    Person = {c1}
    NoLock = NoLock
    NoRoot = NoRoot
    LockFaults = {"crash"}
    HoldWriters = TRUE
    Fleet = {f1, f2}
    Members <- Lists
    Child <- Spawns
    FleetFaults = {"select", "spawn", "sync", "answer", "log"}
SPECIFICATION FairFSpec
INVARIANTS
    OneSyncPerProject
    AppliedMeansSynced
    NoSelfContention
PROPERTIES
    EveryFleetEnds
CHECK_DEADLOCK FALSE
