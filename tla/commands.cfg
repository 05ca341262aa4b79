CONSTANTS
    r1 = r1
    s1 = s1
    a1 = a1
    w1 = w1
    v1 = v1
    k1 = k1
    g1 = g1
    g2 = g2
    Proc = {s1, a1, w1}
    Root = {r1}
    RootOf <- OneRoot
    Person = {c1}
    NoLock = NoLock
    NoRoot = NoRoot
    LockFaults = {"create", "initialize", "remove", "crash"}
    HoldWriters = TRUE
    Target = {1, 2}
    Config = {g1, g2}
    TargetsIn <- Lists
    Preview = {}
    CommandOf <- Commands
    CmdFaults = {"compile", "apply"}
    EditsDuring = FALSE
    None = None
SPECIFICATION CSpec
INVARIANTS
    MutualExclusion
    OwnerHasFile
    FinishedWorkIsIndexed
    ApplyMatchesLock
PROPERTIES
    NoTakeover
CHECK_DEADLOCK FALSE
