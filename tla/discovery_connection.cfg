SPECIFICATION DSpec
CONSTANTS
    c1 = c1
    c2 = c2
    r1 = r1
    r2 = r2
    None = None
    Unresolved = Unresolved
    GatewayProjects = {"p1"}
    Command = {c1, c2}
    Requests <- AskSome
    Jsonc = {}
    StartFiles <- Starts
    Settings = {"s2"}
    Visibility <- SomeVisibility
    Machines <- SomeMachines
    MaxEdits = 2
INVARIANTS
    RollbackWorks
    DoctorAgrees
PROPERTIES
    OthersAreKept
    OnlyItsOwnServer
SYMMETRY Twins
CHECK_DEADLOCK FALSE
