SPECIFICATION SetupSpec
CONSTANTS
    Unset = Unset
    NoSelection = NoSelection
    NoCache = NoCache
    NoCommit = NoCommit
    NoEntry = NoEntry
    builder = builder
    writer = writer
    starter = starter
    team = team
    imported = imported
    steward = steward
    codex = codex
    cursor = cursor
    home = home
    s1 = s1
    s2 = s2
    s3 = s3
    s4 = s4
    u1 = u1
    u2 = u2
    Role <- MCRole
    Pack <- MCPack
    Target <- MCTarget
    Profile <- MCProfile
    SourceId <- MCSourceId
    Url <- MCUrl
    Builder = builder
    Codex = codex
    RolePacks <- MCRolePacks
    Template <- MCTemplate
    Steward = steward
    Imported = imported
    ImportedFrom <- MCImportedFrom
    Starter <- MCStarter
    Detected <- MCDetected
    Donor <- MCDonor
    UserLayer <- MCUserLayer
    Calls <- MCCalls
    Options <- MCOptions
    LocalEdits <- MCLocalEdits
    ProfileEdits <- MCProfileEdits
    Offers <- MCOffers
    Records <- MCRecords
    Configured <- MCConfigured
    MaxSteps = 4
    MaxCommits = 1
CHECK_DEADLOCK FALSE
INVARIANTS
    FreshLockIsCurrent
    SharedHoldsOnlyAsked
    MaterializedIsEquivalent
    SyncAllReadies
PROPERTIES
    LockedStaysLocked
