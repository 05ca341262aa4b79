CONSTANTS
    AnyVersion = AnyVersion
    CandidateVersion = "candidate"
    NoRef = NoRef
    NoPack = NoPack
    NoSurface = NoSurface
    Failed = Failed
    NoGraph = NoGraph
    NoProc = NoProc
    NoManifest = NoManifest
    HeaderSize = 2
    ShortSize = 1
    WarnSize = 6
    Bundled <- MCBundled
    Libraries <- MCLibraries
    Files <- MCFiles
    Configs <- MCConfigs
    Overlays <- MCOverlays
    ApplyModes <- MCApplyModes
    Overrides <- MCOverrides
    Queries <- MCQueries
    Legacy <- MCLegacy
    Guards <- MCGuards
    State <- MCState
    MaxEdits = 1
    Stacks <- MCStacks
    NoStack = NoStack
    NoError = NoError
SPECIFICATION MCSpec
INVARIANTS
    OwnCompileApplies
    BlockedStaysOut
    OffersAreUsable
    SupplierByPrecedence
PROPERTIES
    PrivateStaysProtected
    PublishedIsCurrent
    CandidatesNeedConsent
    LockedKeepsSupplier
CHECK_DEADLOCK FALSE
