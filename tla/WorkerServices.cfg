SPECIFICATION ServicesSpec
CONSTANTS
    j1 = j1
    t1 = t1
    p1 = p1
    p2 = p2
    h1 = h1
    s1 = s1
    NoToken = NoToken
    NoTarget = NoTarget
    Unselected = Unselected
    Jobs <- OneJob
    Timers <- OneTimer
    MaxConcurrent = 2
    MaxClaims = 3
    Publishers <- TwoProcesses
    Hooks <- OneHook
    MaxGenerations = 2
    MaxEpochs = 2
    MaxOperations = 2
    MaxChanges = 2
    Reconcilers <- TwoProcesses
    Statuses <- ThreeStatuses
    Targets <- OneStage
    Configurations <- TwoConfigurations
    MaxSpans = 2
    MaxTime = 1
    MaxRearms = 1
    MaxTouches = 1
SYMMETRY Identities
INVARIANTS
    ServicesTypeOK
    CapacityHolds
    DrainedMeansIdle
    SyncedIsHeard
PROPERTIES
    DeregisteredStaysGone
    PublicationMovesForward
    MovesActOnce
CHECK_DEADLOCK FALSE
