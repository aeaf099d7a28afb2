SPECIFICATION CloudSpec
CONSTANTS
    j1 = j1
    f1 = f1
    f2 = f2
    t1 = t1
    t2 = t2
    b1 = b1
    NoClaim = NoClaim
    NoOne = NoOne
    DJobs <- OneJob
    MaxRunning = 1
    MaxTries = 2
    Flows <- TwoFlows
    Tasks <- TwoTasks
    Tabs <- OneTab
SYMMETRY Identities
INVARIANTS
    DeliveredOnce
    SignInIsCurrent
PROPERTIES
    LeaseSpec
    PublishedClaimsAreKept
    DispatchedWorkEnds
CHECK_DEADLOCK FALSE
