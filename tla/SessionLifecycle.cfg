SPECIFICATION Spec
CONSTANTS
    j1 = j1
    j2 = j2
    j3 = j3
    r1 = r1
    r2 = r2
    r3 = r3
    r4 = r4
    None = None
    Jobs <- ThreeJobs
    Runs <- ThreeRuns
    LastStage = 2
    MaxRetries = 2
    MaxRepairs = 2
    PolicyPinned = TRUE
    ManualMerge = TRUE
    LegacyWorkers = TRUE
    MaxAttempts = 2
    MaxRevision = 2
SYMMETRY Identities
INVARIANTS
    TypeOK
    ExclusiveOwnership
    InProgressHasWork
    PublishedJobIsSettled
    ReviewIsCurrentArtifact
    CompletionsAreCurrent
    RepairsAccounted
PROPERTIES
    HistoryIsImmutable
    ApprovalsAreKept
    ExhaustionStopsExecution
CHECK_DEADLOCK FALSE
