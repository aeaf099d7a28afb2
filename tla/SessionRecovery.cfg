SPECIFICATION FairSpec
CONSTANTS
    j1 = j1
    j2 = j2
    j3 = j3
    r1 = r1
    r2 = r2
    r3 = r3
    r4 = r4
    None = None
    Jobs <- TwoJobs
    Runs <- ThreeRuns
    LastStage = 1
    MaxRetries = 2
    MaxRepairs = 1
    PolicyPinned = FALSE
    ManualMerge = FALSE
    LegacyWorkers = FALSE
    MaxAttempts = 4
    MaxRevision = 4
INVARIANTS
    ClaimsAccounted
PROPERTIES
    CrashedWorkIsRecovered
CHECK_DEADLOCK FALSE
