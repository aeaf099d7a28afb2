SPECIFICATION Spec
CONSTANTS
    j1 = j1
    j2 = j2
    j3 = j3
    r1 = r1
    r2 = r2
    r3 = r3
    r4 = r4
    None = None
    Jobs <- ThreeJobs
    Runs <- ThreeRuns
    LastStage = 1
    MaxRetries = 3
    MaxRepairs = 2
    PolicyPinned = TRUE
    ManualMerge = FALSE
    LegacyWorkers = FALSE
    MaxAttempts = 3
    MaxRevision = 2
SYMMETRY Identities
INVARIANTS
    RejectionLeavesReceipt
CHECK_DEADLOCK FALSE
