SPECIFICATION CleanSpec
CONSTANTS
    j1 = j1
    r1 = r1
    r2 = r2
    d1 = d1
    c1 = c1
    c2 = c2
    None = None
    Jobs <- OneJob
    Runs <- OneRun
    Drainers <- OneDrainer
    Cleaners <- TwoCleaners
    LastStage = 1
    MaxRetries = 2
    MaxRepairs = 0
    PolicyPinned = FALSE
    ManualMerge = FALSE
    LegacyWorkers = FALSE
    MaxAttempts = 2
    MaxRevision = 2
    MaxPublications = 2
    MaxCleanups = 3
SYMMETRY Identities
INVARIANTS
    CleanTypeOK
    ConsumedRefIsKept
    DeletedStaysAbsent
CHECK_DEADLOCK FALSE
