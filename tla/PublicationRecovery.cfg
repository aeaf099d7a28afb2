SPECIFICATION PubFairSpec
CONSTANTS
    j1 = j1
    j2 = j2
    r1 = r1
    r2 = r2
    r3 = r3
    d1 = d1
    d2 = d2
    None = None
    Jobs <- OneJob
    Runs <- OneRun
    Drainers <- TwoDrainers
    LastStage = 1
    MaxRetries = 2
    MaxRepairs = 1
    PolicyPinned = TRUE
    ManualMerge = FALSE
    LegacyWorkers = TRUE
    MaxAttempts = 2
    MaxRevision = 2
    MaxPublications = 2
PROPERTIES
    Spec
    IntentIsSettled
CHECK_DEADLOCK FALSE
