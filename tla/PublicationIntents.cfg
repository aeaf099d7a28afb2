SPECIFICATION PubSpec
CONSTANTS
    j1 = j1
    j2 = j2
    r1 = r1
    r2 = r2
    r3 = r3
    d1 = d1
    d2 = d2
    None = None
    Jobs <- OneJob
    Runs <- TwoRuns
    Drainers <- TwoDrainers
    LastStage = 1
    MaxRetries = 2
    MaxRepairs = 1
    PolicyPinned = FALSE
    ManualMerge = FALSE
    LegacyWorkers = FALSE
    MaxAttempts = 2
    MaxRevision = 2
    MaxPublications = 2
SYMMETRY Identities
INVARIANTS
    PubTypeOK
    ArtifactHasProof
PROPERTIES
    CompletedWorkIsKept
CHECK_DEADLOCK FALSE
