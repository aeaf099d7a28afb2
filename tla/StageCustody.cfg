SPECIFICATION FairSpec
CONSTANTS
    MaxClaims = 1
    Others = {"sweep", "reaper", "user", "provider"}
    Budgeted = TRUE
    Unlucky = {1}
INVARIANTS
    StageTypeOK
    RetireMeansOver
PROPERTIES
    AbandonedSandboxIsStopped
    SandboxesAreInCustody
    OnlyBudgetFailsPreparedWork
CHECK_DEADLOCK FALSE
