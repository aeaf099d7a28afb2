SPECIFICATION Spec
CONSTANTS
    j1 = j1
    j2 = j2
    t1 = t1
    t2 = t2
    Jobs <- OneJob
    Timers <- OneTimer
    MaxConcurrent = 2
    MaxClaims = 3
SYMMETRY Identities
INVARIANTS
    MaintenanceOutlivesClaims
CHECK_DEADLOCK FALSE
