SPECIFICATION ReconcilingSpec
CONSTANTS
    j1 = j1
    t1 = t1
    r1 = r1
    r2 = r2
    s1 = s1
    NoTarget = NoTarget
    Unselected = Unselected
    Jobs <- OneJob
    Timers <- OneTimer
    MaxConcurrent = 2
    MaxClaims = 2
    Reconcilers <- TwoReconcilers
    Statuses <- ThreeStatuses
    Targets <- OneStage
    Configurations <- TwoConfigurations
    MaxSpans = 2
    MaxTime = 1
    MaxRearms = 1
    MaxTouches = 0
PROPERTIES
    ShutdownEnds
    HeldJobsAreAdvertised
    IssuesAreFollowed
CHECK_DEADLOCK FALSE
