SPECIFICATION Spec
CONSTANTS
    o1 = o1
    o2 = o2
    o3 = o3
    x1 = x1
    x2 = x2
    a1 = a1
    a2 = a2
    NoAttempt = NoAttempt
    NoRequest = NoRequest
    Requests <- MCWithDenied
    Permitted <- MCRequests
    Operations <- MCOperations
    Snapshots <- MCSnapshots
    Unread = "unread"
    Phases <- MCPhases
    Kinds <- MCKinds
    Results <- MCResults
    Executors <- MCExecutors
    Attempts <- MCAttempts
    Drifts = TRUE
    MaxAbandoned = 1
SYMMETRY MCSymmetry
INVARIANTS
    TerminalIsTrue
    RetryFollowsOrigin
    ReportIsStored
PROPERTIES
    StartsOnce
CONSTRAINTS
    DeniedAlone
    OneMishap
CHECK_DEADLOCK FALSE
