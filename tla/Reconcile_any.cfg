SPECIFICATION ReconcileSpec
CONSTANTS
    o1 = o1
    o2 = o2
    o3 = o3
    x1 = x1
    a1 = a1
    a2 = a2
    NoAttempt = NoAttempt
    NoRequest = NoRequest
    Requests <- MCRequests
    Permitted <- MCRequests
    Operations <- MCOperations
    Snapshots <- MCSnapshots
    Unread = "unread"
    Phases <- MCPhases
    Kinds <- MCKinds
    Results <- MCResults
    Executors = {x1}
    Attempts = {a1, a2}
    Drifts = FALSE
    MaxAbandoned = 1
    Scopes <- MCScopes
INVARIANTS
    SettledAttemptsEnded
    AdviceMatchesResult
    GoneWasGone
CONSTRAINTS
    RunsLater
    SaysSomething
    TwoIfCutOff
CHECK_DEADLOCK FALSE
