SPECIFICATION Spec
CONSTANTS
    o1 = o1
    o2 = o2
    o3 = o3
    o4 = o4
    x1 = x1
    x2 = x2
    NoRequest = NoRequest
    NoUpdate = NoUpdate
    Requests <- MCRequests
    Permitted <- MCPermitted
    Updates <- MCUpdates
    Bindable <- MCBindable
    Operations <- MCOperations
    Executors <- MCExecutors
    MaxAbandoned = 0
    Snapshots <- MCSnapshots
    Unread <- MCUnread
    Phases <- MCPhases
    Kinds <- MCKinds
    Results <- MCResults
SYMMETRY MCSymmetry
INVARIANTS
    NewestIsCurrent
    ActsOnListedEvidence
PROPERTIES
    ReopenedByEvidence
CHECK_DEADLOCK FALSE
