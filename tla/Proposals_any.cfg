SPECIFICATION Spec
CONSTANTS
    o1 = o1
    o2 = o2
    x1 = x1
    x2 = x2
    NoRequest = NoRequest
    NoCommit = NoCommit
    NoOne = NoOne
    Absent = Absent
    Partial = Partial
    Leftover = Leftover
    Requests <- MCRequests
    Permitted <- MCPermitted
    Buildable <- MCBuildable
    Unaffected <- MCUnaffected
    Branches <- MCBranches
    Operations <- MCOperations
    Executors <- MCExecutors
    MaxAbandoned = 1
    MaxMain = 2
    MaxCalls = 3
    Snapshots <- MCSnapshots
    Unread <- MCUnread
    Phases <- MCPhases
    Kinds <- MCKinds
    Results <- MCResults
SYMMETRY MCSymmetry
INVARIANTS
    PublishedIsGenerated
    SuccessIsOnRecord
PROPERTIES
    ImplementsLineage
CONSTRAINT OneScenario
CHECK_DEADLOCK FALSE
