SPECIFICATION FairSpec
CONSTANTS
    o1 = o1
    o2 = o2
    o3 = o3
    o4 = o4
    x1 = x1
    x2 = x2
    Host = Host
    NoRequest = NoRequest
    Requests <- MCRequests
    Permitted <- MCPauses
    Operations <- MCOperations
    Executors <- MCExecutor
    Repeats = FALSE
    MaxAbandoned = 1
    MaxFaults = 1
    Snapshots <- MCSnapshots
    Unread <- MCUnread
    Phases <- MCPhases
    Kinds <- MCKinds
    Results <- MCResults
INVARIANTS
    QuietIsTrue
    AgentKeepsItsToken
PROPERTIES
    PausesEnd
CONSTRAINT
    DeniedAlone
CHECK_DEADLOCK FALSE
