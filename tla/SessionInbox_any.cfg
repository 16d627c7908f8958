SPECIFICATION Spec
CONSTANTS
    o1 = o1
    o2 = o2
    o3 = o3
    x1 = x1
    x2 = x2
    s1 = s1
    n1 = n1
    q1 = q1
    q2 = q2
    NoSession = NoSession
    NoRequest = NoRequest
    Requests <- MCRequests
    Operations <- MCOperations
    Snapshots <- MCSnapshots
    Unread <- MCUnread
    Phases <- MCPhases
    Kinds <- MCKinds
    Results <- MCResults
    Executors <- MCExecutors
    Sessions <- MCSessions
    Notifications <- MCNotifications
    ReplyIds <- MCReplyIds
    Verified <- MCVerified
    MaxAbandoned = 1
SYMMETRY MCSymmetry
CONSTRAINT TwoIfCutOff
INVARIANTS
    NothingLeftBehind
    OneQueuedReply
CHECK_DEADLOCK FALSE
