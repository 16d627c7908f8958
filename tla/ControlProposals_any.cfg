SPECIFICATION Spec
CONSTANTS
    o1 = o1
    o2 = o2
    o3 = o3
    x1 = x1
    x2 = x2
    NoRequest = NoRequest
    Requests <- MCRequests
    Operations <- MCOperations
    Executors = {x1, x2}
    Snapshots <- MCSnapshots
    Unread <- MCUnread
    Phases <- MCPhases
    Kinds <- MCKinds
    Results <- MCResults
    MaxAbandoned = 1
    Slots <- MCSlots
    FileOf <- MCFileOf
    TaskSlots <- MCTaskSlots
    KeyOf <- MCKeyOf
    Trees <- MCTrees
    Branches <- MCBranches
    Denied <- MCDenied
    Sources <- MCSources
    MaxCommits = 5
SYMMETRY MCSymmetry
INVARIANTS
    ProposalIsExact
    SuccessIsProposed
PROPERTIES
    MergesAreLegal
CONSTRAINTS
    Paired
    OneMishap
    OneRace
CHECK_DEADLOCK FALSE
