SPECIFICATION LoopSpec
CONSTANTS
    p1 = p1
    p2 = p2
    b1 = b1
    b2 = b2
    i1 = i1
    i2 = i2
    sa = sa
    sb = sb
    sz = sz
    result = result
    other = other
    NoPull = NoPull
    NoEvent = NoEvent
    NoComment = NoComment
    NoMarker = NoMarker
    NoReceipt = NoReceipt
    Pulls <- MCPulls
    Accepting <- MCAccepting
    Bridges <- MCBridges
    Ingresses <- MCIngresses
    Threads <- MCThreads
    OfTask <- MCOfTask
    Comments <- MCComments
    ResultThread = result
    Submitter = sa
    MaxRuns = 2
    MaxAttempts = 2
    MaxReads = 2
    MaxEvents = 3
SYMMETRY MCSymmetry
INVARIANTS
    QueuedIsAttested
    ReportedIsQueued
    OneNoticePerComment
    RepeatIsRecognised
CONSTRAINTS
    OtherIsAlone
    ThreeAttempts
    CommentsFollow
CHECK_DEADLOCK FALSE
