SPECIFICATION FairDeliverySpec
CONSTANTS
    e1 = e1
    e2 = e2
    e3 = e3
    c1 = c1
    c2 = c2
    c3 = c3
    w1 = w1
    w2 = w2
    Events <- MCEvents
    CreatedAt <- MCSameInstant
    ClaimIds <- MCClaimIds
    Comments <- MCComments
    Accepted <- MCFirst
    Malformed = {}
    Misaddressed = {}
    NoClaim = NoClaim
    NoComment = NoComment
    NoEvent = NoEvent
    LeasesOutlastAttempts = TRUE
    WritesSettle = TRUE
    MaxFaults = 1
    MaxCrashes = 1
    MaxDrift = 0
INVARIANTS
    NoDuplicateComment
PROPERTY
    ImplementsProjection
    EventuallySettled
