SPECIFICATION DeliverySpec
CONSTANTS
    e1 = e1
    e2 = e2
    e3 = e3
    c1 = c1
    c2 = c2
    c3 = c3
    w1 = w1
    w2 = w2
    Events <- MCThree
    CreatedAt <- MCThreeCreatedAt
    ClaimIds <- MCClaimIds
    Comments <- MCComments
    Accepted <- MCFirst
    Malformed <- MCThird
    Misaddressed <- MCSecond
    NoClaim = NoClaim
    NoComment = NoComment
    NoEvent = NoEvent
    LeasesOutlastAttempts = FALSE
    WritesSettle = FALSE
    MaxFaults = 1
    MaxCrashes = 1
    MaxDrift = 1
SYMMETRY MCSymmetry
INVARIANTS
    ClaimsAreExclusive
    NoMutationForRejected
    ReceiptMatchesComment
