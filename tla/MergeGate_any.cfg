CONSTANTS
    Tasks <- MCTasks
    Paths <- MCPaths
    Submissions <- MCSubmissions
    Decisions <- MCDecisions
    Impacts <- MCImpacts
    Reports <- MCReports
    RevisionSlots <- MCRevisionSlots
    Domains <- MCDomains
    Branches <- MCBranches
    Requests <- MCRequests
    Edits <- MCEdits
    Lines <- MCLines
    Protections <- MCProtections
    MaxLine = 5
    MaxCommits = 2
    MaxEdits = 1
    MaxOpen <- MCMaxOpen
SPECIFICATION Spec
CONSTRAINT OneFamily
CONSTRAINT OneAtATime
CHECK_DEADLOCK FALSE
INVARIANTS
    ReceiptIsTrue
PROPERTIES
    MergedAsGated
    AcceptedIsKept
    RevisionsAreSourced
    CurrentIsGrounded
