SPECIFICATION Spec
CONSTANTS
    b1 = b1
    b2 = b2
    p1 = p1
    p2 = p2
    s1 = s1
    m1 = m1
    guide = guide
    index = index
    owners = owners
    route = route
    section = section
    moved = moved
    legacy = legacy
    NoPolicy = NoPolicy
    Broken = Broken
    Branches = {b1, b2}
    Pages = {p1, p2}
    Sources = {s1}
    Renders = {m1}
    Guide = guide
    Index = index
    Owners = owners
    RenderOf <- MCRenderOf
    Walk <- MCWalk
    Policies <- MCPolicies
    Version <- MCVersion
    Below <- MCBelow
    Covered <- MCCovered
    Structured <- MCStructured
    Legacy <- MCLegacy
    Indexed = {route}
    Owned = {section}
    Locks = {TRUE, FALSE}
    Links <- MCLinks
    Faults = {"none", "class", "schema", "name"}
    StartPolicies = {route, section, NoPolicy}
    StartLocked <- MCStartLocked
    MaxEdits = 2
    MaxCommits = 4
    MaxCommands = 1
INVARIANTS
    ManifestIsASnapshot
    MainPasses
    RenderedPairPasses
PROPERTIES
    LockedIsKept
CONSTRAINTS
    FirstBranchFirst
    SiteAlone
    CommandsFirst
    PushedPasses
CHECK_DEADLOCK FALSE
