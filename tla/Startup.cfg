SPECIFICATION FairSpec
CONSTANTS
    Controllers <- MCControllers
    Valid <- MCValid
    Priority <- MCPriority
    HandUrls <- MCHandUrls
    NoUrl = ""
    Overrides <- MCOverrides
    NoId = 0
    BadId = 9
    Broken = Broken
    MaxId = 2
    MaxFound = 2
    MaxEvents = 2
INVARIANTS
    TypeOK
    IdentityKept
    ManualUrlKept
PROPERTIES
    AdoptsBestOfSweep
    StopEnds
    FindsController
