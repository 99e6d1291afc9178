SPECIFICATION FairSpec
CONSTANTS
    m1 = m1
    m2 = m2
    Messages <- MCTwoMessages
    MaxLife = 1
    MaxAhead = 1
    MaxTime = 1
    MaxFaults = 1
INVARIANTS
    TypeOK
    CursorIsHonest
    ShownOnce
PROPERTIES
    EventuallyShown
