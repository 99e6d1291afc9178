SPECIFICATION Spec
CONSTANTS
    s1 = s1
    s2 = s2
    Sessions <- MCTwoSessions
    MaxChanges = 2
    MaxFaults = 1
    MaxTime = 1
SYMMETRY Symmetry
CHECK_DEADLOCK FALSE
INVARIANTS
    TypeOK
    SpansDisjoint
    StoreAgrees
    ReportsAgree
    DanglingBounded
    UseIsTracked
