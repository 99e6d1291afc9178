SPECIFICATION Spec
CONSTANTS
    e1 = e1
    e2 = e2
    e3 = e3
    h1 = h1
    h2 = h2
    Events <- MCEvents3
    Handlers <- MCHandlers2
    Instants <- MCOneInstant
    MaxAttempts = 2
    QueueCap = 1
    BatchSize = 2
    MaxFaults = 1
SYMMETRY Symmetry
INVARIANTS
    TypeOK
    NoEventLost
    AnswerMatchesBatch
    BatchIsCurrent
    QueueBounded
PROPERTIES
    ExpiresOnlyAtLimit
    KeepsLedger
