SPECIFICATION FairSpec
CONSTANTS
    e1 = e1
    e2 = e2
    e3 = e3
    h1 = h1
    h2 = h2
    Events <- MCEvents2
    Handlers <- MCHandlers1
    Instants <- MCInstants
    MaxAttempts = 2
    QueueCap = 2
    BatchSize = 1
    MaxFaults = 1
PROPERTIES
    EveryRowSettles
