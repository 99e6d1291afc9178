SPECIFICATION FairSpec
CONSTANTS
    night = night
    halt = halt
    forced = forced
    NoSchedule = NoSchedule
    Schedules <- MCMixed
    Sleepers <- MCMixedSleepers
    Off <- MCMixedOff
    NtpEnabled = TRUE
    LastInstant = 1
    MaxEdits = 0
    MaxFaults = 1
INVARIANTS
    TypeOK
PROPERTIES
    GatedDecision
    Governed
