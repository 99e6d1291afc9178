SPECIFICATION FairSpec
CONSTANTS
    night = night
    halt = halt
    forced = forced
    NoSchedule = NoSchedule
    Schedules <- MCForced
    Sleepers <- MCForced
    Off <- MCForcedOff
    NtpEnabled = TRUE
    LastInstant = 0
    MaxEdits = 0
    MaxFaults = 0
PROPERTIES
    GovernedFromStart
