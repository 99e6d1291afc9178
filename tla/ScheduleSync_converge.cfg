SPECIFICATION FairSpec
CONSTANTS
    night = night
    halt = halt
    forced = forced
    NoSchedule = NoSchedule
    Schedules <- MCForced
    Sleepers <- MCForced
    Off <- MCForcedOff
    NtpEnabled = FALSE
    LastInstant = 0
    MaxEdits = 1
    MaxFaults = 1
PROPERTIES
    Converges
