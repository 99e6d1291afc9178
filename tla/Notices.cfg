SPECIFICATION Spec
CONSTANTS
    Schedules <- MCSchedules
    Thresholds <- MCThresholds
    FastPoll = 1
    SlowPoll = 3
    FastWithin = 5
    Horizon = 6
    Shifts <- MCShifts
    MaxTime = 12
    MaxChanges = 3
INVARIANTS
    TypeOK
    WarnedInTime
    NoFalseAlarm
    StruckIsWarned
CHECK_DEADLOCK FALSE
