SPECIFICATION Spec
CONSTANTS
    DayLength = 6
    WeekLength = 2
    school = school
    ScheduleIds <- MCOneId
    NoId = NoId
    NoSchedule = NoSchedule
    NotOpen = NotOpen
    Contents <- MCContents
    NewOverrides <- MCOverrides
    Horizon = 2
    Ahead = 1
    MaxGrace = 1
    MaxHold = 2
    MaxExtension = 2
    Forever = 60
    FirstInstant = 6
    LastInstant = 14
    MaxEdits = 1
    MaxWrites = 1
CHECK_DEADLOCK FALSE
INVARIANTS
    OffSticks
