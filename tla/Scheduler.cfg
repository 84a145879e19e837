\* Starts do not overlap: two processes in turn, one routine id used twice.
SPECIFICATION FairSpec
CONSTANTS
    Pids = {d1, d2}
    NoPid = NoPid
    Overlap = FALSE
    HourLen = 2
    DayHours = 2
    WeekLen = 2
    MonthLen = 3
    MaxScanDays = 6
    Ids = {r1}
    Catalogue <- TwoPlans
    Samples <- SomePlans
    SampleTimes <- SomeTimes
    StartTime = 24
    MaxTime = 26
    MaxAdds = 2
    MaxOps = 2
    MaxEnds = 1
    MidTick = FALSE
INVARIANTS SchedTypeOK   
PROPERTIES DueSettled StopEnds
CHECK_DEADLOCK FALSE
