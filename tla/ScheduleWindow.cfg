\* All pairs of daily and weekly schedules, and pairs with a rarer stop; the
\* gateway goes down, Docker fails.
SPECIFICATION Spec
CONSTANTS
    Pairs <- ForeseeablePairs
    None = None
    Week = 12
    Cycle = 24
    Faults = {"down", "api"}
INVARIANTS
    ScheduleTypeOK
    WindowAsDocumented
    NextStartOpens
    StaysValid
    GateFollowsJobs
    StoppedOutsideWindow
