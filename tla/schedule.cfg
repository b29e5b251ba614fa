SPECIFICATION Spec
CONSTANTS
    a = a
    b = b
    Jobs = {a, b}
    Disabled = {b}
    RunOnStart = {a, b}
    Options <- ScheduleOptions
    BaseOpt <- ScheduleBase
    MaxRuns = 2
    MaxWrites = 2
    Aliased = FALSE
    StoreInOrder = TRUE
    StoreMayFail = FALSE
    NoDelay = FALSE
    InProcessRestart = FALSE
    Requests = {"pause", "resume", "stop", "update"}
    Endings = {"returns"}
INVARIANTS
    OneTimerPerSchedule
    StatusReachesStore
    StopReachesEveryJob
    RunningIsOwned
