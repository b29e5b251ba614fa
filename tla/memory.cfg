SPECIFICATION Spec
CONSTANTS
    a = a
    b = b
    Jobs = {a}
    Disabled = {}
    RunOnStart = {}
    Options <- RetryOptions
    BaseOpt <- RetryBase
    MaxRuns = 2
    MaxWrites = 1
    Aliased = TRUE
    StoreInOrder = TRUE
    StoreMayFail = FALSE
    NoDelay = TRUE
    InProcessRestart = TRUE
    Requests = {"trigger", "delete", "stop", "cancel"}
    Endings = {"returns", "discards", "raises", "times out", "is cancelled"}
INVARIANTS
    RunningRunsAreKept
