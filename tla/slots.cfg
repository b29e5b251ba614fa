SPECIFICATION FairSpec
CONSTANTS
    a = a
    b = b
    Jobs = {a}
    Disabled = {}
    RunOnStart = {}
    Options <- SlotOptions
    BaseOpt <- SlotBase
    MaxRuns = 3
    MaxWrites = 1
    Aliased = FALSE
    StoreInOrder = FALSE
    StoreMayFail = TRUE
    NoDelay = FALSE
    InProcessRestart = FALSE
    Requests = {"trigger", "cancel", "update", "invalid update"}
    Endings = {"returns", "raises"}
INVARIANTS
    QueuedOnlyWhenFull
    SlotsHeldByLiveRuns
PROPERTIES
    HistoryIsFinal
    SlotLimit
    KeepsSlotPromises
    QueuedRunStarts
