SPECIFICATION Spec
CONSTANTS
    Reqs = {r1, r2}
    Callers = {c1}
    Permissions <- MCPermissions
    NodeOrder <- MCNodeOrder
    Required <- MCRequired
    Unlisted <- MCUnlisted
    Streams <- MCStreams
    TakesInput <- MCTakesInput
    InputRequired <- MCInputRequired
    ToolName <- MCToolName
    IsHttp <- MCIsHttp
    OtherTools <- MCOtherTools
    Exposed <- MCExposed
    Requested <- MCRequested
    Stripped <- MCStripped
    FirstWord <- MCFirstWord
    ModuleOf <- MCModuleOf
SYMMETRY Symmetry
INVARIANTS
    UsageIsExact
    EventMatchesCount
    RunsPermitted
