SPECIFICATION Spec
CONSTANTS
    Kinds = {"memory", "json", "sqlite", "s3", "os", "legacy"}
    Paths <- SomePaths
    RawPaths <- SomeRaws
    Contents = {"bytes", "text"}
    Replaced <- Binary
    Oversize = {"text"}
    Roots <- OneRoot
    Links <- OneLink
    Alike <- NoLikes
    Page = 2
    FreeOnly = TRUE
    FailAgain = FALSE
    WholeBatches = TRUE
 
PROPERTIES ImplementsTree ConfinedToRoots
CHECK_DEADLOCK FALSE
