\* Two tabs, one photo, crashes, lost saves, failing moves; a second file at its path.
CONSTANTS
    PhotoIDs = {1}
    TrashPaths <- MCTrashPaths
    Nil = Nil
    Gone = Gone
    StateFiles <- MCFreshFile
    SettingsChoices <- SameSettings
    Batches = {1}
    DefaultBatch = 2
    SkipCap = 1
    ClusterSkipCap = 2
    DayLength = 2
    SavesMayFail = TRUE
    MaxNow = 1
    MaxStack = 2
    MaxDone = 2
    MaxDaily = 2
    MaxTarget = 3
    Clients = {1, 2}
    Routes = {"home", "keep", "trash", "undo", "rescan", "settings"}
    Crashes = TRUE
    PutsBack = FALSE
    MovesMayFail = TRUE
    MaxImports = 2
    MaxSlot = 2
SPECIFICATION ServiceSpec
INVARIANTS
    ServiceTypeOK
    TrashedHasFile
    UndoCanRestore
