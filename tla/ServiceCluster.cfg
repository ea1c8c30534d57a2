\* Two tabs, two photos in one cluster, crashes, failing moves.
CONSTANTS
    PhotoIDs = {1, 2}
    TrashPaths <- MCTrashPaths
    Nil = Nil
    Gone = Gone
    StateFiles <- MCFreshFile
    SettingsChoices <- NoSettings
    Batches = {1}
    DefaultBatch = 2
    SkipCap = 1
    ClusterSkipCap = 2
    DayLength = 2
    SavesMayFail = FALSE
    MaxNow = 1
    MaxStack = 2
    MaxDone = 2
    MaxDaily = 2
    MaxTarget = 3
    Clients = {1, 2}
    Routes = {"home", "trash", "cluster", "undo", "end"}
    Crashes = TRUE
    PutsBack = FALSE
    MovesMayFail = TRUE
    MaxImports = 1
    MaxSlot = 1
SPECIFICATION ServiceSpec
INVARIANTS
    TrashedHasFile
    UndoCanRestore
