\* One tab, two photos, files moved by hand, moves that fail.
CONSTANTS
    PhotoIDs = {1, 2}
    TrashPaths <- MCTrashPaths
    Nil = Nil
    Gone = Gone
    StateFiles <- MCFreshFile
    SettingsChoices <- NoSettings
    Batches = {1}
    DefaultBatch = 2
    SkipCap = 1
    ClusterSkipCap = 2
    DayLength = 2
    SavesMayFail = FALSE
    MaxNow = 1
    MaxStack = 2
    MaxDone = 2
    MaxDaily = 2
    MaxTarget = 3
    Clients = {1}
    Routes = {"home", "skip", "trash", "cluster", "skipCluster", "undo", "extend", "rescan"}
    Crashes = FALSE
    PutsBack = TRUE
    MovesMayFail = TRUE
    MaxImports = 2
    MaxSlot = 2
SPECIFICATION ServiceSpec
INVARIANTS
    TrashTracked
