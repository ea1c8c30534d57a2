\* Refutes FilesAreNeverLost.
CONSTANTS
    PhotoIDs = {1}
    TrashPaths <- MCTrashPaths
    Nil = Nil
    Gone = Gone
    StateFiles <- MCFreshFile
    SettingsChoices <- NoSettings
    Batches = {1}
    DefaultBatch = 3
    SkipCap = 1
    ClusterSkipCap = 2
    DayLength = 2
    SavesMayFail = FALSE
    MaxNow = 1
    MaxStack = 3
    MaxDone = 3
    MaxDaily = 3
    MaxTarget = 3
    Clients = {1}
    Routes = {"home", "trash", "undo"}
    Crashes = FALSE
    PutsBack = FALSE
    MovesMayFail = FALSE
    MaxImports = 2
    MaxSlot = 1
SPECIFICATION ServiceSpec
INVARIANT
    FilesAreNeverLost
