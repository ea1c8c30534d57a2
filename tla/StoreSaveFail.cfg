\* One photo, saves that fail.
CONSTANTS
    a = a
    b = b
    PhotoIDs = {a}
    TrashPaths = {t1}
    Nil = Nil
    Gone = Gone
    StateFiles <- LegacyFile
    SettingsChoices <- NoSettings
    Batches = {1}
    DefaultBatch = 2
    SkipCap = 1
    ClusterSkipCap = 2
    DayLength = 2
    SavesMayFail = TRUE
    MaxNow = 1
    MaxStack = 2
    MaxDone = 2
    MaxDaily = 2
    MaxTarget = 2
SPECIFICATION Spec
INVARIANTS
    UndoStackLinked
    UndoNeverClamps
PROPERTIES
    TrashedUntilUndone
    ImplementsTimeline
