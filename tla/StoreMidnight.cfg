\* One photo, three days: midnight, stale sessions, settings, restarts.
CONSTANTS
    a = a
    b = b
    PhotoIDs = {a}
    TrashPaths = {t1}
    Nil = Nil
    Gone = Gone
    StateFiles <- LegacyFile
    SettingsChoices <- ZeroSettings
    Batches <- OneOrOpen
    DefaultBatch = 2
    SkipCap = 1
    ClusterSkipCap = 2
    DayLength = 1
    SavesMayFail = FALSE
    MaxNow = 3
    MaxStack = 2
    MaxDone = 2
    MaxDaily = 1
    MaxTarget = 2
SPECIFICATION Spec
INVARIANTS
    TypeOK
    CounterCoversStack
    UndoNeverClamps
    UnsureRetired
