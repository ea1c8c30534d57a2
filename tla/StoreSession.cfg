\* Two photos, one day: singles, skips and clusters.
CONSTANTS
    a = a
    b = b
    PhotoIDs = {a, b}
    TrashPaths = {t1}
    Nil = Nil
    Gone = Gone
    StateFiles <- MixedFile
    SettingsChoices <- NoSettings
    Batches = {1}
    DefaultBatch = 2
    SkipCap = 1
    ClusterSkipCap = 2
    DayLength = 2
    SavesMayFail = FALSE
    MaxNow = 1
    MaxStack = 2
    MaxDone = 2
    MaxDaily = 2
    MaxTarget = 3
SPECIFICATION Spec
SYMMETRY PhotoSymmetry
INVARIANTS
    CounterCoversStack
    UndoStackLinked
    SkipListBounded
    UndoInverts
PROPERTIES
    TrashedUntilUndone
    ImplementsTimeline
