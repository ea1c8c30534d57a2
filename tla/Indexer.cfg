\* Two photos; a good file with a date, a broken one; lost saves, crashes, stops.
CONSTANTS
    good = good
    broken = broken
    PhotoIDs = {1, 2}
    Contents = {good, broken}
    Broken = {broken}
    Dated = {good}
    Libraries <- TwoPhotos
    Nil = Nil
    SavesMayFail = TRUE
    Edits = {good, broken, Nil}
    Handled = {1}
SPECIFICATION Spec
INVARIANTS
    TypeOK
    HashIsOfFile
PROPERTIES
    EventuallyHashed
    StopEnds
