\* Two requests at a time for one photo, a JPEG or a RAW file of many shapes.
CONSTANTS
    Nil = Nil
    Names = {"wide", "tall", "strip", "tiny", "small", "large", "huge", "new"}
    Offsets = {1, 2, 3, 4}
    MaxVisited = 3
    MaxSubIFDs = 2
    MaxPreview = 8
    ThumbnailMaxSide = 4
    PhotoIDs = {1, 2}
    Raws = {2}
    r1 = r1
    r2 = r2
    Requests = {r1, r2}
    Widths = {2, 9}
    Libraries <- MCLibraries
    Replacements <- MCReplacements
    WritesMayFail = TRUE
SPECIFICATION Spec
SYMMETRY RequestSymmetry
INVARIANTS
    TypeOK
    FilesInThumbs
    CachedIsWhole
    TempsTidied
    OthersNeverSpoil
    CachedIsOfPhoto
    ThumbsFit
    TurnsLikeExif
    PreviewIsLargest
