\* Four photos, two bits: chains, ties, photos without a time, windows.
CONSTANTS
    PhotoIDs = {1, 2, 3, 4}
    Bits = {1, 2}
    Times = {0, 1, 2, 3}
    Tables <- MCTables
    Thresholds = {1}
    Windows = {0, 1}
CHECK_DEADLOCK FALSE
SPECIFICATION Spec
INVARIANTS
    TypeOK
    OnlyAlikeJoined
    ClustersAreComponents
