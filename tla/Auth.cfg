\* Two browsers, two tokens that live for two instants.
CONSTANTS
    t1 = t1
    t2 = t2
    b1 = b1
    b2 = b2
    Browsers = {b1, b2}
    Tokens = {t1, t2}
    SessionTTL = 2
    MaxNow = 4
    Nil = Nil
SPECIFICATION Spec
INVARIANTS
    OnlyLiveAdmitted
PROPERTIES
    NotEndedEarly
    ExpiredAreDropped
