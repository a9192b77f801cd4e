\* Freeing a field cache may throw at any time.
SPECIFICATION LiveSpec
CONSTANTS
    a = a  b = b  c = c
    Keys = {a, b, c}
    Limits = {2, 3}
    ReleaseThrows = TRUE
    MaxQueued = 1
    MaxUnread = 2
INVARIANTS
    ReuseBounded
    KeptIsCounted
    CachesAccounted
PROPERTIES
    EvictsAnother
    KeepsPromise
    Answered
