\* A solve, a field evaluation and a terminate(): startup, timeout, streams, close.
SPECIFICATION Spec
CONSTANTS
    s1 = s1  s2 = s2  x1 = x1
    None = None
    Submits = {s1, s2}
    Fields = {s2}
    Chatty = {s1}
    Ensures = {}
    Terminations = {x1}
    Holds = {}
    Timers = {}
    Announcements = {"reclaim"}
    ThreadedClose = TRUE
    MaxConfigure = 0
INVARIANTS
    TypeOK
    OneOwner
    EventsStayWithTheirJob
    CleanHandover
    NoOrphanChild
PROPERTIES
    KeepsHandle
