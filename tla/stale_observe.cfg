\* A consumer that was terminated while it held an event marks the worker.
SPECIFICATION Spec
CONSTANTS
    s1 = s1  s2 = s2  x1 = x1  t1 = t1  t2 = t2
    None = None
    Submits = {s1, s2}
    Fields = {}
    Chatty = {}
    Ensures = {}
    Terminations = {x1}
    Holds = {}
    Timers = {t1, t2}
    Announcements = {"reclaim"}
    ThreadedClose = FALSE
    MaxConfigure = 1
SYMMETRY Symmetry
INVARIANTS
    RetentionRemembered
