\* A solve, a field evaluation, an application hold and idle reclamation.
SPECIFICATION Spec
CONSTANTS
    s1 = s1  f1 = f1  h1 = h1  t1 = t1  t2 = t2
    None = None
    Submits = {s1, f1}
    Fields = {f1}
    Chatty = {}
    Ensures = {}
    Terminations = {}
    Holds = {h1}
    Timers = {t1, t2}
    Announcements = {"reclaim", "basic"}
    ThreadedClose = FALSE
    MaxConfigure = 2
SYMMETRY Symmetry
INVARIANTS
    TimerMeansIdle
    HoldsCounted
    RetentionRemembered
    OneCommand
