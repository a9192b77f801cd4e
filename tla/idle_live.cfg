\* Waiting submissions get the worker; idle caches are reclaimed in the end.
SPECIFICATION AnsweringSpec
CONSTANTS
    s1 = s1  f1 = f1  t1 = t1
    None = None
    Submits = {s1, f1}
    Fields = {f1}
    Chatty = {}
    Ensures = {}
    Terminations = {}
    Holds = {}
    Timers = {t1}
    Announcements = {"reclaim"}
    ThreadedClose = FALSE
    MaxConfigure = 1
PROPERTIES
    IdleReclaims
    SubmitReturns
