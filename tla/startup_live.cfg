\* Calls come to an end although a child may hang while it starts.
SPECIFICATION LiveSpec
CONSTANTS
    s1 = s1  e1 = e1  x1 = x1
    None = None
    Submits = {s1}
    Fields = {}
    Chatty = {}
    Ensures = {e1}
    Terminations = {x1}
    Holds = {}
    Timers = {}
    Announcements = {"reclaim"}
    ThreadedClose = FALSE
    MaxConfigure = 0
PROPERTIES
    TerminateReturns
    StartupEnds
