\* A failing startup is terminated between the detaching and the stopping of
\* its child.
SPECIFICATION Spec
CONSTANTS
    s1 = s1  s2 = s2  x1 = x1
    None = None
    Submits = {s1, s2}
    Fields = {}
    Chatty = {}
    Ensures = {}
    Terminations = {x1}
    Holds = {}
    Timers = {}
    Announcements = {"reclaim"}
    ThreadedClose = FALSE
    MaxConfigure = 0
SYMMETRY Symmetry
INVARIANTS
    OneChildRuns
