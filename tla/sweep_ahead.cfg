\* An exterior sweep whose depth is 2 by memory.
SPECIFICATION Spec
CONSTANTS
    Frequencies = 6
    Drivers = {FALSE}
    SystemBytes = 1
    AvailableBytes = {8}
    Overrides = {}
INVARIANTS
    AtMostDepthAhead
