\* Sweeps of both drivers. An exterior one has a depth of 1, 2 or 4 by memory, of
\* 1, 3 or 7 by the environment; a coupled one may start its pipeline at
\* frequency 4, 5 or 6.
SPECIFICATION LiveSpec
CONSTANTS
    Frequencies = 7
    Drivers = {TRUE, FALSE}
    SystemBytes = 1
    AvailableBytes = {0, 8, 99}
    Overrides = {0, 3, 9}
INVARIANTS
    TypeOK
    PairedInOrder
    TakeSucceeds
    NoLeak
    CachesOutliveProducer
    CompletedIsComplete
PROPERTIES
    SweepReturns
