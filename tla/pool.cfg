\* Two clients, two reservations, a shutdown, and one stop that times out.
SPECIFICATION Spec
CONSTANTS
    c1 = c1  c2 = c2  r1 = r1  r2 = r2  s1 = s1  w1 = w1  w2 = w2
    None = None
    Clients = {c1, c2}
    Reservers = {r1, r2}
    Stoppers = {s1}
    Workers = {w1, w2}
    Asks <- MCAsks
    Environs <- MCEnvirons
    Cpus = 1
    MaxStuck = 1
SYMMETRY Symmetry
INVARIANTS
    TypeOK
    HoldsBalanced
    SettingsMatch
    ShutdownStops
PROPERTIES
    NoReclaimReserved
