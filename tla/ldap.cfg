SPECIFICATION Spec
CONSTANTS
    Users = {alice, bob}
    Callers = {c1, c2}
    Keys = {k1}
    Absent = absent
    Failed = failed
    CacheTTL = 1
    NegativeCacheTTL = 0
    StaleGrace = 1
    MaxCall = 1
    MaxTime = 2
    MaxChanges = 1
    MaxFaults = 1
SYMMETRY Symmetry
INVARIANTS TypeOK FlightsLed
PROPERTIES ImplementsSource SoftFail
