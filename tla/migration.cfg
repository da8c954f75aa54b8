\* Two processes open one data directory; two faults of any kind.
SPECIFICATION FairSpec
CONSTANTS
    None = None
    Partial = Partial
    Process = {p1, p2}
    Key = {k1, k2, k3}
    Latest = 4
    Fault = {"crash", "step", "busy", "disk", "key"}
    MaxFaults = 2
INVARIANTS
    TypeOK
    OneKeyPerDatabase
    CleanedMeansGone
    KeyKept
PROPERTIES
    ImplementsStartup
    Recovers
