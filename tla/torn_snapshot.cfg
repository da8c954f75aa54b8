\* The SELECTs of one load see different commits.
SPECIFICATION Spec
CONSTANTS
    None = None
    RootStore = rootStore
    Legacy = legacy
    Project = {legacy}
    Event = {e1}
    Thread = {t1, t2}
    Slot = {s1, s2, s3}
    MaxViews = 1
    MaxRevision = 3
    Offered = {"append", "label"}
    Fault = {}
SYMMETRY Symmetry
INVARIANTS
    SelfConsistentSnapshot
