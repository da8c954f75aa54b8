\* A view cached between a revision-bound request and its commit stays.
SPECIFICATION Spec
CONSTANTS
    None = None
    RootStore = rootStore
    Legacy = legacy
    Project = {legacy}
    Event = {e1}
    Thread = {t1, t2}
    Slot = {s1, s2, s3}
    MaxViews = 1
    MaxRevision = 2
    Offered = {"append"}
    Fault = {}
SYMMETRY Symmetry
INVARIANTS
    NoStaleRefresh
