\* One project, two requests, every fault and a restart.
SPECIFICATION Spec
CONSTANTS
    None = None
    RootStore = rootStore
    Legacy = legacy
    Project = {legacy}
    Event = {e1}
    Thread = {t1, t2}
    Slot = {s1, s2, s3, s4}
    MaxViews = 2
    MaxRevision = 2
    Offered = {"append", "label", "exclude", "clear"}
    Fault = {"write", "unconfirmed", "close", "read", "crash"}
SYMMETRY Symmetry
INVARIANTS
    Coherent
    RefusedMeansUnchanged
    OneViewPerProject
PROPERTIES
    ImplementsWorkspace
    NeverReseeds
