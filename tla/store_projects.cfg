\* Two projects share a cache of one view; projects come and go.
SPECIFICATION Spec
CONSTANTS
    None = None
    RootStore = rootStore
    Legacy = legacy
    Project = {legacy, p1}
    Event = {e1}
    Thread = {t1, t2}
    Slot = {s1, s2, s3}
    MaxViews = 1
    MaxRevision = 2
    Offered = {"append"}
    Fault = {}
SYMMETRY Symmetry
INVARIANTS
    TypeOK
    CatalogueSound
    NoViewOfDeletedProject
