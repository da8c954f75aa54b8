\* The legacy project is deleted and the process restarts.
SPECIFICATION RestartSpec
CONSTANTS
    None = None
    RootStore = rootStore
    Legacy = legacy
    Project = {legacy, p1}
    Event = {e1}
    Thread = {t1}
    Slot = {s1, s2}
    MaxViews = 1
    MaxRevision = 2
    Offered = {"clear"}
    Fault = {"crash"}
PROPERTIES
    Reopens
