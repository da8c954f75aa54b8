\* A recording of the legacy project, nothing fails.
SPECIFICATION FairSpec
CONSTANTS
    Legacy = legacy
    Project = {legacy, p1}
    Asked = {legacy}
    Client = {c1}
    MaxSession = 1
    MaxSegment = 1
    MaxEdits = 0
    Env = {}
\* The one project requests are made about can be deleted, and bounds end.
CHECK_DEADLOCK FALSE
PROPERTIES
    StopCompletes
