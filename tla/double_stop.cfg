\* Two stops of one recording, then a second recording.
SPECIFICATION Spec
CONSTANTS
    Legacy = legacy
    Project = {legacy, p1}
    Asked = {p1}
    Client = {c1, c2}
    MaxSession = 2
    MaxSegment = 1
    MaxEdits = 0
    Env = {}
\* The one project requests are made about can be deleted, and bounds end.
CHECK_DEADLOCK FALSE
SYMMETRY Symmetry
INVARIANTS
    NoStrayAgent
