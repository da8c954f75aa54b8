\* Two recordings of one project, overlapping stops, an edit or a deletion.
SPECIFICATION Spec
CONSTANTS
    Legacy = legacy
    Project = {legacy, p1}
    Asked = {p1}
    Client = {c1, c2}
    MaxSession = 2
    MaxSegment = 1
    MaxEdits = 1
    Env = {"write", "unconfirmed", "recache", "kill"}
\* The one project requests are made about can be deleted, and bounds end.
CHECK_DEADLOCK FALSE
SYMMETRY Symmetry
INVARIANTS
    EventsInTheirProject
    RecordedProjectLives
    AcknowledgedIsKept
    AuditSound
