\* One recording that is edited and stopped, its agent, a killed agent and a
\* dead API.
SPECIFICATION FairSpec
CONSTANTS
    Legacy = legacy
    Project = {legacy, p1}
    Asked = {p1}
    Client = {c1}
    MaxSession = 1
    MaxSegment = 2
    MaxEdits = 2
    Env = {"timeout", "limit", "kill", "crash"}
\* The one project requests are made about can be deleted, and bounds end.
CHECK_DEADLOCK FALSE
INVARIANTS
    TypeOK
    LeftOutStaysOut
    TakenStaysOut
    AuditedTruly
    NoStrayAgent
PROPERTIES
    AgentWindsDown
    StopCompletes
