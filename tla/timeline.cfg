\* One project: imports, two edits, an analysis.
SPECIFICATION Spec
CONSTANTS
    Tolerance = 1
    Brief = 2
    Lengthy = 4
    Slow = 2
    Files <- MCFiles
    Stored <- MCStored
    Bucket = {1}
    Observation <- MCObservation
    Modes = {"replace", "skip_duplicates"}
    Activity <- MCActivity
    CaseName = {"A", "B"}
    App <- MCApp
    Gaps = {0, 2}
    SplitAt = {1}
    Label = {"l"}
    MaxEdits = 2
    MaxWatched = 0
    MaxObserved = 2
\* The bounds stop every behaviour.
CHECK_DEADLOCK FALSE
INVARIANTS
    TypeOK
    TimeAddsUp
    SessionsAreConnected
    NoInventedFlow
    ResultsAgree
    NothingLeftOut
    AnswersItsSnapshot
PROPERTIES
    OthersUntouched
    EditsKeepTime
    RetriesAddNothing
