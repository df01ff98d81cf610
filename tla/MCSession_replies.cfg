\* A run and a listener over one connection that may break.
SPECIFICATION SessionSpec
CONSTANTS
    r1 = r1
    r2 = r2
    l1 = l1
    None = None
    Runners = {r1}
    Listeners = {l1}
    Queue = 1
    MaxTag = 4
    MaxRows = 1
    CancelTarget <- NoTarget
    MayStall = FALSE
    MayFail = TRUE
    Overlap = FALSE
INVARIANTS AllRows CancelIsClean NothingLeftRunning
PROPERTIES AnswersRuns
\* A client whose calls have all returned has nothing left to do.
CHECK_DEADLOCK FALSE
