\* A listener that is cancelled by its context and by Cancel.
SPECIFICATION SessionSpec
CONSTANTS
    r1 = r1
    r2 = r2
    l1 = l1
    None = None
    Runners = {r2}
    Listeners = {l1}
    Queue = 0
    MaxTag = 4
    MaxRows = 1
    CancelTarget <- LastTarget
    MayStall = FALSE
    MayFail = TRUE
    Overlap = FALSE
PROPERTIES RunAnswered ListenerReleased CloseReleases
\* A client whose calls have all returned has nothing left to do.
CHECK_DEADLOCK FALSE
