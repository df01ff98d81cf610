\* Two runs: one meets the end of the loop while it writes its sentence.
SPECIFICATION SessionSpec
CONSTANTS
    r1 = r1
    r2 = r2
    l1 = l1
    None = None
    Runners = {r1, r2}
    Listeners = {}
    Queue = 0
    MaxTag = 4
    MaxRows = 0
    CancelTarget <- NoTarget
    MayStall = FALSE
    MayFail = FALSE
    Overlap = FALSE
PROPERTIES CtxReturns
\* A client whose calls have all returned has nothing left to do.
CHECK_DEADLOCK FALSE
