\* A run and a listener: replies, cancels, Close, connection loss, Async.
SPECIFICATION Spec
CONSTANTS
    r1 = r1
    l1 = l1
    None = None
    Runners = {r1}
    Listeners = {l1}
    Queue = 1
    MaxTag = 3
    MaxRows = 1
INVARIANTS NoOrphan NoCrossTalk CleanEnd NoPanic IInv
PROPERTIES ReplyFrozen
\* A client whose calls have all returned has nothing left to do.
CHECK_DEADLOCK FALSE
