\* A probe whose context ends.
SPECIFICATION Spec
CONSTANTS
    p1 = p1
    p2 = p2
    None = None
    Caller = {p1}
    MayTrap = TRUE
INVARIANTS TimeoutSaysNothing
\* Every caller has returned at the end.
CHECK_DEADLOCK FALSE
