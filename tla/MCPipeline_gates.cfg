\* Two callers race to build the pipeline of one session.
SPECIFICATION SpecP
CONSTANTS
    p1 = p1
    p2 = p2
    attr1 = attr1
    attr2 = attr2
    None = None
    Caller = {p1, p2}
    MayTrap = FALSE
    Attr = {attr1, attr2}
    Base = {attr1}
INVARIANTS CapabilityTrue GatedRun PInv VerdictRight LoginTells
PROPERTIES AllReturn
\* Every caller has returned at the end.
CHECK_DEADLOCK FALSE
