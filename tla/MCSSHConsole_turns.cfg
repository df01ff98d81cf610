\* Callers take turns on a connection whose device may be silent.
SPECIFICATION SpecSC
CONSTANTS
    p1 = p1
    p2 = p2
    p3 = p3
    None = None
    Caller = {p1, p2, p3}
    CtxEnds = {p3}
    MaxClose = 1
    Validator = {p3}
    Quote = Quote
    Backslash = Backslash
    Blank = Blank
    Tick = Tick
    Equals = Equals
    Newline = Newline
    Dollar = Dollar
    Break = Break
    char1 = char1
    char2 = char2
    Plain = {char1, char2}
    Line <- Lines
    MaxValue = 2
    k1 = k1
    k2 = k2
    Key = {k1, k2}
    Known = {k1}
INVARIANTS IInv VerdictTrue PeerTrusted Renders
PROPERTIES AllReturn CtxAborts TakesTurns
\* Every caller has returned at the end.
CHECK_DEADLOCK FALSE
