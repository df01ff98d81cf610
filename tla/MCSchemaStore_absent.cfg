\* An override of a command that inspect cannot resolve.
SPECIFICATION Spec
CONSTANTS
    print = print
    gone = gone
    n1 = n1
    n2 = n2
    n3 = n3
    n3eq = n3eq
    punct = punct
    descr = descr
    find = find
    p1 = p1
    p2 = p2
    None = None
    Caller = {p1}
    Cmd = {gone}
    Served = {}
    FieldVerb = {}
    Late = {n3}
    Overridable = {gone}
    Registrable = {"action", "table"}
    Token = {print, gone, n1, n2, n3, n3eq, punct, descr, find}
    Structural = {punct}
    BeforeEq <- UpToEq
    CmdVerb <- VerbOf
    ChildNodes <- Child
    PathNodes <- Path
    ExtraRows <- Extra
    FieldRows <- Field
    Attrs <- AttrsOf
    MayTrap = FALSE
    TTL = 1
    MaxTime = 1
SYMMETRY CallerSymmetry
INVARIANTS OverrideWins
