\* Two sentences over a stream that may fail.
SPECIFICATION Spec
CONSTANTS
    None = None
    Sentences <- BoundarySentences
    MaxSentences = 2
    MayFail = TRUE
INVARIANTS RoundTrip NilVouches
PROPERTIES AcceptedArrives
\* Everything has been written and read at the end.
CHECK_DEADLOCK FALSE
