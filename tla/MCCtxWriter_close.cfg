\* Reads and a command's writes, a cancelled context and two calls of Close.
SPECIFICATION SpecIO
CONSTANTS
    MaxChunks = 3
    MaxClose = 2
    MaxWrites = 2
INVARIANTS WriterTypeOK CloseIdempotent NothingEaten BufferAlone
PROPERTIES CloseUnblocks CloseReleasesWrite
\* asyncLoop may have ended, and the process may have panicked.
CHECK_DEADLOCK FALSE
