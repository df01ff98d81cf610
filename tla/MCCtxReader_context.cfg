\* A context that ends, and no Close.
SPECIFICATION Spec
CONSTANTS
    MaxChunks = 2
    MaxClose = 0
PROPERTIES CtxEndsLoop
CHECK_DEADLOCK FALSE
