SPECIFICATION Spec
CONSTANTS
    Invocations <- EarlyExit
    Known <- MCKnown
    AnySpeed = FALSE
INVARIANT LeftReady
CHECK_DEADLOCK FALSE
