SPECIFICATION Spec
CONSTANTS
    Invocations <- ExternalClock
    Known <- MCKnown
    AnySpeed = FALSE
INVARIANT MainsAgree
CHECK_DEADLOCK FALSE
