SPECIFICATION Spec
CONSTANTS
    Invocations <- Basic
    Known <- MCKnown
    AnySpeed = FALSE
INVARIANTS
    TypeOK
    MainsAgree
    LeftReady
    CallServed
    RunsAsAsked
    OwnScreen
PROPERTIES
    PortPutBack
    MainEnds
