SPECIFICATION Spec
CONSTANTS
    Platform = "linux"
    MaxSize = 2
    MinWrite = 1
    MinusOne <- MCMinusOne
    GdbFaults = {}
INVARIANTS
    TypeOK
    HalvesAgree
PROPERTIES
    RpcSpec
    CallReturns
