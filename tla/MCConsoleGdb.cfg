SPECIFICATION Spec
CONSTANTS
    Platform = "linux"
    MaxSize = 2
    MinWrite = 1
    MinusOne <- MCMinusOne
    GdbFaults = {"accept"}
PROPERTY CallReturns
CHECK_DEADLOCK FALSE
