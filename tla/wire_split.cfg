SPECIFICATION Spec
CONSTANTS
    Names <- MCNames
    ArgNames <- MCArgNames
    Values <- MCValues
    SendSizes = {3}
    RecvSizes = {0}
    MaxSizes = {0}
    ShortCounts = {}
    Handled = {}
    Split = TRUE
    MaxNesting = 4
    MaxArgs = 0
    MaxWire = 11
    MaxPush = 1
    MaxSessions = 1
INVARIANT LengthReceived
CHECK_DEADLOCK FALSE
