SPECIFICATION FairSpec
CONSTANTS
    Names <- MCNames
    ArgNames <- MCArgNames
    Values <- MCValues
    SendSizes = {3}
    RecvSizes = {0}
    MaxSizes = {0}
    ShortCounts = {5}
    Handled <- MCNames
    Split = FALSE
    MaxNesting = 4
    MaxArgs = 2
    MaxWire = 23
    MaxPush = 2
    MaxSessions = 2
INVARIANTS TypeOK BufferFits RoundTrip  NoByteLost
 

CHECK_DEADLOCK FALSE
