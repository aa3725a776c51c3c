SPECIFICATION FairSpec
CONSTANTS
    Pushers = {"h1"}
    Pullers = {}
    Closers = {}
    Tuners = {}
    Holders = {"h1"}
    CloseCalls = {}
    Kinds = {}
    IntervalArgs = {}
    Blocks = 1
    MaxSessions = 1
    MaxQueue = 1
    MaxId = 1
    MaxNet = 1
    MaxRecv = 1
PROPERTIES DisconnectionStopsThread
CHECK_DEADLOCK FALSE
