SPECIFICATION FairSpec
CONSTANTS
    Pushers = {"p1"}
    Pullers = {}
    Closers = {"c1"}
    Tuners = {}
    Holders = {}
    CloseCalls = {"force_wait"}
    Kinds = {"_"}
    IntervalArgs = {}
    Blocks = 1
    MaxSessions = 1
    MaxQueue = 1
    MaxId = 2
    MaxNet = 1
    MaxRecv = 1
PROPERTIES PushedIsSent CallsReturn
