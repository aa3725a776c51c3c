SPECIFICATION Spec
CONSTANTS
    Pushers = {"p1"}
    Pullers = {}
    Closers = {"c1"}
    Tuners = {}
    Holders = {}
    CloseCalls = {"force", "grace"}
    Kinds = {"handled"}
    IntervalArgs = {}
    Blocks = 2
    MaxSessions = 1
    MaxQueue = 1
    MaxId = 2
    MaxNet = 1
    MaxRecv = 1
INVARIANTS NoLostPush IdsStayFresh
 
