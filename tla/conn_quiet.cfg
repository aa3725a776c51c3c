SPECIFICATION FairSpec
CONSTANTS
    Pushers = {}
    Pullers = {"u1"}
    Closers = {}
    Tuners = {"i1"}
    Holders = {}
    CloseCalls = {}
    Kinds = {"_", "queued", "oversized"}
    IntervalArgs = {0}
    Blocks = 1
    MaxSessions = 1
    MaxQueue = 1
    MaxId = 2
    MaxNet = 1
    MaxRecv = 1
INVARIANTS TypeOK
PROPERTIES SilentPeerDropped WaitingPullReleased
CHECK_DEADLOCK FALSE
