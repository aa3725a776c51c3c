SPECIFICATION Spec
CONSTANTS
    Pushers = {}
    Pullers = {"u1", "u2"}
    Closers = {"c1"}
    Tuners = {}
    Holders = {"h1", "h2"}
    CloseCalls = {"force_wait"}
    Kinds = {"queued"}
    IntervalArgs = {}
    Blocks = 1
    MaxSessions = 2
    MaxQueue = 1
    MaxId = 2
    MaxNet = 1
    MaxRecv = 1
INVARIANTS NoLostWakeup NoLostRelease  OnePollingThread
PROPERTY KeepsLifecycle
CHECK_DEADLOCK FALSE
