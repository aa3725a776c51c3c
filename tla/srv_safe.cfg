SPECIFICATION Spec
CONSTANTS
    c1 = c1
    c2 = c2
    h1 = h1
    nobody = nobody
    owner = owner
    t1 = t1
    Conns = {c1, c2}
    Holders = {h1}
    Callers = {owner, t1}
    Owner = owner
    Nobody = nobody
    Limits = {0, 1}
    SetAtStart = {"connected"}
    MaxStarts = 1
INVARIANT TypeOK
INVARIANT ListIsExact
INVARIANT NothingLeftBehind
INVARIANT OneLateAdmission
PROPERTY ConnectionsKeepLifecycle
PROPERTY WaitMeansStopped
