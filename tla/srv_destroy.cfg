SPECIFICATION Spec
CONSTANTS
    c1 = c1
    nobody = nobody
    owner = owner
    Conns = {c1}
    Holders = {}
    Callers = {owner}
    Owner = owner
    Nobody = nobody
    Limits = {}
    SetAtStart = {"connected", "disconnected"}
    MaxStarts = 1
INVARIANT DestroyedIsUnused
