SPECIFICATION FairSpec
CONSTANTS
    c1 = c1
    c2 = c2
    h1 = h1
    nobody = nobody
    owner = owner
    Conns = {c1, c2}
    Holders = {h1}
    Callers = {owner}
    Owner = owner
    Nobody = nobody
    Limits = {1}
    SetAtStart = {"connected", "disconnected"}
    MaxStarts = 1
PROPERTY StoppedIsReaped
PROPERTY RoomIsUsed
PROPERTY StopStops
PROPERTY StopReturns
