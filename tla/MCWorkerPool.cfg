SPECIFICATION FairSpec
CONSTANTS
    w1 = w1
    w2 = w2
    c1 = c1
    c2 = c2
    c3 = c3
    none = none
    Workers = {w1, w2}
    Clients = {c1, c2, c3}
    Endless = {}
    Requests <- OneRequest
    NoClient = none
INVARIANTS
    SlotsAreConnections
    ReturnedMeansDrained
PROPERTY EverybodyIsServed
CHECK_DEADLOCK FALSE
