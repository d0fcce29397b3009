SPECIFICATION FairSpec
CONSTANTS
    none = none
    r1 = r1
    r2 = r2
    overlapping = overlapping
    Debounce = 2
    MaxWait = 3
    TickCap = 1
    MaxCount = 1
    Repositories = {r1, r2, overlapping}
    Unusable = {overlapping}
    Noisy = FALSE
    None = none
    MaxChanges = 3
    MaxCommands = 3
    MaxFaults = 2
INVARIANTS
    NoChangeIsLost
    RunsStayInRepository
PROPERTY ChangesAreObserved
CHECK_DEADLOCK FALSE
