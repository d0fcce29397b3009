SPECIFICATION PartSpec
CONSTANTS
    alice = alice
    none = none
    free = free
    root = root
    photos = photos
    mail = mail
    Names = {alice, 2}
    Pids = {1, 2}
    Nobody = 0
    NoName = none
    SnapshotIds = {1, 2, 3}
    NoRow = free
    NoParent = root
    Lineages = {photos, mail}
    MaxChainGeneration = 2
    MaxUserId = 3
    MaxTime = 1
    LastSequence = 2
    MaxConnections = 2
    MaxFaults = 2
    MaxInFlight = 2
INVARIANTS
    RowsAreSound
    StreamIsAPrefix
    EstablishedMeansAgreed
    CountersAreUsedOnce
    OneWriter
PROPERTIES
    DeletedIdsStayDead
    OperatorDeletesWhatHeSaw
CHECK_DEADLOCK FALSE
