SPECIFICATION ClientSpec
CONSTANTS
    Names = {alice}
    NoName = NoName
    SnapshotIds <- SnapshotSerials
    NoRow = NoRow
    NoParent = 0
    Lineages = {documents}
    MaxChainGeneration = 1
    MaxUserId = 1
    MaxTime = 0
    Machines = {m1, m2}
    MaxArchives = 3
    Restored = {1, 2}
    SameSecond = TRUE
SYMMETRY MachinesAreAlike
INVARIANT MaterialIsTheServers
CHECK_DEADLOCK FALSE
