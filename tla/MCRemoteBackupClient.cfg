SPECIFICATION ClientSpec
CONSTANTS
    Names = {alice}
    NoName = NoName
    SnapshotIds <- SnapshotSerials
    NoRow = NoRow
    NoParent = 0
    Lineages = {documents}
    MaxChainGeneration = 2
    MaxUserId = 1
    MaxTime = 2
    Machines = {m1, m2}
    MaxArchives = 3
    Restored = {2}
    SameSecond = FALSE
SYMMETRY MachinesAreAlike
INVARIANTS
    MaterialIsTheServers
    RowsLinkTheirArchives
CHECK_DEADLOCK FALSE
