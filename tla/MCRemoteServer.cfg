SPECIFICATION MCSpec
CONSTANTS
    alice = alice
    bob = bob
    noname = noname
    none = none
    free = free
    root = root
    photos = photos
    c1 = c1
    c2 = c2
    c3 = c3
    d1 = d1
    d2 = d2
    d3 = d3
    Names = {alice, bob}
    NoName = noname
    SnapshotIds = {1, 2}
    NoRow = free
    NoParent = root
    Lineages = {photos}
    MaxChainGeneration = 1
    MaxUserId = 2
    MaxTime = 1
    Conns = {c1, c2}
    Dirs = {d1, d2, d3}
    None = none
    MaxFaults = 2
    MaxCrashes = 1
SYMMETRY Symmetry
INVARIANTS
    RowsAndFilesAgree
    SessionsKeepTheirAccount
    RowsKeepTheirBytes
PROPERTY StoreSpec
