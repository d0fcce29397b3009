SPECIFICATION PageSpec
CONSTANTS
    cloud = cloud
    other = other
    none = none
    alice = alice
    bob = bob
    Servers = {cloud, other}
    Official = cloud
    Nil = none
    UserNames = {alice, bob}
    MaxPortRetries = 1
INVARIANTS
    BusyMeansAtWork
    PageShowsOneAccount
    TunnelsLeadWhereAsked
PROPERTY
    OperationsEnd
CHECK_DEADLOCK FALSE
