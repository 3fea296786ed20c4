\* A behaviour ends when its calls have returned and the servers are done.
CHECK_DEADLOCK FALSE
CONSTANTS
    best = best
    range = range
    picked = picked
    first = first
    queued = queued
    direct = direct
    s1 = s1
    s2 = s2
    NoServer = NoServer
    Requests <- MCRequests
    Servers <- MCServers
    ChannelSize = 1
    Method <- MCMethod
    Selection <- MCSelection
    Affinities <- MCAffinities
    Locking <- NoneLocking
    Mixes <- AloneOrShared
    MayClose <- SomeMayClose
SPECIFICATION Spec
CONSTRAINT OneMix
SYMMETRY ServerSymmetry
INVARIANTS
    TypeOK
    OneExecutor
    UnselectedNeverRuns
    OnlyMalformedWhileSelecting
    BestClaimWins
    BlocksOnlyIfOverrun
PROPERTIES
    ImplementsAtMostOnce
