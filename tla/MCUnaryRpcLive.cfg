\* A behaviour ends when its calls have returned and the servers are done.
CHECK_DEADLOCK FALSE
CONSTANTS
    best = best
    range = range
    picked = picked
    first = first
    queued = queued
    direct = direct
    s1 = s1
    s2 = s2
    NoServer = NoServer
    Requests <- LiveRequests
    Servers <- MCServers
    ChannelSize = 1
    Method <- MCMethod
    Selection <- MCSelection
    Affinities <- FewAffinities
    Locking <- ClaimsAndResponses
    Mixes <- EachAlone
    MayClose <- LiveRequests
SPECIFICATION FairSpec
CONSTRAINT OneMix
PROPERTIES
    CallReturns
    CloseCompletes
