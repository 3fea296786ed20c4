\* Nothing follows once everything is closed or panicked.
CHECK_DEADLOCK FALSE
CONSTANTS
    h1 = h1
    h2 = h2
    c1 = c1
    c2 = c2
    d1 = d1
    q1 = q1
    k = k
    None = None
    Handlers <- TwoHandlers
    Key <- OneKey
    Closers <- TwoClosers
    Forced <- Forces
    Removers <- OneRemover
    Removed <- RemovedKeys
    Requests <- OneRequest
    Target <- Targets
SPECIFICATION FairSpec
INVARIANTS
    BegunRequestsFinish
    ReturnedCloseIsDone
    MapHoldsLiveHandlers
    LostOnlyByRace
    OnlyRacingOpensOutlive
PROPERTIES
    CloseReturns
