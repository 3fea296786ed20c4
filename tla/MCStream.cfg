\* A stream that is closed at both ends stops.
CHECK_DEADLOCK FALSE
CONSTANTS
    m1 = m1
    m2 = m2
    Messages <- TwoMessages
    From <- FromEach
    Malformed <- OneMalformed
    Size = 1
SPECIFICATION FairSpec
INVARIANTS
    RecvChanClosedOnce
    SentWasReceivedOrAbandoned
    NothingPendingAfterClose
    CauseIsShared
PROPERTIES
    ClosesAndSendsReturn
    PeerLearns
    CloseIsObserved
