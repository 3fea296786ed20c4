\* Everyone has published, and closed or not: nothing has to follow.
CHECK_DEADLOCK FALSE
CONSTANTS
    p1 = p1
    p2 = p2
    s1 = s1
    s2 = s2
    s3 = s3
    None = None
    Publishers <- OnePublisher
    Subscribers <- TwoSubscribers
    Size = 1
    Messages = 1
SPECIFICATION FairSpec
PROPERTIES
    PublishEnds
