\* Everyone has published, and subscribed or not.
CHECK_DEADLOCK FALSE
CONSTANTS
    c1 = c1
    c2 = c2
    m1 = m1
    m2 = m2
    m3 = m3
    f1 = f1
    s1 = s1
    s2 = s2
    s3 = s3
    handler = handler
    dispatcher = dispatcher
    None = None
    Channels <- OneChannel
    Messages <- OneMessage
    Foreign <- Nobody
    Channel <- OnC1
    Readers <- TwoReaders
    Leavers <- TheDispatcher
    Author <- AnswerOfHandler
    Subscribers <- TwoSubscribers
    On <- ExceptS3OnC1
    Reader <- HandlerOfS1
    Queue <- OnlyS1Queue
    Size = 1
    Failures = 1
SPECIFICATION Spec
INVARIANTS
    CarriedOut
