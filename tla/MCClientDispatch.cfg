\* The client is closed, or not, and everything has returned or is stuck.
CHECK_DEADLOCK FALSE
CONSTANTS
    c1 = c1
    t1 = t1
    None = None
    Calls <- OneCall
    Streams <- OneStream
    Answers <- FewAnswers
    Size = 1
    Locking <- AllLocking
SPECIFICATION Spec
INVARIANTS
    InOrder
    MetricsTrue
    RestsWhenDone
