\* Everyone has published, and subscribed or not.
CHECK_DEADLOCK FALSE
CONSTANTS
    a1 = a1
    a2 = a2
    b = b
    q = q
    d = d
    m1 = m1
    m2 = m2
    part = part
    here = here
    there = there
    None = None
    Subscribers <- AllKinds
    Server <- SameServer
    Local <- Locals
    Queue <- OneQueue
    Messages <- TwoMessages
    Size = 1
SPECIFICATION Spec
CONSTRAINT Crowd
SYMMETRY Symmetry
INVARIANTS
    RoutersAgree
    RoutedNeverPanics
    Delivered
    RestsWhenDone
