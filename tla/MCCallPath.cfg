\* The call is over.
CHECK_DEADLOCK FALSE
CONSTANTS
    Service = "Svc"
    Setups <- MCSetups
    Failures <- MCFailures
    Clients = {"CLI_1", "Get"}
    Bound = 5
SPECIFICATION Spec
INVARIANTS
    RightHandler
    ChainHolds
    ToldTrue
PROPERTIES
    RetriesEnd
