SPECIFICATION Spec
CONSTANTS
    Kinds <- AllKinds
    MaxRequests = 1
    Clients = {"waits"}
    ThreadNums = {0}
    Partial = TRUE
INVARIANT PartialIsHandled
CHECK_DEADLOCK FALSE
