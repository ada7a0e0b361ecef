SPECIFICATION Spec
CONSTANTS
    Kinds <- AllKinds
    MaxRequests = 3
    Clients = {"waits", "pipelines"}
    ThreadNums = {0, 1}
    Partial = FALSE
INVARIANTS TypeOK AnsweredInOrder UnansweredIsBuffered ClosesAsAsked
PROPERTY WaitingClientIsAnswered
CHECK_DEADLOCK FALSE
