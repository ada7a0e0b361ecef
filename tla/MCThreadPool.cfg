SPECIFICATION Spec
CONSTANTS
    MaxThreads = 4
    MaxConnections = 4
CHECK_DEADLOCK FALSE
INVARIANTS HandedToRunning SignalNotMissed Balanced
PROPERTIES ComesUp
