\* a loss seen by a caller while the heartbeat waits for the lock
CONSTANTS
    Callers = {c}
    Comm = comm
    NoThread = none
    NumLoops = 2
    MaxConnects = 1
    MayRush = FALSE
SPECIFICATION Spec
INVARIANTS CommunicationSurvives
CHECK_DEADLOCK FALSE
