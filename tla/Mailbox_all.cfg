\* every fault: losses, late packets, timeouts, servo errors and restarts
CONSTANTS
    SeqMax = 2
    Commands = {"PULSE", "MOVE", "MOVE_NOWAIT", "RESET", "STOP"}
    MaxIssued = 3
    MotionErrors = TRUE
    Restarts = TRUE
SPECIFICATION Spec
INVARIANTS SeqInv
PROPERTIES ImplementsCommandLog
CHECK_DEADLOCK FALSE
