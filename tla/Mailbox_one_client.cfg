\* one pendant process, servo errors, simultaneous moves: what DONE means.
\* MaxIssued = SeqMax: no 65535 commands given up while one is in progress.
CONSTANTS
    SeqMax = 4
    Commands = {"PULSE", "MOVE", "MOVE_NOWAIT", "HOME", "RESET", "BAD"}
    MaxIssued = 4
    MotionErrors = TRUE
    Restarts = FALSE
SPECIFICATION Spec
INVARIANTS PulsesAreTimed
PROPERTIES DoneMeansHandled DoneMeansFinished
CHECK_DEADLOCK FALSE
