\* two signals and commands wait when a step begins; the flows and the pause apart from
\* the Monitor program
CONSTANTS
    QueueMax = 2
    Scenes = {"flows", "monitor"}
SPECIFICATION FairSpec
INVARIANTS ModesInv ModeReachesPlc StopBitHolds
PROPERTIES MonitorReturns ModeEnds
CHECK_DEADLOCK FALSE
