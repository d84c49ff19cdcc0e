\* one caller beside the communication thread, two connects, disconnects between and after
CONSTANTS
    Callers = {c}
    Comm = comm
    NoThread = none
    NumLoops = 2
    MaxConnects = 2
    MayRush = FALSE
SPECIFICATION FairSpec
INVARIANTS LinkInv
PROPERTIES RecoversApart LossDetected DisconnectEndsLoop ShownTrue
CHECK_DEADLOCK FALSE
