\* three slots, two variables, two values written one by one at most
CONSTANTS
    Items = {x, y}
    NumAddresses = 3
    Values = {0, 1}
    AutoItems = {x}
    Threshold = 1
    MaxChanges = 2
    MaxLosses = 1
SPECIFICATION FairSpec
INVARIANTS MirrorInv
PROPERTIES CommitIsLast Converges
CHECK_DEADLOCK FALSE
