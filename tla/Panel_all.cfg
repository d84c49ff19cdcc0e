\* two readings of the line to settle, at most four commands that wait
CONSTANTS
    DebounceCount = 2
    QueueMax = 2
SPECIFICATION FairSpec
INVARIANTS PanelInv
PROPERTIES EstopStops
