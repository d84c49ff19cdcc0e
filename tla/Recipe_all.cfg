\* two moves, two points, two timers, two steps with variables, w a TMR step; a file of
\* this version, an old one
CONSTANTS
    Moves = {m1, m2}
    Points = {p, q}
    Coords = {0, 1}
    Timers = {t, u}
    Secs = {1, 2}
    Uses = {i, w}
    Held = {w}
    MaxIds = 2
    Files = {A, L}
    Legacy = {L}
    None = none
    MaxChanges = 3
SPECIFICATION FairSpec
INVARIANTS  GoesWhereShownApart
PROPERTIES ReloadKeepsGoals ChangesReachFile
