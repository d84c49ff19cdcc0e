\* seven recipes, slots of five steps; one delayed output an instance, three commands of the operator
CONSTANTS
    Programs <- Recipes
    Internal = {"m"}
    SlotSteps = 5
    Delays = 1
    Depth = 3
    Order <- YXZ
    Count <- Places221
    MaxOps = 3
SPECIFICATION FairSequencer
INVARIANTS SequencerInv WorkersRunCalls
PROPERTIES OutputsQuietAfterStop ErrorStopsAll
