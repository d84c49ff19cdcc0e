\* four recipes, one restart, at most four threads
CONSTANTS
    Recipes <- AllRecipes
    Outputs = {"clamp", "lamp"}
    ResetOutputs = {"clamp"}
    NumThreads = 4
    MaxStarts = 2
    MaxDepth = 1
SPECIFICATION FairSpec
INVARIANTS ExecutorInv AtMostOneMoreEffect SequentialOutputsOff
PROPERTIES CompleteMeansAll StopEndsRun FailureEndsRun
CHECK_DEADLOCK FALSE
