\* a main flow and a parallel one, four questions, two runs; the bounds end it
CONSTANTS
    Flows = {f1, f2}
    MaxAsks = 4
    MaxRuns = 2
SPECIFICATION FairQuestions
INVARIANTS QuestionsInv
PROPERTIES QuestionsEnd
CHECK_DEADLOCK FALSE
