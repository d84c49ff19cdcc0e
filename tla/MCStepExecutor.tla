-------------------------- MODULE MCStepExecutor --------------------------
(* Recipes for model checking StepExecutor: each exercises a few step kinds  *)
(* in the combinations that interact with pause, stop and failure.           *)
EXTENDS StepExecutor

Out1(b) == [op |-> "OUT", out |-> "clamp", on |-> b]

\* Sequential: a delayed output, an input wait and a nested CALL in a loop.
Cycle ==
    [Main |-> <<[op |-> "CALL", seq |-> "Pick"],
                [op |-> "OUTD", out |-> "clamp", on |-> FALSE],
                [op |-> "JMP", to |-> 1]>>,
     Pick |-> <<Out1(TRUE), [op |-> "IN"], [op |-> "END"]>>]

\* Sequential: a motion, a position wait, a calculation, a latched output and a
\* CALL of itself that exceeds the depth.
Deep ==
    [Main |-> <<[op |-> "OUT", out |-> "lamp", on |-> TRUE],
                [op |-> "POS"], [op |-> "WPOS"], [op |-> "DAT"],
                [op |-> "COMMENT"], [op |-> "HOLD"], Out1(TRUE), [op |-> "CALL", seq |-> "Main"]>>]

\* Two parallel flows beside a main flow that waits.
Parallel ==
    [Main |-> <<[op |-> "PCALL", seq |-> "A"], [op |-> "PCALL", seq |-> "B"],
                [op |-> "TMR"]>>,
     A |-> <<[op |-> "POS"], Out1(TRUE)>>,
     B |-> <<[op |-> "IN"], [op |-> "DAT"]>>]

\* A parallel flow that a motion keeps busy beyond the end of its run, so that
\* the next run may begin beside it.
Straggler ==
    [Main |-> <<[op |-> "PCALL", seq |-> "A"]>>,
     A |-> <<[op |-> "POS"], Out1(TRUE)>>]

AllRecipes == {Cycle, Deep, Parallel, Straggler}
============================================================================
