-------------------------- MODULE MCStepSequencer --------------------------
(* Recipes for StepSequencer.                                                *)
EXTENDS StepSequencer

Pos(goesOn, base) == [cmd |-> "POS", goesOn |-> goesOn, base |-> base]
Out(bit, on, delay) == [cmd |-> "OUT", bit |-> bit, on |-> on, delay |-> delay]
Inp(bit, on, now, then) == [cmd |-> "INP", bit |-> bit, on |-> on, now |-> now, then |-> then]
Tmr(hold) == [cmd |-> "TMR", hold |-> hold]
Jmp(target, always) ==
    [cmd |-> "JMP", target |-> target, always |-> always, badData |-> FALSE]
CallTo(slot, parallel) == [cmd |-> "CALL", slot |-> slot, parallel |-> parallel]
End == [cmd |-> "END"]

\* Main calls, in sequence and in parallel; a sub delays an output and calls again.
Nested == [s \in 0 .. 3 |->
    CASE s = 0 -> <<CallTo(1, FALSE), CallTo(3, TRUE), End>>
      [] s = 1 -> <<Out("y", TRUE, TRUE), CallTo(2, FALSE), End>>
      [] s = 2 -> <<Inp("x", TRUE, FALSE, "stop"), End>>
      [] s = 3 -> <<Out("y", FALSE, TRUE), End>>]

\* A move between parallel CALLs of a program that waits.
Moves == [s \in 0 .. 1 |->
    CASE s = 0 -> <<CallTo(1, TRUE), Pos(FALSE, "none"), End>>
      [] s = 1 -> <<Inp("x", TRUE, FALSE, "wait"), End>>]

\* Three parallel CALLs for two workers, one of which calls itself.
Parallel == [s \in 0 .. 2 |->
    CASE s = 0 -> <<CallTo(1, TRUE), CallTo(2, TRUE), CallTo(1, TRUE), End>>
      [] s = 1 -> <<Tmr(FALSE), Out("m", TRUE, FALSE), End>>
      [] s = 2 -> <<Inp("m", TRUE, FALSE, "go"), Out("y", FALSE, TRUE), CallTo(1, FALSE), End>>]

\* CALLs without an end, a move that goes on, a jump on a condition, a held signal.
Deep == [s \in 0 .. 1 |->
    CASE s = 0 -> <<Pos(TRUE, "ok"), Jmp(3, FALSE), CallTo(1, FALSE), Tmr(TRUE), End>>
      [] s = 1 -> <<Out("m", TRUE, FALSE), CallTo(1, FALSE), End>>]

\* Steps out of range and steps that do not exist.
Wrong == [s \in 0 .. 2 |->
    CASE s = 0 -> <<CallTo(2, TRUE), Jmp(2, FALSE), CallTo(1, FALSE), CallTo(7, FALSE), End>>
      [] s = 1 -> <<Inp("x", FALSE, TRUE, "wait"), [cmd |-> "NOP"], End>>
      [] s = 2 -> <<[cmd |-> "JMP", target |-> SlotSteps, always |-> FALSE, badData |-> FALSE],
                    [cmd |-> "DAT", bad |-> FALSE], [cmd |-> "DAT", bad |-> TRUE]>>]

Base == [s \in 0 .. 0 |->
    <<Jmp(2, FALSE), Pos(FALSE, "bad"), Jmp(4, FALSE),
      [cmd |-> "JMP", target |-> 4, always |-> FALSE, badData |-> TRUE], [cmd |-> "BAD"]>>]

\* A full slot whose last step is a CALL: its program goes on at the first.
Full == [s \in 0 .. 1 |->
    CASE s = 0 -> <<Jmp(4, FALSE), End, End, Jmp(4, TRUE), CallTo(1, FALSE)>>
      [] s = 1 -> <<Out("y", TRUE, TRUE), End>>]

Recipes == {Nested, Moves, Parallel, Deep, Wrong, Base, Full}

YXZ == <<"y", "x", "z">>
Places221 == [x |-> 2, y |-> 2, z |-> 1]
============================================================================
