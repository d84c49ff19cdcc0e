--------------------------- MODULE StepSequencer ---------------------------
(* The step sequencer of the PLC (new_plc_fb.st): one function block, three   *)
(* instances.  M runs the Main program and, on a stack of its own, what Main  *)
(* CALLs; W1 and W2 run what it CALLs in parallel.  A scan of the PLC calls   *)
(* PROGRAM, then M, W1 and W2, each once: a call loads the context on top of  *)
(* the stack, executes one state of the CASE, and saves it.                   *)
(*                                                                            *)
(* Inputs, servo bits, comparisons and how long a timer takes are chosen      *)
(* freely; words of outputs are sets of the bits that are on.                 *)
EXTENDS Integers, Sequences

CONSTANTS
    Programs,   \* recipes: from slots to sequences of steps
    Internal,   \* the internal bits among the output bits
    SlotSteps,  \* steps of a slot (100 in the code)
    Delays,     \* delayed outputs of an instance (5 in the code)
    Depth,      \* levels of the stack (4 in the code)
    Order,      \* gi_StackOrder: the axes in the order they count up
    Count,      \* gi_CountX, Y, Z
    MaxOps      \* bound: commands of the operator

Axes == {"x", "y", "z"}

\* A step as send_sequence_to_slot sends it.  An END follows every program, but where
\* a program fills its slot the END is written beyond it, so that any step may be the
\* last.  Slot 39, the Monitor program's, is left out.
Sendable(step) == step.cmd = "INP" => step.then \in {"wait", "stop", "go"}

ASSUME SequencerAssumption ==
    /\ SlotSteps \in Nat \ {0} /\ Delays \in Nat \ {0} /\ Depth \in Nat \ {0} /\ MaxOps \in Nat
    /\ Order \in [1 .. 3 -> Axes] /\ Count \in [Axes -> Nat \ {0}]
    /\ \A i, j \in 1 .. 3 : Order[i] = Order[j] => i = j
    /\ \A p \in Programs :
          /\ 0 \in DOMAIN p /\ DOMAIN p \subseteq 0 .. 38
          /\ \A s \in DOMAIN p :
                Len(p[s]) \in 0 .. SlotSteps /\ \A n \in 1 .. Len(p[s]) : Sendable(p[s][n])

VARIABLES
    prog,       \* g_SeqData: the recipe in the PLC
    turn,       \* who is called next: P (PROGRAM), M, W1, W2
    ctl,        \* i_ControlCmd: 0 stop, 1 automatic, 2 check run
    check,      \* i_CheckRunState is 1
    last,       \* PROGRAM: the command of the previous scan
    reset,      \* b_Reset of this scan
    clear,      \* b_AlarmReset of this scan
    fb,         \* the instances: context stack, timer and its input, b_BusySeen,
                \* delayed outputs, b_CheckRunPrev, b_IsBusy
    out,        \* output and internal bits that are on
    alarm,      \* b_StepAlarm, i_StepAlarmID, w_UserAlarm
    called,     \* b_ParallelStart1/2 and i_ParallelSlot1/2
    pack,       \* gi_PackIdxX, Y, Z
    ops,        \* commands given so far
    torn,       \* history: instances stopped in the middle, not reset since
    quiet,      \* history: stopped and reset, not started since
    cycles      \* history: cycles of Main, modulo the places of the pallet

progVars == <<prog, last, reset, clear, ops>>
shared == <<ctl, check, out, alarm, called, pack, torn, cycles>>
sequencerVars == <<progVars, shared, turn, fb, quiet>>

Workers == {"W1", "W2"}
FBs == {"M"} \cup Workers

States == {0, 1, 10, 11, 12, 20, 21, 30, 40, 50, 51, 60, 61, 70, 80, 99, 100, 900, 911}

---------------------------------------------------------------------------
(* Working variables of a call: those of the instance and the shared ones.   *)

Top(i) == i.ctx[Len(i.ctx)]
St(w) == Top(w.f).st
Goto(w, st) == [w EXCEPT !.f.ctx[Len(w.f.ctx)].st = st]
Timer(w, on) == [w EXCEPT !.f.start = on]
Fail(w, id) == Goto([w EXCEPT !.alarm.id = id], 900)

Empty == [cmd |-> "NOP"]

\* The step data at the slot and step on top of the stack.
StepOf(w) ==
    LET t == Top(w.f) IN
    IF t.step < Len(w.prog[t.slot]) THEN w.prog[t.slot][t.step + 1] ELSE Empty

After(step) == IF step + 1 > SlotSteps - 1 THEN 0 ELSE step + 1

\* TON, called once a scan with its input.
Ticks(t, on) ==
    IF ~on THEN {"off"} ELSE IF t = "off" THEN {"on"} ELSE IF t = "on" THEN {"on", "done"}
    ELSE {"done"}

Done(w) == w.f.tmr = "done"

Switch(on, bit, set) == IF on THEN set \cup {bit} ELSE set \ {bit}

NoDelay(d) == [k \in DOMAIN d |-> [d[k] EXCEPT !.start = FALSE, !.pend = FALSE]]

\* Section 0 of the block: Main's pulses are cleared ...
PulsesOff(c) == [w \in Workers |-> [c[w] EXCEPT !.start = FALSE]]

\* ... and the alarm reset, which also leads out of the trap.
AlarmsReset(w) ==
    LET u == [w EXCEPT !.alarm = [on |-> FALSE, id |-> 0, user |-> FALSE]]
    IN IF St(w) \in {900, 911} THEN [Goto(u, 0) EXCEPT !.left = TRUE] ELSE u

\* Section 2: the timers of delayed outputs; one that is done switches its output.
\* In the order of the table: the last one that is done decides on a bit.
Switched(d, q, set) ==
    LET fires == {k \in 1 .. Delays : d[k].pend /\ q[k] = "done"}
        lasts == {k \in fires : \A j \in fires : d[j].bit = d[k].bit => j <= k}
    IN (set \ {d[k].bit : k \in fires}) \cup {d[k].bit : k \in {k \in lasts : d[k].on}}

Delayed(w) ==
    LET d == w.f.delay IN
    {[w EXCEPT
        !.out = Switched(d, q, w.out),
        !.f.delay = [k \in 1 .. Delays |->
            IF d[k].pend /\ q[k] = "done"
            THEN [d[k] EXCEPT !.t = q[k], !.start = FALSE, !.pend = FALSE]
            ELSE [d[k] EXCEPT !.t = q[k]]]]
        : q \in {q \in [1 .. Delays -> {"off", "on", "done"}] :
                    \A k \in 1 .. Delays : q[k] \in Ticks(d[k].t, d[k].start)}}

Ready(f) ==
    LET w == [f |-> fb[f], prog |-> prog, out |-> out, alarm |-> alarm, ctl |-> ctl,
              check |-> check, pack |-> pack, cycles |-> cycles, left |-> FALSE,
              called |-> IF f = "M" THEN PulsesOff(called) ELSE called]
    IN Delayed(IF clear THEN AlarmsReset(w) ELSE w)

\* Sections 4 and 5: b_IsBusy, the context, the timer.
Shared(f, w) ==
    /\ out' = w.out /\ alarm' = w.alarm /\ ctl' = w.ctl /\ check' = w.check
    /\ called' = w.called /\ pack' = w.pack /\ cycles' = w.cycles
    /\ torn' = IF w.left THEN torn \cup {f} ELSE torn

Save(f, w) ==
    /\ \E q \in Ticks(w.f.tmr, w.f.start) :
          fb' = [fb EXCEPT ![f] = [w.f EXCEPT !.tmr = q, !.prev = check,
                                              !.busy = (St(w) # 0 \/ Len(w.f.ctx) > 1)]]
    /\ Shared(f, w)

---------------------------------------------------------------------------
(* The states of the CASE.                                                   *)

Rising(f) == check /\ ~fb[f].prev

\* b_Run: Main's comes with the automatic mode, a worker's is Main's pulse.
Starts(f, w) ==
    \/ w.ctl = 1 /\ (f = "M" \/ w.called[f].start)
    \/ w.ctl = 2 /\ Rising(f)

SlotNo(f, w) == IF f = "M" THEN 0 ELSE w.called[f].slot

\* 0, 1: an instance that starts goes on at the step it was left at.
Idle(f, w) ==
    /\ St(w) = 0
    /\ LET u == Timer(w, FALSE) IN
       Save(f, IF Starts(f, w)
               THEN Goto([u EXCEPT !.f.ctx[Len(u.f.ctx)].slot = SlotNo(f, w)], 10) ELSE u)

CheckWait(f, w) ==
    /\ St(w) = 1
    /\ Save(f, IF Rising(f) THEN Goto(w, 10) ELSE w)

Handler ==
    [POS |-> 11, OUT |-> 40, INP |-> 60, TMR |-> 50, JMP |-> 70, CALL |-> 80, DAT |-> 100]

\* The carry of the packing counter, along gi_StackOrder.
Advanced(index) ==
    LET full == {i \in 1 .. 3 : \A j \in 1 .. i : index[Order[j]] + 1 >= Count[Order[j]]}
    IN [a \in DOMAIN index |->
          IF \E i \in full : Order[i] = a THEN 0
          ELSE IF \E i \in 1 .. 3 : Order[i] = a /\ 1 .. i - 1 = full THEN index[a] + 1
          ELSE index[a]]

Places == Count["x"] * Count["y"] * Count["z"]

\* 10, END: back to the caller, whose context holds the step after the CALL, or the
\* end of a cycle.
Popped(w) == Goto([w EXCEPT !.f.ctx = SubSeq(@, 1, Len(@) - 1)], 10)

CycleEnded(f, w) ==
    Goto([w EXCEPT !.f.ctx[1].step = 0,
                   !.check = (@ /\ w.ctl # 2),
                   !.pack = IF f = "M" THEN Advanced(@) ELSE @,
                   !.cycles = IF f = "M" THEN (@ + 1) % Places ELSE @], 0)

Fetch(f, w) ==
    /\ St(w) = 10
    /\ LET cmd == StepOf(w).cmd IN
       \/ cmd \in DOMAIN Handler /\ Save(f, Goto(w, Handler[cmd]))
       \/ cmd = "END" /\ Save(f, IF Len(w.f.ctx) > 1 THEN Popped(w) ELSE CycleEnded(f, w))
       \/ cmd = "NOP" /\ Save(f, [Goto(w, 0) EXCEPT !.left = TRUE])
       \/ cmd = "BAD" /\ Save(f, Fail(w, 99))

\* 11: a packing base out of range leaves the block at once: the state is neither
\* saved (911 stands for 11 with i_SeqState 900) nor is a timer called.
BadBase(f, w) == StepOf(w).base = "bad" /\ f = "M"

MoveTable(f, w) ==
    /\ St(w) \in {11, 911}
    /\ IF BadBase(f, w)
       THEN LET u == Goto([w EXCEPT !.alarm.id = 22], 911) IN
            fb' = [fb EXCEPT ![f] = [u.f EXCEPT !.prev = check]] /\ Shared(f, u)
       ELSE Save(f, Goto(Timer(w, TRUE), 12))

MoveSettles(f, w) ==
    /\ St(w) = 12
    /\ Save(f, IF Done(w) THEN Goto(Timer(w, FALSE), 20) ELSE w)

MoveStarts(f, w) ==
    /\ St(w) = 20
    /\ Save(f, Goto([Timer(w, FALSE) EXCEPT !.f.seen = FALSE], 21))

\* 21: BUSY is seen, or not in time; then the axes may be in place already.
MoveSeen(f, w) ==
    /\ St(w) = 21
    /\ \E busy, inPlace \in BOOLEAN :
          LET u == [w EXCEPT !.f.seen = (@ \/ busy)] IN
          Save(f, IF u.f.seen
                  THEN Goto(Timer(u, FALSE), IF StepOf(w).goesOn THEN 99 ELSE 30)
                  ELSE IF ~Done(w) THEN Timer(u, TRUE)
                  ELSE IF inPlace THEN Goto(Timer(u, FALSE), 99)
                  ELSE Fail(Timer(u, FALSE), 21))

MoveDone(f, w) ==
    /\ St(w) = 30
    /\ \E inPlace \in BOOLEAN : Save(f, IF inPlace THEN Goto(w, 99) ELSE w)

\* 40: with no room for another delayed output the alarm number is set, and the next
\* step is due all the same.
Free(w) == {k \in 1 .. Delays : ~w.f.delay[k].pend}

Output(f, w) ==
    /\ St(w) = 40
    /\ LET s == StepOf(w)
           k == CHOOSE k \in Free(w) : \A j \in Free(w) : k <= j
       IN Save(f, Goto(
             IF ~s.delay THEN [w EXCEPT !.out = Switch(s.on, s.bit, @)]
             ELSE IF Free(w) = {} THEN [w EXCEPT !.alarm.id = 98]
             ELSE [w EXCEPT !.f.delay[k] =
                      [@ EXCEPT !.start = TRUE, !.pend = TRUE, !.bit = s.bit, !.on = s.on]], 99))

\* 60, 61.
WaitInput(f, w) == St(w) = 60 /\ Save(f, Goto(Timer(w, TRUE), 61))

Levels(s, w) == IF s.bit \in Internal THEN {s.bit \in w.out} ELSE BOOLEAN

\* The time-out of an input: wait on, stop with an alarm, or go on with one.
TimedOut(s, w) ==
    CASE s.then = "wait" -> Timer(w, TRUE)
      [] s.then = "stop" -> [Goto(Timer(w, FALSE), 0) EXCEPT
                               !.alarm.user = TRUE, !.ctl = 0, !.check = FALSE, !.left = TRUE]
      [] s.then = "go" -> Goto([Timer(w, FALSE) EXCEPT !.alarm.user = TRUE], 99)

Input(f, w) ==
    /\ St(w) = 61
    /\ LET s == StepOf(w) IN
       \E level \in Levels(s, w) :
          Save(f, IF level = s.on THEN Goto(Timer(w, FALSE), 99)
                  ELSE IF Done(w) \/ s.now THEN TimedOut(s, w) ELSE w)

\* 70: unconditional, on an input, mode or state, or on a data word.
Jump(f, w) ==
    /\ St(w) = 70
    /\ LET s == StepOf(w) IN
       \/ s.badData /\ Save(f, Fail(w, 23))
       \/ /\ ~s.badData
          /\ \/ Save(f, IF s.target \notin 0 .. SlotSteps - 1 THEN Fail(w, 95)
                        ELSE Goto([w EXCEPT !.f.ctx[Len(w.f.ctx)].step = s.target], 10))
             \/ ~s.always /\ Save(f, Goto(w, 99))

\* 50, 51: a delay, or a signal held so long.
Delay(f, w) ==
    /\ St(w) = 50
    /\ Save(f, IF StepOf(w).hold THEN Goto(Timer(w, FALSE), 51)
               ELSE IF Done(w) THEN Goto(Timer(w, FALSE), 99) ELSE Timer(w, TRUE))

Hold(f, w) ==
    /\ St(w) = 51
    /\ \E held \in BOOLEAN :
          Save(f, IF Done(w) THEN Goto(Timer(w, FALSE), 99) ELSE Timer(w, held))

\* 100: a data word out of range, or done at once.
Data(f, w) == St(w) = 100 /\ Save(f, IF StepOf(w).bad THEN Fail(w, 24) ELSE Goto(w, 99))

---------------------------------------------------------------------------
(* 80: CALL.                                                                 *)

\* Mutant: the caller comes back to the CALL.
PushedBeforeStep(w, slot) ==
    LET s == w.f.ctx IN
    [w EXCEPT !.f.ctx = Append([s EXCEPT ![Len(s)].st = 10],
                               [slot |-> slot, step |-> 0, st |-> 10])]

Pushed(w, slot) ==
    LET s == w.f.ctx IN
    [w EXCEPT !.f.ctx = Append([s EXCEPT ![Len(s)].st = 10, ![Len(s)].step = After(@)],
                               [slot |-> slot, step |-> 0, st |-> 10])]

\* Mutant: the second worker is taken for free.
WorkerForUnasked(w) == IF ~fb["W1"].busy THEN {"W1"} ELSE {"W2"}

\* b_ParallelBusy1/2: b_IsBusy of the workers after the previous scan.
WorkerFor(w) ==
    IF ~fb["W1"].busy THEN {"W1"} ELSE IF ~fb["W2"].busy THEN {"W2"} ELSE {}

Call(f, w) ==
    /\ St(w) = 80
    /\ LET s == StepOf(w) IN
       Save(f, IF f # "M" THEN Fail(w, 94)
               ELSE IF s.slot \notin DOMAIN prog THEN Fail(w, 96)
               ELSE IF ~s.parallel
               THEN IF Len(w.f.ctx) >= Depth THEN Fail(w, 93) ELSE Pushed(w, s.slot)
               ELSE IF WorkerFor(w) = {} THEN Fail(w, 50)
               ELSE Goto([w EXCEPT !.called = [x \in Workers |->
                            IF x \in WorkerFor(w) THEN [start |-> TRUE, slot |-> s.slot] ELSE @[x]]],
                         99))

\* 99: the next step, in a check run after the next START.
StepDone(f, w) ==
    /\ St(w) = 99
    /\ LET u == [w EXCEPT !.f.ctx[Len(w.f.ctx)].step = After(@)]
       IN Save(f, IF w.ctl = 2 THEN Goto([u EXCEPT !.check = FALSE], 1) ELSE Goto(u, 10))

\* Mutant: the trap keeps its alarm number and raises no alarm.
TrappedQuietly(w) == [Timer(w, FALSE) EXCEPT !.f.delay = NoDelay(@)]

Trapped(w) == [Timer(w, FALSE) EXCEPT !.alarm.on = TRUE, !.f.delay = NoDelay(@)]

Trap(f, w) == St(w) = 900 /\ Save(f, Trapped(w))

\* Mutant: a stop leaves the delayed outputs to their timers.
KeptDelays(d) == d

\* What a reset makes of the delayed outputs.
ResetDelays(d) == NoDelay(d)

\* b_Reset: the block returns before its timers are called.
Reset(f) ==
    /\ LET i == fb[f] IN
       fb' = [fb EXCEPT ![f] = [i EXCEPT !.ctx = <<[slot |-> 0, step |-> 0, st |-> 0]>>,
                                         !.start = FALSE, !.seen = FALSE, !.busy = FALSE,
                                         !.prev = check, !.delay = ResetDelays(@)]]
    /\ out' = out \ Internal
    /\ called' = IF f = "M" THEN [w \in Workers |-> [start |-> FALSE, slot |-> 0]] ELSE called
    /\ torn' = torn \ {f}
    /\ UNCHANGED <<ctl, check, alarm, pack, cycles>>

Execute(f, w) ==
    \/ Idle(f, w) \/ CheckWait(f, w) \/ Fetch(f, w)
    \/ MoveTable(f, w) \/ MoveSettles(f, w) \/ MoveStarts(f, w) \/ MoveSeen(f, w) \/ MoveDone(f, w)
    \/ Output(f, w) \/ WaitInput(f, w) \/ Input(f, w) \/ Jump(f, w) \/ Delay(f, w) \/ Hold(f, w)
    \/ Data(f, w) \/ Call(f, w) \/ StepDone(f, w) \/ Trap(f, w)

AfterTurn == [P |-> "M", M |-> "W1", W1 |-> "W2", W2 |-> "P"]

Block(f) ==
    /\ turn = f /\ turn' = AfterTurn[f]
    /\ \/ reset /\ Reset(f)
       \/ ~reset /\ \E w \in Ready(f) : Execute(f, w)
    /\ quiet' = (quiet \/ (f = "W2" /\ reset))
    /\ UNCHANGED progVars

---------------------------------------------------------------------------
(* PROGRAM, as the header of the block describes it: a command of the        *)
(* operator, the automatic stop of a step alarm, and b_Reset when a run is    *)
(* stopped.                                                                  *)
Modes == [stop |-> 0, auto |-> 1, checkrun |-> 2]

Scan ==
    /\ turn = "P" /\ turn' = "M"
    /\ \E c \in {"none", "stop", "auto", "checkrun", "START", "RESET"} :
          /\ c # "none" => ops < MaxOps
          /\ c \in {"auto", "checkrun"} => ctl = 0          \* a mode is chosen in the stop
          /\ c = "START" => ctl = 2
          /\ ops' = IF c = "none" THEN ops ELSE ops + 1
          /\ ctl' = IF alarm.on THEN 0 ELSE IF c \in DOMAIN Modes THEN Modes[c] ELSE ctl
          /\ check' = (check \/ c = "START")
          /\ clear' = (c = "RESET")
    /\ reset' = (ctl' = 0 /\ last # 0) /\ last' = ctl'
    /\ quiet' = (quiet /\ ctl' = 0)
    /\ UNCHANGED <<prog, fb, out, alarm, called, pack, torn, cycles>>

NewDelay == [t |-> "off", start |-> FALSE, pend |-> FALSE, bit |-> "none", on |-> FALSE]

SequencerInit ==
    /\ prog \in Programs
    /\ turn = "P" /\ ctl = 0 /\ check = FALSE /\ last = 0 /\ reset = FALSE /\ clear = FALSE
    /\ fb = [f \in FBs |->
                [ctx |-> <<[slot |-> 0, step |-> 0, st |-> 0]>>, tmr |-> "off", start |-> FALSE,
                 seen |-> FALSE, prev |-> FALSE, busy |-> FALSE,
                 delay |-> [k \in 1 .. Delays |-> NewDelay]]]
    /\ out = {} /\ alarm = [on |-> FALSE, id |-> 0, user |-> FALSE]
    /\ called = [w \in Workers |-> [start |-> FALSE, slot |-> 0]]
    /\ pack = [a \in DOMAIN Count |-> 0]
    /\ ops = 0 /\ torn = {} /\ quiet = TRUE /\ cycles = 0

SequencerNext == Scan \/ \E f \in FBs : Block(f)

SequencerSpec == SequencerInit /\ [][SequencerNext]_sequencerVars

\* The PLC goes on scanning.
FairSequencer == SequencerSpec /\ WF_sequencerVars(SequencerNext)

---------------------------------------------------------------------------
(* Properties.                                                               *)

SequencerTypeOK ==
    /\ turn \in DOMAIN AfterTurn /\ ctl \in 0 .. 2 /\ last \in 0 .. 2
    /\ check \in BOOLEAN /\ reset \in BOOLEAN /\ clear \in BOOLEAN /\ quiet \in BOOLEAN
    /\ \A f \in FBs :
          /\ Len(fb[f].ctx) \in 1 .. Depth
          /\ \A i \in DOMAIN fb[f].ctx :
                /\ fb[f].ctx[i].slot \in DOMAIN prog
                /\ fb[f].ctx[i].step \in 0 .. SlotSteps - 1 /\ fb[f].ctx[i].st \in States
          /\ fb[f].tmr \in {"off", "on", "done"}
    /\ alarm.on \in BOOLEAN /\ alarm.user \in BOOLEAN
    /\ alarm.id \in {0, 21, 22, 23, 24, 50, 93, 94, 95, 96, 98, 99}
    /\ \A a \in DOMAIN Count : pack[a] \in 0 .. Count[a] - 1

\* The number, from 1, of the step before the one that is due: step 0 is due after
\* the last of a full slot.
CallBefore(step) == IF step = 0 THEN SlotSteps ELSE step

\* Below the top of the stack every program waits behind the CALL of the one above
\* it; not in an instance that went to state 0 inside a call.
CallersAwait ==
    \A f \in FBs \ torn : \A i \in 1 .. Len(fb[f].ctx) - 1 :
        LET c == fb[f].ctx[i]
            n == CallBefore(c.step)
        IN /\ c.st = 10 /\ n \in 1 .. Len(prog[c.slot])
           /\ prog[c.slot][n].cmd = "CALL" /\ ~prog[c.slot][n].parallel
           /\ prog[c.slot][n].slot = fb[f].ctx[i + 1].slot

\* The place on the pallet is the number of cycles of Main, whatever instances run
\* and however programs are called, in the stacking order.
Rank(i) == i[Order[1]] + Count[Order[1]] * (i[Order[2]] + Count[Order[2]] * i[Order[3]])
PackCountsCycles == Rank(pack) = cycles

SequencerInv == SequencerTypeOK /\ CallersAwait /\ PackCountsCycles

\* A parallel CALL that Main took as done has started its program, from its first
\* step, on a worker that was free, by the end of the scan.  In the automatic mode
\* only: a check run starts workers with START and not with the pulse.
WorkersRunCalls ==
    turn = "P" /\ ctl = 1 =>
        \A w \in Workers \ torn : called[w].start =>
            fb[w].ctx = <<[slot |-> called[w].slot, step |-> 0, st |-> 10]>>

\* After a stop has reset the blocks no output changes until the next start: no
\* delayed output of any instance comes late.
OutputsQuietAfterStop == [][quiet /\ quiet' => out' = out]_sequencerVars

\* A step error in one instance stops the others too, unless the operator has reset
\* the alarm first.
ErrorStopsAll ==
    (\E f \in FBs : Top(fb[f]).st = 900) ~> (alarm.id = 0 \/ \A f \in FBs : Top(fb[f]).st = 0)
============================================================================
