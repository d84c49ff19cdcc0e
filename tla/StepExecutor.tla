--------------------------- MODULE StepExecutor ---------------------------
(* SequenceExecutor (engine/step_executor.py): the thread that runs a        *)
(* recipe's Main sequence, the worker threads of its parallel CALLs, and the *)
(* UI thread that starts, pauses, resumes and stops them through two         *)
(* threading.Events and the plain attribute `state`.                         *)
(*                                                                           *)
(* A recipe is data: sequences of steps.  What a step moves or reads is      *)
(* abstracted; that it blocks, writes an output, can fail, jumps or calls is *)
(* not.  An action is one shared-memory access of a thread, or a run of them *)
(* between which no other thread can tell the difference.                    *)
EXTENDS Integers, Sequences, FiniteSets

CONSTANTS
    Recipes,        \* the recipes this instance runs: functions name -> steps
    Outputs,        \* physical outputs
    ResetOutputs,   \* those whose stop policy is RESET (the others latch)
    NumThreads,     \* bound: threads created in a behaviour
    MaxStarts,      \* bound: calls of start()
    MaxDepth        \* deepest CALL nesting (16 in the code)

ASSUME OutputsAssumption == ResetOutputs \subseteq Outputs
ASSUME BoundsAssumption ==
    NumThreads \in Nat /\ MaxStarts \in Nat /\ MaxDepth \in Nat

\* The kinds of steps; options of TMR, OUT and CALL make HOLD, OUTD and PCALL.
Ops == {"COMMENT", "POS", "WPOS", "OUT", "OUTD", "IN", "TMR", "HOLD", "JMP",
        "CALL", "PCALL", "DAT", "END"}

\* What start() accepts (validate_sequences): known steps, outputs that exist,
\* jumps within the sequence and CALLs of sequences that exist.
Valid(r) ==
    /\ "Main" \in DOMAIN r
    /\ \A s \in DOMAIN r :
          /\ Len(r[s]) \in Nat /\ DOMAIN r[s] = 1 .. Len(r[s])
          /\ \A i \in DOMAIN r[s] :
                LET step == r[s][i] IN
                /\ step.op \in Ops
                /\ step.op \in {"OUT", "OUTD"} => step.out \in Outputs
                /\ step.op = "JMP" => step.to \in DOMAIN r[s]
                /\ step.op \in {"CALL", "PCALL"} => step.seq \in DOMAIN r

ASSUME RecipesAssumption == \A r \in Recipes : Valid(r)

VARIABLES
    recipe,     \* self._sequences
    state,      \* self.state
    stop,       \* self._stop is set
    gate,       \* self._run_gate is set
    cur,        \* self._thread, 0 before the first start
    workers,    \* self._workers
    snap,       \* the copy of _workers that _run joins
    workerErr,  \* self._worker_error is not None
    lastErr,    \* self.last_error is not empty
    th,         \* the flow threads
    ui,         \* where the UI thread is inside an operation
    starts,     \* calls of start() so far
    offs,       \* a safe-output-off thread of an idle stop() is pending
    on,         \* outputs that are on
    extra,      \* history: effects of a thread since stop or pause took hold
    offMissed   \* history: the last run's output reset failed or found no connection

control == <<state, stop, gate, lastErr>>
crew == <<cur, workers, snap, workerErr>>
vars == <<recipe, control, crew, th, ui, starts, offs, on, extra, offMissed>>

Threads == 1 .. NumThreads

\* stack: the active sequences of a flow, innermost first.  base: the CALL depth
\* of its outermost one.  run: the start() it belongs to.
NoFlow == [pc |-> "free", stack |-> <<>>, base |-> 0, main |-> FALSE, run |-> 0]

Flow(name, base, main, run) ==
    [pc |-> "loop", stack |-> <<[seq |-> name, idx |-> 1]>>, base |-> base,
     main |-> main, run |-> run]

PcValues ==
    {"free", "loop", "gate", "step", "wait", "held", "poll", "ask", "move",
     "stopA", "stopB", "stopC", "werr", "join", "check", "compl", "err", "off",
     "last", "exit", "dead"}

TypeOK ==
    /\ recipe \in Recipes
    /\ state \in {"IDLE", "RUNNING", "PAUSED", "STOPPING", "ERROR"}
    /\ stop \in BOOLEAN /\ gate \in BOOLEAN
    /\ workerErr \in BOOLEAN /\ lastErr \in BOOLEAN
    /\ cur \in Threads \cup {0}
    /\ workers \subseteq Threads /\ snap \subseteq Threads
    /\ \A t \in Threads :
          /\ th[t].pc \in PcValues
          /\ th[t].base + Len(th[t].stack) <= MaxDepth + 1
          /\ th[t].main => t \notin workers
    /\ ui \in {"idle", "starting", "pausing", "resuming", "stop1", "stop2"}
    /\ starts \in 0 .. MaxStarts
    /\ offs \in BOOLEAN /\ offMissed \in BOOLEAN
    /\ on \subseteq Outputs

Alive(t) == th[t].pc \notin {"free", "dead"}
IsRunning == cur # 0 /\ Alive(cur)
\* Thread numbers are given out in order; none is left when they all ran.
Free == {t \in Threads : th[t].pc = "free" /\ \A u \in 1 .. t - 1 : th[u].pc # "free"}

Top(t) == th[t].stack[1]
Steps(t) == recipe[Top(t).seq]
Step(t) == Steps(t)[Top(t).idx]

---------------------------------------------------------------------------
(* What happens to a flow.                                                   *)

Goto(f, pc) == [f EXCEPT !.pc = pc]
Advanced(f) == [f EXCEPT !.stack[1].idx = @ + 1, !.pc = "loop"]
Jumped(f, i) == [f EXCEPT !.stack[1].idx = i, !.pc = "loop"]

\* return: to the calling sequence, whose index moves on, or out of the flow.
Returned(f) ==
    IF Len(f.stack) > 1
    THEN Advanced([f EXCEPT !.stack = Tail(@)])
    ELSE [f EXCEPT !.stack = <<>>, !.pc = IF f.main THEN "join" ELSE "dead"]

\* An exception leaves every nested sequence of the flow.
Raised(f) ==
    [f EXCEPT !.stack = <<>>, !.pc = IF f.main THEN "err" ELSE "werr"]

Move(t, f) == th' = [th EXCEPT ![t] = f]

\* A flow that ends its last sequence copies _workers before it joins them.
MoveOn(t, f) ==
    /\ Move(t, f)
    /\ snap' = IF f.pc = "join" THEN workers ELSE snap

\* Counts what a flow does to the machine while it is stopped or paused.
Effect(t) ==
    extra' = IF stop \/ ~gate THEN [extra EXCEPT ![t] = @ + 1] ELSE extra

\* The counts start again when a pause or a stop takes hold.
NoExtra == [t \in Threads |-> 0]

---------------------------------------------------------------------------
(* _execute_sequence: the loop around the steps.                             *)

\* Mutant: the loop does not look at the stop event.
LoopEndsUnstopped(t) == Top(t).idx > Len(Steps(t))

LoopEnds(t) == Top(t).idx > Len(Steps(t)) \/ stop

Loop(t) ==
    /\ th[t].pc = "loop"
    /\ MoveOn(t, IF LoopEnds(t) THEN Returned(th[t]) ELSE Goto(th[t], "gate"))
    /\ UNCHANGED <<control, cur, workers, workerErr, on, extra>>

\* Mutant: a paused flow does not notice a stop.
PassesOnlyOpen == gate

\* _wait_if_paused lets a flow go when the gate opens or the stop event is set.
Passes == gate \/ stop

WaitIfPaused(t) ==
    /\ th[t].pc = "gate" /\ Passes
    /\ Move(t, Goto(th[t], "step"))
    /\ UNCHANGED <<control, crew, on, extra>>

---------------------------------------------------------------------------
(* The steps.                                                                *)

WriteOutput(t) ==
    /\ \/ /\ on' = IF Step(t).on THEN on \cup {Step(t).out}
                                 ELSE on \ {Step(t).out}
          /\ Move(t, Advanced(th[t]))
          /\ Effect(t)
       \/ Move(t, Raised(th[t])) /\ UNCHANGED <<on, extra>>
    /\ UNCHANGED <<control, crew>>

Out(t) == th[t].pc = "step" /\ Step(t).op = "OUT" /\ WriteOutput(t)

\* backend.move returns when the PLC has answered, fails, or times out after
\* 30 s: nothing interrupts it.
Pos(t) ==
    /\ th[t].pc = "step" /\ Step(t).op = "POS"
    /\ Move(t, Goto(th[t], "move"))
    /\ Effect(t)
    /\ UNCHANGED <<control, crew, on>>

PosEnds(t) ==
    /\ th[t].pc = "move"
    /\ \E f \in {Advanced(th[t]), Raised(th[t])} : Move(t, f)
    /\ UNCHANGED <<control, crew, on, extra>>

\* DAT, and the condition of a JMP: they can fail (zero divisor, a missing
\* position point or variable; after a million jumps the JMP guard).
Dat(t) ==
    /\ th[t].pc = "step" /\ Step(t).op = "DAT"
    /\ \E f \in {Advanced(th[t]), Raised(th[t])} : Move(t, f)
    /\ UNCHANGED <<control, crew, on, extra>>

Comment(t) ==
    /\ th[t].pc = "step" /\ Step(t).op = "COMMENT"
    /\ Move(t, Advanced(th[t]))
    /\ UNCHANGED <<control, crew, on, extra>>

Jmp(t) ==
    /\ th[t].pc = "step" /\ Step(t).op = "JMP"
    /\ \E f \in {Advanced(th[t]), Jumped(th[t], Step(t).to), Raised(th[t])} :
          Move(t, f)
    /\ UNCHANGED <<control, crew, on, extra>>

\* Mutant: the depth of the caller is compared, not that of the called sequence.
CallerDepth(t) == th[t].base + Len(th[t].stack) - 1

CallDepth(t) == th[t].base + Len(th[t].stack)

Call(t) ==
    /\ th[t].pc = "step" /\ Step(t).op = "CALL"
    /\ Move(t, IF CallDepth(t) > MaxDepth THEN Raised(th[t])
               ELSE [th[t] EXCEPT
                       !.pc = "loop",
                       !.stack = <<[seq |-> Step(t).seq, idx |-> 1]>> \o @])
    /\ UNCHANGED <<control, crew, on, extra>>

ParallelCall(t) ==
    /\ th[t].pc = "step" /\ Step(t).op = "PCALL"
    /\ \E u \in Free :
          /\ th' = [th EXCEPT
                      ![t] = Advanced(@),
                      ![u] = LET f == Flow(Step(t).seq, CallDepth(t), FALSE,
                                           th[t].run)
                             IN  IF CallDepth(t) > MaxDepth THEN Raised(f) ELSE f]
          /\ workers' = workers \cup {u}
    /\ UNCHANGED <<control, cur, snap, workerErr, on, extra>>

End(t) ==
    /\ th[t].pc = "step" /\ Step(t).op = "END"
    /\ MoveOn(t, Returned(th[t]))
    /\ UNCHANGED <<control, cur, workers, workerErr, on, extra>>

---------------------------------------------------------------------------
(* Steps that wait: IN (_wait_input), HOLD (_wait_held_input), WPOS          *)
(* (_wait_position) and the sleeps of TMR and of a delayed OUT (_sleep).     *)

Sleeps == {"TMR", "OUTD"}
Waits == {"IN", "HOLD", "WPOS"} \cup Sleeps

BeginWait(t) ==
    /\ th[t].pc = "step" /\ Step(t).op \in Waits
    /\ Move(t, Goto(th[t], "wait"))
    /\ UNCHANGED <<control, crew, on, extra>>

\* The head of a wait loop.  A stop ends the sequence.  A pause holds the flow;
\* _sleep looks at the stop event again when it is let go, the others first look
\* at their input once more.
WaitLoop(t) ==
    /\ th[t].pc = "wait"
    /\ IF stop THEN MoveOn(t, Returned(th[t]))
       ELSE /\ Step(t).op \in Sleeps => gate
            /\ Move(t, Goto(th[t], IF gate THEN "poll" ELSE "held"))
            /\ UNCHANGED snap
    /\ UNCHANGED <<control, cur, workers, workerErr, on, extra>>

Held(t) ==
    /\ th[t].pc = "held" /\ Passes
    /\ Move(t, Goto(th[t], "poll"))
    /\ UNCHANGED <<control, crew, on, extra>>

\* One look at the input, the position or the clock.
Poll(t) ==
    /\ th[t].pc = "poll"
    /\ LET op == Step(t).op
           answers ==
               {Goto(th[t], "wait")}
               \cup (IF op = "OUTD" THEN {} ELSE {Advanced(th[t])})
               \cup (IF op = "IN" THEN {Goto(th[t], "ask")} ELSE {})
               \cup (IF op \in {"IN", "HOLD", "WPOS"} THEN {Raised(th[t])} ELSE {})
       IN  \/ (\E f \in answers : Move(t, f)) /\ UNCHANGED <<control, crew, on, extra>>
           \/ op = "OUTD" /\ WriteOutput(t)

\* IN timed out and event_callback asks the operator (qt_runtime
\* _executor_event): proceed, wait again, or stop the run.
Answer(t) ==
    /\ th[t].pc = "ask"
    /\ \E f \in {Advanced(th[t]), Goto(th[t], "wait"), Goto(th[t], "stopA")} :
          Move(t, f)
    /\ UNCHANGED <<control, crew, on, extra>>

\* A stop event ends the question with the answer "stop".
AskStopped(t) ==
    /\ th[t].pc = "ask" /\ stop
    /\ Move(t, Goto(th[t], "stopA"))
    /\ UNCHANGED <<control, crew, on, extra>>

\* self.stop(wait=False) in the flow's own thread, then the sequence returns.
\* When the main thread is gone (a flow that outlived its run) the idle branch
\* of stop() starts a safe-output-off thread.
FlowStop(t) ==
    \/ /\ th[t].pc = "stopA"
       /\ IF IsRunning
          THEN Move(t, Goto(th[t], "stopB")) /\ UNCHANGED <<snap, offs>>
          ELSE MoveOn(t, Returned(th[t])) /\ offs' = TRUE
       /\ UNCHANGED <<control, cur, workers, workerErr, on, extra>>
    \/ /\ th[t].pc = "stopB"
       /\ state' = "STOPPING"
       /\ Move(t, Goto(th[t], "stopC"))
       /\ UNCHANGED <<stop, gate, lastErr, crew, on, extra, offs>>
    \/ /\ th[t].pc = "stopC"
       /\ stop' = TRUE /\ gate' = TRUE
       /\ MoveOn(t, Returned(th[t]))
       /\ extra' = IF stop THEN extra ELSE NoExtra
       /\ UNCHANGED <<state, lastErr, cur, workers, workerErr, on, offs>>

---------------------------------------------------------------------------
(* _parallel_sequence: a failed worker stops the whole run.                  *)

\* Mutant: the failure is recorded and nothing is stopped.
FailureOnlyRecorded == stop' = stop /\ extra' = extra

FailureStops == stop' = TRUE /\ extra' = IF stop THEN extra ELSE NoExtra

WorkerFails(t) ==
    /\ th[t].pc = "werr"
    /\ workerErr' = TRUE
    /\ FailureStops
    /\ Move(t, Goto(th[t], "dead"))
    /\ UNCHANGED <<state, gate, lastErr, cur, workers, snap, on>>

---------------------------------------------------------------------------
(* _run, after Main: join, report, safe outputs off.                         *)

\* Mutant: the join gives up as soon as one worker has ended.
JoinsAny == stop \/ snap = {} \/ \E w \in snap : ~Alive(w)

Joined == stop \/ \A w \in snap : ~Alive(w)

Join(t) ==
    /\ th[t].pc = "join" /\ Joined
    /\ Move(t, Goto(th[t], "check"))
    /\ UNCHANGED <<control, crew, on, extra>>

Check(t) ==
    /\ th[t].pc = "check"
    /\ Move(t, Goto(th[t], IF workerErr THEN "err"
                           ELSE IF stop THEN "off" ELSE "compl"))
    /\ UNCHANGED <<control, crew, on, extra>>

Complete(t) ==
    /\ th[t].pc = "compl"
    /\ state' = "IDLE"
    /\ Move(t, Goto(th[t], "off"))
    /\ UNCHANGED <<stop, gate, lastErr, crew, on, extra>>

Error(t) ==
    /\ th[t].pc = "err"
    /\ state' = "ERROR" /\ lastErr' = TRUE
    /\ Move(t, Goto(th[t], "off"))
    /\ UNCHANGED <<stop, gate, crew, on, extra>>

\* Mutant: outputs are left alone when the run was stopped by the operator.
SafeOffUnlessStopped == IF stop THEN on ELSE on \ ResetOutputs

SafeOff == on \ ResetOutputs

\* The finally clause, when safe_off_on_stop.  A connection that is lost while it reads
\* or writes is an error; without one from the start reset_outputs returns at once.
OutputsOff(t) ==
    /\ th[t].pc = "off"
    /\ \/ on' = SafeOff /\ UNCHANGED <<state, lastErr, offMissed>>
       \/ /\ on' = on /\ offMissed' = TRUE
          /\ lastErr' = TRUE
          /\ state' = IF lastErr THEN state ELSE "ERROR"
       \/ offMissed' = TRUE /\ UNCHANGED <<on, state, lastErr>>
    /\ Move(t, Goto(th[t], "last"))
    /\ UNCHANGED <<stop, gate, crew, extra>>

LastCheck(t) ==
    /\ th[t].pc = "last"
    /\ state' = IF state = "STOPPING" THEN "IDLE" ELSE state
    /\ Move(t, Goto(th[t], "exit"))
    /\ UNCHANGED <<stop, gate, lastErr, crew, on, extra>>

Exit(t) ==
    /\ th[t].pc = "exit"
    /\ Move(t, Goto(th[t], "dead"))
    /\ UNCHANGED <<control, crew, on, extra>>

\* What a flow thread does without an operator.
FlowStep(t) ==
    /\ \/ (\/ Loop(t) \/ WaitIfPaused(t)
           \/ Out(t) \/ Pos(t) \/ PosEnds(t) \/ Dat(t) \/ Comment(t) \/ Jmp(t)
           \/ Call(t) \/ ParallelCall(t) \/ End(t)
           \/ BeginWait(t) \/ WaitLoop(t) \/ Held(t) \/ Poll(t) \/ AskStopped(t)
           \/ WorkerFails(t)
           \/ Join(t) \/ Check(t) \/ Complete(t) \/ Error(t)
           \/ LastCheck(t) \/ Exit(t)) /\ UNCHANGED <<offs, offMissed>>
       \/ OutputsOff(t) /\ UNCHANGED offs
       \/ FlowStop(t) /\ UNCHANGED offMissed
    /\ UNCHANGED <<recipe, ui, starts>>

FlowAnswer(t) ==
    Answer(t) /\ UNCHANGED <<recipe, ui, starts, offs, offMissed>>

---------------------------------------------------------------------------
(* The UI thread.                                                            *)

\* Mutant: a gate that a failed run left closed stays closed.
GateUntouched == gate' = gate

GateOpens == gate' = TRUE

\* Bound: a start needs room for the threads its recipe creates.
Flows ==
    1 + Cardinality(UNION {{<<n, i>> : i \in {j \in DOMAIN recipe[n] :
                                                 recipe[n][j].op = "PCALL"}} :
                              n \in DOMAIN recipe})
Room == Flows <= Cardinality({t \in Threads : th[t].pc = "free"})

\* start(): refused while the main thread lives; workers of an earlier run that
\* are still alive are not looked at.  First the events...
Start ==
    /\ ui = "idle" /\ ~IsRunning /\ starts < MaxStarts /\ Room
    /\ ui' = "starting"
    /\ starts' = starts + 1
    /\ stop' = FALSE /\ GateOpens
    /\ extra' = NoExtra
    /\ UNCHANGED <<recipe, state, lastErr, crew, th, offs, on, offMissed>>

\* ... then the attributes and the thread.
Started ==
    /\ ui = "starting"
    /\ ui' = "idle"
    /\ state' = "RUNNING" /\ lastErr' = FALSE /\ offMissed' = FALSE
    /\ workerErr' = FALSE /\ workers' = {}
    /\ \E t \in Free :
          /\ cur' = t
          /\ Move(t, Flow("Main", 0, TRUE, starts))
    /\ UNCHANGED <<recipe, stop, gate, snap, starts, offs, on, extra>>

Pause ==
    /\ ui = "idle" /\ state = "RUNNING"
    /\ ui' = "pausing"
    /\ gate' = FALSE
    /\ extra' = IF stop THEN extra ELSE NoExtra
    /\ UNCHANGED <<recipe, state, stop, lastErr, crew, th, starts, offs, on, offMissed>>

Paused ==
    /\ ui = "pausing"
    /\ ui' = "idle"
    /\ state' = "PAUSED"
    /\ UNCHANGED <<recipe, stop, gate, lastErr, crew, th, starts, offs, on, extra, offMissed>>

Resume ==
    /\ ui = "idle" /\ state = "PAUSED"
    /\ ui' = "resuming"
    /\ state' = "RUNNING"
    /\ UNCHANGED <<recipe, stop, gate, lastErr, crew, th, starts, offs, on, extra, offMissed>>

Resumed ==
    /\ ui = "resuming"
    /\ ui' = "idle"
    /\ gate' = TRUE
    /\ UNCHANGED <<recipe, state, stop, lastErr, crew, th, starts, offs, on, extra, offMissed>>

\* stop(): is_running is read, then state, the events and the gate are set.
StopCall ==
    /\ ui = "idle"
    /\ IF IsRunning
       THEN ui' = "stop1" /\ UNCHANGED offs
       ELSE ui' = ui /\ offs' = TRUE
    /\ UNCHANGED <<recipe, control, crew, th, starts, on, extra, offMissed>>

StopState ==
    /\ ui = "stop1"
    /\ ui' = "stop2"
    /\ state' = "STOPPING"
    /\ UNCHANGED <<recipe, stop, gate, lastErr, crew, th, starts, offs, on, extra, offMissed>>

StopEvents ==
    /\ ui = "stop2"
    /\ ui' = "idle"
    /\ stop' = TRUE /\ gate' = TRUE
    /\ extra' = IF stop THEN extra ELSE NoExtra
    /\ UNCHANGED <<recipe, state, lastErr, crew, th, starts, offs, on, offMissed>>

\* The safe-output-off thread of an idle stop(): its failure goes nowhere.
IdleOff ==
    /\ offs
    /\ offs' = FALSE
    /\ on' \in {on, SafeOff}
    /\ UNCHANGED <<recipe, control, crew, th, ui, starts, extra, offMissed>>

UiStep == Started \/ Paused \/ Resumed \/ StopState \/ StopEvents

---------------------------------------------------------------------------
Init ==
    /\ recipe \in Recipes
    /\ state = "IDLE" /\ stop = FALSE /\ gate = TRUE /\ lastErr = FALSE
    /\ cur = 0 /\ workers = {} /\ snap = {} /\ workerErr = FALSE
    /\ th = [t \in Threads |-> NoFlow]
    /\ ui = "idle" /\ starts = 0 /\ offs = FALSE
    /\ on = {} /\ extra = NoExtra /\ offMissed = FALSE

Next ==
    \/ \E t \in Threads : FlowStep(t) \/ FlowAnswer(t)
    \/ UiStep
    \/ Start \/ Pause \/ Resume \/ StopCall
    \/ IdleOff

Spec == Init /\ [][Next]_vars

\* Threads run, and an operation the UI thread has entered goes on.  Nobody owes
\* an answer to the time-out question, and no button has to be pressed.
FairSpec ==
    /\ Spec
    /\ \A t \in Threads : WF_vars(FlowStep(t))
    /\ WF_vars(UiStep) /\ WF_vars(IdleOff)

---------------------------------------------------------------------------
(* Properties.                                                               *)

\* After a pause or a stop has taken hold, a flow acts on the machine at most
\* once more: with the step it had already begun, or, stopped out of a pause,
\* with the step it was waiting to begin.
AtMostOneMoreEffect == \A t \in Threads : extra[t] <= 1

\* RUNNING and PAUSED tell the truth about the gate: nothing is shown as running
\* that a closed gate holds, and nothing is shown as paused that runs on.
PauseIsShown ==
    ui = "idle" =>
        /\ state = "RUNNING" => gate
        /\ state = "PAUSED" => ~gate \/ stop

\* The executor's flags describe its threads.
ExecutorInv == TypeOK /\ PauseIsShown

\* A recipe without parallel CALLs.
Sequential ==
    \A s \in DOMAIN recipe : \A i \in DOMAIN recipe[s] : recipe[s][i].op # "PCALL"

RunIsOver == cur # 0 /\ ~Alive(cur) /\ ui # "starting"

\* However a run ends, the outputs with stop policy RESET are off from then on, unless
\* the reset at its end failed or found no connection to the PLC.
OutputsOffAfterRun ==
    RunIsOver /\ ~offMissed => on \cap ResetOutputs = {}

SequentialOutputsOff == Sequential => OutputsOffAfterRun

\* A run is reported complete when every flow it started has ended.
CompleteMeansAll ==
    [][\A t \in Threads :
          th[t].pc = "compl" /\ th'[t].pc = "off" =>
             \A u \in Threads \ {t} : th[u].run = th[t].run => ~Alive(u)]_vars

\* A stop ends the main flow of the run, whatever it waits for.
StopEndsRun == stop ~> ~IsRunning

\* So does a failure in a parallel flow.
FailureEndsRun == workerErr ~> ~IsRunning
============================================================================
