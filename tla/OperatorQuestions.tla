------------------------- MODULE OperatorQuestions -------------------------
(* The time-out questions of a run: an IN step that waited too long blocks   *)
(* its flow with an InputTimeoutRequest (engine/qt_runtime.py) until the      *)
(* operator accepts (wait on) or rejects (stop).  Signals queue up for the UI *)
(* thread, which shows one question at a time (ui/qml_controller.py) in the   *)
(* one confirm popup of the overlay (ui/qml_overlay.py), which the pages use  *)
(* too.                                                                       *)
(*                                                                            *)
(* The popup is modal: a page's button can be pressed while it is closed.  Qt *)
(* delivers what is queued before the next press.                             *)
EXTENDS Integers, Sequences, SequencesExt

CONSTANTS
    Flows,      \* the main flow's and the workers' sequences
    MaxAsks,    \* bound: questions
    MaxRuns     \* bound: runs

ASSUME QuestionsAssumption == MaxAsks \in Nat /\ MaxRuns \in Nat

VARIABLES
    live,       \* the executor's main thread
    stop,       \* its stop event
    run,        \* runs started so far
    flow,       \* the flows: "off", "run" or "ask", and the request of the latter
    reqs,       \* the requests made: flow, run, decision ("none": event not set)
    events,     \* signals queued for the UI: requests, the end of a run
    pending,    \* _pending_timeout_requests
    active,     \* _active_timeout_request, 0 for None
    slot,       \* _confirm_callback: none, of a page, or of a request
    timer,      \* a singleShot(0, _show_next_pendant_timeout) is due
    mode,       \* current_mode is not 0
    orphans     \* history: flows alive when the main thread failed

executor == <<live, stop, run, flow, orphans>>
screen == <<pending, active, slot, timer, mode>>
questionsVars == <<executor, screen, reqs, events>>

Requests == 1 .. MaxAsks

\* Callbacks and signals that are not of a request.
NoCallback == 0
StartCallback == -1
PageCallbacks == {StartCallback, -2}
Ended == 0

Idle == [pc |-> "off", req |-> 0]

---------------------------------------------------------------------------
(* The flows, each in a thread of its own.                                   *)

Goto(f, pc) == flow' = [flow EXCEPT ![f] = [Idle EXCEPT !.pc = pc]]

\* _executor_event: the request is made and its signal emitted.
Ask(f) ==
    /\ flow[f].pc = "run" /\ ~stop /\ Len(reqs) < MaxAsks
    /\ reqs' = Append(reqs, [f |-> f, run |-> run, dec |-> "none"])
    /\ flow' = [flow EXCEPT ![f] = [pc |-> "ask", req |-> Len(reqs) + 1]]
    /\ events' = Append(events, Len(reqs) + 1)
    /\ UNCHANGED <<live, stop, run, screen, orphans>>

Decision(f) == reqs[flow[f].req].dec

\* The answer: "reset" waits again, "stop" stops the executor.
Answered(f) ==
    /\ flow[f].pc = "ask" /\ Decision(f) # "none"
    /\ IF Decision(f) = "reset"
       THEN Goto(f, "run") /\ UNCHANGED stop
       ELSE Goto(f, "off") /\ stop' = (stop \/ live)
    /\ UNCHANGED <<live, run, screen, reqs, events, orphans>>

\* A stop event ends the wait; nobody tells the screen.
Abandon(f) ==
    /\ flow[f].pc = "ask" /\ Decision(f) = "none" /\ stop
    /\ Goto(f, "off")
    /\ UNCHANGED <<live, stop, run, screen, reqs, events, orphans>>

\* The sequence comes to its end or is stopped.
Finish(f) ==
    /\ flow[f].pc = "run"
    /\ Goto(f, "off")
    /\ UNCHANGED <<live, stop, run, screen, reqs, events, orphans>>

FlowStep(f) == Answered(f) \/ Abandon(f)

\* The main thread ends with the last flow, or earlier when it is stopped.
EndRun ==
    /\ live /\ (stop \/ \A f \in Flows \ orphans : flow[f].pc = "off")
    /\ live' = FALSE /\ events' = Append(events, Ended)
    /\ UNCHANGED <<stop, run, flow, screen, reqs, orphans>>

\* A step of the main flow raises: the thread ends and the workers go on.  A step of
\* a worker raises: the stop event.
FailMain ==
    /\ live /\ live' = FALSE /\ events' = Append(events, Ended)
    /\ orphans' = {f \in Flows : flow[f].pc # "off"}
    /\ UNCHANGED <<stop, run, flow, screen, reqs>>

FailWorker ==
    /\ live /\ \E f \in Flows : flow[f].pc = "run" /\ Goto(f, "off")
    /\ stop' = TRUE
    /\ UNCHANGED <<live, run, screen, reqs, events, orphans>>

---------------------------------------------------------------------------
(* The UI thread.                                                            *)

MayShow(asked) == active = 0 /\ asked # <<>>

\* _show_next_pendant_timeout: request_confirm takes the callback's place, whose
\* ever it was.
ShowNext(asked) ==
    IF MayShow(asked)
    THEN active' = Head(asked) /\ slot' = Head(asked) /\ pending' = Tail(asked)
    ELSE UNCHANGED <<active, slot>> /\ pending' = asked

\* _on_pendant_timeout, and the end of a run.
Deliver ==
    /\ events # <<>> /\ events' = Tail(events)
    /\ IF Head(events) = Ended
       THEN mode' = FALSE /\ UNCHANGED <<active, slot, pending>>
       ELSE ShowNext(Append(pending, Head(events))) /\ UNCHANGED mode
    /\ UNCHANGED <<executor, reqs, timer>>

Timeout ==
    /\ timer /\ timer' = FALSE
    /\ ShowNext(pending)
    /\ UNCHANGED <<executor, reqs, events, mode>>

Resolve(ids, dec) ==
    reqs' = [r \in DOMAIN reqs |-> IF r \in ids THEN [reqs[r] EXCEPT !.dec = dec] ELSE reqs[r]]

\* Mutant: the next question waits for the next time-out.
ShowsNoNext(accepted) == FALSE

\* Whether the next question is due after the answer.
ShowsNext(accepted) == accepted

\* Whom a stop answers: the questions behind it as well.
Stopped(r) == {r} \cup ToSet(pending)

\* Mutant: the stopped questions stay in the queue.
KeptPending(accepted) == pending

PendingAfter(accepted) == IF accepted THEN pending ELSE <<>>

\* _confirm_done with the callback of a request: _finish_pendant_timeout.
Answer(accepted) ==
    /\ slot \in Requests /\ slot' = NoCallback
    /\ active' = IF active = slot THEN 0 ELSE active
    /\ Resolve(IF accepted THEN {slot} ELSE Stopped(slot), IF accepted THEN "reset" ELSE "stop")
    /\ pending' = PendingAfter(accepted)
    /\ timer' = (timer \/ ShowsNext(accepted))
    /\ UNCHANGED <<executor, events, mode>>

\* _can_start_run.
Startable == ~mode

\* A button that asks first: the automatic run, or another page's.
PageAsks ==
    /\ slot = NoCallback
    /\ \E page \in PageCallbacks :
          (page = StartCallback => Startable) /\ slot' = page
    /\ UNCHANGED <<executor, reqs, events, pending, active, timer, mode>>

\* executor.start: refused while the main thread lives.  The flows of a stopped run
\* are gone: a press takes longer than their 50 ms poll.
Start ==
    IF live THEN UNCHANGED executor
    ELSE /\ run < MaxRuns
         /\ stop => \A f \in Flows : flow[f].pc = "off"
         /\ live' = TRUE /\ stop' = FALSE /\ run' = run + 1
         /\ flow' = [f \in Flows |-> IF flow[f].pc = "off" THEN [Idle EXCEPT !.pc = "run"]
                                     ELSE flow[f]]
         /\ orphans' = {f \in orphans : flow[f].pc # "off"}

PageAnswered ==
    /\ slot \in PageCallbacks /\ slot' = NoCallback
    /\ \/ slot = StartCallback /\ mode' = TRUE /\ Start
       \/ UNCHANGED <<executor, mode>>
    /\ UNCHANGED <<reqs, events, pending, active, timer>>

\* The stop button: mode 0 at once, the executor's stop event.
PressStop ==
    /\ slot = NoCallback /\ mode /\ mode' = FALSE
    /\ stop' = (stop \/ live)
    /\ UNCHANGED <<live, run, flow, orphans, reqs, events, pending, active, slot, timer>>

\* A popup is on the screen for longer than the 0 ms of the timer.
Popup == ~timer /\ (Answer(TRUE) \/ Answer(FALSE) \/ PageAnswered)
Press == events = <<>> /\ (Popup \/ PageAsks \/ PressStop)

QuestionsInit ==
    /\ live = FALSE /\ stop = FALSE /\ run = 0 /\ orphans = {}
    /\ flow = [f \in Flows |-> Idle]
    /\ reqs = <<>> /\ events = <<>> /\ pending = <<>> /\ active = 0
    /\ slot = NoCallback /\ timer = FALSE /\ mode = FALSE

QuestionsNext ==
    \/ \E f \in Flows : Ask(f) \/ FlowStep(f) \/ Finish(f)
    \/ EndRun \/ FailMain \/ FailWorker
    \/ Deliver \/ Timeout \/ Press

QuestionsSpec == QuestionsInit /\ [][QuestionsNext]_questionsVars

\* Threads and the UI go on, and the operator answers the popup on the screen, in
\* the end.
FairQuestions ==
    /\ QuestionsSpec
    /\ \A f \in Flows : WF_questionsVars(FlowStep(f))
    /\ WF_questionsVars(Deliver) /\ WF_questionsVars(Timeout)
    /\ SF_questionsVars(events = <<>> /\ Popup)

---------------------------------------------------------------------------
(* Properties.                                                               *)

QuestionsTypeOK ==
    /\ live \in BOOLEAN /\ stop \in BOOLEAN /\ timer \in BOOLEAN /\ mode \in BOOLEAN
    /\ run \in 0 .. MaxRuns /\ orphans \subseteq Flows
    /\ \A f \in Flows : flow[f].pc \in {"off", "run", "ask"} /\ flow[f].req \in 0 .. Len(reqs)
    /\ \A r \in DOMAIN reqs : reqs[r].dec \in {"none", "reset", "stop"}
    /\ active \in 0 .. MaxAsks
    /\ slot \in {NoCallback} \cup PageCallbacks \cup Requests

\* The question that counts as active is the one on the screen, and no other waits
\* behind nothing: neither a page's popup nor a question replaces one.
ActiveOnScreen ==
    /\ active # 0 => slot = active
    /\ slot \in Requests => active = slot
    /\ pending # <<>> => active # 0 \/ timer

Waiting == ToSet(pending) \cup (IF active = 0 THEN {} ELSE {active})

\* Questions that wait together are of one run: a stop answers those behind it, and
\* so never stops a later run.  Except for flows that outlive a failed main thread.
OneRunAsks ==
    \A r, s \in {r \in Waiting : reqs[r].f \notin orphans /\ reqs[r].dec = "none"} :
        reqs[r].run = reqs[s].run

QuestionsInv == QuestionsTypeOK /\ ActiveOnScreen /\ OneRunAsks

\* A flow that asks does not wait for ever: its question is shown in its turn and
\* answered, or answered with one before it, or its run is stopped.
QuestionsEnd ==
    \A r \in Requests :
        (\E f \in Flows : flow[f].pc = "ask" /\ flow[f].req = r)
            ~> ~(\E f \in Flows : flow[f].pc = "ask" /\ flow[f].req = r)
============================================================================
