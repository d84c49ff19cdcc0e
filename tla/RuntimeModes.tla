---------------------------- MODULE RuntimeModes ----------------------------
(* PLCSequenceRuntime (engine/qt_runtime.py): the operating mode, which the   *)
(* pendant owns and reports to the PLC in DT201; the stop bit DT223; the      *)
(* executor of the Main program and the one of the Monitor program, which     *)
(* runs whenever it can; and the automatic page that asks and commands.       *)
(*                                                                            *)
(* What the executor threads and the connection report reaches the UI thread  *)
(* through one queue of signals, and what the UI thread submits reaches the   *)
(* PLC through one queue ordered by priority: both may lag behind.  The       *)
(* executor itself is changed by the UI thread, its own thread and its flows  *)
(* without a lock: between what one of them reads and what it writes the      *)
(* others go on.                                                              *)
EXTENDS Integers, Sequences

CONSTANTS
    QueueMax,   \* bound: signals and commands that wait
    Scenes      \* bound: what a behaviour is about: the flows of Main and the pause, the
                \* Monitor program, or both

ASSUME QueueAssumption == QueueMax \in Nat
ASSUME ScenesAssumption == Scenes \subseteq {"flows", "monitor", "both"}

VARIABLES
    scene,      \* the one of Scenes that this behaviour is about
    link,       \* the session with the PLC works
    conn,       \* is_connected of the runtime
    signals,    \* queued signals to the UI thread
    mode,       \* current_mode: 0 none, 1 automatic, 2 check run
    ex,         \* the executor of Main: its thread, state and stop flag
    ui,         \* what the UI thread is doing to that executor, without a lock
    mon,        \* the thread of the Monitor executor lives; told to stop or not, it ends
                \* when it ends
    timer,      \* _monitor_restart_timer is running
    program,    \* the Monitor program: none, one that may run, one refused
    idle,       \* the thread of a stop without a run
    stopQ,      \* commands for DT223 that wait (priority -20)
    modeQ,      \* commands for DT201 that wait (priority -10)
    dt201, dt223,
    halt,       \* history: what the last command about the stop bit should leave there
    stale,      \* history: the end of an earlier run is reported during this one
    unseen      \* history: a recipe was loaded and Monitor not looked at since

plcVars == <<stopQ, modeQ, dt201, dt223>>
monVars == <<mon, timer, program, unseen>>
vars == <<scene, link, conn, signals, mode, ex, ui, plcVars, monVars, idle, halt, stale>>

TypeOK ==
    /\ scene \in Scenes /\ link \in BOOLEAN /\ conn \in BOOLEAN
    /\ signals \in Seq({"up", "down", "ended", "error", "monitor"})
    /\ mode \in 0 .. 2
    /\ ex \in [th : {"none", "run", "tell", "off", "bye"}, stop : BOOLEAN,
               state : {"IDLE", "RUNNING", "PAUSED", "STOPPING", "ERROR"},
               told : BOOLEAN, flows : BOOLEAN]
    /\ ui \in {"free", "stop", "pause", "resume", "report"}
    /\ mon \in BOOLEAN /\ timer \in BOOLEAN
    /\ program \in {"none", "plain", "refused"}
    /\ idle \in BOOLEAN
    /\ stopQ \in Seq(BOOLEAN) /\ modeQ \in Seq(0 .. 2)
    /\ dt201 \in 0 .. 2 /\ dt223 \in BOOLEAN
    /\ halt \in {"held", "freed", "unknown"}
    /\ stale \in BOOLEAN /\ unseen \in BOOLEAN

---------------------------------------------------------------------------
Running == ex.th # "none"       \* executor.is_running

\* What the scene follows: the flows of Main and the pause, the Monitor programs of
\* a recipe.
FlowsFollowed == scene # "monitor"
MonitorFollowed == scene # "flows"
MonitorPrograms == IF MonitorFollowed THEN {"none", "plain", "refused"} ELSE {"none"}

\* A step that signals or submits starts below the bound; what it adds may exceed it.
Room == Len(signals) + Len(stopQ) + Len(modeQ) < QueueMax

\* Mutant: a signal is dropped while another waits.
SignalIfNone(s) == signals' = IF signals = <<>> THEN <<s>> ELSE signals

Signal(s) == signals' = Append(signals, s)

\* Commands are submitted in order; those for DT223 go first.
SubmitMode(m) == modeQ' = Append(modeQ, m)

\* Mutant: a stop has a better priority than the start's release of the bit.
SubmitStopFirst(b) == stopQ' = IF b THEN <<b>> \o stopQ ELSE Append(stopQ, b)

SubmitStop(b) == stopQ' = Append(stopQ, b)

\* Mutant: pause does not look at the state.
PausesAnyway(e) == "pause"

\* pause, up to its look at the state: only a running executor.  ui' is what is left
\* to do.
Pauses(e) == IF e.state = "RUNNING" THEN "pause" ELSE "free"

\* _emit_monitor when the mode goes to 0: the page, which shows the mode, pauses
\* the executor when it sees a check run end.
Emit == ui' = IF mode = 2 THEN Pauses(ex) ELSE "free"

MayMonitor == program = "plain" /\ ~mon

\* _run_monitor_sequence: a program with a move or an invalid recipe is refused and
\* tried again later; retry: the restart timer can be started (on the UI
\* thread).
RunMonitor(c, retry) ==
    /\ mon' = (mon \/ (c /\ MayMonitor))
    /\ timer' = (timer \/ (retry /\ c /\ program = "refused" /\ ~mon))
    /\ unseen' = (unseen /\ ~(c /\ MayMonitor))
    /\ UNCHANGED program

\* executor.start.  flows: a flow of an earlier run may be alive.  told: history, an
\* end was reported since this start.
Started == [ex EXCEPT !.th = "run", !.state = "RUNNING", !.stop = FALSE, !.told = FALSE]

\* Mutant: both executors report to the same slot.
EndsOfBoth == {"ended", "error", "monitor"}

\* What the executor of Main reports as an end: IDLE or ERROR.
Ends == {"ended", "error"}

EndQueued == \E i \in DOMAIN signals : signals[i] \in Ends

---------------------------------------------------------------------------
(* Commands of the page.                                                     *)

\* AUTO, confirmed.  The page asks only while no mode is on (_can_start_run), and
\* none comes on while its question is open; the connection may go.
StartAuto ==
    /\ mode = 0 /\ conn /\ ~Running /\ Room
    /\ mode' = 1 /\ ex' = Started
    /\ SubmitStop(FALSE) /\ SubmitMode(1)
    /\ RunMonitor(conn, TRUE)
    /\ halt' = "freed" /\ stale' = EndQueued
    /\ UNCHANGED <<scene, link, conn, signals, ui, idle, dt201, dt223>>

\* executor.start raises: a run has not ended yet, or the recipe is not valid.  The
\* stop bit has been taken back already.
StartRefused ==
    /\ mode = 0 /\ conn /\ Room
    /\ SubmitStop(FALSE) /\ modeQ' = modeQ \o <<1, 0>>
    /\ RunMonitor(conn, TRUE)
    /\ halt' = "freed"
    /\ UNCHANGED <<scene, link, conn, signals, mode, ex, ui, idle, dt201, dt223, stale>>

\* prepare_check_mode, after the same question.
PrepareCheck ==
    /\ mode = 0 /\ conn /\ ~Running /\ Room
    /\ mode' = 2 /\ SubmitMode(2) /\ RunMonitor(conn, TRUE)
    /\ UNCHANGED <<scene, link, conn, signals, ex, ui, idle, stopQ, dt201, dt223, halt, stale>>

\* start_check: START on the page of a check run.
StartCheck ==
    /\ mode = 2 /\ conn
    /\ \/ /\ ex.state = "PAUSED"
          /\ ui' = "resume"
          /\ UNCHANGED <<ex, plcVars, monVars, halt, stale>>
       \/ /\ ex.state # "PAUSED" /\ ~Running /\ Room
          /\ ex' = Started
          /\ SubmitStop(FALSE) /\ SubmitMode(mode) /\ RunMonitor(conn, TRUE)
          /\ halt' = "freed" /\ stale' = EndQueued
          /\ UNCHANGED <<ui, dt201, dt223>>
    /\ UNCHANGED <<scene, link, conn, signals, mode, idle>>

PauseClicked ==
    /\ FlowsFollowed /\ ui' = Pauses(ex)
    /\ UNCHANGED <<scene, link, conn, signals, mode, ex, plcVars, monVars, idle, halt, stale>>

\* stop, up to the executor's look at its thread, and if there is none the page's
\* pause after it.  Bound: one idle stop at a time.
StopClicked ==
    /\ Room
    /\ ~idle
    /\ mode' = 0
    /\ IF conn THEN SubmitStop(TRUE) /\ SubmitMode(0) /\ halt' = "held"
       ELSE halt' = "unknown" /\ UNCHANGED <<stopQ, modeQ>>
    /\ idle' = (~Running /\ MonitorFollowed)
    /\ ui' = IF Running THEN "stop" ELSE Pauses(ex)
    /\ UNCHANGED <<scene, link, conn, signals, ex, dt201, dt223, monVars, stale>>

\* _idle_safe_stop: the outputs, then Monitor; not on the UI thread.
IdleStop ==
    /\ idle /\ idle' = FALSE
    /\ RunMonitor(conn, FALSE)
    /\ UNCHANGED <<scene, link, conn, signals, mode, ex, ui, plcVars, halt, stale>>

PageStep ==
    /\ ui = "free"
    /\ StartAuto \/ StartRefused \/ PrepareCheck \/ StartCheck \/ PauseClicked \/ StopClicked

---------------------------------------------------------------------------
(* The rest of stop, pause and resume, each of which writes what it has       *)
(* decided on a state that may have changed since.                            *)

Stopping(e) == [e EXCEPT !.state = "STOPPING", !.stop = TRUE]

\* stop, then the page's pause.
UiStops ==
    /\ ui = "stop"
    /\ ex' = Stopping(ex)
    /\ ui' = Pauses(ex')

UiPauses ==
    /\ ui \in {"pause", "resume"}
    /\ ex' = [ex EXCEPT !.state = IF ui = "pause" THEN "PAUSED" ELSE "RUNNING"]
    /\ ui' = "report"

---------------------------------------------------------------------------
(* The executor's thread (_run), its flows, and Monitor's.                    *)

EndOf(state) == IF state = "ERROR" THEN "error" ELSE "ended"

\* A thread of the executor reports the state it finds (_emit): an end, or nothing
\* that the mode depends on.
Report(th) ==
    /\ ex' = [ex EXCEPT !.th = th, !.told = @ \/ ex.state \in {"IDLE", "ERROR"},
                        !.flows = @ \/ (th = "none" /\ FlowsFollowed)]
    /\ IF ex.state \in {"IDLE", "ERROR"} THEN Signal(EndOf(ex.state)) ELSE UNCHANGED signals

\* The run is over: completed, if it has not seen a stop, stopped, or failed.
RunEnds ==
    /\ ex.th = "run"
    /\ \/ ex' = [ex EXCEPT !.th = "tell", !.state = "IDLE"]
       \/ ex.stop /\ ex' = [ex EXCEPT !.th = "off"]
       \/ ex' = [ex EXCEPT !.th = "tell", !.state = "ERROR"]
    /\ UNCHANGED signals

RunTells == ex.th = "tell" /\ Room /\ Report("off")

\* The outputs are switched off; a failure of that is not reported, and hides a stop.
RunOff ==
    /\ ex.th = "off"
    /\ \E state \in {ex.state, "ERROR"} :
          ex' = IF state = "STOPPING" THEN [ex EXCEPT !.th = "bye", !.state = "IDLE"]
                ELSE [ex EXCEPT !.th = "none", !.state = state, !.flows = FlowsFollowed]
    /\ UNCHANGED signals

RunLeaves == ex.th = "bye" /\ Room /\ Report("none")

RunStep ==
    /\ RunEnds \/ RunTells \/ RunOff \/ RunLeaves
    /\ UNCHANGED <<scene, link, conn, mode, ui, plcVars, monVars, idle, halt, stale>>

\* A flow of this run or of an earlier one stops the executor, as the operator has
\* answered (the state, then _stop), or fails (_stop alone) ...
FlowStops ==
    /\ \/ ex' = [ex EXCEPT !.state = "STOPPING"]
       \/ ex' = [ex EXCEPT !.stop = TRUE]
    /\ UNCHANGED <<signals, stale>>

\* ... or reports a step, or its own end, when the run is over; one of an earlier run
\* may have read that run's end long ago.
FlowReports ==
    /\ Room
    /\ \/ ex.state \in {"IDLE", "ERROR"} /\ Report(ex.th) /\ UNCHANGED stale
       \/ /\ ex.flows /\ \E e \in Ends : Signal(e)
          /\ stale' = TRUE /\ ex' = [ex EXCEPT !.told = TRUE]

FlowStep ==
    /\ FlowsFollowed /\ (Running \/ ex.flows)
    /\ FlowStops \/ FlowReports
    /\ UNCHANGED <<scene, link, conn, mode, ui, plcVars, monVars, idle, halt>>

\* A pass of Monitor ends, by itself, by a stop or by a failure.
MonitorEnds ==
    /\ mon /\ Room
    /\ mon' = FALSE
    /\ Signal("monitor")
    /\ UNCHANGED <<scene, link, conn, mode, ex, ui, plcVars, timer, program, unseen, idle,
                   halt, stale>>

---------------------------------------------------------------------------
(* The UI thread: the next signal, the restart timer.                        *)

\* Mutant: Monitor rests while a mode is on.
SchedulableIdle(c) == c /\ program # "none" /\ mode = 0

\* _schedule_monitor_sequence.
Schedulable(c) == c /\ program # "none"

Connected ==
    /\ Head(signals) = "up"
    /\ conn' = TRUE /\ SubmitMode(mode)
    /\ timer' = (timer \/ Schedulable(TRUE))
    /\ UNCHANGED <<mode, ui, mon, program, unseen, stopQ, halt>>

Disconnected ==
    /\ Head(signals) = "down"
    /\ conn' = FALSE /\ timer' = FALSE
    /\ UNCHANGED <<mode, ui, mon, program, unseen, stopQ, modeQ, halt>>

\* Mutant: the end of a run stays unknown to the PLC.
ModeUnsent == UNCHANGED modeQ

ReportEnd == IF conn THEN SubmitMode(0) ELSE UNCHANGED modeQ

\* _on_executor_status of a run's end.
RunEnded(end) ==
    /\ mode' = 0 /\ ReportEnd
    /\ IF end # "error" THEN UNCHANGED <<stopQ, halt>>
       ELSE IF conn THEN SubmitStop(TRUE) /\ halt' = "held"
       ELSE halt' = "unknown" /\ UNCHANGED stopQ
    /\ IF end = "error" THEN UNCHANGED monVars ELSE RunMonitor(conn, TRUE)
    /\ Emit
    /\ UNCHANGED conn

\* _on_monitor_executor_status.
MonitorEnded ==
    /\ Head(signals) = "monitor"
    /\ timer' = (timer \/ Schedulable(conn))
    /\ UNCHANGED <<conn, mode, ui, mon, program, unseen, stopQ, modeQ, halt>>

HandleSignal ==
    /\ ui = "free"
    /\ signals # <<>> /\ signals' = Tail(signals)
    /\ \/ Connected \/ Disconnected \/ MonitorEnded
       \/ Head(signals) \in Ends /\ RunEnded(Head(signals))
    /\ UNCHANGED <<scene, link, ex, idle, dt201, dt223, stale>>

\* What stop, pause and resume still have to write, and the report after the latter
\* two, which the UI thread receives at once.
UiGoesOn ==
    /\ \/ UiStops /\ UNCHANGED <<mode, conn, stopQ, modeQ, halt, monVars>>
       \/ UiPauses /\ UNCHANGED <<mode, conn, stopQ, modeQ, halt, monVars>>
       \/ /\ ui = "report" /\ UNCHANGED ex
          /\ IF ex.state \in {"IDLE", "ERROR"} THEN RunEnded(EndOf(ex.state))
             ELSE ui' = "free" /\ UNCHANGED <<mode, conn, stopQ, modeQ, halt, monVars>>
    /\ UNCHANGED <<scene, link, signals, idle, dt201, dt223, stale>>

TimerFires ==
    /\ timer /\ ui = "free"
    /\ mon' = (mon \/ (conn /\ MayMonitor))
    /\ timer' = (conn /\ program = "refused" /\ ~mon)
    /\ unseen' = (unseen /\ ~(conn /\ MayMonitor))
    /\ UNCHANGED <<scene, link, conn, signals, mode, ex, ui, program, plcVars, idle,
                   halt, stale>>

\* The editor's recipe is accepted: refresh_monitor_sequence ...
EditRecipe ==
    /\ ui = "free"
    /\ program' \in MonitorPrograms
    /\ timer' = (conn /\ program' # "none")
    /\ unseen' = FALSE
    /\ UNCHANGED <<scene, link, conn, signals, mode, ex, ui, plcVars, mon, idle, halt, stale>>

\* ... the data page loads another: nothing of the kind.
LoadRecipe ==
    /\ ui = "free"
    /\ program' \in MonitorPrograms \ {program}
    /\ unseen' = TRUE
    /\ UNCHANGED <<scene, link, conn, signals, mode, ex, ui, plcVars, mon, timer, idle,
                   halt, stale>>

UiStep == HandleSignal \/ UiGoesOn \/ TimerFires

---------------------------------------------------------------------------
(* The communication thread and the link.                                    *)

\* A command that finds no link is lost.
Deliver ==
    /\ \/ /\ stopQ # <<>> /\ stopQ' = Tail(stopQ)
          /\ dt223' = IF link THEN Head(stopQ) ELSE dt223
          /\ halt' = IF link THEN halt ELSE "unknown"
          /\ UNCHANGED <<modeQ, dt201>>
       \/ /\ stopQ = <<>> /\ modeQ # <<>> /\ modeQ' = Tail(modeQ)
          /\ dt201' = IF link THEN Head(modeQ) ELSE dt201
          /\ UNCHANGED <<stopQ, dt223, halt>>
    /\ UNCHANGED <<scene, link, conn, signals, mode, ex, ui, monVars, idle, stale>>

LinkChanges ==
    /\ Room
    /\ link' = ~link
    /\ Signal(IF link THEN "down" ELSE "up")
    /\ UNCHANGED <<scene, conn, mode, ex, ui, plcVars, monVars, idle, halt, stale>>

---------------------------------------------------------------------------
Init ==
    /\ scene \in Scenes /\ link = FALSE /\ conn = FALSE /\ signals = <<>> /\ mode = 0
    /\ ex = [th |-> "none", state |-> "IDLE", stop |-> FALSE, told |-> FALSE, flows |-> FALSE]
    /\ ui = "free"
    /\ mon = FALSE /\ timer = FALSE /\ program \in MonitorPrograms /\ unseen = FALSE
    /\ idle = FALSE /\ stopQ = <<>> /\ modeQ = <<>> /\ dt201 = 0 /\ dt223 = FALSE
    /\ halt = "unknown" /\ stale = FALSE

Next ==
    \/ PageStep \/ IdleStop \/ RunStep \/ FlowStep \/ MonitorEnds \/ UiStep
    \/ EditRecipe \/ LoadRecipe \/ Deliver \/ LinkChanges

Spec == Init /\ [][Next]_vars

\* Every thread goes on: the UI thread, the communication thread, and the stop
\* thread.  The event loop passes neither a signal nor a due timer over for ever, and
\* the bound holds no report of an end back for ever.  How long a program runs is the
\* recipe's business; its end, once reached, is handled.
FairSpec ==
    /\ Spec
    /\ SF_vars(HandleSignal) /\ WF_vars(UiGoesOn) /\ SF_vars(TimerFires)
    /\ WF_vars(Deliver) /\ WF_vars(IdleStop)
    /\ SF_vars(RunStep /\ ex.th # "run")

---------------------------------------------------------------------------
(* Properties.                                                               *)

\* Nothing is under way between the runtime and the PLC.
Settled == link /\ conn /\ signals = <<>> /\ stopQ = <<>> /\ modeQ = <<>>

\* What the PLC holds in DT201 is the pendant's mode again after every loss of the
\* link, refused start, stop and end of a run, in whatever order they were queued.
ModeReachesPlc == Settled => dt201 = mode

\* The stop bit is what the last stop or start wanted, unless that command found no
\* connection: a stop is never overtaken by the start before it.
StopBitHolds == Settled => (halt = "held" => dt223) /\ (halt = "freed" => ~dt223)

\* A program that runs, runs in a mode: the page offers the stop and not another
\* start, and no pause, which stop and the end of a check run send after them, brings
\* a stopped run back.  Not so while the UI thread is still at it, and when the late
\* report of an earlier run's end resets the mode.
RunKeepsModeApart ==
    ex.th = "run" /\ ex.state \in {"RUNNING", "PAUSED"} /\ ui = "free" /\ ~stale
        => mode # 0

\* Executor and runtime agree about the run.
ModesInv == TypeOK /\ RunKeepsModeApart

\* While the link holds and the Monitor program may run, it is run again and again,
\* through mode changes, stops, edits and its own failures; not, if it came with a
\* recipe that was loaded while no Monitor ran.
MonitorReturns == <>[](conn /\ program = "plain" /\ ~unseen) => []<>mon

\* After a run has ended no mode stays for ever: the page offers a start again.  Not
\* so when the thread has ended without a report: a pause, a stop or a failed output
\* reset has changed the state that it was about to report.
ModeEnds == []<>(mode # 1 \/ ex.th = "run" \/ (ex.th = "none" /\ ~ex.told))
============================================================================
