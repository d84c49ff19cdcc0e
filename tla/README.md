# A verification project for the robot pendant

The program is the operator pendant of a take-out robot: a Raspberry Pi with a
touch screen that runs recipes, and a Panasonic FP0H PLC that drives outputs and
servo axes. The recipe's control flow runs in Python on the Pi; each hardware
action is a request to the PLC through a mailbox of data registers over TCP.
What can go wrong lies between the threads of the pendant, between the pendant
and the PLC, and in the session between them. That is what is modelled here.

    operator -> UI thread --start/pause/stop--> SequenceExecutor flows (threads)
                   |                                  | move, write_output
                   |                                  v
                   |                         FP0HCommandBackend (_command_lock)
             100 ms publisher                         | send_packet (lock)
                   | submit                           v
                   +----> command queue --> PLCClient session <-> FB_PendantMailbox
                          communication thread: queue, monitor poll, heartbeat
                          reconnect loop: one thread at a time

## 1. Inventory

| Component (source) | State it keeps | Operations | Hard behaviour | What makes it correct |
|---|---|---|---|---|
| Recipe executor (`engine/step_executor.py`) | `state`, events `_stop` and `_run_gate`, `_thread`, `_workers`, `_worker_error`, `last_error` | start, pause, resume, stop; a thread for Main and one per parallel CALL; 11 step kinds | no lock: check-then-act on `state` and `is_running`; workers outlive runs; stop meets a flow at any point | a stop ends the run; at most one more action; outputs off afterwards; "completed" means all flows ended |
| Mailbox, pendant (`engine/plc_command_backend.py`) | `_sequence`, `_command_lock` | synchronise, write request, poll until acknowledged or 30 s | lost or late packets, time-outs, 16-bit wrap, restarts | DONE is told to the caller of that very command |
| Mailbox, PLC (`plc/FB_PendantMailbox.st`) | request and status registers, active sequence and command, pulse, interlock memory | one scan: interlock, pulse end, STOP, accept, motion status | several of these in one scan | each request handled at most once, in order |
| PLC client (`utils/plc_client.py`) | `sock`, `is_connected`, `_reconnect_running`, `_manual_disconnect`, `_monitor_running`, the queue, the jog word | send_packet, poll, heartbeat, loss, reconnect loop, connect, disconnect, submit | every loss is seen by several threads; some shared state is outside the lock; commands overtake one another by priority | one reconnect loop, losses noticed, session comes back, UI shows the truth |
| Variables (`utils/variable_store.py`) | definitions, values, addresses, dirty flags, pending clears | set, calculate, reset, publish, remove, load, snapshot | any thread writes while the publisher snapshots | no change is forgotten, no address shared |
| Runtime (`engine/qt_runtime.py`) | `current_mode`, two executors, restart timer, publisher state, requests | modes, check run, stop, status signals, publisher, time-out question | queued signals of earlier runs; commands that wait or are lost | the PLC has the pendant's mode and the last stop; Monitor comes back |
| Step sequencer (`new_plc_fb.st`) | per instance a stack of contexts, timers, delayed outputs; shared outputs, alarm, mode, packing index | one call per scan: reset, alarm reset, delayed outputs, one state | three instances in turn over shared words; a pulse of one scan; timers that outlast their step | calls return where they came from; workers run what was called; nothing moves after a stop |
| Sequence editor (`ui/dialogs/sequence_editor_qml.py`, before it `sequence_editor_dialog.py`) | a copy of the programs, current program and row | steps inserted, deleted, moved; jump and call targets; programs added, renamed, deleted; save, cancel | references by row number and by name that every operation must keep | jumps and calls lead where they led; Monitor never moves |
| Recipe files and pages (`ui/pages/page_data_qml.py`, `page_position_qml.py`, `page_timer_qml.py`) | shared dictionaries in memory, the editor's copy, files, last recipe | teach, edit, rename, save, load, delete, automatic save, restart | each coordinate and time is kept twice | a step goes where its point is shown; a file is one recipe |
| Questions (`ui/qml_controller.py`, `ui/qml_overlay.py`) | queue of requests, active one, callback of the popup | show, answer, next | flows that ask at once, runs that end meanwhile, one popup for all | every flow gets its answer, nobody gets another's |
| Stop and jog by hand (`utils/gpio_estop.py`, `ui/qml_overlay.py`) | debounced line, held keys, jog word, DT220, DT223 | poll, press, release, close, reconnect | three writers of one bit, priorities, losses | no direction stays set; a held stop stops |

`PROJECT.json` lists these and the parts left aside with their status, and every
hazard at its line. The widget application (`ui/main_window.py` and what it
loads) is not used by `main.py`; of it only the editor's corrections of jump
targets are modelled, beside those of the editor that replaces it.

## 2. The modules and how they follow the code

* **CommandLog** - what the mailbox promises, without registers and scans:
  requests are numbered as they are issued; the PLC handles each at most once and
  in that order.
* **PendantMailbox** - `_execute` and one scan of `FB_PendantMailbox`, with a
  request in flight between them. `pc` is the place in `_execute`, `pseq` is
  `_sequence`, `plc` holds DT400/DT401 and the internal variables. `AfterScan`
  composes the function block's statement groups in their order (`Interlock`,
  `PulseEnd`, `HandleRequest` = `StopNow` or `Accept`/`Execute`, `MotionStatus`),
  so a pulse that ends and a request that is taken in the same scan meet as they
  do in the PLC. Requests carry the number of their issue (`id`), and `log`
  lists the handled ones: history that the program does not have and that the
  properties are about. A servo block reports only while a motion runs.
* **PendantMailbox_proof**, **PlcLink_proof**, **StepExecutor_proof**,
  **VariableMirror_proof**, **SequenceEdit_proof**, **RecipeBook_proof**,
  **Runtimes_proof** (RuntimeModes and StepSequencer) and **Operator_proof**
  (OperatorPanel and OperatorQuestions) - the theorems (section 5). Of two modules
  proved together the second carries its name in `...Init`, `...Next`, `...Spec`.
* **StepExecutor**, with recipes in **MCStepExecutor** - the flow threads with an
  explicit stack of sequences for the recursive `_execute_sequence`, and the UI
  thread. One action is one access to an attribute or event that another thread
  can see: `stop()` is `StopCall` (reads `is_running`), `StopState`, `StopEvents`.
  Steps are a kind with what it can do (act, wait, fail, jump, call); each wait
  loop is `BeginWait`, `WaitLoop`, `Held`, `Poll`, with the differences between
  `_wait_input`, `_wait_held_input`, `_wait_position` and `_sleep` in the guards.
  A recipe's Main and CALL targets are valid, as `validate_sequences` ensures.
* **PlcLink** - the session. A packet is `Enter` (the lock), `Receive`, and, when
  it fails, `Lost` / `Tell` / `Restart`: the three parts of
  `_mark_connection_lost`, the first and third under the lock. The reconnect loop
  and `disconnect_plc` are split at every access outside the lock.
* **VariableMirror** - the store (one action per locked operation), the publisher
  (`Publish` is the whole 100 ms tick), the ordered queue and its losses, and the
  `sig_connected` signals that reach the runtime later.

* **RuntimeModes** - `PLCSequenceRuntime` between three threads' worth of delays:
  `signals` is the queue of Qt signals to the UI thread, `stopQ` and `modeQ` the
  commands for DT223 and DT201 in the client's priority queue. A page's button,
  the handling of one signal, a firing of the restart timer are one action each,
  as the UI thread executes them whole, but for the executor's `stop`, `pause` and
  `resume`: these look at the executor first and write to it later (`ui`,
  `UiGoesOn`), while its thread and its flows write the same `state` and `_stop`
  without a lock. The executor's thread ends in four places: `RunEnds` sets the
  state, `RunTells` reports what the state has become meanwhile, `RunOff` switches
  the outputs off, which may fail, and `RunLeaves` reports a stop. A flow, of this
  run or of an earlier one, stops the executor or fails at any time (`FlowStops`)
  and reports an end that it has read (`FlowReports`). `Emit` is what the page does
  when it is told.
* **StepSequencer**, with recipes in **MCStepSequencer** - `new_plc_fb.st`, one
  action per call of an instance, in the fixed order Main, worker 1, worker 2.
  `Ready` is what precedes the CASE (pulses cleared, alarm reset, delayed
  outputs), each state of the CASE an action on the loaded context, `Save` what
  follows it. `Scan` is the PROGRAM around it, not in the repository, as the
  header of the block describes its wiring. A TON takes any time, at least a scan.
* **SequenceEdit** - one session of either editor over the same data; where they
  differ the action says so. Steps carry an identity (`id`) and jumps what they
  were aimed at (`aim`): what the code lacks and the property needs. `MonitorMoves`, the editor's search
  for a movement that Monitor could reach, is a path of calls that repeats no
  program, as the code's recursion skips what it has visited.
* **RecipeBook** - memory, session and files as records of the same shape
  (`Recipe`), with what differs between them: steps in a file carry no
  coordinates. The timer library is the pages' own also during a session, and so
  is the store of named variables, which every change of it saves with the
  programs in memory. `use` stands for the steps that name a variable, `Held` for
  those of them that are TMR steps; a start and the opening of the editor create
  what is named and missing (`Ensured`). Ghosts in the record say how a
  disagreement came about.
* **OperatorQuestions** - flows that block in `_executor_event`, the queue of
  `PendantController`, and the one callback of the overlay, for which the pages
  compete.
* **OperatorPanel** - the priority queue of `PLCClient` with its commands for
  DT220 and DT223. A command is executed whole: it changes the jog word, then it
  may arrive or not, be answered or not.

The modules meet at small interfaces: a `POS` step of StepExecutor may fail or
finish whatever the mailbox does, and its output reset may find a connection or
none; a call of PendantMailbox fails whenever PlcLink has no session;
VariableMirror, RuntimeModes and OperatorPanel use a link that comes and goes. They
are checked apart, since their product would be far too large. What a module
assumes of its neighbour is meant to allow at least what the neighbour does, which
is argued here and not proved: RuntimeModes lets the executor end, fail or be
stopped by a flow at any moment, in any state, paused ones included, and lets flows
of earlier runs go on reporting. Three interfaces are narrower than the code.
OperatorQuestions has no pause. The signals "connected" and "lost" reach
RuntimeModes, VariableMirror and OperatorPanel in the order in which the link
changed, which PlcLink shows not to be so where a session is given up before its
loop has ended (`overlap`). And the run `modes_all` follows either the
executor's flows and the pause, or the Monitor program (`Scenes`): both at once are
beyond TLC, not beyond the theorems, which cover them.

## 3. What the runs show

| Run | Bounds | Shows |
|---|---|---|
| `mailbox_all` | SeqMax 2, 3 requests, all commands that differ, servo errors, restarts | `SeqInv`, and the refinement of CommandLog: at most once and in order even though the sequence number wraps within the run |
| `mailbox_one_client` | SeqMax 4, 4 requests, one process, servo errors, simultaneous moves | `DoneMeansHandled`, `DoneMeansFinished`, `PulsesAreTimed` |
| `executor_flows` | 4 recipes, 2 starts, 4 threads, depth 1 | `ExecutorInv` (with: a pause is shown while the gate is closed), `AtMostOneMoreEffect`, `SequentialOutputsOff`, `CompleteMeansAll`, `StopEndsRun`, `FailureEndsRun` |
| `link_all` | communication thread (poll, heartbeat, queued command) and one caller, 2 connects, none of them rushed | `LinkInv` (with: one reconnect loop), `RecoversApart`, `LossDetected`, `DisconnectEndsLoop`, `ShownTrue` |
| `link_dead` | the same | *fails*: the communication thread dies |
| `mirror_all` | 2 variables, 3 addresses, 2 changes, 1 loss, threshold 1 | `MirrorInv` (with: the slots agree with the variables once settled), `CommitIsLast`, `Converges` |
| `editor_all` | 4 program names, 4 rows, 3 changes, both editors | `EditorInv` (calls exist, Monitor stands still), `JumpKeepsTargetApart` |
| `recipe_all` | 2 moves, 2 points, 2 timers, 2 files of which 1 old, 2 steps with variables of which 1 TMR, room for 2 variables, 3 changes | `BookInv` (times agree, points and variables exist, numbers keep their meaning, files are whole), `GoesWhereShownApart`, `ReloadKeepsGoals`, `ChangesReachFile` |
| `modes_all` | 2 signals and commands that wait; flows and pause, or Monitor | `ModesInv` (with: a program that runs is in a mode), `ModeReachesPlc`, `StopBitHolds`, `MonitorReturns`, `ModeEnds` |
| `sequencer_all` | 7 recipes, slots of 5 steps, 1 delayed output each, stack of 3, 3 operator commands | `SequencerInv` (callers await, the pallet counts cycles), `WorkersRunCalls`, `OutputsQuietAfterStop`, `ErrorStopsAll` |
| `questions_all` | 2 flows, 4 questions, 2 runs | `QuestionsInv` (the popup shows the active question, one run at a time), `QuestionsEnd` |
| `panel_all` | debounce 2, 2 commands before the next key | `PanelInv` (one direction, only held ones, the alarm as its two causes), `EstopStops` |

Every property of a passing run has a mutant in the module it is about (an
operator commented "Mutant"), with which TLC finds it violated; an invariant that
joins several has one for each of its main parts.

**Why these bounds.** *Mailbox*: a wrap needs SeqMax requests; three requests give
one given up, one late and one new, and the theorems cover every SeqMax and any
number of requests. In `mailbox_one_client` MaxIssued equals SeqMax: an abandoned
command could only be confused with one 65535 commands later while the PLC is still
busy with it. *Executor*: two starts and a straggling flow give two runs side by
side; four threads give Main and two parallel flows beside it; depth 1 reaches the
nesting limit with one CALL. *Link*: two threads are enough for one to lose the
session while the other waits for the lock. Loop threads are reused, so that runs are
unbounded in losses and reconnects; only connects are counted: the second comes after
a disconnect, or while the loop of the first still tries. `MayRush` is FALSE: a
connect after a disconnect waits until the old loop has ended (section 4, *Link*).
With TRUE the liveness properties take TLC longer than is practical; `LinkInv` is
proved for both. *Mirror*: with two variables and threshold 1 a snapshot is a block
or a single write, an address can change hands, and one loss can strike at every
write. *Editor*: an operation touches the selected row, its neighbour and the jumps
into them, so that four rows with a comment, a jump and its target show each case,
and the third change meets what two others left. *Recipe*: two of everything let a
name be taken, given up and reused; 2 variables are the capacity of the store (128
bits, 100 data in the code), so that it fills. *Modes*: a step that signals or
submits begins with fewer than two entries waiting and may add up to three, so that
an end of a run, a loss and the commands of a start wait together; runs themselves
are not counted. *Sequencer*: three commands are a start, a stop or reset, and a
start; Main, one program in each worker and two levels of calls are in the recipes,
and one program that fills its slot of five steps and ends in a CALL, so that the
step to return to wraps; one delayed output an instance is both its first and its
last. *Questions*: two flows of one run ask, and two of the next. *Panel*: the
reconnect and close add two commands each to the two that wait; losses and reconnects
are not counted.

**Deadlock** is checked in `recipe_all`, `sequencer_all` and `panel_all`. In the
others the modelled system stops when its bounds (requests, starts, changes,
questions, room in the queues) are used up, and when the operator does nothing.

**What `...Apart` means.** The plain property holds outside a situation that a
history variable records, and inside it does not (section 4): `overlap` (a session
given up before the loop that made it ended), `zeroed` (published slots a partial
block has set to 0), `lost` (a jump whose target was deleted or moved in the QML
editor; in RecipeBook a variable deleted while it was named), `drift`, `torn` and
`mixed` (a taught step whose point was changed in the editor; times of a session that
was cancelled; a load that failed half-way), `stale` (a run started before the end of
the last was handled, or a flow of an earlier run that reports its end), `rushed` (a
connect before the loop of before a disconnect had ended), `left` and `over` in the
mailbox (a pulse that a servo error failed while it ran; a command accepted over
another one's motion or over such a pulse), `offMissed` (the output reset at the end
of a run failed or found no connection). `LossDetected` ends where the communication
thread is dead, the situation of `link_dead`. `SequentialOutputsOff` is about recipes
without parallel CALLs, `WorkersRunCalls` about the automatic mode and instances that
were not left in the middle of a program (`torn`), `EstopStops` about a stop that was
sent and not undone (`missed`), `OneRunAsks` about flows that did not outlive a
failed main thread (`orphans`), `MonitorReturns` about programs Monitor was told of
(`unseen`), `ModeEnds` about runs whose thread reported the end (`told`).

**Fairness.** *Executor*: weak fairness of each flow thread and of an operation
the UI thread has entered, because the operating system schedules threads and
every blocking call of a flow has a time-out (30 s for a command). The operator
owes nothing: the answer to the time-out question, resume and stop are not fair.
*Link*: strong fairness of each thread, of the loop and of the UI, because they
compete for `self.lock`, which is held for one exchange (0.75 s at most) and
which callers release between exchanges. The cable owes nothing.
*Mirror*: weak fairness of the publisher's timer, the queue, the loop and the UI
thread's event queue. *Recipe*: the 60 s timer of the automatic save. *Modes*:
the UI thread's queue and timer, the communication thread, the stop thread, and
an executor thread past its program; how long a program runs is not assumed.
*Sequencer*: the PLC goes on scanning. *Questions*: the flows' polls, the UI
thread, and an operator who in the end answers a popup that stays on the screen
(strong, because questions of other flows are delivered in between). *Panel*: the
polls of the line (strong, because the bound on the queue may disable one) and the
communication thread. *Mailbox*, *Editor*: no liveness is claimed.

**Timing assumptions**, where the code relies on sleeps: the 5 s sleep of the
reconnect loop outlasts a packet of the lost session (`PlcLink.Wake`) and the
emptying of the queue without a session (`Reconnect` of VariableMirror and
OperatorPanel); a press takes longer than Qt's queue of signals, than a timer of
0 ms, and than the 50 ms poll of a flow whose run was stopped
(`OperatorQuestions.Press`, `Popup`, `Start`).

## 4. Findings and known disagreements

One is kept as a failing run. **`link_dead`**: `_send_packet_raw` looks at
`self.sock` before it takes the lock; when another thread loses the session
meanwhile the AttributeError of the heartbeat ends the only communication thread.

The others came up while modelling; each is the exception of a property above,
recorded by the variable named there or in section 3, and drops out of the property
when the code is changed.

* *Mailbox.* The synchronisation from DT400 protects against the last
  *acknowledged* number, not the one the PLC is busy with: a pendant restarted
  meanwhile takes that command's acknowledgement for its own (hence no restarts in
  `mailbox_one_client`). The end of a simultaneous move acknowledges the blocking
  move accepted while it runs: MotionDone does not say of which motion (`over`). A
  servo error that arrives while a PULSE is the active command fails that command
  and leaves `b_PulseActive` and its timer on (`FB_PendantMailbox.st:177-179`). If
  the next request is a PULSE, it overwrites `w_PulseMask` (line 139) and the first
  output is never switched off (`left`), although `FP0H_PENDANT_MAILBOX.md` says
  that a pulse is timed completely in the PLC. If it is a MOVE, the first pulse's
  timer elapses meanwhile and acknowledges the MOVE as done (lines 82-87) while its
  motion is under way (`over`), although the backend's docstring says that the
  sequence is copied only after a command has finished or been rejected.
* *Executor.* The error path of `_run` neither stops nor joins the parallel flows
  before it switches the outputs off. `_run` joins a copy of `_workers` (line 245):
  a flow that a parallel flow starts while the copy is being joined may outlive
  "completed", so `CompleteIsAll` (section 5) is about recipes whose parallel
  sequences start none. `reset_outputs` returns without a word when there is no
  connection (`plc_command_backend.py:172-173`, called from `qt_runtime.py:532`): a
  run that ends while the link is down, as after a command that the loss failed,
  leaves the outputs as they are, and no error says so of them (`offMissed`).
* *Link.* `_reconnect_running` is cleared after the loop's last look at
  `is_connected`: a session lost between the two is never reconnected.
  `disconnect_plc` clears it although the loop may still sleep: where the page
  shows a session that is already being reconnected, a disconnect and a connect
  within those 5 s start a second loop beside the first. With `MayRush` the model
  does that; `OneLoop` and `RecoversApart` then set apart the time from such a
  connect until no loop is left (`rushed`).
* *Mirror.* A block write of more than eight values zeroes the others.
* *Modes.* A start that the executor refuses has released the stop bit already. A
  stop without a connection is not sent later (on reconnection only the mode is).
  The end of an earlier run, reported late, resets the mode of the next
  (`_on_executor_status` does not look at `execution_id`). A report carries the state
  as it is when the report is made, and nothing else ends the mode: when the
  operator has answered "stop" to a time-out question, the flow stops the executor
  itself (`step_executor.py:397`), and when then the output reset fails, lines
  260-264 set ERROR without a report, so that the mode stays 1 with no run. The same
  happens when `pause()` has found RUNNING and writes PAUSED between the end and its
  report (`step_executor.py:202-204`), which also leaves PAUSED without a thread. An
  emergency stop and its release write the stop bit past the runtime
  (`qml_controller.py:505`), which `StopBitHolds` does not speak of (OperatorPanel
  does). A recipe loaded on the
  data page does not refresh Monitor, as one accepted from the editor does.
* *Editor.* The QML editor corrects jumps when a row is inserted, "to preserve
  their logical destination", but not when rows are deleted or moved; the widget
  editor does. The widget editor in turn deletes Monitor and leaves calls of
  deleted programs. It sends a jump to a comment to the PLC as step 0.
* *Recipe.* A step that was taught keeps its coordinates until the recipe is
  loaded again, and they win over its point changed in the editor. Changes of
  the timer library survive a cancelled session. The check before a variable is
  deleted counts neither TMR steps ("hold" on a bit) nor what the programs in
  memory name, which a cancelled session leaves as they were: the step then names
  a variable that is gone, or that the next start makes anew with a default name
  and value. A file that is a bare list is
  loaded half-way (`new_data.get` of a list raises after the programs were
  replaced), and the next automatic save writes that under the former name.
  `_perform_save` ignores the result of `save_json` and says "saved".
* *Sequencer.* The 100th step of a slot, if it is a CALL, returns to step 0: the program
  starts anew. `send_sequence_to_slot` adds the END without a look at the length
  (`plc_client.py:957-990`), so that a program of 100 steps writes its END into the
  next slot's first step, and a longer one its own steps. An output for which there
  is no delay left sets state 900, which
  line 786 replaces by 99: an alarm number without an alarm. A packing base out
  of range RETURNs before its state is saved, and is tried again each scan. START
  of a check run starts idle workers on the slot they had last, and Main's pulse
  starts none. A program that ends in an empty step, or is left by a time-out or
  alarm reset, inside a call keeps its stack: the instance goes on there.
* *Questions.* A time-out question takes the popup over from a page's, whose
  answer is never asked for. The question of a stopped run stays on the screen
  until someone answers it, to no effect.
* *Panel.* An emergency stop pressed without a connection is never sent. Priority
  -100 puts the emergency stop before the release of the same bit by a start that
  is queued, which then undoes it. Letting go of the button clears a stop that was
  set by the stop button. `_check_alarm_status` means to close the jog overlay when
  the robot begins to run (`qml_controller.py:586-587`), but the data it is called
  with never has `op_status` (`_parse_monitor_data`, `plc_client.py:602-674`): an
  open overlay stays open beside a run, and its keys work.

## 5. What is proved

`PendantMailbox_proof`, with the assumptions `SeqMax \in Nat`, `SeqMax >= 2`,
`Commands \subseteq AllCommands`, Boolean flags, and nothing about the
bound's size:

* `SeqInvariant`: `Spec => []SeqInv`. That each request is handled at most once
  is not inductive: a scan compares sequence *numbers*, which repeat, so one must
  know that the request in the registers, if it was handled before, is still
  acknowledged or in progress under its number, and that neither a pulse nor a
  motion can acknowledge another number in between (`Answered`); that whatever is
  still in flight is newer than what the registers hold (`IssueOrder`); and that a
  number is computed only after synchronisation (`Synchronised`). `Answered` is
  shown for one statement group of the scan after the other, each a lemma.
* `MailboxImplementsCommandLog`: `Spec => Requests!Spec`. Every action leaves
  the log and the issue number alone, except `Send` (Issue) and `Scan`, which
  appends at most the request in the registers, newer than the last of the log by
  `Answered`.
* `DoneIsTrueForATurn`, `DoneIsTrue`: without restarts, a caller that is told DONE
  has had its command handled - or else SeqMax or more commands in a row were given
  up since the PLC last handled one. So the property `DoneMeansHandled` holds of any
  run of at most SeqMax (65535 in the program) commands, and of longer ones while
  the PLC answers at all. What is inductive: each command in flight, in the
  registers or acknowledged carries the number its place in the order of issue gives
  it, so that an acknowledgement with the caller's number that is not of the caller's
  command is a whole turn of the numbers old. The hypothesis on restarts is the first
  disagreement of section 4.
* `PulsesTimed`: `Spec => []PulsesAreTimed`, and `DoneIsOver`:
  `Spec => DoneMeansFinished`, without hypotheses: restarts, servo errors and
  simultaneous moves are all there. What a running motion or pulse means for the next
  command is in the properties themselves (`left`, `over`); for any command accepted
  when nothing else runs, the motion or pulse that ends is its own.

`PlcLink_proof`, with the assumptions of PlcLink (numbers are numbers, and the
communication thread is not one of its callers), for any callers and any number of
connects:

* `LinkInvariant`: `Spec => []LinkInv`. "At most one loop" is not inductive, since
  `_start_reconnect_loop` looks only at `_reconnect_running`: one must know that
  while the user wants a session the flag is up whenever a loop runs
  (`FlagOfLoop`). `disconnect_plc` clears the flag early, which is why
  `FlagOfLoop` speaks of `~manual`, and why both are set apart from a connect that
  does not wait for the old loop (`rushed`; section 4, *Link*) until no loop is left.

`Runtimes_proof`, first about RuntimeModes, for all bounds on the queues:

* `ModesInvariant`: `Spec => []ModesInv`. A program that runs keeps its mode because
  no end of a run waits among the signals while one runs, unless it was started too
  early or a flow of an earlier run reports (`NoEndWaits`), because a thread that
  executes the program has not the state of an end (`RunRuns`), and because a pause
  or resume that the UI thread has begun was decided while the mode was on
  (`RunInMode`). The scenes are not distinguished: it holds for "both".
* `ModeReported`: `Spec => []ModeReachesPlc`, and `StopBitKept`:
  `Spec => []StopBitHolds`. Both speak of a moment when nothing is under way. What
  is inductive speaks of all the others: while the link works, the last signal about
  it says so (`LinkTold`); once the runtime knows the link, the last command for
  DT201 that waits, or the word itself when none does, is the present mode
  (`ModeTold`); the last command for the stop bit is what the last stop or start
  wanted (`StopAsked`).

and then about StepSequencer, with `SequencerAssumption`, for any recipes, outputs,
numbers of delayed outputs and levels of the stack, and for any stacking order and
counts of the pallet. What is assumed of recipes is what fits a slot: a program is no
longer than `SlotSteps`, and may fill it, with a CALL as the last step too; the
conversion of an INP knows three things to do after a time-out.

* `StacksAndPallet`: `SequencerSpec => []SequencerInv`. That callers wait behind their
  CALL must be known together with what the state on top is allowed to be: an instance
  in state 0 has left all programs it called and is at its first step, unless it was
  stopped in the middle (`Whole`), for a start goes on wherever the context is; and in
  the states of an input and of a CALL the step is one (`Fits`), since the states read
  the step again in each scan. `Acted` says what any state of the CASE may do to an
  instance, and there is one lemma for each state. That the place on the pallet is the
  number of cycles is arithmetic (`Odometer`): three digits with the bases of the
  stacking order, of which `Advanced` gives the next.
* `CallsReachWorkers`: `SequencerSpec => []WorkersRunCalls`. `WorkersRunCalls` speaks
  of the end of a scan. Inductive is what holds at each turn: `b_IsBusy` is what
  the stack of a worker says (`BusyShown`), so that a worker Main has just called is
  in state 0 and at its first step, and it has begun once its turn is over
  (`PulsesHeard`). Main's own turn clears the pulses, which is why none is missed.
* `StopIsQuiet`: `SequencerSpec => OutputsQuietAfterStop`. The reset reaches the three
  instances one after the other: those before the turn have nothing left to do
  (`ResetDone`), and nothing comes back before a start (`QuietKept`).

`Operator_proof`, first about OperatorPanel, with `PanelAssumption` (`DebounceCount`
positive, `QueueMax` a number):

* `PanelInvariant`: `Spec => []PanelInv`. "No bit stays behind" speaks of the empty
  queue; what is inductive speaks of what the queue holds: while the link lasts, each
  command that sets a direction whose key is no longer held has its release behind it
  (`OffFollows`), and each bit already set has its release, or the reset of a new
  connection, in the queue (`WillBeCleared`). Priorities keep that order since keys
  share one priority and `NextInQueue` takes the earliest of the most urgent
  (`NextIsFirst`). That such a command exists needs the well-foundedness of the
  numbers (`SmallestOf`). The bound on the queue leaves room for the reset.

and then about OperatorQuestions, for any flows and any numbers of questions and runs:

* `QuestionsInvariant`: `QuestionsSpec => []QuestionsInv`. That questions of two runs never
  wait side by side rests on every request in the signals, in the queue and on the
  screen being of the last run (`Present`): a run is started by the answer to a
  popup of the page, which is pressed only when no signal waits, and which is on the
  screen only when no question is or is about to be (`ActiveOnScreen`; section 3,
  *Timing assumptions*).

`StepExecutor_proof`, with `RecipesAssumption` (what `validate_sequences` accepts:
targets of jumps and calls exist, kinds are known) and `BoundsAssumption`, for any
recipes, any number of flows and any depth of calls:

* `ExecutorInvariant`: `Spec => []ExecutorInv`.
* `OneMoreEffect`: `AtMostOneMoreEffect`. A flow that acted after the stop must
  read `_stop` before it can act again, which needs to be known at every place of
  the interpreter between two reads, for each kind of step (`Spent`).
* `SequentialRunsEndOff`: `SequentialOutputsOff`. A run without parallel calls is
  one flow, its own thread (`OneRun`), so that nothing acts after the thread has
  switched the outputs off.
* `CompleteIsAll`: `CompleteMeansAll`, for recipes whose parallel sequences start no
  parallel ones (`Flat`); for others it is false (section 4, *Executor*).

`VariableMirror_proof`, for any variables, addresses, numbers of changes and losses:

* `MirrorInvariant`: `Spec => []MirrorInv`. That slots and variables agree when all
  is settled says nothing of the states in between. Inductive is that each slot
  either is flagged for the publisher or is led to its value by what the queue still
  holds (`OnItsWay`), the queue being in order of publication (`InOrder`); that a
  snapshot which misses a write has none left to send while the link lasts, because a
  loss empties the queue and the reconnection flags everything (`Unsent`); and that a
  slot given up by one variable and taken by another is flagged (`Retaken`).
* `HeaderIsLast`: `CommitIsLast`, the header of a snapshot never reaches the PLC
  before its data.

`SequenceEdit_proof`, with `NamesAssumption` (Monitor is not among the other names,
which are finitely many and at least one), for any number of rows and changes:

* `EditorInvariant`: `Spec => []EditorInv`. The session's copy and the page's
  programs change places at every open, save and cancel, so that all is shown of both
  (`Book`, `Callable`). That a saved Monitor never leads to a movement rests on
  the editor's own check, which follows calls without repetition: when none of those
  paths finds a movement, the programs they reach are a set closed under calls that
  has none (`CheckedStands`). That a path is no longer than there are names, so that
  it is among those the check follows, is the library's fact on injections.
* `JumpsKeepTargets`: `JumpKeepsTargetApart`. Inserting, deleting and exchanging
  rows are each shown to send every row and every jump that is not `lost` to the
  same place; rows of another program come along unchanged (`Relocated`).

`RecipeBook_proof`, with `RecipeAssumption` (0 is a coordinate; there are points,
timers and times to choose from; the store has room for one variable at least), for any
numbers of moves, points, timers, files, variables and changes:

* `RecipesStayWhole`: what is inductive. Recipes change places: a file becomes memory,
  memory the session, the session memory and file again, each time as a whole. So
  everything is shown of all three, although only memory moves the robot (`BookOf`,
  `FilesOK`): a recipe's points, times and variables agree with its steps, it comes from
  one file, and the session works on the variables of the pages. Files are of two
  kinds: an old one, a bare list, may disagree with itself and names no variable in a
  TMR step (`FileOK`); a restart never loads one.
* `BookInvariant`: `Spec => []BookInv`, and `GoesWhereShown`:
  `Spec => []GoesWhereShownApart`.
* `ReloadKeeps`: `Spec => ReloadKeepsGoals`. Steps in a file carry no coordinates, so
  that only the point's are left to go to after a restart.

All invariants and action properties that the runs check are proved for every value of
the constants. Two have hypotheses that their runs meet by the choice of constants: no
restarts and one turn of the numbers for `DoneMeansHandled`, and recipes without nested
parallel CALLs for `CompleteMeansAll`. The restarts and the nested CALLs are
disagreements of section 4, the turn of the numbers a bound of section 3. The
exceptions that a property names are those of section 3, *What `...Apart` means*, and
section 4. Model-checked only: all liveness (`StopEndsRun` of
the executor, `FailureEndsRun`, `RecoversApart`, `LossDetected`, `DisconnectEndsLoop`,
`ShownTrue`, `Converges`, `ChangesReachFile`, `MonitorReturns`, `ModeEnds`,
`ErrorStopsAll`, `QuestionsEnd`, `EstopStops`), which is out of the prover's reach, as
are ENABLED and induction over data. No module uses RECURSIVE operators.

## 6. What is not modelled, and the plan

Not modelled: the content of positions, speeds and timers; recipe validation;
the fields of a step that no other row refers to, and the editor's check of single
steps when it saves; names and int32 clamping of variables; the parsing of the
monitor block; recipe transfer to the PLC's own sequencer (unused by the runtime
that `main.py` starts); slot 39 of the sequencer and a change between its modes
1 and 2 without a stop; home and reset commands; alarms other than the emergency
stop; history, languages, Wi-Fi; settings, mode, packing and manual pages, which
are forms over dictionaries and single commands; the watchdog block, whose
content is a duration; the servo blocks, whose partners (the drives) are outside
the repository. Most of the repository's other lines are such forms, drawings and
the widget application they replaced; a model of them would restate assignments.

What could come next, in this order:

1. **The executor of RuntimeModes** shown to be an abstraction of StepExecutor.
2. Nested parallel CALLs in the executor's recipes.
