--------------------------- MODULE OperatorPanel ---------------------------
(* What the operator's hands do to the axes past any sequence: the emergency-*)
(* stop button on a GPIO line (utils/gpio_estop.py) and the keys of the jog  *)
(* overlay (ui/qml_overlay.py), which the UI thread turns into commands of   *)
(* the PLC client's priority queue.  Start and stop of a run write the same  *)
(* axis-stop word DT223 (engine/qt_runtime.py).  The communication thread    *)
(* executes the queue; the link may fail at any command.                     *)
(*                                                                           *)
(* One axis stands for four: the keys of different axes share no bits.       *)
EXTENDS Integers, Sequences, SequencesExt

CONSTANTS
    DebounceCount,  \* DEBOUNCE_CNT (3 in the code)
    QueueMax        \* bound: the operator acts while fewer commands wait

ASSUME PanelAssumption == DebounceCount \in Nat \ {0} /\ QueueMax \in Nat

VARIABLES
    gpio,       \* GpioEstop: _pending_level, _pending_count (up to DebounceCount), _active
    plcStop,    \* _plc_estop_active
    shown,      \* the overlay shows the E-STOP alarm
    op,         \* top_backend.op_status: the mode of the run, as the top bar shows it
    visible,    \* the jog overlay
    held,       \* its keys that are held
    connected,  \* is_connected
    posted,     \* sig_connected(True) has not yet been delivered
    queue,      \* _command_queue, in the order of submission
    bits,       \* _axis_jog_bits
    dt220, dt223,   \* the PLC: jog bits, axis stop
    missed      \* history: the stop of this E-stop failed, or a start has undone it

plc == <<dt220, dt223>>
jog == <<visible, held>>
alarms == <<plcStop, shown>>
vars == <<gpio, alarms, op, jog, connected, posted, queue, bits, plc, missed>>

Keys == {"+", "-"}
Opposite == [k \in Keys |-> CHOOSE o \in Keys : o # k]

Cmd(prio, do, key, on) == [prio |-> prio, do |-> do, key |-> key, on |-> on]
JogCmd(key, on) == Cmd(0, "jog", key, on)
ResetJog == Cmd(-30, "jog", "all", FALSE)
EstopCmd(on) == Cmd(-100, "stop", "estop", on)
RunCmd(on) == Cmd(-20, "stop", "run", on)

Room == Len(queue) < QueueMax

\* UI code that submits only while the client counts as connected.
SubmitConnected(cmds) == queue' = IF connected THEN queue \o cmds ELSE queue

---------------------------------------------------------------------------
(* The UI thread: the emergency stop.                                        *)

\* _on_gpio_estop.
Estop(pressed) ==
    /\ SubmitConnected(<<EstopCmd(pressed)>>)
    /\ shown' = (pressed \/ plcStop)
    /\ missed' = IF pressed THEN ~connected ELSE missed

Settled(n) == n >= DebounceCount

\* _poll: the line is read and debounced.
Poll(level) ==
    LET n == IF level # gpio.level THEN 1
             ELSE IF gpio.n < DebounceCount THEN gpio.n + 1 ELSE gpio.n
        changes == Settled(n) /\ level # gpio.active
    IN /\ changes => Room
       /\ gpio' = [level |-> level, n |-> n, active |-> IF changes THEN level ELSE gpio.active]
       /\ IF changes THEN Estop(level) ELSE UNCHANGED <<queue, shown, missed>>
       /\ UNCHANGED <<plcStop, op, jog, connected, posted, bits, plc>>

---------------------------------------------------------------------------
(* The UI thread: monitor data and runs.                                     *)

\* Mutant: the overlay closes without a word to the PLC.
ClosedSilently == <<>>

\* close_overlay: every direction is released, whatever is held.
Released == <<JogCmd("+", FALSE), JogCmd("-", FALSE)>>

Close ==
    /\ visible' = FALSE /\ held' = {}
    /\ IF visible THEN SubmitConnected(Released) ELSE UNCHANGED queue

\* _check_alarm_status: the E-stop alarm has two causes.  The monitor data of the PLC
\* holds no op_status, so that a run that starts does not close the overlay.
Monitor ==
    /\ connected
    /\ plcStop' \in BOOLEAN
    /\ shown' = (plcStop' \/ gpio.active)
    /\ UNCHANGED <<gpio, op, jog, connected, posted, queue, bits, plc, missed>>

\* The monitor data of the runtime does: update_monitor of the top bar.
ModeShown ==
    /\ op' \in {0, 1}
    /\ UNCHANGED <<gpio, alarms, jog, connected, posted, queue, bits, plc, missed>>

\* start_mode and stop.
RunButton ==
    /\ Room
    /\ \/ connected /\ queue' = Append(queue, RunCmd(FALSE))
       \/ SubmitConnected(<<RunCmd(TRUE)>>)
    /\ UNCHANGED <<gpio, alarms, op, jog, connected, posted, bits, plc, missed>>

---------------------------------------------------------------------------
(* The UI thread: the jog overlay.                                           *)

Open ==
    /\ ~visible /\ op = 0 /\ visible' = TRUE
    /\ UNCHANGED <<held, queue>>

PressKey(k) ==
    /\ visible /\ k \notin held /\ Room
    /\ held' = held \cup {k}
    /\ SubmitConnected(<<JogCmd(k, TRUE)>>)
    /\ UNCHANGED visible

ReleaseKey(k) ==
    /\ k \in held /\ Room
    /\ held' = held \ {k}
    /\ SubmitConnected(<<JogCmd(k, FALSE)>>)
    /\ UNCHANGED visible

JogOverlay ==
    /\ \/ Open \/ (visible /\ Room /\ Close)
       \/ \E k \in Keys : PressKey(k) \/ ReleaseKey(k)
    /\ UNCHANGED <<gpio, alarms, op, connected, posted, bits, plc, missed>>

---------------------------------------------------------------------------
(* The communication thread.                                                 *)

\* Mutant: the latest of the most urgent commands first.
NextInReverse ==
    CHOOSE i \in DOMAIN queue : \A j \in DOMAIN queue :
        queue[i].prio < queue[j].prio \/ (queue[i].prio = queue[j].prio /\ j <= i)

\* The most urgent command, the earliest of them.
NextInQueue ==
    CHOOSE i \in DOMAIN queue : \A j \in DOMAIN queue :
        queue[i].prio < queue[j].prio \/ (queue[i].prio = queue[j].prio /\ i <= j)

\* Mutant: the other direction of the axis keeps its bit.
BothBits(cmd) ==
    IF cmd.key = "all" THEN {} ELSE IF cmd.on THEN bits \cup {cmd.key} ELSE bits \ {cmd.key}

\* send_jog_control, write_axis_jog_bit: "never permit + and - for the same axis".
JogBits(cmd) ==
    IF cmd.key = "all" THEN {}
    ELSE IF cmd.on THEN (bits \ {Opposite[cmd.key]}) \cup {cmd.key}
    ELSE bits \ {cmd.key}

\* The bits change before the packet is sent; without a connection none is.  A packet
\* without an answer may have reached the PLC or not, and ends the connection.
Execute ==
    /\ queue # <<>>
    /\ LET i == NextInQueue  cmd == queue[i] IN
       \E answered, arrives \in BOOLEAN :
          /\ answered => arrives
          /\ arrives => connected
          /\ queue' = RemoveAt(queue, i)
          /\ connected' = answered
          /\ IF cmd.do = "jog"
             THEN /\ bits' = JogBits(cmd)
                  /\ dt220' = IF arrives THEN JogBits(cmd) ELSE dt220
                  /\ UNCHANGED <<dt223, missed>>
             ELSE /\ dt223' = IF arrives THEN cmd.on ELSE dt223
                  /\ missed' = \/ missed
                               \/ cmd.key = "estop" /\ cmd.on /\ ~answered
                               \/ cmd.key = "run" /\ ~cmd.on /\ gpio.active
                  /\ UNCHANGED <<bits, dt220>>
    /\ UNCHANGED <<gpio, alarms, op, jog, posted>>

\* A poll without an answer.
Lose ==
    /\ connected /\ connected' = FALSE
    /\ UNCHANGED <<gpio, alarms, op, jog, posted, queue, bits, plc, missed>>

\* The reconnect loop sleeps 5 s first: what had been queued has been tried by then.
Reconnect ==
    /\ ~connected /\ queue = <<>> /\ ~posted
    /\ connected' = TRUE /\ posted' = TRUE
    /\ UNCHANGED <<gpio, alarms, op, jog, queue, bits, plc, missed>>

\* Mutant: what was jogged before the loss is left alone.
NothingOnConnect == <<>>

\* _on_connected (qt_runtime): the jog word is cleared, ahead of the keys.
OnConnect == <<ResetJog>>

Delivered ==
    /\ posted /\ posted' = FALSE
    /\ queue' = queue \o OnConnect
    /\ UNCHANGED <<gpio, alarms, op, jog, connected, bits, plc, missed>>

Init ==
    /\ gpio = [level |-> FALSE, n |-> 0, active |-> FALSE]
    /\ plcStop = FALSE /\ shown = FALSE /\ op = 0
    /\ visible = FALSE /\ held = {}
    /\ connected = FALSE /\ posted = FALSE /\ queue = <<>> /\ bits = {}
    /\ dt220 \in (SUBSET Keys) \ {Keys} /\ dt223 \in BOOLEAN /\ missed = FALSE

Next ==
    \/ \E level \in BOOLEAN : Poll(level)
    \/ Monitor \/ ModeShown \/ RunButton \/ JogOverlay
    \/ Execute \/ Lose \/ Reconnect \/ Delivered

Spec == Init /\ [][Next]_vars

\* The line is read, also when its level stays, and the queue executed as long as the
\* program runs; there is room in the queue again and again.
FairSpec == Spec /\ SF_vars(Poll(gpio.level)) /\ WF_vars(Execute) /\ WF_vars(Delivered)

---------------------------------------------------------------------------
(* Properties.                                                               *)

TypeOK ==
    /\ gpio \in [level : BOOLEAN, n : 0 .. DebounceCount, active : BOOLEAN]
    /\ plcStop \in BOOLEAN /\ shown \in BOOLEAN /\ op \in {0, 1} /\ visible \in BOOLEAN
    /\ held \subseteq Keys /\ bits \subseteq Keys /\ dt220 \subseteq Keys
    /\ connected \in BOOLEAN /\ posted \in BOOLEAN /\ dt223 \in BOOLEAN /\ missed \in BOOLEAN
    /\ Len(queue) <= QueueMax + 2

\* The PLC never sees both directions of an axis.
OneDirection == ~(Keys \subseteq dt220)

\* Whenever the client is connected and has nothing left to send, the axis moves only
\* in a direction whose key is held: whatever keys, overlays, runs and losses came
\* before, no bit stays behind.
MovesOnlyHeld == connected /\ ~posted /\ queue = <<>> => dt220 \subseteq held

\* The alarm is shown as long as one of its two causes lasts, the button's line or the
\* PLC's report, whichever of them has changed last.
AlarmShown == shown <=> gpio.active \/ plcStop

PanelInv == TypeOK /\ OneDirection /\ MovesOnlyHeld /\ AlarmShown

\* While the emergency stop is held and the link lasts the axes stop, and stay
\* stopped; unless a start undoes it, or it was pressed without a link (neither is
\* made good by the code).
EstopStops == <>[](gpio.level /\ connected /\ ~missed) => <>[]dt223
============================================================================
