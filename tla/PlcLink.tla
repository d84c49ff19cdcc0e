------------------------------ MODULE PlcLink ------------------------------
(* The TCP session of PLCClient (utils/plc_client.py): the one communication *)
(* thread that polls the monitor block and writes the heartbeat, the threads *)
(* that call send_packet directly (recipe flows, home and reset threads), the*)
(* reconnect loop, and the user's connect and disconnect buttons.  They share*)
(* sock, is_connected and a few flags, some of them under self.lock, some    *)
(* not; sig_connected tells the UI.                                          *)
(*                                                                           *)
(* What a packet carries is left out: it is answered, or it fails.           *)
EXTENDS Integers, FiniteSets

CONSTANTS
    Callers,        \* threads that call send_packet directly
    NumLoops,       \* bound: reconnect threads alive at a time
    MaxConnects,    \* bound: calls of connect_to_plc
    MayRush         \* bound: whether the user connects again before the loop of before
                    \* a disconnect, which may sleep 5 s, has ended

CONSTANTS Comm, NoThread    \* the communication thread; the owner of a free lock

ASSUME ThreadsAssumption == Comm \notin Callers /\ NoThread \notin Callers \cup {Comm}
ASSUME LinkBoundsAssumption == NumLoops \in Nat /\ MaxConnects \in Nat /\ MayRush \in BOOLEAN

VARIABLES
    addressed,  \* _last_ip is set
    manual,     \* _manual_disconnect
    connected,  \* is_connected
    sock,       \* self.sock: "none", a "new" socket or one whose connect() has returned;
                \* one that is closed is forgotten or replaced by who closes it
    running,    \* _reconnect_running
    monitoring, \* _monitor_running
    lock,       \* owner of self.lock over several steps
    up,         \* the PLC answers
    shown,      \* the last sig_connected
    th,         \* the communication thread and the callers
    loops,      \* the reconnect threads
    ui,         \* where the UI thread is inside an operation
    connects,   \* calls of connect_to_plc so far
    overlap,    \* history: a session was given up before its loop had ended
    rushed      \* history: a connect came before the loop of before a disconnect had
                \* ended, and loops run since

flags == <<addressed, manual, running, monitoring>>
vars == <<flags, connected, sock, lock, up, shown, th, loops, ui, connects,
          overlap, rushed>>

Threads == Callers \cup {Comm}
Loops == 1 .. NumLoops

TypeOK ==
    /\ addressed \in BOOLEAN /\ manual \in BOOLEAN /\ connected \in BOOLEAN
    /\ running \in BOOLEAN /\ monitoring \in BOOLEAN
    /\ up \in BOOLEAN /\ shown \in BOOLEAN
    /\ sock \in {"none", "new", "open"}
    /\ lock \in Threads \cup {NoThread}
    /\ \A t \in Threads : th[t].pc = "recv" => lock = t
    /\ th \in [Threads ->
                 [pc : {"idle", "enter", "recv", "failed", "emit", "start",
                        "after", "dead"},
                  pkt : {"poll", "beat", "call"}]]
    /\ loops \in [Loops -> {"none", "first", "top", "sleep", "create", "connect",
                            "set", "emit", "mon", "fin"}]
    /\ ui \in {"idle", "start", "close", "closed"}
    /\ connects \in 0 .. MaxConnects
    /\ overlap \in BOOLEAN /\ rushed \in BOOLEAN

---------------------------------------------------------------------------
Usable == sock = "open" /\ up

Active == {l \in Loops : loops[l] # "none"}

\* A reconnect thread has made the session and not yet left its loop.
Leaving ==
    \E l \in Loops :
        loops[l] \in {"emit", "mon", "fin"} \/ (loops[l] = "top" /\ connected)

Idle == [pc |-> "idle", pkt |-> "call"]
Goto(t, pc) == th' = [th EXCEPT ![t].pc = pc]

---------------------------------------------------------------------------
(* send_packet and _send_packet_raw.                                         *)

Guarded == sock # "none" /\ connected

\* A thread with a command to send (the communication thread, one of its queue),
\* and the cycle of the communication thread.
Call(t) ==
    /\ th[t].pc = "idle" /\ Guarded
    /\ th' = [th EXCEPT ![t] = [pc |-> "enter", pkt |-> "call"]]
    /\ UNCHANGED <<flags, connected, sock, lock, shown, loops>>

Poll(t) ==
    /\ t = Comm /\ th[t].pc = "idle" /\ monitoring /\ connected
    /\ th' = [th EXCEPT ![t] = [pc |-> IF sock # "none" THEN "enter" ELSE "after",
                                pkt |-> "poll"]]
    /\ UNCHANGED <<flags, connected, sock, lock, shown, loops>>

\* What becomes of a packet when self.sock is None inside the lock: send_packet
\* catches every exception; the heartbeat, only OSError, so that AttributeError
\* ends _update_heartbeat, _poll_monitor_once and _command_loop.
OnNone(t) == IF th[t].pkt = "beat" THEN "dead" ELSE "failed"

\* Mutant: the exchange is made without the lock.
EntersAnyway(t) == th[t].pc = "enter"

MayEnter(t) == th[t].pc = "enter" /\ lock = NoThread

Enter(t) ==
    /\ MayEnter(t)
    /\ IF sock = "none"
       THEN Goto(t, OnNone(t)) /\ UNCHANGED lock
       ELSE Goto(t, "recv") /\ lock' = t
    /\ UNCHANGED <<flags, connected, sock, shown, loops>>

\* An answered poll is followed by a heartbeat when 0.5 s have passed.
Answered(t) ==
    {Idle}
    \cup (IF th[t].pkt = "poll" /\ Guarded
          THEN {[pc |-> "enter", pkt |-> "beat"]} ELSE {})

Receive(t) ==
    /\ th[t].pc = "recv"
    /\ lock' = NoThread
    /\ \/ sock = "none" /\ Goto(t, OnNone(t))
       \/ Usable /\ \E f \in Answered(t) : th' = [th EXCEPT ![t] = f]
       \/ sock # "none" /\ Goto(t, "failed")
    /\ UNCHANGED <<flags, connected, sock, shown, loops>>

\* Mutant: the session's flag stays up.
FlagStays == connected

FlagAfterLoss == FALSE

\* Mutant: the flag is read after it was cleared.
ReadTooLate == FlagAfterLoss

WasConnected == connected

\* _mark_connection_lost: the locked part and the close ...
Lost(t) ==
    /\ th[t].pc = "failed" /\ lock = NoThread
    /\ connected' = FlagAfterLoss /\ sock' = "none"
    /\ Goto(t, IF WasConnected THEN "emit" ELSE "start")
    /\ overlap' = (overlap \/ Leaving)
    /\ UNCHANGED <<flags, lock, shown, loops>>

\* ... the signal ...
Tell(t) ==
    /\ th[t].pc = "emit"
    /\ shown' = FALSE
    /\ Goto(t, "start")
    /\ UNCHANGED <<flags, connected, sock, lock, loops>>

\* Mutant: a loop is started whether or not one runs.
StartsAgain == ~manual /\ addressed

Starts == ~manual /\ ~running /\ addressed

\* _start_reconnect, its locked part and the thread it starts.
StartReconnect(pc) ==
    /\ lock = NoThread
    /\ IF Starts
       THEN /\ running' = TRUE
            /\ \E l \in Loops \ Active :
                  /\ \A m \in Loops \ Active : l <= m
                  /\ loops' = [loops EXCEPT ![l] = pc]
       ELSE UNCHANGED <<running, loops>>

\* ... and the reconnection.
Restart(t) ==
    /\ th[t].pc = "start"
    /\ StartReconnect("top")
    /\ IF th[t].pkt = "poll" THEN Goto(t, "after") ELSE th' = [th EXCEPT ![t] = Idle]
    /\ UNCHANGED <<addressed, manual, monitoring, connected, sock, lock, shown>>

\* _poll_monitor_once without an answer: the session is given up if it still (or
\* again) counts as connected.
After(t) ==
    /\ th[t].pc = "after"
    /\ th' = [th EXCEPT ![t] = [pc |-> IF connected THEN "failed" ELSE "idle",
                                pkt |-> "call"]]
    /\ UNCHANGED <<flags, connected, sock, lock, shown, loops>>

PacketStep(t) ==
    /\ \/ Lost(t)
       \/ /\ \/ Poll(t) \/ Enter(t) \/ Receive(t) \/ Tell(t) \/ Restart(t)
             \/ After(t)
          /\ UNCHANGED overlap
    /\ UNCHANGED <<up, ui, connects, rushed>>

---------------------------------------------------------------------------
(* _reconnect_loop.                                                          *)

\* Mutant: a disconnected user is not noticed.
SettledByConnection == connected

Settled == connected \/ manual

LoopTo(l, pc) == loops' = [loops EXCEPT ![l] = pc]

Top(l) ==
    /\ loops[l] \in {"first", "top"}
    /\ LoopTo(l, IF Settled THEN "fin"
                 ELSE IF loops[l] = "first" THEN "create" ELSE "sleep")
    /\ UNCHANGED <<flags, connected, sock, shown>>

\* The 5 s sleep outlasts every packet of the lost session.
Wake(l) ==
    /\ loops[l] = "sleep"
    /\ \A t \in Threads : th[t].pc \in {"idle", "dead"}
    /\ LoopTo(l, IF Settled THEN "fin" ELSE "create")
    /\ UNCHANGED <<flags, connected, sock, shown>>

\* The socket of the attempt before is closed.
Create(l) ==
    /\ loops[l] = "create"
    /\ sock' = "new"
    /\ LoopTo(l, "connect")
    /\ UNCHANGED <<flags, connected, shown>>

\* self.sock.connect.  Any exception on the way ends the attempt; another loop, if there
\* is one, may have closed the socket this one is at.
Connect(l) ==
    /\ loops[l] = "connect"
    /\ \/ /\ up /\ sock = "new"
          /\ sock' = "open"
          /\ LoopTo(l, "set")
       \/ /\ ~up \/ sock # "new" \/ Active # {l}
          /\ LoopTo(l, "top")
          /\ UNCHANGED sock
    /\ UNCHANGED <<flags, connected, shown>>

SetConnected(l) ==
    /\ loops[l] = "set"
    /\ connected' = TRUE
    /\ LoopTo(l, "emit")
    /\ UNCHANGED <<flags, sock, shown>>

TellConnected(l) ==
    /\ loops[l] = "emit"
    /\ shown' = TRUE
    /\ LoopTo(l, "mon")
    /\ UNCHANGED <<flags, connected, sock>>

StartMonitoring(l) ==
    /\ loops[l] = "mon"
    /\ monitoring' = TRUE
    /\ LoopTo(l, "top")
    /\ UNCHANGED <<addressed, manual, running, connected, sock, shown>>

\* Mutant: the flag is not cleared when the loop ends.
RunningStays == running

RunningAfter == FALSE

Finally(l) ==
    /\ loops[l] = "fin" /\ lock = NoThread
    /\ running' = RunningAfter
    /\ LoopTo(l, "none")
    /\ rushed' = (rushed /\ Active # {l})
    /\ UNCHANGED <<addressed, manual, monitoring, connected, sock, shown>>

LoopStep(l) ==
    /\ \/ /\ \/ Top(l) \/ Wake(l) \/ Create(l) \/ Connect(l) \/ SetConnected(l)
             \/ TellConnected(l) \/ StartMonitoring(l)
          /\ UNCHANGED rushed
       \/ Finally(l)
    /\ UNCHANGED <<lock, up, th, ui, connects, overlap>>

---------------------------------------------------------------------------
(* connect_to_plc and disconnect_plc, on the UI thread: the button of the     *)
(* settings page calls the one while the session is shown as gone and the    *)
(* other while it is shown.                                                  *)

ConnectCall ==
    /\ ui = "idle" /\ ~shown /\ connects < MaxConnects
    /\ manual /\ Active # {} => MayRush
    /\ rushed' = (rushed \/ (manual /\ Active # {}))
    /\ connects' = connects + 1
    /\ addressed' = TRUE /\ manual' = FALSE
    /\ ui' = IF connected THEN "idle" ELSE "start"
    /\ UNCHANGED <<running, monitoring, connected, sock, shown, loops>>

ConnectStart ==
    /\ ui = "start"
    /\ StartReconnect("first")
    /\ ui' = "idle"
    /\ UNCHANGED <<addressed, manual, monitoring, connected, sock, shown, connects>>

\* disconnect_plc raises is_connected for a moment to make the loop end.
Disconnect ==
    /\ ui = "idle" /\ addressed /\ shown
    /\ manual' = TRUE /\ monitoring' = FALSE /\ running' = FALSE
    /\ connected' = TRUE
    /\ ui' = "close"
    /\ UNCHANGED <<addressed, sock, shown, loops, connects>>

DisconnectClose ==
    /\ ui = "close"
    /\ sock' = "none"
    /\ ui' = "closed"
    /\ UNCHANGED <<flags, connected, shown, loops, connects>>

DisconnectEnd ==
    /\ ui = "closed"
    /\ connected' = FALSE /\ shown' = FALSE
    /\ overlap' = (overlap \/ Leaving)
    /\ ui' = "idle"
    /\ UNCHANGED <<flags, sock, loops, connects>>

UiStep ==
    /\ \/ DisconnectEnd
       \/ (ConnectStart \/ DisconnectClose) /\ UNCHANGED overlap
    /\ UNCHANGED <<lock, up, th, rushed>>
UiCall ==
    /\ ConnectCall \/ (Disconnect /\ UNCHANGED rushed)
    /\ UNCHANGED <<lock, up, th, overlap>>

---------------------------------------------------------------------------
\* The cable and the PLC.
Cable ==
    /\ up' = ~up
    /\ UNCHANGED <<flags, connected, sock, lock, shown, th, loops, ui, connects,
                   overlap, rushed>>

Init ==
    /\ addressed = FALSE /\ manual = FALSE /\ running = FALSE /\ monitoring = FALSE
    /\ connected = FALSE /\ sock = "none" /\ lock = NoThread
    /\ up = TRUE /\ shown = FALSE
    /\ th = [t \in Threads |-> Idle]
    /\ loops = [l \in Loops |-> "none"]
    /\ ui = "idle" /\ connects = 0 /\ overlap = FALSE /\ rushed = FALSE

Next ==
    \/ \E t \in Threads :
          PacketStep(t) \/ (Call(t) /\ UNCHANGED <<up, ui, connects, overlap, rushed>>)
    \/ \E l \in Loops : LoopStep(l)
    \/ UiStep \/ UiCall
    \/ Cable

Spec == Init /\ [][Next]_vars

\* A thread inside an operation goes on, and gets the lock in the end: it is held
\* for one exchange at a time, and the callers sleep between theirs.
FairSpec ==
    /\ Spec
    /\ \A t \in Threads : SF_vars(PacketStep(t))
    /\ SF_vars(\E l \in Loops : LoopStep(l))
    /\ SF_vars(UiStep)

---------------------------------------------------------------------------
(* Properties.                                                               *)

\* A loss seen by several threads at once, or while the loop already runs, starts
\* no second reconnect loop: two of them would close each other's sockets.  Unless the
\* user connects while the loop of before a disconnect has not yet noticed it.
OneLoop == ~rushed => Cardinality(Active) <= 1

\* Socket, flags and threads agree.
LinkInv == TypeOK /\ OneLoop

\* A lost session comes back: when from some time on the PLC answers and the user
\* does not want to be disconnected, the link is connected again and again; unless
\* a session was lost before the loop that made it had ended, or two loops run.
RecoversApart == <>[](up /\ addressed /\ ~manual /\ ~overlap /\ ~rushed) => []<>connected

\* While the communication thread lives, a session that does not work is noticed
\* ("so the UI never keeps showing a stale connection").
LossDetected ==
    (connected /\ ~Usable) ~> (~connected \/ Usable \/ th[Comm].pc = "dead")

\* A disconnect ends the reconnect loop, wherever the loop was, and no loss that
\* is reported afterwards starts another.  (The attempt the loop had begun may
\* still succeed: that session stays until it is lost.)
DisconnectEndsLoop == <>[](manual /\ ui = "idle") => <>[](Active = {})

\* The UI does not show for ever a session that is gone, unless that session was
\* given up before the loop that made it had ended.
ShownTrue == <>[](~connected /\ ~overlap) => <>[]~shown

\* Until the user disconnects, the communication thread survives every loss ("every
\* empty response, timeout and heartbeat transport error must pass through this
\* method", _mark_connection_lost).
CommunicationSurvives == ~manual => th[Comm].pc # "dead"
============================================================================
