-------------------------- MODULE PendantMailbox --------------------------
(* The hardware command mailbox between the pendant and the FP0H PLC.        *)
(*                                                                           *)
(* Pendant side: FP0HCommandBackend._execute (engine/plc_command_backend.py),*)
(* which writes a request block with a sequence number at DT300..DT342 and   *)
(* polls DT400..DT404.  Its _command_lock lets one command run at a time, so *)
(* there is one client here, whichever executor thread or home/reset thread  *)
(* calls it.  PLC side: one scan of FB_PendantMailbox (plc/*.st).  TCP is    *)
(* modelled by a request in flight that may arrive, be lost, or arrive after *)
(* the pendant has given it up.                                              *)
(*                                                                           *)
(* Every request carries, beside its sequence number, the number of its      *)
(* issue (id): the program does not have it, the properties are about it.    *)
EXTENDS Integers, Sequences

CONSTANTS
    SeqMax,         \* largest sequence number (65535 in the code)
    Commands,       \* the commands the pendant sends in this instance
    MaxIssued,      \* bound: requests issued in a behaviour
    MotionErrors,   \* may the servo blocks report an error?
    Restarts        \* may the pendant process be restarted?

AllCommands ==
    {"SET", "PULSE", "OFF", "MOVE", "MOVE_NOWAIT", "HOME", "STOP", "RESET", "BAD"}

ASSUME SeqMaxAssumption == SeqMax \in Nat /\ SeqMax >= 2
ASSUME CommandsAssumption == Commands \subseteq AllCommands
ASSUME BoundAssumption == MaxIssued \in Nat
ASSUME FlagsAssumption == MotionErrors \in BOOLEAN /\ Restarts \in BOOLEAN

VARIABLES
    pc,         \* where _execute is: "idle", "sync", "send", "sent", "wait"
    pseq,       \* FP0HCommandBackend._sequence, NoSeq before it is synchronised
    cmd,        \* the command being executed by the pendant
    issued,     \* requests written so far
    wire,       \* requests in flight to the PLC (none or one)
    outcome,    \* how the last command ended for the pendant
    reg,        \* DT300..DT342, the request block as the PLC sees it
    plc         \* FB_PendantMailbox: status words, internal variables, effects

vars == <<pc, pseq, cmd, issued, wire, outcome, reg, plc>>

NoSeq == -1
SeqNumbers == 0 .. SeqMax
Request == [id : Nat, seq : SeqNumbers, cmd : AllCommands]

Idle == 0
Busy == 1
Done == 2
Failed == 3

\* ack, state: DT400, DT401.  active, acmd: w_ActiveSeq, w_ActiveCommand.
\* pulse: the request whose pulse runs, 0 if not b_PulseActive.  lit: the pulse
\* requests whose output bit is on.  motion: the request whose motion the servo
\* blocks execute, 0 if none.  prev: b_InterlockPrev.  log: requests handled.
\* left, over: history.  left: pulses that a servo error failed while they ran.
\* over: a motion ran when the scan that accepted the active command began, or a
\* pulse still ran.
PlcState ==
    [ack : SeqNumbers, state : Idle .. Failed, active : SeqNumbers,
     acmd : AllCommands, pulse : Nat, lit : SUBSET Nat, motion : Nat,
     prev : BOOLEAN, log : Seq(Nat), left : SUBSET Nat, over : BOOLEAN]

TypeOK ==
    /\ pc \in {"idle", "sync", "send", "sent", "wait"}
    /\ pseq \in SeqNumbers \cup {NoSeq}
    /\ cmd \in AllCommands
    /\ issued \in Nat
    /\ wire \in SUBSET Request
    /\ outcome \in [id : Nat, res : {"none", "done", "error", "timeout", "lost"}]
    /\ reg \in Request
    /\ plc \in PlcState

---------------------------------------------------------------------------
(* The PLC: one scan of FB_PendantMailbox, statement group by group.         *)

\* The servo blocks: a motion that completes or fails is over before the
\* function block runs in that scan (external: they are not in the repository).
ServoReports(p, done, err) ==
    [p EXCEPT !.motion = IF done \/ err THEN 0 ELSE @]

Interlock(p, ok) ==
    LET aborts == ~ok /\ p.state = Busy
        stops == ~ok /\ (p.prev \/ p.state = Busy)
    IN  [p EXCEPT !.prev = ok,
                  !.pulse = IF ok THEN @ ELSE 0,
                  !.lit = IF ok THEN @ ELSE {},
                  !.left = IF ok THEN @ ELSE {},
                  !.motion = IF stops THEN 0 ELSE @,
                  !.state = IF aborts THEN Failed ELSE @,
                  !.ack = IF aborts THEN p.active ELSE @]

PulseEnd(p, elapsed) ==
    IF p.pulse # 0 /\ elapsed
    THEN [p EXCEPT !.lit = @ \ {p.pulse}, !.pulse = 0, !.state = Done,
                   !.ack = p.active]
    ELSE p

Ack(p, r, s) == [p EXCEPT !.state = s, !.ack = r.seq]

\* The CASE on w_Command.  MOVE_NOWAIT is command 10 with motion flag bit 0;
\* BAD stands for the argument errors 2, 3 and 4 and the unsupported command 5.
Execute(p, r) ==
    CASE r.cmd = "PULSE" ->
            [p EXCEPT !.pulse = r.id, !.lit = @ \cup {r.id}, !.state = Busy]
      [] r.cmd = "OFF" ->
            Ack([p EXCEPT !.pulse = 0, !.lit = {}, !.left = {}], r, Done)
      [] r.cmd \in {"MOVE", "HOME"} ->
            [p EXCEPT !.motion = r.id, !.state = Busy]
      [] r.cmd = "MOVE_NOWAIT" ->
            Ack([p EXCEPT !.motion = r.id], r, Done)
      [] r.cmd \in {"SET", "RESET"} -> Ack(p, r, Done)
      [] OTHER -> Ack(p, r, Failed)

\* Mutant: STOP is executed but the sequence number is not acknowledged.
StopUnacknowledged(p, r) ==
    [p EXCEPT !.pulse = 0, !.lit = {}, !.left = {}, !.motion = 0, !.state = Done,
              !.log = Append(@, r.id)]

StopNow(p, r) ==
    Ack([p EXCEPT !.pulse = 0, !.lit = {}, !.left = {}, !.motion = 0,
                  !.log = Append(@, r.id)], r, Done)

Accept(p, r, ok, moving) ==
    LET taken == [p EXCEPT !.active = r.seq, !.acmd = r.cmd,
                           !.log = Append(@, r.id),
                           !.over = moving \/ p.pulse # 0]
    IN  IF ok THEN Execute(taken, r) ELSE Ack(taken, r, Failed)

\* Mutant: the busy state does not hold back the next request.
TakesWhileBusy(p, r) == r.seq # p.ack /\ r.cmd # "STOP"

\* When the CASE is reached: a new sequence number and no command in progress.
Takes(p, r) == r.seq # p.ack /\ r.cmd # "STOP" /\ p.state # Busy

HandleRequest(p, r, ok, moving) ==
    IF r.seq # p.ack /\ r.cmd = "STOP" THEN StopNow(p, r)
    ELSE IF Takes(p, r) THEN Accept(p, r, ok, moving)
    ELSE p

\* Mutant: a motion command is done as soon as it is accepted.
MotionStatusEager(p, done, err) ==
    IF p.state = Busy /\ err
    THEN [p EXCEPT !.state = Failed, !.ack = p.active, !.left = @ \cup ({p.pulse} \ {0})]
    ELSE IF p.state = Busy /\ p.acmd \in {"MOVE", "MOVE_NOWAIT", "HOME"}
    THEN [p EXCEPT !.state = Done, !.ack = p.active]
    ELSE p

\* A servo error ends whatever is active, a pulse too, but stops no pulse timer.
MotionStatus(p, done, err) ==
    IF p.state = Busy /\ err
    THEN [p EXCEPT !.state = Failed, !.ack = p.active, !.left = @ \cup ({p.pulse} \ {0})]
    ELSE IF p.state = Busy /\ done /\ p.acmd \in {"MOVE", "MOVE_NOWAIT", "HOME"}
    THEN [p EXCEPT !.state = Done, !.ack = p.active]
    ELSE p

AfterScan(p, r, ok, elapsed, done, err) ==
    LET start == ServoReports(p, done, err)
        timed == PulseEnd(Interlock(start, ok), elapsed)
    IN  MotionStatus(HandleRequest(timed, r, ok, p.motion # 0), done, err)

Scan ==
    /\ \E ok, elapsed, done, err \in BOOLEAN :
          /\ done => plc.motion # 0
          /\ err => MotionErrors
          /\ plc' = AfterScan(plc, reg, ok, elapsed, done, err)
    /\ UNCHANGED <<pc, pseq, cmd, issued, wire, outcome, reg>>

---------------------------------------------------------------------------
(* The pendant: FP0HCommandBackend._execute.                                 *)

\* Mutant: the sequence number grows past the 16-bit word.
NextSeqUnwrapped(s) == s + 1

\* (_sequence % 65535) + 1: 0 is never issued.
NextSeq(s) == (s % SeqMax) + 1

Finish(res) ==
    /\ pc' = "idle"
    /\ outcome' = [id |-> issued, res |-> res]

Begin ==
    /\ pc = "idle" /\ issued < MaxIssued
    /\ cmd' \in Commands
    /\ pc' = IF pseq = NoSeq THEN "sync" ELSE "send"
    /\ UNCHANGED <<pseq, issued, wire, outcome, reg, plc>>

\* The first command of a process reads DT400; without an answer it fails.
Synchronise ==
    /\ pc = "sync"
    /\ \/ pseq' = plc.ack /\ pc' = "send" /\ UNCHANGED outcome
       \/ pseq' = pseq /\ Finish("lost")
    /\ UNCHANGED <<cmd, issued, wire, reg, plc>>

\* A write on the present connection replaces whatever a dead one still held.
Send ==
    /\ pc = "send"
    /\ pseq' = NextSeq(pseq)
    /\ issued' = issued + 1
    /\ wire' = {[id |-> issued + 1, seq |-> NextSeq(pseq), cmd |-> cmd]}
    /\ pc' = "sent"
    /\ UNCHANGED <<cmd, outcome, reg, plc>>

SendAnswered ==
    /\ pc = "sent" /\ reg.id = issued
    /\ pc' = "wait"
    /\ UNCHANGED <<pseq, cmd, issued, wire, outcome, reg, plc>>

\* write_words answers False: the request may be lost, in flight or delivered.
SendUnanswered ==
    /\ pc = "sent"
    /\ Finish("lost")
    /\ UNCHANGED <<pseq, cmd, issued, wire, reg, plc>>

\* Mutant: any finished status ends the wait, whatever sequence it answers.
AnswersAny == plc.state \in {Done, Failed}

Answers == plc.ack = pseq

Poll ==
    /\ pc = "wait"
    /\ \/ Answers /\ plc.state = Done /\ Finish("done")
       \/ Answers /\ plc.state = Failed /\ Finish("error")
       \/ Finish("timeout")
    /\ UNCHANGED <<pseq, cmd, issued, wire, reg, plc>>

\* The pendant application dies and comes back with a new FP0HCommandBackend.
Restart ==
    /\ Restarts
    /\ pc' = "idle" /\ pseq' = NoSeq
    /\ outcome' = [id |-> 0, res |-> "none"]
    /\ UNCHANGED <<cmd, issued, wire, reg, plc>>

---------------------------------------------------------------------------
(* The network.                                                              *)

Deliver ==
    /\ reg' \in wire
    /\ wire' = {}
    /\ UNCHANGED <<pc, pseq, cmd, issued, outcome, plc>>

Lose ==
    /\ wire # {}
    /\ wire' = {}
    /\ UNCHANGED <<pc, pseq, cmd, issued, outcome, reg, plc>>

---------------------------------------------------------------------------
\* The PLC has been running: it acknowledged some sequence number s before.
Init ==
    /\ pc = "idle" /\ pseq = NoSeq /\ cmd = "RESET" /\ issued = 0
    /\ wire = {}
    /\ outcome = [id |-> 0, res |-> "none"]
    /\ \E s \in SeqNumbers :
          /\ reg = [id |-> 0, seq |-> s, cmd |-> "RESET"]
          /\ plc = [ack |-> s, state |-> Idle, active |-> s, acmd |-> "RESET",
                    pulse |-> 0, lit |-> {}, motion |-> 0, prev |-> FALSE,
                    log |-> <<>>, left |-> {}, over |-> FALSE]

Next ==
    \/ Scan
    \/ Begin \/ Synchronise \/ Send \/ SendAnswered \/ SendUnanswered
    \/ Poll \/ Restart
    \/ Deliver \/ Lose

Spec == Init /\ [][Next]_vars

---------------------------------------------------------------------------
(* Properties.                                                               *)

LastOf(s) == IF s = <<>> THEN 0 ELSE s[Len(s)]
Last == LastOf(plc.log)

\* What makes the sequence comparison sound.  No request newer than the one in
\* the registers has been handled; and once that one has been handled, it is
\* acknowledged or the active command, and neither a late pulse nor a finishing
\* motion can acknowledge anything else.
Answered(p, r) ==
    /\ LastOf(p.log) <= r.id
    /\ LastOf(p.log) = r.id =>
          /\ r.seq = p.ack \/ (p.state = Busy /\ p.active = r.seq)
          /\ p.state = Busy => r.cmd # "STOP" /\ p.active = r.seq
          /\ p.pulse # 0 => p.active = r.seq

\* The requests the PLC holds or may still receive are ordered by their issue.
IssueOrder ==
    /\ reg.id <= issued
    /\ \A w \in wire : reg.id < w.id /\ w.id <= issued

\* A sequence number is computed only after _sequence was read from DT400.
Synchronised == pc \in {"send", "sent", "wait"} => pseq \in SeqNumbers

\* The inductive invariant behind "at most once".
SeqInv == TypeOK /\ Synchronised /\ IssueOrder /\ Answered(plc, reg)

\* The mailbox implements CommandLog: whatever is lost, late, timed out, wrapped
\* or restarted, each request is handled at most once and in the order of issue
\* (FP0H_PENDANT_MAILBOX.md: "Retrying a TCP response therefore cannot execute a
\* motion twice").
Requests == INSTANCE CommandLog WITH issued <- issued, log <- plc.log
ImplementsCommandLog == Requests!Spec

\* A command reported done to its caller is one the PLC has handled.
DoneMeansHandled ==
    [][outcome' # outcome /\ outcome'.res = "done" => Last = issued]_vars

\* A command reported done is over: neither its motion nor its pulse still runs.
\* Excused are a simultaneous move, which is acknowledged at acceptance, and a
\* command that the PLC accepted over another one still running: over a
\* simultaneous move, whose end is then taken for its own, or over a pulse that a
\* servo error failed, whose end acknowledges whatever is active.
DoneMeansFinished ==
    [][outcome' # outcome /\ outcome'.res = "done" /\ cmd # "MOVE_NOWAIT" /\ ~plc.over
          => plc.motion # issued /\ issued \notin plc.lit]_vars

\* An output switched on by a pulse is off as soon as no pulse timer runs for it:
\* the PLC alone switches it off ("A pulse is timed completely in the PLC"),
\* except for a pulse that a servo error failed, which the next pulse forgets.
PulsesAreTimed == plc.lit \subseteq {plc.pulse} \cup plc.left
============================================================================
