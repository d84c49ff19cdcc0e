---------------------------- MODULE Runtimes_proof ----------------------------
(* Proofs about the two that run a recipe for the pendant: the runtime in the *)
(* pendant (RuntimeModes), for every bound on its queues and whoever acts     *)
(* beside the page, and the blocks in the PLC (StepSequencer).  The modes     *)
(* come first: the types, that a program that runs runs in a mode, and that   *)
(* the mode and the stop bit the PLC holds are the ones last wanted.          *)
EXTENDS RuntimeModes, StepSequencer, SequenceTheorems, WellFoundedInduction, TLAPS

\* What makes the modes inductive: while a program runs no end of a run waits among
\* the signals, unless it was started too early or a flow of an earlier one was late.
NoEndWaits == ex.th = "run" /\ ~stale => ~EndQueued

\* Its state is not the one of an end, which comes with the next phase of its thread.
RunRuns == ex.th = "run" => ex.state \in {"RUNNING", "PAUSED", "STOPPING"}

\* And a pause or resume that is still to be written was decided in a mode, which no
\* one but the UI thread takes away.
RunInMode ==
    /\ ex.th = "run" /\ ~stale /\ ui # "stop"
    /\ ex.state \in {"RUNNING", "PAUSED"} \/ ui # "free"
    => mode # 0

\* The inductive invariant.
IInv == ModesInv /\ NoEndWaits /\ RunRuns /\ RunInMode

\* The types of the two queues of commands, of the signals and of the executor, by
\* names that need not be expanded.
Signals == Seq({"up", "down", "ended", "error", "monitor"})
StopCommands == Seq(BOOLEAN)
ModeCommands == Seq(0 .. 2)
Executors ==
    [th : {"none", "run", "tell", "off", "bye"}, stop : BOOLEAN,
     state : {"IDLE", "RUNNING", "PAUSED", "STOPPING", "ERROR"},
     told : BOOLEAN, flows : BOOLEAN]

\* The types but for those of single flags that no other part depends on.
FlagsOK ==
    /\ scene \in Scenes /\ link \in BOOLEAN /\ conn \in BOOLEAN
    /\ mon \in BOOLEAN /\ timer \in BOOLEAN
    /\ program \in {"none", "plain", "refused"} /\ idle \in BOOLEAN
    /\ dt201 \in 0 .. 2 /\ dt223 \in BOOLEAN
    /\ halt \in {"held", "freed", "unknown"} /\ unseen \in BOOLEAN

QueuesOK == signals \in Signals /\ stopQ \in StopCommands /\ modeQ \in ModeCommands

RunOK ==
    /\ mode \in 0 .. 2 /\ stale \in BOOLEAN /\ ex \in Executors
    /\ ui \in {"free", "stop", "pause", "resume", "report"}
    /\ NoEndWaits /\ RunRuns /\ RunInMode

\* The invariant in three parts, each kept for reasons of its own.
LEMMA Parts == IInv <=> FlagsOK /\ QueuesOK /\ RunOK
  <1>1. RunInMode => RunKeepsModeApart
    BY DEF RunInMode, RunKeepsModeApart
  <1> QED BY <1>1 DEF IInv, ModesInv, TypeOK, FlagsOK, QueuesOK, RunOK, Signals,
                      StopCommands, ModeCommands, Executors

\* The same of the state after a step.
LEMMA PartsAfter == IInv' <=> FlagsOK' /\ QueuesOK' /\ RunOK'
  <1>1. RunInMode' => RunKeepsModeApart'
    BY DEF RunInMode, RunKeepsModeApart
  <1> QED BY <1>1 DEF IInv, ModesInv, TypeOK, FlagsOK, QueuesOK, RunOK, Signals,
                      StopCommands, ModeCommands, Executors

\* Queues keep their types: appending ...
LEMMA Appended == ASSUME NEW S, NEW q \in Seq(S), NEW x \in S PROVE Append(q, x) \in Seq(S)
  OBVIOUS

\* ... and taking the first.
LEMMA Taken ==
    ASSUME NEW S, NEW q \in Seq(S), q # <<>> PROVE Tail(q) \in Seq(S) /\ Head(q) \in S
  OBVIOUS

\* A signal that is no end of a run adds none.
LEMMA NoNewEnd ==
    ASSUME NEW q \in Signals, NEW s \in {"up", "down", "ended", "error", "monitor"}
    PROVE  /\ Append(q, s) \in Signals
           /\ s \notin Ends =>
                ((\E i \in DOMAIN Append(q, s) : Append(q, s)[i] \in Ends)
                    => \E i \in DOMAIN q : q[i] \in Ends)
  <1>1. Append(q, s) \in Signals
    BY Appended DEF Signals
  <1>2. DOMAIN Append(q, s) = 1 .. Len(q) + 1 /\ DOMAIN q = 1 .. Len(q)
        /\ Append(q, s)[Len(q) + 1] = s
        /\ \A i \in 1 .. Len(q) : Append(q, s)[i] = q[i]
    BY DEF Signals
  <1> QED BY <1>1, <1>2 DEF Signals

\* The first signal taken adds no end of a run.
LEMMA FewerEnds ==
    ASSUME NEW q \in Signals, q # <<>>
    PROVE  /\ Tail(q) \in Signals
           /\ Head(q) \in {"up", "down", "ended", "error", "monitor"}
           /\ (\E i \in DOMAIN Tail(q) : Tail(q)[i] \in Ends) => \E i \in DOMAIN q : q[i] \in Ends
  <1>1. Tail(q) \in Signals /\ Head(q) \in {"up", "down", "ended", "error", "monitor"}
    BY Taken DEF Signals
  <1>2. \A i \in DOMAIN Tail(q) : i + 1 \in DOMAIN q /\ Tail(q)[i] = q[i + 1]
    BY DEF Signals
  <1> QED BY <1>1, <1>2

\* The commands the runtime submits.
LEMMA Submitted ==
    ASSUME QueuesOK
    PROVE  /\ \A b \in BOOLEAN : SubmitStop(b) => stopQ' \in StopCommands
           /\ \A m \in 0 .. 2 : SubmitMode(m) => modeQ' \in ModeCommands
           /\ modeQ \o <<1, 0>> \in ModeCommands
  <1>1. \A b \in BOOLEAN : SubmitStop(b) => stopQ' \in StopCommands
    BY Appended DEF QueuesOK, StopCommands, SubmitStop
  <1>2. \A m \in 0 .. 2 : SubmitMode(m) => modeQ' \in ModeCommands
    BY Appended DEF QueuesOK, ModeCommands, SubmitMode
  <1>3. modeQ \o <<1, 0>> \in ModeCommands
    BY DEF QueuesOK, ModeCommands
  <1> QED BY <1>1, <1>2, <1>3

\* Initially nothing runs.
LEMMA InitModes == Init => IInv
  <1> SUFFICES ASSUME Init PROVE FlagsOK /\ QueuesOK /\ RunOK
    BY Parts
  <1>1. FlagsOK
    <2>1. 0 \in 0 .. 2 OBVIOUS
    <2>2. program \in {"none", "plain", "refused"}
      BY DEF Init, MonitorPrograms
    <2> QED BY <2>1, <2>2, Zenon DEF Init, FlagsOK
  <1>2. QueuesOK BY DEF Init, QueuesOK, Signals, StopCommands, ModeCommands
  <1>3. RunOK
    <2>1. mode \in 0 .. 2 /\ ui \in {"free", "stop", "pause", "resume", "report"}
      BY DEF Init
    <2>3. stale \in BOOLEAN
      BY Zenon DEF Init
    <2>2. ex \in Executors /\ ex.th = "none"
      BY DEF Init, Executors
    <2>4. ex.th # "run"
      BY <2>2
    <2> QED BY <2>1, <2>2, <2>3, <2>4, Zenon DEF RunOK, RunRuns, RunInMode, NoEndWaits
  <1> QED BY <1>1, <1>2, <1>3

\* What Monitor is started with are flags.
LEMMA MonitorFlags ==
    ASSUME FlagsOK, NEW c \in BOOLEAN, NEW r \in BOOLEAN, RunMonitor(c, r)
    PROVE  /\ mon' \in BOOLEAN /\ timer' \in BOOLEAN
           /\ program' \in {"none", "plain", "refused"} /\ unseen' \in BOOLEAN
  BY Zenon DEF FlagsOK, RunMonitor, MayMonitor

\* The end of a run leaves flags.
LEMMA EndFlags ==
    ASSUME FlagsOK, NEW end, RunEnded(end)
    PROVE  /\ conn' = conn /\ halt' \in {"held", "freed", "unknown"}
           /\ mon' \in BOOLEAN /\ timer' \in BOOLEAN
           /\ program' \in {"none", "plain", "refused"} /\ unseen' \in BOOLEAN
  <1>1. conn' = conn /\ (UNCHANGED monVars \/ RunMonitor(conn, TRUE))
    BY Zenon DEF RunEnded
  <1>2. halt' \in {"held", "freed", "unknown"}
    BY Zenon DEF RunEnded, FlagsOK
  <1>3. conn \in BOOLEAN
    BY DEF FlagsOK
  <1>4. /\ mon' \in BOOLEAN /\ timer' \in BOOLEAN
        /\ program' \in {"none", "plain", "refused"} /\ unseen' \in BOOLEAN
    BY <1>1, <1>3, MonitorFlags, Zenon DEF FlagsOK, monVars
  <1> QED BY <1>1, <1>2, <1>4

\* Flags stay flags: each is left alone or set to one, by the page ...
LEMMA PageFlags == IInv /\ PageStep => FlagsOK'
  <1> SUFFICES ASSUME FlagsOK, PageStep PROVE FlagsOK'
    BY Parts
  <1>1. conn \in BOOLEAN
    BY DEF FlagsOK
  <1>2. CASE StartAuto
    <2>1. RunMonitor(conn, TRUE)
      BY <1>2 DEF StartAuto
    <2> QED BY <1>1, <1>2, <2>1, MonitorFlags, Zenon DEF StartAuto, FlagsOK
  <1>3. CASE StartRefused
    <2>1. RunMonitor(conn, TRUE)
      BY <1>3 DEF StartRefused
    <2> QED BY <1>1, <1>3, <2>1, MonitorFlags, Zenon DEF StartRefused, FlagsOK
  <1>4. CASE PrepareCheck
    <2>1. RunMonitor(conn, TRUE)
      BY <1>4 DEF PrepareCheck
    <2> QED BY <1>1, <1>4, <2>1, MonitorFlags, Zenon DEF PrepareCheck, FlagsOK
  <1>5. CASE StartCheck
    <2>1. CASE UNCHANGED <<ex, plcVars, monVars, halt, stale>>
      BY <1>5, <2>1, Zenon DEF StartCheck, FlagsOK, plcVars, monVars
    <2>2. CASE RunMonitor(conn, TRUE) /\ halt' = "freed" /\ UNCHANGED <<ui, dt201, dt223>>
      BY <1>1, <1>5, <2>2, MonitorFlags, Zenon DEF StartCheck, FlagsOK
    <2> QED BY <1>5, <2>1, <2>2, Zenon DEF StartCheck
  <1>6. CASE PauseClicked
    BY <1>6, Zenon DEF PauseClicked, FlagsOK, plcVars, monVars
  <1>7. CASE StopClicked
    <2>1. idle' \in BOOLEAN /\ halt' \in {"held", "freed", "unknown"}
      BY <1>7, Zenon DEF StopClicked
    <2> QED BY <1>7, <2>1, Zenon DEF StopClicked, FlagsOK, monVars
  <1> QED BY <1>2, <1>3, <1>4, <1>5, <1>6, <1>7, Zenon DEF PageStep

\* Everything but the page.
OtherStep ==
    IdleStop \/ RunStep \/ FlowStep \/ MonitorEnds \/ UiStep
        \/ EditRecipe \/ LoadRecipe \/ Deliver \/ LinkChanges

\* ... and by everything else.
LEMMA OtherFlags == IInv /\ OtherStep => FlagsOK'
  <1> SUFFICES ASSUME FlagsOK, QueuesOK, OtherStep PROVE FlagsOK'
    BY Parts
  <1>1. conn \in BOOLEAN
    BY DEF FlagsOK
  <1>2. CASE IdleStop
    <2>1. RunMonitor(conn, FALSE)
      BY <1>2, Zenon DEF IdleStop
    <2> QED BY <1>1, <1>2, <2>1, MonitorFlags, Zenon DEF IdleStop, FlagsOK, plcVars
  <1>3. CASE RunStep \/ FlowStep
    BY <1>3, Zenon DEF RunStep, FlowStep, FlagsOK, plcVars, monVars
  <1>4. CASE MonitorEnds
    BY <1>4, Zenon DEF MonitorEnds, FlagsOK, plcVars
  <1>5. CASE HandleSignal
    <2>1. UNCHANGED <<scene, link, idle, dt201, dt223>>
      BY <1>5, Zenon DEF HandleSignal
    <2>2. CASE Connected
      <3>1. timer' \in BOOLEAN
        BY <2>2, Zenon DEF Connected, FlagsOK, Schedulable
      <3> QED BY <2>1, <2>2, <3>1, Zenon DEF Connected, FlagsOK
    <2>3. CASE Disconnected
      BY <2>1, <2>3, Zenon DEF Disconnected, FlagsOK
    <2>4. CASE RunEnded(Head(signals))
      BY <2>1, <2>4, EndFlags, Zenon DEF FlagsOK
    <2>5. CASE MonitorEnded
      <3>1. timer' \in BOOLEAN
        BY <2>5, Zenon DEF MonitorEnded, FlagsOK, Schedulable
      <3> QED BY <2>1, <2>5, <3>1, Zenon DEF MonitorEnded, FlagsOK
    <2> QED BY <1>5, <2>2, <2>3, <2>4, <2>5, Zenon DEF HandleSignal
  <1>6. CASE UiGoesOn
    <2>1. UNCHANGED <<scene, link, idle, dt201, dt223>>
      BY <1>6, Zenon DEF UiGoesOn
    <2>2. CASE UNCHANGED <<mode, conn, stopQ, modeQ, halt, monVars>>
      BY <2>1, <2>2, Zenon DEF FlagsOK, monVars
    <2>3. CASE RunEnded(EndOf(ex.state))
      BY <2>1, <2>3, EndFlags, Zenon DEF FlagsOK
    <2> QED BY <1>6, <2>2, <2>3, Zenon DEF UiGoesOn
  <1>7. CASE TimerFires
    <2>1. timer' \in BOOLEAN /\ unseen' \in BOOLEAN /\ mon' \in BOOLEAN
      BY <1>7, Zenon DEF TimerFires
    <2> QED BY <1>7, <2>1, Zenon DEF TimerFires, FlagsOK, plcVars
  <1>8. CASE EditRecipe
    <2>1. timer' \in BOOLEAN /\ unseen' \in BOOLEAN
      BY <1>8, Zenon DEF EditRecipe
    <2>2. program' \in {"none", "plain", "refused"}
      BY <1>8 DEF EditRecipe, MonitorPrograms
    <2> QED BY <1>8, <2>1, <2>2, Zenon DEF EditRecipe, FlagsOK, plcVars
  <1>9. CASE LoadRecipe
    <2>1. program' \in {"none", "plain", "refused"} /\ unseen' \in BOOLEAN
      BY <1>9 DEF LoadRecipe, MonitorPrograms
    <2> QED BY <1>9, <2>1, Zenon DEF LoadRecipe, FlagsOK, plcVars
  <1>10. CASE Deliver
    <2>1. stopQ # <<>> => Head(stopQ) \in BOOLEAN
      BY Taken DEF QueuesOK, StopCommands
    <2>2. modeQ # <<>> => Head(modeQ) \in 0 .. 2
      BY Taken DEF QueuesOK, ModeCommands
    <2>3. dt223' \in BOOLEAN
      BY <1>10, <2>1, Zenon DEF Deliver, FlagsOK
    <2>4. dt201' \in 0 .. 2
      BY <1>10, <2>2, Zenon DEF Deliver, FlagsOK
    <2>5. halt' \in {"held", "freed", "unknown"}
      BY <1>10, Zenon DEF Deliver, FlagsOK
    <2> QED BY <1>10, <2>3, <2>4, <2>5, Zenon DEF Deliver, FlagsOK, monVars
  <1>11. CASE LinkChanges
    BY <1>11, Zenon DEF LinkChanges, FlagsOK, plcVars, monVars
  <1> QED BY <1>2, <1>3, <1>4, <1>5, <1>6, <1>7, <1>8, <1>9, <1>10, <1>11, Zenon
          DEF OtherStep, UiStep

\* Queues stay queues of signals and of commands under the page ...
LEMMA PageQueues == IInv /\ PageStep => QueuesOK'
  <1> SUFFICES ASSUME FlagsOK, QueuesOK, RunOK, PageStep PROVE QueuesOK'
    BY Parts
  <1>1. TRUE \in BOOLEAN /\ FALSE \in BOOLEAN /\ mode \in 0 .. 2 /\ 0 \in 0 .. 2
        /\ 1 \in 0 .. 2 /\ 2 \in 0 .. 2
    BY DEF RunOK
  <1>2. CASE StartAuto
    BY <1>1, <1>2, Submitted, Zenon DEF StartAuto, QueuesOK
  <1>3. CASE StartRefused
    BY <1>1, <1>3, Submitted, Zenon DEF StartRefused, QueuesOK
  <1>4. CASE PrepareCheck
    BY <1>1, <1>4, Submitted, Zenon DEF PrepareCheck, QueuesOK
  <1>5. CASE StartCheck
    BY <1>1, <1>5, Submitted, Zenon DEF StartCheck, QueuesOK, plcVars
  <1>6. CASE PauseClicked
    BY <1>6, Zenon DEF PauseClicked, QueuesOK, plcVars
  <1>7. CASE StopClicked
    BY <1>1, <1>7, Submitted, Zenon DEF StopClicked, QueuesOK
  <1> QED BY <1>2, <1>3, <1>4, <1>5, <1>6, <1>7, Zenon DEF PageStep

\* What the executor's threads send is the end of a run, or nothing.
LEMMA ExecutorSends ==
    ASSUME RunStep \/ FlowStep
    PROVE  UNCHANGED signals \/ Signal("ended") \/ Signal("error")
  <1>1. ASSUME NEW th, Report(th)
        PROVE  UNCHANGED signals \/ Signal("ended") \/ Signal("error")
    BY <1>1, Zenon DEF Report, EndOf
  <1>2. CASE RunStep
    BY <1>1, <1>2, Zenon DEF RunStep, RunEnds, RunTells, RunOff, RunLeaves
  <1>3. CASE FlowStep
    <2>1. CASE \E e \in Ends : Signal(e)
      BY <2>1, Zenon DEF Ends
    <2> QED BY <1>1, <1>3, <2>1, Zenon DEF FlowStep, FlowStops, FlowReports
  <1> QED BY <1>2, <1>3

\* ... and under everything else.
LEMMA OtherQueues == IInv /\ OtherStep => QueuesOK'
  <1> SUFFICES ASSUME FlagsOK, QueuesOK, RunOK, OtherStep PROVE QueuesOK'
    BY Parts
  <1>1. TRUE \in BOOLEAN /\ FALSE \in BOOLEAN /\ mode \in 0 .. 2 /\ 0 \in 0 .. 2
    BY DEF RunOK
  <1>2. \A s \in {"up", "down", "ended", "error", "monitor"} :
          Signal(s) => signals' \in Signals
    BY NoNewEnd, Zenon DEF QueuesOK, Signal
  <1>3. CASE IdleStop
    BY <1>3, Zenon DEF IdleStop, QueuesOK, plcVars
  <1>4. CASE RunStep \/ FlowStep
    BY <1>2, <1>4, ExecutorSends, Zenon DEF RunStep, FlowStep, QueuesOK, plcVars
  <1>5. CASE MonitorEnds
    BY <1>2, <1>5, Zenon DEF MonitorEnds, QueuesOK, plcVars
  <1>6. ASSUME NEW end, RunEnded(end)
        PROVE  stopQ' \in StopCommands /\ modeQ' \in ModeCommands
    <2>1. stopQ' = stopQ \/ SubmitStop(TRUE)
      BY <1>6, Zenon DEF RunEnded
    <2>2. modeQ' = modeQ \/ SubmitMode(0)
      BY <1>6, Zenon DEF RunEnded, ReportEnd
    <2> QED BY <1>1, <2>1, <2>2, Submitted, Zenon DEF QueuesOK
  <1>7. CASE HandleSignal
    <2>1. signals' \in Signals
      BY <1>7, FewerEnds, Zenon DEF HandleSignal, QueuesOK
    <2>2. CASE RunEnded(Head(signals))
      BY <1>6, <2>1, <2>2, Zenon DEF QueuesOK
    <2>3. CASE Connected \/ Disconnected \/ MonitorEnded
      <3>1. stopQ' = stopQ
        BY <2>3, Zenon DEF Connected, Disconnected, MonitorEnded
      <3>2. modeQ' = modeQ \/ SubmitMode(mode)
        BY <2>3, Zenon DEF Connected, Disconnected, MonitorEnded
      <3> QED BY <1>1, <2>1, <3>1, <3>2, Submitted, Zenon DEF QueuesOK
    <2> QED BY <1>7, <2>2, <2>3, Zenon DEF HandleSignal
  <1>8. CASE UiGoesOn
    <2>1. signals' = signals
      BY <1>8, Zenon DEF UiGoesOn
    <2>2. CASE UNCHANGED <<mode, conn, stopQ, modeQ, halt, monVars>>
      BY <2>1, <2>2, Zenon DEF QueuesOK
    <2>3. CASE RunEnded(EndOf(ex.state))
      BY <1>6, <2>1, <2>3, Zenon DEF QueuesOK
    <2> QED BY <1>8, <2>2, <2>3, Zenon DEF UiGoesOn
  <1>9. CASE TimerFires \/ EditRecipe \/ LoadRecipe
    BY <1>9, Zenon DEF TimerFires, EditRecipe, LoadRecipe, QueuesOK, plcVars
  <1>10. CASE Deliver
    <2>1. stopQ' \in StopCommands
      BY <1>10, Taken, Zenon DEF Deliver, QueuesOK, StopCommands
    <2>2. modeQ' \in ModeCommands
      BY <1>10, Taken, Zenon DEF Deliver, QueuesOK, ModeCommands
    <2> QED BY <1>10, <2>1, <2>2, Zenon DEF Deliver, QueuesOK
  <1>11. CASE LinkChanges
    <2>1. Signal("up") \/ Signal("down")
      BY <1>11, Zenon DEF LinkChanges
    <2> QED BY <1>2, <1>11, <2>1, Zenon DEF LinkChanges, QueuesOK, plcVars
  <1> QED BY <1>3, <1>4, <1>5, <1>7, <1>8, <1>9, <1>10, <1>11, Zenon DEF OtherStep, UiStep

\* What leaves mode and executor alone and queues no end of a run keeps them right.
LEMMA RunLeftAlone ==
    ASSUME RunOK, UNCHANGED <<mode, ex, ui, stale>>, EndQueued' => EndQueued
    PROVE  RunOK'
  BY Zenon DEF RunOK, RunRuns, RunInMode, NoEndWaits

\* A program that starts.
LEMMA RunStarts ==
    ASSUME RunOK, mode' \in {1, 2}, ex' = Started, stale' = EndQueued,
           UNCHANGED <<signals, ui>>
    PROVE  RunOK'
  <1>1. ex' \in Executors /\ ex'.th = "run" /\ ex'.state = "RUNNING"
    BY DEF Started, Executors, RunOK
  <1>2. mode' \in 0 .. 2 /\ mode' # 0
    OBVIOUS
  <1>3. stale' \in BOOLEAN
    BY Zenon DEF EndQueued
  <1>4. ~stale' => ~EndQueued'
    BY Zenon DEF EndQueued
  <1>5. RunRuns'
    BY <1>1 DEF RunRuns
  <1> QED BY <1>1, <1>2, <1>3, <1>4, <1>5, Zenon DEF RunOK, RunInMode, NoEndWaits

\* An executor whose thread does not run the program.
LEMMA RunOver ==
    ASSUME mode' \in 0 .. 2, stale' \in BOOLEAN, ex' \in Executors, ex'.th # "run",
           ui' \in {"free", "stop", "pause", "resume", "report"}
    PROVE  RunOK'
  BY Zenon DEF RunOK, RunRuns, RunInMode, NoEndWaits

\* A pause is decided only of an executor in state RUNNING.
LEMMA PausesWhat ==
    ASSUME NEW e PROVE Pauses(e) = "free" \/ (Pauses(e) = "pause" /\ e.state = "RUNNING")
  BY Zenon DEF Pauses

\* What the UI thread begins to write, or has written, while the mode is kept.
LEMMA UiChanges ==
    ASSUME RunOK, UNCHANGED <<mode, ex, stale>>, EndQueued' => EndQueued,
           ui' \in {"free", "pause", "resume"}, ui # "stop",
           ui' # "free" => mode # 0 \/ ex.state = "RUNNING"
    PROVE  RunOK'
  <1>1. ui' \in {"free", "stop", "pause", "resume", "report"}
    OBVIOUS
  <1>2. RunInMode'
    BY DEF RunInMode, RunOK, RunRuns
  <1> QED BY <1>1, <1>2, Zenon DEF RunOK, RunRuns, NoEndWaits

\* The page's commands keep mode and executor right ...
LEMMA PageRuns == IInv /\ PageStep => RunOK'
  <1> SUFFICES ASSUME QueuesOK, RunOK, PageStep PROVE RunOK'
    BY Parts
  <1>1. UNCHANGED signals => (EndQueued' => EndQueued)
    BY Zenon DEF EndQueued
  <1>0. ui = "free"
    BY DEF PageStep
  <1>2. CASE StartAuto
    <2>1. mode' \in {1, 2}
      BY <1>2 DEF StartAuto
    <2> QED BY <1>2, <2>1, RunStarts, Zenon DEF StartAuto
  <1>3. CASE StartRefused
    BY <1>1, <1>3, RunLeftAlone, Zenon DEF StartRefused
  <1>4. CASE PrepareCheck
    <2>1. ex.th = "none" /\ ex' = ex /\ stale' = stale /\ mode' = 2 /\ ui' = ui
      BY <1>4, Zenon DEF PrepareCheck, Running
    <2> QED BY <2>1, RunOver DEF RunOK
  <1>5. CASE StartCheck
    <2>1. CASE ui' = "resume" /\ UNCHANGED <<ex, plcVars, monVars, halt, stale>>
      <3>1. mode' = mode /\ mode = 2 /\ UNCHANGED signals
        BY <1>5, <2>1, Zenon DEF StartCheck
      <3>2. mode # 0
        BY <3>1
      <3> QED BY <1>0, <1>1, <2>1, <3>1, <3>2, UiChanges
    <2>2. CASE ex' = Started /\ stale' = EndQueued /\ UNCHANGED <<ui, dt201, dt223>>
      <3>1. mode' \in {1, 2}
        BY <1>5 DEF StartCheck
      <3> QED BY <1>5, <2>2, <3>1, RunStarts, Zenon DEF StartCheck
    <2> QED BY <1>5, <2>1, <2>2, Zenon DEF StartCheck
  <1>6. CASE PauseClicked
    <2>1. UNCHANGED <<mode, ex, stale, signals>> /\ ui' = Pauses(ex)
      BY <1>6, Zenon DEF PauseClicked
    <2> QED BY <1>0, <1>1, <2>1, PausesWhat, UiChanges
  <1>7. CASE StopClicked
    <2>1. /\ ex' = ex /\ mode' = 0 /\ stale' = stale /\ UNCHANGED signals
          /\ ui' = IF Running THEN "stop" ELSE Pauses(ex)
      BY <1>7, Zenon DEF StopClicked
    <2>2. mode' \in 0 .. 2
      BY <2>1
    <2>3. CASE Running
      <3>1. ui' = "stop"
        BY <2>1, <2>3
      <3>2. ui' \in {"free", "stop", "pause", "resume", "report"}
        BY <3>1
      <3>3. RunInMode'
        BY <3>1 DEF RunInMode
      <3> QED BY <1>1, <2>1, <2>2, <3>2, <3>3, Zenon DEF RunOK, RunRuns, NoEndWaits
    <2>4. CASE ~Running
      <3>1. ex'.th = "none" /\ ui' = Pauses(ex)
        BY <2>1, <2>4, Zenon DEF Running
      <3>2. ui' \in {"free", "stop", "pause", "resume", "report"}
        BY <3>1, PausesWhat
      <3> QED BY <2>1, <2>2, <3>1, <3>2, RunOver DEF RunOK
    <2> QED BY <2>3, <2>4
  <1> QED BY <1>2, <1>3, <1>4, <1>5, <1>6, <1>7, Zenon DEF PageStep

\* ... so do the executor's threads and flows ...
LEMMA ExecutorRuns == IInv /\ (RunStep \/ FlowStep) => RunOK'
  <1> SUFFICES ASSUME RunOK, RunStep \/ FlowStep PROVE RunOK'
    BY Parts
  <1>1. /\ mode' = mode /\ mode \in 0 .. 2 /\ ui' = ui /\ stale \in BOOLEAN
        /\ ui \in {"free", "stop", "pause", "resume", "report"} /\ ex \in Executors
    BY Zenon DEF RunStep, FlowStep, RunOK
  <1>2. CASE RunStep
    <2>1. ex' \in Executors /\ ex'.th # "run" /\ stale' = stale
      <3>1. CASE RunEnds
        BY <1>1, <1>2, <3>1 DEF RunStep, RunEnds, Executors
      <3>2. CASE RunTells
        BY <1>1, <1>2, <3>2 DEF RunStep, RunTells, Report, Executors
      <3>3. CASE RunOff
        <4>1. PICK state \in {ex.state, "ERROR"} :
                ex' = IF state = "STOPPING" THEN [ex EXCEPT !.th = "bye", !.state = "IDLE"]
                      ELSE [ex EXCEPT !.th = "none", !.state = state, !.flows = FlowsFollowed]
          BY <3>3, Zenon DEF RunOff
        <4>2. FlowsFollowed \in BOOLEAN
          BY Zenon DEF FlowsFollowed
        <4>3. stale' = stale
          BY <1>2, Zenon DEF RunStep
        <4> QED BY <1>1, <4>1, <4>2, <4>3 DEF Executors
      <3>4. CASE RunLeaves
        <4>1. (ex.flows \/ ("none" = "none" /\ FlowsFollowed)) \in BOOLEAN
          BY Zenon
        <4> QED BY <1>1, <1>2, <3>4, <4>1 DEF RunStep, RunLeaves, Report, Executors
      <3> QED BY <1>2, <3>1, <3>2, <3>3, <3>4, Zenon DEF RunStep
    <2> QED BY <1>1, <2>1, RunOver
  <1>3. CASE FlowStep
    <2>1. CASE FlowStops
      <3>1. /\ ex' \in Executors /\ ex'.th = ex.th
            /\ ex'.state = ex.state \/ ex'.state = "STOPPING"
            /\ stale' = stale /\ UNCHANGED signals
        BY <1>1, <2>1 DEF FlowStops, Executors
      <3>2. EndQueued' => EndQueued
        BY <3>1, Zenon DEF EndQueued
      <3>3. RunRuns' /\ RunInMode'
        BY <1>1, <3>1 DEF RunOK, RunRuns, RunInMode
      <3>4. NoEndWaits'
        BY <3>1, <3>2, Zenon DEF RunOK, NoEndWaits
      <3> QED BY <1>1, <3>1, <3>3, <3>4, Zenon DEF RunOK
    <2>2. CASE ex.state \in {"IDLE", "ERROR"} /\ Report(ex.th) /\ UNCHANGED stale
      <3>1. ex.th # "run"
        BY <2>2 DEF RunOK, RunRuns
      <3>2. (ex.flows \/ (ex.th = "none" /\ FlowsFollowed)) \in BOOLEAN
        BY Zenon
      <3>3. ex' \in Executors /\ ex'.th # "run"
        BY <1>1, <2>2, <3>1, <3>2 DEF Report, Executors
      <3> QED BY <1>1, <2>2, <3>3, RunOver
    <2>3. CASE stale' = TRUE /\ ex' = [ex EXCEPT !.told = TRUE]
      <3>1. ex' \in Executors /\ ex'.th = ex.th /\ ex'.state = ex.state
        BY <1>1, <2>3 DEF Executors
      <3>2. RunRuns'
        BY <3>1, Zenon DEF RunOK, RunRuns
      <3> QED BY <1>1, <2>3, <3>1, <3>2, Zenon DEF RunOK, RunInMode, NoEndWaits
    <2> QED BY <1>3, <2>1, <2>2, <2>3, Zenon DEF FlowStep, FlowReports
  <1> QED BY <1>2, <1>3

\* ... the end of a run, of which the UI thread learns by a signal or by itself ...
LEMMA EndRuns ==
    ASSUME RunOK, NEW end, RunEnded(end), UNCHANGED <<ex, stale>>, ui # "stop",
           EndQueued' => EndQueued, ex.th = "run" => stale
    PROVE  RunOK'
  <1>1. mode' = 0 /\ (ui' = "free" \/ ui' = Pauses(ex))
    BY Zenon DEF RunEnded, Emit
  <1>2. mode' \in 0 .. 2 /\ ui' \in {"free", "stop", "pause", "resume", "report"}
    BY <1>1, PausesWhat
  <1> QED BY <1>2, Zenon DEF RunOK, RunRuns, RunInMode, NoEndWaits

\* ... what else the UI thread does ...
LEMMA UiRuns == IInv /\ UiStep => RunOK'
  <1> SUFFICES ASSUME QueuesOK, RunOK, UiStep PROVE RunOK'
    BY Parts
  <1>1. UNCHANGED signals => (EndQueued' => EndQueued)
    BY Zenon DEF EndQueued
  <1>2. CASE HandleSignal
    <2>1. EndQueued' => EndQueued
      BY <1>2, FewerEnds, Zenon DEF HandleSignal, QueuesOK, EndQueued
    <2>2. UNCHANGED <<ex, stale>> /\ ui = "free"
      BY <1>2, Zenon DEF HandleSignal
    <2>3. CASE Connected \/ Disconnected \/ MonitorEnded
      BY <2>1, <2>2, <2>3, RunLeftAlone, Zenon DEF Connected, Disconnected, MonitorEnded
    <2>4. CASE Head(signals) \in Ends /\ RunEnded(Head(signals))
      <3>1. 1 \in DOMAIN signals /\ signals[1] = Head(signals)
        BY <1>2 DEF HandleSignal, QueuesOK, Signals
      <3>2. EndQueued
        BY <2>4, <3>1, Zenon DEF EndQueued
      <3>3. ex.th = "run" => stale
        BY <3>2, Zenon DEF RunOK, NoEndWaits
      <3>4. ui # "stop"
        BY <2>2
      <3> QED BY <2>1, <2>2, <2>4, <3>3, <3>4, EndRuns, Zenon
    <2> QED BY <1>2, <2>3, <2>4, Zenon DEF HandleSignal
  <1>3. CASE UiGoesOn
    <2>1. stale' = stale /\ UNCHANGED signals
      BY <1>3, Zenon DEF UiGoesOn
    <2>2. CASE UiStops /\ UNCHANGED <<mode, conn, stopQ, modeQ, halt, monVars>>
      <3>1. ex' \in Executors /\ ex'.th = ex.th /\ ex'.state = "STOPPING"
        BY <2>2 DEF UiStops, Stopping, RunOK, Executors
      <3>2. ui' = "free"
        BY <2>2, <3>1, PausesWhat DEF UiStops
      <3>3. RunRuns' /\ RunInMode'
        BY <3>1, <3>2 DEF RunRuns, RunInMode
      <3>4. NoEndWaits'
        BY <1>1, <2>1, <3>1, Zenon DEF RunOK, NoEndWaits
      <3>5. ui' \in {"free", "stop", "pause", "resume", "report"} /\ mode' = mode
        BY <2>2, <3>2
      <3> QED BY <2>1, <3>1, <3>3, <3>4, <3>5, Zenon DEF RunOK
    <2>3. CASE UiPauses /\ UNCHANGED <<mode, conn, stopQ, modeQ, halt, monVars>>
      <3>1. /\ ex' \in Executors /\ ex'.th = ex.th /\ ex'.state \in {"PAUSED", "RUNNING"}
            /\ ui \in {"pause", "resume"} /\ ui' = "report" /\ mode' = mode
        BY <2>3 DEF UiPauses, RunOK, Executors
      <3>2. RunRuns' /\ RunInMode'
        BY <2>1, <3>1 DEF RunOK, RunRuns, RunInMode
      <3>3. NoEndWaits'
        BY <1>1, <2>1, <3>1, Zenon DEF RunOK, NoEndWaits
      <3>4. ui' \in {"free", "stop", "pause", "resume", "report"}
        BY <3>1
      <3> QED BY <2>1, <3>1, <3>2, <3>3, <3>4, Zenon DEF RunOK
    <2>4. CASE /\ ui = "report" /\ UNCHANGED ex
               /\ ex.state \in {"IDLE", "ERROR"} /\ RunEnded(EndOf(ex.state))
      <3>1. ex.th # "run"
        BY <2>4 DEF RunOK, RunRuns
      <3>2. ui # "stop"
        BY <2>4
      <3> QED BY <1>1, <2>1, <2>4, <3>1, <3>2, EndRuns, Zenon
    <2>5. CASE /\ ui = "report" /\ UNCHANGED ex /\ ui' = "free"
               /\ UNCHANGED <<mode, conn, stopQ, modeQ, halt, monVars>>
      <3>1. ui # "stop" /\ ui' \in {"free", "pause", "resume"}
        BY <2>5
      <3> QED BY <1>1, <2>1, <2>5, <3>1, UiChanges
    <2> QED BY <1>3, <2>2, <2>3, <2>4, <2>5, Zenon DEF UiGoesOn
  <1>4. CASE TimerFires
    BY <1>1, <1>4, RunLeftAlone, Zenon DEF TimerFires
  <1> QED BY <1>2, <1>3, <1>4, Zenon DEF UiStep

\* ... and everything else.
LEMMA OtherRuns == IInv /\ OtherStep => RunOK'
  <1> SUFFICES ASSUME IInv, QueuesOK, RunOK, OtherStep PROVE RunOK'
    BY Parts
  <1>1. UNCHANGED signals => (EndQueued' => EndQueued)
    BY Zenon DEF EndQueued
  <1>2. \A s \in {"up", "down", "monitor"} : Signal(s) => (EndQueued' => EndQueued)
    <2> SUFFICES ASSUME NEW s \in {"up", "down", "monitor"}, Signal(s), EndQueued'
                 PROVE  EndQueued
      OBVIOUS
    <2>1. s \in {"up", "down", "ended", "error", "monitor"} /\ s \notin Ends
      BY DEF Ends
    <2> QED BY <2>1, NoNewEnd, Zenon DEF QueuesOK, Signal, EndQueued
  <1>3. CASE RunStep \/ FlowStep
    BY <1>3, ExecutorRuns
  <1>4. CASE UiStep
    BY <1>4, UiRuns
  <1>5. CASE MonitorEnds
    BY <1>2, <1>5, RunLeftAlone, Zenon DEF MonitorEnds
  <1>6. CASE IdleStop \/ EditRecipe \/ LoadRecipe \/ Deliver
    BY <1>1, <1>6, RunLeftAlone, Zenon DEF IdleStop, EditRecipe, LoadRecipe, Deliver
  <1>7. CASE LinkChanges
    <2>1. Signal("up") \/ Signal("down")
      BY <1>7, Zenon DEF LinkChanges
    <2> QED BY <1>2, <1>7, <2>1, RunLeftAlone, Zenon DEF LinkChanges
  <1> QED BY <1>3, <1>4, <1>5, <1>6, <1>7, Zenon DEF OtherStep

\* A step that changes nothing.
LEMMA StutterModes == IInv /\ UNCHANGED vars => IInv'
  <1> SUFFICES ASSUME FlagsOK, QueuesOK, RunOK, UNCHANGED vars
               PROVE  FlagsOK' /\ QueuesOK' /\ RunOK'
    BY Parts, PartsAfter
  <1>1. EndQueued' => EndQueued
    BY Zenon DEF EndQueued, vars
  <1>2. RunOK'
    BY <1>1, RunLeftAlone, Zenon DEF vars
  <1> QED BY <1>2, Zenon DEF FlagsOK, QueuesOK, vars, plcVars, monVars

\* Every step keeps the invariant.
LEMMA ModesKept == IInv /\ [Next]_vars => IInv'
  <1> SUFFICES ASSUME IInv, [Next]_vars PROVE IInv'
    OBVIOUS
  <1>1. CASE PageStep
    BY <1>1, PageFlags, PageQueues, PageRuns, PartsAfter
  <1>2. CASE OtherStep
    BY <1>2, OtherFlags, OtherQueues, OtherRuns, PartsAfter
  <1>3. CASE UNCHANGED vars
    BY <1>3, StutterModes
  <1> QED BY <1>1, <1>2, <1>3, Zenon DEF Next, OtherStep

\* For every bound on the queues and whoever acts beside the page: in every state of
\* PLCSequenceRuntime a program that runs runs in a mode, so that the page offers its
\* stop and not another start, unless the UI thread is still at a pause or a stop, or
\* the late report of an earlier run's end has reset the mode.
THEOREM ModesInvariant == Spec => []ModesInv
  <1>1. IInv => ModesInv
    BY Zenon DEF IInv
  <1> QED BY InitModes, ModesKept, <1>1, PTL DEF Spec

---------------------------------------------------------------------------
(* What reaches the PLC.                                                     *)

LinkSignals == {"up", "down"}
NoLinkSignal(q) == \A i \in DOMAIN q : q[i] \notin LinkSignals

\* The last signal of q about the link says that it is l.
LastTells(q, l) ==
    \A i \in DOMAIN q :
        q[i] \in LinkSignals /\ (\A j \in DOMAIN q : j > i => q[j] \notin LinkSignals)
            => (q[i] = "up" <=> l)

\* The runtime knows the link, or a signal that waits will tell it.
LinkTold == (NoLinkSignal(signals) => conn = link) /\ LastTells(signals, link)

\* The value of a word once the commands for it that wait have been executed.
WillHold(q, now) == IF q = <<>> THEN now ELSE q[Len(q)]

\* Once the runtime knows the link, the last command about the mode that waits, or
\* that was executed, is the present one.  No such thing is true of a link that was
\* lost, whose return makes the runtime send the mode again.
ModeTold == link /\ NoLinkSignal(signals) => WillHold(modeQ, dt201) = mode

\* The last command about the stop bit that waits or was executed is the one the
\* last stop or start gave.
StopAsked ==
    /\ halt = "held" => WillHold(stopQ, dt223) = TRUE
    /\ halt = "freed" => WillHold(stopQ, dt223) = FALSE

\* A signal that is added tells the runtime what it says, others change nothing.
LEMMA SignalAdded ==
    ASSUME NEW q \in Signals, NEW s \in {"up", "down", "ended", "error", "monitor"}, NEW l
    PROVE  /\ NoLinkSignal(Append(q, s)) <=> NoLinkSignal(q) /\ s \notin LinkSignals
           /\ s \notin LinkSignals /\ LastTells(q, l) => LastTells(Append(q, s), l)
           /\ s \in LinkSignals => LastTells(Append(q, s), s = "up")
  <1>1. /\ DOMAIN Append(q, s) = 1 .. Len(q) + 1 /\ DOMAIN q = 1 .. Len(q)
        /\ Len(q) \in Nat
        /\ Append(q, s)[Len(q) + 1] = s
        /\ \A i \in 1 .. Len(q) : Append(q, s)[i] = q[i]
    BY DEF Signals
  <1>2. NoLinkSignal(Append(q, s)) <=> NoLinkSignal(q) /\ s \notin LinkSignals
    BY <1>1 DEF NoLinkSignal
  <1>3. s \notin LinkSignals /\ LastTells(q, l) => LastTells(Append(q, s), l)
    BY <1>1 DEF LastTells
  <1>4. s \in LinkSignals => LastTells(Append(q, s), s = "up")
    BY <1>1 DEF LastTells
  <1> QED BY <1>2, <1>3, <1>4

\* A signal that is taken leaves the others, and was the last if no other is left.
LEMMA SignalTaken ==
    ASSUME NEW q \in Signals, q # <<>>, NEW l
    PROVE  /\ LastTells(q, l) => LastTells(Tail(q), l)
           /\ NoLinkSignal(Tail(q)) /\ Head(q) \in LinkSignals /\ LastTells(q, l)
                => (Head(q) = "up" <=> l)
           /\ NoLinkSignal(Tail(q)) /\ Head(q) \notin LinkSignals => NoLinkSignal(q)
  <1>1. /\ DOMAIN Tail(q) = 1 .. Len(q) - 1 /\ DOMAIN q = 1 .. Len(q)
        /\ Len(q) \in Nat /\ Len(q) >= 1
        /\ Head(q) = q[1]
        /\ \A i \in 1 .. Len(q) - 1 : Tail(q)[i] = q[i + 1]
    BY DEF Signals
  <1>2. LastTells(q, l) => LastTells(Tail(q), l)
    <2> SUFFICES ASSUME LastTells(q, l), NEW i \in DOMAIN Tail(q), Tail(q)[i] \in LinkSignals,
                        \A j \in DOMAIN Tail(q) : j > i => Tail(q)[j] \notin LinkSignals
                 PROVE  Tail(q)[i] = "up" <=> l
      BY DEF LastTells
    <2>1. i + 1 \in DOMAIN q /\ q[i + 1] = Tail(q)[i]
      BY <1>1
    <2>2. ASSUME NEW j \in DOMAIN q, j > i + 1 PROVE q[j] \notin LinkSignals
      <3>1. j - 1 \in DOMAIN Tail(q) /\ j - 1 > i /\ Tail(q)[j - 1] = q[j]
        BY <1>1, <2>2
      <3> QED BY <3>1
    <2> QED BY <2>1, <2>2 DEF LastTells
  <1>3. ASSUME NoLinkSignal(Tail(q))
        PROVE  \A j \in DOMAIN q : j > 1 => q[j] \notin LinkSignals
    <2> SUFFICES ASSUME NEW j \in DOMAIN q, j > 1 PROVE q[j] \notin LinkSignals
      OBVIOUS
    <2>1. j - 1 \in DOMAIN Tail(q) /\ Tail(q)[j - 1] = q[j]
      BY <1>1
    <2> QED BY <1>3, <2>1 DEF NoLinkSignal
  <1>4. NoLinkSignal(Tail(q)) /\ Head(q) \in LinkSignals /\ LastTells(q, l)
          => (Head(q) = "up" <=> l)
    BY <1>1, <1>3 DEF LastTells
  <1>5. NoLinkSignal(Tail(q)) /\ Head(q) \notin LinkSignals => NoLinkSignal(q)
    BY <1>1, <1>3 DEF NoLinkSignal
  <1> QED BY <1>2, <1>4, <1>5

\* A command that is added is the last ...
LEMMA CommandAdded ==
    ASSUME NEW S, NEW q \in Seq(S), NEW x \in S, NEW now
    PROVE  WillHold(Append(q, x), now) = x
  BY DEF WillHold

\* ... and one that is executed leaves the last in force.
LEMMA CommandExecuted ==
    ASSUME NEW S, NEW q \in Seq(S), q # <<>>, NEW now
    PROVE  WillHold(Tail(q), Head(q)) = WillHold(q, now)
  <1>1. /\ Len(q) \in Nat /\ Len(q) >= 1 /\ Head(q) = q[1]
        /\ Tail(q) \in Seq(S) /\ Len(Tail(q)) = Len(q) - 1
        /\ \A i \in 1 .. Len(q) - 1 : Tail(q)[i] = q[i + 1]
    OBVIOUS
  <1>2. CASE Len(q) = 1
    <2>1. \A s \in Seq(S) : Len(s) = 0 => s = <<>>
      BY EmptySeq
    <2>2. Len(Tail(q)) = 0
      BY <1>1, <1>2
    <2>3. Tail(q) = <<>>
      BY <1>1, <2>1, <2>2, Zenon
    <2> QED BY <1>1, <1>2, <2>3, Zenon DEF WillHold
  <1>3. CASE Len(q) > 1
    <2>1. Len(Tail(q)) \in 1 .. Len(q) - 1 /\ Len(Tail(q)) + 1 = Len(q)
      BY <1>1, <1>3
    <2>2. Tail(q)[Len(Tail(q))] = q[Len(q)]
      BY <1>1, <2>1
    <2>3. Tail(q) # <<>>
      <3>1. Len(Tail(q)) # 0 /\ Len(<<>>) = 0
        BY <1>1, <1>3
      <3> QED BY <3>1, Zenon
    <2> QED BY <2>2, <2>3, Zenon DEF WillHold
  <1>4. Len(q) = 1 \/ Len(q) > 1
    BY <1>1
  <1> QED BY <1>2, <1>3, <1>4

\* The signals that say nothing of the link leave what is told of it alone.
LEMMA LinkStaysTold ==
    ASSUME QueuesOK, LinkTold, UNCHANGED <<link, conn>>,
           NEW s \in {"ended", "error", "monitor"}, UNCHANGED signals \/ Signal(s)
    PROVE  LinkTold' /\ (NoLinkSignal(signals') <=> NoLinkSignal(signals))
  <1>1. CASE UNCHANGED signals
    BY <1>1, Zenon DEF LinkTold
  <1>2. CASE Signal(s)
    <2>1. s \in {"up", "down", "ended", "error", "monitor"} /\ s \notin LinkSignals
          /\ signals \in Signals
      BY DEF LinkSignals, QueuesOK
    <2>2. signals' = Append(signals, s)
      BY <1>2 DEF Signal
    <2>3. NoLinkSignal(signals') <=> NoLinkSignal(signals)
      BY <2>1, <2>2, SignalAdded, Zenon
    <2>4. LastTells(signals, link) => LastTells(signals', link)
      BY <2>1, <2>2, SignalAdded, Zenon
    <2> QED BY <2>3, <2>4, Zenon DEF LinkTold
  <1> QED BY <1>1, <1>2

\* A mode that is sent is the last that was; one that is not changes nothing.
LEMMA ModeStaysTold ==
    ASSUME QueuesOK, ModeTold, UNCHANGED <<link, dt201>>,
           NoLinkSignal(signals') => NoLinkSignal(signals),
           UNCHANGED <<modeQ, mode>> \/ (mode' \in 0 .. 2 /\ modeQ' = Append(modeQ, mode'))
    PROVE  ModeTold'
  <1>1. CASE UNCHANGED <<modeQ, mode>>
    BY <1>1, Zenon DEF ModeTold
  <1>2. CASE mode' \in 0 .. 2 /\ modeQ' = Append(modeQ, mode')
    <2>1. WillHold(modeQ', dt201') = mode'
      BY <1>2, CommandAdded, Zenon DEF QueuesOK, ModeCommands
    <2> QED BY <2>1, Zenon DEF ModeTold
  <1> QED BY <1>1, <1>2

\* A command about the stop bit is noted as what should hold.
LEMMA StopStaysAsked ==
    ASSUME QueuesOK, StopAsked, UNCHANGED dt223,
           \/ UNCHANGED <<stopQ, halt>>
           \/ UNCHANGED stopQ /\ halt' = "unknown"
           \/ SubmitStop(TRUE) /\ halt' = "held"
           \/ SubmitStop(FALSE) /\ halt' = "freed"
    PROVE  StopAsked'
  <1>1. CASE UNCHANGED <<stopQ, halt>>
    BY <1>1, Zenon DEF StopAsked
  <1>2. CASE UNCHANGED stopQ /\ halt' = "unknown"
    BY <1>2 DEF StopAsked
  <1>3. CASE SubmitStop(TRUE) /\ halt' = "held"
    <2>1. stopQ \in Seq(BOOLEAN) /\ stopQ' = Append(stopQ, TRUE)
      BY <1>3, Zenon DEF QueuesOK, StopCommands, SubmitStop
    <2>2. WillHold(stopQ', dt223') = TRUE
      BY <2>1, CommandAdded
    <2> QED BY <1>3, <2>2 DEF StopAsked
  <1>4. CASE SubmitStop(FALSE) /\ halt' = "freed"
    <2>1. WillHold(stopQ', dt223') = FALSE
      BY <1>4, CommandAdded, Zenon DEF QueuesOK, StopCommands, SubmitStop
    <2> QED BY <1>4, <2>1 DEF StopAsked
  <1> QED BY <1>1, <1>2, <1>3, <1>4, Zenon

\* What the PLC holds and is told, as one invariant.
PlcInv == LinkTold /\ ModeTold /\ StopAsked

\* The page's commands tell the PLC the mode and the stop bit they leave ...
LEMMA PageTells == IInv /\ PlcInv /\ PageStep => PlcInv'
  <1> SUFFICES ASSUME QueuesOK, RunOK, LinkTold, ModeTold, StopAsked, PageStep
               PROVE  LinkTold' /\ ModeTold' /\ StopAsked'
    BY Parts DEF PlcInv
  <1>1. UNCHANGED <<link, conn, signals, dt201, dt223>>
    BY Zenon DEF PageStep, StartAuto, StartRefused, PrepareCheck, StartCheck, PauseClicked,
                 StopClicked, plcVars
  <1>2. LinkTold' /\ (NoLinkSignal(signals') <=> NoLinkSignal(signals))
    BY <1>1, LinkStaysTold, Zenon
  <1>3. mode \in 0 .. 2 /\ 0 \in 0 .. 2 /\ 1 \in 0 .. 2 /\ 2 \in 0 .. 2
    BY DEF RunOK
  <1>4. CASE StartAuto
    <2>1. mode' = 1 /\ modeQ' = Append(modeQ, 1) /\ SubmitStop(FALSE) /\ halt' = "freed"
      BY <1>4, Zenon DEF StartAuto, SubmitMode
    <2>2. mode' \in 0 .. 2 /\ modeQ' = Append(modeQ, mode')
      BY <2>1, <1>3
    <2> QED BY <1>1, <1>2, <2>1, <2>2, ModeStaysTold, StopStaysAsked, Zenon
  <1>5. CASE StartRefused
    <2>1. mode' = 0 /\ modeQ' = modeQ \o <<1, 0>> /\ SubmitStop(FALSE) /\ halt' = "freed"
      BY <1>5, Zenon DEF StartRefused
    <2>2. modeQ' # <<>> /\ modeQ'[Len(modeQ')] = 0
      BY <2>1 DEF QueuesOK, ModeCommands
    <2>3. ModeTold'
      BY <2>1, <2>2, Zenon DEF ModeTold, WillHold
    <2> QED BY <1>1, <1>2, <2>1, <2>3, StopStaysAsked, Zenon
  <1>6. CASE PrepareCheck
    <2>1. mode' = 2 /\ modeQ' = Append(modeQ, 2) /\ UNCHANGED <<stopQ, halt>>
      BY <1>6, Zenon DEF PrepareCheck, SubmitMode
    <2>2. mode' \in 0 .. 2 /\ modeQ' = Append(modeQ, mode')
      BY <2>1, <1>3
    <2> QED BY <1>1, <1>2, <2>1, <2>2, ModeStaysTold, StopStaysAsked, Zenon
  <1>7. CASE StartCheck
    <2>1. mode' = mode
      BY <1>7, Zenon DEF StartCheck
    <2>2. CASE UNCHANGED <<stopQ, modeQ, halt>>
      BY <1>1, <1>2, <2>1, <2>2, ModeStaysTold, StopStaysAsked, Zenon
    <2>3. CASE SubmitStop(FALSE) /\ SubmitMode(mode) /\ halt' = "freed"
      <3>1. mode' \in 0 .. 2 /\ modeQ' = Append(modeQ, mode')
        BY <1>3, <2>1, <2>3 DEF SubmitMode
      <3> QED BY <1>1, <1>2, <2>3, <3>1, ModeStaysTold, StopStaysAsked, Zenon
    <2> QED BY <1>7, <2>2, <2>3, Zenon DEF StartCheck, plcVars
  <1>8. CASE PauseClicked
    <2>1. UNCHANGED <<stopQ, modeQ, halt, mode>>
      BY <1>8, Zenon DEF PauseClicked, plcVars
    <2> QED BY <1>1, <1>2, <2>1, ModeStaysTold, StopStaysAsked, Zenon
  <1>9. CASE StopClicked
    <2>1. CASE SubmitStop(TRUE) /\ SubmitMode(0) /\ halt' = "held" /\ mode' = 0
      <3>1. mode' \in 0 .. 2 /\ modeQ' = Append(modeQ, mode')
        BY <1>3, <2>1 DEF SubmitMode
      <3> QED BY <1>1, <1>2, <2>1, <3>1, ModeStaysTold, StopStaysAsked, Zenon
    <2>2. CASE ~conn /\ halt' = "unknown" /\ UNCHANGED <<stopQ, modeQ>>
      <3>1. ~link \/ ~NoLinkSignal(signals)
        BY <2>2, Zenon DEF LinkTold
      <3>2. ModeTold'
        BY <1>1, <1>2, <3>1, Zenon DEF ModeTold
      <3> QED BY <1>1, <1>2, <2>2, <3>2, StopStaysAsked, Zenon
    <2> QED BY <1>9, <2>1, <2>2, Zenon DEF StopClicked
  <1> QED BY <1>4, <1>5, <1>6, <1>7, <1>8, <1>9, Zenon DEF PageStep

\* ... so does the end of a run, however the UI thread has learned of it ...
LEMMA EndTells ==
    ASSUME QueuesOK, LinkTold, ModeTold, StopAsked, NEW end, RunEnded(end),
           UNCHANGED <<link, dt201, dt223>>, LastTells(signals', link'),
           NoLinkSignal(signals') => NoLinkSignal(signals)
    PROVE  LinkTold' /\ ModeTold' /\ StopAsked'
  <1>1. conn' = conn /\ mode' = 0 /\ mode' \in 0 .. 2
    BY DEF RunEnded
  <1>2. LinkTold'
    BY <1>1, Zenon DEF LinkTold
  <1>3. ModeTold'
    <2>1. CASE conn
      <3>1. modeQ' = Append(modeQ, mode')
        BY <1>1, <2>1 DEF RunEnded, ReportEnd, SubmitMode
      <3> QED BY <1>1, <3>1, ModeStaysTold, Zenon
    <2>2. CASE ~conn
      <3>1. ~(link /\ NoLinkSignal(signals))
        BY <2>2, Zenon DEF LinkTold
      <3> QED BY <3>1, Zenon DEF ModeTold
    <2> QED BY <2>1, <2>2
  <1>4. \/ stopQ' = stopQ /\ halt' = halt
        \/ stopQ' = stopQ /\ halt' = "unknown"
        \/ SubmitStop(TRUE) /\ halt' = "held"
    <2>1. CASE end # "error"
      BY <2>1 DEF RunEnded
    <2>2. CASE end = "error" /\ conn
      BY <2>2 DEF RunEnded
    <2>3. CASE end = "error" /\ ~conn
      BY <2>3 DEF RunEnded
    <2> QED BY <2>1, <2>2, <2>3, Zenon
  <1> QED BY <1>2, <1>3, <1>4, StopStaysAsked, Zenon

\* ... so do the signals the UI thread handles ...
LEMMA SignalTells == IInv /\ PlcInv /\ HandleSignal => PlcInv'
  <1> SUFFICES ASSUME FlagsOK, QueuesOK, RunOK, LinkTold, ModeTold, StopAsked, HandleSignal
               PROVE  LinkTold' /\ ModeTold' /\ StopAsked'
    BY Parts DEF PlcInv
  <1>1. /\ signals \in Signals /\ signals # <<>> /\ signals' = Tail(signals)
        /\ UNCHANGED <<link, dt201, dt223>>
    BY Zenon DEF HandleSignal, QueuesOK
  <1>2. LastTells(signals', link')
    BY <1>1, SignalTaken, Zenon DEF LinkTold
  <1>3. mode \in 0 .. 2 /\ 0 \in 0 .. 2
    BY DEF RunOK
  <1>4. NoLinkSignal(signals') /\ Head(signals) \in LinkSignals => (Head(signals) = "up" <=> link)
    BY <1>1, SignalTaken, Zenon DEF LinkTold
  <1>5. NoLinkSignal(signals') /\ Head(signals) \notin LinkSignals => NoLinkSignal(signals)
    BY <1>1, SignalTaken, Zenon
  <1>6. link \in BOOLEAN /\ conn \in BOOLEAN
    BY DEF FlagsOK
  <1>7. CASE Connected
    <2>1. /\ Head(signals) = "up" /\ Head(signals) \in LinkSignals /\ conn' = TRUE
          /\ UNCHANGED <<mode, stopQ, halt>> /\ modeQ' = Append(modeQ, mode)
      BY <1>7 DEF Connected, LinkSignals, SubmitMode
    <2>2. NoLinkSignal(signals') => conn' = link'
      BY <1>1, <1>4, <1>6, <2>1
    <2>3. WillHold(modeQ', dt201') = mode'
      BY <1>3, <2>1, CommandAdded, Zenon DEF QueuesOK, ModeCommands
    <2>4. ModeTold'
      BY <2>3, Zenon DEF ModeTold
    <2> QED BY <1>1, <1>2, <2>1, <2>2, <2>4, StopStaysAsked, Zenon DEF LinkTold
  <1>8. CASE Disconnected
    <2>1. /\ Head(signals) = "down" /\ Head(signals) \in LinkSignals /\ conn' = FALSE
          /\ UNCHANGED <<mode, stopQ, modeQ, halt>>
      BY <1>8 DEF Disconnected, LinkSignals
    <2>2. NoLinkSignal(signals') => ~link
      BY <1>4, <1>6, <2>1
    <2>3. NoLinkSignal(signals') => conn' = link'
      BY <1>1, <1>6, <2>1, <2>2
    <2>4. ModeTold'
      BY <1>1, <2>2, Zenon DEF ModeTold
    <2> QED BY <1>1, <1>2, <2>1, <2>3, <2>4, StopStaysAsked, Zenon DEF LinkTold
  <1>9. CASE Head(signals) \in Ends /\ RunEnded(Head(signals))
    <2>1. Head(signals) \notin LinkSignals
      BY <1>9 DEF Ends, LinkSignals
    <2>2. NoLinkSignal(signals') => NoLinkSignal(signals)
      BY <1>5, <2>1
    <2> QED BY <1>1, <1>2, <1>9, <2>2, EndTells, Zenon
  <1>10. CASE MonitorEnded
    <2>1. /\ Head(signals) \notin LinkSignals
          /\ UNCHANGED <<conn, mode, stopQ, modeQ, halt>>
      BY <1>10 DEF MonitorEnded, LinkSignals
    <2>2. NoLinkSignal(signals') => NoLinkSignal(signals)
      BY <1>5, <2>1
    <2>3. LinkTold'
      BY <1>1, <1>2, <2>1, <2>2, Zenon DEF LinkTold
    <2> QED BY <1>1, <2>1, <2>2, <2>3, ModeStaysTold, StopStaysAsked, Zenon
  <1> QED BY <1>7, <1>8, <1>9, <1>10, Zenon DEF HandleSignal

\* ... what it still had to write and to report ...
LEMMA UiTells == IInv /\ PlcInv /\ UiGoesOn => PlcInv'
  <1> SUFFICES ASSUME QueuesOK, LinkTold, ModeTold, StopAsked, UiGoesOn
               PROVE  LinkTold' /\ ModeTold' /\ StopAsked'
    BY Parts DEF PlcInv
  <1>1. UNCHANGED <<link, signals, dt201, dt223>>
    BY Zenon DEF UiGoesOn
  <1>2. CASE UNCHANGED <<mode, conn, stopQ, modeQ, halt, monVars>>
    <2>1. LinkTold'
      BY <1>1, <1>2, Zenon DEF LinkTold
    <2> QED BY <1>1, <1>2, <2>1, ModeStaysTold, StopStaysAsked, Zenon
  <1>3. CASE RunEnded(EndOf(ex.state))
    <2>1. LastTells(signals', link')
      BY <1>1, Zenon DEF LinkTold
    <2> QED BY <1>1, <1>3, <2>1, EndTells, Zenon
  <1> QED BY <1>2, <1>3, Zenon DEF UiGoesOn

\* ... the commands the PLC executes, of which the last stays in force ...
LEMMA DeliveryTells == IInv /\ PlcInv /\ Deliver => PlcInv'
  <1> SUFFICES ASSUME FlagsOK, QueuesOK, LinkTold, ModeTold, StopAsked, Deliver
               PROVE  LinkTold' /\ ModeTold' /\ StopAsked'
    BY Parts DEF PlcInv
  <1>1. UNCHANGED <<link, conn, signals, mode>>
    BY Zenon DEF Deliver
  <1>2. LinkTold'
    BY <1>1, Zenon DEF LinkTold
  <1>3. CASE /\ stopQ # <<>> /\ stopQ' = Tail(stopQ)
             /\ dt223' = IF link THEN Head(stopQ) ELSE dt223
             /\ halt' = IF link THEN halt ELSE "unknown"
             /\ UNCHANGED <<modeQ, dt201>>
    <2>1. ModeTold'
      BY <1>1, <1>3, Zenon DEF ModeTold
    <2>2. CASE link
      <3>1. WillHold(stopQ', dt223') = WillHold(stopQ, dt223) /\ halt' = halt
        BY <1>3, <2>2, CommandExecuted, Zenon DEF QueuesOK, StopCommands
      <3> QED BY <1>2, <2>1, <3>1, Zenon DEF StopAsked
    <2>3. CASE ~link
      <3>1. StopAsked'
        BY <1>3, <2>3 DEF StopAsked
      <3> QED BY <1>2, <2>1, <3>1
    <2> QED BY <2>2, <2>3
  <1>4. CASE /\ stopQ = <<>> /\ modeQ # <<>> /\ modeQ' = Tail(modeQ)
             /\ dt201' = IF link THEN Head(modeQ) ELSE dt201
             /\ UNCHANGED <<stopQ, dt223, halt>>
    <2>1. StopAsked'
      BY <1>4, Zenon DEF StopAsked
    <2>2. CASE link
      <3>1. WillHold(modeQ', dt201') = WillHold(modeQ, dt201)
        BY <1>4, <2>2, CommandExecuted, Zenon DEF QueuesOK, ModeCommands
      <3> QED BY <1>1, <1>2, <2>1, <3>1, Zenon DEF ModeTold
    <2>3. CASE ~link
      BY <1>1, <1>2, <2>1, <2>3, Zenon DEF ModeTold
    <2> QED BY <2>2, <2>3
  <1> QED BY <1>3, <1>4, Zenon DEF Deliver

\* ... and everything else.
LEMMA OthersTell ==
    IInv /\ PlcInv
         /\ (IdleStop \/ RunStep \/ FlowStep \/ MonitorEnds \/ TimerFires \/ EditRecipe
                \/ LoadRecipe \/ LinkChanges \/ UNCHANGED vars) => PlcInv'
  <1> SUFFICES ASSUME FlagsOK, QueuesOK, LinkTold, ModeTold, StopAsked,
                      IdleStop \/ RunStep \/ FlowStep \/ MonitorEnds \/ TimerFires
                        \/ EditRecipe \/ LoadRecipe \/ LinkChanges \/ UNCHANGED vars
               PROVE  LinkTold' /\ ModeTold' /\ StopAsked'
    BY Parts DEF PlcInv
  <1>1. UNCHANGED <<conn, mode, stopQ, modeQ, dt201, dt223, halt>>
    BY Zenon DEF IdleStop, RunStep, FlowStep, MonitorEnds, TimerFires, EditRecipe, LoadRecipe,
                 LinkChanges, plcVars, vars
  <1>2. StopAsked'
    BY <1>1, StopStaysAsked, Zenon
  <1>3. CASE LinkChanges
    <2>1. link \in BOOLEAN /\ link' = ~link /\ signals \in Signals
      BY <1>3 DEF LinkChanges, FlagsOK, QueuesOK
    <2>2. PICK s \in LinkSignals : signals' = Append(signals, s) /\ (s = "up" <=> link')
      BY <1>3, <2>1 DEF LinkChanges, Signal, LinkSignals
    <2>3. s \in {"up", "down", "ended", "error", "monitor"}
      BY DEF LinkSignals
    <2>4. ~NoLinkSignal(signals') /\ LastTells(signals', s = "up")
      BY <2>1, <2>2, <2>3, SignalAdded DEF LinkSignals
    <2>5. LastTells(signals', link')
      BY <2>2, <2>4 DEF LastTells
    <2> QED BY <1>2, <2>4, <2>5, Zenon DEF LinkTold, ModeTold
  <1>4. CASE ~LinkChanges
    <2>1. UNCHANGED signals \/ Signal("ended") \/ Signal("error") \/ Signal("monitor")
      BY <1>4, ExecutorSends, Zenon DEF IdleStop, MonitorEnds, TimerFires, EditRecipe,
                                        LoadRecipe, vars
    <2>2. UNCHANGED link
      BY <1>4, Zenon DEF IdleStop, RunStep, FlowStep, MonitorEnds, TimerFires, EditRecipe,
                         LoadRecipe, vars
    <2>3. LinkTold' /\ (NoLinkSignal(signals') <=> NoLinkSignal(signals))
      BY <1>1, <2>1, <2>2, LinkStaysTold, Zenon
    <2> QED BY <1>1, <1>2, <2>2, <2>3, ModeStaysTold, Zenon
  <1> QED BY <1>3, <1>4

\* Initially nothing waits and no stop was asked.
LEMMA InitTells == Init => PlcInv
  <1> SUFFICES ASSUME Init PROVE LinkTold /\ ModeTold /\ StopAsked
    BY DEF PlcInv
  <1>1. signals = <<>> /\ conn = link /\ ~link
    BY Zenon DEF Init
  <1>2. LinkTold
    BY <1>1 DEF LinkTold, LastTells
  <1> QED BY <1>1, <1>2 DEF ModeTold, StopAsked, Init

\* For every bound on the queues, IInv and PlcInv together are kept.
LEMMA PlcTold == Spec => [](IInv /\ PlcInv)
  <1>1. IInv /\ PlcInv /\ [Next]_vars => IInv' /\ PlcInv'
    <2>1. IInv /\ PlcInv /\ [Next]_vars => PlcInv'
      BY PageTells, SignalTells, UiTells, DeliveryTells, OthersTell, Zenon DEF Next, UiStep
    <2> QED BY <2>1, ModesKept
  <1> QED BY InitModes, InitTells, <1>1, PTL DEF Spec

\* For every bound on the queues: once the link works, the runtime knows it and nothing
\* is under way, DT201 is the pendant's mode again: whatever was lost with the link is
\* sent again, and a command that is late never outlives a later one.
THEOREM ModeReported == Spec => []ModeReachesPlc
  <1>1. NoLinkSignal(<<>>)
    BY DEF NoLinkSignal
  <1>2. PlcInv => ModeReachesPlc
    BY <1>1, Zenon DEF PlcInv, ModeTold, ModeReachesPlc, Settled, WillHold
  <1> QED BY PlcTold, <1>2, PTL

\* For every bound on the queues: DT223 is then what the runtime's last stop or start
\* wanted, unless that command found no connection.  What the emergency stop and its
\* acknowledgement write into the same word is not the runtime's.
THEOREM StopBitKept == Spec => []StopBitHolds
  <1>1. IInv /\ PlcInv => StopBitHolds
    BY Parts DEF PlcInv, StopAsked, StopBitHolds, Settled, WillHold, FlagsOK
  <1> QED BY PlcTold, <1>1, PTL

---------------------------------------------------------------------------
(* StepSequencer, for every recipe, every depth of the stack, every number of *)
(* delayed outputs, every order of stacking and every pallet.                *)

AlarmIds == {0, 21, 22, 23, 24, 50, 93, 94, 95, 96, 98, 99}

\* What a context may hold: a program of the recipe p, a step, a state; in the states
\* of an input and of a CALL the step is one.
Steps == 0 .. SlotSteps - 1
Contexts(p) == [slot : DOMAIN p, step : Steps, st : States]

StepAt(p, c) == IF c.step < Len(p[c.slot]) THEN p[c.slot][c.step + 1] ELSE Empty

Fits(p, c) ==
    /\ c.st \in {60, 61} => StepAt(p, c).cmd = "INP"
    /\ c.st = 80 => StepAt(p, c).cmd = "CALL"

\* A context that waits behind the CALL of the program above it.
Awaits(p, c, above) ==
    LET n == CallBefore(c.step) IN
    /\ c.st = 10 /\ n \in 1 .. Len(p[c.slot])
    /\ p[c.slot][n].cmd = "CALL" /\ ~p[c.slot][n].parallel
    /\ p[c.slot][n].slot = above.slot

LEMMA StepsAre ==
    /\ 0 \in Steps /\ SlotSteps \in Nat
    /\ \A n \in Steps : /\ n \in Nat /\ n + 1 <= SlotSteps /\ After(n) \in Steps
                        /\ CallBefore(After(n)) = n + 1
  BY SequencerAssumption DEF Steps, After, CallBefore

\* A stack whose instance was never stopped in the middle: in state 0 it is about to
\* start a program.
Whole(p, s) ==
    /\ \A i \in 1 .. Len(s) - 1 : Awaits(p, s[i], s[i + 1])
    /\ s[Len(s)].st = 0 => Len(s) = 1 /\ s[1].step = 0

StackOK(p, f, s) ==
    /\ s \in Seq(Contexts(p)) /\ Len(s) \in 1 .. Depth
    /\ \A i \in 1 .. Len(s) : Fits(p, s[i])
    /\ f # "M" => Len(s) = 1

Delay5(d) ==
    \A k \in 1 .. Delays :
        d[k] \in [t : {"off", "on", "done"}, start : BOOLEAN, pend : BOOLEAN,
                  bit : {d[k].bit}, on : {d[k].on}]
DelaysOK(d) == DOMAIN d = 1 .. Delays /\ Delay5(d)

BlockOK(p, f, i) ==
    /\ i \in [ctx : {i.ctx}, tmr : {"off", "on", "done"}, start : BOOLEAN, seen : BOOLEAN,
              prev : BOOLEAN, busy : BOOLEAN, delay : {i.delay}]
    /\ StackOK(p, f, i.ctx) /\ DelaysOK(i.delay)

CalledOK(p, c) == c \in [Workers -> [start : BOOLEAN, slot : DOMAIN p]]

AlarmOK(a) == a \in [on : BOOLEAN, id : AlarmIds, user : BOOLEAN]

\* The place on the pallet.
PackOK(i, n) ==
    /\ DOMAIN i = Axes /\ \A a \in Axes : i[a] \in 0 .. Count[a] - 1
    /\ Rank(i) = n

\* The inductive invariant, part by part: types; stacks; the busy bits of the workers;
\* the pulses, from the call by Main to the start by the worker; what a reset has done
\* so far; and that nothing is left to do after it.
SequencerTypes ==
    /\ prog \in Programs
    /\ turn \in DOMAIN AfterTurn /\ ctl \in 0 .. 2 /\ last \in 0 .. 2
    /\ check \in BOOLEAN /\ reset \in BOOLEAN /\ clear \in BOOLEAN /\ quiet \in BOOLEAN
    /\ DOMAIN fb = FBs /\ \A f \in FBs : BlockOK(prog, f, fb[f])
    /\ AlarmOK(alarm) /\ CalledOK(prog, called)
    /\ PackOK(pack, cycles)

WholeStacks == \A f \in FBs \ torn : Whole(prog, fb[f].ctx)

IsBusy(i) == Top(i).st # 0 \/ Len(i.ctx) > 1
BusyShown == \A f \in Workers : fb[f].busy <=> IsBusy(fb[f])

Fresh(f) == fb[f].ctx = <<[slot |-> fb[f].ctx[1].slot, step |-> 0, st |-> 0]>>
Begun(f) == fb[f].ctx = <<[slot |-> called[f].slot, step |-> 0, st |-> 10]>>

PulsesHeard ==
    ctl = 1 => \A f \in Workers \ torn : called[f].start =>
        /\ turn = "W1" => Fresh(f)
        /\ turn = "W2" => IF f = "W1" THEN Begun(f) ELSE Fresh(f)
        /\ turn = "P" => Begun(f)

Still(f) == Top(fb[f]).st = 0 /\ \A k \in 1 .. Delays : ~fb[f].delay[k].pend

Before == [P |-> FBs, M |-> {}, W1 |-> {"M"}, W2 |-> {"M", "W1"}]

ResetDone == reset => ctl = 0 /\ last = 0 /\ \A f \in Before[turn] : Still(f)

QuietKept ==
    quiet => /\ ctl = 0 /\ last = 0 /\ (turn # "P" => ~reset)
             /\ \A f \in FBs : Still(f)

SequencerIInv ==
    SequencerTypes /\ WholeStacks /\ BusyShown /\ PulsesHeard /\ ResetDone /\ QuietKept

---------------------------------------------------------------------------
(* Working variables.                                                        *)

Shape(w) ==
    w \in [f : {w.f}, prog : {prog}, out : {w.out}, alarm : {w.alarm}, ctl : 0 .. 2,
           check : BOOLEAN, pack : {w.pack}, cycles : {w.cycles}, left : BOOLEAN,
           called : {w.called}]

WorkOK(f, w) ==
    /\ Shape(w)
    /\ BlockOK(prog, f, w.f) /\ AlarmOK(w.alarm) /\ CalledOK(prog, w.called)
    /\ PackOK(w.pack, w.cycles)

\* u has come from w without a change of the programs on the stack.
Like(f, w, u) ==
    /\ WorkOK(f, u)
    /\ u.called = w.called /\ u.pack = w.pack /\ u.cycles = w.cycles
    /\ u.ctl \in {w.ctl, 0} /\ (w.left => u.left)
    /\ Len(u.f.ctx) = Len(w.f.ctx)
    /\ \A i \in 1 .. Len(w.f.ctx) - 1 : u.f.ctx[i] = w.f.ctx[i]
    /\ Top(u.f).slot = Top(w.f).slot

LEMMA LikeSelf == ASSUME NEW f, NEW w, WorkOK(f, w) PROVE Like(f, w, w)
  BY DEF Like, WorkOK, Shape

LEMMA TimerLike ==
    ASSUME NEW f, NEW w, NEW u, Like(f, w, u), NEW on \in BOOLEAN
    PROVE  /\ Like(f, w, Timer(u, on))
           /\ Timer(u, on).f.ctx = u.f.ctx /\ Timer(u, on).left = u.left
  <1> DEFINE i == u.f
             j == [i EXCEPT !.start = on]
             v == [u EXCEPT !.f = j]
  <1>1. Timer(u, on) = v
    BY DEF Timer
  <1>2. /\ i \in [ctx : {i.ctx}, tmr : {"off", "on", "done"}, start : BOOLEAN, seen : BOOLEAN,
                  prev : BOOLEAN, busy : BOOLEAN, delay : {i.delay}]
        /\ Shape(u)
    BY DEF Like, WorkOK, BlockOK
  <1>3. /\ j.ctx = i.ctx /\ j.delay = i.delay
        /\ j \in [ctx : {j.ctx}, tmr : {"off", "on", "done"}, start : BOOLEAN, seen : BOOLEAN,
                  prev : BOOLEAN, busy : BOOLEAN, delay : {j.delay}]
    <2> HIDE DEF i
    <2> QED BY <1>2
  <1>4. /\ Shape(v) /\ v.f = j /\ v.alarm = u.alarm /\ v.called = u.called /\ v.pack = u.pack
        /\ v.cycles = u.cycles /\ v.ctl = u.ctl /\ v.left = u.left
    <2> HIDE DEF j
    <2> QED BY <1>2 DEF Shape
  <1> HIDE DEF v, j
  <1>5. WorkOK(f, v)
    BY <1>3, <1>4 DEF Like, WorkOK, BlockOK
  <1>6. Like(f, w, v)
    BY <1>3, <1>4, <1>5 DEF Like, Top
  <1> QED BY <1>1, <1>3, <1>4, <1>6

LEMMA LeftLike ==
    ASSUME NEW f, NEW w, NEW u, Like(f, w, u)
    PROVE  /\ Like(f, w, [u EXCEPT !.left = TRUE])
           /\ [u EXCEPT !.left = TRUE].left /\ [u EXCEPT !.left = TRUE].f = u.f
  <1> DEFINE v == [u EXCEPT !.left = TRUE]
  <1>1. /\ Shape(v) /\ v.f = u.f /\ v.alarm = u.alarm /\ v.called = u.called
        /\ v.pack = u.pack /\ v.cycles = u.cycles /\ v.ctl = u.ctl /\ v.left
    BY DEF Like, WorkOK, Shape
  <1> HIDE DEF v
  <1>2. Like(f, w, v)
    BY <1>1, Zenon DEF Like, WorkOK
  <1> QED BY <1>1, <1>2 DEF v

\* The alarm changes as a whole.
LEMMA AlarmLike ==
    ASSUME NEW f, NEW w, NEW u, Like(f, w, u), NEW a, AlarmOK(a)
    PROVE  /\ Like(f, w, [u EXCEPT !.alarm = a])
           /\ [u EXCEPT !.alarm = a].f = u.f /\ [u EXCEPT !.alarm = a].left = u.left
  <1> DEFINE v == [u EXCEPT !.alarm = a]
  <1>1. /\ Shape(v) /\ v.f = u.f /\ v.alarm = a /\ v.called = u.called
        /\ v.pack = u.pack /\ v.cycles = u.cycles /\ v.ctl = u.ctl /\ v.left = u.left
    BY DEF Like, WorkOK, Shape
  <1> HIDE DEF v
  <1>2. Like(f, w, v)
    BY <1>1, Zenon DEF Like, WorkOK
  <1> QED BY <1>1, <1>2 DEF v

\* The context on top of the stack.
AtTop(s, c) == [s EXCEPT ![Len(s)] = c]

LEMMA AtTopIs ==
    ASSUME NEW p, NEW f, NEW s, StackOK(p, f, s), NEW c \in Contexts(p), Fits(p, c)
    PROVE  /\ StackOK(p, f, AtTop(s, c)) /\ Len(AtTop(s, c)) = Len(s)
           /\ AtTop(s, c)[Len(s)] = c
           /\ \A i \in 1 .. Len(s) - 1 : AtTop(s, c)[i] = s[i]
  <1>1. s \in Seq(Contexts(p)) /\ Len(s) \in Nat /\ Len(s) >= 1 /\ Len(s) <= Depth
    BY SequencerAssumption DEF StackOK
  <1>2. /\ AtTop(s, c) \in Seq(Contexts(p)) /\ Len(AtTop(s, c)) = Len(s)
        /\ \A i \in 1 .. Len(s) : AtTop(s, c)[i] = IF i = Len(s) THEN c ELSE s[i]
    BY <1>1 DEF AtTop
  <1>3. \A i \in 1 .. Len(s) : Fits(p, AtTop(s, c)[i])
    BY <1>2 DEF StackOK
  <1> QED BY <1>1, <1>2, <1>3 DEF StackOK

\* The stack changes as a whole; the rest of an instance stays.
LEMMA StackLike ==
    ASSUME NEW f, NEW w, NEW u, Like(f, w, u), NEW c \in Contexts(prog), Fits(prog, c),
           c.slot = Top(u.f).slot
    PROVE  /\ Like(f, w, [u EXCEPT !.f.ctx = AtTop(@, c)])
           /\ Top([u EXCEPT !.f.ctx = AtTop(@, c)].f) = c
           /\ [u EXCEPT !.f.ctx = AtTop(@, c)].f.ctx = AtTop(u.f.ctx, c)
           /\ [u EXCEPT !.f.ctx = AtTop(@, c)].left = u.left
  <1> DEFINE i == u.f
             s == AtTop(i.ctx, c)
             j == [i EXCEPT !.ctx = s]
             v == [u EXCEPT !.f = j]
  <1>1. [u EXCEPT !.f.ctx = AtTop(@, c)] = v
    OBVIOUS
  <1>2. /\ i \in [ctx : {i.ctx}, tmr : {"off", "on", "done"}, start : BOOLEAN, seen : BOOLEAN,
                  prev : BOOLEAN, busy : BOOLEAN, delay : {i.delay}]
        /\ Shape(u) /\ StackOK(prog, f, i.ctx)
    BY DEF Like, WorkOK, BlockOK
  <1>3. /\ j.ctx = s /\ j.delay = i.delay
        /\ j \in [ctx : {j.ctx}, tmr : {"off", "on", "done"}, start : BOOLEAN, seen : BOOLEAN,
                  prev : BOOLEAN, busy : BOOLEAN, delay : {j.delay}]
    <2> HIDE DEF i, s
    <2> QED BY <1>2
  <1>4. /\ Shape(v) /\ v.f = j /\ v.alarm = u.alarm /\ v.called = u.called /\ v.pack = u.pack
        /\ v.cycles = u.cycles /\ v.ctl = u.ctl /\ v.left = u.left
    <2> HIDE DEF j
    <2> QED BY <1>2 DEF Shape
  <1>5. /\ StackOK(prog, f, s) /\ Len(s) = Len(i.ctx) /\ s[Len(s)] = c
        /\ \A n \in 1 .. Len(i.ctx) - 1 : s[n] = i.ctx[n]
    <2> DEFINE x == i.ctx
    <2>1. StackOK(prog, f, x)
      BY <1>2
    <2> HIDE DEF x
    <2>2. /\ StackOK(prog, f, AtTop(x, c)) /\ Len(AtTop(x, c)) = Len(x)
          /\ AtTop(x, c)[Len(x)] = c
          /\ \A n \in 1 .. Len(x) - 1 : AtTop(x, c)[n] = x[n]
      BY <2>1, AtTopIs
    <2> QED BY <2>2 DEF x
  <1> HIDE DEF v, j, s
  <1>6. WorkOK(f, v)
    BY <1>3, <1>4, <1>5 DEF Like, WorkOK, BlockOK
  <1>7. Top(v.f) = c
    BY <1>3, <1>4, <1>5 DEF Top
  <1>8. /\ Len(v.f.ctx) = Len(w.f.ctx)
        /\ \A n \in 1 .. Len(w.f.ctx) - 1 : v.f.ctx[n] = w.f.ctx[n]
    BY <1>3, <1>4, <1>5 DEF Like
  <1>9. Like(f, w, v)
    BY <1>4, <1>6, <1>7, <1>8 DEF Like
  <1>10. v.f.ctx = AtTop(u.f.ctx, c) /\ v.left = u.left
    BY <1>3, <1>4 DEF s
  <1> QED BY <1>1, <1>7, <1>9, <1>10, Zenon

LEMMA TopIs ==
    ASSUME NEW f, NEW w, WorkOK(f, w)
    PROVE  /\ w.prog = prog /\ w.f.ctx \in Seq(Contexts(prog))
           /\ Len(w.f.ctx) \in 1 .. Depth /\ Depth \in Nat
           /\ Top(w.f) \in Contexts(prog) /\ Fits(prog, Top(w.f))
           /\ StepOf(w) = StepAt(prog, Top(w.f))
  <1>1. /\ w.prog = prog /\ w.f.ctx \in Seq(Contexts(prog)) /\ Len(w.f.ctx) \in 1 .. Depth
        /\ \A i \in 1 .. Len(w.f.ctx) : Fits(prog, w.f.ctx[i])
    BY DEF WorkOK, Shape, BlockOK, StackOK
  <1>2. Depth \in Nat /\ Len(w.f.ctx) \in 1 .. Len(w.f.ctx)
    BY <1>1, SequencerAssumption
  <1>3. w.f.ctx[Len(w.f.ctx)] \in Contexts(prog)
    BY <1>1, <1>2
  <1>4. StepOf(w) = StepAt(prog, Top(w.f))
    BY <1>1, Zenon DEF StepOf, StepAt, Top
  <1> QED BY <1>1, <1>2, <1>3, <1>4 DEF Top

\* The state changes.
LEMMA GotoLike ==
    ASSUME NEW f, NEW w, NEW u, Like(f, w, u), NEW st \in States,
           st \in {60, 61} => StepOf(u).cmd = "INP", st = 80 => StepOf(u).cmd = "CALL"
    PROVE  /\ Like(f, w, Goto(u, st))
           /\ Top(Goto(u, st).f) = [slot |-> Top(u.f).slot, step |-> Top(u.f).step, st |-> st]
           /\ Goto(u, st).left = u.left
  <1> DEFINE top == Top(u.f)
             c == [slot |-> top.slot, step |-> top.step, st |-> st]
             d == [top EXCEPT !.st = st]
  <1>1. top \in Contexts(prog) /\ StepOf(u) = StepAt(prog, top)
    BY TopIs DEF Like
  <1>2. c = d /\ c \in Contexts(prog) /\ c.slot = top.slot
    <2> HIDE DEF top
    <2> QED BY <1>1 DEF Contexts
  <1>3. StepAt(prog, c) = StepAt(prog, top)
    BY DEF StepAt
  <1>4. Fits(prog, c)
    BY <1>1, <1>3 DEF Fits
  <1>5. Goto(u, st) = [u EXCEPT !.f.ctx = AtTop(@, d)]
    BY DEF Goto, AtTop, Top
  <1> HIDE DEF c, d
  <1>6. /\ Like(f, w, [u EXCEPT !.f.ctx = AtTop(@, c)])
        /\ Top([u EXCEPT !.f.ctx = AtTop(@, c)].f) = c
        /\ [u EXCEPT !.f.ctx = AtTop(@, c)].left = u.left
    BY <1>2, <1>4, StackLike
  <1> QED BY <1>2, <1>5, <1>6 DEF c

\* The step changes: in the states in which it may.
AtStep(u, n) == [u EXCEPT !.f.ctx[Len(u.f.ctx)].step = n]

LEMMA StepLike ==
    ASSUME NEW f, NEW w, NEW u, Like(f, w, u), NEW n \in Steps, St(u) \notin {60, 61, 80}
    PROVE  /\ Like(f, w, AtStep(u, n))
           /\ Top(AtStep(u, n).f) = [slot |-> Top(u.f).slot, step |-> n, st |-> Top(u.f).st]
  <1> DEFINE top == Top(u.f)
             c == [slot |-> top.slot, step |-> n, st |-> top.st]
             d == [top EXCEPT !.step = n]
  <1>1. top \in Contexts(prog)
    BY TopIs DEF Like
  <1>2. c = d /\ c \in Contexts(prog) /\ c.slot = top.slot
    <2> HIDE DEF top
    <2> QED BY <1>1 DEF Contexts
  <1>4. Fits(prog, c)
    BY DEF Fits, St
  <1>5. AtStep(u, n) = [u EXCEPT !.f.ctx = AtTop(@, d)]
    BY DEF AtStep, AtTop, Top
  <1> HIDE DEF c, d
  <1>6. /\ Like(f, w, [u EXCEPT !.f.ctx = AtTop(@, c)])
        /\ Top([u EXCEPT !.f.ctx = AtTop(@, c)].f) = c
        /\ [u EXCEPT !.f.ctx = AtTop(@, c)].left = u.left
    BY <1>2, <1>4, StackLike
  <1> QED BY <1>2, <1>5, <1>6 DEF c

\* What a call of a block starts from, and what it comes to.
Entered(f, w) ==
    /\ WorkOK(f, w) /\ prog \in Programs
    /\ f \in torn \/ w.left \/ Whole(prog, w.f.ctx)
    /\ f = "M" => \A x \in Workers : ~w.called[x].start

Acted(f, w, u) ==
    /\ WorkOK(f, u)
    /\ f \in torn \/ u.left \/ Whole(prog, u.f.ctx)
    /\ u.ctl \in {w.ctl, 0}
    /\ f # "M" => u.called = w.called
    /\ f = "M" => \A x \in Workers : u.called[x].start => ~fb[x].busy

Saved(f, w) == \E u : Acted(f, w, u) /\ Save(f, u)

LEMMA LikeActed ==
    ASSUME NEW f, NEW w, Entered(f, w), NEW u, Like(f, w, u),
           u.left \/ Top(u.f).st # 0 \/ u.f.ctx = w.f.ctx
    PROVE  Acted(f, w, u)
  <1>1. CASE Whole(prog, w.f.ctx) /\ Top(u.f).st # 0
    <2>1. Len(w.f.ctx) \in Nat /\ Len(w.f.ctx) >= 1
      BY TopIs DEF Entered
    <2>2. ASSUME NEW i \in 1 .. Len(u.f.ctx) - 1
          PROVE  Awaits(prog, u.f.ctx[i], u.f.ctx[i + 1])
      <3>1. Awaits(prog, w.f.ctx[i], w.f.ctx[i + 1]) /\ u.f.ctx[i] = w.f.ctx[i]
        BY <1>1 DEF Whole, Like
      <3>2. u.f.ctx[i + 1].slot = w.f.ctx[i + 1].slot
        <4>1. CASE i + 1 = Len(u.f.ctx)
          BY <4>1 DEF Like, Top
        <4>2. CASE i + 1 # Len(u.f.ctx)
          BY <2>1, <4>2 DEF Like
        <4> QED BY <4>1, <4>2
      <3> QED BY <3>1, <3>2 DEF Awaits
    <2> QED BY <1>1, <2>2 DEF Whole, Top, Acted, Entered, Like
  <1>2. CASE Whole(prog, w.f.ctx) /\ u.f.ctx = w.f.ctx
    BY <1>2 DEF Acted, Entered, Like
  <1>3. CASE f \in torn \/ u.left
    BY <1>3 DEF Acted, Entered, Like
  <1> QED BY <1>1, <1>2, <1>3 DEF Entered, Like

---------------------------------------------------------------------------
(* The other working variables.                                              *)

LEMMA SeenLike ==
    ASSUME NEW f, NEW w, NEW u, Like(f, w, u), NEW seen \in BOOLEAN
    PROVE  /\ Like(f, w, [u EXCEPT !.f.seen = seen])
           /\ [u EXCEPT !.f.seen = seen].f.ctx = u.f.ctx
           /\ [u EXCEPT !.f.seen = seen].f.seen = seen
           /\ [u EXCEPT !.f.seen = seen].left = u.left
  <1> DEFINE i == u.f
             j == [i EXCEPT !.seen = seen]
             v == [u EXCEPT !.f = j]
  <1>1. [u EXCEPT !.f.seen = seen] = v
    OBVIOUS
  <1>2. /\ i \in [ctx : {i.ctx}, tmr : {"off", "on", "done"}, start : BOOLEAN, seen : BOOLEAN,
                  prev : BOOLEAN, busy : BOOLEAN, delay : {i.delay}]
        /\ Shape(u)
    BY DEF Like, WorkOK, BlockOK
  <1>3. /\ j.ctx = i.ctx /\ j.delay = i.delay /\ j.seen = seen
        /\ j \in [ctx : {j.ctx}, tmr : {"off", "on", "done"}, start : BOOLEAN, seen : BOOLEAN,
                  prev : BOOLEAN, busy : BOOLEAN, delay : {j.delay}]
    <2> HIDE DEF i
    <2> QED BY <1>2
  <1>4. /\ Shape(v) /\ v.f = j /\ v.alarm = u.alarm /\ v.called = u.called /\ v.pack = u.pack
        /\ v.cycles = u.cycles /\ v.ctl = u.ctl /\ v.left = u.left
    <2> HIDE DEF j
    <2> QED BY <1>2 DEF Shape
  <1> HIDE DEF v, j
  <1>5. WorkOK(f, v)
    BY <1>3, <1>4 DEF Like, WorkOK, BlockOK
  <1>6. Like(f, w, v)
    BY <1>3, <1>4, <1>5 DEF Like, Top
  <1> QED BY <1>1, <1>3, <1>4, <1>6

LEMMA DelayLike ==
    ASSUME NEW f, NEW w, NEW u, Like(f, w, u), NEW d, DelaysOK(d)
    PROVE  /\ Like(f, w, [u EXCEPT !.f.delay = d])
           /\ [u EXCEPT !.f.delay = d].f.ctx = u.f.ctx
           /\ [u EXCEPT !.f.delay = d].f.delay = d
           /\ [u EXCEPT !.f.delay = d].left = u.left
  <1> DEFINE i == u.f
             j == [i EXCEPT !.delay = d]
             v == [u EXCEPT !.f = j]
  <1>1. [u EXCEPT !.f.delay = d] = v
    OBVIOUS
  <1>2. /\ i \in [ctx : {i.ctx}, tmr : {"off", "on", "done"}, start : BOOLEAN, seen : BOOLEAN,
                  prev : BOOLEAN, busy : BOOLEAN, delay : {i.delay}]
        /\ Shape(u)
    BY DEF Like, WorkOK, BlockOK
  <1>3. /\ j.ctx = i.ctx /\ j.delay = d
        /\ j \in [ctx : {j.ctx}, tmr : {"off", "on", "done"}, start : BOOLEAN, seen : BOOLEAN,
                  prev : BOOLEAN, busy : BOOLEAN, delay : {j.delay}]
    <2> HIDE DEF i
    <2> QED BY <1>2
  <1>4. /\ Shape(v) /\ v.f = j /\ v.alarm = u.alarm /\ v.called = u.called /\ v.pack = u.pack
        /\ v.cycles = u.cycles /\ v.ctl = u.ctl /\ v.left = u.left
    <2> HIDE DEF j
    <2> QED BY <1>2 DEF Shape
  <1> HIDE DEF v, j
  <1>5. WorkOK(f, v)
    BY <1>3, <1>4 DEF Like, WorkOK, BlockOK
  <1>6. Like(f, w, v)
    BY <1>3, <1>4, <1>5 DEF Like, Top
  <1> QED BY <1>1, <1>3, <1>4, <1>6

LEMMA OutLike ==
    ASSUME NEW f, NEW w, NEW u, Like(f, w, u), NEW o
    PROVE  /\ Like(f, w, [u EXCEPT !.out = o])
           /\ [u EXCEPT !.out = o].f = u.f /\ [u EXCEPT !.out = o].left = u.left
  <1> DEFINE v == [u EXCEPT !.out = o]
  <1>1. /\ Shape(v) /\ v.f = u.f /\ v.alarm = u.alarm /\ v.called = u.called
        /\ v.pack = u.pack /\ v.cycles = u.cycles /\ v.ctl = u.ctl /\ v.left = u.left
    BY DEF Like, WorkOK, Shape
  <1> HIDE DEF v
  <1>2. Like(f, w, v)
    BY <1>1, Zenon DEF Like, WorkOK
  <1> QED BY <1>1, <1>2 DEF v

\* The command of the operator is taken back, or the check run waits for the next START.
LEMMA CommandLike ==
    ASSUME NEW f, NEW w, NEW u, Like(f, w, u)
    PROVE  /\ Like(f, w, [u EXCEPT !.ctl = 0]) /\ Like(f, w, [u EXCEPT !.check = FALSE])
           /\ [u EXCEPT !.ctl = 0].f = u.f /\ [u EXCEPT !.ctl = 0].left = u.left
           /\ [u EXCEPT !.check = FALSE].f = u.f /\ [u EXCEPT !.check = FALSE].left = u.left
  <1> DEFINE v == [u EXCEPT !.ctl = 0]
             x == [u EXCEPT !.check = FALSE]
  <1>1. /\ Shape(v) /\ v.f = u.f /\ v.alarm = u.alarm /\ v.called = u.called
        /\ v.pack = u.pack /\ v.cycles = u.cycles /\ v.ctl = 0 /\ v.left = u.left
    BY DEF Like, WorkOK, Shape
  <1>2. /\ Shape(x) /\ x.f = u.f /\ x.alarm = u.alarm /\ x.called = u.called
        /\ x.pack = u.pack /\ x.cycles = u.cycles /\ x.ctl = u.ctl /\ x.left = u.left
    BY DEF Like, WorkOK, Shape
  <1> HIDE DEF v, x
  <1>3. Like(f, w, v)
    BY <1>1, Zenon DEF Like, WorkOK
  <1>4. Like(f, w, x)
    BY <1>2, Zenon DEF Like, WorkOK
  <1> QED BY <1>1, <1>2, <1>3, <1>4 DEF v, x

\* Delayed outputs that are set and cleared.
LEMMA DelaysGiven ==
    ASSUME NEW d, DelaysOK(d)
    PROVE  /\ DelaysOK(NoDelay(d))
           /\ \A k \in 1 .. Delays : ~NoDelay(d)[k].pend
           /\ \A k \in 1 .. Delays : \A b, on :
                DelaysOK([d EXCEPT ![k] = [@ EXCEPT !.start = TRUE, !.pend = TRUE,
                                                    !.bit = b, !.on = on]])
  <1>1. ASSUME NEW e, e \in [t : {"off", "on", "done"}, start : BOOLEAN, pend : BOOLEAN,
                             bit : {e.bit}, on : {e.on}]
        PROVE  LET g == [e EXCEPT !.start = FALSE, !.pend = FALSE] IN
               ~g.pend /\ g \in [t : {"off", "on", "done"}, start : BOOLEAN, pend : BOOLEAN,
                                 bit : {g.bit}, on : {g.on}]
    BY <1>1
  <1>2. ASSUME NEW e, e \in [t : {"off", "on", "done"}, start : BOOLEAN, pend : BOOLEAN,
                             bit : {e.bit}, on : {e.on}], NEW b, NEW on
        PROVE  LET g == [e EXCEPT !.start = TRUE, !.pend = TRUE, !.bit = b, !.on = on] IN
               g \in [t : {"off", "on", "done"}, start : BOOLEAN, pend : BOOLEAN,
                      bit : {g.bit}, on : {g.on}]
    BY <1>2
  <1>3. DOMAIN d = 1 .. Delays
    BY DEF DelaysOK
  <1>4. ASSUME NEW k \in 1 .. Delays
        PROVE  LET g == NoDelay(d)[k] IN
               ~g.pend /\ g \in [t : {"off", "on", "done"}, start : BOOLEAN, pend : BOOLEAN,
                                 bit : {g.bit}, on : {g.on}]
    <2> DEFINE e == d[k]
               g == [e EXCEPT !.start = FALSE, !.pend = FALSE]
    <2>1. NoDelay(d)[k] = g
      BY <1>3 DEF NoDelay
    <2>2. e \in [t : {"off", "on", "done"}, start : BOOLEAN, pend : BOOLEAN,
                 bit : {e.bit}, on : {e.on}]
      BY DEF DelaysOK, Delay5
    <2> HIDE DEF e
    <2>3. ~g.pend /\ g \in [t : {"off", "on", "done"}, start : BOOLEAN, pend : BOOLEAN,
                            bit : {g.bit}, on : {g.on}]
      BY <1>1, <2>2
    <2> HIDE DEF g
    <2> QED BY <2>1, <2>3
  <1>5. DOMAIN NoDelay(d) = 1 .. Delays
    BY <1>3 DEF NoDelay
  <1>6. ASSUME NEW k \in 1 .. Delays, NEW b, NEW on
        PROVE  DelaysOK([d EXCEPT ![k] = [@ EXCEPT !.start = TRUE, !.pend = TRUE,
                                                   !.bit = b, !.on = on]])
    <2> DEFINE e == d[k]
               g == [e EXCEPT !.start = TRUE, !.pend = TRUE, !.bit = b, !.on = on]
               h == [d EXCEPT ![k] = g]
    <2>1. e \in [t : {"off", "on", "done"}, start : BOOLEAN, pend : BOOLEAN,
                 bit : {e.bit}, on : {e.on}]
      BY DEF DelaysOK, Delay5
    <2>2. g \in [t : {"off", "on", "done"}, start : BOOLEAN, pend : BOOLEAN,
                 bit : {g.bit}, on : {g.on}]
      <3> HIDE DEF e
      <3> QED BY <1>2, <2>1
    <2> HIDE DEF g
    <2>3. DOMAIN h = 1 .. Delays /\ \A n \in 1 .. Delays : h[n] = IF n = k THEN g ELSE d[n]
      BY <1>3
    <2> HIDE DEF h
    <2>4. DelaysOK(h)
      BY <2>2, <2>3 DEF DelaysOK, Delay5
    <2> QED BY <2>4 DEF h, g
  <1>7. DelaysOK(NoDelay(d))
    BY <1>4, <1>5, Zenon DEF DelaysOK, Delay5
  <1> QED BY <1>4, <1>6, <1>7, Zenon

---------------------------------------------------------------------------
(* The states of the CASE.                                                   *)

LEMMA SmallestExists ==
    ASSUME NEW s, s \subseteq Nat, s # {}
    PROVE  \E n \in s : \A j \in s : n <= j
  <1> DEFINE Less == {ss \in Nat \X Nat : ss[1] < ss[2]}
  <1>1. IsWellFoundedOn(Less, Nat)
    BY NatLessThanWellFounded, Zenon DEF OpToRel
  <1> HIDE DEF Less
  <1>2. PICK n \in s : \A j \in s : ~ (<<j, n>> \in Less)
    BY <1>1, WFMin
  <1>3. \A j \in s : <<j, n>> \in Less <=> j < n
    BY DEF Less
  <1>4. \A j \in s : n \in Nat /\ j \in Nat /\ ~(j < n)
    BY <1>2, <1>3
  <1>5. \A j \in s : n <= j
    BY <1>4
  <1> QED BY <1>5

\* What a step of the recipe is known to be.
LEMMA InputStep ==
    ASSUME NEW c \in Contexts(prog), prog \in Programs, StepAt(prog, c).cmd = "INP"
    PROVE  StepAt(prog, c).then \in {"wait", "stop", "go"}
  <1>1. c.step < Len(prog[c.slot])
    BY DEF StepAt, Empty
  <1>2. c.slot \in DOMAIN prog /\ c.step \in Steps
    BY DEF Contexts
  <1> DEFINE p == prog[c.slot]
  <1>3. Len(p) \in 0 .. SlotSteps /\ \A n \in 1 .. Len(p) : Sendable(p[n])
    BY <1>2, SequencerAssumption
  <1>5. c.step < Len(p)
    BY <1>1
  <1> HIDE DEF p
  <1>4. Sendable(p[c.step + 1])
    <2> DEFINE i == c.step
               l == Len(p)
    <2>1. i \in Nat /\ l \in Nat /\ i < l
      BY <1>2, <1>3, <1>5, StepsAre
    <2> HIDE DEF i, l
    <2>2. i + 1 \in 1 .. l
      BY <2>1
    <2> USE DEF i, l
    <2>3. c.step + 1 \in 1 .. Len(p)
      BY <2>2, Zenon
    <2> QED BY <1>3, <2>3, Zenon
  <1> QED BY <1>1, <1>4 DEF StepAt, Sendable, p

LEMMA GotoPlain ==
    ASSUME NEW f, NEW w, NEW u, Like(f, w, u), NEW st \in States \ {60, 61, 80}
    PROVE  /\ Like(f, w, Goto(u, st))
           /\ Top(Goto(u, st).f) = [slot |-> Top(u.f).slot, step |-> Top(u.f).step, st |-> st]
           /\ Goto(u, st).left = u.left
  BY GotoLike

LEMMA GoesOn ==
    ASSUME NEW f, NEW w, Entered(f, w), NEW u, Like(f, w, u), NEW st \in States \ {0, 60, 61, 80}
    PROVE  Acted(f, w, Goto(u, st))
  <1>1. /\ Like(f, w, Goto(u, st))
        /\ Top(Goto(u, st).f) = [slot |-> Top(u.f).slot, step |-> Top(u.f).step, st |-> st]
    BY GotoPlain
  <1>2. Top(Goto(u, st).f).st # 0
    BY <1>1
  <1> QED BY <1>1, <1>2, LikeActed

LEMMA Fails ==
    ASSUME NEW f, NEW w, Entered(f, w), NEW u, Like(f, w, u), NEW id \in AlarmIds
    PROVE  Acted(f, w, Fail(u, id))
  <1> DEFINE a == u.alarm
             b == [a EXCEPT !.id = id]
             v == [u EXCEPT !.alarm = b]
  <1>1. AlarmOK(a)
    BY DEF Like, WorkOK
  <1>2. AlarmOK(b)
    <2> HIDE DEF a
    <2> QED BY <1>1 DEF AlarmOK
  <1>3. Like(f, w, v)
    <2> HIDE DEF b
    <2> QED BY <1>2, AlarmLike
  <1>4. Fail(u, id) = Goto(v, 900)
    BY DEF Fail
  <1> HIDE DEF v
  <1>5. 900 \in States \ {0, 60, 61, 80}
    BY DEF States
  <1> QED BY <1>3, <1>4, <1>5, GoesOn

LEMMA StaysPut ==
    ASSUME NEW f, NEW w, Entered(f, w), NEW u, Like(f, w, u), u.f.ctx = w.f.ctx
    PROVE  Acted(f, w, u)
  BY LikeActed

LEMMA EnteredLike == ASSUME NEW f, NEW w, Entered(f, w) PROVE Like(f, w, w)
  BY LikeSelf DEF Entered

LEMMA CheckWaitSaved ==
    ASSUME NEW f, NEW w, Entered(f, w), CheckWait(f, w) PROVE Saved(f, w)
  <1>1. Acted(f, w, Goto(w, 10)) /\ Acted(f, w, w)
    BY EnteredLike, GoesOn, StaysPut DEF States
  <1> QED BY <1>1 DEF CheckWait, Saved

LEMMA MovesSaved ==
    ASSUME NEW f, NEW w, Entered(f, w), MoveSettles(f, w) \/ MoveStarts(f, w) \/ MoveDone(f, w)
    PROVE  Saved(f, w)
  <1> DEFINE t == Timer(w, FALSE)
             s == [t EXCEPT !.f.seen = FALSE]
  <1>1. Like(f, w, w) /\ Like(f, w, t)
    BY EnteredLike, TimerLike
  <1>2. Like(f, w, s)
    <2> HIDE DEF t
    <2> QED BY <1>1, SeenLike
  <1>3. Acted(f, w, Goto(t, 20)) /\ Acted(f, w, Goto(s, 21)) /\ Acted(f, w, Goto(w, 99))
        /\ Acted(f, w, w)
    <2> HIDE DEF t, s
    <2> QED BY <1>1, <1>2, GoesOn, StaysPut DEF States
  <1>4. CASE MoveSettles(f, w)
    BY <1>3, <1>4 DEF MoveSettles, Saved
  <1>5. CASE MoveStarts(f, w)
    BY <1>3, <1>5 DEF MoveStarts, Saved
  <1>6. CASE MoveDone(f, w)
    BY <1>3, <1>6 DEF MoveDone, Saved
  <1> QED BY <1>4, <1>5, <1>6

LEMMA MoveSeenSaved ==
    ASSUME NEW f, NEW w, Entered(f, w), MoveSeen(f, w) PROVE Saved(f, w)
  <1>1. PICK busy, inPlace \in BOOLEAN :
          LET u == [w EXCEPT !.f.seen = (@ \/ busy)] IN
          Save(f, IF u.f.seen
                  THEN Goto(Timer(u, FALSE), IF StepOf(w).goesOn THEN 99 ELSE 30)
                  ELSE IF ~Done(w) THEN Timer(u, TRUE)
                  ELSE IF inPlace THEN Goto(Timer(u, FALSE), 99)
                  ELSE Fail(Timer(u, FALSE), 21))
    BY DEF MoveSeen
  <1> DEFINE u == [w EXCEPT !.f.seen = (w.f.seen \/ busy)]
             t == Timer(u, FALSE)
             g == IF StepOf(w).goesOn THEN 99 ELSE 30
  <1>2. w.f.seen \in BOOLEAN
    BY DEF Entered, WorkOK, BlockOK
  <1>3. Like(f, w, u) /\ u.f.ctx = w.f.ctx
    <2> DEFINE b == w.f.seen \/ busy
    <2>1. b \in BOOLEAN
      BY <1>2
    <2> HIDE DEF b
    <2>2. /\ Like(f, w, [w EXCEPT !.f.seen = b])
          /\ [w EXCEPT !.f.seen = b].f.ctx = w.f.ctx
      BY <2>1, EnteredLike, SeenLike
    <2> QED BY <2>2 DEF b
  <1>4. Save(f, IF u.f.seen THEN Goto(t, g)
                ELSE IF ~Done(w) THEN Timer(u, TRUE)
                ELSE IF inPlace THEN Goto(t, 99) ELSE Fail(t, 21))
    BY <1>1
  <1> HIDE DEF u
  <1>5. /\ Like(f, w, t) /\ Like(f, w, Timer(u, TRUE)) /\ Timer(u, TRUE).f.ctx = w.f.ctx
    <2>1. /\ Like(f, w, Timer(u, FALSE)) /\ Like(f, w, Timer(u, TRUE))
          /\ Timer(u, TRUE).f.ctx = u.f.ctx
      BY <1>3, TimerLike
    <2> QED BY <1>3, <2>1
  <1>6. g \in {99, 30}
    OBVIOUS
  <1> HIDE DEF t, g
  <1>7. /\ Acted(f, w, Goto(t, g)) /\ Acted(f, w, Timer(u, TRUE)) /\ Acted(f, w, Goto(t, 99))
        /\ Acted(f, w, Fail(t, 21))
    <2>1. g \in States \ {0, 60, 61, 80} /\ 99 \in States \ {0, 60, 61, 80}
      BY <1>6 DEF States
    <2>2. Acted(f, w, Goto(t, g)) /\ Acted(f, w, Goto(t, 99))
      BY <1>5, <2>1, GoesOn
    <2>3. Acted(f, w, Fail(t, 21))
      BY <1>5, Fails DEF AlarmIds
    <2>4. Acted(f, w, Timer(u, TRUE))
      BY <1>5, StaysPut
    <2> QED BY <2>2, <2>3, <2>4
  <1> QED BY <1>4, <1>7 DEF Saved

LEMMA WaitInputSaved ==
    ASSUME NEW f, NEW w, Entered(f, w), WaitInput(f, w) PROVE Saved(f, w)
  <1> DEFINE t == Timer(w, TRUE)
  <1>1. Like(f, w, t) /\ t.f.ctx = w.f.ctx
    BY EnteredLike, TimerLike
  <1>2. St(w) = 60 /\ Save(f, Goto(t, 61))
    BY DEF WaitInput
  <1> HIDE DEF t
  <1>3. StepOf(t).cmd = "INP"
    <2>1. Top(t.f) = Top(w.f)
      BY <1>1, Zenon DEF Top
    <2>2. StepOf(t) = StepAt(prog, Top(t.f)) /\ Fits(prog, Top(t.f))
      BY <1>1, TopIs, Zenon DEF Like
    <2>3. Top(t.f).st = 60
      BY <1>2, <2>1, Zenon DEF St
    <2> QED BY <2>2, <2>3 DEF Fits
  <1>4. Like(f, w, Goto(t, 61)) /\ Top(Goto(t, 61).f).st = 61
    <2>1. 61 \in States
      BY DEF States
    <2>2. /\ Like(f, w, Goto(t, 61))
          /\ Top(Goto(t, 61).f) = [slot |-> Top(t.f).slot, step |-> Top(t.f).step, st |-> 61]
      BY <1>1, <1>3, <2>1, GotoLike
    <2> QED BY <2>2
  <1>5. Acted(f, w, Goto(t, 61))
    BY <1>4, LikeActed
  <1> QED BY <1>2, <1>5 DEF Saved

LEMMA DelaySaved ==
    ASSUME NEW f, NEW w, Entered(f, w), Delay(f, w) \/ Hold(f, w) PROVE Saved(f, w)
  <1> DEFINE t == Timer(w, FALSE)
  <1>1. Like(f, w, t)
    BY EnteredLike, TimerLike
  <1>2. Acted(f, w, Goto(t, 51)) /\ Acted(f, w, Goto(t, 99))
    <2> HIDE DEF t
    <2> QED BY <1>1, GoesOn DEF States
  <1>3. \A on \in BOOLEAN : Acted(f, w, Timer(w, on))
    BY EnteredLike, TimerLike, StaysPut
  <1>4. CASE Delay(f, w)
    BY <1>2, <1>3, <1>4 DEF Delay, Saved
  <1>5. CASE Hold(f, w)
    BY <1>2, <1>3, <1>5 DEF Hold, Saved
  <1> QED BY <1>4, <1>5

LEMMA DataSaved == ASSUME NEW f, NEW w, Entered(f, w), Data(f, w) PROVE Saved(f, w)
  <1>1. Acted(f, w, Fail(w, 24)) /\ Acted(f, w, Goto(w, 99))
    BY EnteredLike, Fails, GoesOn DEF States, AlarmIds
  <1> QED BY <1>1 DEF Data, Saved

LEMMA OutputSaved == ASSUME NEW f, NEW w, Entered(f, w), Output(f, w) PROVE Saved(f, w)
  <1> DEFINE s == StepOf(w)
             k == CHOOSE k \in Free(w) : \A j \in Free(w) : k <= j
             d == w.f.delay
             e == [d EXCEPT ![k] = [@ EXCEPT !.start = TRUE, !.pend = TRUE,
                                             !.bit = s.bit, !.on = s.on]]
             a == [w.alarm EXCEPT !.id = 98]
             u1 == [w EXCEPT !.out = Switch(s.on, s.bit, w.out)]
             u2 == [w EXCEPT !.alarm = a]
             u3 == [w EXCEPT !.f.delay = e]
  <1>1. Save(f, Goto(IF ~s.delay THEN u1 ELSE IF Free(w) = {} THEN u2 ELSE u3, 99))
    BY DEF Output
  <1>2. Like(f, w, w) /\ DelaysOK(d) /\ AlarmOK(w.alarm)
    BY EnteredLike DEF Entered, WorkOK, BlockOK
  <1>3. Like(f, w, u1)
    BY <1>2, OutLike
  <1>4. Like(f, w, u2)
    <2>1. AlarmOK(a)
      BY <1>2 DEF AlarmOK, AlarmIds
    <2> HIDE DEF a
    <2> QED BY <1>2, <2>1, AlarmLike
  <1>5. ASSUME Free(w) # {} PROVE Like(f, w, u3)
    <2>1. k \in 1 .. Delays
      <3>1. Free(w) \subseteq Nat /\ Free(w) \subseteq 1 .. Delays
        BY SequencerAssumption DEF Free
      <3>2. \E n \in Free(w) : \A j \in Free(w) : n <= j
        BY <1>5, <3>1, SmallestExists
      <3> QED BY <3>1, <3>2
    <2> HIDE DEF k, s, d
    <2>2. DelaysOK(e)
      BY <1>2, <2>1, DelaysGiven
    <2> HIDE DEF e
    <2> QED BY <1>2, <2>2, DelayLike
  <1> HIDE DEF s, u1, u2, u3
  <1>6. 99 \in States \ {0, 60, 61, 80}
    BY DEF States
  <1>7. Acted(f, w, Goto(IF ~s.delay THEN u1 ELSE IF Free(w) = {} THEN u2 ELSE u3, 99))
    BY <1>3, <1>4, <1>5, <1>6, GoesOn
  <1> QED BY <1>1, <1>7 DEF Saved

LEMMA InputSaved == ASSUME NEW f, NEW w, Entered(f, w), Input(f, w) PROVE Saved(f, w)
  <1> DEFINE s == StepOf(w)
             t == Timer(w, FALSE)
             b == [t.alarm EXCEPT !.user = TRUE]
             z == Goto(t, 0)
             a == [z.alarm EXCEPT !.user = TRUE]
             u == [z EXCEPT !.alarm.user = TRUE, !.ctl = 0, !.check = FALSE, !.left = TRUE]
  <1>1. Like(f, w, w) /\ Like(f, w, t) /\ Like(f, w, Timer(w, TRUE))
        /\ Timer(w, TRUE).f.ctx = w.f.ctx
    BY EnteredLike, TimerLike
  <1>2. PICK level : Save(f, IF level = s.on THEN Goto(t, 99)
                             ELSE IF Done(w) \/ s.now THEN TimedOut(s, w) ELSE w)
    BY DEF Input
  <1>3. s.then \in {"wait", "stop", "go"}
    <2>1. St(w) = 61 /\ s = StepAt(prog, Top(w.f)) /\ Fits(prog, Top(w.f))
          /\ Top(w.f) \in Contexts(prog)
      BY TopIs DEF Input, Entered
    <2>2. s.cmd = "INP"
      BY <2>1 DEF St, Fits
    <2> HIDE DEF s
    <2> QED BY <2>1, <2>2, InputStep DEF Entered
  <1>4. Acted(f, w, Goto(t, 99)) /\ Acted(f, w, w) /\ Acted(f, w, Timer(w, TRUE))
    <2> HIDE DEF t
    <2>1. 99 \in States \ {0, 60, 61, 80}
      BY DEF States
    <2>2. Acted(f, w, Goto(t, 99))
      BY <1>1, <2>1, GoesOn
    <2> QED BY <1>1, <2>2, StaysPut
  <1>5. Acted(f, w, Goto([t EXCEPT !.alarm = b], 99))
    <2>1. AlarmOK(t.alarm)
      BY <1>1 DEF Like, WorkOK
    <2> HIDE DEF t
    <2>2. AlarmOK(b)
      BY <2>1 DEF AlarmOK
    <2> HIDE DEF b
    <2>3. Like(f, w, [t EXCEPT !.alarm = b])
      BY <1>1, <2>2, AlarmLike
    <2> QED BY <2>3, GoesOn DEF States
  <1>6. Acted(f, w, u)
    <2>1. Like(f, w, z)
      <3> HIDE DEF t
      <3>1. 0 \in States \ {60, 61, 80}
        BY DEF States
      <3> QED BY <1>1, <3>1, GotoPlain
    <2> HIDE DEF z
    <2> DEFINE v1 == [z EXCEPT !.alarm = a]
               v2 == [v1 EXCEPT !.ctl = 0]
               v3 == [v2 EXCEPT !.check = FALSE]
               v4 == [v3 EXCEPT !.left = TRUE]
    <2>2. AlarmOK(a)
      <3>1. AlarmOK(z.alarm)
        BY <2>1 DEF Like, WorkOK
      <3> QED BY <3>1 DEF AlarmOK
    <2>3. Like(f, w, v1)
      <3> HIDE DEF a
      <3> QED BY <2>1, <2>2, AlarmLike
    <2>4. Like(f, w, v2)
      <3> HIDE DEF v1
      <3> QED BY <2>3, CommandLike
    <2>5. Like(f, w, v3)
      <3> HIDE DEF v2
      <3> QED BY <2>4, CommandLike
    <2>6. Like(f, w, v4) /\ v4.left
      <3> HIDE DEF v3
      <3> QED BY <2>5, LeftLike
    <2>7. u = v4
      BY DEF a
    <2> HIDE DEF v4, u
    <2>8. Acted(f, w, v4)
      BY <2>6, LikeActed
    <2> QED BY <2>7, <2>8
  <1>7. Acted(f, w, TimedOut(s, w))
    <2>1. CASE s.then = "wait"
      BY <1>4, <2>1 DEF TimedOut
    <2>2. CASE s.then = "stop"
      BY <1>6, <2>2 DEF TimedOut
    <2>3. CASE s.then = "go"
      BY <1>5, <2>3 DEF TimedOut
    <2> HIDE DEF s
    <2> QED BY <1>3, <2>1, <2>2, <2>3
  <1> HIDE DEF s, t
  <1> QED BY <1>2, <1>4, <1>7 DEF Saved

LEMMA JumpSaved == ASSUME NEW f, NEW w, Entered(f, w), Jump(f, w) PROVE Saved(f, w)
  <1>1. Acted(f, w, Fail(w, 23)) /\ Acted(f, w, Fail(w, 95)) /\ Acted(f, w, Goto(w, 99))
    BY EnteredLike, Fails, GoesOn DEF States, AlarmIds
  <1>2. ASSUME NEW n \in Steps
        PROVE  Acted(f, w, Goto([w EXCEPT !.f.ctx[Len(w.f.ctx)].step = n], 10))
    <2>1. Like(f, w, AtStep(w, n))
      <3>1. St(w) \notin {60, 61, 80} /\ Like(f, w, w)
        BY EnteredLike DEF Jump
      <3> QED BY <3>1, StepLike, Zenon
    <2>2. 10 \in States \ {0, 60, 61, 80}
      BY DEF States
    <2>3. Acted(f, w, Goto(AtStep(w, n), 10))
      BY <2>1, <2>2, GoesOn
    <2> QED BY <2>3 DEF AtStep
  <1> QED BY <1>1, <1>2 DEF Jump, Saved, Steps

LEMMA StepDoneSaved == ASSUME NEW f, NEW w, Entered(f, w), StepDone(f, w) PROVE Saved(f, w)
  <1> DEFINE n == After(Top(w.f).step)
             v == AtStep(w, n)
             x == [v EXCEPT !.check = FALSE]
  <1>1. n \in Steps
    <2>1. Top(w.f).step \in Steps
      BY TopIs DEF Entered, Contexts
    <2> QED BY <2>1, StepsAre
  <1>2. Save(f, IF w.ctl = 2 THEN Goto(x, 1) ELSE Goto(v, 10))
    BY DEF StepDone, Top, AtStep
  <1>3. Like(f, w, v)
    <2> HIDE DEF n
    <2>1. St(w) \notin {60, 61, 80} /\ Like(f, w, w)
      BY EnteredLike DEF StepDone
    <2> QED BY <1>1, <2>1, StepLike, Zenon
  <1>4. Like(f, w, x)
    <2> HIDE DEF v
    <2> QED BY <1>3, CommandLike
  <1>5. Acted(f, w, Goto(x, 1)) /\ Acted(f, w, Goto(v, 10))
    <2> HIDE DEF v, x
    <2> QED BY <1>3, <1>4, GoesOn DEF States
  <1> QED BY <1>2, <1>5 DEF Saved

LEMMA TrapSaved == ASSUME NEW f, NEW w, Entered(f, w), Trap(f, w) PROVE Saved(f, w)
  <1> DEFINE t == Timer(w, FALSE)
             a == [t.alarm EXCEPT !.on = TRUE]
             u == [t EXCEPT !.alarm = a]
             d == NoDelay(u.f.delay)
             v == [u EXCEPT !.f.delay = d]
  <1>1. Like(f, w, t) /\ t.f.ctx = w.f.ctx
    BY EnteredLike, TimerLike
  <1>2. Trapped(w) = v
    BY DEF Trapped
  <1> HIDE DEF t
  <1>3. AlarmOK(a)
    <2>1. AlarmOK(t.alarm)
      BY <1>1 DEF Like, WorkOK
    <2> QED BY <2>1 DEF AlarmOK
  <1> HIDE DEF a
  <1>4. Like(f, w, u) /\ u.f.ctx = w.f.ctx
    BY <1>1, <1>3, AlarmLike
  <1> HIDE DEF u
  <1>5. DelaysOK(d)
    BY <1>4, DelaysGiven DEF Like, WorkOK, BlockOK
  <1> HIDE DEF d
  <1>6. Like(f, w, v) /\ v.f.ctx = w.f.ctx
    BY <1>4, <1>5, DelayLike
  <1> HIDE DEF v
  <1>7. Acted(f, w, v)
    BY <1>6, StaysPut
  <1> QED BY <1>2, <1>7 DEF Trap, Saved

\* 11: but for the bad base, which leaves the block at once.
LEMMA MoveTableSaved ==
    ASSUME NEW f, NEW w, Entered(f, w), MoveTable(f, w), ~BadBase(f, w) PROVE Saved(f, w)
  <1> DEFINE t == Timer(w, TRUE)
  <1>1. Like(f, w, t)
    BY EnteredLike, TimerLike
  <1>2. Acted(f, w, Goto(t, 12))
    <2> HIDE DEF t
    <2> QED BY <1>1, GoesOn DEF States
  <1> QED BY <1>2 DEF MoveTable, Saved

\* The stack changes as a whole.
WithStack(w, s) == [w EXCEPT !.f.ctx = s]

LEMMA StackWork ==
    ASSUME NEW f, NEW w, WorkOK(f, w), NEW s, StackOK(prog, f, s)
    PROVE  /\ WorkOK(f, WithStack(w, s)) /\ WithStack(w, s).f.ctx = s
           /\ WithStack(w, s).ctl = w.ctl /\ WithStack(w, s).called = w.called
           /\ WithStack(w, s).left = w.left /\ WithStack(w, s).out = w.out
           /\ WithStack(w, s).f.delay = w.f.delay
  <1> DEFINE i == w.f
             j == [i EXCEPT !.ctx = s]
             v == [w EXCEPT !.f = j]
  <1>1. /\ i \in [ctx : {i.ctx}, tmr : {"off", "on", "done"}, start : BOOLEAN, seen : BOOLEAN,
                  prev : BOOLEAN, busy : BOOLEAN, delay : {i.delay}]
        /\ Shape(w)
    BY DEF WorkOK, BlockOK
  <1>2. /\ j.ctx = s /\ j.delay = i.delay
        /\ j \in [ctx : {j.ctx}, tmr : {"off", "on", "done"}, start : BOOLEAN, seen : BOOLEAN,
                  prev : BOOLEAN, busy : BOOLEAN, delay : {j.delay}]
    <2> HIDE DEF i
    <2> QED BY <1>1
  <1>3. /\ Shape(v) /\ v.f = j /\ v.alarm = w.alarm /\ v.called = w.called /\ v.pack = w.pack
        /\ v.cycles = w.cycles /\ v.ctl = w.ctl /\ v.left = w.left /\ v.out = w.out
    <2> HIDE DEF j
    <2> QED BY <1>1 DEF Shape
  <1> HIDE DEF v, j
  <1>4. WorkOK(f, v)
    BY <1>2, <1>3 DEF WorkOK, BlockOK
  <1>5. v.f.ctx = s /\ v.f.delay = w.f.delay
    BY <1>2, <1>3, Zenon DEF i
  <1>6. WithStack(w, s) = v
    BY DEF v, j, WithStack
  <1> QED BY <1>3, <1>4, <1>5, <1>6, Zenon

LEMMA PoppedActed ==
    ASSUME NEW f, NEW w, Entered(f, w), Len(w.f.ctx) > 1 PROVE Acted(f, w, Popped(w))
  <1> DEFINE s == w.f.ctx
             r == SubSeq(s, 1, Len(s) - 1)
             v == WithStack(w, r)
  <1>1. WorkOK(f, w) /\ StackOK(prog, f, s) /\ Depth \in Nat
    BY SequencerAssumption DEF Entered, WorkOK, BlockOK
  <1>2. /\ s \in Seq(Contexts(prog)) /\ Len(s) \in 1 .. Depth /\ Len(s) > 1 /\ Len(s) \in Nat
        /\ f = "M"
    BY <1>1 DEF StackOK
  <1>3. /\ r \in Seq(Contexts(prog)) /\ Len(r) = Len(s) - 1
        /\ \A i \in 1 .. Len(s) - 1 : r[i] = s[i]
    <2> HIDE DEF s
    <2> QED BY <1>2
  <1> HIDE DEF s, r
  <1>4. Len(r) \in 1 .. Depth
    BY <1>1, <1>2, <1>3
  <1>5. StackOK(prog, f, r)
    <2>1. \A i \in 1 .. Len(r) : Fits(prog, r[i])
      BY <1>1, <1>2, <1>3 DEF StackOK
    <2> QED BY <1>2, <1>3, <1>4, <2>1 DEF StackOK
  <1>6. ASSUME Whole(prog, s) PROVE Whole(prog, r)
    <2>1. \A i \in 1 .. Len(s) - 1 : Awaits(prog, s[i], s[i + 1])
      BY <1>6 DEF Whole
    <2>2. r[Len(r)].st = 10
      BY <1>2, <1>3, <2>1 DEF Awaits
    <2>3. \A i \in 1 .. Len(r) - 1 : Awaits(prog, r[i], r[i + 1])
      BY <1>2, <1>3, <2>1
    <2> QED BY <2>2, <2>3 DEF Whole
  <1>7. /\ WorkOK(f, v) /\ v.f.ctx = r /\ v.ctl = w.ctl /\ v.called = w.called /\ v.left = w.left
    BY <1>1, <1>5, StackWork
  <1>8. Popped(w) = Goto(v, 10)
    BY DEF Popped, WithStack, r, s
  <1> HIDE DEF v
  <1>9. Entered(f, v)
    BY <1>6, <1>7 DEF Entered, s
  <1>10. Acted(f, v, Goto(v, 10))
    <2>1. Like(f, v, v) /\ 10 \in States \ {0, 60, 61, 80}
      BY <1>9, EnteredLike DEF States
    <2> QED BY <1>9, <2>1, GoesOn
  <1>11. Acted(f, w, Goto(v, 10))
    BY <1>7, <1>10, Zenon DEF Acted
  <1> QED BY <1>8, <1>11

LEMMA IdleActs ==
    ASSUME NEW f \in FBs, NEW w, Entered(f, w), Idle(f, w)
    PROVE  \E x : /\ Acted(f, w, x) /\ Save(f, x)
                  /\ Starts(f, w) =>
                       /\ Top(x.f) = [slot |-> SlotNo(f, w), step |-> Top(w.f).step, st |-> 10]
                       /\ Len(x.f.ctx) = Len(w.f.ctx)
                  /\ ~Starts(f, w) =>
                       /\ x.f.ctx = w.f.ctx /\ x.f.delay = w.f.delay
                       /\ x.ctl = w.ctl /\ x.out = w.out
  <1> DEFINE u == Timer(w, FALSE)
             top == Top(u.f)
             n == SlotNo(f, w)
             c == [slot |-> n, step |-> top.step, st |-> top.st]
             s == AtTop(u.f.ctx, c)
             v == WithStack(u, s)
  <1>1. /\ Like(f, w, u) /\ WorkOK(f, u) /\ u.f.ctx = w.f.ctx /\ u.left = w.left
        /\ St(w) = 0 /\ Top(u.f) = Top(w.f)
    <2>1. Like(f, w, u) /\ u.f.ctx = w.f.ctx /\ u.left = w.left
      BY EnteredLike, TimerLike
    <2> HIDE DEF u
    <2> QED BY <2>1 DEF Like, Top, Idle
  <1>2. Acted(f, w, u)
    BY <1>1, StaysPut
  <1>2a. u.f.delay = w.f.delay /\ u.ctl = w.ctl /\ u.out = w.out
    <2> DEFINE i == w.f
               j == [i EXCEPT !.start = FALSE]
    <2>1. u = [w EXCEPT !.f = j]
      BY DEF Timer
    <2>2. i \in [ctx : {i.ctx}, tmr : {"off", "on", "done"}, start : BOOLEAN, seen : BOOLEAN,
                 prev : BOOLEAN, busy : BOOLEAN, delay : {i.delay}]
      BY DEF Entered, WorkOK, BlockOK
    <2> HIDE DEF u
    <2>3. j.delay = i.delay
      <3> HIDE DEF i
      <3> QED BY <2>2
    <2> HIDE DEF j
    <2>4. u.f = j /\ u.ctl = w.ctl /\ u.out = w.out
      BY <2>1 DEF Entered, WorkOK, Shape
    <2> QED BY <2>3, <2>4
  <1>3. n \in DOMAIN prog
    <2>1. CalledOK(prog, w.called) /\ 0 \in DOMAIN prog
      BY SequencerAssumption DEF Entered, WorkOK
    <2> QED BY <2>1 DEF SlotNo, FBs, CalledOK
  <1>4. top \in Contexts(prog) /\ top.st = 0
    <2>1. top \in Contexts(prog)
      BY <1>1, TopIs
    <2> QED BY <1>1, <2>1 DEF St
  <1> HIDE DEF u
  <1>5. c = [top EXCEPT !.slot = n] /\ c \in Contexts(prog) /\ Fits(prog, c)
    <2>1. c = [top EXCEPT !.slot = n] /\ c \in Contexts(prog) /\ c.st = 0
      <3> HIDE DEF top, n
      <3> QED BY <1>3, <1>4 DEF Contexts
    <2> QED BY <2>1 DEF Fits
  <1> HIDE DEF c
  <1>6. /\ StackOK(prog, f, u.f.ctx) /\ StackOK(prog, f, s) /\ Len(s) = Len(u.f.ctx)
        /\ s[Len(s)] = c
    <2> DEFINE x == u.f.ctx
    <2>1. StackOK(prog, f, x)
      BY <1>1 DEF WorkOK, BlockOK
    <2> HIDE DEF x
    <2>2. /\ StackOK(prog, f, AtTop(x, c)) /\ Len(AtTop(x, c)) = Len(x)
          /\ AtTop(x, c)[Len(x)] = c
      BY <1>5, <2>1, AtTopIs
    <2> QED BY <2>1, <2>2 DEF x
  <1>7. [u EXCEPT !.f.ctx[Len(u.f.ctx)].slot = n] = v
    <2>1. AtTop(u.f.ctx, [top EXCEPT !.slot = n]) = s
      BY <1>5
    <2> QED BY <2>1 DEF AtTop, Top, WithStack
  <1> HIDE DEF s
  <1>8. /\ WorkOK(f, v) /\ v.f.ctx = s /\ v.ctl = u.ctl /\ v.called = u.called /\ v.left = u.left
    BY <1>1, <1>6, StackWork
  <1> HIDE DEF v
  <1>9. /\ Like(f, v, Goto(v, 10)) /\ Goto(v, 10).left = v.left
        /\ Top(Goto(v, 10).f) = [slot |-> Top(v.f).slot, step |-> Top(v.f).step, st |-> 10]
        /\ Top(Goto(v, 10).f).st = 10
    <2>1. Like(f, v, v) /\ 10 \in States \ {60, 61, 80}
      BY <1>8, LikeSelf DEF States
    <2>2. /\ Like(f, v, Goto(v, 10)) /\ Goto(v, 10).left = v.left
          /\ Top(Goto(v, 10).f) = [slot |-> Top(v.f).slot, step |-> Top(v.f).step, st |-> 10]
      BY <2>1, GotoPlain
    <2> QED BY <2>2
  <1>10. Acted(f, w, Goto(v, 10))
    <2> DEFINE z == Goto(v, 10)
    <2>1. f \in torn \/ z.left \/ Whole(prog, z.f.ctx)
      <3>1. ASSUME Whole(prog, w.f.ctx) PROVE Whole(prog, z.f.ctx)
        <4>1. Len(w.f.ctx) = 1
          BY <1>1, <3>1 DEF Whole, St, Top
        <4>2. Len(z.f.ctx) = 1
          BY <1>1, <1>6, <1>8, <1>9, <4>1 DEF Like
        <4>3. z.f.ctx[Len(z.f.ctx)].st = 10
          BY <1>9 DEF Top
        <4> HIDE DEF z
        <4> QED BY <4>2, <4>3 DEF Whole
      <3> HIDE DEF z
      <3> QED BY <1>1, <1>8, <1>9, <3>1 DEF Entered, Like, z
    <2>2. u.called = w.called /\ u.ctl \in {w.ctl, 0}
      BY <1>1, Zenon DEF Like
    <2>3. z.called = w.called /\ z.ctl \in {w.ctl, 0} /\ WorkOK(f, z)
      BY <1>8, <1>9, <2>2 DEF Like
    <2> HIDE DEF z
    <2>4. Acted(f, w, z)
      BY <2>1, <2>3 DEF Acted, Entered
    <2> QED BY <2>4 DEF z
  <1>11. Save(f, IF Starts(f, w) THEN Goto([u EXCEPT !.f.ctx[Len(u.f.ctx)].slot = n], 10) ELSE u)
    BY DEF Idle, u
  <1>12. /\ Top(Goto(v, 10).f) = [slot |-> n, step |-> Top(w.f).step, st |-> 10]
         /\ Len(Goto(v, 10).f.ctx) = Len(w.f.ctx)
    <2>1. Top(v.f) = c
      BY <1>6, <1>8 DEF Top
    <2>2. Top(v.f).slot = n /\ Top(v.f).step = Top(w.f).step
      BY <1>1, <2>1 DEF c
    <2>3. Len(v.f.ctx) = Len(w.f.ctx)
      BY <1>1, <1>6, <1>8
    <2> HIDE DEF n
    <2> QED BY <1>9, <2>2, <2>3 DEF Like
  <1> DEFINE x == Goto(v, 10)
  <1> HIDE DEF x
  <1>13. CASE Starts(f, w)
    <2>1. Save(f, x) /\ Acted(f, w, x)
      BY <1>7, <1>10, <1>11, <1>13 DEF x
    <2>2. /\ Top(x.f) = [slot |-> SlotNo(f, w), step |-> Top(w.f).step, st |-> 10]
          /\ Len(x.f.ctx) = Len(w.f.ctx)
      BY <1>12 DEF x
    <2> QED BY <1>13, <2>1, <2>2
  <1>14. CASE ~Starts(f, w)
    <2>1. Save(f, u)
      BY <1>11, <1>14
    <2> QED BY <1>1, <1>2, <1>2a, <1>14, <2>1
  <1> QED BY <1>13, <1>14

---------------------------------------------------------------------------
(* The packing counter counts the cycles.                                    *)

LEMMA TwoDigits ==
    ASSUME NEW c \in Nat \ {0}, NEW d \in Nat \ {0}, NEW a \in 0 .. c - 1, NEW b \in 0 .. d - 1
    PROVE  a + c * b \in 0 .. c * d - 1
  <1>1. PICK e \in Nat : d = b + 1 + e
    <2>1. d - 1 - b \in Nat /\ d = b + 1 + (d - 1 - b)
      OBVIOUS
    <2> QED BY <2>1
  <1>2. c * d = c * b + c + c * e
    BY <1>1
  <1>3. c * e \in Nat /\ c * b \in Nat
    BY <1>1
  <1> QED BY <1>2, <1>3

LEMMA Modulo ==
    ASSUME NEW n \in Nat \ {0}
    PROVE  n % n = 0 /\ \A m \in 0 .. n - 1 : m % n = m
  OBVIOUS

LEMMA Carried ==
    ASSUME NEW c \in Nat \ {0}, NEW b \in Nat
    PROVE  c * (b + 1) = (c - 1) + c * b + 1
  OBVIOUS

\* Three digits.
Follows(c1, c2, c3, x1, x2, x3, y1, y2, y3) ==
    y1 + c1 * (y2 + c2 * y3) = (x1 + c1 * (x2 + c2 * x3) + 1) % (c1 * (c2 * c3))

LEMMA Odometer ==
    ASSUME NEW c1 \in Nat \ {0}, NEW c2 \in Nat \ {0}, NEW c3 \in Nat \ {0},
           NEW x1 \in 0 .. c1 - 1, NEW x2 \in 0 .. c2 - 1, NEW x3 \in 0 .. c3 - 1,
           NEW y1, NEW y2, NEW y3,
           \/ x1 + 1 < c1 /\ y1 = x1 + 1 /\ y2 = x2 /\ y3 = x3
           \/ x1 + 1 >= c1 /\ x2 + 1 < c2 /\ y1 = 0 /\ y2 = x2 + 1 /\ y3 = x3
           \/ x1 + 1 >= c1 /\ x2 + 1 >= c2 /\ x3 + 1 < c3 /\ y1 = 0 /\ y2 = 0 /\ y3 = x3 + 1
           \/ x1 + 1 >= c1 /\ x2 + 1 >= c2 /\ x3 + 1 >= c3 /\ y1 = 0 /\ y2 = 0 /\ y3 = 0
    PROVE  Follows(c1, c2, c3, x1, x2, x3, y1, y2, y3)
  <1> DEFINE d == c2 * c3
             m == x2 + c2 * x3
             n == y2 + c2 * y3
             r == x1 + c1 * m
             q == y1 + c1 * n
  <1>1. d \in Nat \ {0} /\ m \in 0 .. d - 1
    <2>1. c2 * c3 \in Nat \ {0}
      BY TwoDigits
    <2> QED BY <2>1, TwoDigits
  <1>2. \/ x1 + 1 < c1 /\ y1 = x1 + 1 /\ n = m
        \/ x1 + 1 >= c1 /\ y1 = 0 /\ n = m + 1 /\ n \in 0 .. d - 1
        \/ x1 + 1 >= c1 /\ y1 = 0 /\ n = 0 /\ m = d - 1
    <2>1. CASE x1 + 1 < c1 /\ y1 = x1 + 1 /\ y2 = x2 /\ y3 = x3
      BY <2>1
    <2>2. CASE x1 + 1 >= c1 /\ x2 + 1 < c2 /\ y1 = 0 /\ y2 = x2 + 1 /\ y3 = x3
      <3>1. y2 \in 0 .. c2 - 1 /\ y3 \in 0 .. c3 - 1
        BY <2>2
      <3>2. n \in 0 .. d - 1
        BY <3>1, TwoDigits
      <3>3. c2 * x3 \in Nat
        OBVIOUS
      <3>4. n = m + 1
        BY <2>2, <3>3
      <3> QED BY <2>2, <3>2, <3>4
    <2>3. CASE x1 + 1 >= c1 /\ x2 + 1 >= c2 /\ x3 + 1 < c3 /\ y1 = 0 /\ y2 = 0 /\ y3 = x3 + 1
      <3>1. y2 \in 0 .. c2 - 1 /\ y3 \in 0 .. c3 - 1
        BY <2>3
      <3>2. n \in 0 .. d - 1
        BY <3>1, TwoDigits
      <3>3. c2 * (x3 + 1) = (c2 - 1) + c2 * x3 + 1 /\ c2 * x3 \in Nat
        BY Carried
      <3>4. x2 = c2 - 1
        BY <2>3
      <3>5. n = m + 1
        BY <2>3, <3>3, <3>4
      <3> QED BY <2>3, <3>2, <3>5
    <2>4. CASE x1 + 1 >= c1 /\ x2 + 1 >= c2 /\ x3 + 1 >= c3 /\ y1 = 0 /\ y2 = 0 /\ y3 = 0
      <3>1. x2 = c2 - 1 /\ c3 = x3 + 1
        BY <2>4
      <3>2. c2 * (x3 + 1) = (c2 - 1) + c2 * x3 + 1 /\ c2 * x3 \in Nat
        BY Carried
      <3>3. m = d - 1
        BY <3>1, <3>2
      <3>4. n = 0
        BY <2>4
      <3> QED BY <2>4, <3>3, <3>4
    <2> QED BY <2>1, <2>2, <2>3, <2>4
  <1> HIDE DEF d, m, n
  <1>3. c1 * d \in Nat \ {0} /\ r \in 0 .. c1 * d - 1
    BY <1>1, TwoDigits
  <1>4. CASE x1 + 1 < c1 /\ y1 = x1 + 1 /\ n = m
    <2>1. y1 \in 0 .. c1 - 1
      BY <1>4
    <2>2. q \in 0 .. c1 * d - 1
      BY <1>1, <1>4, <2>1, TwoDigits
    <2>3. q = r + 1
      BY <1>1, <1>4
    <2> HIDE DEF q, r
    <2> QED BY <1>3, <2>2, <2>3, Modulo DEF q, r, d, m, n, Follows
  <1>5. CASE x1 + 1 >= c1 /\ y1 = 0 /\ n = m + 1 /\ n \in 0 .. d - 1
    <2>1. y1 \in 0 .. c1 - 1
      BY <1>5
    <2>2. q \in 0 .. c1 * d - 1
      BY <1>1, <1>5, <2>1, TwoDigits
    <2>3. c1 * (m + 1) = (c1 - 1) + c1 * m + 1 /\ c1 * m \in Nat /\ x1 = c1 - 1
      BY <1>1, <1>5, Carried
    <2>4. q = r + 1
      BY <1>1, <1>5, <2>3
    <2> HIDE DEF q, r
    <2> QED BY <1>3, <2>2, <2>4, Modulo DEF q, r, d, m, n, Follows
  <1>6. CASE x1 + 1 >= c1 /\ y1 = 0 /\ n = 0 /\ m = d - 1
    <2>1. c1 * (m + 1) = (c1 - 1) + c1 * m + 1 /\ c1 * m \in Nat /\ x1 = c1 - 1 /\ d = m + 1
      BY <1>1, <1>6, Carried
    <2>2. r + 1 = c1 * d
      BY <2>1
    <2>3. q = 0
      BY <1>6
    <2> HIDE DEF q, r
    <2> QED BY <1>3, <2>2, <2>3, Modulo DEF q, r, d, m, n, Follows
  <1> QED BY <1>2, <1>4, <1>5, <1>6

\* A cycle of Main moves the counter to the next place.
LEMMA PackAdvances ==
    ASSUME NEW i, NEW n, PackOK(i, n) PROVE PackOK(Advanced(i), (n + 1) % Places)
  <1> DEFINE a1 == Order[1]
             a2 == Order[2]
             a3 == Order[3]
             full == {k \in 1 .. 3 : \A j \in 1 .. k : i[Order[j]] + 1 >= Count[Order[j]]}
             y == Advanced(i)
             F(a) == i[a] + 1 >= Count[a]
  <1>1. /\ a1 \in Axes /\ a2 \in Axes /\ a3 \in Axes /\ a1 # a2 /\ a1 # a3 /\ a2 # a3
        /\ \A a \in Axes : a \in {a1, a2, a3}
    <2>1. a1 \in Axes /\ a2 \in Axes /\ a3 \in Axes /\ a1 # a2 /\ a1 # a3 /\ a2 # a3
      BY SequencerAssumption
    <2> HIDE DEF a1, a2, a3
    <2> QED BY <2>1 DEF Axes
  <1>2. /\ DOMAIN i = Axes /\ \A a \in Axes : i[a] \in 0 .. Count[a] - 1
        /\ \A a \in Axes : Count[a] \in Nat \ {0}
    BY SequencerAssumption DEF PackOK
  <1>3. /\ full \subseteq 1 .. 3
        /\ 1 \in full <=> F(a1)
        /\ 2 \in full <=> F(a1) /\ F(a2)
        /\ 3 \in full <=> F(a1) /\ F(a2) /\ F(a3)
    <2>1. 1 .. 1 = {1} /\ 1 .. 2 = {1, 2} /\ 1 .. 3 = {1, 2, 3}
      OBVIOUS
    <2>2. 1 \in full <=> F(a1)
      BY <2>1
    <2>3. 2 \in full <=> F(a1) /\ F(a2)
      BY <2>1
    <2>4. 3 \in full <=> F(a1) /\ F(a2) /\ F(a3)
      BY <2>1
    <2> QED BY <2>2, <2>3, <2>4
  <1>4. /\ DOMAIN y = Axes
        /\ \A k \in 1 .. 3 :
             y[Order[k]] = IF k \in full THEN 0
                           ELSE IF 1 .. k - 1 = full THEN i[Order[k]] + 1 ELSE i[Order[k]]
    <2>1. y = [a \in Axes |-> IF \E k \in full : Order[k] = a THEN 0
                 ELSE IF \E k \in 1 .. 3 : Order[k] = a /\ 1 .. k - 1 = full THEN i[a] + 1
                 ELSE i[a]]
      BY <1>2 DEF Advanced
    <2>2. \A k, j \in 1 .. 3 : Order[k] = Order[j] => k = j
      BY SequencerAssumption
    <2>3. \A k \in 1 .. 3 : Order[k] \in Axes
      BY SequencerAssumption
    <2> HIDE DEF full, y
    <2>4. ASSUME NEW k \in 1 .. 3
          PROVE  y[Order[k]] = IF k \in full THEN 0
                           ELSE IF 1 .. k - 1 = full THEN i[Order[k]] + 1 ELSE i[Order[k]]
      <3>1. (\E j \in full : Order[j] = Order[k]) <=> k \in full
        BY <1>3, <2>2
      <3>2. (\E j \in 1 .. 3 : Order[j] = Order[k] /\ 1 .. j - 1 = full) <=> 1 .. k - 1 = full
        BY <2>2
      <3> QED BY <2>1, <2>3, <3>1, <3>2
    <2> QED BY <2>1, <2>4
  <1>5. /\ 1 .. 1 - 1 = full <=> ~F(a1)
        /\ 1 .. 2 - 1 = full <=> F(a1) /\ ~F(a2)
        /\ 1 .. 3 - 1 = full <=> F(a1) /\ F(a2) /\ ~F(a3)
    <2>1. full \subseteq {1, 2, 3} /\ 1 .. 0 = {} /\ 1 .. 1 = {1} /\ 1 .. 2 = {1, 2}
      BY <1>3
    <2>2. (2 \in full => 1 \in full) /\ (3 \in full => 2 \in full)
      BY <1>3
    <2> HIDE DEF full
    <2>3. {} = full <=> 1 \notin full
      BY <2>1, <2>2
    <2>4. {1} = full <=> 1 \in full /\ 2 \notin full
      <3>1. ASSUME 1 \in full, 2 \notin full PROVE {1} = full
        <4>1. \A k : k \in full <=> k = 1
          BY <2>1, <2>2, <3>1
        <4> QED BY <4>1
      <3> QED BY <3>1
    <2>5. {1, 2} = full <=> 2 \in full /\ 3 \notin full
      <3>1. ASSUME 2 \in full, 3 \notin full PROVE {1, 2} = full
        <4>1. \A k : k \in full <=> k = 1 \/ k = 2
          BY <2>1, <2>2, <3>1
        <4> QED BY <4>1
      <3> QED BY <3>1
    <2> QED BY <1>3, <2>1, <2>3, <2>4, <2>5
  <1> HIDE DEF full
  <1>6. /\ y[a1] = IF F(a1) THEN 0 ELSE i[a1] + 1
        /\ y[a2] = IF F(a1) THEN IF F(a2) THEN 0 ELSE i[a2] + 1 ELSE i[a2]
        /\ y[a3] = IF F(a1) /\ F(a2) THEN IF F(a3) THEN 0 ELSE i[a3] + 1 ELSE i[a3]
    <2> HIDE DEF F
    <2>1. y[a1] = IF 1 \in full THEN 0 ELSE IF 1 .. 1 - 1 = full THEN i[a1] + 1 ELSE i[a1]
      BY <1>4
    <2>2. y[a2] = IF 2 \in full THEN 0 ELSE IF 1 .. 2 - 1 = full THEN i[a2] + 1 ELSE i[a2]
      BY <1>4
    <2>3. y[a3] = IF 3 \in full THEN 0 ELSE IF 1 .. 3 - 1 = full THEN i[a3] + 1 ELSE i[a3]
      BY <1>4
    <2> HIDE DEF y, a1, a2, a3
    <2>4. /\ y[a1] = IF F(a1) THEN 0 ELSE i[a1] + 1
          /\ y[a2] = IF F(a1) THEN IF F(a2) THEN 0 ELSE i[a2] + 1 ELSE i[a2]
          /\ y[a3] = IF F(a1) /\ F(a2) THEN IF F(a3) THEN 0 ELSE i[a3] + 1 ELSE i[a3]
      BY <1>3, <1>5, <2>1, <2>2, <2>3, Zenon
    <2> QED BY <2>4 DEF F
  <1> HIDE DEF y, a1, a2, a3
  <1>7. /\ i[a1] \in 0 .. Count[a1] - 1 /\ i[a2] \in 0 .. Count[a2] - 1
        /\ i[a3] \in 0 .. Count[a3] - 1
        /\ Count[a1] \in Nat \ {0} /\ Count[a2] \in Nat \ {0} /\ Count[a3] \in Nat \ {0}
    BY <1>1, <1>2
  <1>8. /\ y[a1] \in 0 .. Count[a1] - 1 /\ y[a2] \in 0 .. Count[a2] - 1
        /\ y[a3] \in 0 .. Count[a3] - 1
    BY <1>6, <1>7
  <1>9. y[a1] + Count[a1] * (y[a2] + Count[a2] * y[a3])
          = (i[a1] + Count[a1] * (i[a2] + Count[a2] * i[a3]) + 1)
              % (Count[a1] * (Count[a2] * Count[a3]))
    <2> DEFINE c1 == Count[a1]
               c2 == Count[a2]
               c3 == Count[a3]
               x1 == i[a1]
               x2 == i[a2]
               x3 == i[a3]
               y1 == y[a1]
               y2 == y[a2]
               y3 == y[a3]
    <2>1. /\ c1 \in Nat \ {0} /\ c2 \in Nat \ {0} /\ c3 \in Nat \ {0}
          /\ x1 \in 0 .. c1 - 1 /\ x2 \in 0 .. c2 - 1 /\ x3 \in 0 .. c3 - 1
          /\ \/ x1 + 1 < c1 /\ y1 = x1 + 1 /\ y2 = x2 /\ y3 = x3
             \/ x1 + 1 >= c1 /\ x2 + 1 < c2 /\ y1 = 0 /\ y2 = x2 + 1 /\ y3 = x3
             \/ x1 + 1 >= c1 /\ x2 + 1 >= c2 /\ x3 + 1 < c3 /\ y1 = 0 /\ y2 = 0 /\ y3 = x3 + 1
             \/ x1 + 1 >= c1 /\ x2 + 1 >= c2 /\ x3 + 1 >= c3 /\ y1 = 0 /\ y2 = 0 /\ y3 = 0
      BY <1>6, <1>7
    <2> HIDE DEF c1, c2, c3, x1, x2, x3, y1, y2, y3
    <2>2. Follows(c1, c2, c3, x1, x2, x3, y1, y2, y3)
      BY <2>1, Odometer
    <2> QED BY <2>2 DEF Follows, c1, c2, c3, x1, x2, x3, y1, y2, y3
  <1>10. Places = Count[a1] * (Count[a2] * Count[a3])
    <2>1. Count["x"] \in Nat /\ Count["y"] \in Nat /\ Count["z"] \in Nat
      BY <1>2 DEF Axes
    <2>2. \/ a1 = "x" /\ a2 = "y" /\ a3 = "z"
          \/ a1 = "x" /\ a2 = "z" /\ a3 = "y"
          \/ a1 = "y" /\ a2 = "x" /\ a3 = "z"
          \/ a1 = "y" /\ a2 = "z" /\ a3 = "x"
          \/ a1 = "z" /\ a2 = "x" /\ a3 = "y"
          \/ a1 = "z" /\ a2 = "y" /\ a3 = "x"
      BY <1>1 DEF Axes
    <2> DEFINE cx == Count["x"]
               cy == Count["y"]
               cz == Count["z"]
    <2> HIDE DEF cx, cy, cz
    <2>3. cx \in Nat /\ cy \in Nat /\ cz \in Nat
      BY <2>1 DEF cx, cy, cz
    <2>4. /\ cx * cy * cz = cx * (cy * cz) /\ cx * cy * cz = cx * (cz * cy)
          /\ cx * cy * cz = cy * (cx * cz) /\ cx * cy * cz = cy * (cz * cx)
          /\ cx * cy * cz = cz * (cx * cy) /\ cx * cy * cz = cz * (cy * cx)
      BY <2>3
    <2>5. Places = cx * cy * cz
      BY DEF Places, cx, cy, cz
    <2> QED BY <2>2, <2>4, <2>5 DEF cx, cy, cz
  <1>11. \A a \in Axes : y[a] \in 0 .. Count[a] - 1
    BY <1>1, <1>8
  <1>12. Rank(y) = (n + 1) % Places
    <2>1. Rank(i) = n
      BY DEF PackOK
    <2> QED BY <1>9, <1>10, <2>1 DEF Rank, a1, a2, a3
  <1> QED BY <1>4, <1>11, <1>12 DEF PackOK, y

---------------------------------------------------------------------------
(* The end of a program and the CALL.                                        *)

LEMMA CycleActed ==
    ASSUME NEW f, NEW w, Entered(f, w), Len(w.f.ctx) = 1, St(w) = 10
    PROVE  Acted(f, w, CycleEnded(f, w))
  <1> DEFINE v == AtStep(w, 0)
             b == v.check /\ w.ctl # 2
             pk == IF f = "M" THEN Advanced(v.pack) ELSE v.pack
             cy == IF f = "M" THEN (v.cycles + 1) % Places ELSE v.cycles
             z == [v EXCEPT !.check = b, !.pack = pk, !.cycles = cy]
  <1>1. Like(f, w, v) /\ Top(v.f).step = 0
    <2>1. Like(f, w, w) /\ 0 \in Steps /\ St(w) \notin {60, 61, 80}
      BY EnteredLike, StepsAre
    <2>2. /\ Like(f, w, AtStep(w, 0))
          /\ Top(AtStep(w, 0).f) = [slot |-> Top(w.f).slot, step |-> 0, st |-> Top(w.f).st]
      BY <2>1, StepLike
    <2> QED BY <2>2
  <1>2. CycleEnded(f, w) = Goto(z, 0)
    BY DEF CycleEnded, AtStep
  <1>3. b \in BOOLEAN
    <2>1. v.check \in BOOLEAN
      BY <1>1 DEF Like, WorkOK, Shape
    <2> QED BY <2>1
  <1> HIDE DEF v
  <1>4. PackOK(pk, cy)
    BY <1>1, PackAdvances DEF Like, WorkOK
  <1> HIDE DEF b, pk, cy
  <1>5. /\ Shape(z) /\ z.f = v.f /\ z.alarm = v.alarm /\ z.called = v.called /\ z.pack = pk
        /\ z.cycles = cy /\ z.ctl = v.ctl /\ z.left = v.left
    BY <1>1, <1>3 DEF Like, WorkOK, Shape
  <1> HIDE DEF z
  <1>6. WorkOK(f, z)
    BY <1>1, <1>4, <1>5 DEF Like, WorkOK
  <1>7. Like(f, z, Goto(z, 0)) /\ Goto(z, 0).left = z.left
        /\ Top(Goto(z, 0).f) = [slot |-> Top(z.f).slot, step |-> Top(z.f).step, st |-> 0]
    <2>1. Like(f, z, z) /\ 0 \in States \ {60, 61, 80}
      BY <1>6, LikeSelf DEF States
    <2> QED BY <2>1, GotoPlain
  <1> DEFINE u == Goto(z, 0)
  <1>8. Top(u.f).step = 0 /\ Top(u.f).st = 0
    BY <1>1, <1>5, <1>7
  <1>9. Len(u.f.ctx) = 1
    BY <1>1, <1>5, <1>7 DEF Like
  <1>10. WorkOK(f, u) /\ u.ctl \in {w.ctl, 0} /\ u.called = w.called
    BY <1>1, <1>5, <1>7 DEF Like
  <1> HIDE DEF u
  <1>11. Whole(prog, u.f.ctx)
    BY <1>8, <1>9 DEF Whole, Top
  <1>12. Acted(f, w, u)
    BY <1>10, <1>11 DEF Acted, Entered
  <1> QED BY <1>2, <1>12 DEF u

LEMMA FetchSaved == ASSUME NEW f, NEW w, Entered(f, w), Fetch(f, w) PROVE Saved(f, w)
  <1> DEFINE cmd == StepOf(w).cmd
  <1>1. /\ St(w) = 10
        /\ \/ cmd \in DOMAIN Handler /\ Save(f, Goto(w, Handler[cmd]))
           \/ cmd = "END" /\ Save(f, IF Len(w.f.ctx) > 1 THEN Popped(w) ELSE CycleEnded(f, w))
           \/ cmd = "NOP" /\ Save(f, [Goto(w, 0) EXCEPT !.left = TRUE])
           \/ cmd = "BAD" /\ Save(f, Fail(w, 99))
    BY DEF Fetch
  <1>2. ASSUME cmd \in DOMAIN Handler PROVE Acted(f, w, Goto(w, Handler[cmd]))
    <2> DEFINE st == Handler[cmd]
    <2>1. /\ st \in States /\ st # 0 /\ st # 61
          /\ (st = 60 => cmd = "INP") /\ (st = 80 => cmd = "CALL")
      <3> HIDE DEF cmd
      <3> QED BY <1>2 DEF Handler, States
    <2> HIDE DEF st
    <2>2. Like(f, w, w)
      BY EnteredLike
    <2>3. /\ Like(f, w, Goto(w, st))
          /\ Top(Goto(w, st).f) = [slot |-> Top(w.f).slot, step |-> Top(w.f).step, st |-> st]
      BY <2>1, <2>2, GotoLike
    <2>4. Top(Goto(w, st).f).st # 0
      BY <2>1, <2>3
    <2>5. Acted(f, w, Goto(w, st))
      BY <2>3, <2>4, LikeActed
    <2> QED BY <2>5 DEF st
  <1> HIDE DEF cmd
  <1>3. Acted(f, w, IF Len(w.f.ctx) > 1 THEN Popped(w) ELSE CycleEnded(f, w))
    <2>1. Len(w.f.ctx) \in 1 .. Depth /\ Depth \in Nat
      BY TopIs DEF Entered
    <2>2. CASE Len(w.f.ctx) > 1
      BY <2>2, PoppedActed
    <2>3. CASE ~(Len(w.f.ctx) > 1)
      <3> DEFINE n == Len(w.f.ctx)
      <3>1. n = 1
        <4>1. n \in 1 .. Depth /\ Depth \in Nat /\ ~(n > 1)
          BY <2>1, <2>3
        <4> HIDE DEF n
        <4> QED BY <4>1
      <3> QED BY <1>1, <2>3, <3>1, CycleActed
    <2> QED BY <2>2, <2>3
  <1>4. Acted(f, w, [Goto(w, 0) EXCEPT !.left = TRUE])
    <2> DEFINE v == Goto(w, 0)
    <2>1. Like(f, w, v)
      <3>1. Like(f, w, w) /\ 0 \in States \ {60, 61, 80}
        BY EnteredLike DEF States
      <3> QED BY <3>1, GotoPlain
    <2> HIDE DEF v
    <2>2. Like(f, w, [v EXCEPT !.left = TRUE]) /\ [v EXCEPT !.left = TRUE].left
      BY <2>1, LeftLike
    <2>3. Acted(f, w, [v EXCEPT !.left = TRUE])
      BY <2>2, LikeActed
    <2> QED BY <2>3 DEF v
  <1>5. Acted(f, w, Fail(w, 99))
    BY EnteredLike, Fails DEF AlarmIds
  <1> QED BY <1>1, <1>2, <1>3, <1>4, <1>5 DEF Saved

\* The step after a CALL is one of the slot, and the CALL is the one before it.
LEMMA CallStep ==
    ASSUME NEW c \in Contexts(prog), StepAt(prog, c).cmd = "CALL", prog \in Programs
    PROVE  /\ After(c.step) \in Steps /\ CallBefore(After(c.step)) = c.step + 1
           /\ c.step + 1 \in 1 .. Len(prog[c.slot])
           /\ StepAt(prog, c) = prog[c.slot][c.step + 1]
  <1>1. c.step < Len(prog[c.slot])
    BY DEF StepAt, Empty
  <1>2. c.slot \in DOMAIN prog /\ c.step \in Steps
    BY DEF Contexts
  <1>3. StepAt(prog, c) = prog[c.slot][c.step + 1]
    BY <1>1 DEF StepAt
  <1>4. Len(prog[c.slot]) \in Nat
    BY <1>2, SequencerAssumption
  <1> DEFINE i == c.step
             l == Len(prog[c.slot])
  <1>5. i \in Nat /\ l \in Nat /\ i < l
    BY <1>1, <1>2, <1>4, StepsAre
  <1>6. After(i) \in Steps /\ CallBefore(After(i)) = i + 1
    BY <1>2, StepsAre
  <1> HIDE DEF i, l
  <1>7. i + 1 \in 1 .. l
    BY <1>5
  <1> QED BY <1>3, <1>6, <1>7 DEF i, l

LEMMA PushedActed ==
    ASSUME NEW f, NEW w, Entered(f, w), f = "M", St(w) = 80, Len(w.f.ctx) < Depth,
           StepOf(w).slot \in DOMAIN prog, ~StepOf(w).parallel
    PROVE  Acted(f, w, Pushed(w, StepOf(w).slot))
  <1> DEFINE s == w.f.ctx
             top == Top(w.f)
             slot == StepOf(w).slot
             c == [slot |-> top.slot, step |-> After(top.step), st |-> 10]
             d == [slot |-> slot, step |-> 0, st |-> 10]
             r == AtTop(s, c)
             q == Append(r, d)
             v == WithStack(w, q)
  <1>1. /\ WorkOK(f, w) /\ StackOK(prog, f, s) /\ prog \in Programs
    BY DEF Entered, WorkOK, BlockOK
  <1>2. /\ top \in Contexts(prog) /\ top.st = 80 /\ StepOf(w) = StepAt(prog, top)
        /\ Fits(prog, top)
    BY <1>1, TopIs DEF St
  <1>3. StepAt(prog, top).cmd = "CALL"
    BY <1>2 DEF Fits
  <1>4. /\ After(top.step) \in Steps /\ CallBefore(After(top.step)) = top.step + 1
        /\ top.step + 1 \in 1 .. Len(prog[top.slot])
        /\ StepAt(prog, top) = prog[top.slot][top.step + 1]
    <2> HIDE DEF top
    <2> QED BY <1>1, <1>2, <1>3, CallStep
  <1>5. c \in Contexts(prog) /\ Fits(prog, c) /\ d \in Contexts(prog) /\ Fits(prog, d)
        /\ c.slot = top.slot
    <2>1. top.slot \in DOMAIN prog
      BY <1>2 DEF Contexts
    <2> HIDE DEF top, slot
    <2>2. c \in Contexts(prog) /\ d \in Contexts(prog) /\ c.st = 10 /\ d.st = 10
          /\ c.slot = top.slot
      BY <1>4, <2>1, StepsAre DEF Contexts, States, slot
    <2> QED BY <2>2 DEF Fits
  <1>6. Awaits(prog, c, d)
    <2>1. /\ c.st = 10 /\ c.step = After(top.step) /\ c.slot = top.slot /\ d.slot = slot
      OBVIOUS
    <2>2. /\ prog[top.slot][top.step + 1].cmd = "CALL"
          /\ ~prog[top.slot][top.step + 1].parallel
          /\ prog[top.slot][top.step + 1].slot = slot
      BY <1>2, <1>3, <1>4
    <2>3. CallBefore(c.step) = top.step + 1 /\ top.step + 1 \in 1 .. Len(prog[c.slot])
      BY <1>4, <2>1
    <2> HIDE DEF c, d, slot, top
    <2> QED BY <2>1, <2>2, <2>3, Zenon DEF Awaits
  <1>7. Pushed(w, slot) = v
    <2>1. [s EXCEPT ![Len(s)].st = 10, ![Len(s)].step = After(@)] = r
      <3> DEFINE n == Len(s)
                 m == After(top.step)
      <3>1. s \in Seq(Contexts(prog)) /\ n \in 1 .. Depth /\ Depth \in Nat
        BY <1>1, SequencerAssumption DEF StackOK
      <3>2. s[n] = top /\ n \in DOMAIN s
        BY <3>1 DEF Top
      <3>3. c = [[top EXCEPT !.st = 10] EXCEPT !.step = m]
        <4> DEFINE k == After(top.step)
        <4>1. m = k /\ top \in Contexts(prog)
          BY <1>2
        <4>2. c = [slot |-> top.slot, step |-> k, st |-> 10]
          OBVIOUS
        <4> HIDE DEF top, m, k, c
        <4>3. [slot |-> top.slot, step |-> k, st |-> 10] = [[top EXCEPT !.st = 10] EXCEPT !.step = k]
          <5> DEFINE e == [top EXCEPT !.st = 10]
          <5>1. /\ e = [slot |-> top.slot, step |-> top.step, st |-> 10]
            BY <4>1 DEF Contexts
          <5> HIDE DEF e
          <5>2. [e EXCEPT !.step = k] = [slot |-> top.slot, step |-> k, st |-> 10]
            BY <5>1
          <5> QED BY <5>2 DEF e
        <4> QED BY <4>1, <4>2, <4>3
      <3>4. [top EXCEPT !.st = 10].step = top.step
        <4> HIDE DEF top
        <4> QED BY <1>2 DEF Contexts
      <3> HIDE DEF top, c
      <3>5. [s EXCEPT ![n].st = 10, ![n].step = After(@)] = [s EXCEPT ![n] = c]
        BY <3>2, <3>3, <3>4
      <3> QED BY <3>5 DEF AtTop
    <2> HIDE DEF r
    <2> DEFINE e == [s EXCEPT ![Len(s)].st = 10, ![Len(s)].step = After(@)]
    <2>2. Pushed(w, slot) = WithStack(w, Append(e, d))
      BY Zenon DEF Pushed, WithStack
    <2> HIDE DEF e
    <2>3. e = r
      BY <2>1 DEF e
    <2> QED BY <2>2, <2>3
  <1> HIDE DEF c, d, slot, top
  <1>8. /\ StackOK(prog, f, r) /\ Len(r) = Len(s) /\ r[Len(s)] = c
        /\ \A i \in 1 .. Len(s) - 1 : r[i] = s[i]
    <2> HIDE DEF s
    <2> QED BY <1>1, <1>5, AtTopIs
  <1>9. /\ Len(s) \in Nat /\ Len(s) >= 1 /\ Len(s) < Depth /\ Depth \in Nat
        /\ r \in Seq(Contexts(prog)) /\ \A i \in 1 .. Len(r) : Fits(prog, r[i])
    BY <1>1, <1>8, SequencerAssumption DEF StackOK
  <1> HIDE DEF r, s
  <1>10. /\ q \in Seq(Contexts(prog)) /\ Len(q) = Len(s) + 1 /\ q[Len(s) + 1] = d
         /\ \A i \in 1 .. Len(s) : q[i] = r[i]
    BY <1>5, <1>8, <1>9
  <1> HIDE DEF q
  <1>11. StackOK(prog, f, q)
    <2>1. \A i \in 1 .. Len(q) : Fits(prog, q[i])
      BY <1>5, <1>8, <1>9, <1>10
    <2> QED BY <1>9, <1>10, <2>1 DEF StackOK
  <1>12. ASSUME Whole(prog, s) PROVE Whole(prog, q)
    <2>1. ASSUME NEW i \in 1 .. Len(q) - 1 PROVE Awaits(prog, q[i], q[i + 1])
      <3>1. CASE i = Len(s)
        BY <1>6, <1>8, <1>9, <1>10, <3>1
      <3>2. CASE i # Len(s)
        <4>1. i \in 1 .. Len(s) - 1 /\ q[i] = s[i] /\ i + 1 \in 1 .. Len(s) /\ q[i + 1] = r[i + 1]
          BY <1>8, <1>9, <1>10, <3>2
        <4>2. Awaits(prog, s[i], s[i + 1])
          BY <1>12, <4>1 DEF Whole
        <4>3. r[i + 1].slot = s[i + 1].slot
          <5>1. CASE i + 1 = Len(s)
            BY <1>5, <1>8, <5>1 DEF top, Top, s
          <5>2. CASE i + 1 # Len(s)
            BY <1>8, <4>1, <5>2
          <5> QED BY <5>1, <5>2
        <4> QED BY <4>1, <4>2, <4>3 DEF Awaits
      <3> QED BY <3>1, <3>2
    <2>2. q[Len(q)].st = 10
      BY <1>9, <1>10 DEF d
    <2> QED BY <2>1, <2>2 DEF Whole
  <1>13. /\ WorkOK(f, v) /\ v.f.ctx = q /\ v.ctl = w.ctl /\ v.called = w.called
         /\ v.left = w.left
    BY <1>1, <1>11, StackWork
  <1> HIDE DEF v
  <1>14. Acted(f, w, v)
    BY <1>12, <1>13 DEF Acted, Entered, s
  <1> QED BY <1>7, <1>14 DEF slot

\* Main calls a worker that is free.
LEMMA CalledActed ==
    ASSUME NEW f, NEW w, NEW u, Acted(f, w, u), f = "M", NEW g, CalledOK(prog, g),
           \A x \in Workers : g[x].start => ~fb[x].busy
    PROVE  Acted(f, w, [u EXCEPT !.called = g])
  <1> DEFINE v == [u EXCEPT !.called = g]
  <1>1. /\ Shape(v) /\ v.f = u.f /\ v.alarm = u.alarm /\ v.called = g
        /\ v.pack = u.pack /\ v.cycles = u.cycles /\ v.ctl = u.ctl /\ v.left = u.left
    BY DEF Acted, WorkOK, Shape
  <1> HIDE DEF v
  <1>2. WorkOK(f, v)
    BY <1>1, Zenon DEF Acted, WorkOK
  <1>3. Acted(f, w, v)
    BY <1>1, <1>2 DEF Acted
  <1> QED BY <1>3 DEF v

LEMMA CallSaved == ASSUME NEW f, NEW w, Entered(f, w), Call(f, w) PROVE Saved(f, w)
  <1> DEFINE s == StepOf(w)
             g == [x \in Workers |->
                     IF x \in WorkerFor(w) THEN [start |-> TRUE, slot |-> s.slot] ELSE w.called[x]]
             u == Goto(w, 99)
  <1>1. Like(f, w, w) /\ St(w) = 80 /\ w.prog = prog /\ Len(w.f.ctx) \in 1 .. Depth /\ Depth \in Nat
    BY EnteredLike, TopIs DEF Call, Entered
  <1>2. /\ Acted(f, w, Fail(w, 94)) /\ Acted(f, w, Fail(w, 96)) /\ Acted(f, w, Fail(w, 93))
        /\ Acted(f, w, Fail(w, 50)) /\ Acted(f, w, u)
    BY <1>1, Fails, GoesOn DEF States, AlarmIds
  <1>3. ASSUME f = "M", s.slot \in DOMAIN prog, ~s.parallel, ~(Len(w.f.ctx) >= Depth)
        PROVE  Acted(f, w, Pushed(w, s.slot))
    <2> DEFINE n == Len(w.f.ctx)
    <2>1. n < Depth
      <3>1. n \in 1 .. Depth /\ ~(n >= Depth) /\ Depth \in Nat
        BY <1>1, <1>3
      <3> HIDE DEF n
      <3> QED BY <3>1
    <2> QED BY <1>1, <1>3, <2>1, PushedActed
  <1>4. ASSUME f = "M", s.slot \in DOMAIN prog
        PROVE  Acted(f, w, Goto([w EXCEPT !.called = g], 99))
    <2>1. CalledOK(prog, w.called) /\ \A x \in Workers : ~w.called[x].start
      BY <1>4 DEF Entered, WorkOK
    <2>2. \A x \in WorkerFor(w) : ~fb[x].busy
      BY DEF WorkerFor
    <2>3. CalledOK(prog, g) /\ \A x \in Workers : g[x].start => ~fb[x].busy
      <3> HIDE DEF s
      <3> QED BY <1>4, <2>1, <2>2 DEF CalledOK
    <2> HIDE DEF g
    <2>4. Goto([w EXCEPT !.called = g], 99) = [u EXCEPT !.called = g]
      <3>1. Shape(w)
        BY DEF Entered, WorkOK
      <3> DEFINE x == [w EXCEPT !.called = g]
                 i == [w.f EXCEPT !.ctx[Len(w.f.ctx)].st = 99]
      <3>2. x.f = w.f
        BY <3>1 DEF Shape
      <3>3. Goto(x, 99) = [x EXCEPT !.f = [x.f EXCEPT !.ctx[Len(x.f.ctx)].st = 99]]
        BY Zenon DEF Goto
      <3>4. u = [w EXCEPT !.f = i]
        BY Zenon DEF Goto
      <3> HIDE DEF u
      <3>5. Goto(x, 99) = [x EXCEPT !.f = i]
        BY <3>2, <3>3
      <3> HIDE DEF i
      <3>6. [[w EXCEPT !.called = g] EXCEPT !.f = i] = [[w EXCEPT !.f = i] EXCEPT !.called = g]
        BY <3>1 DEF Shape
      <3> QED BY <3>4, <3>5, <3>6
    <2> HIDE DEF u
    <2> QED BY <1>2, <1>4, <2>3, <2>4, CalledActed
  <1>5. Save(f, IF f # "M" THEN Fail(w, 94)
                ELSE IF s.slot \notin DOMAIN prog THEN Fail(w, 96)
                ELSE IF ~s.parallel
                THEN IF Len(w.f.ctx) >= Depth THEN Fail(w, 93) ELSE Pushed(w, s.slot)
                ELSE IF WorkerFor(w) = {} THEN Fail(w, 50)
                ELSE Goto([w EXCEPT !.called = g], 99))
    BY DEF Call
  <1> HIDE DEF s, g, u
  <1> QED BY <1>2, <1>3, <1>4, <1>5 DEF Saved

---------------------------------------------------------------------------
(* What a call of a block finds when it gets to the CASE.                    *)

Loaded(f) ==
    [f |-> fb[f], prog |-> prog, out |-> out, alarm |-> alarm, ctl |-> ctl,
     check |-> check, pack |-> pack, cycles |-> cycles, left |-> FALSE,
     called |-> IF f = "M" THEN PulsesOff(called) ELSE called]

\* The delayed outputs after their timers came to q.
Given(d, q) ==
    [k \in 1 .. Delays |-> IF d[k].pend /\ q[k] = "done"
                           THEN [d[k] EXCEPT !.t = q[k], !.start = FALSE, !.pend = FALSE]
                           ELSE [d[k] EXCEPT !.t = q[k]]]

LEMMA LoadedOK ==
    ASSUME NEW f \in FBs, SequencerTypes, WholeStacks
    PROVE  Entered(f, Loaded(f))
  <1> DEFINE w == Loaded(f)
             g == IF f = "M" THEN PulsesOff(called) ELSE called
  <1>1. CalledOK(prog, g) /\ (f = "M" => \A x \in Workers : ~g[x].start)
    <2>1. CASE f = "M"
      <3>1. CalledOK(prog, called)
        BY DEF SequencerTypes
      <3>2. PulsesOff(called) \in [Workers -> [start : BOOLEAN, slot : DOMAIN prog]]
            /\ \A x \in Workers : ~PulsesOff(called)[x].start
        BY <3>1 DEF CalledOK, PulsesOff
      <3> QED BY <2>1, <3>2 DEF CalledOK
    <2>2. CASE f # "M"
      BY <2>2 DEF SequencerTypes
    <2> QED BY <2>1, <2>2
  <1> HIDE DEF g
  <1>2. /\ w.f = fb[f] /\ w.alarm = alarm /\ w.called = g /\ w.pack = pack
        /\ w.cycles = cycles /\ w.ctl = ctl /\ w.check = check /\ w.left = FALSE
        /\ w.out = out
    BY DEF Loaded, g
  <1>3. w \in [f : {fb[f]}, prog : {prog}, out : {out}, alarm : {alarm}, ctl : 0 .. 2,
               check : BOOLEAN, pack : {pack}, cycles : {cycles}, left : BOOLEAN, called : {g}]
    <2>1. ctl \in 0 .. 2 /\ check \in BOOLEAN
      BY DEF SequencerTypes
    <2> QED BY <2>1 DEF Loaded, g
  <1> HIDE DEF w
  <1>4. Shape(w)
    BY <1>2, <1>3, Zenon DEF Shape
  <1>5. WorkOK(f, w)
    <2>1. BlockOK(prog, f, fb[f]) /\ AlarmOK(alarm) /\ PackOK(pack, cycles)
      BY DEF SequencerTypes
    <2> QED BY <1>1, <1>2, <1>4, <2>1 DEF WorkOK
  <1>6. prog \in Programs /\ (f \in torn \/ Whole(prog, fb[f].ctx))
    BY DEF SequencerTypes, WholeStacks
  <1>7. Entered(f, w)
    BY <1>1, <1>2, <1>5, <1>6 DEF Entered
  <1> QED BY <1>7 DEF w

\* The alarm reset.
LEMMA ResetAlarms ==
    ASSUME NEW f, NEW w, WorkOK(f, w)
    PROVE  /\ Like(f, w, AlarmsReset(w)) /\ AlarmsReset(w).ctl = w.ctl
           /\ AlarmsReset(w).out = w.out /\ AlarmsReset(w).f.delay = w.f.delay
           /\ \/ AlarmsReset(w).f.ctx = w.f.ctx /\ AlarmsReset(w).left = w.left
              \/ St(w) \in {900, 911} /\ AlarmsReset(w).left
  <1> DEFINE a == [on |-> FALSE, id |-> 0, user |-> FALSE]
             u == [w EXCEPT !.alarm = a]
             v == Goto(u, 0)
             x == [v EXCEPT !.left = TRUE]
  <1>1. /\ Like(f, w, u) /\ u.f = w.f /\ u.left = w.left
    <2>1. Like(f, w, w) /\ AlarmOK(a)
      BY LikeSelf DEF AlarmOK, AlarmIds
    <2> HIDE DEF a
    <2> QED BY <2>1, AlarmLike
  <1>2. u.ctl = w.ctl /\ u.out = w.out
    BY DEF WorkOK, Shape
  <1> HIDE DEF u
  <1>3. Like(f, w, v)
    <2>1. 0 \in States \ {60, 61, 80}
      BY DEF States
    <2> QED BY <1>1, <2>1, GotoPlain
  <1>4. v.ctl = u.ctl /\ v.out = u.out /\ v.f.delay = u.f.delay
    <2> DEFINE i == u.f
               c == [i.ctx EXCEPT ![Len(i.ctx)].st = 0]
               j == [i EXCEPT !.ctx = c]
    <2>1. v = [u EXCEPT !.f = j]
      BY DEF Goto
    <2>2. i \in [ctx : {i.ctx}, tmr : {"off", "on", "done"}, start : BOOLEAN, seen : BOOLEAN,
                 prev : BOOLEAN, busy : BOOLEAN, delay : {i.delay}]
      BY <1>1 DEF Like, WorkOK, BlockOK
    <2> HIDE DEF v
    <2>3. j.delay = i.delay
      <3> HIDE DEF i, c
      <3> QED BY <2>2
    <2> HIDE DEF j
    <2>4. v.f = j /\ v.ctl = u.ctl /\ v.out = u.out
      BY <1>1, <2>1 DEF Like, WorkOK, Shape
    <2> QED BY <2>3, <2>4
  <1> HIDE DEF v
  <1>5. Like(f, w, x) /\ x.left /\ x.f = v.f
    BY <1>3, LeftLike
  <1>6. x.ctl = v.ctl /\ x.out = v.out
    BY <1>3 DEF Like, WorkOK, Shape
  <1> HIDE DEF x
  <1>7. AlarmsReset(w) = IF St(w) \in {900, 911} THEN x ELSE u
    BY DEF AlarmsReset, x, v, u
  <1>8. CASE St(w) \in {900, 911}
    BY <1>1, <1>2, <1>4, <1>5, <1>6, <1>7, <1>8
  <1>9. CASE St(w) \notin {900, 911}
    BY <1>1, <1>2, <1>7, <1>9
  <1> QED BY <1>8, <1>9

LEMMA TicksType ==
    ASSUME NEW t, NEW on, NEW q \in Ticks(t, on) PROVE q \in {"off", "on", "done"}
  BY DEF Ticks

LEMMA GivenOK ==
    ASSUME NEW d, DelaysOK(d), NEW q \in [1 .. Delays -> {"off", "on", "done"}]
    PROVE  /\ DelaysOK(Given(d, q))
           /\ \A o : (\A k \in 1 .. Delays : ~d[k].pend) =>
                Switched(d, q, o) = o /\ \A k \in 1 .. Delays : ~Given(d, q)[k].pend
  <1>1. ASSUME NEW e, e \in [t : {"off", "on", "done"}, start : BOOLEAN, pend : BOOLEAN,
                             bit : {e.bit}, on : {e.on}], NEW z \in {"off", "on", "done"}
        PROVE  /\ LET g == [e EXCEPT !.t = z, !.start = FALSE, !.pend = FALSE] IN
                  g \in [t : {"off", "on", "done"}, start : BOOLEAN, pend : BOOLEAN,
                         bit : {g.bit}, on : {g.on}]
               /\ LET g == [e EXCEPT !.t = z] IN
                  g.pend = e.pend /\ g \in [t : {"off", "on", "done"}, start : BOOLEAN,
                                            pend : BOOLEAN, bit : {g.bit}, on : {g.on}]
    BY <1>1
  <1>2. ASSUME NEW k \in 1 .. Delays
        PROVE  LET g == Given(d, q)[k] IN
               /\ g \in [t : {"off", "on", "done"}, start : BOOLEAN, pend : BOOLEAN,
                         bit : {g.bit}, on : {g.on}]
               /\ ~d[k].pend => ~g.pend
    <2> DEFINE e == d[k]
               z == q[k]
               g == [e EXCEPT !.t = z, !.start = FALSE, !.pend = FALSE]
               h == [e EXCEPT !.t = z]
               x == Given(d, q)[k]
    <2>1. x = IF e.pend /\ z = "done" THEN g ELSE h
      BY DEF Given
    <2>2. /\ e \in [t : {"off", "on", "done"}, start : BOOLEAN, pend : BOOLEAN,
                    bit : {e.bit}, on : {e.on}]
          /\ z \in {"off", "on", "done"}
      BY DEF DelaysOK, Delay5
    <2> HIDE DEF x
    <2>3. /\ g \in [t : {"off", "on", "done"}, start : BOOLEAN, pend : BOOLEAN,
                    bit : {g.bit}, on : {g.on}]
          /\ h.pend = e.pend /\ h \in [t : {"off", "on", "done"}, start : BOOLEAN,
                                       pend : BOOLEAN, bit : {h.bit}, on : {h.on}]
      <3> HIDE DEF e, z
      <3> QED BY <1>1, <2>2
    <2> HIDE DEF g, h
    <2>4. /\ x \in [t : {"off", "on", "done"}, start : BOOLEAN, pend : BOOLEAN,
                    bit : {x.bit}, on : {x.on}]
          /\ ~e.pend => ~x.pend
      <3>1. CASE e.pend /\ z = "done"
        <4>1. x = g
          BY <2>1, <3>1
        <4> QED BY <2>3, <3>1, <4>1
      <3>2. CASE ~(e.pend /\ z = "done")
        <4>1. x = h
          BY <2>1, <3>2
        <4> QED BY <2>3, <4>1
      <3> QED BY <3>1, <3>2
    <2> QED BY <2>4 DEF x
  <1>3. DOMAIN Given(d, q) = 1 .. Delays
    BY DEF Given
  <1>4. DelaysOK(Given(d, q))
    BY <1>2, <1>3, Zenon DEF DelaysOK, Delay5
  <1>5. ASSUME NEW o, \A k \in 1 .. Delays : ~d[k].pend
        PROVE  Switched(d, q, o) = o /\ \A k \in 1 .. Delays : ~Given(d, q)[k].pend
    <2>1. Switched(d, q, o) = o
      BY <1>5 DEF Switched
    <2>2. \A k \in 1 .. Delays : ~Given(d, q)[k].pend
      BY <1>2, <1>5, Zenon
    <2> QED BY <2>1, <2>2
  <1> QED BY <1>4, <1>5

LEMMA ReadyIs ==
    ASSUME NEW f \in FBs, SequencerTypes, WholeStacks, NEW w \in Ready(f)
    PROVE  /\ Entered(f, w) /\ w.ctl = ctl
           /\ w.called = IF f = "M" THEN PulsesOff(called) ELSE called
           /\ \/ w.f.ctx = fb[f].ctx
              \/ Top(fb[f]).st \in {900, 911} /\ w.left
           /\ (\A k \in 1 .. Delays : ~fb[f].delay[k].pend) =>
                 w.out = out /\ \A k \in 1 .. Delays : ~w.f.delay[k].pend
  <1> DEFINE l == Loaded(f)
             b == IF clear THEN AlarmsReset(l) ELSE l
             d == b.f.delay
  <1>1. Entered(f, l) /\ WorkOK(f, l)
    BY LoadedOK DEF Entered
  <1>2. /\ l.ctl = ctl /\ l.called = IF f = "M" THEN PulsesOff(called) ELSE called
        /\ l.f = fb[f] /\ l.out = out /\ l.left = FALSE
    BY DEF Loaded
  <1>3. PICK q \in [1 .. Delays -> {"off", "on", "done"}] :
          w = [b EXCEPT !.out = Switched(d, q, b.out), !.f.delay = Given(d, q)]
    <2>1. Ready(f) = Delayed(b)
      BY Zenon DEF Ready, Loaded
    <2> HIDE DEF b
    <2>2. w \in Delayed(b)
      BY <2>1
    <2> QED BY <2>2 DEF Delayed, Given
  <1> HIDE DEF l
  <1>4. /\ Like(f, l, b) /\ b.ctl = l.ctl /\ b.out = l.out /\ b.f.delay = l.f.delay
        /\ \/ b.f.ctx = l.f.ctx /\ b.left = l.left
           \/ St(l) \in {900, 911} /\ b.left
    <2>1. CASE clear
      BY <1>1, <2>1, ResetAlarms
    <2>2. CASE ~clear
      BY <1>1, <2>2, LikeSelf
    <2> QED BY <2>1, <2>2
  <1> HIDE DEF b
  <1>5. DelaysOK(d) /\ Shape(b)
    BY <1>4 DEF Like, WorkOK, BlockOK
  <1> DEFINE o == Switched(d, q, b.out)
             g == Given(d, q)
             u == [b EXCEPT !.out = o]
  <1>6. /\ DelaysOK(g)
        /\ (\A k \in 1 .. Delays : ~d[k].pend) => o = b.out /\ \A k \in 1 .. Delays : ~g[k].pend
    BY <1>5, GivenOK
  <1> HIDE DEF o, g
  <1>7. w = [u EXCEPT !.f.delay = g]
    BY <1>3 DEF o, g
  <1>8. Like(f, l, u) /\ u.f = b.f /\ u.left = b.left
    BY <1>4, OutLike
  <1>9. u.ctl = b.ctl /\ u.out = o
    BY <1>5 DEF Shape
  <1> HIDE DEF u
  <1>10. /\ Like(f, l, w) /\ w.f.ctx = u.f.ctx /\ w.f.delay = g /\ w.left = u.left
    BY <1>6, <1>7, <1>8, DelayLike
  <1>11. w.ctl = u.ctl /\ w.out = u.out
    <2> DEFINE i == [u.f EXCEPT !.delay = g]
    <2>1. w = [u EXCEPT !.f = i]
      BY <1>7
    <2> HIDE DEF i
    <2> QED BY <1>8, <2>1 DEF Like, WorkOK, Shape
  <1>12. /\ w.ctl = ctl /\ w.called = IF f = "M" THEN PulsesOff(called) ELSE called
         /\ \/ w.f.ctx = fb[f].ctx /\ w.left = FALSE
            \/ Top(fb[f]).st \in {900, 911} /\ w.left
    BY <1>2, <1>4, <1>8, <1>9, <1>10, <1>11 DEF Like, St
  <1>13. (\A k \in 1 .. Delays : ~fb[f].delay[k].pend) =>
           w.out = out /\ \A k \in 1 .. Delays : ~w.f.delay[k].pend
    BY <1>2, <1>4, <1>6, <1>9, <1>10, <1>11
  <1>14. Entered(f, w)
    <2>1. /\ WorkOK(f, w) /\ prog \in Programs /\ (f = "M" => \A x \in Workers : ~w.called[x].start)
      BY <1>1, <1>10 DEF Like, Entered
    <2>2. f \in torn \/ w.left \/ Whole(prog, w.f.ctx)
      BY <1>1, <1>2, <1>12 DEF Entered
    <2> QED BY <2>1, <2>2 DEF Entered
  <1> QED BY <1>12, <1>13, <1>14
\* A call that changes its instance as its working variables say.
Stored(f, u) ==
    /\ Shared(f, u)
    /\ \E i : /\ fb' = [fb EXCEPT ![f] = i] /\ BlockOK(prog, f, i)
              /\ i.ctx = u.f.ctx /\ i.delay = u.f.delay
              /\ f \in Workers => (i.busy <=> IsBusy(i))

LEMMA SaveStores ==
    ASSUME NEW f, NEW u, WorkOK(f, u), Save(f, u), check \in BOOLEAN PROVE Stored(f, u)
  <1>1. PICK q \in Ticks(u.f.tmr, u.f.start) :
          fb' = [fb EXCEPT ![f] = [u.f EXCEPT !.tmr = q, !.prev = check,
                                              !.busy = (St(u) # 0 \/ Len(u.f.ctx) > 1)]]
    BY DEF Save
  <1> DEFINE v == u.f
             b == St(u) # 0 \/ Len(u.f.ctx) > 1
             i == [v EXCEPT !.tmr = q, !.prev = check, !.busy = b]
  <1>2. fb' = [fb EXCEPT ![f] = i]
    BY <1>1
  <1>3. b \in BOOLEAN /\ q \in {"off", "on", "done"}
    BY TicksType
  <1>4. /\ v \in [ctx : {v.ctx}, tmr : {"off", "on", "done"}, start : BOOLEAN, seen : BOOLEAN,
                  prev : BOOLEAN, busy : BOOLEAN, delay : {v.delay}]
        /\ StackOK(prog, f, v.ctx) /\ DelaysOK(v.delay)
    BY DEF WorkOK, BlockOK
  <1>5. b <=> IsBusy(v)
    BY DEF IsBusy, St
  <1> HIDE DEF v, b
  <1>6. /\ i \in [ctx : {i.ctx}, tmr : {"off", "on", "done"}, start : BOOLEAN, seen : BOOLEAN,
                  prev : BOOLEAN, busy : BOOLEAN, delay : {i.delay}]
        /\ i.ctx = v.ctx /\ i.delay = v.delay /\ i.busy = b
    BY <1>3, <1>4
  <1> HIDE DEF i
  <1>7. BlockOK(prog, f, i)
    BY <1>4, <1>6 DEF BlockOK
  <1>8. i.busy <=> IsBusy(i)
    BY <1>5, <1>6 DEF IsBusy, Top
  <1>9. Shared(f, u)
    BY DEF Save
  <1> QED BY <1>2, <1>6, <1>7, <1>8, <1>9 DEF Stored, v

\* A packing base out of range: the block is left without a word to the pendant.
LEMMA BadBaseStores ==
    ASSUME NEW f, NEW w, Entered(f, w), MoveTable(f, w), BadBase(f, w), check \in BOOLEAN
    PROVE  \E u : Acted(f, w, u) /\ Stored(f, u)
  <1> DEFINE a == [w.alarm EXCEPT !.id = 22]
             v == [w EXCEPT !.alarm = a]
             u == Goto(v, 911)
             j == u.f
             i == [j EXCEPT !.prev = check]
  <1>1. fb' = [fb EXCEPT ![f] = i] /\ Shared(f, u)
    BY DEF MoveTable
  <1>2. Like(f, w, v)
    <2>1. AlarmOK(w.alarm)
      BY DEF Entered, WorkOK
    <2>2. AlarmOK(a)
      BY <2>1 DEF AlarmOK, AlarmIds
    <2> HIDE DEF a
    <2> QED BY <2>2, EnteredLike, AlarmLike
  <1> HIDE DEF v
  <1>3. Acted(f, w, u)
    BY <1>2, GoesOn DEF States
  <1> HIDE DEF u
  <1>4. /\ j \in [ctx : {j.ctx}, tmr : {"off", "on", "done"}, start : BOOLEAN, seen : BOOLEAN,
                  prev : BOOLEAN, busy : BOOLEAN, delay : {j.delay}]
        /\ StackOK(prog, f, j.ctx) /\ DelaysOK(j.delay)
    BY <1>3 DEF Acted, WorkOK, BlockOK
  <1> HIDE DEF j
  <1>5. /\ i \in [ctx : {i.ctx}, tmr : {"off", "on", "done"}, start : BOOLEAN, seen : BOOLEAN,
                  prev : BOOLEAN, busy : BOOLEAN, delay : {i.delay}]
        /\ i.ctx = j.ctx /\ i.delay = j.delay
    BY <1>4
  <1> HIDE DEF i
  <1>6. BlockOK(prog, f, i)
    BY <1>4, <1>5 DEF BlockOK
  <1>7. f \notin Workers
    BY DEF BadBase, Workers
  <1> QED BY <1>1, <1>3, <1>5, <1>6, <1>7 DEF Stored, j

LEMMA ExecuteStores ==
    ASSUME NEW f \in FBs, NEW w, Entered(f, w), Execute(f, w), check \in BOOLEAN
    PROVE  \E u : Acted(f, w, u) /\ Stored(f, u)
  <1>1. CASE MoveTable(f, w) /\ BadBase(f, w)
    BY <1>1, BadBaseStores
  <1>2. CASE ~(MoveTable(f, w) /\ BadBase(f, w))
    <2>1. Saved(f, w)
      <3>1. CASE Idle(f, w)
        BY <3>1, IdleActs DEF Saved
      <3>2. CASE MoveTable(f, w)
        BY <1>2, <3>2, MoveTableSaved
      <3>3. CASE MoveSettles(f, w) \/ MoveStarts(f, w) \/ MoveDone(f, w)
        BY <3>3, MovesSaved
      <3>4. CASE Fetch(f, w) \/ Call(f, w) \/ StepDone(f, w) \/ Trap(f, w)
        BY <3>4, FetchSaved, CallSaved, StepDoneSaved, TrapSaved
      <3>5. CASE CheckWait(f, w) \/ MoveSeen(f, w) \/ Output(f, w) \/ WaitInput(f, w)
        BY <3>5, CheckWaitSaved, MoveSeenSaved, OutputSaved, WaitInputSaved
      <3>6. CASE Input(f, w) \/ Jump(f, w) \/ Delay(f, w) \/ Hold(f, w) \/ Data(f, w)
        BY <3>6, InputSaved, JumpSaved, DelaySaved, DataSaved
      <3> QED BY <3>1, <3>2, <3>3, <3>4, <3>5, <3>6 DEF Execute
    <2> QED BY <2>1, SaveStores DEF Saved, Acted
  <1> QED BY <1>1, <1>2

---------------------------------------------------------------------------
(* A call of a block keeps the invariant.                                    *)

LEMMA StoredParts ==
    ASSUME NEW f \in FBs, NEW u, Stored(f, u), DOMAIN fb = FBs
    PROVE  /\ DOMAIN fb' = FBs /\ \A g \in FBs \ {f} : fb'[g] = fb[g]
           /\ BlockOK(prog, f, fb'[f])
           /\ fb'[f].ctx = u.f.ctx /\ fb'[f].delay = u.f.delay
           /\ f \in Workers => (fb'[f].busy <=> IsBusy(fb'[f]))
           /\ out' = u.out /\ alarm' = u.alarm /\ ctl' = u.ctl /\ check' = u.check
           /\ called' = u.called /\ pack' = u.pack /\ cycles' = u.cycles
           /\ torn' = IF u.left THEN torn \cup {f} ELSE torn
  <1>1. Shared(f, u)
    BY DEF Stored
  <1>2. PICK i : /\ fb' = [fb EXCEPT ![f] = i] /\ BlockOK(prog, f, i)
                 /\ i.ctx = u.f.ctx /\ i.delay = u.f.delay
                 /\ f \in Workers => (i.busy <=> IsBusy(i))
    BY DEF Stored
  <1>3. DOMAIN fb' = FBs /\ fb'[f] = i /\ \A g \in FBs \ {f} : fb'[g] = fb[g]
    BY <1>2
  <1> QED BY <1>1, <1>2, <1>3 DEF Shared

\* The call of a block that is not reset.
Called(f, w, u) ==
    /\ turn = f /\ ~reset /\ turn' = AfterTurn[f] /\ quiet' = quiet /\ UNCHANGED progVars
    /\ w \in Ready(f) /\ Acted(f, w, u) /\ Stored(f, u)

LEMMA StoredTypes ==
    ASSUME SequencerIInv, NEW f \in FBs, NEW w, NEW u, Called(f, w, u)
    PROVE  SequencerTypes' /\ WholeStacks' /\ BusyShown' /\ ResetDone'
  <1>1. /\ Acted(f, w, u) /\ Stored(f, u) /\ turn' = AfterTurn[f] /\ ~reset /\ quiet' = quiet
        /\ prog' = prog /\ last' = last /\ reset' = reset /\ clear' = clear
    BY DEF Called, progVars
  <1>2. SequencerTypes /\ WholeStacks /\ BusyShown /\ DOMAIN fb = FBs
    BY DEF SequencerIInv, SequencerTypes
  <1>3. /\ DOMAIN fb' = FBs /\ \A g \in FBs \ {f} : fb'[g] = fb[g]
        /\ BlockOK(prog, f, fb'[f])
        /\ fb'[f].ctx = u.f.ctx /\ fb'[f].delay = u.f.delay
        /\ f \in Workers => (fb'[f].busy <=> IsBusy(fb'[f]))
        /\ out' = u.out /\ alarm' = u.alarm /\ ctl' = u.ctl /\ check' = u.check
        /\ called' = u.called /\ pack' = u.pack /\ cycles' = u.cycles
        /\ torn' = IF u.left THEN torn \cup {f} ELSE torn
    BY <1>1, <1>2, StoredParts
  <1>4. SequencerTypes'
    <2>1. \A g \in FBs : BlockOK(prog, g, fb'[g])
      BY <1>2, <1>3 DEF SequencerTypes
    <2>2. /\ AlarmOK(alarm') /\ CalledOK(prog, called') /\ PackOK(pack', cycles')
          /\ ctl' \in 0 .. 2 /\ check' \in BOOLEAN
      BY <1>1, <1>3 DEF Acted, WorkOK, Shape
    <2>3. turn' \in DOMAIN AfterTurn
      BY <1>1 DEF AfterTurn, FBs, Workers
    <2>4. prog \in Programs /\ last \in 0 .. 2 /\ reset \in BOOLEAN /\ clear \in BOOLEAN
          /\ quiet \in BOOLEAN
      BY <1>2 DEF SequencerTypes
    <2> QED BY <1>1, <1>3, <2>1, <2>2, <2>3, <2>4 DEF SequencerTypes
  <1>5. WholeStacks'
    <2>1. ASSUME NEW g \in FBs, g \notin torn' PROVE Whole(prog, fb'[g].ctx)
      <3>1. g \notin torn
        BY <1>3, <2>1
      <3>2. CASE g = f
        <4>1. ~u.left
          BY <1>3, <2>1, <3>2
        <4> QED BY <1>1, <1>3, <3>1, <3>2, <4>1 DEF Acted
      <3>3. CASE g # f
        BY <1>2, <1>3, <3>1, <3>3 DEF WholeStacks
      <3> QED BY <3>2, <3>3
    <2> QED BY <1>1, <2>1 DEF WholeStacks
  <1>6. BusyShown'
    <2>1. ASSUME NEW g \in Workers PROVE fb'[g].busy <=> IsBusy(fb'[g])
      <3>1. g \in FBs
        BY DEF FBs
      <3>2. CASE g = f
        BY <1>3, <3>2
      <3>3. CASE g # f
        BY <1>2, <1>3, <3>1, <3>3 DEF BusyShown
      <3> QED BY <3>2, <3>3
    <2> QED BY <2>1 DEF BusyShown
  <1>7. ResetDone'
    BY <1>1 DEF ResetDone
  <1> QED BY <1>4, <1>5, <1>6, <1>7

\* A stack of one program.
LEMMA OneProgram ==
    ASSUME NEW p, NEW f, NEW s, StackOK(p, f, s), Len(s) = 1
    PROVE  s = <<s[1]>> /\ s[Len(s)] = s[1]
  <1>1. s \in Seq(Contexts(p))
    BY DEF StackOK
  <1> QED BY <1>1

LEMMA FreshIs ==
    ASSUME SequencerTypes, NEW f \in FBs, Whole(prog, fb[f].ctx), ~IsBusy(fb[f])
    PROVE  Fresh(f)
  <1> DEFINE s == fb[f].ctx
  <1>1. StackOK(prog, f, s)
    BY DEF SequencerTypes, BlockOK
  <1>2. Len(s) = 1 /\ s[Len(s)].st = 0 /\ s[1].step = 0
    BY DEF IsBusy, Top, Whole
  <1>3. s[1] \in Contexts(prog)
    BY <1>1, <1>2 DEF StackOK
  <1> HIDE DEF s
  <1>4. s = <<s[1]>> /\ s[1].st = 0
    BY <1>1, <1>2, OneProgram
  <1>5. s[1] = [slot |-> s[1].slot, step |-> 0, st |-> 0]
    <2> DEFINE c == s[1]
    <2>1. c \in Contexts(prog) /\ c.st = 0 /\ c.step = 0
      BY <1>2, <1>3, <1>4
    <2> HIDE DEF c
    <2>2. c = [slot |-> c.slot, step |-> 0, st |-> 0]
      BY <2>1 DEF Contexts
    <2> QED BY <2>2 DEF c
  <1> QED BY <1>4, <1>5 DEF Fresh, s

\* What a call does in state 0.
IdleAs(f, w, u) ==
    St(w) = 0 =>
        /\ Starts(f, w) =>
             /\ Top(u.f) = [slot |-> SlotNo(f, w), step |-> Top(w.f).step, st |-> 10]
             /\ Len(u.f.ctx) = Len(w.f.ctx)
        /\ ~Starts(f, w) =>
             u.f.ctx = w.f.ctx /\ u.f.delay = w.f.delay /\ u.ctl = w.ctl /\ u.out = w.out

LEMMA BlockActs ==
    ASSUME SequencerIInv, NEW f \in FBs, Block(f), ~reset
    PROVE  \E w, u : Called(f, w, u) /\ IdleAs(f, w, u)
  <1>1. PICK w \in Ready(f) : Execute(f, w)
    BY DEF Block
  <1>2. Entered(f, w) /\ check \in BOOLEAN /\ quiet \in BOOLEAN
    BY ReadyIs DEF SequencerIInv, SequencerTypes
  <1>3. /\ turn = f /\ ~reset /\ turn' = AfterTurn[f] /\ quiet' = quiet /\ UNCHANGED progVars
    BY <1>2 DEF Block
  <1>4. CASE St(w) = 0
    <2>1. Idle(f, w)
      <3>1. /\ ~CheckWait(f, w) /\ ~Fetch(f, w) /\ ~MoveTable(f, w) /\ ~MoveSettles(f, w)
            /\ ~MoveStarts(f, w) /\ ~MoveSeen(f, w) /\ ~MoveDone(f, w)
        BY <1>4 DEF CheckWait, Fetch, MoveTable, MoveSettles, MoveStarts, MoveSeen, MoveDone
      <3>2. /\ ~Output(f, w) /\ ~WaitInput(f, w) /\ ~Input(f, w) /\ ~Jump(f, w)
            /\ ~Delay(f, w) /\ ~Hold(f, w)
        BY <1>4 DEF Output, WaitInput, Input, Jump, Delay, Hold
      <3>3. ~Data(f, w) /\ ~Call(f, w) /\ ~StepDone(f, w) /\ ~Trap(f, w)
        BY <1>4 DEF Data, Call, StepDone, Trap
      <3> QED BY <1>1, <3>1, <3>2, <3>3 DEF Execute
    <2>2. PICK u : /\ Acted(f, w, u) /\ Save(f, u)
                   /\ Starts(f, w) =>
                        /\ Top(u.f) = [slot |-> SlotNo(f, w), step |-> Top(w.f).step, st |-> 10]
                        /\ Len(u.f.ctx) = Len(w.f.ctx)
                   /\ ~Starts(f, w) =>
                        /\ u.f.ctx = w.f.ctx /\ u.f.delay = w.f.delay
                        /\ u.ctl = w.ctl /\ u.out = w.out
      BY <1>2, <2>1, IdleActs
    <2>3. Stored(f, u)
      BY <1>2, <2>2, SaveStores DEF Acted
    <2>4. IdleAs(f, w, u)
      BY <2>2 DEF IdleAs
    <2> QED BY <1>1, <1>3, <2>2, <2>3, <2>4 DEF Called
  <1>5. CASE St(w) # 0
    <2>1. PICK u : Acted(f, w, u) /\ Stored(f, u)
      BY <1>1, <1>2, ExecuteStores
    <2>2. IdleAs(f, w, u)
      BY <1>5 DEF IdleAs
    <2> QED BY <1>1, <1>3, <2>1, <2>2 DEF Called
  <1> QED BY <1>4, <1>5

\* A worker that is fresh begins the program Main called it with.
LEMMA WorkerBegins ==
    ASSUME SequencerIInv, NEW f \in Workers, NEW w, NEW u, Called(f, w, u), IdleAs(f, w, u),
           ctl = 1, called[f].start, Fresh(f)
    PROVE  Begun(f)'
  <1>1. /\ Acted(f, w, u) /\ Stored(f, u) /\ w \in Ready(f) /\ f \in FBs /\ f # "M"
    BY DEF Called, FBs, Workers
  <1>2. /\ w.ctl = 1 /\ w.called = called
        /\ \/ w.f.ctx = fb[f].ctx
           \/ Top(fb[f]).st \in {900, 911} /\ w.left
    BY <1>1, ReadyIs DEF SequencerIInv
  <1> DEFINE n == fb[f].ctx[1].slot
  <1>3. fb[f].ctx = <<[slot |-> n, step |-> 0, st |-> 0]>>
    BY DEF Fresh
  <1> HIDE DEF n
  <1>4. Top(fb[f]) = [slot |-> n, step |-> 0, st |-> 0] /\ Len(fb[f].ctx) = 1
    BY <1>3 DEF Top
  <1>5. w.f.ctx = fb[f].ctx
    BY <1>2, <1>4
  <1>6. Top(w.f) = [slot |-> n, step |-> 0, st |-> 0] /\ Len(w.f.ctx) = 1
    BY <1>4, <1>5 DEF Top
  <1>7. Starts(f, w) /\ St(w) = 0 /\ Top(w.f).step = 0
    BY <1>2, <1>6 DEF Starts, St
  <1>8. SlotNo(f, w) = called[f].slot
    BY <1>1, <1>2 DEF SlotNo
  <1>9. Top(u.f) = [slot |-> called[f].slot, step |-> 0, st |-> 10] /\ Len(u.f.ctx) = 1
    BY <1>6, <1>7, <1>8 DEF IdleAs
  <1>10. u.f.ctx = <<[slot |-> called[f].slot, step |-> 0, st |-> 10]>>
    <2> DEFINE s == u.f.ctx
    <2>1. StackOK(prog, f, s)
      BY <1>1 DEF Acted, WorkOK, BlockOK
    <2>2. s[Len(s)] = [slot |-> called[f].slot, step |-> 0, st |-> 10] /\ Len(s) = 1
      BY <1>9 DEF Top
    <2> HIDE DEF s
    <2>3. s = <<s[1]>> /\ s[Len(s)] = s[1]
      BY <2>1, <2>2, OneProgram
    <2> QED BY <2>2, <2>3 DEF s
  <1>11. fb'[f].ctx = u.f.ctx /\ called' = u.called
    BY <1>1, StoredParts DEF SequencerIInv, SequencerTypes
  <1>12. u.called = called
    BY <1>1, <1>2 DEF Acted
  <1> QED BY <1>10, <1>11, <1>12 DEF Begun

LEMMA PulsesKept ==
    ASSUME SequencerIInv, NEW f \in FBs, NEW w, NEW u, Called(f, w, u), IdleAs(f, w, u)
    PROVE  PulsesHeard'
  <1>1. /\ Acted(f, w, u) /\ Stored(f, u) /\ turn = f /\ turn' = AfterTurn[f] /\ w \in Ready(f)
    BY DEF Called
  <1>2. /\ \A g \in FBs \ {f} : fb'[g] = fb[g]
        /\ ctl' = u.ctl /\ called' = u.called
        /\ torn' = IF u.left THEN torn \cup {f} ELSE torn
    BY <1>1, StoredParts DEF SequencerIInv, SequencerTypes
  <1>3. w.ctl = ctl /\ w.called = IF f = "M" THEN PulsesOff(called) ELSE called
    BY <1>1, ReadyIs DEF SequencerIInv
  <1> SUFFICES ASSUME ctl' = 1, NEW x \in Workers, x \notin torn', called'[x].start
               PROVE  /\ turn' = "W1" => Fresh(x)'
                      /\ turn' = "W2" => IF x = "W1" THEN Begun(x)' ELSE Fresh(x)'
                      /\ turn' = "P" => Begun(x)'
    BY DEF PulsesHeard
  <1>4. ctl = 1 /\ x \notin torn /\ x \in FBs /\ x # "M"
    BY <1>1, <1>2, <1>3 DEF Acted, FBs, Workers
  <1>5. f # "M" => called' = called
    BY <1>1, <1>2, <1>3 DEF Acted
  <1>6. /\ (turn = "W1" /\ called[x].start) => Fresh(x)
        /\ (turn = "W2" /\ called[x].start) => IF x = "W1" THEN Begun(x) ELSE Fresh(x)
    BY <1>4 DEF SequencerIInv, PulsesHeard
  <1>7. x # f => (Fresh(x) => Fresh(x)') /\ (called' = called => (Begun(x) => Begun(x)'))
    BY <1>2, <1>4 DEF Fresh, Begun
  <1>8. (x = f /\ called[x].start /\ Fresh(x)) => Begun(x)'
    BY <1>4, WorkerBegins
  <1>9. CASE f = "M"
    <2>1. ~fb[x].busy
      BY <1>1, <1>2, <1>9 DEF Acted
    <2>2. ~IsBusy(fb[x]) /\ Whole(prog, fb[x].ctx) /\ SequencerTypes
      BY <1>4, <2>1 DEF SequencerIInv, BusyShown, WholeStacks
    <2>3. Fresh(x)
      BY <1>4, <2>2, FreshIs
    <2>4. turn' = "W1"
      BY <1>1, <1>9 DEF AfterTurn
    <2> QED BY <1>4, <1>7, <1>9, <2>3, <2>4
  <1>10. CASE f = "W1"
    <2>1. turn' = "W2" /\ called' = called /\ Fresh(x)
      BY <1>1, <1>5, <1>6, <1>10 DEF AfterTurn
    <2> QED BY <1>7, <1>8, <1>10, <2>1 DEF Workers
  <1>11. CASE f = "W2"
    <2>1. /\ turn' = "P" /\ called' = called /\ called[x].start
          /\ IF x = "W1" THEN Begun(x) ELSE Fresh(x)
      BY <1>1, <1>5, <1>6, <1>11 DEF AfterTurn
    <2>2. x = "W1" \/ x = f
      BY <1>11 DEF Workers
    <2> QED BY <1>7, <1>8, <1>11, <2>1, <2>2
  <1> QED BY <1>9, <1>10, <1>11 DEF FBs, Workers

\* After a stop nothing is left to do.
LEMMA QuietStays ==
    ASSUME SequencerIInv, NEW f \in FBs, NEW w, NEW u, Called(f, w, u), IdleAs(f, w, u), quiet
    PROVE  ctl' = 0 /\ out' = out /\ \A g \in FBs : Still(g)'
  <1>1. /\ Stored(f, u) /\ w \in Ready(f)
    BY DEF Called
  <1>2. ctl = 0 /\ \A g \in FBs : Still(g)
    BY DEF SequencerIInv, QuietKept
  <1>3. /\ w.ctl = 0
        /\ \/ w.f.ctx = fb[f].ctx
           \/ Top(fb[f]).st \in {900, 911} /\ w.left
        /\ w.out = out /\ \A k \in 1 .. Delays : ~w.f.delay[k].pend
    BY <1>1, <1>2, ReadyIs DEF SequencerIInv, Still
  <1>4. w.f.ctx = fb[f].ctx /\ Top(w.f) = Top(fb[f]) /\ St(w) = 0
    BY <1>2, <1>3 DEF Still, Top, St
  <1>5. ~Starts(f, w)
    BY <1>3 DEF Starts
  <1>6. u.f.ctx = w.f.ctx /\ u.f.delay = w.f.delay /\ u.ctl = w.ctl /\ u.out = w.out
    BY <1>4, <1>5 DEF IdleAs
  <1>7. /\ \A g \in FBs \ {f} : fb'[g] = fb[g]
        /\ fb'[f].ctx = u.f.ctx /\ fb'[f].delay = u.f.delay /\ out' = u.out /\ ctl' = u.ctl
    BY <1>1, StoredParts DEF SequencerIInv, SequencerTypes
  <1>8. ASSUME NEW g \in FBs PROVE Still(g)'
    <2>1. CASE g = f
      <3>1. Top(fb'[f]) = Top(fb[f])
        BY <1>4, <1>6, <1>7 DEF Top
      <3> QED BY <1>2, <1>3, <1>6, <1>7, <2>1, <3>1 DEF Still
    <2>2. CASE g # f
      BY <1>2, <1>7, <2>2 DEF Still
    <2> QED BY <2>1, <2>2
  <1> QED BY <1>3, <1>6, <1>7, <1>8

LEMMA RunKeeps ==
    ASSUME SequencerIInv, NEW f \in FBs, Block(f), ~reset
    PROVE  SequencerIInv' /\ (quiet => out' = out)
  <1>1. PICK w, u : Called(f, w, u) /\ IdleAs(f, w, u)
    BY BlockActs
  <1>2. SequencerTypes' /\ WholeStacks' /\ BusyShown' /\ ResetDone' /\ PulsesHeard'
    BY <1>1, StoredTypes, PulsesKept
  <1>3. QuietKept' /\ (quiet => out' = out)
    <2>1. last' = last /\ reset' = reset /\ quiet' = quiet
      BY <1>1 DEF Called, progVars
    <2>2. quiet => ctl' = 0 /\ out' = out /\ \A g \in FBs : Still(g)'
      BY <1>1, QuietStays
    <2>3. quiet => last = 0
      BY DEF SequencerIInv, QuietKept
    <2> QED BY <2>1, <2>2, <2>3 DEF QuietKept
  <1> QED BY <1>2, <1>3 DEF SequencerIInv

---------------------------------------------------------------------------
(* The reset of a block, PROGRAM, and the start.                             *)

Zero == <<[slot |-> 0, step |-> 0, st |-> 0]>>

LEMMA ZeroStack ==
    ASSUME NEW p \in Programs, NEW f
    PROVE  /\ StackOK(p, f, Zero) /\ Whole(p, Zero)
           /\ Len(Zero) = 1 /\ Zero[Len(Zero)].st = 0
  <1> DEFINE c == [slot |-> 0, step |-> 0, st |-> 0]
  <1>1. c \in Contexts(p) /\ Fits(p, c) /\ c.st = 0 /\ c.step = 0
    BY SequencerAssumption, StepsAre DEF Contexts, States, Fits
  <1> HIDE DEF c
  <1>2. Zero = <<c>>
    BY DEF Zero, c
  <1>3. /\ Zero \in Seq(Contexts(p)) /\ Len(Zero) = 1 /\ Zero[1] = c
    BY <1>1, <1>2
  <1>4. Len(Zero) \in 1 .. Depth /\ \A i \in 1 .. Len(Zero) : Fits(p, Zero[i])
    BY <1>1, <1>3, SequencerAssumption
  <1>5. StackOK(p, f, Zero)
    BY <1>3, <1>4 DEF StackOK
  <1>6. Whole(p, Zero)
    BY <1>1, <1>3 DEF Whole
  <1> QED BY <1>1, <1>3, <1>5, <1>6

\* What a reset makes of an instance.
LEMMA ResetParts ==
    ASSUME SequencerTypes, NEW f \in FBs, Reset(f)
    PROVE  /\ DOMAIN fb' = FBs /\ \A g \in FBs \ {f} : fb'[g] = fb[g]
           /\ BlockOK(prog, f, fb'[f]) /\ fb'[f].ctx = Zero /\ ~fb'[f].busy
           /\ \A k \in 1 .. Delays : ~fb'[f].delay[k].pend
  <1> DEFINE v == fb[f]
             d == NoDelay(v.delay)
             i == [v EXCEPT !.ctx = Zero, !.start = FALSE, !.seen = FALSE, !.busy = FALSE,
                            !.prev = check, !.delay = d]
  <1>1. /\ v \in [ctx : {v.ctx}, tmr : {"off", "on", "done"}, start : BOOLEAN, seen : BOOLEAN,
                  prev : BOOLEAN, busy : BOOLEAN, delay : {v.delay}]
        /\ DelaysOK(v.delay) /\ DOMAIN fb = FBs /\ check \in BOOLEAN /\ prog \in Programs
    BY DEF SequencerTypes, BlockOK
  <1>2. fb' = [fb EXCEPT ![f] = i]
    BY DEF Reset, ResetDelays, Zero
  <1>3. DelaysOK(d) /\ \A k \in 1 .. Delays : ~d[k].pend
    <2> HIDE DEF v
    <2> QED BY <1>1, DelaysGiven
  <1> HIDE DEF v, d
  <1>4. /\ i \in [ctx : {i.ctx}, tmr : {"off", "on", "done"}, start : BOOLEAN, seen : BOOLEAN,
                  prev : BOOLEAN, busy : BOOLEAN, delay : {i.delay}]
        /\ i.ctx = Zero /\ i.delay = d /\ ~i.busy
    BY <1>1
  <1> HIDE DEF i
  <1>5. StackOK(prog, f, Zero)
    BY <1>1, ZeroStack
  <1>6. BlockOK(prog, f, i)
    BY <1>3, <1>4, <1>5 DEF BlockOK
  <1>7. DOMAIN fb' = FBs /\ fb'[f] = i /\ \A g \in FBs \ {f} : fb'[g] = fb[g]
    BY <1>1, <1>2
  <1> QED BY <1>3, <1>4, <1>6, <1>7

LEMMA ResetKeeps ==
    ASSUME SequencerIInv, NEW f \in FBs, Block(f), reset
    PROVE  SequencerIInv' /\ ~quiet
  <1>1. /\ turn = f /\ turn' = AfterTurn[f] /\ Reset(f) /\ UNCHANGED progVars
        /\ quiet' = (quiet \/ (f = "W2" /\ reset))
    BY DEF Block
  <1>2. /\ prog' = prog /\ last' = last /\ reset' = reset /\ clear' = clear
        /\ ctl' = ctl /\ check' = check /\ alarm' = alarm /\ pack' = pack /\ cycles' = cycles
        /\ torn' = torn \ {f}
        /\ called' = IF f = "M" THEN [w \in Workers |-> [start |-> FALSE, slot |-> 0]] ELSE called
    BY <1>1 DEF progVars, Reset
  <1>3. /\ SequencerTypes /\ WholeStacks /\ BusyShown /\ prog \in Programs
        /\ ctl = 0 /\ last = 0 /\ \A g \in Before[turn] : Still(g)
    BY DEF SequencerIInv, ResetDone, SequencerTypes
  <1>4. /\ DOMAIN fb' = FBs /\ \A g \in FBs \ {f} : fb'[g] = fb[g]
        /\ BlockOK(prog, f, fb'[f]) /\ fb'[f].ctx = Zero /\ ~fb'[f].busy
        /\ \A k \in 1 .. Delays : ~fb'[f].delay[k].pend
    BY <1>1, <1>3, ResetParts
  <1>5. Whole(prog, Zero) /\ Len(Zero) = 1 /\ Zero[Len(Zero)].st = 0
    BY <1>3, ZeroStack
  <1>6. ~quiet
    <2>1. turn # "P"
      BY <1>1 DEF FBs, Workers
    <2> QED BY <2>1 DEF SequencerIInv, QuietKept
  <1>7. SequencerTypes'
    <2>1. \A g \in FBs : BlockOK(prog, g, fb'[g])
      BY <1>3, <1>4 DEF SequencerTypes
    <2>2. turn' \in DOMAIN AfterTurn
      BY <1>1 DEF AfterTurn, FBs, Workers
    <2>3. CalledOK(prog, called')
      <3>1. CASE f = "M"
        BY <1>2, <1>3, <3>1, SequencerAssumption DEF CalledOK
      <3>2. CASE f # "M"
        BY <1>2, <1>3, <3>2 DEF SequencerTypes
      <3> QED BY <3>1, <3>2
    <2>4. /\ AlarmOK(alarm) /\ PackOK(pack, cycles) /\ ctl \in 0 .. 2 /\ last \in 0 .. 2
          /\ check \in BOOLEAN /\ reset \in BOOLEAN /\ clear \in BOOLEAN /\ quiet \in BOOLEAN
      BY <1>3 DEF SequencerTypes
    <2>5. quiet' \in BOOLEAN
      BY <1>1
    <2> QED BY <1>2, <1>3, <1>4, <2>1, <2>2, <2>3, <2>4, <2>5 DEF SequencerTypes
  <1>8. WholeStacks'
    <2>1. ASSUME NEW g \in FBs, g \notin torn' PROVE Whole(prog, fb'[g].ctx)
      <3>1. CASE g = f
        BY <1>4, <1>5, <3>1
      <3>2. CASE g # f
        BY <1>2, <1>3, <1>4, <2>1, <3>2 DEF WholeStacks
      <3> QED BY <3>1, <3>2
    <2> QED BY <1>2, <2>1 DEF WholeStacks
  <1>9. BusyShown'
    <2>1. ASSUME NEW g \in Workers PROVE fb'[g].busy <=> IsBusy(fb'[g])
      <3>1. CASE g = f
        <4>1. ~IsBusy(fb'[f])
          BY <1>4, <1>5 DEF IsBusy, Top
        <4> QED BY <1>4, <3>1, <4>1
      <3>2. CASE g # f
        BY <1>3, <1>4, <3>2 DEF BusyShown, FBs
      <3> QED BY <3>1, <3>2
    <2> QED BY <2>1 DEF BusyShown
  <1>10. PulsesHeard'
    BY <1>2, <1>3 DEF PulsesHeard
  <1>11. \A g \in Before[turn'] : Still(g)'
    <2>1. Still(f)'
      BY <1>4, <1>5 DEF Still, Top
    <2>2. ASSUME NEW g \in Before[turn'] PROVE g = f \/ (g \in Before[turn] /\ g \in FBs)
      BY <1>1 DEF Before, AfterTurn, FBs, Workers
    <2>3. ASSUME NEW g \in FBs, g \in Before[turn], g # f PROVE Still(g)'
      BY <1>3, <1>4, <2>3 DEF Still
    <2> QED BY <2>1, <2>2, <2>3
  <1>12. ResetDone'
    BY <1>2, <1>3, <1>11 DEF ResetDone
  <1>13. QuietKept'
    <2>1. ASSUME quiet' PROVE turn' = "P" /\ \A g \in FBs : Still(g)'
      <3>1. f = "W2"
        BY <1>1, <1>6, <2>1
      <3>2. turn' = "P"
        BY <1>1, <3>1 DEF AfterTurn
      <3>3. Before[turn'] = FBs
        BY <3>2 DEF Before
      <3> QED BY <1>11, <3>2, <3>3
    <2> QED BY <1>2, <1>3, <2>1 DEF QuietKept
  <1> QED BY <1>6, <1>7, <1>8, <1>9, <1>10, <1>12, <1>13 DEF SequencerIInv

LEMMA ScanKeeps == ASSUME SequencerIInv, Scan PROVE SequencerIInv' /\ out' = out
  <1>1. /\ turn' = "M" /\ UNCHANGED <<prog, fb, out, alarm, called, pack, torn, cycles>>
        /\ reset' = (ctl' = 0 /\ last # 0) /\ last' = ctl' /\ quiet' = (quiet /\ ctl' = 0)
    BY DEF Scan
  <1>2. ctl' \in 0 .. 2 /\ check' \in BOOLEAN /\ clear' \in BOOLEAN
    <2>1. PICK c \in {"none", "stop", "auto", "checkrun", "START", "RESET"} :
            /\ ctl' = IF alarm.on THEN 0 ELSE IF c \in DOMAIN Modes THEN Modes[c] ELSE ctl
            /\ check' = (check \/ c = "START")
            /\ clear' = (c = "RESET")
      BY DEF Scan
    <2>2. ctl \in 0 .. 2 /\ check \in BOOLEAN
      BY DEF SequencerIInv, SequencerTypes
    <2> QED BY <2>1, <2>2 DEF Modes
  <1>3. SequencerTypes'
    <2>1. SequencerTypes /\ quiet \in BOOLEAN
      BY DEF SequencerIInv, SequencerTypes
    <2> QED BY <1>1, <1>2, <2>1 DEF SequencerTypes, AfterTurn
  <1>4. WholeStacks' /\ BusyShown'
    BY <1>1 DEF SequencerIInv, WholeStacks, BusyShown
  <1>5. PulsesHeard'
    BY <1>1 DEF PulsesHeard
  <1>6. ResetDone'
    BY <1>1 DEF ResetDone, Before
  <1>7. QuietKept'
    <2>1. ASSUME quiet' PROVE ctl' = 0 /\ last = 0 /\ \A g \in FBs : Still(g)
      BY <1>1, <2>1 DEF SequencerIInv, QuietKept
    <2>2. ASSUME quiet' PROVE \A g \in FBs : Still(g)'
      BY <1>1, <2>1, <2>2 DEF Still
    <2> QED BY <1>1, <2>1, <2>2 DEF QuietKept
  <1> QED BY <1>1, <1>3, <1>4, <1>5, <1>6, <1>7 DEF SequencerIInv

LEMMA SequencerStarts == ASSUME SequencerInit PROVE SequencerIInv
  <1> DEFINE d == [k \in 1 .. Delays |-> NewDelay]
             i == [ctx |-> Zero, tmr |-> "off", start |-> FALSE,
                   seen |-> FALSE, prev |-> FALSE, busy |-> FALSE, delay |-> d]
  <1>1. /\ fb = [f \in FBs |-> i] /\ prog \in Programs
    BY DEF SequencerInit, Zero
  <1>2. DelaysOK(d) /\ \A k \in 1 .. Delays : ~d[k].pend
    <2>1. ASSUME NEW e, e = NewDelay
          PROVE  ~e.pend /\ e \in [t : {"off", "on", "done"}, start : BOOLEAN, pend : BOOLEAN,
                                   bit : {e.bit}, on : {e.on}]
      BY <2>1 DEF NewDelay
    <2>2. DOMAIN d = 1 .. Delays /\ \A k \in 1 .. Delays : d[k] = NewDelay
      OBVIOUS
    <2> HIDE DEF d
    <2> QED BY <2>1, <2>2 DEF DelaysOK, Delay5
  <1> HIDE DEF d
  <1>3. /\ i \in [ctx : {i.ctx}, tmr : {"off", "on", "done"}, start : BOOLEAN, seen : BOOLEAN,
                  prev : BOOLEAN, busy : BOOLEAN, delay : {i.delay}]
        /\ i.ctx = Zero /\ i.delay = d /\ ~i.busy
    OBVIOUS
  <1> HIDE DEF i
  <1>4. \A f \in FBs : fb[f] = i
    BY <1>1
  <1>5. /\ Whole(prog, Zero) /\ Len(Zero) = 1 /\ Zero[Len(Zero)].st = 0
        /\ \A f : StackOK(prog, f, Zero)
    BY <1>1, ZeroStack
  <1>6. \A f \in FBs : BlockOK(prog, f, fb[f])
    BY <1>2, <1>3, <1>4, <1>5 DEF BlockOK
  <1>7. PackOK(pack, cycles)
    <2>1. cycles = 0 /\ pack = [a \in DOMAIN Count |-> 0]
      BY DEF SequencerInit
    <2>2. DOMAIN Count = Axes /\ (\A a \in Axes : Count[a] \in Nat \ {0})
          /\ Order[1] \in Axes /\ Order[2] \in Axes /\ Order[3] \in Axes
      BY SequencerAssumption
    <2>3. \A a \in Axes : pack[a] = 0 /\ 0 \in 0 .. Count[a] - 1
      BY <2>1, <2>2
    <2>4. Rank(pack) = 0
      <3> DEFINE c1 == Count[Order[1]]
                 c2 == Count[Order[2]]
      <3>1. c1 \in Nat /\ c2 \in Nat
        BY <2>2
      <3>2. Rank(pack) = 0 + c1 * (0 + c2 * 0)
        BY <2>2, <2>3 DEF Rank
      <3> HIDE DEF c1, c2
      <3>3. c2 * 0 = 0 /\ c1 * 0 = 0
        BY <3>1
      <3>4. 0 + c1 * (0 + 0) = 0
        BY <3>1, <3>3
      <3> QED BY <3>2, <3>3, <3>4
    <2> QED BY <2>1, <2>2, <2>3, <2>4 DEF PackOK
  <1>8. AlarmOK(alarm) /\ CalledOK(prog, called)
    BY <1>1, SequencerAssumption DEF SequencerInit, AlarmOK, AlarmIds, CalledOK
  <1>9. /\ turn = "P" /\ ctl = 0 /\ last = 0 /\ ~check /\ ~reset /\ ~clear /\ quiet = TRUE
    BY DEF SequencerInit
  <1>10. SequencerTypes
    <2>1. check \in BOOLEAN /\ reset \in BOOLEAN /\ clear \in BOOLEAN
      BY DEF SequencerInit
    <2>2. DOMAIN fb = FBs
      BY <1>1
    <2> QED BY <1>1, <1>6, <1>7, <1>8, <1>9, <2>1, <2>2 DEF SequencerTypes, AfterTurn
  <1>11. WholeStacks
    BY <1>3, <1>4, <1>5 DEF WholeStacks
  <1>12. BusyShown
    <2>1. ASSUME NEW f \in Workers PROVE ~fb[f].busy /\ ~IsBusy(fb[f])
      <3>1. fb[f].ctx = Zero /\ ~fb[f].busy
        BY <1>3, <1>4 DEF FBs
      <3>2. Len(Zero) = 1 /\ Zero[Len(Zero)].st = 0
        BY <1>5
      <3>3. ~IsBusy(fb[f])
        BY <3>1, <3>2 DEF IsBusy, Top
      <3> QED BY <3>1, <3>3
    <2> QED BY <2>1 DEF BusyShown
  <1>13. \A f \in FBs : Still(f)
    BY <1>2, <1>3, <1>4, <1>5 DEF Still, Top
  <1> QED BY <1>9, <1>10, <1>11, <1>12, <1>13 DEF SequencerIInv, PulsesHeard, ResetDone, QuietKept

LEMMA SequencerKept == ASSUME SequencerIInv, [SequencerNext]_sequencerVars PROVE SequencerIInv'
  <1>1. CASE Scan
    BY <1>1, ScanKeeps
  <1>2. ASSUME NEW f \in FBs, Block(f) PROVE SequencerIInv'
    BY <1>2, RunKeeps, ResetKeeps
  <1>3. CASE UNCHANGED sequencerVars
    <2>1. /\ UNCHANGED <<prog, last, reset, clear, turn, fb, quiet, ctl, check, out>>
          /\ UNCHANGED <<alarm, called, pack, torn, cycles>>
      BY <1>3 DEF sequencerVars, progVars, shared
    <2>2. SequencerTypes' /\ WholeStacks' /\ BusyShown'
      BY <2>1 DEF SequencerIInv, SequencerTypes, WholeStacks, BusyShown
    <2>3. PulsesHeard'
      BY <2>1 DEF SequencerIInv, PulsesHeard, Fresh, Begun
    <2>4. ResetDone' /\ QuietKept'
      BY <2>1 DEF SequencerIInv, ResetDone, QuietKept, Still
    <2> QED BY <2>2, <2>3, <2>4 DEF SequencerIInv
  <1> QED BY <1>1, <1>2, <1>3 DEF SequencerNext

\* Every run of the sequencer stays within the inductive invariant.
THEOREM SequencerInvariant == SequencerSpec => []SequencerIInv
  BY SequencerStarts, SequencerKept, PTL DEF SequencerSpec

---------------------------------------------------------------------------
(* What it says.                                                             *)

LEMMA PackShown ==
    ASSUME PackOK(pack, cycles)
    PROVE  PackCountsCycles /\ \A a \in DOMAIN Count : pack[a] \in 0 .. Count[a] - 1
  BY SequencerAssumption DEF PackOK, PackCountsCycles

LEMMA TypesShown == ASSUME SequencerTypes PROVE SequencerTypeOK
  <1>1. ASSUME NEW f \in FBs
        PROVE  /\ Len(fb[f].ctx) \in 1 .. Depth
               /\ \A i \in DOMAIN fb[f].ctx :
                     /\ fb[f].ctx[i].slot \in DOMAIN prog
                     /\ fb[f].ctx[i].step \in 0 .. SlotSteps - 1 /\ fb[f].ctx[i].st \in States
               /\ fb[f].tmr \in {"off", "on", "done"}
    <2> DEFINE s == fb[f].ctx
    <2>1. StackOK(prog, f, s) /\ fb[f].tmr \in {"off", "on", "done"}
      BY DEF SequencerTypes, BlockOK
    <2> HIDE DEF s
    <2>2. Len(s) \in 1 .. Depth /\ \A i \in DOMAIN s : s[i] \in Contexts(prog)
      BY <2>1 DEF StackOK
    <2>3. \A i \in DOMAIN s : /\ s[i].slot \in DOMAIN prog
                              /\ s[i].step \in 0 .. SlotSteps - 1 /\ s[i].st \in States
      BY <2>2 DEF Contexts, Steps
    <2> QED BY <2>1, <2>2, <2>3 DEF s
  <1>2. /\ alarm.on \in BOOLEAN /\ alarm.user \in BOOLEAN
        /\ alarm.id \in {0, 21, 22, 23, 24, 50, 93, 94, 95, 96, 98, 99}
    BY DEF SequencerTypes, AlarmOK, AlarmIds
  <1>3. \A a \in DOMAIN Count : pack[a] \in 0 .. Count[a] - 1
    BY PackShown DEF SequencerTypes
  <1>4. /\ turn \in DOMAIN AfterTurn /\ ctl \in 0 .. 2 /\ last \in 0 .. 2
        /\ check \in BOOLEAN /\ reset \in BOOLEAN /\ clear \in BOOLEAN /\ quiet \in BOOLEAN
    BY DEF SequencerTypes
  <1> QED BY <1>1, <1>2, <1>3, <1>4, Zenon DEF SequencerTypeOK

LEMMA CallersShown == ASSUME WholeStacks PROVE CallersAwait
  BY DEF WholeStacks, Whole, Awaits, CallersAwait

\* The state of the blocks is of its type; below the top of a stack every program waits
\* behind the CALL of the one above it, also where that CALL is the last step of a full
\* slot, unless its instance has stopped in the middle and not been reset since; and the
\* place on the pallet is the number of cycles of Main, for every recipe, stacking order,
\* pallet and depth of the stack.
THEOREM StacksAndPallet == SequencerSpec => []SequencerInv
  <1>1. SequencerIInv => SequencerInv
    BY TypesShown, CallersShown, PackShown DEF SequencerIInv, SequencerTypes, SequencerInv
  <1> QED BY <1>1, SequencerInvariant, PTL

\* In the automatic mode a parallel CALL of Main has started its program, from the first
\* step, on a worker that was free, by the end of the scan; a worker that has stopped in
\* the middle and not been reset since is left out.
THEOREM CallsReachWorkers == SequencerSpec => []WorkersRunCalls
  <1>1. SequencerIInv => WorkersRunCalls
    BY DEF SequencerIInv, PulsesHeard, Begun, WorkersRunCalls
  <1> QED BY <1>1, SequencerInvariant, PTL

\* No output changes from the reset after a stop to the next start, whatever delayed
\* outputs were due.
THEOREM StopIsQuiet == SequencerSpec => OutputsQuietAfterStop
  <1>1. ASSUME SequencerIInv, [SequencerNext]_sequencerVars, quiet, quiet'
        PROVE  out' = out
    <2>1. CASE Scan
      BY <2>1, <1>1, ScanKeeps
    <2>2. ASSUME NEW f \in FBs, Block(f) PROVE out' = out
      BY <1>1, <2>2, RunKeeps, ResetKeeps
    <2>3. CASE UNCHANGED sequencerVars
      BY <2>3 DEF sequencerVars, shared
    <2> QED BY <1>1, <2>1, <2>2, <2>3 DEF SequencerNext
  <1>2. SequencerIInv /\ [SequencerNext]_sequencerVars
          => [quiet /\ quiet' => out' = out]_sequencerVars
    BY <1>1
  <1> QED BY <1>2, SequencerInvariant, PTL DEF SequencerSpec, OutputsQuietAfterStop
==============================================================================
