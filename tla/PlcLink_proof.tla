--------------------------- MODULE PlcLink_proof ---------------------------
(* Proofs about PlcLink, for any number of callers, loop threads and connects, *)
(* whether or not the user connects before the loop of before a disconnect has *)
(* ended: the types, that the lock is held by who exchanges a packet, and that *)
(* there is one reconnect loop at a time as long as the user does not.         *)
EXTENDS PlcLink, FiniteSetTheorems, TLAPS

\* What makes the single loop inductive: as long as the user wants a session, a loop
\* that runs, also one that sleeps, has its flag up.  A rushed connect breaks it, until
\* no loop is left.
FlagOfLoop == ~manual /\ ~running => Active = {}

SingleLoop == \A l, m \in Active : l = m

\* The inductive invariant.
LoopFlagged == ~rushed => SingleLoop /\ FlagOfLoop
IInv == TypeOK /\ LoopFlagged

\* The states of the threads and of the loops.
ThreadStates ==
    [Threads -> [pc : {"idle", "enter", "recv", "failed", "emit", "start", "after", "dead"},
                 pkt : {"poll", "beat", "call"}]]
LoopPlaces ==
    {"none", "first", "top", "sleep", "create", "connect", "set", "emit", "mon", "fin"}
LoopStates == [Loops -> LoopPlaces]

\* The types in three parts: flags; the session; the threads and their lock.
FlagsOK ==
    /\ addressed \in BOOLEAN /\ manual \in BOOLEAN /\ connected \in BOOLEAN
    /\ running \in BOOLEAN /\ monitoring \in BOOLEAN
    /\ up \in BOOLEAN /\ shown \in BOOLEAN /\ overlap \in BOOLEAN
    /\ rushed \in BOOLEAN
    /\ ui \in {"idle", "start", "close", "closed"}

SessionOK ==
    /\ sock \in {"none", "new", "open"} /\ connects \in 0 .. MaxConnects

ThreadsOK ==
    /\ lock \in Threads \cup {NoThread} /\ th \in ThreadStates
    /\ \A t \in Threads : th[t].pc = "recv" => lock = t

LoopsOK == loops \in LoopStates /\ LoopFlagged

\* The parts are the invariant ...
LEMMA Parts == IInv <=> FlagsOK /\ SessionOK /\ ThreadsOK /\ LoopsOK
  BY Zenon DEF IInv, TypeOK, FlagsOK, SessionOK, ThreadsOK, LoopsOK, ThreadStates, LoopStates,
                LoopPlaces

\* ... also after a step.
LEMMA PartsAfter == IInv' <=> FlagsOK' /\ SessionOK' /\ ThreadsOK' /\ LoopsOK'
  BY Zenon DEF IInv, TypeOK, FlagsOK, SessionOK, ThreadsOK, LoopsOK, ThreadStates, LoopStates,
                LoopPlaces

\* Initially nothing is connected and no loop runs.
LEMMA InitLink == Init => IInv
  <1> SUFFICES ASSUME Init PROVE FlagsOK /\ SessionOK /\ ThreadsOK /\ LoopsOK
    BY Parts
  <1>1. FlagsOK
    BY Zenon DEF Init, FlagsOK
  <1>2. SessionOK
    BY LinkBoundsAssumption DEF Init, SessionOK
  <1>3. ThreadsOK
    BY DEF Init, ThreadsOK, ThreadStates, Idle
  <1>4. LoopsOK
    <2>1. loops \in LoopStates
      BY DEF Init, LoopStates, LoopPlaces
    <2>2. Active = {}
      BY DEF Init, Active
    <2> QED BY <2>1, <2>2 DEF LoopsOK, LoopFlagged, SingleLoop, FlagOfLoop
  <1> QED BY <1>1, <1>2, <1>3, <1>4

\* A loop that goes on is no new one.
LEMMA LoopGoes ==
    ASSUME LoopsOK, NEW l \in Loops, loops[l] # "none", NEW pc \in LoopPlaces,
           LoopTo(l, pc), UNCHANGED <<manual, running, rushed>>
    PROVE  LoopsOK'
  <1>1. loops' \in LoopStates
    BY DEF LoopsOK, LoopStates, LoopTo
  <1>2. l \in Active /\ Active' \subseteq Active
    BY DEF Active, LoopStates, LoopsOK, LoopTo
  <1> QED BY <1>1, <1>2 DEF LoopsOK, LoopFlagged, SingleLoop, FlagOfLoop

\* The flags and the loops left alone.
LEMMA LoopsLeftAlone == LoopsOK /\ UNCHANGED <<manual, running, rushed, loops>> => LoopsOK'
  BY DEF LoopsOK, LoopFlagged, SingleLoop, FlagOfLoop, Active

\* _start_reconnect: no loop is started beside another.
LEMMA StartsOne ==
    ASSUME LoopsOK, NEW pc \in {"first", "top"}, StartReconnect(pc),
           UNCHANGED <<manual, rushed>>
    PROVE  LoopsOK'
  <1>1. CASE ~Starts
    BY <1>1, LoopsLeftAlone DEF StartReconnect
  <1>2. CASE Starts
    <2>1. running' = TRUE /\ ~manual /\ (~rushed => Active = {})
      BY <1>2, Zenon DEF StartReconnect, Starts, LoopsOK, LoopFlagged, FlagOfLoop
    <2>2. PICK l \in Loops : loops' = [loops EXCEPT ![l] = pc]
      BY <1>2 DEF StartReconnect
    <2>3. loops' \in LoopStates
      BY <2>2 DEF LoopsOK, LoopStates, LoopPlaces
    <2>4. Active' \subseteq Active \cup {l}
      BY <2>2 DEF Active, LoopsOK, LoopStates
    <2> QED BY <2>1, <2>3, <2>4 DEF LoopsOK, LoopFlagged, SingleLoop, FlagOfLoop
  <1> QED BY <1>1, <1>2

\* A thread that moves to another place than the exchange.
LEMMA ThreadMoves ==
    ASSUME ThreadsOK, NEW t \in Threads, NEW r \in
             [pc : {"idle", "enter", "failed", "emit", "start", "after", "dead"},
              pkt : {"poll", "beat", "call"}],
           th' = [th EXCEPT ![t] = r],
           lock' = lock \/ (lock' = NoThread /\ lock = t)
    PROVE  ThreadsOK'
  <1>1. th' \in ThreadStates
    BY DEF ThreadsOK, ThreadStates
  <1>2. lock' \in Threads \cup {NoThread}
    BY DEF ThreadsOK
  <1>3. ASSUME NEW u \in Threads, th'[u].pc = "recv" PROVE lock' = u
    <2>1. u # t /\ th'[u] = th[u]
      BY <1>3 DEF ThreadsOK, ThreadStates
    <2> QED BY <1>3, <2>1 DEF ThreadsOK
  <1> QED BY <1>1, <1>2, <1>3 DEF ThreadsOK

\* The same of Goto.
LEMMA ThreadGoes ==
    ASSUME ThreadsOK, NEW t \in Threads,
           NEW pc \in {"idle", "enter", "failed", "emit", "start", "after", "dead"},
           Goto(t, pc), lock' = lock \/ (lock' = NoThread /\ lock = t)
    PROVE  ThreadsOK'
  <1> DEFINE r == [pc |-> pc, pkt |-> th[t].pkt]
  <1>1. th' = [th EXCEPT ![t] = r]
    <2>1. [th[t] EXCEPT !.pc = pc] = r
      BY DEF ThreadsOK, ThreadStates
    <2> HIDE DEF r
    <2> QED BY <2>1 DEF Goto, ThreadsOK, ThreadStates
  <1>2. r \in [pc : {"idle", "enter", "failed", "emit", "start", "after", "dead"},
               pkt : {"poll", "beat", "call"}]
    BY DEF ThreadsOK, ThreadStates
  <1> QED BY <1>1, <1>2, ThreadMoves

\* Threads and lock left alone.
LEMMA ThreadsLeftAlone == ThreadsOK /\ UNCHANGED <<lock, th>> => ThreadsOK'
  BY DEF ThreadsOK

\* A thread begins to send a packet ...
LEMMA CallKeeps ==
    ASSUME IInv, NEW t \in Threads, Call(t), UNCHANGED <<up, ui, connects, overlap, rushed>>
    PROVE  IInv'
  <1> USE Parts
  <1>1. FlagsOK'
    BY Zenon DEF FlagsOK, Call, flags
  <1>2. SessionOK'
    BY DEF SessionOK, Call
  <1>3. ThreadsOK'
    <2>1. [pc |-> "enter", pkt |-> "call"] \in
            [pc : {"idle", "enter", "failed", "emit", "start", "after", "dead"},
             pkt : {"poll", "beat", "call"}]
      OBVIOUS
    <2> QED BY <2>1, ThreadMoves DEF Call
  <1>4. LoopsOK'
    BY LoopsLeftAlone DEF Call, flags
  <1> QED BY <1>1, <1>2, <1>3, <1>4, PartsAfter

\* ... it exchanges it under the lock, or reports the loss: the lock stays right ...
LEMMA PacketThreads ==
    ASSUME ThreadsOK, NEW t \in Threads, PacketStep(t) PROVE ThreadsOK'
  <1> DEFINE Places == {"idle", "enter", "failed", "emit", "start", "after", "dead"}
             Records == [pc : Places, pkt : {"poll", "beat", "call"}]
  <1>1. th[t].pkt \in {"poll", "beat", "call"}
    BY DEF ThreadsOK, ThreadStates
  <1>2. CASE Poll(t)
    <2>1. [pc |-> IF sock # "none" THEN "enter" ELSE "after", pkt |-> "poll"] \in Records
      OBVIOUS
    <2> QED BY <1>2, <2>1, ThreadMoves DEF Poll
  <1>3. CASE Enter(t)
    <2>1. CASE Goto(t, OnNone(t)) /\ UNCHANGED lock
      <3>1. OnNone(t) \in Places
        BY DEF OnNone
      <3> QED BY <2>1, <3>1, ThreadGoes
    <2>2. CASE Goto(t, "recv") /\ lock' = t
      <3>1. th' \in ThreadStates /\ \A u \in Threads \ {t} : th'[u] = th[u]
        BY <2>2 DEF Goto, ThreadsOK, ThreadStates
      <3>2. \A u \in Threads : th[u].pc # "recv"
        BY <1>3, ThreadsAssumption DEF Enter, MayEnter, ThreadsOK, Threads
      <3> QED BY <2>2, <3>1, <3>2 DEF ThreadsOK
    <2> QED BY <1>3, <2>1, <2>2 DEF Enter
  <1>4. CASE Receive(t)
    <2>1. lock = t /\ lock' = NoThread
      BY <1>4 DEF Receive, ThreadsOK
    <2>2. CASE Goto(t, OnNone(t))
      <3>1. OnNone(t) \in Places
        BY DEF OnNone
      <3> QED BY <2>1, <2>2, <3>1, ThreadGoes
    <2>3. CASE \E f \in Answered(t) : th' = [th EXCEPT ![t] = f]
      <3>1. Answered(t) \subseteq Records
        BY <1>1 DEF Answered, Idle
      <3>2. PICK f \in Records : th' = [th EXCEPT ![t] = f]
        BY <2>3, <3>1
      <3> QED BY <2>1, <3>2, ThreadMoves
    <2>4. CASE Goto(t, "failed")
      BY <2>1, <2>4, ThreadGoes
    <2> QED BY <1>4, <2>2, <2>3, <2>4 DEF Receive
  <1>5. CASE Lost(t)
    <2>1. (IF WasConnected THEN "emit" ELSE "start") \in Places
      OBVIOUS
    <2> QED BY <1>5, <2>1, ThreadGoes DEF Lost
  <1>6. CASE Tell(t)
    BY <1>6, ThreadGoes DEF Tell
  <1>7. CASE Restart(t)
    <2>1. CASE Goto(t, "after")
      BY <1>7, <2>1, ThreadGoes DEF Restart
    <2>2. CASE th' = [th EXCEPT ![t] = Idle]
      <3>1. Idle \in Records
        BY DEF Idle
      <3> QED BY <1>7, <2>2, <3>1, ThreadMoves DEF Restart
    <2> QED BY <1>7, <2>1, <2>2, Zenon DEF Restart
  <1>8. CASE After(t)
    <2>1. [pc |-> IF connected THEN "failed" ELSE "idle", pkt |-> "call"] \in Records
      OBVIOUS
    <2> QED BY <1>8, <2>1, ThreadMoves DEF After
  <1> QED BY <1>2, <1>3, <1>4, <1>5, <1>6, <1>7, <1>8 DEF PacketStep

\* ... and so does everything else.
LEMMA PacketKeeps == ASSUME IInv, NEW t \in Threads, PacketStep(t) PROVE IInv'
  <1>1. FlagsOK /\ SessionOK /\ ThreadsOK /\ LoopsOK
    BY Parts
  <1>2. UNCHANGED <<up, ui, connects, rushed>>
    BY DEF PacketStep
  <1>3. CASE Lost(t)
    <2>1. FlagsOK'
      <3>1. overlap' \in BOOLEAN /\ connected' \in BOOLEAN
        BY <1>3, Zenon DEF Lost, FlagAfterLoss
      <3> QED BY <1>1, <1>2, <1>3, <3>1, Zenon DEF FlagsOK, Lost, flags
    <2>2. SessionOK'
      BY <1>1, <1>2, <1>3 DEF SessionOK, Lost
    <2>3. LoopsOK'
      BY <1>1, <1>2, <1>3, LoopsLeftAlone DEF Lost, flags
    <2> QED BY <1>1, <2>1, <2>2, <2>3, PacketThreads, PartsAfter
  <1>4. CASE Restart(t) /\ UNCHANGED overlap
    <2>1. FlagsOK'
      <3>1. running' \in BOOLEAN
        BY <1>1, <1>4, Zenon DEF FlagsOK, Restart, StartReconnect
      <3> QED BY <1>1, <1>2, <1>4, <3>1, Zenon DEF FlagsOK, Restart
    <2>2. SessionOK'
      BY <1>1, <1>2, <1>4 DEF SessionOK, Restart
    <2>3. LoopsOK'
      BY <1>1, <1>2, <1>4, StartsOne DEF Restart
    <2> QED BY <1>1, <2>1, <2>2, <2>3, PacketThreads, PartsAfter
  <1>5. CASE (Poll(t) \/ Enter(t) \/ Receive(t) \/ Tell(t) \/ After(t)) /\ UNCHANGED overlap
    <2>1. /\ UNCHANGED <<addressed, manual, running, monitoring, connected, sock, loops>>
          /\ shown' = shown \/ shown' = FALSE
      BY <1>5, Zenon DEF Poll, Enter, Receive, Tell, After, flags
    <2>3. FlagsOK'
      BY <1>1, <1>2, <1>5, <2>1, Zenon DEF FlagsOK
    <2>4. SessionOK'
      BY <1>1, <1>2, <2>1 DEF SessionOK
    <2>5. LoopsOK'
      BY <1>1, <1>2, <2>1, LoopsLeftAlone
    <2> QED BY <1>1, <2>3, <2>4, <2>5, PacketThreads, PartsAfter
  <1> QED BY <1>3, <1>4, <1>5, Zenon DEF PacketStep

\* A loop that ends clears the flag of no other, unless a connect was rushed; and the
\* last one to end leaves none.
LEMMA LoopEnds ==
    ASSUME LoopsOK, rushed \in BOOLEAN, NEW l \in Loops, Finally(l) PROVE LoopsOK'
  <1>1. loops' \in LoopStates /\ l \in Active
    BY DEF Finally, LoopTo, LoopsOK, LoopStates, LoopPlaces, Active
  <1>2. Active' \subseteq Active \ {l}
    BY DEF Finally, LoopTo, LoopsOK, LoopStates, Active
  <1>3. ~rushed' => Active' = {}
    BY <1>1, <1>2 DEF Finally, LoopsOK, LoopFlagged, SingleLoop
  <1> QED BY <1>1, <1>3 DEF LoopsOK, LoopFlagged, SingleLoop, FlagOfLoop

\* A step of a reconnect loop.
LEMMA LoopKeeps == ASSUME IInv, NEW l \in Loops, LoopStep(l) PROVE IInv'
  <1>1. FlagsOK /\ SessionOK /\ ThreadsOK /\ LoopsOK
    BY Parts
  <1>2. UNCHANGED <<lock, up, th, ui, connects, overlap>>
    BY DEF LoopStep
  <1>3. ThreadsOK'
    BY <1>1, <1>2, ThreadsLeftAlone
  <1>4. FlagsOK'
    <2>1. /\ addressed' = addressed /\ manual' = manual
          /\ running' \in BOOLEAN /\ monitoring' \in BOOLEAN
          /\ connected' \in BOOLEAN /\ shown' \in BOOLEAN /\ rushed' \in BOOLEAN
      BY <1>1, Zenon DEF LoopStep, FlagsOK, Top, Wake, Create, Connect, SetConnected,
                         TellConnected, StartMonitoring, Finally, RunningAfter, flags
    <2> QED BY <1>1, <1>2, <2>1, Zenon DEF FlagsOK
  <1>5. SessionOK'
    <2>1. sock' \in {sock, "new", "open"}
      BY Zenon DEF LoopStep, Top, Wake, Create, Connect, SetConnected, TellConnected,
                   StartMonitoring, Finally
    <2> QED BY <1>1, <1>2, <2>1 DEF SessionOK
  <1>6. LoopsOK'
    <2> USE DEF LoopPlaces
    <2>1. CASE Finally(l)
      BY <1>1, <2>1, LoopEnds DEF FlagsOK
    <2>2. CASE StartMonitoring(l) /\ UNCHANGED rushed
      BY <1>1, <2>2, LoopGoes DEF StartMonitoring
    <2>3. CASE /\ Top(l) \/ Wake(l) \/ Create(l) \/ Connect(l) \/ SetConnected(l)
                  \/ TellConnected(l)
               /\ UNCHANGED rushed
      <3>1. loops[l] # "none" /\ UNCHANGED <<manual, running, rushed>>
        BY <2>3 DEF Top, Wake, Create, Connect, SetConnected, TellConnected, flags
      <3>2. PICK pc \in LoopPlaces : LoopTo(l, pc)
        BY <2>3, Zenon DEF Top, Wake, Create, Connect, SetConnected, TellConnected
      <3> QED BY <1>1, <3>1, <3>2, LoopGoes
    <2> QED BY <2>1, <2>2, <2>3, Zenon DEF LoopStep
  <1> QED BY <1>3, <1>4, <1>5, <1>6, PartsAfter

\* The buttons: a connect leaves the flags right, or is rushed; a disconnect may clear
\* the flag of a loop that runs.
LEMMA ButtonsKeep == IInv /\ (UiStep \/ UiCall) => IInv'
  <1> SUFFICES ASSUME FlagsOK, SessionOK, ThreadsOK, LoopsOK, UiStep \/ UiCall PROVE IInv'
    BY Parts
  <1>1. UNCHANGED <<lock, up, th>>
    BY Zenon DEF UiStep, UiCall
  <1>2. ThreadsOK'
    BY <1>1, ThreadsLeftAlone
  <1>3. FlagsOK'
    <2>1. /\ addressed' \in BOOLEAN /\ manual' \in BOOLEAN /\ running' \in BOOLEAN
          /\ monitoring' \in BOOLEAN /\ connected' \in BOOLEAN /\ shown' \in BOOLEAN
          /\ overlap' \in BOOLEAN /\ rushed' \in BOOLEAN
      BY Zenon DEF UiStep, UiCall, FlagsOK, ConnectCall, ConnectStart, Disconnect,
                   DisconnectClose, DisconnectEnd, StartReconnect, flags
    <2>2. ui' \in {"idle", "start", "close", "closed"}
      BY Zenon DEF UiStep, UiCall, FlagsOK, ConnectCall, ConnectStart, Disconnect,
                   DisconnectClose, DisconnectEnd
    <2> QED BY <1>1, <2>1, <2>2, Zenon DEF FlagsOK
  <1>4. SessionOK'
    <2>1. CASE ConnectCall
      BY <2>1, LinkBoundsAssumption DEF ConnectCall, SessionOK
    <2>2. CASE DisconnectClose
      BY <2>2 DEF DisconnectClose, SessionOK
    <2>3. CASE UNCHANGED <<sock, connects>>
      BY <2>3 DEF SessionOK
    <2> QED BY <2>1, <2>2, <2>3, Zenon DEF UiStep, UiCall, ConnectStart, Disconnect,
                                          DisconnectEnd
  <1>5. LoopsOK'
    <2>1. CASE ConnectCall
      <3>1. Active' = Active /\ loops' = loops /\ running' = running
        BY <2>1 DEF ConnectCall, Active
      <3>2. ~rushed' => ~rushed /\ (manual => Active = {})
        BY <2>1, Zenon DEF ConnectCall
      <3> QED BY <3>1, <3>2 DEF LoopsOK, LoopFlagged, SingleLoop, FlagOfLoop
    <2>2. CASE ConnectStart /\ UNCHANGED rushed
      BY <2>2, StartsOne DEF ConnectStart
    <2>3. CASE Disconnect /\ UNCHANGED rushed
      BY <2>3 DEF Disconnect, LoopsOK, LoopFlagged, SingleLoop, FlagOfLoop, Active
    <2>4. CASE (DisconnectClose \/ DisconnectEnd) /\ UNCHANGED rushed
      BY <2>4, LoopsLeftAlone DEF DisconnectClose, DisconnectEnd, flags
    <2> QED BY <2>1, <2>2, <2>3, <2>4, Zenon DEF UiStep, UiCall
  <1> QED BY <1>2, <1>3, <1>4, <1>5, PartsAfter

\* The cable, and a step that changes nothing.
LEMMA OthersKeep == IInv /\ (Cable \/ UNCHANGED vars) => IInv'
  <1> SUFFICES ASSUME FlagsOK, SessionOK, ThreadsOK, LoopsOK, Cable \/ UNCHANGED vars
               PROVE  IInv'
    BY Parts
  <1>1. UNCHANGED <<addressed, manual, running, monitoring, connected, sock, lock,
                    shown, th, loops, ui, connects, overlap, rushed>>
    BY Zenon DEF Cable, vars, flags
  <1>2. up' \in BOOLEAN
    BY Zenon DEF Cable, vars, FlagsOK
  <1>3. FlagsOK'
    BY <1>1, <1>2, Zenon DEF FlagsOK
  <1>4. SessionOK'
    BY <1>1 DEF SessionOK
  <1>5. ThreadsOK' /\ LoopsOK'
    BY <1>1, ThreadsLeftAlone, LoopsLeftAlone
  <1> QED BY <1>3, <1>4, <1>5, PartsAfter

\* Every step keeps the invariant.
LEMMA LinkStep == IInv /\ [Next]_vars => IInv'
  <1> SUFFICES ASSUME IInv, [Next]_vars PROVE IInv'
    OBVIOUS
  <1>1. ASSUME NEW t \in Threads, PacketStep(t) PROVE IInv'
    BY <1>1, PacketKeeps
  <1>2. ASSUME NEW t \in Threads, Call(t) /\ UNCHANGED <<up, ui, connects, overlap, rushed>>
        PROVE  IInv'
    BY <1>2, CallKeeps
  <1>3. ASSUME NEW l \in Loops, LoopStep(l) PROVE IInv'
    BY <1>3, LoopKeeps
  <1> QED BY <1>1, <1>2, <1>3, ButtonsKeep, OthersKeep, Zenon DEF Next

\* At most one loop, as a cardinality.
LEMMA OneOfThem == LoopFlagged => OneLoop
  <1> SUFFICES ASSUME SingleLoop PROVE Cardinality(Active) <= 1
    BY DEF OneLoop, LoopFlagged
  <1>1. CASE Active = {}
    BY <1>1, FS_EmptySet
  <1>2. CASE Active # {}
    <2>1. PICK l : Active = {l}
      BY <1>2 DEF SingleLoop
    <2> QED BY <2>1, FS_Singleton
  <1> QED BY <1>1, <1>2

\* For any number of threads that lose the session at once, and of connects and
\* disconnects: the lock of PLCClient belongs to the thread that exchanges a packet, and
\* no second reconnect loop is started, as long as the user does not connect while the
\* loop of before a disconnect still sleeps; and again, when he has, once no loop runs.
THEOREM LinkInvariant == Spec => []LinkInv
  <1>1. IInv => LinkInv
    BY OneOfThem, Zenon DEF IInv, LinkInv
  <1> QED BY InitLink, LinkStep, <1>1, PTL DEF Spec

=============================================================================
