---------------------------- MODULE Operator_proof ----------------------------
(* Proofs about the operator's side: OperatorPanel, for every length of the  *)
(* queue and every debounce count, and OperatorQuestions, for every set of   *)
(* flows and every bound on the questions and the runs.                      *)
EXTENDS OperatorPanel, OperatorQuestions, SequenceTheorems, WellFoundedInduction, TLAPS

\* What can wait in the queue.
JogCommands == [prio : {0}, do : {"jog"}, key : Keys, on : BOOLEAN]
EstopCommands == [prio : {-100}, do : {"stop"}, key : {"estop"}, on : BOOLEAN]
RunCommands == [prio : {-20}, do : {"stop"}, key : {"run"}, on : BOOLEAN]
Commands == JogCommands \cup {ResetJog} \cup EstopCommands \cup RunCommands

\* Each direction that the queue q will set, and whose key is not among those held
\* (h), is cleared again by a later command of q.
OffFollows(q, h) ==
    \A i \in DOMAIN q : q[i].do = "jog" /\ q[i].on /\ q[i].key \notin h =>
        \E j \in DOMAIN q : i < j /\ q[j] = JogCmd(q[i].key, FALSE)

\* Each direction set in the set b that is not held will be cleared by q.
WillBeCleared(q, h, b) ==
    \A k \in b \ h : \E i \in DOMAIN q : q[i] \in {ResetJog, JogCmd(k, FALSE)}

\* The inductive invariant, part by part: types of flags; the alarm; the keys; the
\* queue and its bound, which leaves room for the reset of a reconnection; and that
\* as long as the link lasts, what was set will be cleared.
FlagsOK ==
    /\ gpio \in [level : BOOLEAN, n : 0 .. DebounceCount, active : BOOLEAN]
    /\ plcStop \in BOOLEAN /\ shown \in BOOLEAN /\ op \in {0, 1} /\ visible \in BOOLEAN
    /\ connected \in BOOLEAN /\ posted \in BOOLEAN /\ dt223 \in BOOLEAN /\ missed \in BOOLEAN

KeysOK ==
    /\ held \subseteq Keys /\ bits \subseteq Keys /\ dt220 \subseteq Keys
    /\ ~(Keys \subseteq bits) /\ OneDirection
    /\ ~visible => held = {}

QueueOK ==
    /\ queue \in Seq(Commands)
    /\ Len(queue) <= IF posted THEN QueueMax + 1 ELSE QueueMax + 2

FlowOK ==
    connected => /\ OffFollows(queue, held)
                 /\ ~posted => WillBeCleared(queue, held, dt220 \cup bits)

IInv == FlagsOK /\ AlarmShown /\ KeysOK /\ QueueOK /\ FlowOK

---------------------------------------------------------------------------
(* Commands and queues.                                                      *)

\* The fields of commands.
LEMMA CommandFields ==
    /\ \A k \in Keys : \A on \in BOOLEAN :
          /\ JogCmd(k, on) \in Commands /\ JogCmd(k, on).do = "jog" /\ JogCmd(k, on).prio = 0
          /\ JogCmd(k, on).key = k /\ JogCmd(k, on).on = on
    /\ ResetJog \in Commands /\ ResetJog.do = "jog" /\ ResetJog.key = "all"
    /\ ResetJog.on = FALSE /\ ResetJog.prio = -30
    /\ \A on \in BOOLEAN :
          /\ EstopCmd(on) \in Commands /\ EstopCmd(on).do = "stop"
          /\ EstopCmd(on).on = on /\ EstopCmd(on).prio = -100
          /\ RunCmd(on) \in Commands /\ RunCmd(on).do = "stop"
          /\ RunCmd(on).on = on /\ RunCmd(on).prio = -20
  <1>1. ASSUME NEW k, NEW on
        PROVE  /\ JogCmd(k, on).do = "jog" /\ JogCmd(k, on).prio = 0
               /\ JogCmd(k, on).key = k /\ JogCmd(k, on).on = on
    BY SMT DEF JogCmd, Cmd
  <1>2. ASSUME NEW k \in Keys, NEW on \in BOOLEAN PROVE JogCmd(k, on) \in Commands
    <2>1. JogCmd(k, on) \in JogCommands
      BY SMT DEF JogCmd, Cmd, JogCommands
    <2> QED BY <2>1, Zenon DEF Commands
  <1>3. /\ ResetJog.do = "jog" /\ ResetJog.key = "all"
        /\ ResetJog.on = FALSE /\ ResetJog.prio = -30
    BY SMT DEF ResetJog, Cmd
  <1>4. ResetJog \in Commands
    BY Zenon DEF Commands
  <1>5. ASSUME NEW on
        PROVE  /\ EstopCmd(on).do = "stop" /\ EstopCmd(on).on = on /\ EstopCmd(on).prio = -100
               /\ RunCmd(on).do = "stop" /\ RunCmd(on).on = on /\ RunCmd(on).prio = -20
    BY SMT DEF EstopCmd, RunCmd, Cmd
  <1>6. ASSUME NEW on \in BOOLEAN PROVE EstopCmd(on) \in Commands /\ RunCmd(on) \in Commands
    <2>1. EstopCmd(on) \in EstopCommands /\ RunCmd(on) \in RunCommands
      BY SMT DEF EstopCmd, RunCmd, Cmd, EstopCommands, RunCommands
    <2> QED BY <2>1, Zenon DEF Commands
  <1>7. \A k \in Keys : \A on \in BOOLEAN :
          /\ JogCmd(k, on) \in Commands /\ JogCmd(k, on).do = "jog" /\ JogCmd(k, on).prio = 0
          /\ JogCmd(k, on).key = k /\ JogCmd(k, on).on = on
    <2> TAKE k \in Keys
    <2> TAKE on \in BOOLEAN
    <2>1. JogCmd(k, on) \in Commands
      BY <1>2
    <2> QED BY <1>1, <2>1
  <1>8. \A on \in BOOLEAN :
          /\ EstopCmd(on) \in Commands /\ EstopCmd(on).do = "stop"
          /\ EstopCmd(on).on = on /\ EstopCmd(on).prio = -100
          /\ RunCmd(on) \in Commands /\ RunCmd(on).do = "stop"
          /\ RunCmd(on).on = on /\ RunCmd(on).prio = -20
    BY <1>5, <1>6, Zenon
  <1> QED BY <1>3, <1>4, <1>7, <1>8, Zenon

\* A command is one of them.
LEMMA CommandKinds ==
    \A c \in Commands :
        /\ c.prio \in {-100, -30, -20, 0} /\ c.on \in BOOLEAN
        /\ c.do = "jog" => c = ResetJog \/ (c.key \in Keys /\ c = JogCmd(c.key, c.on))
        /\ c.do # "jog" => c.do = "stop"
  <1> SUFFICES ASSUME NEW c \in Commands
               PROVE  /\ c.prio \in {-100, -30, -20, 0} /\ c.on \in BOOLEAN
                      /\ c.do = "jog" =>
                            c = ResetJog \/ (c.key \in Keys /\ c = JogCmd(c.key, c.on))
                      /\ c.do # "jog" => c.do = "stop"
    OBVIOUS
  <1>0. "stop" # "jog" /\ FALSE \in BOOLEAN
    OBVIOUS
  <1>1. CASE c \in JogCommands
    <2>1. c.do = "jog" /\ c.prio = 0 /\ c.key \in Keys /\ c.on \in BOOLEAN
      BY <1>1, SMT DEF JogCommands
    <2>2. c = JogCmd(c.key, c.on)
      BY <1>1, SMT DEF JogCommands, JogCmd, Cmd
    <2> QED BY <2>1, <2>2, Zenon
  <1>2. CASE c = ResetJog
    <2>1. c.do = "jog" /\ c.prio = -30 /\ c.on = FALSE
      BY <1>2, CommandFields, Zenon
    <2> QED BY <1>0, <1>2, <2>1, Zenon
  <1>3. CASE c \in EstopCommands \/ c \in RunCommands
    <2>1. c.do = "stop" /\ (c.prio = -100 \/ c.prio = -20) /\ c.on \in BOOLEAN
      BY <1>3, SMT DEF EstopCommands, RunCommands
    <2> QED BY <1>0, <2>1, Zenon
  <1> QED BY <1>1, <1>2, <1>3, Zenon DEF Commands

\* A queue with more commands behind.
LEMMA MoreQueued ==
    ASSUME NEW q \in Seq(Commands), NEW c \in Seq(Commands)
    PROVE  /\ q \o c \in Seq(Commands) /\ Len(q \o c) = Len(q) + Len(c)
           /\ \A i \in DOMAIN q : i \in DOMAIN (q \o c) /\ (q \o c)[i] = q[i]
           /\ \A i \in DOMAIN c : Len(q) + i \in DOMAIN (q \o c) /\ (q \o c)[Len(q) + i] = c[i]
           /\ \A i \in DOMAIN (q \o c) :
                 i \in DOMAIN q \/ \E j \in DOMAIN c : i = Len(q) + j
           /\ \A i \in DOMAIN q : i \in Nat /\ i <= Len(q)
           /\ \A i \in DOMAIN c : i \in Nat /\ i >= 1
  <1>1. /\ q \o c \in Seq(Commands) /\ Len(q \o c) = Len(q) + Len(c)
        /\ \A i \in DOMAIN q : i \in DOMAIN (q \o c) /\ (q \o c)[i] = q[i]
    OBVIOUS
  <1>2. \A i \in DOMAIN c : Len(q) + i \in DOMAIN (q \o c) /\ (q \o c)[Len(q) + i] = c[i]
    OBVIOUS
  <1>3. ASSUME NEW i \in DOMAIN (q \o c), i \notin DOMAIN q
        PROVE  \E j \in DOMAIN c : i = Len(q) + j
    <2>1. i \in 1 .. Len(q) + Len(c) /\ ~(i \in 1 .. Len(q)) /\ DOMAIN c = 1 .. Len(c)
      BY <1>1, <1>3
    <2>2. i - Len(q) \in DOMAIN c /\ i = Len(q) + (i - Len(q))
      BY <2>1
    <2> QED BY <2>2
  <1>4. /\ \A i \in DOMAIN q : i \in Nat /\ i <= Len(q)
        /\ \A i \in DOMAIN c : i \in Nat /\ i >= 1
    OBVIOUS
  <1> QED BY <1>1, <1>2, <1>3, <1>4

\* A queue without its i-th command.
LEMMA OneTaken ==
    ASSUME NEW q \in Seq(Commands), NEW i \in DOMAIN q
    PROVE  /\ RemoveAt(q, i) \in Seq(Commands) /\ Len(RemoveAt(q, i)) = Len(q) - 1
           /\ \A j \in 1 .. Len(q) - 1 :
                 RemoveAt(q, i)[j] = IF j < i THEN q[j] ELSE q[j + 1]
  <1>1. /\ SubSeq(q, 1, i - 1) \in Seq(Commands) /\ Len(SubSeq(q, 1, i - 1)) = i - 1
        /\ \A j \in 1 .. i - 1 : SubSeq(q, 1, i - 1)[j] = q[j]
    OBVIOUS
  <1>2. /\ SubSeq(q, i + 1, Len(q)) \in Seq(Commands)
        /\ Len(SubSeq(q, i + 1, Len(q))) = Len(q) - i
        /\ \A j \in 1 .. Len(q) - i : SubSeq(q, i + 1, Len(q))[j] = q[i + j]
    OBVIOUS
  <1>3. i \in Nat /\ i >= 1 /\ i <= Len(q) /\ Len(q) \in Nat
    OBVIOUS
  <1> DEFINE a == SubSeq(q, 1, i - 1)
             b == SubSeq(q, i + 1, Len(q))
  <1> HIDE DEF a, b
  <1>4. /\ a \in Seq(Commands) /\ Len(a) = i - 1 /\ \A j \in 1 .. i - 1 : a[j] = q[j]
        /\ b \in Seq(Commands) /\ Len(b) = Len(q) - i
        /\ \A j \in 1 .. Len(q) - i : b[j] = q[i + j]
    BY <1>1, <1>2 DEF a, b
  <1>5. /\ a \o b \in Seq(Commands) /\ Len(a \o b) = Len(q) - 1
        /\ \A j \in 1 .. i - 1 : (a \o b)[j] = a[j]
        /\ \A j \in i .. Len(q) - 1 : (a \o b)[j] = b[j - (i - 1)]
    <2>1. a \o b \in Seq(Commands) /\ Len(a \o b) = Len(a) + Len(b)
      BY <1>4, MoreQueued
    <2>2. ASSUME NEW j \in 1 .. i - 1 PROVE (a \o b)[j] = a[j]
      <3>1. j \in DOMAIN a
        BY <1>3, <1>4
      <3> QED BY <1>4, <3>1, MoreQueued
    <2>3. ASSUME NEW j \in i .. Len(q) - 1 PROVE (a \o b)[j] = b[j - (i - 1)]
      <3>0. Len(a) = i - 1 /\ Len(b) = Len(q) - i
        BY <1>4
      <3>1. j - (i - 1) \in 1 .. Len(b) /\ j = Len(a) + (j - (i - 1))
        <4> HIDE DEF a, b
        <4> QED BY <1>3, <3>0, SMTT(30)
      <3>2. j - (i - 1) \in DOMAIN b
        BY <1>4, <3>1
      <3>3. (a \o b)[Len(a) + (j - (i - 1))] = b[j - (i - 1)]
        BY <1>4, <3>2, MoreQueued
      <3> QED BY <3>1, <3>3, Zenon
    <2>4. Len(a) + Len(b) = Len(q) - 1
      BY <1>3, <1>4
    <2> QED BY <2>1, <2>2, <2>3, <2>4
  <1>6. ASSUME NEW j \in 1 .. Len(q) - 1, ~(j < i) PROVE (a \o b)[j] = q[j + 1]
    <2>1. j \in i .. Len(q) - 1 /\ j - (i - 1) \in 1 .. Len(q) - i
          /\ i + (j - (i - 1)) = j + 1
      BY <1>3, <1>6
    <2> QED BY <1>4, <1>5, <2>1
  <1>7. RemoveAt(q, i) = a \o b
    BY DEF RemoveAt, a, b
  <1>8. ASSUME NEW j \in 1 .. Len(q) - 1, j < i PROVE (a \o b)[j] = q[j]
    <2>1. j \in 1 .. i - 1
      BY <1>3, <1>8
    <2> QED BY <1>4, <1>5, <2>1
  <1> QED BY <1>5, <1>6, <1>7, <1>8

\* Every nonempty set of numbers has a smallest one.
LEMMA SmallestOf ==
    ASSUME NEW T \in SUBSET Nat, T # {} PROVE \E x \in T : \A y \in T : x <= y
  <1> DEFINE R == {ss \in Nat \X Nat : ss[1] < ss[2]}
  <1>1. IsWellFoundedOn(R, Nat)
    BY NatLessThanWellFounded, Zenon DEF OpToRel
  <1> HIDE DEF R
  <1>2. PICK x \in T : \A y \in T : ~ (<<y, x>> \in R)
    BY <1>1, WFMin
  <1>3. \A y \in T : <<y, x>> \in R <=> y < x
    BY DEF R
  <1>4. \A y \in T : x \in Nat /\ y \in Nat /\ ~(y < x)
    BY <1>2, <1>3
  <1>5. \A y \in T : x <= y
    BY <1>4
  <1> QED BY <1>5

\* The next command is the most urgent, the earliest of them.
LEMMA NextIsFirst ==
    ASSUME queue \in Seq(Commands), queue # <<>>
    PROVE  /\ NextInQueue \in DOMAIN queue
           /\ \A j \in DOMAIN queue :
                 \/ queue[NextInQueue].prio < queue[j].prio
                 \/ queue[NextInQueue].prio = queue[j].prio /\ NextInQueue <= j
  <1> DEFINE Of(p) == {i \in DOMAIN queue : queue[i].prio = p}
             First(i) == \A j \in DOMAIN queue :
                 queue[i].prio < queue[j].prio \/ (queue[i].prio = queue[j].prio /\ i <= j)
  <1>1. \A i \in DOMAIN queue : queue[i].prio \in {-100, -30, -20, 0} /\ i \in Nat
    BY CommandKinds
  <1>2. 1 \in DOMAIN queue
    OBVIOUS
  <1>3. PICK p \in {-100, -30, -20, 0} :
           Of(p) # {} /\ \A r \in {-100, -30, -20, 0} : r < p => Of(r) = {}
    <2>1. \E p \in {-100, -30, -20, 0} : Of(p) # {}
      BY <1>1, <1>2
    <2> HIDE DEF Of
    <2> QED BY <2>1
  <1>4. Of(p) \in SUBSET Nat
    BY <1>1
  <1>5. PICK i \in Of(p) : \A j \in Of(p) : i <= j
    <2> HIDE DEF Of
    <2> QED BY <1>3, <1>4, SmallestOf
  <1>6. ASSUME NEW j \in DOMAIN queue
        PROVE  queue[i].prio < queue[j].prio \/ (queue[i].prio = queue[j].prio /\ i <= j)
    <2>1. queue[i].prio = p
      BY <1>5
    <2>2. ~(queue[j].prio < p)
      BY <1>1, <1>3
    <2>3. queue[j].prio = p => i <= j
      BY <1>5
    <2> QED BY <1>1, <2>1, <2>2, <2>3
  <1>7. i \in DOMAIN queue
    BY <1>5
  <1>8. \E x \in DOMAIN queue : First(x)
    BY <1>6, <1>7
  <1> QED BY <1>8, Zenon DEF NextInQueue

\* A queue of one command.
LEMMA OneCommand ==
    ASSUME NEW c \in Commands
    PROVE  <<c>> \in Seq(Commands) /\ Len(<<c>>) = 1 /\ DOMAIN <<c>> = {1} /\ <<c>>[1] = c
  OBVIOUS

\* A queue of two.
LEMMA TwoCommands ==
    ASSUME NEW c \in Commands, NEW d \in Commands
    PROVE  /\ <<c, d>> \in Seq(Commands) /\ Len(<<c, d>>) = 2 /\ DOMAIN <<c, d>> = {1, 2}
           /\ <<c, d>>[1] = c /\ <<c, d>>[2] = d
  <1>1. <<c, d>> \in Seq(Commands) /\ Len(<<c, d>>) = 2
    OBVIOUS
  <1>2. DOMAIN <<c, d>> = {1, 2}
    OBVIOUS
  <1>3. <<c, d>>[1] = c /\ <<c, d>>[2] = d
    OBVIOUS
  <1> QED BY <1>1, <1>2, <1>3, Zenon

\* The two commands of an overlay that closes.
LEMMA BothReleased ==
    /\ Released \in Seq(Commands) /\ Len(Released) = 2
    /\ \A i \in DOMAIN Released : Released[i].on = FALSE
    /\ \A k \in Keys : \E i \in DOMAIN Released : Released[i] = JogCmd(k, FALSE)
  <1>1. "+" \in Keys /\ "-" \in Keys /\ FALSE \in BOOLEAN
        /\ \A k \in Keys : k = "+" \/ k = "-"
    BY DEF Keys
  <1>2. /\ JogCmd("+", FALSE) \in Commands /\ JogCmd("+", FALSE).on = FALSE
        /\ JogCmd("-", FALSE) \in Commands /\ JogCmd("-", FALSE).on = FALSE
    BY <1>1, CommandFields, Zenon
  <1>3. /\ Released \in Seq(Commands) /\ Len(Released) = 2 /\ DOMAIN Released = {1, 2}
        /\ Released[1] = JogCmd("+", FALSE) /\ Released[2] = JogCmd("-", FALSE)
    BY <1>2, TwoCommands, Zenon DEF Released
  <1>4. \A i \in DOMAIN Released : i = 1 \/ i = 2
    BY <1>3
  <1>5. 1 \in DOMAIN Released /\ 2 \in DOMAIN Released
    BY <1>3
  <1>6. \A i \in DOMAIN Released : Released[i].on = FALSE
    BY <1>2, <1>3, <1>4, Zenon
  <1>7. \A k \in Keys : \E i \in DOMAIN Released : Released[i] = JogCmd(k, FALSE)
    BY <1>1, <1>3, <1>5, Zenon
  <1> QED BY <1>3, <1>6, <1>7

\* Where the commands of a queue are when its i-th was taken, and where they were.
LEMMA Positions ==
    ASSUME NEW q \in Seq(Commands), NEW i \in DOMAIN q
    PROVE  /\ \A a \in DOMAIN q : a # i =>
                 LET p == IF a < i THEN a ELSE a - 1
                 IN  p \in DOMAIN RemoveAt(q, i) /\ RemoveAt(q, i)[p] = q[a]
           /\ \A p \in DOMAIN RemoveAt(q, i) :
                 LET a == IF p < i THEN p ELSE p + 1
                 IN  a \in DOMAIN q /\ a # i /\ RemoveAt(q, i)[p] = q[a]
  <1>1. /\ RemoveAt(q, i) \in Seq(Commands) /\ Len(RemoveAt(q, i)) = Len(q) - 1
        /\ \A j \in 1 .. Len(q) - 1 : RemoveAt(q, i)[j] = IF j < i THEN q[j] ELSE q[j + 1]
    BY OneTaken
  <1>2. DOMAIN q = 1 .. Len(q) /\ Len(q) \in Nat /\ i \in 1 .. Len(q)
    OBVIOUS
  <1> DEFINE r == RemoveAt(q, i)
  <1>3. DOMAIN r = 1 .. Len(q) - 1
    BY <1>1, <1>2
  <1>4. \A j \in 1 .. Len(q) - 1 : r[j] = IF j < i THEN q[j] ELSE q[j + 1]
    BY <1>1
  <1> HIDE DEF r
  <1>5. ASSUME NEW a \in DOMAIN q, a # i
        PROVE  LET p == IF a < i THEN a ELSE a - 1 IN p \in DOMAIN r /\ r[p] = q[a]
    <2>1. CASE a < i
      BY <1>2, <1>3, <1>4, <2>1
    <2>2. CASE ~(a < i)
      <3>1. a - 1 \in 1 .. Len(q) - 1 /\ ~(a - 1 < i) /\ (a - 1) + 1 = a
        BY <1>2, <1>5, <2>2
      <3> QED BY <1>3, <1>4, <2>2, <3>1
    <2> QED BY <2>1, <2>2
  <1>6. ASSUME NEW p \in DOMAIN r
        PROVE  LET a == IF p < i THEN p ELSE p + 1
               IN  a \in DOMAIN q /\ a # i /\ r[p] = q[a]
    BY <1>2, <1>3, <1>4
  <1> QED BY <1>5, <1>6 DEF r

---------------------------------------------------------------------------
(* One lemma for each part of the invariant and the action that can disturb  *)
(* it.                                                                       *)

\* The flags keep their types, and the alarm shows what it should.
LEMMA FlagsStep ==
    ASSUME IInv, Next
    PROVE  FlagsOK' /\ AlarmShown'
  <1> USE DEF alarms, jog, plc
  <1>0. FlagsOK /\ AlarmShown
    BY DEF IInv
  <1>1. ASSUME NEW level \in BOOLEAN, Poll(level) PROVE FlagsOK' /\ AlarmShown'
    <2> DEFINE n == IF level # gpio.level THEN 1
                    ELSE IF gpio.n < DebounceCount THEN gpio.n + 1 ELSE gpio.n
               changes == Settled(n) /\ level # gpio.active
    <2>1. gpio.n \in 0 .. DebounceCount /\ gpio.active \in BOOLEAN
      BY <1>0 DEF FlagsOK
    <2>2. n \in 0 .. DebounceCount
      BY <2>1, PanelAssumption
    <2>3. /\ gpio' = [level |-> level, n |-> n,
                      active |-> IF changes THEN level ELSE gpio.active]
          /\ IF changes THEN Estop(level) ELSE UNCHANGED <<queue, shown, missed>>
          /\ UNCHANGED <<plcStop, op, visible, connected, posted, dt223>>
      BY <1>1, Zenon DEF Poll
    <2> HIDE DEF n, changes
    <2>4. (IF changes THEN level ELSE gpio.active) \in BOOLEAN
      BY <1>1, <2>1, Zenon
    <2>5. /\ gpio' \in [level : BOOLEAN, n : 0 .. DebounceCount, active : BOOLEAN]
          /\ gpio'.active = (IF changes THEN level ELSE gpio.active)
      BY <1>1, <2>2, <2>3, <2>4, SMT
    <2>6. /\ shown' \in BOOLEAN /\ missed' \in BOOLEAN
          /\ shown' <=> gpio'.active \/ plcStop'
      <3>1. CASE changes
        BY <1>0, <1>1, <2>3, <2>5, <3>1, Zenon DEF Estop, FlagsOK
      <3>2. CASE ~changes
        BY <1>0, <2>3, <2>5, <3>2, Zenon DEF FlagsOK, AlarmShown
      <3> QED BY <3>1, <3>2, Zenon
    <2>7. FlagsOK'
      BY <1>0, <2>3, <2>5, <2>6, Zenon DEF FlagsOK
    <2>8. AlarmShown'
      BY <1>0, <2>3, <2>6, Zenon DEF AlarmShown
    <2> QED BY <2>7, <2>8
  <1>2. CASE Monitor
    <2>1. gpio.active \in BOOLEAN
      BY <1>0 DEF FlagsOK
    <2>2. FlagsOK'
      BY <1>0, <1>2, <2>1, Zenon DEF Monitor, FlagsOK
    <2> QED BY <1>2, <2>2, Zenon DEF Monitor, AlarmShown
  <1>9. CASE ModeShown
    BY <1>0, <1>9, Zenon DEF ModeShown, FlagsOK, AlarmShown
  <1>3. CASE RunButton
    BY <1>0, <1>3, Zenon DEF RunButton, FlagsOK, AlarmShown
  <1>4. CASE JogOverlay
    <2>0. UNCHANGED <<gpio, plcStop, shown, op, connected, posted, dt223, missed>>
      BY <1>4, Zenon DEF JogOverlay
    <2>1. visible' \in BOOLEAN
      <3>1. CASE Open
        BY <3>1, Zenon DEF Open
      <3>2. CASE Close
        BY <3>2, Zenon DEF Close
      <3>3. CASE \E k \in Keys : PressKey(k) \/ ReleaseKey(k)
        <4>1. UNCHANGED visible
          BY <3>3, Zenon DEF PressKey, ReleaseKey
        <4> QED BY <1>0, <4>1, Zenon DEF FlagsOK
      <3> QED BY <1>4, <3>1, <3>2, <3>3, Zenon DEF JogOverlay
    <2>2. FlagsOK'
      BY <1>0, <2>0, <2>1, Zenon DEF FlagsOK
    <2> QED BY <1>0, <2>0, <2>2, Zenon DEF AlarmShown
  <1>5. CASE Execute
    <2> DEFINE c == queue[NextInQueue]
    <2>0. NextInQueue \in DOMAIN queue /\ queue \in Seq(Commands)
      BY <1>5, NextIsFirst, Zenon DEF IInv, QueueOK, Execute
    <2>1. c \in Commands
      BY <2>0
    <2>2. c.on \in BOOLEAN
      BY <2>1, CommandKinds, Zenon
    <2>3. /\ UNCHANGED <<gpio, plcStop, shown, op, visible, posted>>
          /\ connected' \in BOOLEAN
          /\ dt223' = dt223 \/ dt223' = c.on
          /\ missed' = missed \/ missed' \in BOOLEAN
      BY <1>5, Zenon DEF Execute
    <2>4. FlagsOK'
      BY <1>0, <2>2, <2>3, Zenon DEF FlagsOK
    <2> QED BY <1>0, <2>3, <2>4, Zenon DEF AlarmShown
  <1>6. CASE Lose
    BY <1>0, <1>6, Zenon DEF Lose, FlagsOK, AlarmShown
  <1>7. CASE Reconnect
    BY <1>0, <1>7, Zenon DEF Reconnect, FlagsOK, AlarmShown
  <1>8. CASE Delivered
    BY <1>0, <1>8, Zenon DEF Delivered, FlagsOK, AlarmShown
  <1> QED BY <1>1, <1>2, <1>3, <1>4, <1>5, <1>6, <1>7, <1>8, <1>9 DEF Next

\* The bits after a jog command: its direction, or fewer, and never both.
LEMMA BitsAfter ==
    ASSUME KeysOK, NEW c \in Commands, c.do = "jog"
    PROVE  /\ JogBits(c) \subseteq Keys /\ ~(Keys \subseteq JogBits(c))
           /\ \A k \in JogBits(c) : k \in bits \/ (c.on /\ k = c.key)
           /\ ~c.on => c.key \notin JogBits(c)
           /\ c = ResetJog => JogBits(c) = {}
  <1>1. CASE c = ResetJog
    <2>1. c.key = "all" /\ c.on = FALSE
      BY <1>1, CommandFields, Zenon
    <2>2. JogBits(c) = {}
      BY <2>1, Zenon DEF JogBits
    <2>3. ~(Keys \subseteq {})
      BY DEF Keys
    <2> QED BY <2>1, <2>2, <2>3
  <1>2. CASE c # ResetJog
    <2>1. c.key \in Keys /\ c.on \in BOOLEAN
      BY <1>2, CommandKinds, Zenon
    <2>2. c.key # "all"
      BY <2>1 DEF Keys
    <2>3. Opposite[c.key] \in Keys /\ Opposite[c.key] # c.key
      <3>1. \E o \in Keys : o # c.key
        BY <2>1 DEF Keys
      <3>2. Opposite[c.key] = CHOOSE o \in Keys : o # c.key
        BY <2>1, Zenon DEF Opposite
      <3> QED BY <3>1, <3>2, Zenon
    <2>4. bits \subseteq Keys /\ ~(Keys \subseteq bits)
      BY DEF KeysOK
    <2>5. CASE c.on
      <3>1. JogBits(c) = (bits \ {Opposite[c.key]}) \cup {c.key}
        BY <2>2, <2>5, Zenon DEF JogBits
      <3> QED BY <1>2, <2>1, <2>3, <2>4, <2>5, <3>1, Zenon
    <2>6. CASE ~c.on
      <3>1. JogBits(c) = bits \ {c.key}
        BY <2>2, <2>6, Zenon DEF JogBits
      <3> QED BY <1>2, <2>1, <2>4, <2>6, <3>1, Zenon
    <2> QED BY <2>5, <2>6, Zenon
  <1> QED BY <1>1, <1>2

\* What is held and what is set are keys, and no axis is told both directions.
LEMMA KeysStep ==
    ASSUME IInv, Next
    PROVE  KeysOK'
  <1> USE DEF alarms, jog, plc
  <1>0. KeysOK /\ FlagsOK
    BY DEF IInv
  <1>1. ASSUME NEW level \in BOOLEAN, Poll(level) PROVE KeysOK'
    BY <1>0, <1>1, Zenon DEF Poll, KeysOK, OneDirection
  <1>2. CASE Monitor
    BY <1>0, <1>2, Zenon DEF Monitor, KeysOK, OneDirection
  <1>9. CASE ModeShown
    BY <1>0, <1>9, Zenon DEF ModeShown, KeysOK, OneDirection
  <1>3. CASE RunButton
    BY <1>0, <1>3, Zenon DEF RunButton, KeysOK, OneDirection
  <1>4. CASE JogOverlay
    <2>1. UNCHANGED <<bits, dt220>>
      BY <1>4, Zenon DEF JogOverlay
    <2>2. CASE Open
      BY <1>0, <2>1, <2>2, Zenon DEF Open, KeysOK, OneDirection
    <2>3. CASE Close
      BY <1>0, <2>1, <2>3, Zenon DEF Close, KeysOK, OneDirection
    <2>4. ASSUME NEW k \in Keys, PressKey(k) PROVE KeysOK'
      BY <1>0, <2>1, <2>4, Zenon DEF PressKey, KeysOK, OneDirection
    <2>5. ASSUME NEW k \in Keys, ReleaseKey(k) PROVE KeysOK'
      BY <1>0, <2>1, <2>5, Zenon DEF ReleaseKey, KeysOK, OneDirection
    <2> QED BY <1>4, <2>2, <2>3, <2>4, <2>5, Zenon DEF JogOverlay
  <1>5. CASE Execute
    <2> DEFINE c == queue[NextInQueue]
    <2>0. NextInQueue \in DOMAIN queue /\ queue \in Seq(Commands)
      BY <1>5, NextIsFirst, Zenon DEF IInv, QueueOK, Execute
    <2>1. c \in Commands
      BY <2>0
    <2>2. UNCHANGED <<visible, held>>
      BY <1>5, Zenon DEF Execute
    <2>3. CASE c.do = "jog"
      <3>1. bits' = JogBits(c) /\ (dt220' = JogBits(c) \/ dt220' = dt220)
        BY <1>5, <2>3, Zenon DEF Execute
      <3> HIDE DEF c
      <3>2. JogBits(c) \subseteq Keys /\ ~(Keys \subseteq JogBits(c))
        BY <1>0, <2>1, <2>3, BitsAfter, Zenon
      <3> QED BY <1>0, <2>2, <3>1, <3>2, Zenon DEF KeysOK, OneDirection
    <2>4. CASE c.do # "jog"
      <3>1. UNCHANGED <<bits, dt220>>
        BY <1>5, <2>4, Zenon DEF Execute
      <3> QED BY <1>0, <2>2, <3>1, Zenon DEF KeysOK, OneDirection
    <2> QED BY <2>3, <2>4
  <1>6. CASE Lose
    BY <1>0, <1>6, Zenon DEF Lose, KeysOK, OneDirection
  <1>7. CASE Reconnect
    BY <1>0, <1>7, Zenon DEF Reconnect, KeysOK, OneDirection
  <1>8. CASE Delivered
    BY <1>0, <1>8, Zenon DEF Delivered, KeysOK, OneDirection
  <1> QED BY <1>1, <1>2, <1>3, <1>4, <1>5, <1>6, <1>7, <1>8, <1>9 DEF Next

\* Commands reach the queue at its end, or not at all.
LEMMA Submitted ==
    ASSUME queue \in Seq(Commands), NEW c \in Seq(Commands), SubmitConnected(c)
    PROVE  queue' \in Seq(Commands) /\ (queue' = queue \/ Len(queue') = Len(queue) + Len(c))
  <1>1. CASE connected
    BY <1>1, MoreQueued DEF SubmitConnected
  <1>2. CASE ~connected
    BY <1>2 DEF SubmitConnected
  <1> QED BY <1>1, <1>2

\* Commands that are submitted while there is room leave room for those of a new
\* connection.
LEMMA RoomLeft ==
    ASSUME QueueOK, NEW c \in Seq(Commands), Len(c) <= 2, UNCHANGED posted,
           queue' = queue \/ (Room /\ SubmitConnected(c))
    PROVE  QueueOK'
  <1>1. queue' \in Seq(Commands) /\ (queue' = queue \/ Len(queue') = Len(queue) + Len(c))
    <2>1. queue \in Seq(Commands)
      BY DEF QueueOK
    <2>2. CASE queue' = queue
      BY <2>1, <2>2, Zenon
    <2>3. CASE SubmitConnected(c)
      BY <2>1, <2>3, Submitted, Zenon
    <2> QED BY <2>2, <2>3, Zenon
  <1>2. CASE queue' = queue
    BY <1>2 DEF QueueOK
  <1>3. CASE queue' # queue
    <2>1. Len(queue') <= QueueMax + 1
      <3>1. Len(queue) \in Nat /\ Len(c) \in Nat /\ Len(queue) < QueueMax
        BY <1>3 DEF QueueOK, Room
      <3> QED BY <1>1, <1>3, <3>1, PanelAssumption
    <2>2. QueueMax + 1 <= QueueMax + 2
      BY PanelAssumption
    <2>3. Len(queue') \in Nat
      BY <1>1
    <2>4. Len(queue') <= IF posted' THEN QueueMax + 1 ELSE QueueMax + 2
      BY <2>1, <2>2, <2>3, PanelAssumption
    <2> QED BY <1>1, <2>4 DEF QueueOK
  <1> QED BY <1>2, <1>3

\* The UI thread submits no more than two commands at a time.
LEMMA AtMostTwo ==
    /\ \A c \in Commands : <<c>> \in Seq(Commands) /\ Len(<<c>>) <= 2
    /\ Released \in Seq(Commands) /\ Len(Released) <= 2
  BY OneCommand, BothReleased

\* The queue holds commands, and not too many.
LEMMA QueueStep ==
    ASSUME IInv, Next
    PROVE  QueueOK'
  <1> USE DEF alarms, jog, plc
  <1>0. QueueOK /\ queue \in Seq(Commands)
    BY DEF IInv, QueueOK
  <1>1. ASSUME NEW level \in BOOLEAN, Poll(level) PROVE QueueOK'
    <2>1. UNCHANGED posted /\ (queue' = queue
        \/ (Room /\ SubmitConnected(<<EstopCmd(level)>>)))
      BY <1>1, Zenon DEF Poll, Estop
    <2>2. EstopCmd(level) \in Commands
      BY CommandFields, Zenon
    <2> QED BY <1>0, <2>1, <2>2, AtMostTwo, RoomLeft, Zenon
  <1>2. CASE Monitor
    BY <1>0, <1>2 DEF Monitor, QueueOK
  <1>9. CASE ModeShown
    BY <1>0, <1>9 DEF ModeShown, QueueOK
  <1>3. CASE RunButton
    <2>1. /\ UNCHANGED posted /\ Room
          /\ \/ connected /\ queue' = Append(queue, RunCmd(FALSE))
             \/ SubmitConnected(<<RunCmd(TRUE)>>)
      BY <1>3, Zenon DEF RunButton
    <2>2. RunCmd(FALSE) \in Commands /\ RunCmd(TRUE) \in Commands
      BY CommandFields, Zenon
    <2>3. ASSUME connected, queue' = Append(queue, RunCmd(FALSE))
          PROVE  SubmitConnected(<<RunCmd(FALSE)>>)
      <3>1. Append(queue, RunCmd(FALSE)) = queue \o <<RunCmd(FALSE)>>
        BY <1>0, <2>2, AppendIsConcat, Zenon
      <3> QED BY <2>3, <3>1, Zenon DEF SubmitConnected
    <2> QED BY <1>0, <2>1, <2>2, <2>3, AtMostTwo, RoomLeft, Zenon
  <1>4. CASE JogOverlay
    <2>0. UNCHANGED posted
      BY <1>4, Zenon DEF JogOverlay
    <2>1. CASE Open
      BY <1>0, <2>0, <2>1 DEF Open, QueueOK
    <2>2. CASE Room /\ Close
      <3>1. queue' = queue \/ SubmitConnected(Released)
        BY <2>2, Zenon DEF Close
      <3> QED BY <1>0, <2>0, <2>2, <3>1, AtMostTwo, RoomLeft, Zenon
    <2>3. ASSUME NEW k \in Keys, PressKey(k) \/ ReleaseKey(k) PROVE QueueOK'
      <3>1. PICK on \in BOOLEAN : SubmitConnected(<<JogCmd(k, on)>>) /\ Room
        BY <2>3, Zenon DEF PressKey, ReleaseKey
      <3>2. JogCmd(k, on) \in Commands
        BY CommandFields, Zenon
      <3> QED BY <1>0, <2>0, <3>1, <3>2, AtMostTwo, RoomLeft, Zenon
    <2> QED BY <1>4, <2>1, <2>2, <2>3, Zenon DEF JogOverlay
  <1>5. CASE Execute
    <2>0. NextInQueue \in DOMAIN queue
      BY <1>0, <1>5, NextIsFirst, Zenon DEF Execute
    <2>1. queue' = RemoveAt(queue, NextInQueue) /\ UNCHANGED posted
      BY <1>5, Zenon DEF Execute
    <2>2. queue' \in Seq(Commands) /\ Len(queue') = Len(queue) - 1 /\ Len(queue) \in Nat
      BY <1>0, <2>0, <2>1, OneTaken
    <2> QED BY <1>0, <2>1, <2>2, PanelAssumption DEF QueueOK
  <1>6. CASE Lose
    BY <1>0, <1>6 DEF Lose, QueueOK
  <1>7. CASE Reconnect
    <2>1. queue' = <<>> /\ queue' \in Seq(Commands) /\ Len(queue') = 0 /\ posted' = TRUE
      BY <1>0, <1>7 DEF Reconnect
    <2> QED BY <2>1, PanelAssumption DEF QueueOK
  <1>8. CASE Delivered
    <2>1. posted /\ posted' = FALSE /\ queue' = queue \o <<ResetJog>>
      BY <1>8, Zenon DEF Delivered, OnConnect
    <2>2. <<ResetJog>> \in Seq(Commands) /\ Len(<<ResetJog>>) = 1
      BY CommandFields, OneCommand
    <2>3. queue' \in Seq(Commands) /\ Len(queue') = Len(queue) + 1
      BY <1>0, <2>1, <2>2, MoreQueued
    <2>4. Len(queue) <= QueueMax + 1 /\ Len(queue) \in Nat
      BY <1>0, <2>1 DEF QueueOK
    <2>5. Len(queue') <= QueueMax + 2
      BY <2>3, <2>4, PanelAssumption
    <2> QED BY <2>1, <2>3, <2>5 DEF QueueOK
  <1> QED BY <1>1, <1>2, <1>3, <1>4, <1>5, <1>6, <1>7, <1>8, <1>9 DEF Next

\* With commands behind the queue: what it sets is cleared again, when for each key
\* let go of since there is its release among them.
LEMMA FlowMore ==
    ASSUME NEW q \in Seq(Commands), NEW c \in Seq(Commands), NEW h, NEW g,
           OffFollows(q, h),
           \A i \in DOMAIN c : c[i].do = "jog" /\ c[i].on => c[i].key \in g,
           \A k \in Keys : k \in h /\ k \notin g =>
              \E j \in DOMAIN c : c[j] = JogCmd(k, FALSE)
    PROVE  OffFollows(q \o c, g)
  <1> DEFINE r == q \o c
  <1> SUFFICES ASSUME NEW i \in DOMAIN r, r[i].do = "jog", r[i].on, r[i].key \notin g
               PROVE  \E j \in DOMAIN r : i < j /\ r[j] = JogCmd(r[i].key, FALSE)
    BY Zenon DEF OffFollows
  <1> HIDE DEF r
  <1>0. /\ Len(q) \in Nat
        /\ \A p \in DOMAIN q : p \in DOMAIN r /\ r[p] = q[p] /\ p \in Nat /\ p <= Len(q)
        /\ \A p \in DOMAIN c : /\ Len(q) + p \in DOMAIN r /\ r[Len(q) + p] = c[p]
                               /\ p \in Nat /\ p >= 1
        /\ i \in DOMAIN q \/ \E p \in DOMAIN c : i = Len(q) + p
    <2>1. Len(q) \in Nat
      OBVIOUS
    <2>2. /\ \A p \in DOMAIN q : p \in DOMAIN r /\ r[p] = q[p]
          /\ \A p \in DOMAIN q : p \in Nat /\ p <= Len(q)
      BY MoreQueued, Zenon DEF r
    <2>3. /\ \A p \in DOMAIN c : Len(q) + p \in DOMAIN r /\ r[Len(q) + p] = c[p]
          /\ \A p \in DOMAIN c : p \in Nat /\ p >= 1
      BY MoreQueued, Zenon DEF r
    <2>4. i \in DOMAIN q \/ \E p \in DOMAIN c : i = Len(q) + p
      BY MoreQueued, ZenonT(40) DEF r
    <2> QED BY <2>1, <2>2, <2>3, <2>4, Zenon
  <1>1. i \in DOMAIN q
    BY <1>0, Zenon
  <1>2. r[i] = q[i]
    BY <1>0, <1>1, Zenon
  <1>3. CASE r[i].key \notin h
    <2>1. PICK j \in DOMAIN q : i < j /\ q[j] = JogCmd(q[i].key, FALSE)
      BY <1>1, <1>2, <1>3, Zenon DEF OffFollows
    <2> QED BY <1>0, <1>2, <2>1, Zenon
  <1>4. CASE r[i].key \in h
    <2>0. q[i] \in Commands
      BY <1>1
    <2>1. q[i].key \in Keys
      <3>1. q[i] # ResetJog
        BY <1>2, CommandFields, ZenonT(40)
      <3> QED BY <1>2, <2>0, <3>1, CommandKinds, Zenon
    <2>2. PICK j \in DOMAIN c : c[j] = JogCmd(q[i].key, FALSE)
      BY <1>2, <1>4, <2>1, Zenon
    <2>3. Len(q) + j \in DOMAIN r /\ r[Len(q) + j] = JogCmd(r[i].key, FALSE)
      BY <1>0, <1>2, <2>2, Zenon
    <2>4. i < Len(q) + j
      <3>1. j \in Nat /\ j >= 1 /\ i \in Nat /\ i <= Len(q) /\ Len(q) \in Nat
        BY <1>0, <1>1, <2>2, Zenon
      <3> QED BY <3>1
    <2> QED BY <2>3, <2>4, Zenon
  <1> QED BY <1>3, <1>4

\* The same for what is set already.
LEMMA ClearedMore ==
    ASSUME NEW q \in Seq(Commands), NEW c \in Seq(Commands), NEW h, NEW g,
           NEW b \in SUBSET Keys, WillBeCleared(q, h, b),
           \A k \in Keys : k \in h /\ k \notin g =>
              \E j \in DOMAIN c : c[j] = JogCmd(k, FALSE)
    PROVE  WillBeCleared(q \o c, g, b)
  <1> DEFINE r == q \o c
  <1> SUFFICES ASSUME NEW k \in b \ g
               PROVE  \E i \in DOMAIN r : r[i] \in {ResetJog, JogCmd(k, FALSE)}
    BY Zenon DEF WillBeCleared
  <1>0. /\ \A p \in DOMAIN q : p \in DOMAIN r /\ r[p] = q[p]
        /\ \A p \in DOMAIN c : Len(q) + p \in DOMAIN r /\ r[Len(q) + p] = c[p]
    BY MoreQueued, Zenon
  <1> HIDE DEF r
  <1>1. CASE k \in h
    <2>1. PICK j \in DOMAIN c : c[j] = JogCmd(k, FALSE)
      BY <1>1, Zenon
    <2> QED BY <1>0, <2>1, Zenon
  <1>2. CASE k \notin h
    <2>1. PICK i \in DOMAIN q : q[i] \in {ResetJog, JogCmd(k, FALSE)}
      BY <1>2, Zenon DEF WillBeCleared
    <2> QED BY <1>0, <2>1, Zenon
  <1> QED BY <1>1, <1>2

\* Commands that the UI thread submits, with the keys as they are afterwards: each one
\* that sets a direction has its key held, each key let go of its release submitted.
LEMMA FlowSubmitted ==
    ASSUME QueueOK, KeysOK, FlowOK, NEW c \in Seq(Commands),
           UNCHANGED <<connected, posted, bits, dt220>>,
           (queue' = queue /\ held' = held) \/ SubmitConnected(c),
           \A i \in DOMAIN c : c[i].do = "jog" /\ c[i].on => c[i].key \in held',
           \A k \in Keys : k \in held /\ k \notin held' =>
              \E j \in DOMAIN c : c[j] = JogCmd(k, FALSE)
    PROVE  FlowOK'
  <1>1. CASE queue' = queue /\ held' = held
    BY <1>1, Zenon DEF FlowOK, OffFollows, WillBeCleared
  <1>2. CASE ~connected
    BY <1>2, Zenon DEF FlowOK
  <1>3. CASE connected /\ SubmitConnected(c)
    <2>1. queue' = queue \o c /\ queue \in Seq(Commands) /\ dt220 \cup bits \in SUBSET Keys
      BY <1>3, Zenon DEF SubmitConnected, QueueOK, KeysOK
    <2>2. OffFollows(queue, held) /\ (~posted => WillBeCleared(queue, held, dt220 \cup bits))
      BY <1>3, Zenon DEF FlowOK
    <2>3. OffFollows(queue \o c, held')
      BY <2>1, <2>2, FlowMore, Zenon
    <2>4. ASSUME ~posted PROVE WillBeCleared(queue \o c, held', dt220 \cup bits)
      BY <2>1, <2>2, <2>4, ClearedMore, Zenon
    <2>5. OffFollows(queue', held')
      BY <2>1, <2>3, Zenon
    <2>6. ~posted' => WillBeCleared(queue', held', dt220' \cup bits')
      <3>1. posted' = posted /\ dt220' = dt220 /\ bits' = bits
        OBVIOUS
      <3> QED BY <2>1, <2>4, <3>1
    <2> QED BY <2>5, <2>6, Zenon DEF FlowOK, OffFollows, WillBeCleared
  <1> QED BY <1>1, <1>2, <1>3

\* A command is executed, and the answer arrives: what it set is cleared by a later one.
LEMMA FlowExecuted ==
    ASSUME IInv, Execute, connected'
    PROVE  FlowOK'
  <1> USE DEF alarms, jog, plc
  <1> DEFINE f == NextInQueue
             c == queue[f]
             r == RemoveAt(queue, f)
  <1>0. QueueOK /\ KeysOK /\ FlowOK /\ queue \in Seq(Commands)
    BY Zenon DEF IInv, QueueOK
  <1>1. f \in DOMAIN queue /\ c \in Commands
    <2>1. f \in DOMAIN queue
      BY <1>0, NextIsFirst, Zenon DEF Execute
    <2> QED BY <1>0, <2>1
  <1>2. \A j \in DOMAIN queue :
            c.prio < queue[j].prio \/ (c.prio = queue[j].prio /\ f <= j)
    BY <1>0, NextIsFirst, Zenon DEF Execute
  <1>3. /\ connected /\ queue' = r /\ UNCHANGED <<held, posted>>
        /\ c.do = "jog" => bits' = JogBits(c) /\ dt220' = JogBits(c)
        /\ c.do # "jog" => bits' = bits /\ dt220' = dt220
    BY Zenon DEF Execute
  <1>4. /\ \A a \in DOMAIN queue : a # f =>
              LET p == IF a < f THEN a ELSE a - 1 IN p \in DOMAIN r /\ r[p] = queue[a]
        /\ \A p \in DOMAIN r :
              LET a == IF p < f THEN p ELSE p + 1
              IN  a \in DOMAIN queue /\ a # f /\ r[p] = queue[a]
    BY <1>0, <1>1, Positions, Zenon
  <1>5. /\ OffFollows(queue, held)
        /\ ~posted => WillBeCleared(queue, held, dt220 \cup bits)
    BY <1>0, <1>3, Zenon DEF FlowOK
  <1> HIDE DEF f, c, r
  <1>6. OffFollows(r, held)
    <2> SUFFICES ASSUME NEW p \in DOMAIN r, r[p].do = "jog", r[p].on, r[p].key \notin held
                 PROVE  \E s \in DOMAIN r : p < s /\ r[s] = JogCmd(r[p].key, FALSE)
      BY Zenon DEF OffFollows
    <2> DEFINE a == IF p < f THEN p ELSE p + 1
    <2>1. a \in DOMAIN queue /\ a # f /\ r[p] = queue[a]
      BY <1>4, Zenon
    <2>2. PICK j \in DOMAIN queue : a < j /\ queue[j] = JogCmd(queue[a].key, FALSE)
      BY <1>5, <2>1, Zenon DEF OffFollows
    <2>3. p \in Nat /\ f \in Nat /\ a \in Nat /\ j \in Nat
      <3>1. r \in Seq(Commands)
        BY <1>0, <1>1, OneTaken, Zenon DEF r
      <3> QED BY <1>0, <1>1, <2>1, <2>2, <3>1
    <2>4. queue[a].key \in Keys /\ queue[a].prio = 0
      <3>1. queue[a] \in Commands
        BY <1>0, <2>1
      <3>2. queue[a] # ResetJog
        BY <2>1, CommandFields, ZenonT(40)
      <3>3. /\ queue[a].key \in Keys /\ queue[a].on \in BOOLEAN
            /\ queue[a] = JogCmd(queue[a].key, queue[a].on)
        BY <2>1, <3>1, <3>2, CommandKinds, Zenon
      <3>4. JogCmd(queue[a].key, queue[a].on).prio = 0
        BY <3>3, CommandFields, Zenon
      <3> QED BY <3>3, <3>4
    <2>5. j # f
      <3> SUFFICES ASSUME j = f PROVE FALSE
        OBVIOUS
      <3>1. c.prio = 0
        <4>1. c = JogCmd(queue[a].key, FALSE)
          BY <2>2 DEF c
        <4> HIDE DEF c
        <4>2. JogCmd(queue[a].key, FALSE).prio = 0
          BY <2>4, CommandFields, Zenon
        <4> QED BY <4>1, <4>2
      <3>2. f <= a
        BY <1>2, <2>1, <2>4, <3>1
      <3> QED BY <2>2, <2>3, <3>2
    <2> DEFINE s == IF j < f THEN j ELSE j - 1
    <2>6. s \in DOMAIN r /\ r[s] = queue[j]
      BY <1>4, <2>5, Zenon
    <2>7. p < s
      BY <2>2, <2>3, <2>5
    <2> QED BY <2>1, <2>2, <2>6, <2>7, Zenon
  <1>7. ASSUME ~posted PROVE WillBeCleared(r, held, dt220' \cup bits')
    <2> SUFFICES ASSUME NEW k \in (dt220' \cup bits') \ held
                 PROVE  \E a \in DOMAIN queue :
                            a # f /\ queue[a] \in {ResetJog, JogCmd(k, FALSE)}
      BY <1>4, Zenon DEF WillBeCleared
    <2>1. dt220 \cup bits \in SUBSET Keys
      BY <1>0, Zenon DEF KeysOK
    <2>2. CASE c.do # "jog"
      <3>1. k \in (dt220 \cup bits) \ held /\ k \in Keys
        BY <1>3, <2>1, <2>2, Zenon
      <3>2. PICK a \in DOMAIN queue : queue[a] \in {ResetJog, JogCmd(k, FALSE)}
        BY <1>5, <1>7, <3>1, Zenon DEF WillBeCleared
      <3>3. queue[a].do = "jog"
        BY <3>1, <3>2, CommandFields, ZenonT(40)
      <3> QED BY <2>2, <3>2, <3>3, Zenon DEF c
    <2>3. CASE c.do = "jog"
      <3>1. /\ k \in JogBits(c) /\ k \in Keys
            /\ k \in bits \/ (c.on /\ k = c.key)
        BY <1>0, <1>1, <1>3, <2>3, BitsAfter, Zenon
      <3>2. CASE c.on /\ k = c.key
        <4>1. PICK j \in DOMAIN queue : f < j /\ queue[j] = JogCmd(c.key, FALSE)
          BY <1>1, <1>5, <2>3, <3>2, Zenon DEF OffFollows, c
        <4>2. j # f
          BY <1>0, <1>1, <4>1
        <4> QED BY <3>2, <4>1, <4>2, Zenon
      <3>3. CASE k \in bits
        <4>1. PICK a \in DOMAIN queue : queue[a] \in {ResetJog, JogCmd(k, FALSE)}
          BY <1>5, <1>7, <3>3, Zenon DEF WillBeCleared
        <4>2. c # ResetJog
          BY <1>0, <1>1, <2>3, <3>1, BitsAfter, Zenon
        <4>3. c # JogCmd(k, FALSE)
          <5> SUFFICES ASSUME c = JogCmd(k, FALSE) PROVE FALSE
            OBVIOUS
          <5>1. c.key = k /\ c.on = FALSE
            BY <3>1, CommandFields, Zenon
          <5> QED BY <1>0, <1>1, <2>3, <3>1, <5>1, BitsAfter, Zenon
        <4> QED BY <4>1, <4>2, <4>3, Zenon DEF c
      <3> QED BY <3>1, <3>2, <3>3, Zenon
    <2> QED BY <2>2, <2>3
  <1>8. OffFollows(queue', held')
    BY <1>3, <1>6
  <1>9. ~posted' => WillBeCleared(queue', held', dt220' \cup bits')
    BY <1>3, <1>7
  <1> QED BY <1>8, <1>9, Zenon DEF FlowOK, OffFollows, WillBeCleared

\* An overlay that closes either was closed, with nothing held, or submits the releases.
LEMMA ClosedOverlay ==
    ASSUME KeysOK, Close
    PROVE  (queue' = queue /\ held' = held) \/ SubmitConnected(Released)
  BY Zenon DEF KeysOK, Close

\* As long as the link lasts, what is set is held or will be cleared.
LEMMA FlowKept ==
    ASSUME IInv, Next
    PROVE  FlowOK'
  <1> USE DEF alarms, jog, plc
  <1>0. QueueOK /\ KeysOK /\ FlowOK /\ queue \in Seq(Commands)
    BY Zenon DEF IInv, QueueOK
  <1>1. ASSUME NEW level \in BOOLEAN, Poll(level) PROVE FlowOK'
    <2> DEFINE c == <<EstopCmd(level)>>
    <2>1. /\ UNCHANGED <<held, connected, posted, bits, dt220>>
          /\ queue' = queue \/ SubmitConnected(c)
      BY <1>1, Zenon DEF Poll, Estop
    <2>2. EstopCmd(level) \in Commands /\ EstopCmd(level).do # "jog"
      <3>1. "stop" # "jog"
        OBVIOUS
      <3> QED BY <3>1, CommandFields, Zenon
    <2>3. c \in Seq(Commands) /\ \A i \in DOMAIN c : c[i].do # "jog"
      BY <2>2, OneCommand
    <2> HIDE DEF c
    <2> QED BY <1>0, <2>1, <2>3, FlowSubmitted, Zenon
  <1>2. CASE Monitor
    BY <1>0, <1>2, Zenon DEF Monitor, FlowOK, OffFollows, WillBeCleared
  <1>9. CASE ModeShown
    BY <1>0, <1>9, Zenon DEF ModeShown, FlowOK, OffFollows, WillBeCleared
  <1>3. CASE RunButton
    <2>1. /\ UNCHANGED <<held, connected, posted, bits, dt220>>
          /\ \/ connected /\ queue' = Append(queue, RunCmd(FALSE))
             \/ SubmitConnected(<<RunCmd(TRUE)>>)
      BY <1>3, Zenon DEF RunButton
    <2>2. ASSUME connected, queue' = Append(queue, RunCmd(FALSE))
          PROVE  SubmitConnected(<<RunCmd(FALSE)>>)
      <3>1. Append(queue, RunCmd(FALSE)) = queue \o <<RunCmd(FALSE)>>
        <4>1. RunCmd(FALSE) \in Commands
          BY CommandFields, Zenon
        <4> QED BY <1>0, <4>1, AppendIsConcat, Zenon
      <3> QED BY <2>2, <3>1, Zenon DEF SubmitConnected
    <2>3. PICK on \in BOOLEAN : SubmitConnected(<<RunCmd(on)>>)
      BY <2>1, <2>2, Zenon
    <2> DEFINE c == <<RunCmd(on)>>
    <2>4. RunCmd(on) \in Commands /\ RunCmd(on).do # "jog"
      <3>1. "stop" # "jog"
        OBVIOUS
      <3> QED BY <3>1, CommandFields, Zenon
    <2>5. c \in Seq(Commands) /\ \A i \in DOMAIN c : c[i].do # "jog"
      BY <2>4, OneCommand
    <2>6. SubmitConnected(c)
      BY <2>3
    <2> HIDE DEF c
    <2> QED BY <1>0, <2>1, <2>5, <2>6, FlowSubmitted, Zenon
  <1>4. CASE JogOverlay
    <2>0. UNCHANGED <<connected, posted, bits, dt220>>
      BY <1>4, Zenon DEF JogOverlay
    <2>1. CASE Open
      BY <1>0, <2>0, <2>1, Zenon DEF Open, FlowOK, OffFollows, WillBeCleared
    <2>2. CASE Close
      <3>1. (queue' = queue /\ held' = held) \/ SubmitConnected(Released)
        BY <1>0, <2>2, ClosedOverlay, Zenon
      <3> QED BY <1>0, <2>0, <3>1, BothReleased, FlowSubmitted, Zenon
    <2>3. ASSUME NEW k \in Keys, NEW on \in BOOLEAN, SubmitConnected(<<JogCmd(k, on)>>),
                 held' = IF on THEN held \cup {k} ELSE held \ {k}
          PROVE  FlowOK'
      <3> DEFINE c == <<JogCmd(k, on)>>
      <3>1. JogCmd(k, on) \in Commands /\ JogCmd(k, on).on = on /\ JogCmd(k, on).key = k
        BY CommandFields, Zenon
      <3>2. /\ c \in Seq(Commands) /\ 1 \in DOMAIN c /\ c[1] = JogCmd(k, on)
            /\ \A i \in DOMAIN c : c[i] = JogCmd(k, on)
        BY <3>1, OneCommand
      <3>3. SubmitConnected(c)
        BY <2>3
      <3> HIDE DEF c
      <3>4. \A i \in DOMAIN c : c[i].do = "jog" /\ c[i].on => c[i].key \in held'
        BY <2>3, <3>1, <3>2, Zenon
      <3>5. ASSUME NEW h \in Keys, h \in held, h \notin held'
            PROVE  \E j \in DOMAIN c : c[j] = JogCmd(h, FALSE)
        <4>1. CASE on
          BY <2>3, <3>5, <4>1, Zenon
        <4>2. CASE ~on
          <5>1. h = k /\ on = FALSE
            BY <2>3, <3>5, <4>2, Zenon
          <5> QED BY <3>2, <5>1, Zenon
        <4> QED BY <4>1, <4>2
      <3> QED BY <1>0, <2>0, <3>2, <3>3, <3>4, <3>5, FlowSubmitted, Zenon
    <2>4. ASSUME NEW k \in Keys, PressKey(k) PROVE FlowOK'
      BY <2>3, <2>4, Zenon DEF PressKey
    <2>5. ASSUME NEW k \in Keys, ReleaseKey(k) PROVE FlowOK'
      BY <2>3, <2>5, Zenon DEF ReleaseKey
    <2> QED BY <1>4, <2>1, <2>2, <2>4, <2>5, Zenon DEF JogOverlay
  <1>5. CASE Execute
    <2>1. CASE connected'
      BY <1>5, <2>1, FlowExecuted
    <2> QED BY <2>1, Zenon DEF FlowOK
  <1>6. CASE Lose
    BY <1>6, Zenon DEF Lose, FlowOK
  <1>7. CASE Reconnect
    <2>1. posted' = TRUE /\ queue' = <<>>
      BY <1>7, Zenon DEF Reconnect
    <2>2. \A i \in DOMAIN queue' : FALSE
      BY <2>1
    <2> QED BY <2>1, <2>2, Zenon DEF FlowOK, OffFollows
  <1>8. CASE Delivered
    <2> DEFINE c == <<ResetJog>>
    <2>1. /\ UNCHANGED <<held, connected, bits, dt220>> /\ queue' = queue \o c
      BY <1>8, Zenon DEF Delivered, OnConnect
    <2>2. ResetJog \in Commands /\ ResetJog.on = FALSE
      BY CommandFields, Zenon
    <2>3. /\ c \in Seq(Commands) /\ 1 \in DOMAIN c /\ c[1] = ResetJog
          /\ \A i \in DOMAIN c : c[i] = ResetJog
      BY <2>2, OneCommand
    <2> HIDE DEF c
    <2>4. ASSUME connected PROVE OffFollows(queue \o c, held)
      <3>1. OffFollows(queue, held)
        BY <1>0, <2>4, Zenon DEF FlowOK
      <3>2. \A i \in DOMAIN c : c[i].do = "jog" /\ c[i].on => c[i].key \in held
        BY <2>2, <2>3, Zenon
      <3> QED BY <1>0, <2>3, <3>1, <3>2, FlowMore, Zenon
    <2>5. \E i \in DOMAIN (queue \o c) : (queue \o c)[i] = ResetJog
      BY <1>0, <2>3, MoreQueued, Zenon
    <2>6. \A h, b : WillBeCleared(queue \o c, h, b)
      BY <2>5, Zenon DEF WillBeCleared
    <2> QED BY <2>1, <2>4, <2>6, Zenon DEF FlowOK, OffFollows, WillBeCleared
  <1> QED BY <1>1, <1>2, <1>3, <1>4, <1>5, <1>6, <1>7, <1>8, <1>9 DEF Next

---------------------------------------------------------------------------
(* The theorem.                                                              *)

\* Initially nothing is held, queued or connected.
LEMMA InitPanel == Init => IInv
  <1> SUFFICES ASSUME Init PROVE IInv
    OBVIOUS
  <1>1. FlagsOK
    <2>1. gpio \in [level : BOOLEAN, n : 0 .. DebounceCount, active : BOOLEAN]
      <3>1. 0 \in 0 .. DebounceCount
        BY PanelAssumption
      <3> QED BY <3>1, SMT DEF Init
    <2>2. op \in {0, 1}
      BY DEF Init
    <2> QED BY <2>1, <2>2, Zenon DEF Init, FlagsOK
  <1>2. AlarmShown
    BY DEF Init, AlarmShown
  <1>3. KeysOK
    <2>1. dt220 \subseteq Keys /\ dt220 # Keys
      <3>1. dt220 \in (SUBSET Keys) \ {Keys}
        BY Zenon DEF Init
      <3> QED BY <3>1, Zenon
    <2>2. ~(Keys \subseteq {})
      BY DEF Keys
    <2>3. ~(Keys \subseteq dt220)
      BY <2>1
    <2> QED BY <2>1, <2>2, <2>3, Zenon DEF Init, KeysOK, OneDirection
  <1>4. QueueOK
    BY PanelAssumption DEF Init, QueueOK
  <1>5. FlowOK
    BY Zenon DEF Init, FlowOK
  <1> QED BY <1>1, <1>2, <1>3, <1>4, <1>5, Zenon DEF IInv

\* The inductive invariant gives what the run checks.
LEMMA PanelOfIInv == IInv => PanelInv
  <1> SUFFICES ASSUME IInv PROVE PanelInv
    OBVIOUS
  <1>1. TypeOK
    <2>1. Len(queue) <= QueueMax + 2
      <3>1. QueueMax + 1 <= QueueMax + 2 /\ Len(queue) \in Nat
        BY PanelAssumption DEF IInv, QueueOK
      <3> QED BY <3>1, PanelAssumption DEF IInv, QueueOK
    <2> QED BY <2>1, Zenon DEF IInv, FlagsOK, KeysOK, TypeOK
  <1>2. OneDirection /\ AlarmShown
    BY Zenon DEF IInv, KeysOK
  <1>3. MovesOnlyHeld
    <2> SUFFICES ASSUME connected, ~posted, queue = <<>> PROVE dt220 \subseteq held
      BY Zenon DEF MovesOnlyHeld
    <2>1. WillBeCleared(queue, held, dt220 \cup bits)
      BY Zenon DEF IInv, FlowOK
    <2>2. \A i \in DOMAIN queue : FALSE
      OBVIOUS
    <2> QED BY <2>1, <2>2, Zenon DEF WillBeCleared
  <1> QED BY <1>1, <1>2, <1>3, Zenon DEF PanelInv

\* The keys of the overlay, for every order in which keys, overlay, runs, losses and
\* new connections come, runs that start beside an open overlay among them: the PLC never
\* sees both directions of an axis, no bit stays behind once the queue is executed, and
\* the alarm is shown as long as one of its causes lasts.
THEOREM PanelInvariant == Spec => []PanelInv
  <1>1. Init => IInv
    BY InitPanel
  <1>2. IInv /\ [Next]_vars => IInv'
    <2> SUFFICES ASSUME IInv, [Next]_vars PROVE IInv'
      OBVIOUS
    <2>1. CASE Next
      BY <2>1, FlagsStep, KeysStep, QueueStep, FlowKept, Zenon DEF IInv
    <2>2. CASE UNCHANGED vars
      BY <2>2, Zenon DEF vars, alarms, jog, plc, IInv, FlagsOK, AlarmShown, KeysOK,
         OneDirection,
            QueueOK, FlowOK, OffFollows, WillBeCleared
    <2> QED BY <2>1, <2>2
  <1>3. IInv => PanelInv
    BY PanelOfIInv
  <1> QED BY <1>1, <1>2, <1>3, PTL DEF Spec
---------------------------------------------------------------------------
(* OperatorQuestions: the types, that the popup on the screen is the question *)
(* that counts as active, and that the questions that wait together are of    *)
(* one run.                                                                   *)
USE DEF Requests, NoCallback, StartCallback, PageCallbacks, Ended

\* What a flow does and what is known of a request.
FlowStates == [pc : {"off", "run", "ask"}, req : Nat]
Asked == [f : Flows, run : Nat, dec : {"none", "reset", "stop"}]

\* The numbers of the requests made, and with the end of a run what the signals carry.
Made == 1 .. Len(reqs)
Signalled == 0 .. Len(reqs)

AskFlagsOK ==
    /\ live \in BOOLEAN /\ stop \in BOOLEAN /\ timer \in BOOLEAN /\ mode \in BOOLEAN
    /\ MaxRuns \in Nat /\ run \in 0 .. MaxRuns /\ orphans \subseteq Flows

FlowsOK == flow \in [Flows -> FlowStates] /\ \A f \in Flows : flow[f].req \in Signalled

ReqsOK == MaxAsks \in Nat /\ reqs \in Seq(Asked) /\ Len(reqs) <= MaxAsks

QueuesOK ==
    /\ events \in Seq(Signalled) /\ pending \in Seq(Made)
    /\ active \in Signalled /\ slot \in {NoCallback} \cup PageCallbacks \cup Made

\* Every request in a queue was made in the run that is the last: a run starts by a
\* press of a page, and a page is pressed only when no question waits.
OfThisRun(q) == \A i \in DOMAIN q : q[i] # Ended => reqs[q[i]].run = run
Present ==
    /\ OfThisRun(pending) /\ OfThisRun(events)
    /\ active # 0 => reqs[active].run = run

\* The inductive invariant.
QuestionsIInv == AskFlagsOK /\ FlowsOK /\ ReqsOK /\ QueuesOK /\ ActiveOnScreen /\ Present

\* Queues keep their types when they grow ...
LEMMA Appended == ASSUME NEW S, NEW q \in Seq(S), NEW x \in S PROVE Append(q, x) \in Seq(S)
  OBVIOUS

\* ... and what all their elements are, all of a longer queue are.
LEMMA AppendedRun ==
    ASSUME NEW S, NEW q \in Seq(S), NEW x \in S, OfThisRun(q),
           x # Ended => reqs[x].run = run
    PROVE  OfThisRun(Append(q, x))
  <1>1. DOMAIN Append(q, x) = 1 .. Len(q) + 1 /\ DOMAIN q = 1 .. Len(q) /\ Len(q) \in Nat
        /\ Append(q, x)[Len(q) + 1] = x
        /\ \A i \in 1 .. Len(q) : Append(q, x)[i] = q[i]
    OBVIOUS
  <1> QED BY <1>1 DEF OfThisRun

\* The first and the rest of a queue.
LEMMA TakenRun ==
    ASSUME NEW S, NEW q \in Seq(S), q # <<>>, OfThisRun(q)
    PROVE  /\ Tail(q) \in Seq(S) /\ OfThisRun(Tail(q))
           /\ Head(q) \in S /\ (Head(q) # Ended => reqs[Head(q)].run = run)
  <1>1. Tail(q) \in Seq(S) /\ Head(q) \in S /\ 1 \in DOMAIN q /\ Head(q) = q[1]
    OBVIOUS
  <1>2. \A i \in DOMAIN Tail(q) : i + 1 \in DOMAIN q /\ Tail(q)[i] = q[i + 1]
    OBVIOUS
  <1> QED BY <1>1, <1>2 DEF OfThisRun

\* A queue of some numbers is one of more.
LEMMA Wider == ASSUME NEW S, NEW T, S \subseteq T, NEW q \in Seq(S) PROVE q \in Seq(T)
  <1>1. Len(q) \in Nat /\ q \in [1 .. Len(q) -> S]
    OBVIOUS
  <1>2. q \in [1 .. Len(q) -> T]
    BY <1>1
  <1> QED BY <1>1, <1>2, SeqDef

\* More requests, or requests of which only the answers differ, leave all in order.
LEMMA RequestsGrow ==
    ASSUME QuestionsIInv, Len(reqs') \in Nat, Len(reqs) <= Len(reqs'), run' = run,
           \A r \in Made : reqs'[r].run = reqs[r].run
    PROVE  /\ pending \in Seq(Made') /\ events \in Seq(Signalled')
           /\ active \in Signalled' /\ slot \in {NoCallback} \cup PageCallbacks \cup Made'
           /\ \A f \in Flows : flow[f].req \in Signalled'
           /\ OfThisRun(pending) /\ OfThisRun(events) /\ (active # 0 => reqs[active].run = run)
           /\ pending' = pending => OfThisRun(pending)'
           /\ events' = events => OfThisRun(events)'
           /\ active' = active /\ active # 0 => reqs'[active].run = run'
  <1>1. Len(reqs) \in Nat
    BY DEF QuestionsIInv, ReqsOK
  <1>2. Made \subseteq Made' /\ Signalled \subseteq Signalled'
    BY <1>1 DEF Made, Signalled
  <1>3. pending \in Seq(Made') /\ events \in Seq(Signalled')
    BY <1>2, Wider DEF QuestionsIInv, QueuesOK
  <1>4. \A i \in DOMAIN pending : pending[i] \in Made
    BY DEF QuestionsIInv, QueuesOK
  <1>5. \A i \in DOMAIN events : events[i] \in Signalled
    BY DEF QuestionsIInv, QueuesOK
  <1>6. \A i \in Signalled : i # Ended => i \in Made
    BY <1>1 DEF Signalled, Made
  <1>7. pending' = pending => OfThisRun(pending)'
    BY <1>4 DEF QuestionsIInv, Present, OfThisRun
  <1>8. events' = events => OfThisRun(events)'
    BY <1>5, <1>6 DEF QuestionsIInv, Present, OfThisRun
  <1>9. active' = active /\ active # 0 => reqs'[active].run = run'
    BY <1>6 DEF QuestionsIInv, Present, QueuesOK
  <1> QED BY <1>2, <1>3, <1>7, <1>8, <1>9 DEF QuestionsIInv, Present, QueuesOK, FlowsOK

\* The invariant but for the types of flags and of flows.
Screens == ReqsOK /\ QueuesOK /\ ActiveOnScreen /\ Present

\* What leaves the requests, the run and the screen alone.
LEMMA ScreenLeftAlone ==
    ASSUME Screens, UNCHANGED <<screen, reqs, run>>,
           events' = events \/ events' = Append(events, Ended)
    PROVE  Screens'
  <1>1. Len(reqs) \in Nat /\ Ended \in Signalled
    BY DEF Screens, ReqsOK, Signalled
  <1>2. events' \in Seq(Signalled)
    BY <1>1, Appended DEF Screens, QueuesOK
  <1>3. OfThisRun(events')
    BY <1>1, AppendedRun DEF Screens, QueuesOK, Present
  <1>4. UNCHANGED <<pending, active, slot, timer, reqs, run>>
    BY DEF screen
  <1>5. OfThisRun(events)' /\ OfThisRun(pending)'
    BY <1>3, <1>4 DEF Screens, Present, OfThisRun
  <1>6. ReqsOK'
    BY <1>4 DEF Screens, ReqsOK
  <1>7. QueuesOK'
    BY <1>2, <1>4 DEF Screens, QueuesOK, Signalled, Made
  <1>8. ActiveOnScreen' /\ Present'
    BY <1>4, <1>5 DEF Screens, ActiveOnScreen, Present
  <1> QED BY <1>6, <1>7, <1>8 DEF Screens

\* A flow that goes on or ends.
LEMMA FlowGoes ==
    ASSUME FlowsOK, NEW f \in Flows, NEW pc \in {"off", "run", "ask"}, Goto(f, pc),
           UNCHANGED reqs
    PROVE  FlowsOK'
  <1>1. [Idle EXCEPT !.pc = pc] = [pc |-> pc, req |-> 0]
    BY DEF Idle
  <1>2. flow' = [flow EXCEPT ![f] = [pc |-> pc, req |-> 0]]
    BY <1>1, Zenon DEF Goto
  <1>3. [pc |-> pc, req |-> 0] \in FlowStates
    BY DEF FlowStates
  <1>4. flow' \in [Flows -> FlowStates]
    BY <1>2, <1>3 DEF FlowsOK
  <1> QED BY <1>2, <1>4 DEF FlowsOK, Signalled

\* A question is of the run that is the last.
LEMMA AskKeeps == ASSUME QuestionsIInv, NEW f \in Flows, Ask(f) PROVE QuestionsIInv'
  <1> DEFINE n == Len(reqs) + 1
             q == [f |-> f, run |-> run, dec |-> "none"]
  <1>1. /\ Len(reqs) \in Nat /\ n <= MaxAsks /\ reqs' = Append(reqs, q)
        /\ events' = Append(events, n)
        /\ flow' = [flow EXCEPT ![f] = [pc |-> "ask", req |-> n]]
        /\ UNCHANGED <<live, stop, run, pending, active, slot, timer, mode, orphans>>
    BY DEF Ask, QuestionsIInv, ReqsOK, screen
  <1>2. q \in Asked
    BY DEF QuestionsIInv, AskFlagsOK, Asked
  <1>3. reqs' \in Seq(Asked) /\ Len(reqs') = n /\ reqs'[n] = q
        /\ \A r \in Made : reqs'[r] = reqs[r]
    BY <1>1, <1>2 DEF QuestionsIInv, ReqsOK, Made
  <1>4. /\ pending \in Seq(Made') /\ events \in Seq(Signalled')
        /\ active \in Signalled' /\ slot \in {NoCallback} \cup PageCallbacks \cup Made'
        /\ \A g \in Flows : flow[g].req \in Signalled'
        /\ OfThisRun(pending)'
        /\ active # 0 => reqs'[active].run = run'
    <2>1. Len(reqs') \in Nat /\ Len(reqs) <= Len(reqs') /\ run' = run
          /\ \A r \in Made : reqs'[r].run = reqs[r].run
      <3>1. Len(reqs') \in Nat /\ Len(reqs) <= Len(reqs')
        BY <1>1, <1>3
      <3>2. \A r \in Made : reqs'[r].run = reqs[r].run
        BY <1>3, Zenon
      <3> QED BY <1>1, <3>1, <3>2, Zenon
    <2> QED BY <1>1, <2>1, RequestsGrow, Zenon
  <1>5. n \in Signalled' /\ n # Ended /\ reqs'[n].run = run'
    BY <1>1, <1>3 DEF Signalled
  <1>6. events' \in Seq(Signalled')
    BY <1>1, <1>4, <1>5, Appended
  <1>7. OfThisRun(events)'
    <2>1. \A i \in DOMAIN events : events[i] \in Signalled
      BY DEF QuestionsIInv, QueuesOK
    <2>2. \A i \in DOMAIN events : events[i] # Ended => reqs'[events[i]].run = run'
      BY <1>1, <1>3, <2>1 DEF QuestionsIInv, Present, OfThisRun, Signalled, Made
    <2>3. DOMAIN events' = 1 .. Len(events) + 1 /\ DOMAIN events = 1 .. Len(events)
          /\ Len(events) \in Nat /\ events'[Len(events) + 1] = n
          /\ \A i \in 1 .. Len(events) : events'[i] = events[i]
      BY <1>1 DEF QuestionsIInv, QueuesOK
    <2> QED BY <1>5, <2>2, <2>3 DEF OfThisRun
  <1>8. FlowsOK'
    <2>1. [pc |-> "ask", req |-> n] \in FlowStates
      BY <1>1 DEF FlowStates
    <2>2. flow' \in [Flows -> FlowStates]
      BY <1>1, <2>1 DEF QuestionsIInv, FlowsOK
    <2>3. \A g \in Flows : flow'[g].req \in Signalled'
      BY <1>1, <1>4, <1>5 DEF QuestionsIInv, FlowsOK
    <2> QED BY <2>2, <2>3 DEF FlowsOK
  <1>9. ReqsOK' /\ QueuesOK'
    BY <1>1, <1>3, <1>4, <1>6 DEF QuestionsIInv, ReqsOK, QueuesOK
  <1>10. AskFlagsOK' /\ ActiveOnScreen' /\ Present'
    BY <1>1, <1>4, <1>7 DEF QuestionsIInv, AskFlagsOK, ActiveOnScreen, Present
  <1> QED BY <1>8, <1>9, <1>10 DEF QuestionsIInv

\* The executor's steps change no question.
LEMMA ExecutorKeeps ==
    ASSUME QuestionsIInv,
           \/ \E f \in Flows : FlowStep(f) \/ Finish(f)
           \/ EndRun \/ FailMain \/ FailWorker \/ UNCHANGED questionsVars
    PROVE  QuestionsIInv'
  <1>1. Screens'
    <2>1. UNCHANGED <<screen, reqs, run>>
          /\ (events' = events \/ events' = Append(events, Ended))
      BY DEF FlowStep, Answered, Abandon, Finish, EndRun, FailMain, FailWorker,
         questionsVars, executor
    <2> QED BY <2>1, ScreenLeftAlone DEF QuestionsIInv, Screens
  <1>2. AskFlagsOK'
    BY DEF QuestionsIInv, AskFlagsOK, FlowStep, Answered, Abandon, Finish, EndRun,
       FailMain, FailWorker,
           questionsVars, executor, screen
  <1>3. FlowsOK'
    <2>1. CASE \E f \in Flows : FlowStep(f) \/ Finish(f)
      BY <2>1, FlowGoes DEF QuestionsIInv, FlowStep, Answered, Abandon, Finish
    <2>2. CASE FailWorker
      BY <2>2, FlowGoes DEF QuestionsIInv, FailWorker
    <2>3. CASE EndRun \/ FailMain \/ UNCHANGED questionsVars
      BY <2>3 DEF QuestionsIInv, FlowsOK, Signalled, EndRun, FailMain, questionsVars, executor
    <2> QED BY <2>1, <2>2, <2>3
  <1> QED BY <1>1, <1>2, <1>3 DEF QuestionsIInv, Screens

\* The next question is shown: of the queue that has it.
LEMMA ShowKeeps ==
    ASSUME Screens, NEW waiting, waiting \in Seq(Made), OfThisRun(waiting), ShowNext(waiting),
           UNCHANGED <<reqs, run>>
    PROVE  /\ pending' \in Seq(Made) /\ OfThisRun(pending)'
           /\ active' \in Signalled /\ slot' \in {NoCallback} \cup PageCallbacks \cup Made
           /\ active' # 0 => slot' = active' /\ reqs'[active'].run = run'
           /\ slot' \in Requests => active' = slot'
           /\ pending' # <<>> => active' # 0
  <1>1. Made \subseteq Signalled /\ Made \subseteq Requests /\ 0 \notin Made
    BY DEF Made, Signalled, Screens, ReqsOK
  <1>2. CASE MayShow(waiting)
    <2>1. Head(waiting) \in Made /\ reqs[Head(waiting)].run = run
          /\ Tail(waiting) \in Seq(Made) /\ OfThisRun(Tail(waiting))
      <3>1. waiting # <<>>
        BY <1>2 DEF MayShow
      <3>2. Tail(waiting) \in Seq(Made) /\ OfThisRun(Tail(waiting)) /\ Head(waiting) \in Made
            /\ (Head(waiting) # Ended => reqs[Head(waiting)].run = run)
        BY <3>1, TakenRun
      <3> QED BY <1>1, <3>2, Zenon DEF Ended
    <2>2. active' = Head(waiting) /\ slot' = Head(waiting) /\ pending' = Tail(waiting)
      BY <1>2 DEF ShowNext
    <2>3. OfThisRun(pending)'
      BY <2>1, <2>2 DEF OfThisRun
    <2> QED BY <1>1, <2>1, <2>2, <2>3, Zenon
  <1>3. CASE ~MayShow(waiting)
    <2>1. active' = active /\ slot' = slot /\ pending' = waiting
      BY <1>3 DEF ShowNext
    <2>2. OfThisRun(pending)'
      BY <2>1 DEF OfThisRun
    <2>3. pending' # <<>> => active' # 0
      BY <1>3, <2>1, Zenon DEF MayShow
    <2> QED BY <2>1, <2>2, <2>3 DEF Screens, QueuesOK, ActiveOnScreen, Present
  <1> QED BY <1>2, <1>3

\* A signal reaches the screen.
LEMMA DeliverKeeps == ASSUME QuestionsIInv, Deliver PROVE QuestionsIInv'
  <1>1. /\ events # <<>> /\ events' = Tail(events)
        /\ UNCHANGED <<live, stop, run, flow, orphans, reqs, timer>>
    BY DEF Deliver, executor
  <1>2. /\ Tail(events) \in Seq(Signalled) /\ OfThisRun(Tail(events))
        /\ Head(events) \in Signalled
        /\ (Head(events) # Ended => reqs[Head(events)].run = run)
    BY <1>1, TakenRun DEF QuestionsIInv, QueuesOK, Present
  <1>3. OfThisRun(events)'
    BY <1>1, <1>2 DEF OfThisRun
  <1>4. mode' \in BOOLEAN
    BY DEF Deliver, QuestionsIInv, AskFlagsOK
  <1>5. AskFlagsOK' /\ FlowsOK' /\ ReqsOK'
    BY <1>1, <1>4 DEF QuestionsIInv, AskFlagsOK, FlowsOK, ReqsOK, Signalled
  <1>6. CASE Head(events) = Ended
    <2>1. UNCHANGED <<active, slot, pending>>
      BY <1>6 DEF Deliver
    <2>2. QueuesOK'
      BY <1>1, <1>2, <2>1 DEF QuestionsIInv, QueuesOK, Made, Signalled
    <2>3. ActiveOnScreen' /\ Present'
      BY <1>1, <1>3, <2>1 DEF QuestionsIInv, ActiveOnScreen, Present, OfThisRun
    <2> QED BY <1>5, <2>2, <2>3 DEF QuestionsIInv
  <1>7. CASE Head(events) # Ended
    <2> DEFINE waiting == Append(pending, Head(events))
    <2>1. ShowNext(waiting)
      BY <1>7 DEF Deliver
    <2>2. Head(events) \in Made /\ reqs[Head(events)].run = run
      BY <1>2, <1>7 DEF Made, Signalled
    <2>3. waiting \in Seq(Made) /\ OfThisRun(waiting)
      BY <2>2, Appended, AppendedRun DEF QuestionsIInv, QueuesOK, Present
    <2> HIDE DEF waiting
    <2>4. /\ pending' \in Seq(Made) /\ OfThisRun(pending)'
          /\ active' \in Signalled /\ slot' \in {NoCallback} \cup PageCallbacks \cup Made
          /\ active' # 0 => slot' = active' /\ reqs'[active'].run = run'
          /\ slot' \in Requests => active' = slot'
          /\ pending' # <<>> => active' # 0
      BY <1>1, <2>1, <2>3, ShowKeeps, Zenon DEF QuestionsIInv, Screens
    <2>5. QueuesOK'
      BY <1>1, <1>2, <2>4 DEF QueuesOK, Made, Signalled
    <2>6. ActiveOnScreen' /\ Present'
      BY <1>3, <2>4 DEF ActiveOnScreen, Present
    <2> QED BY <1>5, <2>5, <2>6 DEF QuestionsIInv
  <1> QED BY <1>6, <1>7

\* The timer shows what waits.
LEMMA TimeoutKeeps == ASSUME QuestionsIInv, Timeout PROVE QuestionsIInv'
  <1>1. /\ ShowNext(pending) /\ timer' = FALSE
        /\ UNCHANGED <<live, stop, run, flow, orphans, reqs, events, mode>>
    BY DEF Timeout, executor
  <1>2. pending \in Seq(Made) /\ OfThisRun(pending)
    BY DEF QuestionsIInv, QueuesOK, Present
  <1>3. /\ pending' \in Seq(Made) /\ OfThisRun(pending)'
        /\ active' \in Signalled /\ slot' \in {NoCallback} \cup PageCallbacks \cup Made
        /\ active' # 0 => slot' = active' /\ reqs'[active'].run = run'
        /\ slot' \in Requests => active' = slot'
        /\ pending' # <<>> => active' # 0
    BY <1>1, <1>2, ShowKeeps, Zenon DEF QuestionsIInv, Screens
  <1>4. QueuesOK'
    BY <1>1, <1>3 DEF QuestionsIInv, QueuesOK, Made, Signalled
  <1>5. ActiveOnScreen' /\ Present'
    BY <1>1, <1>3 DEF QuestionsIInv, ActiveOnScreen, Present, OfThisRun
  <1> QED BY <1>1, <1>4, <1>5 DEF QuestionsIInv, AskFlagsOK, FlowsOK, ReqsOK, Signalled

\* The answer of the question on the screen, and with a stop of those behind it.
LEMMA AnswerKeeps == ASSUME QuestionsIInv, NEW accepted \in BOOLEAN, Answer(accepted)
    PROVE QuestionsIInv'
  <1>1. /\ slot \in Requests /\ slot' = NoCallback
        /\ UNCHANGED <<live, stop, run, flow, orphans, events, mode>>
        /\ pending' = IF accepted THEN pending ELSE <<>>
        /\ accepted => timer'
        /\ timer' \in BOOLEAN
    BY DEF Answer, executor, PendingAfter, ShowsNext, QuestionsIInv, AskFlagsOK
  <1>2. active' = 0
    BY <1>1 DEF Answer, QuestionsIInv, ActiveOnScreen
  <1>3. PICK dec \in {"reset", "stop"} :
          Resolve({slot}, dec) \/ Resolve(Stopped(slot), dec)
    BY DEF Answer
  <1> DEFINE ids == IF Resolve({slot}, dec) THEN {slot} ELSE Stopped(slot)
  <1>4. /\ Len(reqs') = Len(reqs) /\ reqs' \in Seq(Asked)
        /\ \A r \in Made : reqs'[r].run = reqs[r].run
    <2>1. /\ reqs \in Seq(Asked) /\ Len(reqs) \in Nat
          /\ reqs' = [r \in 1 .. Len(reqs) |->
                        IF r \in ids THEN [reqs[r] EXCEPT !.dec = dec] ELSE reqs[r]]
      BY <1>3 DEF Resolve, QuestionsIInv, ReqsOK
    <2> HIDE DEF ids
    <2>2. \A r \in 1 .. Len(reqs) : reqs[r] \in Asked
      BY <2>1
    <2>3. \A r \in 1 .. Len(reqs) :
            [reqs[r] EXCEPT !.dec = dec] \in Asked
            /\ [reqs[r] EXCEPT !.dec = dec].run = reqs[r].run
      BY <2>2 DEF Asked
    <2>4. reqs' \in [1 .. Len(reqs) -> Asked]
      BY <2>1, <2>2, <2>3
    <2>5. reqs' \in Seq(Asked) /\ Len(reqs') = Len(reqs)
      BY <2>1, <2>4, SeqDef
    <2> QED BY <2>1, <2>3, <2>5, Zenon DEF Made
  <1>5. Len(reqs') \in Nat /\ Len(reqs) <= Len(reqs') /\ run' = run
    BY <1>1, <1>4 DEF QuestionsIInv, ReqsOK
  <1>6. /\ pending \in Seq(Made') /\ events \in Seq(Signalled')
        /\ \A f \in Flows : flow[f].req \in Signalled'
        /\ pending' = pending => OfThisRun(pending)'
        /\ events' = events => OfThisRun(events)'
    BY <1>4, <1>5, RequestsGrow, Zenon
  <1>7. pending' \in Seq(Made') /\ OfThisRun(pending)'
    BY <1>1, <1>6, EmptySeq DEF OfThisRun
  <1>8. 0 \in Signalled'
    BY <1>5 DEF Signalled
  <1>9. QueuesOK' /\ ReqsOK'
    BY <1>1, <1>2, <1>4, <1>6, <1>7, <1>8 DEF QuestionsIInv, QueuesOK, ReqsOK
  <1>10. ActiveOnScreen' /\ Present'
    BY <1>1, <1>2, <1>6, <1>7 DEF ActiveOnScreen, Present
  <1>11. AskFlagsOK' /\ FlowsOK'
    BY <1>1, <1>6 DEF QuestionsIInv, AskFlagsOK, FlowsOK
  <1> QED BY <1>9, <1>10, <1>11 DEF QuestionsIInv

\* A page's popup comes, a stop is pressed.
LEMMA PressKeeps == ASSUME QuestionsIInv, PageAsks \/ PressStop PROVE QuestionsIInv'
  <1>1. /\ UNCHANGED <<run, flow, reqs, events, pending, active, timer>>
        /\ slot = NoCallback /\ slot' \in {NoCallback} \cup PageCallbacks
    BY DEF PageAsks, PressStop, executor
  <1>2. AskFlagsOK' /\ FlowsOK' /\ ReqsOK'
    BY <1>1 DEF QuestionsIInv, AskFlagsOK, FlowsOK, ReqsOK, PageAsks, PressStop,
       executor, Signalled
  <1>3. QueuesOK'
    BY <1>1 DEF QuestionsIInv, QueuesOK, Made, Signalled
  <1>4. ActiveOnScreen' /\ Present'
    BY <1>1 DEF QuestionsIInv, ActiveOnScreen, Present, OfThisRun, QueuesOK
  <1> QED BY <1>2, <1>3, <1>4 DEF QuestionsIInv

\* A run starts when no question waits.
LEMMA StartKeeps == ASSUME QuestionsIInv, events = <<>>, ~timer, PageAnswered
    PROVE QuestionsIInv'
  <1>1. /\ slot \in PageCallbacks /\ slot' = NoCallback
        /\ UNCHANGED <<reqs, events, pending, active, timer>>
    BY DEF PageAnswered
  <1>2. active = 0 /\ pending = <<>>
    BY <1>1 DEF QuestionsIInv, ActiveOnScreen, QueuesOK, ReqsOK, Signalled
  <1>3. run' \in 0 .. MaxRuns /\ live' \in BOOLEAN /\ stop' \in BOOLEAN /\ mode' \in BOOLEAN
        /\ orphans' \subseteq Flows
    <2>1. mode' \in BOOLEAN
      BY DEF PageAnswered, QuestionsIInv, AskFlagsOK
    <2>2. CASE UNCHANGED executor
      BY <2>1, <2>2 DEF executor, QuestionsIInv, AskFlagsOK
    <2>3. CASE ~live /\ Start
      <3>1. MaxRuns \in Nat /\ run \in 0 .. MaxRuns /\ run < MaxRuns /\ run' = run + 1
        BY <2>3 DEF Start, QuestionsIInv, AskFlagsOK
      <3>2. run' \in 0 .. MaxRuns
        BY <3>1
      <3> QED BY <2>1, <2>3, <3>2 DEF Start, QuestionsIInv, AskFlagsOK
    <2> QED BY <2>1, <2>2, <2>3 DEF PageAnswered, Start
  <1>4. FlowsOK'
    <2>1. CASE UNCHANGED executor
      BY <1>1, <2>1 DEF executor, QuestionsIInv, FlowsOK, Signalled
    <2>2. CASE flow' = [f \in Flows |-> IF flow[f].pc = "off" THEN [Idle EXCEPT !.pc = "run"]
                                        ELSE flow[f]]
      <3>1. [Idle EXCEPT !.pc = "run"] = [pc |-> "run", req |-> 0]
        BY DEF Idle
      <3>2. [pc |-> "run", req |-> 0] \in FlowStates
        BY DEF FlowStates
      <3>3. flow' \in [Flows -> FlowStates]
        BY <2>2, <3>1, <3>2 DEF QuestionsIInv, FlowsOK
      <3>4. 0 \in Signalled /\ Signalled' = Signalled
        BY <1>1 DEF Signalled, QuestionsIInv, ReqsOK
      <3>5. \A f \in Flows : flow'[f].req \in Signalled'
        BY <2>2, <3>1, <3>4 DEF QuestionsIInv, FlowsOK
      <3> QED BY <3>3, <3>5 DEF FlowsOK
    <2> QED BY <2>1, <2>2 DEF PageAnswered, Start, executor
  <1>5. QueuesOK' /\ ReqsOK'
    BY <1>1 DEF QuestionsIInv, QueuesOK, ReqsOK, Made, Signalled
  <1>6. ActiveOnScreen' /\ Present'
    BY <1>1, <1>2 DEF ActiveOnScreen, Present, OfThisRun
  <1> QED BY <1>1, <1>3, <1>4, <1>5, <1>6 DEF QuestionsIInv, AskFlagsOK

\* Initially no question was asked.
LEMMA InitQuestions ==
    ASSUME QuestionsInit PROVE QuestionsIInv
  <1>0. MaxAsks \in Nat /\ MaxRuns \in Nat
    BY QuestionsAssumption
  <1>1. FlowsOK
    BY DEF QuestionsInit, FlowsOK, FlowStates, Idle, Signalled
  <1>2. QueuesOK /\ ReqsOK
    BY <1>0 DEF QuestionsInit, QueuesOK, ReqsOK, Signalled
  <1>3. AskFlagsOK
    <2>1. 0 \in 0 .. MaxRuns /\ {} \subseteq Flows
      BY <1>0
    <2> QED BY <1>0, <2>1, Zenon DEF QuestionsInit, AskFlagsOK
  <1>4. ActiveOnScreen
    BY DEF QuestionsInit, ActiveOnScreen
  <1>5. Present
    BY DEF QuestionsInit, Present, OfThisRun
  <1> QED BY <1>1, <1>2, <1>3, <1>4, <1>5 DEF QuestionsIInv

\* What the invariant says of the questions that wait.
LEMMA QuestionsFollow == QuestionsIInv => QuestionsInv
  <1> SUFFICES ASSUME QuestionsIInv PROVE QuestionsTypeOK /\ OneRunAsks
    BY DEF QuestionsInv, QuestionsIInv
  <1>1. QuestionsTypeOK
    <2>1. \A f \in Flows : flow[f].pc \in {"off", "run", "ask"} /\ flow[f].req \in 0 .. Len(reqs)
      BY DEF QuestionsIInv, FlowsOK, FlowStates, Signalled
    <2>2. \A r \in DOMAIN reqs : reqs[r].dec \in {"none", "reset", "stop"}
      <3>1. \A r \in DOMAIN reqs : reqs[r] \in Asked
        BY DEF QuestionsIInv, ReqsOK
      <3> QED BY <3>1 DEF Asked
    <2>3. active \in 0 .. MaxAsks /\ slot \in {NoCallback} \cup PageCallbacks
        \cup Requests
      BY DEF QuestionsIInv, QueuesOK, ReqsOK, Made, Signalled
    <2> QED BY <2>1, <2>2, <2>3 DEF QuestionsIInv, AskFlagsOK, QuestionsTypeOK
  <1>2. \A r \in Waiting : reqs[r].run = run
    <2>1. \A r \in ToSet(pending) : reqs[r].run = run
      <3>1. \A i \in DOMAIN pending : pending[i] \in Made
        BY DEF QuestionsIInv, QueuesOK
      <3> QED BY <3>1 DEF ToSet, QuestionsIInv, Present, OfThisRun, Made
    <2> QED BY <2>1 DEF Waiting, QuestionsIInv, Present
  <1> QED BY <1>1, <1>2 DEF OneRunAsks

\* For every set of flows and every number of questions and runs: the popup of a
\* question is the question that counts as active, none is lost behind another, and the
\* questions that wait together are of one run, so that a stop never stops a later run.
THEOREM QuestionsInvariant == QuestionsSpec => []QuestionsInv
  <1>1. QuestionsIInv /\ [QuestionsNext]_questionsVars => QuestionsIInv'
    <2> SUFFICES ASSUME QuestionsIInv, [QuestionsNext]_questionsVars PROVE QuestionsIInv'
      OBVIOUS
    <2>1. CASE \E f \in Flows : Ask(f)
      BY <2>1, AskKeeps
    <2>2. CASE (\E f \in Flows : FlowStep(f) \/ Finish(f))
               \/ EndRun \/ FailMain \/ FailWorker \/ UNCHANGED questionsVars
      BY <2>2, ExecutorKeeps
    <2>3. CASE Deliver
      BY <2>3, DeliverKeeps
    <2>4. CASE Timeout
      BY <2>4, TimeoutKeeps
    <2>5. CASE Press
      BY <2>5, AnswerKeeps, PressKeeps, StartKeeps DEF Press, Popup
    <2> QED BY <2>1, <2>2, <2>3, <2>4, <2>5 DEF QuestionsNext
  <1> QED BY InitQuestions, <1>1, QuestionsFollow, PTL DEF QuestionsSpec
=============================================================================
