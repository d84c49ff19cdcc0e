----------------------- MODULE PendantMailbox_proof -----------------------
(* Proofs about PendantMailbox, for every SeqMax, set of commands, bound and *)
(* fault: the type invariant, the invariant that relates the sequence        *)
(* numbers to the log of handled requests, that the mailbox implements       *)
(* CommandLog; that a pulse is timed and a command that is done is over, but *)
(* for the disagreements that the properties name; and, without restarts,    *)
(* that done is true of the command it is reported of.  One lemma for each   *)
(* statement group of the function block says what it keeps and what it does *)
(* to the log; the scan composes them.                                       *)
EXTENDS PendantMailbox, TLAPS

USE SeqMaxAssumption DEF Idle, Busy, Done, Failed

\* The last element of a log that grew by one request.
LEMMA LastOfAppend ==
    ASSUME NEW s \in Seq(Nat), NEW x \in Nat
    PROVE  LastOf(Append(s, x)) = x /\ Append(s, x) \in Seq(Nat)
  BY DEF LastOf

\* The newest handled request is a number, 0 when none was handled.
LEMMA LastOfNat == ASSUME NEW s \in Seq(Nat) PROVE LastOf(s) \in Nat
  BY DEF LastOf

\* The fields of the function block's state.
LEMMA PlcFields ==
    ASSUME NEW p \in PlcState
    PROVE  /\ p.ack \in SeqNumbers /\ p.active \in SeqNumbers
           /\ p.state \in 0 .. 3 /\ p.acmd \in AllCommands
           /\ p.pulse \in Nat /\ p.lit \in SUBSET Nat /\ p.motion \in Nat
           /\ p.prev \in BOOLEAN /\ p.log \in Seq(Nat)
           /\ p.left \in SUBSET Nat /\ p.over \in BOOLEAN
           /\ 0 \in 0 .. 3 /\ 1 \in 0 .. 3 /\ 2 \in 0 .. 3 /\ 3 \in 0 .. 3
  BY DEF PlcState

\* The fields of a request.
LEMMA RequestFields ==
    ASSUME NEW r \in Request
    PROVE  r.id \in Nat /\ r.seq \in SeqNumbers /\ r.cmd \in AllCommands
  BY DEF Request

\* What a statement group must not do to keep Answered: handle a request,
\* change the active command, start a pulse or make the block busy; and if it
\* acknowledges, it ends the block's busy state with the active sequence.
Quiet(p, q) ==
    /\ q.log = p.log /\ q.active = p.active
    /\ q.pulse # 0 => q.pulse = p.pulse
    /\ q.state = Busy => p.state = Busy
    /\ \/ q.ack = p.ack /\ q.state = p.state
       \/ q.ack = p.active /\ q.state # Busy /\ (p.state = Busy \/ p.pulse # 0)

\* A quiet statement group keeps the relation of log and sequence numbers.
LEMMA QuietKeeps ==
    ASSUME NEW p \in PlcState, NEW q \in PlcState, NEW r \in Request,
           Answered(p, r), Quiet(p, q)
    PROVE  Answered(q, r)
  BY DEF Quiet, Answered

\* The servo blocks only end a motion.
LEMMA ServoQuiet ==
    ASSUME NEW p \in PlcState, NEW done \in BOOLEAN, NEW err \in BOOLEAN
    PROVE  /\ ServoReports(p, done, err) \in PlcState
           /\ Quiet(p, ServoReports(p, done, err))
  BY DEF ServoReports, PlcState, Quiet

\* A dropped interlock acknowledges the active command and no other.
LEMMA InterlockQuiet ==
    ASSUME NEW p \in PlcState, NEW ok \in BOOLEAN
    PROVE  Interlock(p, ok) \in PlcState /\ Quiet(p, Interlock(p, ok))
  <1>1. Interlock(p, ok) \in PlcState
    <2>1. CASE ok
      BY <2>1, PlcFields DEF Interlock, PlcState
    <2>2. CASE ~ok
      BY <2>2, PlcFields DEF Interlock, PlcState
    <2> QED BY <2>1, <2>2
  <1>2. Quiet(p, Interlock(p, ok))
    BY DEF Interlock, PlcState, Quiet
  <1> QED BY <1>1, <1>2

\* A pulse that ends acknowledges the active command and no other.
LEMMA PulseEndQuiet ==
    ASSUME NEW p \in PlcState, NEW elapsed \in BOOLEAN
    PROVE  PulseEnd(p, elapsed) \in PlcState /\ Quiet(p, PulseEnd(p, elapsed))
  <1>1. PulseEnd(p, elapsed) \in PlcState
    BY PlcFields DEF PulseEnd, PlcState
  <1>2. Quiet(p, PulseEnd(p, elapsed))
    BY DEF PulseEnd, PlcState, Quiet
  <1> QED BY <1>1, <1>2

\* A motion that ends acknowledges the active command and no other.
LEMMA MotionQuiet ==
    ASSUME NEW p \in PlcState, NEW done \in BOOLEAN, NEW err \in BOOLEAN
    PROVE  /\ MotionStatus(p, done, err) \in PlcState
           /\ Quiet(p, MotionStatus(p, done, err))
  <1>1. MotionStatus(p, done, err) \in PlcState
    BY PlcFields DEF MotionStatus, PlcState
  <1>2. Quiet(p, MotionStatus(p, done, err))
    BY DEF MotionStatus, PlcState, Quiet
  <1> QED BY <1>1, <1>2

---------------------------------------------------------------------------
\* The log after a statement group that looks at request r: unchanged, or one
\* longer by a request newer than every handled one.
LogStep(p, q, r) ==
    q.log = p.log \/ (LastOf(p.log) < r.id /\ q.log = Append(p.log, r.id))

\* The CASE leaves the log and the active command alone; it answers the request
\* in the same scan, or it is busy with it.
LEMMA ExecuteEffect ==
    ASSUME NEW p \in PlcState, NEW r \in Request, r.cmd # "STOP",
           p.active = r.seq
    PROVE  LET q == Execute(p, r)
           IN  /\ q \in PlcState
               /\ q.log = p.log /\ q.active = p.active
               /\ q.ack = r.seq \/ q.state = Busy
  <1> DEFINE q == Execute(p, r)
  <1>1. p.lit \cup {r.id} \in SUBSET Nat /\ {} \in SUBSET Nat
    BY PlcFields, RequestFields
  <1>2. CASE r.cmd = "PULSE"
    BY <1>1, <1>2, PlcFields, RequestFields DEF Execute, PlcState
  <1>3. CASE r.cmd = "OFF"
    BY <1>1, <1>3, PlcFields, RequestFields DEF Execute, Ack, PlcState
  <1>4. CASE r.cmd \in {"MOVE", "HOME"}
    BY <1>4, PlcFields, RequestFields DEF Execute, PlcState
  <1>5. CASE r.cmd = "MOVE_NOWAIT"
    BY <1>5, PlcFields, RequestFields DEF Execute, Ack, PlcState
  <1>6. CASE r.cmd \in {"SET", "RESET"}
    BY <1>6, PlcFields, RequestFields DEF Execute, Ack, PlcState
  <1>7. CASE r.cmd = "BAD"
    BY <1>7, PlcFields, RequestFields DEF Execute, Ack, PlcState
  <1> QED BY <1>2, <1>3, <1>4, <1>5, <1>6, <1>7, RequestFields DEF AllCommands

\* A request that is due is handled once: it was not handled before, and it is
\* the newest entry of the log and answered or active afterwards.
LEMMA HandleKeeps ==
    ASSUME NEW p \in PlcState, NEW r \in Request, Answered(p, r),
           NEW ok \in BOOLEAN, NEW moving \in BOOLEAN
    PROVE  LET q == HandleRequest(p, r, ok, moving)
           IN  /\ q \in PlcState /\ Answered(q, r) /\ LogStep(p, q, r)
               /\ q = p \/ (LastOf(p.log) < r.id /\ LastOf(q.log) = r.id)
  <1> DEFINE q == HandleRequest(p, r, ok, moving)
  <1>1. CASE r.seq # p.ack /\ r.cmd = "STOP"
    <2>1. LastOf(p.log) # r.id
      BY <1>1, PlcFields DEF Answered
    <2>2. LastOf(p.log) < r.id
      BY <2>1, LastOfNat, PlcFields, RequestFields DEF Answered
    <2>3. Append(p.log, r.id) \in Seq(Nat) /\ LastOf(Append(p.log, r.id)) = r.id
      BY LastOfAppend, PlcFields, RequestFields
    <2>4. q = StopNow(p, r)
      BY <1>1 DEF HandleRequest
    <2>5. /\ q \in PlcState
          /\ q.log = Append(p.log, r.id)
          /\ q.ack = r.seq /\ q.state = Done /\ q.pulse = 0
      <3>1. {} \in SUBSET Nat /\ 0 \in Nat
        OBVIOUS
      <3>2. q \in PlcState
        BY <2>3, <2>4, <3>1, PlcFields, RequestFields, ZenonT(40) DEF StopNow, Ack, PlcState
      <3>3. /\ q.log = Append(p.log, r.id)
            /\ q.ack = r.seq /\ q.state = Done /\ q.pulse = 0
        BY <2>4 DEF StopNow, Ack, PlcState
      <3> QED BY <3>2, <3>3
    <2> QED
      BY <2>2, <2>3, <2>5, RequestFields DEF Answered, LogStep
  <1>2. CASE ~(r.seq # p.ack /\ r.cmd = "STOP") /\ Takes(p, r)
    <2>1. LastOf(p.log) # r.id
      BY <1>2, PlcFields DEF Answered, Takes
    <2>2. LastOf(p.log) < r.id
      BY <2>1, LastOfNat, PlcFields, RequestFields DEF Answered
    <2>3. Append(p.log, r.id) \in Seq(Nat) /\ LastOf(Append(p.log, r.id)) = r.id
      BY LastOfAppend, PlcFields, RequestFields
    <2> DEFINE taken == [p EXCEPT !.active = r.seq, !.acmd = r.cmd,
                                  !.log = Append(@, r.id),
                                  !.over = moving \/ p.pulse # 0]
    <2>4. /\ taken \in PlcState
          /\ taken.log = Append(p.log, r.id) /\ taken.active = r.seq
      <3>1. taken.log = Append(p.log, r.id) /\ taken.active = r.seq
        BY DEF PlcState
      <3>2. (moving \/ p.pulse # 0) \in BOOLEAN
        OBVIOUS
      <3>3. taken \in PlcState
        BY <2>3, <3>2, PlcFields, RequestFields DEF PlcState
      <3> QED BY <3>1, <3>3
    <2>5. q = IF ok THEN Execute(taken, r) ELSE Ack(taken, r, Failed)
      BY <1>2 DEF HandleRequest, Accept
    <2>6. /\ q \in PlcState
          /\ q.log = taken.log /\ q.active = r.seq
          /\ q.ack = r.seq \/ q.state = Busy
      <3> HIDE DEF taken
      <3>1. CASE ok
        BY <1>2, <2>4, <2>5, <3>1, ExecuteEffect DEF Takes
      <3>2. CASE ~ok
        BY <2>4, <2>5, <3>2, PlcFields, RequestFields DEF Ack, PlcState
      <3> QED BY <3>1, <3>2
    <2>7. r.cmd # "STOP"
      BY <1>2 DEF Takes
    <2> QED
      BY <2>2, <2>3, <2>4, <2>6, <2>7, RequestFields DEF Answered, LogStep
  <1>3. CASE ~(r.seq # p.ack /\ r.cmd = "STOP") /\ ~Takes(p, r)
    BY <1>3 DEF HandleRequest, LogStep
  <1> QED BY <1>1, <1>2, <1>3

\* A whole scan keeps the relation and handles at most one request.
LEMMA ScanKeeps ==
    ASSUME NEW p \in PlcState, NEW r \in Request, Answered(p, r),
           NEW ok \in BOOLEAN, NEW elapsed \in BOOLEAN,
           NEW done \in BOOLEAN, NEW err \in BOOLEAN
    PROVE  LET q == AfterScan(p, r, ok, elapsed, done, err)
           IN  q \in PlcState /\ Answered(q, r) /\ LogStep(p, q, r)
  <1> DEFINE a == ServoReports(p, done, err)
             b == Interlock(a, ok)
             c == PulseEnd(b, elapsed)
             moving == p.motion # 0
             d == HandleRequest(c, r, ok, moving)
             e == MotionStatus(d, done, err)
  <1>1. a \in PlcState /\ Answered(a, r) /\ a.log = p.log
    BY ServoQuiet, QuietKeeps DEF Quiet
  <1>2. b \in PlcState /\ Answered(b, r) /\ b.log = p.log
    <2> HIDE DEF a
    <2> QED BY <1>1, InterlockQuiet, QuietKeeps DEF Quiet
  <1>3. c \in PlcState /\ Answered(c, r) /\ c.log = p.log
    <2> HIDE DEF b
    <2> QED BY <1>2, PulseEndQuiet, QuietKeeps DEF Quiet
  <1>4. d \in PlcState /\ Answered(d, r) /\ LogStep(p, d, r)
    <2> HIDE DEF c
    <2>1. moving \in BOOLEAN
      OBVIOUS
    <2> HIDE DEF moving
    <2>2. d \in PlcState /\ Answered(d, r) /\ LogStep(c, d, r)
      BY <1>3, <2>1, HandleKeeps
    <2> HIDE DEF d
    <2> QED BY <1>3, <2>2 DEF LogStep
  <1>5. e \in PlcState /\ Answered(e, r) /\ e.log = d.log
    <2> HIDE DEF d
    <2> QED BY <1>4, MotionQuiet, QuietKeeps DEF Quiet
  <1>6. LogStep(p, e, r)
    <2> HIDE DEF d, e
    <2> QED BY <1>4, <1>5 DEF LogStep
  <1>7. e = AfterScan(p, r, ok, elapsed, done, err)
    BY DEF AfterScan
  <1> HIDE DEF e
  <1> QED BY <1>5, <1>6, <1>7

---------------------------------------------------------------------------
(* The specification.                                                        *)

\* The successor of a sequence number is one of the 16-bit word.
LEMMA NextSeqType ==
    ASSUME NEW s \in SeqNumbers PROVE NextSeq(s) \in SeqNumbers
  BY DEF NextSeq, SeqNumbers

\* The invariant holds of a PLC that acknowledged some sequence number before.
LEMMA InitSeqInv == Init => SeqInv
  <1> SUFFICES ASSUME Init PROVE SeqInv
    OBVIOUS
  <1>1. PICK s \in SeqNumbers :
           /\ reg = [id |-> 0, seq |-> s, cmd |-> "RESET"]
           /\ plc = [ack |-> s, state |-> Idle, active |-> s, acmd |-> "RESET",
                     pulse |-> 0, lit |-> {}, motion |-> 0, prev |-> FALSE,
                     log |-> <<>>, left |-> {}, over |-> FALSE]
    BY DEF Init
  <1>2. "RESET" \in AllCommands
    BY DEF AllCommands
  <1>3. reg \in Request /\ plc \in PlcState
    BY <1>1, <1>2 DEF Request, PlcState
  <1>4. TypeOK
    BY <1>2, <1>3 DEF Init, TypeOK
  <1>5. IssueOrder
    BY <1>1 DEF Init, IssueOrder
  <1>6. Answered(plc, reg)
    BY <1>1 DEF Answered, LastOf
  <1> QED BY <1>4, <1>5, <1>6 DEF SeqInv, Synchronised, Init

\* Every step keeps the invariant; only a scan changes the log, by LogStep.
LEMMA StepSeqInv ==
    ASSUME SeqInv, [Next]_vars
    PROVE  /\ SeqInv'
           /\ plc' # plc => LogStep(plc, plc', reg) /\ issued' = issued
           /\ issued' = issued \/ issued' = issued + 1
  <1> USE DEF SeqInv
  <1>1. CASE Scan
    <2>1. PICK ok \in BOOLEAN, elapsed \in BOOLEAN, done \in BOOLEAN,
               err \in BOOLEAN :
             plc' = AfterScan(plc, reg, ok, elapsed, done, err)
      BY <1>1 DEF Scan
    <2>2. plc' \in PlcState /\ Answered(plc', reg) /\ LogStep(plc, plc', reg)
      BY <2>1, ScanKeeps DEF TypeOK
    <2>3. UNCHANGED <<pc, pseq, cmd, issued, wire, outcome, reg>>
      BY <1>1 DEF Scan
    <2> QED BY <2>2, <2>3 DEF TypeOK, Synchronised, IssueOrder
  <1>2. CASE Begin
    <2>1. cmd' \in AllCommands
      BY <1>2, CommandsAssumption DEF Begin
    <2> QED BY <1>2, <2>1 DEF Begin, TypeOK, Synchronised, IssueOrder
  <1>3. CASE Synchronise
    <2>1. plc.ack \in SeqNumbers
      BY PlcFields DEF TypeOK
    <2> QED BY <1>3, <2>1 DEF Synchronise, Finish, TypeOK, Synchronised, IssueOrder
  <1>4. CASE Send
    <2> DEFINE w == [id |-> issued + 1, seq |-> NextSeq(pseq), cmd |-> cmd]
    <2>1. NextSeq(pseq) \in SeqNumbers
      BY <1>4, NextSeqType DEF Send, Synchronised
    <2>2. w \in Request /\ w.id = issued + 1
      BY <2>1 DEF Request, TypeOK
    <2>3. wire' = {w} /\ pseq' = NextSeq(pseq)
      BY <1>4 DEF Send
    <2>4. IssueOrder'
      BY <1>4, <2>2, <2>3, RequestFields DEF Send, IssueOrder, TypeOK
    <2> QED
      BY <1>4, <2>1, <2>2, <2>3, <2>4 DEF Send, TypeOK, Synchronised
  <1>5. CASE SendAnswered
    BY <1>5 DEF SendAnswered, TypeOK, Synchronised, IssueOrder
  <1>6. CASE SendUnanswered
    BY <1>6 DEF SendUnanswered, Finish, TypeOK, Synchronised, IssueOrder
  <1>7. CASE Poll
    BY <1>7 DEF Poll, Finish, TypeOK, Synchronised, IssueOrder
  <1>8. CASE Restart
    BY <1>8 DEF Restart, TypeOK, Synchronised, IssueOrder
  <1>9. CASE Deliver
    <2>1. LastOf(plc.log) < reg'.id /\ reg' \in Request
      BY <1>9, LastOfNat, PlcFields, RequestFields
         DEF Deliver, TypeOK, Synchronised, IssueOrder, Answered
    <2>2. Answered(plc, reg)'
      BY <1>9, <2>1, LastOfNat, PlcFields, RequestFields
         DEF Deliver, Answered, TypeOK
    <2> QED
      BY <1>9, <2>1, <2>2 DEF Deliver, TypeOK, Synchronised, IssueOrder
  <1>10. CASE Lose
    BY <1>10 DEF Lose, TypeOK, Synchronised, IssueOrder
  <1>11. CASE UNCHANGED vars
    BY <1>11 DEF vars, TypeOK, Synchronised, IssueOrder
  <1> QED
    BY <1>1, <1>2, <1>3, <1>4, <1>5, <1>6, <1>7, <1>8, <1>9, <1>10, <1>11
       DEF Next

\* The relation between the PLC's log, the acknowledged and active sequence
\* numbers and the requests still under way holds in every reachable state.
THEOREM SeqInvariant == Spec => []SeqInv
  <1>1. SeqInv /\ [Next]_vars => SeqInv'
    BY StepSeqInv
  <1> QED BY InitSeqInv, <1>1, PTL DEF Spec

\* The mailbox's variables have their types in every reachable state: every
\* sequence number fits the 16-bit word, every PLC status is one the code names.
THEOREM TypeCorrect == Spec => []TypeOK
  <1>1. SeqInv => TypeOK
    BY DEF SeqInv
  <1> QED BY SeqInvariant, <1>1, PTL

\* Each request is handled at most once, in the order of issue, whatever is
\* lost, late, timed out, wrapped or restarted.
THEOREM MailboxImplementsCommandLog == Spec => ImplementsCommandLog
  <1>1. Init => Requests!Init
    BY DEF Init, Requests!Init
  <1>2. SeqInv /\ [Next]_vars => [Requests!Next]_<<issued, plc.log>>
    <2> SUFFICES ASSUME SeqInv, [Next]_vars
                 PROVE  [Requests!Next]_<<issued, plc.log>>
      OBVIOUS
    <2>1. CASE plc' # plc
      <3>1. LogStep(plc, plc', reg) /\ issued' = issued
        BY <2>1, StepSeqInv
      <3>2. CASE plc'.log = plc.log
        BY <3>1, <3>2
      <3>3. CASE LastOf(plc.log) < reg.id /\ plc'.log = Append(plc.log, reg.id)
        <4>1. reg.id \in 1 .. issued
          BY <3>3, LastOfNat, PlcFields, RequestFields
             DEF SeqInv, TypeOK, IssueOrder
        <4>2. Requests!LastOf(plc.log) < reg.id
          BY <3>3 DEF LastOf, Requests!LastOf
        <4> QED
          BY <3>1, <3>3, <4>1, <4>2 DEF Requests!Next, Requests!Handle
      <3> QED BY <3>1, <3>2, <3>3 DEF LogStep
    <2>2. CASE plc' = plc
      <3>1. issued' = issued \/ issued' = issued + 1
        BY StepSeqInv
      <3> QED BY <2>2, <3>1 DEF Requests!Next, Requests!Issue
    <2> QED BY <2>1, <2>2
  <1> QED
    BY <1>1, <1>2, SeqInvariant, PTL
       DEF Spec, ImplementsCommandLog, Requests!Spec

---------------------------------------------------------------------------
(* What done means.  The n-th request carries a number that is n plus the    *)
(* number read from DT400, up to whole turns of the counter.                 *)

NumberOf(s0, n, q) == \E turns \in Int : s0 + n = turns * SeqMax + q

\* The block has answered, or is busy with, the newest request it has handled, and
\* has answered nothing before the first.
Numbered(p, s0) ==
    /\ p.state \in {Done, Failed} => LastOf(p.log) >= 1 /\ NumberOf(s0, LastOf(p.log), p.ack)
    /\ p.state = Busy \/ p.pulse # 0 =>
          LastOf(p.log) >= 1 /\ NumberOf(s0, LastOf(p.log), p.active)
    /\ LastOf(p.log) = 0 => p.ack = s0

\* So are the requests of a pendant that is never restarted.
Counted(s0) ==
    /\ pseq = NoSeq => issued = 0
    /\ pc = "sync" => pseq = NoSeq
    /\ pseq # NoSeq => NumberOf(s0, issued, pseq)
    /\ NumberOf(s0, reg.id, reg.seq)
    /\ \A w \in wire : NumberOf(s0, w.id, w.seq)

\* Requests are counted, and fewer are issued than the bound allows.
Bounded ==
    /\ issued <= MaxIssued
    /\ pc \in {"sync", "send"} => issued < MaxIssued

NumInv == \E s0 \in SeqNumbers : Counted(s0) /\ Numbered(plc, s0)

\* A product of positive integers is not smaller than either.
LEMMA WholeTurns == ASSUME NEW a \in Int, a >= 1, NEW b \in Nat PROVE a * b >= b
  BY Z3

\* Two requests with one number are the same or a whole turn apart.
LEMMA SameNumber ==
    ASSUME NEW s0 \in SeqNumbers, NEW q \in SeqNumbers, NEW m \in Nat, NEW n \in Nat,
           m <= n, NumberOf(s0, m, q), NumberOf(s0, n, q)
    PROVE  m = n \/ n - m >= SeqMax
  <1>1. PICK a \in Int : s0 + m = a * SeqMax + q
    BY DEF NumberOf
  <1>2. PICK b \in Int : s0 + n = b * SeqMax + q
    BY DEF NumberOf
  <1>3. n - m = (b - a) * SeqMax /\ b - a \in Int
    BY <1>1, <1>2, Z3 DEF SeqNumbers
  <1>4. b - a >= 1 => (b - a) * SeqMax >= SeqMax
    BY <1>3, WholeTurns
  <1>5. b - a <= 0 => n - m <= 0
    <2>1. a - b >= 1 => (a - b) * SeqMax >= SeqMax
      BY WholeTurns
    <2>2. (a - b) * SeqMax = 0 - (b - a) * SeqMax
      BY Z3
    <2>3. b - a = 0 => (b - a) * SeqMax = 0
      BY Z3
    <2> QED BY <1>3, <2>1, <2>2, <2>3
  <1> QED BY <1>3, <1>4, <1>5

\* The successor of a number is the number of the next request.
LEMMA NextNumber ==
    ASSUME NEW s0 \in SeqNumbers, NEW q \in SeqNumbers, NEW n \in Nat, NumberOf(s0, n, q)
    PROVE  NumberOf(s0, n + 1, NextSeq(q))
  <1>1. PICK a \in Int : s0 + n = a * SeqMax + q
    BY DEF NumberOf
  <1>2. CASE q = SeqMax
    <2>1. NextSeq(q) = 1
      BY <1>2 DEF NextSeq
    <2>2. s0 + (n + 1) = (a + 1) * SeqMax + 1 /\ a + 1 \in Int
      BY <1>1, <1>2, Z3 DEF SeqNumbers
    <2> QED BY <2>1, <2>2 DEF NumberOf
  <1>3. CASE q # SeqMax
    <2>1. NextSeq(q) = q + 1
      BY <1>3 DEF NextSeq, SeqNumbers
    <2>2. s0 + (n + 1) = a * SeqMax + (q + 1)
      BY <1>1, Z3 DEF SeqNumbers
    <2> QED BY <2>1, <2>2 DEF NumberOf
  <1> QED BY <1>2, <1>3

\* The number read from DT400 is that of the request before the first.
LEMMA FirstNumber == ASSUME NEW s0 \in SeqNumbers PROVE NumberOf(s0, 0, s0)
  <1>1. s0 + 0 = 0 * SeqMax + s0
    BY DEF SeqNumbers
  <1> QED BY <1>1 DEF NumberOf

\* A quiet statement group acknowledges the newest handled request or nothing.
LEMMA QuietNumbered ==
    ASSUME NEW p \in PlcState, NEW q \in PlcState, NEW s0 \in SeqNumbers,
           Numbered(p, s0), Quiet(p, q)
    PROVE  Numbered(q, s0)
  <1>1. LastOf(p.log) \in Nat /\ q.state \in 0 .. 3 /\ p.state \in 0 .. 3
    BY LastOfNat, PlcFields
  <1>2. q.log = p.log /\ q.active = p.active
    BY DEF Quiet
  <1>3. q.state = Busy \/ q.pulse # 0 => p.state = Busy \/ p.pulse # 0
    BY DEF Quiet
  <1>4. CASE q.ack = p.ack /\ q.state = p.state
    BY <1>2, <1>3, <1>4 DEF Numbered
  <1>5. CASE q.ack = p.active /\ (p.state = Busy \/ p.pulse # 0)
    BY <1>1, <1>2, <1>3, <1>5 DEF Numbered
  <1> QED BY <1>4, <1>5 DEF Quiet

\* A request that was just handled is answered or the command in progress.
LEMMA AnsweredNumbered ==
    ASSUME NEW p \in PlcState, NEW r \in Request, NEW s0 \in SeqNumbers,
           Answered(p, r), LastOf(p.log) = r.id, r.id >= 1, NumberOf(s0, r.id, r.seq)
    PROVE  Numbered(p, s0)
  BY PlcFields DEF Answered, Numbered

\* A scan keeps the numbers.
LEMMA ScanNumbered ==
    ASSUME NEW p \in PlcState, NEW r \in Request, Answered(p, r),
           NEW s0 \in SeqNumbers, Numbered(p, s0), NumberOf(s0, r.id, r.seq),
           NEW ok \in BOOLEAN, NEW elapsed \in BOOLEAN,
           NEW done \in BOOLEAN, NEW err \in BOOLEAN
    PROVE  Numbered(AfterScan(p, r, ok, elapsed, done, err), s0)
  <1> DEFINE a == ServoReports(p, done, err)
             b == Interlock(a, ok)
             c == PulseEnd(b, elapsed)
             moving == p.motion # 0
             d == HandleRequest(c, r, ok, moving)
             e == MotionStatus(d, done, err)
  <1>1. a \in PlcState /\ Answered(a, r) /\ Numbered(a, s0)
    <2>1. a \in PlcState /\ Quiet(p, a)
      BY ServoQuiet
    <2> QED BY <2>1, QuietKeeps, QuietNumbered
  <1>2. b \in PlcState /\ Answered(b, r) /\ Numbered(b, s0)
    <2> HIDE DEF a
    <2>1. b \in PlcState /\ Quiet(a, b)
      BY <1>1, InterlockQuiet
    <2> QED BY <1>1, <2>1, QuietKeeps, QuietNumbered
  <1>3. c \in PlcState /\ Answered(c, r) /\ Numbered(c, s0)
    <2> HIDE DEF b
    <2>1. c \in PlcState /\ Quiet(b, c)
      BY <1>2, PulseEndQuiet
    <2> QED BY <1>2, <2>1, QuietKeeps, QuietNumbered
  <1>4. d \in PlcState /\ Answered(d, r) /\ Numbered(d, s0)
    <2> HIDE DEF c
    <2>1. /\ d \in PlcState /\ Answered(d, r)
          /\ d = c \/ (LastOf(c.log) < r.id /\ LastOf(d.log) = r.id)
      <3>1. moving \in BOOLEAN
        OBVIOUS
      <3> HIDE DEF moving
      <3> QED BY <1>3, <3>1, HandleKeeps
    <2>2. LastOf(c.log) \in Nat /\ r.id \in Nat
      BY <1>3, LastOfNat, PlcFields, RequestFields
    <2>3. CASE d = c
      BY <1>3, <2>3
    <2>4. CASE LastOf(c.log) < r.id /\ LastOf(d.log) = r.id
      <3> HIDE DEF d
      <3> QED BY <2>1, <2>2, <2>4, AnsweredNumbered
    <2> QED BY <2>1, <2>3, <2>4
  <1>5. Numbered(e, s0)
    <2> HIDE DEF d
    <2>1. e \in PlcState /\ Quiet(d, e)
      BY <1>4, MotionQuiet
    <2> QED BY <1>4, <2>1, QuietNumbered
  <1>6. e = AfterScan(p, r, ok, elapsed, done, err)
    BY DEF AfterScan
  <1> HIDE DEF e
  <1> QED BY <1>5, <1>6

\* Initially no request has a number.
LEMMA InitNumbered == Init => NumInv /\ Bounded
  <1> SUFFICES ASSUME Init PROVE NumInv /\ Bounded
    OBVIOUS
  <1>1. PICK s \in SeqNumbers :
           /\ reg = [id |-> 0, seq |-> s, cmd |-> "RESET"]
           /\ plc = [ack |-> s, state |-> Idle, active |-> s, acmd |-> "RESET",
                     pulse |-> 0, lit |-> {}, motion |-> 0, prev |-> FALSE,
                     log |-> <<>>, left |-> {}, over |-> FALSE]
    BY DEF Init
  <1>2. Counted(s)
    BY <1>1, FirstNumber DEF Init, Counted
  <1>3. Numbered(plc, s)
    BY <1>1 DEF Numbered, LastOf
  <1> QED BY <1>2, <1>3, BoundAssumption DEF NumInv, Bounded, Init

\* Unless the pendant is restarted every step keeps the numbers: a number is the
\* successor of the one before, and the first that of what was read.
LEMMA StepNumbered == ASSUME ~Restarts, SeqInv, NumInv, [Next]_vars PROVE NumInv'
  <1>1. PICK s0 \in SeqNumbers : Counted(s0) /\ Numbered(plc, s0)
    BY DEF NumInv
  <1>2. /\ reg \in Request /\ plc \in PlcState /\ Answered(plc, reg)
        /\ issued \in Nat /\ wire \in SUBSET Request
    BY DEF SeqInv, TypeOK
  <1> SUFFICES Counted(s0)' /\ Numbered(plc', s0)
    BY DEF NumInv
  <1>3. CASE Scan
    <2>1. PICK ok \in BOOLEAN, elapsed \in BOOLEAN, done \in BOOLEAN,
               err \in BOOLEAN :
             plc' = AfterScan(plc, reg, ok, elapsed, done, err)
      BY <1>3 DEF Scan
    <2>2. Numbered(plc', s0)
      BY <1>1, <1>2, <2>1, ScanNumbered DEF Counted
    <2> QED BY <1>1, <1>3, <2>2 DEF Scan, Counted
  <1>4. CASE Begin
    BY <1>1, <1>4 DEF Begin, Counted
  <1>5. CASE Synchronise
    <2>1. issued = 0
      BY <1>1, <1>5 DEF Synchronise, Counted
    <2>2. LastOf(plc.log) = 0
      BY <1>2, <2>1, LastOfNat, PlcFields, RequestFields DEF SeqInv, IssueOrder, Answered
    <2>3. plc.ack = s0
      BY <1>1, <2>2 DEF Numbered
    <2>4. NumberOf(s0, 0, s0)
      BY FirstNumber
    <2> QED BY <1>1, <1>5, <2>1, <2>3, <2>4 DEF Synchronise, Finish, Counted
  <1>6. CASE Send
    <2>1. pseq \in SeqNumbers /\ pseq # NoSeq
      BY <1>6 DEF Send, SeqInv, Synchronised, SeqNumbers, NoSeq
    <2>2. NumberOf(s0, issued + 1, NextSeq(pseq))
      BY <1>1, <1>2, <2>1, NextNumber DEF Counted
    <2>3. NextSeq(pseq) # NoSeq
      BY <2>1, NextSeqType DEF SeqNumbers, NoSeq
    <2>4. \A w \in wire' : NumberOf(s0, w.id, w.seq)
      BY <1>6, <2>2 DEF Send
    <2> QED BY <1>1, <1>6, <2>2, <2>3, <2>4 DEF Send, Counted
  <1>7. CASE SendAnswered
    BY <1>1, <1>7 DEF SendAnswered, Counted
  <1>8. CASE SendUnanswered
    BY <1>1, <1>8 DEF SendUnanswered, Finish, Counted
  <1>9. CASE Poll
    BY <1>1, <1>9 DEF Poll, Finish, Counted
  <1>10. CASE Restart
    BY <1>10 DEF Restart
  <1>11. CASE Deliver
    BY <1>1, <1>11 DEF Deliver, Counted
  <1>12. CASE Lose
    BY <1>1, <1>12 DEF Lose, Counted
  <1>13. CASE UNCHANGED vars
    BY <1>1, <1>13 DEF vars, Counted
  <1> QED
    BY <1>3, <1>4, <1>5, <1>6, <1>7, <1>8, <1>9, <1>10, <1>11, <1>12, <1>13 DEF Next

\* Every step keeps the bound on the requests.
LEMMA StepBounded == ASSUME SeqInv, Bounded, [Next]_vars PROVE Bounded'
  BY BoundAssumption
     DEF SeqInv, TypeOK, Bounded, Next, vars, Scan, Begin, Synchronise, Send, SendAnswered,
         SendUnanswered, Finish, Poll, Restart, Deliver, Lose

\* Done is reported by a poll that finds its own number acknowledged.
LEMMA DoneIsPolled ==
    ASSUME [Next]_vars, outcome' # outcome, outcome'.res = "done"
    PROVE  Poll /\ pc = "wait" /\ Answers /\ plc.state = Done
  <1>1. CASE Scan \/ Begin \/ Send \/ SendAnswered \/ Deliver \/ Lose \/ UNCHANGED vars
    BY <1>1 DEF Scan, Begin, Send, SendAnswered, Deliver, Lose, vars
  <1>2. CASE Synchronise \/ SendUnanswered \/ Restart
    BY <1>2 DEF Synchronise, SendUnanswered, Finish, Restart
  <1>3. CASE Poll
    BY <1>3 DEF Poll, Finish
  <1> QED BY <1>1, <1>2, <1>3 DEF Next

\* Done is reported only of the newest request, or when whole turns of the counter
\* were issued since the PLC handled one.
LEMMA PolledDone ==
    ASSUME SeqInv, NumInv, [Next]_vars, outcome' # outcome, outcome'.res = "done"
    PROVE  Last >= 1 /\ (Last = issued \/ issued - Last >= SeqMax)
  <1>1. pc = "wait" /\ Answers /\ plc.state = Done
    BY DoneIsPolled
  <1>2. PICK s0 \in SeqNumbers : Counted(s0) /\ Numbered(plc, s0)
    BY DEF NumInv
  <1>3. /\ pseq \in SeqNumbers /\ pseq # NoSeq /\ issued \in Nat
        /\ Last \in Nat /\ Last <= issued
    BY <1>1, LastOfNat, PlcFields, RequestFields
       DEF SeqInv, TypeOK, Synchronised, IssueOrder, Answered, Last, SeqNumbers, NoSeq
  <1>4. NumberOf(s0, issued, pseq)
    BY <1>2, <1>3 DEF Counted
  <1>5. Last >= 1 /\ NumberOf(s0, Last, pseq)
    BY <1>1, <1>2 DEF Numbered, Last, Answers
  <1> QED BY <1>1, <1>3, <1>4, <1>5, SameNumber

\* Without a bound: a command is reported done only when the PLC has handled it, or
\* when SeqMax commands or more were given up, one after the other, since the last
\* that was handled.
DoneMeansHandledOrTurned ==
    [][outcome' # outcome /\ outcome'.res = "done"
          => Last = issued \/ issued - Last >= SeqMax]_vars

\* For every SeqMax, set of commands, bound and servo error: as long as the pendant is
\* not restarted, the report is true of each command but after a whole turn of given-up
\* ones.
THEOREM DoneIsTrueForATurn == ASSUME ~Restarts PROVE Spec => DoneMeansHandledOrTurned
  <1>1. Init => SeqInv /\ NumInv
    BY InitSeqInv, InitNumbered
  <1>2. SeqInv /\ NumInv /\ [Next]_vars => SeqInv' /\ NumInv'
    BY StepSeqInv, StepNumbered
  <1>3. SeqInv /\ NumInv /\ [Next]_vars
          => [outcome' # outcome /\ outcome'.res = "done"
                => Last = issued \/ issued - Last >= SeqMax]_vars
    BY PolledDone
  <1> QED BY <1>1, <1>2, <1>3, PTL DEF Spec, DoneMeansHandledOrTurned

\* For every instance without restarts that issues no more than SeqMax requests, a
\* command reported done is one that the PLC has handled.
THEOREM DoneIsTrue ==
    ASSUME ~Restarts, MaxIssued <= SeqMax PROVE Spec => DoneMeansHandled
  <1>1. Init => SeqInv /\ NumInv /\ Bounded
    BY InitSeqInv, InitNumbered
  <1>2. SeqInv /\ NumInv /\ Bounded /\ [Next]_vars => SeqInv' /\ NumInv' /\ Bounded'
    BY StepSeqInv, StepNumbered, StepBounded
  <1>3. SeqInv /\ NumInv /\ Bounded /\ [Next]_vars
          => [outcome' # outcome /\ outcome'.res = "done" => Last = issued]_vars
    <2> SUFFICES ASSUME SeqInv, NumInv, Bounded, [Next]_vars,
                        outcome' # outcome, outcome'.res = "done"
                 PROVE  Last = issued
      OBVIOUS
    <2>1. Last >= 1 /\ (Last = issued \/ issued - Last >= SeqMax)
      BY PolledDone
    <2>2. issued \in Nat /\ Last \in Nat /\ issued <= MaxIssued
      BY LastOfNat, PlcFields DEF SeqInv, TypeOK, Bounded, Last
    <2> QED BY <2>1, <2>2, BoundAssumption
  <1> QED BY <1>1, <1>2, <1>3, PTL DEF Spec, DoneMeansHandled

---------------------------------------------------------------------------
(* What is over.  The newest handled request, whose number is LastOf(p.log),  *)
(* is the only one that a finished status can be about.                       *)

\* Nothing runs in the PLC that was not handled.
Past(p) ==
    /\ p.motion <= LastOf(p.log) /\ p.pulse <= LastOf(p.log)
    /\ \A x \in p.lit : x # 0 /\ x <= LastOf(p.log)

\* An output is on for the pulse that is timed or for one that an error failed; and
\* a pulse that is timed keeps the block busy unless an error failed it.
PulseTimed(p) ==
    /\ p.lit \subseteq {p.pulse} \cup p.left
    /\ p.pulse # 0 => p.pulse \in p.left \/ (p.state = Busy /\ p.acmd = "PULSE")

\* The newest request's own pulse: busy, or failed by a servo error.
OwnPulse(p) ==
    /\ LastOf(p.log) # 0 /\ LastOf(p.log) \in p.lit => p.pulse = LastOf(p.log)
    /\ p.pulse # 0 /\ p.pulse = LastOf(p.log)
          => p.acmd = "PULSE" /\ p.state \in {Busy, Failed}

\* The newest request's own motion, if it waits for its end and was not accepted
\* over another: busy, or failed by a servo error in the scan that accepted it.
OwnMotion(p) ==
    p.motion # 0 /\ p.motion = LastOf(p.log) /\ ~p.over /\ p.acmd # "MOVE_NOWAIT"
        => p.pulse = 0 /\ p.state \in {Busy, Failed}

\* The active command is that of the newest request, a STOP excepted: it has no motion.
Active(p, r) ==
    LastOf(p.log) = r.id /\ r.id # 0
        => IF r.cmd = "STOP" THEN p.motion = 0 ELSE p.acmd = r.cmd

Ends(p, r) == Past(p) /\ PulseTimed(p) /\ OwnPulse(p) /\ OwnMotion(p) /\ Active(p, r)

\* The servo blocks' report ends a motion and nothing else.
LEMMA ServoEnds ==
    ASSUME NEW p \in PlcState, NEW r \in Request, Ends(p, r),
           NEW done \in BOOLEAN, NEW err \in BOOLEAN
    PROVE  LET q == ServoReports(p, done, err)
           IN  q \in PlcState /\ Ends(q, r) /\ q.log = p.log /\ (done => q.motion = 0)
  <1> DEFINE q == ServoReports(p, done, err)
  <1>1. /\ q.log = p.log /\ q.pulse = p.pulse /\ q.lit = p.lit /\ q.left = p.left
        /\ q.state = p.state /\ q.acmd = p.acmd /\ q.over = p.over
        /\ q.motion = p.motion \/ q.motion = 0
        /\ done => q.motion = 0
    BY DEF ServoReports, PlcState
  <1>2. q \in PlcState
    BY ServoQuiet
  <1>3. LastOf(p.log) \in Nat
    BY LastOfNat, PlcFields
  <1> HIDE DEF q
  <1>4. Ends(q, r)
    BY <1>1, <1>3 DEF Ends, Past, PulseTimed, OwnPulse, OwnMotion, Active
  <1> QED BY <1>1, <1>2, <1>4 DEF q

\* A dropped interlock ends every pulse, and makes a busy command fail.
LEMMA InterlockEnds ==
    ASSUME NEW p \in PlcState, NEW r \in Request, Ends(p, r), NEW ok \in BOOLEAN
    PROVE  LET q == Interlock(p, ok)
           IN  q \in PlcState /\ Ends(q, r) /\ q.log = p.log /\ (p.motion = 0 => q.motion = 0)
  <1> DEFINE q == Interlock(p, ok)
  <1>1. q \in PlcState
    BY InterlockQuiet
  <1>2. LastOf(p.log) \in Nat
    BY LastOfNat, PlcFields
  <1>3. CASE ok
    <2>1. /\ q.log = p.log /\ q.pulse = p.pulse /\ q.lit = p.lit /\ q.left = p.left
          /\ q.state = p.state /\ q.acmd = p.acmd /\ q.over = p.over
          /\ q.motion = p.motion
      BY <1>3 DEF Interlock, PlcState
    <2> HIDE DEF q
    <2>2. Ends(q, r)
      BY <2>1 DEF Ends, Past, PulseTimed, OwnPulse, OwnMotion, Active
    <2> QED BY <1>1, <2>1, <2>2 DEF q
  <1>4. CASE ~ok
    <2>1. /\ q.log = p.log /\ q.pulse = 0 /\ q.lit = {} /\ q.left = {}
          /\ q.acmd = p.acmd /\ q.over = p.over
          /\ q.state = p.state \/ q.state = Failed
          /\ q.motion = p.motion \/ q.motion = 0
      BY <1>4 DEF Interlock, PlcState
    <2> HIDE DEF q
    <2>2. Ends(q, r)
      BY <1>2, <2>1 DEF Ends, Past, PulseTimed, OwnPulse, OwnMotion, Active
    <2> QED BY <1>1, <2>1, <2>2 DEF q
  <1> QED BY <1>3, <1>4

\* The end of a pulse switches its own output off, and disturbs no motion of a
\* command that was not accepted over the pulse.
LEMMA PulseEndEnds ==
    ASSUME NEW p \in PlcState, NEW r \in Request, Ends(p, r), NEW elapsed \in BOOLEAN
    PROVE  LET q == PulseEnd(p, elapsed)
           IN  q \in PlcState /\ Ends(q, r) /\ q.log = p.log /\ q.motion = p.motion
  <1> DEFINE q == PulseEnd(p, elapsed)
  <1>1. q \in PlcState
    BY PulseEndQuiet
  <1>2. LastOf(p.log) \in Nat
    BY LastOfNat, PlcFields
  <1>3. CASE p.pulse # 0 /\ elapsed
    <2>1. /\ q.log = p.log /\ q.pulse = 0 /\ q.lit = p.lit \ {p.pulse} /\ q.left = p.left
          /\ q.acmd = p.acmd /\ q.over = p.over /\ q.motion = p.motion
      BY <1>3 DEF PulseEnd, PlcState
    <2> HIDE DEF q
    <2>2. Ends(q, r)
      BY <1>2, <1>3, <2>1 DEF Ends, Past, PulseTimed, OwnPulse, OwnMotion, Active
    <2> QED BY <1>1, <2>1, <2>2 DEF q
  <1>4. CASE ~(p.pulse # 0 /\ elapsed)
    BY <1>1, <1>4 DEF PulseEnd
  <1> QED BY <1>3, <1>4

\* A request that is taken becomes the newest, and is the only one that its motion
\* or pulse can be of.
LEMMA HandleEnds ==
    ASSUME NEW p \in PlcState, NEW r \in Request, Answered(p, r), Ends(p, r),
           NEW ok \in BOOLEAN, NEW moving \in BOOLEAN
    PROVE  LET q == HandleRequest(p, r, ok, moving)
           IN  /\ q \in PlcState /\ Ends(q, r)
               /\ moving /\ p.motion = 0 /\ q.motion # 0 => q.over
  <1> DEFINE q == HandleRequest(p, r, ok, moving)
  <1>1. q \in PlcState
    BY HandleKeeps
  <1>2. LastOf(p.log) \in Nat /\ r.id \in Nat
    BY LastOfNat, PlcFields, RequestFields
  <1>3. CASE r.seq # p.ack /\ r.cmd = "STOP"
    <2>1. q = StopNow(p, r)
      BY <1>3 DEF HandleRequest
    <2>2. LastOf(Append(p.log, r.id)) = r.id
      BY LastOfAppend, PlcFields, RequestFields
    <2>3. /\ q.pulse = 0 /\ q.lit = {} /\ q.left = {} /\ q.motion = 0
          /\ LastOf(q.log) = r.id
      BY <2>1, <2>2 DEF StopNow, Ack, PlcState
    <2> HIDE DEF q
    <2>4. Ends(q, r)
      BY <1>2, <1>3, <2>3 DEF Ends, Past, PulseTimed, OwnPulse, OwnMotion, Active
    <2> QED BY <1>1, <2>3, <2>4 DEF q
  <1>4. CASE ~(r.seq # p.ack /\ r.cmd = "STOP") /\ Takes(p, r)
    <2>1. LastOf(p.log) < r.id /\ p.state # Busy /\ r.cmd # "STOP"
      BY <1>2, <1>4, PlcFields DEF Answered, Takes
    <2> DEFINE taken == [p EXCEPT !.active = r.seq, !.acmd = r.cmd,
                                  !.log = Append(@, r.id),
                                  !.over = moving \/ p.pulse # 0]
    <2>2. q = IF ok THEN Execute(taken, r) ELSE Ack(taken, r, Failed)
      BY <1>4 DEF HandleRequest, Accept
    <2>3. LastOf(Append(p.log, r.id)) = r.id
      BY LastOfAppend, PlcFields, RequestFields
    <2>4. /\ taken.acmd = r.cmd /\ taken.pulse = p.pulse /\ taken.lit = p.lit
          /\ taken.left = p.left /\ taken.motion = p.motion
          /\ LastOf(taken.log) = r.id
          /\ taken.over = (moving \/ p.pulse # 0)
      BY <2>3 DEF PlcState
    <2>5. taken \in PlcState
      <3>1. (moving \/ p.pulse # 0) \in BOOLEAN /\ Append(p.log, r.id) \in Seq(Nat)
        BY LastOfAppend, PlcFields, RequestFields
      <3> QED BY <3>1, PlcFields, RequestFields DEF PlcState
    <2>6. \/ /\ r.cmd = "PULSE" /\ q.pulse = r.id /\ q.lit = p.lit \cup {r.id}
             /\ q.left = p.left /\ q.motion = p.motion /\ q.state = Busy
          \/ /\ r.cmd = "OFF" /\ q.pulse = 0 /\ q.lit = {}
             /\ q.left = {} /\ q.motion = p.motion /\ q.state = Done
          \/ /\ r.cmd \in {"MOVE", "HOME"} /\ q.pulse = p.pulse /\ q.lit = p.lit
             /\ q.left = p.left /\ q.motion = r.id /\ q.state = Busy
          \/ /\ r.cmd = "MOVE_NOWAIT" /\ q.pulse = p.pulse /\ q.lit = p.lit
             /\ q.left = p.left /\ q.motion = r.id /\ q.state = Done
          \/ /\ q.pulse = p.pulse /\ q.lit = p.lit
             /\ q.left = p.left /\ q.motion = p.motion /\ q.state \in {Done, Failed}
      <3> HIDE DEF taken
      <3>1. CASE ~ok
        <4>1. q = [taken EXCEPT !.state = Failed, !.ack = r.seq]
          BY <2>2, <3>1 DEF Ack
        <4> HIDE DEF q
        <4>2. /\ q.pulse = p.pulse /\ q.lit = p.lit
              /\ q.left = p.left /\ q.motion = p.motion /\ q.state = Failed
          BY <2>4, <2>5, <4>1 DEF PlcState
        <4> QED BY <4>2
      <3>2. CASE ok /\ r.cmd = "PULSE"
        <4>1. q = [taken EXCEPT !.pulse = r.id, !.lit = @ \cup {r.id}, !.state = Busy]
          BY <2>2, <3>2 DEF Execute
        <4> HIDE DEF q
        <4>2. /\ q.pulse = r.id /\ q.lit = p.lit \cup {r.id}
              /\ q.left = p.left /\ q.motion = p.motion /\ q.state = Busy
          BY <2>4, <2>5, <4>1 DEF PlcState
        <4> QED BY <3>2, <4>2
      <3>3. CASE ok /\ r.cmd = "OFF"
        <4>1. q = [taken EXCEPT !.pulse = 0, !.lit = {}, !.left = {},
                                !.state = Done, !.ack = r.seq]
          BY <2>2, <2>5, <3>3 DEF Execute, Ack, PlcState
        <4> HIDE DEF q
        <4>2. /\ q.pulse = 0 /\ q.lit = {} /\ q.left = {}
              /\ q.motion = p.motion /\ q.state = Done
          BY <2>4, <2>5, <4>1 DEF PlcState
        <4> QED BY <3>3, <4>2
      <3>4. CASE ok /\ r.cmd \in {"MOVE", "HOME"}
        BY <2>2, <2>4, <2>5, <3>4 DEF Execute, PlcState
      <3>5. CASE ok /\ r.cmd = "MOVE_NOWAIT"
        BY <2>2, <2>4, <2>5, <3>5 DEF Execute, Ack, PlcState
      <3>6. CASE ok /\ r.cmd \in {"SET", "RESET", "BAD"}
        BY <2>2, <2>4, <2>5, <3>6 DEF Execute, Ack, PlcState
      <3> QED BY <2>1, <3>1, <3>2, <3>3, <3>4, <3>5, <3>6, RequestFields DEF AllCommands
    <2>7. /\ q.acmd = r.cmd /\ LastOf(q.log) = r.id
          /\ q.over = (moving \/ p.pulse # 0)
      <3> HIDE DEF taken
      <3>1. CASE ~ok
        BY <2>2, <2>4, <2>5, <3>1 DEF Ack, PlcState
      <3>2. CASE ok
        BY <2>2, <2>4, <2>5, <3>2 DEF Execute, Ack, PlcState
      <3> QED BY <3>1, <3>2
    <2> HIDE DEF q, taken
    <2>8. p.pulse # 0 => p.pulse \in p.left
      BY <2>1 DEF Ends, PulseTimed
    <2>9. /\ p.motion < r.id /\ p.pulse < r.id /\ \A x \in p.lit : x # 0 /\ x < r.id
          /\ p.motion \in Nat /\ p.pulse \in Nat /\ p.lit \in SUBSET Nat
      BY <1>2, <2>1, PlcFields DEF Ends, Past
    <2>10. Past(q)
      BY <1>2, <2>6, <2>7, <2>9 DEF Past
    <2>11. PulseTimed(q)
      <3>1. p.lit \subseteq p.left
        BY <2>8, <2>9 DEF Ends, PulseTimed
      <3> QED BY <2>6, <2>7, <2>8, <3>1 DEF PulseTimed
    <2>12. OwnPulse(q)
      <3>1. r.id \notin p.lit /\ p.pulse # r.id /\ r.id \notin {}
        BY <1>2, <2>9
      <3>2. q.pulse = r.id => q.acmd = "PULSE" /\ q.state = Busy
        BY <1>2, <2>1, <2>6, <2>7, <3>1
      <3>3. r.id \in q.lit => q.pulse = r.id
        BY <2>6, <3>1
      <3> QED BY <2>7, <3>2, <3>3 DEF OwnPulse
    <2>13. OwnMotion(q)
      <3>1. ~q.over => p.pulse = 0
        BY <2>7
      <3> QED BY <1>2, <2>6, <2>7, <2>9, <3>1 DEF OwnMotion
    <2>14. Active(q, r)
      BY <2>1, <2>7 DEF Active
    <2>15. moving /\ p.motion = 0 /\ q.motion # 0 => q.over
      BY <2>7
    <2> QED BY <1>1, <2>10, <2>11, <2>12, <2>13, <2>14, <2>15 DEF Ends, q
  <1>5. CASE ~(r.seq # p.ack /\ r.cmd = "STOP") /\ ~Takes(p, r)
    BY <1>5 DEF HandleRequest
  <1> QED BY <1>3, <1>4, <1>5

\* What the servo blocks report ends the active command: a pulse that an error fails
\* is left over, and an end that is reported is no accepted-over-nothing motion's.
LEMMA MotionEnds ==
    ASSUME NEW p \in PlcState, NEW r \in Request, Ends(p, r),
           NEW done \in BOOLEAN, NEW err \in BOOLEAN,
           done /\ p.motion # 0 => p.over
    PROVE  Ends(MotionStatus(p, done, err), r)
  <1> DEFINE q == MotionStatus(p, done, err)
  <1>1. /\ q.log = p.log /\ q.pulse = p.pulse /\ q.lit = p.lit
        /\ q.acmd = p.acmd /\ q.over = p.over /\ q.motion = p.motion
    BY DEF MotionStatus, PlcState
  <1>2. \/ q.state = p.state /\ q.left = p.left
        \/ q.state = Failed /\ q.left = p.left \cup ({p.pulse} \ {0})
        \/ /\ q.state = Done /\ q.left = p.left /\ done
           /\ p.acmd \in {"MOVE", "MOVE_NOWAIT", "HOME"}
    BY DEF MotionStatus, PlcState
  <1> HIDE DEF q
  <1>3. PulseTimed(q)
    BY <1>1, <1>2 DEF Ends, PulseTimed
  <1>4. OwnPulse(q)
    BY <1>1, <1>2 DEF Ends, OwnPulse
  <1>5. OwnMotion(q)
    BY <1>1, <1>2 DEF Ends, OwnMotion
  <1>6. Past(q) /\ Active(q, r)
    BY <1>1 DEF Ends, Past, Active
  <1> QED BY <1>3, <1>4, <1>5, <1>6 DEF Ends, q

\* A whole scan.
LEMMA ScanEnds ==
    ASSUME NEW p \in PlcState, NEW r \in Request, Answered(p, r), Ends(p, r),
           NEW ok \in BOOLEAN, NEW elapsed \in BOOLEAN,
           NEW done \in BOOLEAN, NEW err \in BOOLEAN, done => p.motion # 0
    PROVE  Ends(AfterScan(p, r, ok, elapsed, done, err), r)
  <1> DEFINE a == ServoReports(p, done, err)
             b == Interlock(a, ok)
             c == PulseEnd(b, elapsed)
             moving == p.motion # 0
             d == HandleRequest(c, r, ok, moving)
             e == MotionStatus(d, done, err)
  <1>1. a \in PlcState /\ Answered(a, r) /\ Ends(a, r) /\ (done => a.motion = 0)
    <2>1. a \in PlcState /\ Answered(a, r)
      BY ServoQuiet, QuietKeeps
    <2> QED BY <2>1, ServoEnds
  <1>2. b \in PlcState /\ Answered(b, r) /\ Ends(b, r) /\ (done => b.motion = 0)
    <2> HIDE DEF a
    <2>1. b \in PlcState /\ Answered(b, r)
      BY <1>1, InterlockQuiet, QuietKeeps
    <2>2. Ends(b, r) /\ (a.motion = 0 => b.motion = 0)
      BY <1>1, InterlockEnds
    <2> QED BY <1>1, <2>1, <2>2
  <1>3. c \in PlcState /\ Answered(c, r) /\ Ends(c, r) /\ (done => c.motion = 0)
    <2> HIDE DEF b
    <2>1. c \in PlcState /\ Answered(c, r)
      BY <1>2, PulseEndQuiet, QuietKeeps
    <2>2. Ends(c, r) /\ c.motion = b.motion
      BY <1>2, PulseEndEnds
    <2> QED BY <1>2, <2>1, <2>2
  <1>4. moving \in BOOLEAN /\ (done => moving)
    OBVIOUS
  <1>5. /\ d \in PlcState /\ Ends(d, r)
        /\ done /\ d.motion # 0 => d.over
    <2> HIDE DEF c, moving
    <2>1. /\ d \in PlcState /\ Ends(d, r)
          /\ moving /\ c.motion = 0 /\ d.motion # 0 => d.over
      BY <1>3, <1>4, HandleEnds
    <2> QED BY <1>3, <1>4, <2>1
  <1>6. Ends(e, r)
    <2> HIDE DEF d
    <2> QED BY <1>5, MotionEnds
  <1>7. e = AfterScan(p, r, ok, elapsed, done, err)
    BY DEF AfterScan
  <1> HIDE DEF e
  <1> QED BY <1>6, <1>7

\* A client that waits has issued a request, and what the PLC holds or may receive
\* under that number is its command.
Waiting ==
    /\ pc \in {"sent", "wait"} =>
          /\ issued >= 1
          /\ \A w \in wire \cup {reg} : w.id = issued => w.cmd = cmd
    /\ pc = "wait" => reg.id = issued

\* Initially nothing runs.
LEMMA InitEnds == Init => Ends(plc, reg) /\ Waiting
  BY DEF Init, Ends, Past, PulseTimed, OwnPulse, OwnMotion, Active, Waiting, LastOf

\* Every step keeps what is known of ends: the PLC changes by scans alone, and a new
\* request in the registers is one that was not handled.
LEMMA StepEnds ==
    ASSUME SeqInv, Ends(plc, reg), [Next]_vars PROVE Ends(plc', reg')
  <1>1. plc \in PlcState /\ reg \in Request /\ Answered(plc, reg) /\ IssueOrder
    BY DEF SeqInv, TypeOK
  <1>2. CASE Scan
    <2>1. PICK ok \in BOOLEAN, elapsed \in BOOLEAN, done \in BOOLEAN,
               err \in BOOLEAN :
             /\ done => plc.motion # 0
             /\ plc' = AfterScan(plc, reg, ok, elapsed, done, err)
      BY <1>2 DEF Scan
    <2>2. reg' = reg
      BY <1>2 DEF Scan
    <2> QED BY <1>1, <2>1, <2>2, ScanEnds
  <1>3. CASE Deliver
    <2>1. plc' = plc /\ reg' \in wire /\ reg.id < reg'.id
      BY <1>1, <1>3 DEF Deliver, IssueOrder
    <2>2. LastOf(plc.log) \in Nat /\ reg.id \in Nat /\ reg'.id \in Nat
          /\ LastOf(plc.log) <= reg.id
      BY <1>1, <2>1, LastOfNat, PlcFields, RequestFields DEF SeqInv, TypeOK, Answered
    <2>3. LastOf(plc.log) # reg'.id
      BY <2>1, <2>2
    <2> QED BY <2>1, <2>3 DEF Ends, Active
  <1>4. CASE plc' = plc /\ reg' = reg
    BY <1>4
  <1> QED
    BY <1>2, <1>3, <1>4 DEF Next, vars, Begin, Synchronise, Send, SendAnswered,
                           SendUnanswered, Poll, Restart, Lose

\* Every step keeps what is known of a client that waits.
LEMMA StepWaiting == ASSUME SeqInv, Waiting, [Next]_vars PROVE Waiting'
  <1>1. issued \in Nat /\ IssueOrder /\ reg \in Request /\ wire \in SUBSET Request
    BY DEF SeqInv, TypeOK
  <1>2. CASE Send
    BY <1>1, <1>2, RequestFields DEF Send, Waiting, IssueOrder
  <1>3. CASE SendAnswered
    BY <1>1, <1>3 DEF SendAnswered, Waiting
  <1>4. CASE Deliver
    BY <1>1, <1>4, RequestFields DEF Deliver, Waiting, IssueOrder
  <1>5. CASE Lose
    BY <1>5 DEF Lose, Waiting
  <1>6. CASE Scan \/ UNCHANGED vars
    BY <1>6 DEF Scan, vars, Waiting
  <1>7. CASE Begin
    BY <1>7 DEF Begin, Waiting
  <1>8. CASE Synchronise
    BY <1>8 DEF Synchronise, Finish, Waiting
  <1>9. CASE SendUnanswered \/ Poll \/ Restart
    BY <1>9 DEF SendUnanswered, Poll, Restart, Finish, Waiting
  <1> QED BY <1>2, <1>3, <1>4, <1>5, <1>6, <1>7, <1>8, <1>9 DEF Next

\* For every width, set of commands, bound and fault: an output that a pulse has
\* switched on is off as soon as no pulse timer runs for it, whatever stops the pulse,
\* unless a servo error failed that pulse while it ran.
THEOREM PulsesTimed == Spec => []PulsesAreTimed
  <1>1. SeqInv /\ Ends(plc, reg) /\ [Next]_vars => SeqInv' /\ Ends(plc, reg)'
    BY StepSeqInv, StepEnds
  <1>2. Ends(plc, reg) => PulsesAreTimed
    BY DEF Ends, PulseTimed, PulsesAreTimed
  <1> QED BY InitSeqInv, InitEnds, <1>1, <1>2, PTL DEF Spec

\* For every width, set of commands, bound and fault: a command that is reported done
\* is over, unless it is a simultaneous move or was accepted over another command's
\* motion or pulse.  The end of an older command is not taken for its own.
THEOREM DoneIsOver == Spec => DoneMeansFinished
  <1>1. Init => SeqInv /\ Ends(plc, reg) /\ Waiting
    BY InitSeqInv, InitEnds
  <1>2. SeqInv /\ Ends(plc, reg) /\ Waiting /\ [Next]_vars
          => SeqInv' /\ Ends(plc, reg)' /\ Waiting'
    BY StepSeqInv, StepEnds, StepWaiting
  <1>3. SeqInv /\ Ends(plc, reg) /\ Waiting /\ [Next]_vars
          => [outcome' # outcome /\ outcome'.res = "done" /\ cmd # "MOVE_NOWAIT"
                /\ ~plc.over
                => plc.motion # issued /\ issued \notin plc.lit]_vars
    <2> SUFFICES ASSUME SeqInv, Ends(plc, reg), Waiting, [Next]_vars,
                        outcome' # outcome, outcome'.res = "done",
                        cmd # "MOVE_NOWAIT", ~plc.over
                 PROVE  plc.motion # issued /\ issued \notin plc.lit
      OBVIOUS
    <2>1. plc.state = Done /\ pc = "wait"
      BY DoneIsPolled
    <2>2. issued >= 1 /\ reg.id = issued /\ reg.cmd = cmd
      BY <2>1 DEF Waiting
    <2>3. /\ LastOf(plc.log) \in Nat /\ LastOf(plc.log) <= issued
          /\ issued \in Nat /\ plc.motion \in Nat /\ plc.lit \in SUBSET Nat
      BY <2>2, LastOfNat, PlcFields DEF SeqInv, TypeOK, Answered
    <2>4. plc.motion # issued
      <3> SUFFICES ASSUME plc.motion = issued PROVE FALSE
        OBVIOUS
      <3>1. plc.motion = LastOf(plc.log) /\ plc.motion # 0
        BY <2>2, <2>3 DEF Ends, Past
      <3>2. plc.acmd = cmd
        BY <2>2, <3>1 DEF Ends, Active
      <3> QED BY <2>1, <3>1, <3>2 DEF Ends, OwnMotion
    <2>5. issued \notin plc.lit
      <3> SUFFICES ASSUME issued \in plc.lit PROVE FALSE
        OBVIOUS
      <3>1. LastOf(plc.log) = issued
        BY <2>3 DEF Ends, Past
      <3>2. plc.pulse # 0 /\ plc.pulse = LastOf(plc.log)
        BY <2>2, <3>1 DEF Ends, OwnPulse
      <3> QED BY <2>1, <3>2 DEF Ends, OwnPulse
    <2> QED BY <2>4, <2>5
  <1> QED BY <1>1, <1>2, <1>3, PTL DEF Spec, DoneMeansFinished
============================================================================
