------------------------- MODULE StepExecutor_proof -------------------------
(* Proofs about StepExecutor, for all recipes that start() accepts and any   *)
(* number of threads, starts and CALL levels.                                *)
EXTENDS StepExecutor, SequenceTheorems, TLAPS

USE BoundsAssumption

---------------------------------------------------------------------------
(* Flows: what is known of one, and what each of its moves keeps.            *)

Frames == [seq : DOMAIN recipe, idx : Nat \ {0}]
FlowSet == [pc : PcValues, stack : Seq(Frames), base : Nat, main : BOOLEAN, run : Nat]

\* Where a flow is inside a sequence, and where at one of its steps.
Inside == {"loop", "gate", "step", "wait", "held", "poll", "ask", "move",
           "stopA", "stopB", "stopC"}
AtStep == {"gate", "step", "wait", "held", "poll", "ask"}

\* The sequences a flow is in.
Seqs(f) == {f.stack[k].seq : k \in 1 .. Len(f.stack)}

Within(f) == f.stack[1].idx \in DOMAIN recipe[f.stack[1].seq]

Sound(f) ==
    /\ f \in FlowSet
    /\ f.base + Len(f.stack) <= MaxDepth + 1
    /\ f.pc \in Inside => Len(f.stack) > 0
    /\ f.pc \in AtStep => Within(f)
    /\ f.main => f.pc # "werr"

\* The length of a stack, of its rest, and the depth of its flow.
LEMMA Sizes ==
    ASSUME NEW n \in Nat, n > 0
    PROVE  n \in Nat \ {0} /\ n # 0 /\ (~(n > 1) => n = 1) /\ (n > 1 => n - 1 > 0) /\ n - 1 \in Nat
           /\ \A b \in Nat : b + n <= MaxDepth + 1 => b + (n - 1) <= MaxDepth + 1 /\ b <= MaxDepth
  OBVIOUS

\* The rest of a stack.
LEMMA Popped ==
    ASSUME NEW S, NEW q \in Seq(S), Len(q) > 0
    PROVE  /\ Tail(q) \in Seq(S) /\ Len(Tail(q)) = Len(q) - 1
           /\ \A k \in 1 .. Len(q) - 1 : Tail(q)[k] = q[k + 1]
  <1>1. Len(q) \in Nat \ {0}
    BY LenProperties
  <1>2. q # <<>>
    BY <1>1, EmptySeq
  <1>3. \A k \in 1 .. Len(Tail(q)) : Tail(q)[k] = q[k + 1]
    BY <1>2, HeadTailProperties
  <1>4. Tail(q) \in Seq(S) /\ Len(Tail(q)) = Len(q) - 1
    BY <1>2, HeadTailProperties
  <1> QED BY <1>3, <1>4, Zenon

\* A move that leaves a flow in its sequence, at its step, keeps it sound.
LEMMA GotoSound ==
    ASSUME NEW f, Sound(f), NEW pc \in PcValues \ {"werr"},
           pc \in Inside => f.pc \in Inside,
           pc \in AtStep => Within(f)
    PROVE  Sound(Goto(f, pc))
  BY DEF Sound, Goto, FlowSet, Within, PcValues, Inside, AtStep

\* A flow inside a sequence has an innermost one, with its index.
LEMMA TopFrame ==
    ASSUME NEW f, Sound(f), Len(f.stack) > 0
    PROVE  /\ f.stack \in Seq(Frames) /\ Len(f.stack) \in Nat \ {0}
           /\ f.stack[1] \in Frames
           /\ f.stack[1].seq \in DOMAIN recipe /\ f.stack[1].idx \in Nat \ {0}
  <1>1. f.stack \in Seq(Frames)
    BY DEF Sound, FlowSet
  <1>2. Len(f.stack) \in Nat \ {0}
    BY <1>1, EmptySeq
  <1>3. f.stack[1] \in Frames
    BY <1>1, <1>2, ElementOfSeq
  <1> QED BY <1>1, <1>2, <1>3 DEF Frames

\* Setting the index of the innermost sequence keeps a flow sound.
LEMMA JumpedSound ==
    ASSUME NEW f, Sound(f), Len(f.stack) > 0, NEW i \in Nat \ {0}
    PROVE  Sound(Jumped(f, i)) /\ Jumped(f, i).pc = "loop"
           /\ Jumped(f, i).main = f.main /\ Jumped(f, i).run = f.run
           /\ Seqs(Jumped(f, i)) \subseteq Seqs(f)
  <1> DEFINE fr == [f.stack[1] EXCEPT !.idx = i]
             st == [f.stack EXCEPT ![1] = fr]
  <1>1. f.stack \in Seq(Frames) /\ Len(f.stack) \in Nat \ {0} /\ f.stack[1] \in Frames
    BY TopFrame
  <1>2. fr \in Frames /\ fr.seq = f.stack[1].seq
    BY <1>1 DEF Frames
  <1>3. st \in Seq(Frames) /\ Len(st) = Len(f.stack)
        /\ \A j \in 1 .. Len(f.stack) : st[j] = IF j = 1 THEN fr ELSE f.stack[j]
    <2> HIDE DEF fr
    <2> QED BY <1>1, <1>2, ExceptSeq
  <1>4. st # <<>>
    BY <1>1, <1>3, EmptySeq
  <1>5. Jumped(f, i) = [f EXCEPT !.stack = st, !.pc = "loop"]
    BY DEF Jumped
  <1>6. f \in FlowSet /\ f.base + Len(f.stack) <= MaxDepth + 1
    BY DEF Sound
  <1> HIDE DEF st, fr
  <1>7. Jumped(f, i) \in FlowSet /\ Jumped(f, i).pc = "loop" /\ Jumped(f, i).stack = st
        /\ Jumped(f, i).base = f.base /\ Jumped(f, i).main = f.main /\ Jumped(f, i).run = f.run
    BY <1>3, <1>5, <1>6 DEF FlowSet, PcValues
  <1>8. Sound(Jumped(f, i))
    BY <1>3, <1>4, <1>6, <1>7 DEF Sound, AtStep
  <1>9. Len(Jumped(f, i).stack) = Len(f.stack)
        /\ \A k \in 1 .. Len(f.stack) : Jumped(f, i).stack[k].seq = f.stack[k].seq
    BY <1>2, <1>3, <1>7
  <1> QED BY <1>7, <1>8, <1>9, Zenon DEF Seqs

\* So does moving on to the next step.
LEMMA AdvancedSound ==
    ASSUME NEW f, Sound(f), Len(f.stack) > 0
    PROVE  Sound(Advanced(f)) /\ Advanced(f).pc = "loop"
           /\ Advanced(f).main = f.main /\ Advanced(f).run = f.run
           /\ Seqs(Advanced(f)) \subseteq Seqs(f)
  <1>1. f.stack \in Seq(Frames) /\ Len(f.stack) \in Nat \ {0} /\ f.stack[1] \in Frames
        /\ f.stack[1].idx \in Nat \ {0}
    BY TopFrame
  <1>2. Advanced(f) = Jumped(f, f.stack[1].idx + 1)
    BY <1>1, LenProperties DEF Advanced, Jumped, Frames
  <1>3. f.stack[1].idx + 1 \in Nat \ {0}
    BY <1>1
  <1> QED BY <1>2, <1>3, JumpedSound

\* A failure leaves every sequence.
LEMMA RaisedSound ==
    ASSUME NEW f, Sound(f)
    PROVE  Sound(Raised(f)) /\ Raised(f).pc = (IF f.main THEN "err" ELSE "werr")
           /\ Raised(f).main = f.main /\ Raised(f).run = f.run /\ Seqs(Raised(f)) = {}
  <1>1. f \in FlowSet /\ f.base + Len(f.stack) <= MaxDepth + 1 /\ f.stack \in Seq(Frames)
    BY DEF Sound, FlowSet
  <1>2. <<>> \in Seq(Frames) /\ Len(<<>>) = 0 /\ Len(f.stack) \in Nat
    BY <1>1, EmptySeq
  <1>3. Raised(f) \in FlowSet /\ Raised(f).pc = (IF f.main THEN "err" ELSE "werr")
        /\ Raised(f).main = f.main /\ Raised(f).run = f.run /\ Raised(f).stack = <<>>
        /\ Raised(f).base = f.base
    BY <1>1, <1>2 DEF Raised, FlowSet, PcValues
  <1>4. Seqs(Raised(f)) = {}
    BY <1>2, <1>3 DEF Seqs
  <1>5. Sound(Raised(f))
    BY <1>1, <1>2, <1>3 DEF Sound, FlowSet, Inside, AtStep
  <1> QED BY <1>3, <1>4, <1>5

\* A return leads to the calling sequence or out of the flow.
LEMMA ReturnedSound ==
    ASSUME NEW f, Sound(f), Len(f.stack) > 0
    PROVE  Sound(Returned(f))
           /\ Returned(f).pc \in {"loop", IF f.main THEN "join" ELSE "dead"}
           /\ Returned(f).main = f.main /\ Returned(f).run = f.run
           /\ Seqs(Returned(f)) \subseteq Seqs(f)
  <1>1. f \in FlowSet /\ f.base + Len(f.stack) <= MaxDepth + 1 /\ f.stack \in Seq(Frames)
        /\ Len(f.stack) \in Nat /\ f.base \in Nat
    BY LenProperties DEF Sound, FlowSet
  <1>2. /\ Tail(f.stack) \in Seq(Frames) /\ Len(Tail(f.stack)) = Len(f.stack) - 1
        /\ \A k \in 1 .. Len(f.stack) - 1 : Tail(f.stack)[k] = f.stack[k + 1]
    BY <1>1, Popped
  <1>3. /\ ~(Len(f.stack) > 1) => Len(f.stack) = 1
        /\ Len(f.stack) > 1 => Len(f.stack) - 1 > 0
        /\ f.base + (Len(f.stack) - 1) <= MaxDepth + 1 /\ f.base <= MaxDepth
    BY <1>1, Sizes
  <1>4. CASE Len(f.stack) > 1
    <2> DEFINE g == [f EXCEPT !.stack = Tail(f.stack)]
               h == Goto(g, "loop")
    <2>1. Returned(f) = Advanced(g)
      BY <1>4 DEF Returned
    <2> HIDE DEF g
    <2>2. g \in FlowSet /\ g.pc = f.pc /\ g.stack = Tail(f.stack) /\ g.base = f.base
          /\ g.main = f.main /\ g.run = f.run
      BY <1>1, <1>2 DEF FlowSet, g
    <2>3. Advanced(g) = Advanced(h)
      BY <2>2 DEF Advanced, Goto, FlowSet
    <2> HIDE DEF h
    <2>4. h \in FlowSet /\ h.pc = "loop" /\ h.stack = Tail(f.stack) /\ h.base = f.base
          /\ h.main = f.main /\ h.run = f.run
      BY <2>2 DEF Goto, FlowSet, PcValues, h
    <2>5. Len(h.stack) > 0 /\ h.base + Len(h.stack) <= MaxDepth + 1
      BY <1>2, <1>3, <1>4, <2>4, Zenon
    <2>6. h.pc \notin AtStep /\ h.pc # "werr"
      BY <2>4 DEF AtStep
    <2>7. Sound(h)
      BY <2>4, <2>5, <2>6, Zenon DEF Sound
    <2>8. Returned(f) = Advanced(h)
      BY <2>1, <2>3, Zenon
    <2>9. Sound(Returned(f)) /\ Returned(f).pc = "loop"
          /\ Returned(f).main = h.main /\ Returned(f).run = h.run
          /\ Seqs(Returned(f)) \subseteq Seqs(h)
      BY <2>5, <2>7, <2>8, AdvancedSound, Zenon
    <2>10. \A k \in 1 .. Len(f.stack) - 1 : k + 1 \in 1 .. Len(f.stack)
      BY <1>1
    <2>11. Seqs(h) \subseteq Seqs(f)
      <3> SUFFICES ASSUME NEW k \in 1 .. Len(f.stack) - 1
                   PROVE  Tail(f.stack)[k].seq \in Seqs(f)
        BY <1>2, <2>4 DEF Seqs
      <3> QED BY <1>2, <2>10, Zenon DEF Seqs
    <2> QED BY <2>4, <2>9, <2>11, Zenon
  <1>5. CASE ~(Len(f.stack) > 1)
    <2> DEFINE p == IF f.main THEN "join" ELSE "dead"
    <2>1. Returned(f) = [f EXCEPT !.stack = <<>>, !.pc = p]
      BY <1>5 DEF Returned
    <2>2. p \in {"join", "dead"}
      OBVIOUS
    <2> HIDE DEF p
    <2>3. <<>> \in Seq(Frames) /\ Len(<<>>) = 0
      BY EmptySeq
    <2>4. Returned(f) \in FlowSet /\ Returned(f).pc = p /\ Returned(f).stack = <<>>
          /\ Returned(f).base = f.base /\ Returned(f).main = f.main /\ Returned(f).run = f.run
      BY <1>1, <2>1, <2>2, <2>3 DEF FlowSet, PcValues
    <2>5. Len(Returned(f).stack) = 0 /\ Returned(f).base + Len(Returned(f).stack) <= MaxDepth + 1
      <3>1. Len(Returned(f).stack) = 0
        BY <2>3, <2>4, Zenon
      <3>2. Returned(f).base + 0 <= MaxDepth + 1
        BY <1>1, <1>3, <2>4
      <3> QED BY <3>1, <3>2, Zenon
    <2>6. Returned(f).pc \notin Inside /\ Returned(f).pc \notin AtStep /\ Returned(f).pc # "werr"
      BY <2>2, <2>4 DEF Inside, AtStep
    <2>7. Sound(Returned(f))
      BY <2>4, <2>5, <2>6, Zenon DEF Sound
    <2>10. Seqs(Returned(f)) = {}
      BY <2>5 DEF Seqs
    <2> QED BY <2>2, <2>4, <2>7, <2>10, Zenon DEF p
  <1> QED BY <1>4, <1>5

\* A CALL puts the called sequence on top.
Called(f, s) ==
    [f EXCEPT !.pc = "loop", !.stack = <<[seq |-> s, idx |-> 1]>> \o @]

\* ... and keeps the flow sound while the limit allows it.
LEMMA CalledSound ==
    ASSUME NEW f, Sound(f), NEW s \in DOMAIN recipe,
           f.base + Len(f.stack) <= MaxDepth
    PROVE  Sound(Called(f, s)) /\ Called(f, s).pc = "loop"
           /\ Called(f, s).main = f.main /\ Called(f, s).run = f.run
           /\ Seqs(Called(f, s)) \subseteq Seqs(f) \cup {s}
  <1> DEFINE fr == [seq |-> s, idx |-> 1]
             st == <<fr>> \o f.stack
  <1>1. f \in FlowSet /\ f.stack \in Seq(Frames) /\ Len(f.stack) \in Nat /\ f.base \in Nat
    BY EmptySeq DEF Sound, FlowSet
  <1>2. fr \in Frames /\ fr.seq = s
    BY DEF Frames
  <1> HIDE DEF fr
  <1>3. <<fr>> \in Seq(Frames) /\ Len(<<fr>>) = 1 /\ <<fr>>[1] = fr
    BY <1>2
  <1>4. st \in Seq(Frames) /\ Len(st) = 1 + Len(f.stack)
        /\ \A i \in 1 .. 1 + Len(f.stack) : st[i] = IF i <= 1 THEN <<fr>>[i] ELSE f.stack[i - 1]
    BY <1>1, <1>3, ConcatProperties
  <1>5. st[1] = fr /\ \A k \in 1 .. Len(f.stack) : st[k + 1] = f.stack[k]
    BY <1>1, <1>3, <1>4
  <1>6. st # <<>>
    BY <1>1, <1>4, EmptySeq
  <1>7. Called(f, s) = [f EXCEPT !.pc = "loop", !.stack = st]
    BY DEF Called, fr
  <1> HIDE DEF st
  <1>8. Called(f, s) \in FlowSet /\ Called(f, s).pc = "loop" /\ Called(f, s).stack = st
        /\ Called(f, s).base = f.base /\ Called(f, s).main = f.main /\ Called(f, s).run = f.run
    BY <1>1, <1>4, <1>7 DEF FlowSet, PcValues
  <1>9. Sound(Called(f, s))
    BY <1>1, <1>4, <1>6, <1>8 DEF Sound, AtStep
  <1>10. Seqs(Called(f, s)) \subseteq Seqs(f) \cup {s}
    <2> SUFFICES ASSUME NEW k \in 1 .. 1 + Len(f.stack)
                 PROVE  st[k].seq \in Seqs(f) \cup {s}
      BY <1>4, <1>8 DEF Seqs
    <2>1. CASE k = 1
      BY <1>2, <1>5, <2>1
    <2>2. CASE k # 1
      <3>1. k - 1 \in 1 .. Len(f.stack) /\ st[k] = f.stack[k - 1]
        BY <1>1, <1>4, <2>2 DEF st
      <3> QED BY <3>1 DEF Seqs
    <2> QED BY <2>1, <2>2
  <1> QED BY <1>8, <1>9, <1>10, Zenon

\* A new flow begins its sequence at its first step.
LEMMA FlowSound ==
    ASSUME NEW s \in DOMAIN recipe, NEW b \in 0 .. MaxDepth, NEW m \in BOOLEAN, NEW r \in Nat
    PROVE  Sound(Flow(s, b, m, r)) /\ Flow(s, b, m, r).pc = "loop"
           /\ Flow(s, b, m, r).main = m /\ Flow(s, b, m, r).run = r
           /\ Seqs(Flow(s, b, m, r)) = {s}
  <1> DEFINE fr == [seq |-> s, idx |-> 1]
  <1>1. fr \in Frames /\ fr.seq = s
    BY DEF Frames
  <1>2. Flow(s, b, m, r) = [pc |-> "loop", stack |-> <<fr>>, base |-> b, main |-> m, run |-> r]
    BY DEF Flow
  <1> HIDE DEF fr
  <1>3. <<fr>> \in Seq(Frames) /\ Len(<<fr>>) = 1 /\ <<fr>>[1] = fr /\ <<fr>> # <<>>
    BY <1>1, EmptySeq
  <1>4. Flow(s, b, m, r) \in FlowSet /\ Flow(s, b, m, r).stack = <<fr>>
        /\ Flow(s, b, m, r).pc = "loop" /\ Flow(s, b, m, r).main = m /\ Flow(s, b, m, r).run = r
        /\ Flow(s, b, m, r).base = b
    BY <1>2, <1>3 DEF FlowSet, PcValues
  <1>5. Seqs(Flow(s, b, m, r)) = {s}
    BY <1>1, <1>3, <1>4 DEF Seqs
  <1> QED BY <1>3, <1>4, <1>5 DEF Sound, AtStep

---------------------------------------------------------------------------
(* The types, and the steps of a flow thread in kinds.                       *)

FlagsOK ==
    /\ recipe \in Recipes
    /\ state \in {"IDLE", "RUNNING", "PAUSED", "STOPPING", "ERROR"}
    /\ stop \in BOOLEAN /\ gate \in BOOLEAN
    /\ workerErr \in BOOLEAN /\ lastErr \in BOOLEAN
    /\ ui \in {"idle", "starting", "pausing", "resuming", "stop1", "stop2"}
    /\ starts \in 0 .. MaxStarts
    /\ offs \in BOOLEAN /\ offMissed \in BOOLEAN

CrewOK ==
    /\ cur \in Threads \cup {0}
    /\ workers \subseteq Threads /\ snap \subseteq Threads
    /\ \A t \in Threads : th[t].main => t \notin workers

ThreadsOK == th \in [Threads -> FlowSet] /\ \A t \in Threads : Sound(th[t])

EffectsOK == on \subseteq Outputs /\ extra \in [Threads -> Nat]

TInv == FlagsOK /\ CrewOK /\ ThreadsOK /\ EffectsOK

\* The sequence that a flow at a CALL is about to enter.
CalledBy(t) == IF th[t].pc = "step" /\ Step(t).op = "CALL" THEN {Step(t).seq} ELSE {}

\* Where a flow is that has returned or failed.
Over(f) == IF f.main THEN "join" ELSE "dead"
Broken(f) == IF f.main THEN "err" ELSE "werr"

\* Steps that only the flow itself notices.
Calm(t, q) ==
    LET p == th[t].pc IN
    \/ p = "loop" /\ q = "gate" /\ ~stop
    \/ p \in {"loop", "step", "wait", "stopA"} /\ q \in {"loop", Over(th[t])}
    \/ p \in {"move", "poll", "ask"} /\ q = "loop"
    \/ p \in {"step", "move", "poll"} /\ q = Broken(th[t])
    \/ p = "gate" /\ q = "step" /\ Passes
    \/ p = "step" /\ q = "wait"
    \/ p = "wait" /\ q = "poll" /\ gate /\ ~stop
    \/ p = "wait" /\ q = "held" /\ ~stop
    \/ p = "held" /\ q = "poll" /\ Passes
    \/ p = "poll" /\ q \in {"wait", "ask"}
    \/ p = "ask" /\ q \in {"wait", "stopA"}
    \/ p = "stopA" /\ q = "stopB"
    \/ p = "join" /\ q = "check" /\ Joined
    \/ p = "check" /\ q \in {"err", "off"}
    \/ p = "check" /\ q = "compl" /\ ~stop
    \/ p = "exit" /\ q = "dead"

Rests(t, f) == Calm(t, f.pc) /\ UNCHANGED <<control, workerErr, on, extra, offMissed>>

\* ... that act on the machine,
Acts(t, f) ==
    /\ th[t].pc \in {"step", "poll"} /\ f.pc \in {"loop", "move"}
    /\ Effect(t) /\ on' \in SUBSET Outputs
    /\ UNCHANGED <<control, workerErr, offMissed>>

\* ... that set the stop event,
Stops(t, f) ==
    /\ \/ th[t].pc = "stopC" /\ f.pc \in {"loop", Over(th[t])} /\ gate' = TRUE
          /\ workerErr' = workerErr
       \/ th[t].pc = "werr" /\ f.pc = "dead" /\ gate' = gate /\ workerErr' = TRUE
    /\ stop' = TRUE /\ extra' = (IF stop THEN extra ELSE NoExtra)
    /\ UNCHANGED <<state, lastErr, on, offMissed>>

\* ... that write the state,
Reports(t, f) ==
    /\ \/ th[t].pc \in {"compl", "err"} /\ f.pc = "off"
       \/ th[t].pc = "last" /\ f.pc = "exit"
       \/ th[t].pc = "stopB" /\ f.pc = "stopC"
    /\ state' \in {state, "IDLE", "ERROR", "STOPPING"} /\ lastErr' \in BOOLEAN
    /\ UNCHANGED <<stop, gate, workerErr, on, extra, offMissed>>

\* ... and the one that switches the outputs off.
Resets(t, f) ==
    /\ th[t].pc = "off" /\ f.pc = "last"
    /\ \/ on' = SafeOff /\ offMissed' = offMissed
       \/ on' = on /\ offMissed' = TRUE
    /\ state' \in {state, "ERROR"} /\ lastErr' \in BOOLEAN
    /\ UNCHANGED <<stop, gate, workerErr, extra>>

\* Flow t becomes f, and joins the workers it knows of when it is over.
Becomes(t, f) ==
    /\ Sound(f) /\ f.main = th[t].main /\ f.run = th[t].run
    /\ Seqs(f) \subseteq Seqs(th[t]) \cup CalledBy(t)
    /\ th' = [th EXCEPT ![t] = f]
    /\ snap' = (IF f.pc = "join" THEN workers ELSE snap)

StepTo(t, f) ==
    /\ Becomes(t, f)
    /\ offs' \in BOOLEAN
    /\ UNCHANGED <<recipe, ui, starts, cur, workers>>
    /\ Rests(t, f) \/ Acts(t, f) \/ Stops(t, f) \/ Reports(t, f) \/ Resets(t, f)

\* A parallel CALL: flow t moves on, and thread u begins flow g.
ForkTo(t, u, f, g) ==
    /\ th[t].pc = "step" /\ Step(t).op = "PCALL" /\ th[u].pc = "free"
    /\ Sound(f) /\ f.pc = "loop" /\ f.main = th[t].main /\ f.run = th[t].run
    /\ Seqs(f) \subseteq Seqs(th[t])
    /\ Sound(g) /\ g.pc \in {"loop", "werr"} /\ g.main = FALSE /\ g.run = th[t].run
    /\ Seqs(g) \subseteq {Step(t).seq}
    /\ th' = [th EXCEPT ![t] = f, ![u] = g]
    /\ workers' = workers \cup {u}
    /\ UNCHANGED <<recipe, control, cur, snap, workerErr, ui, starts, offs, on, extra, offMissed>>

\* What the validation of a recipe says of a step that a flow is at.
LEMMA StepValid ==
    ASSUME TInv, NEW t \in Threads, th[t].pc \in AtStep
    PROVE  /\ Step(t).op \in {"OUT", "OUTD"} => Step(t).out \in Outputs
           /\ Step(t).op = "JMP" => Step(t).to \in Nat \ {0}
           /\ Step(t).op \in {"CALL", "PCALL"} => Step(t).seq \in DOMAIN recipe
  <1> DEFINE s == th[t].stack[1].seq
             i == th[t].stack[1].idx
  <1>1. Sound(th[t]) /\ recipe \in Recipes /\ Valid(recipe)
    BY RecipesAssumption DEF TInv, ThreadsOK, FlagsOK
  <1>2. Len(th[t].stack) > 0 /\ Within(th[t])
    BY <1>1 DEF Sound, AtStep, Inside
  <1>3. s \in DOMAIN recipe /\ i \in DOMAIN recipe[s] /\ Step(t) = recipe[s][i]
    BY <1>1, <1>2, TopFrame DEF Within, Step, Steps, Top
  <1> HIDE DEF s, i
  <1>4. /\ Step(t).op \in {"OUT", "OUTD"} => Step(t).out \in Outputs
        /\ Step(t).op = "JMP" => Step(t).to \in DOMAIN recipe[s]
        /\ Step(t).op \in {"CALL", "PCALL"} => Step(t).seq \in DOMAIN recipe
        /\ Len(recipe[s]) \in Nat /\ DOMAIN recipe[s] = 1 .. Len(recipe[s])
    BY <1>1, <1>3, Zenon DEF Valid
  <1> QED BY <1>4

\* The flow that a thread runs, where it is inside a sequence.
LEMMA ThreadSound ==
    ASSUME TInv, NEW t \in Threads
    PROVE  /\ Sound(th[t]) /\ th[t].pc \in PcValues /\ th[t].main \in BOOLEAN /\ th[t].run \in Nat
           /\ th[t].pc \in Inside => Len(th[t].stack) > 0
           /\ th[t].pc \in AtStep => Within(th[t]) /\ th[t].pc \in Inside
  BY DEF TInv, ThreadsOK, Sound, FlowSet, AtStep, Inside

\* What the moves make of a flow.
LEMMA Goes ==
    ASSUME TInv, NEW t \in Threads, NEW q \in PcValues \ {"werr", "join"},
           q \in Inside => th[t].pc \in Inside,
           q \in AtStep => th[t].pc \in AtStep,
           Move(t, Goto(th[t], q)), snap' = snap
    PROVE  Becomes(t, Goto(th[t], q)) /\ Goto(th[t], q).pc = q
  <1> DEFINE f == Goto(th[t], q)
  <1>1. Sound(th[t]) /\ th[t] \in FlowSet /\ (q \in AtStep => Within(th[t]))
    BY ThreadSound DEF TInv, ThreadsOK
  <1>2. Sound(f)
    BY <1>1, GotoSound
  <1>3. f.pc = q /\ f.main = th[t].main /\ f.run = th[t].run /\ f.stack = th[t].stack
    BY <1>1 DEF Goto, FlowSet
  <1> HIDE DEF f
  <1>4. Seqs(f) = Seqs(th[t]) /\ q # "join"
    BY <1>3, Zenon DEF Seqs
  <1> QED BY <1>2, <1>3, <1>4 DEF Becomes, Move, f

\* Moving on to the next step,
LEMMA Advances ==
    ASSUME TInv, NEW t \in Threads, th[t].pc \in Inside,
           Move(t, Advanced(th[t])), snap' = snap
    PROVE  Becomes(t, Advanced(th[t])) /\ Advanced(th[t]).pc = "loop"
  <1>1. Sound(th[t]) /\ Len(th[t].stack) > 0
    BY ThreadSound
  <1> QED BY <1>1, AdvancedSound DEF Becomes, Move

\* jumping,
LEMMA Jumps ==
    ASSUME TInv, NEW t \in Threads, th[t].pc \in Inside, NEW i \in Nat \ {0},
           Move(t, Jumped(th[t], i)), snap' = snap
    PROVE  Becomes(t, Jumped(th[t], i)) /\ Jumped(th[t], i).pc = "loop"
  <1>1. Sound(th[t]) /\ Len(th[t].stack) > 0
    BY ThreadSound
  <1> QED BY <1>1, JumpedSound DEF Becomes, Move

\* failing,
LEMMA Raises ==
    ASSUME TInv, NEW t \in Threads, Move(t, Raised(th[t])), snap' = snap
    PROVE  Becomes(t, Raised(th[t])) /\ Raised(th[t]).pc = Broken(th[t])
  <1>1. Sound(th[t])
    BY ThreadSound
  <1> QED BY <1>1, RaisedSound DEF Becomes, Move, Broken

\* returning,
LEMMA Returns ==
    ASSUME TInv, NEW t \in Threads, th[t].pc \in Inside, MoveOn(t, Returned(th[t]))
    PROVE  Becomes(t, Returned(th[t])) /\ Returned(th[t]).pc \in {"loop", Over(th[t])}
  <1>1. Sound(th[t]) /\ Len(th[t].stack) > 0
    BY ThreadSound
  <1> QED BY <1>1, ReturnedSound DEF Becomes, Move, MoveOn, Over

\* and calling a sequence.
LEMMA Calls ==
    ASSUME TInv, NEW t \in Threads, th[t].pc = "step", Step(t).op = "CALL",
           CallDepth(t) <= MaxDepth,
           Move(t, Called(th[t], Step(t).seq)), snap' = snap
    PROVE  Becomes(t, Called(th[t], Step(t).seq)) /\ Called(th[t], Step(t).seq).pc = "loop"
  <1>1. Sound(th[t]) /\ Step(t).seq \in DOMAIN recipe
    BY ThreadSound, StepValid DEF AtStep
  <1> QED BY <1>1, CalledSound DEF Becomes, Move, CalledBy, CallDepth

\* The rest of a step that a flow notices alone.
Alone == UNCHANGED <<recipe, ui, starts, cur, workers, control, workerErr, on, extra, offMissed>>
         /\ offs' \in BOOLEAN

\* A flow that does nothing else makes a step of the first kind.
LEMMA RestStep ==
    ASSUME NEW t \in Threads, NEW f, Becomes(t, f), Calm(t, f.pc), Alone
    PROVE  StepTo(t, f)
  BY DEF StepTo, Rests, Alone

\* Writing an output: done, or failed.
LEMMA WriteStep ==
    ASSUME TInv, NEW t \in Threads, th[t].pc \in {"step", "poll"},
           Step(t).op \in {"OUT", "OUTD"},
           WriteOutput(t), UNCHANGED <<recipe, ui, starts, offs, offMissed>>
    PROVE  \E f : StepTo(t, f)
  <1>1. th[t].pc \in Inside /\ Step(t).out \in Outputs /\ on \subseteq Outputs /\ offs' \in BOOLEAN
    BY StepValid DEF AtStep, Inside, TInv, EffectsOK, FlagsOK
  <1>2. CASE Move(t, Advanced(th[t])) /\ Effect(t)
             /\ on' = (IF Step(t).on THEN on \cup {Step(t).out} ELSE on \ {Step(t).out})
    <2>1. UNCHANGED <<cur, workers, control, workerErr, snap>>
      BY DEF WriteOutput, crew
    <2>2. Becomes(t, Advanced(th[t])) /\ Advanced(th[t]).pc = "loop"
      BY <1>1, <1>2, <2>1, Advances
    <2>3. on' \subseteq Outputs
      BY <1>1, <1>2
    <2>4. Acts(t, Advanced(th[t]))
      BY <1>2, <2>1, <2>2, <2>3 DEF Acts
    <2> QED BY <1>1, <2>1, <2>2, <2>4 DEF StepTo
  <1>3. CASE Move(t, Raised(th[t])) /\ UNCHANGED <<on, extra>>
    <2>1. UNCHANGED <<cur, workers, control, workerErr, snap>>
      BY DEF WriteOutput, crew
    <2>2. Becomes(t, Raised(th[t])) /\ Raised(th[t]).pc = Broken(th[t])
      BY <1>3, <2>1, Raises
    <2>3. Calm(t, Raised(th[t]).pc) /\ Alone
      BY <1>1, <1>3, <2>1, <2>2 DEF Calm, Alone
    <2> QED BY <2>2, <2>3, RestStep
  <1> QED BY <1>2, <1>3 DEF WriteOutput

\* The steps of the loop around the steps of a sequence.
LEMMA LoopSteps ==
    ASSUME TInv, NEW t \in Threads, UNCHANGED <<recipe, ui, starts, offs, offMissed>>,
           Loop(t) \/ WaitIfPaused(t) \/ End(t) \/ WaitLoop(t)
    PROVE  \E f : StepTo(t, f)
  <1>1. offs' \in BOOLEAN
    BY DEF TInv, FlagsOK
  <1>2. ASSUME MoveOn(t, Returned(th[t])), th[t].pc \in {"loop", "step", "wait"},
               UNCHANGED <<control, cur, workers, workerErr, on, extra>>
        PROVE  StepTo(t, Returned(th[t]))
    <2>1. Becomes(t, Returned(th[t])) /\ Returned(th[t]).pc \in {"loop", Over(th[t])}
      BY <1>2, Returns DEF Inside
    <2>2. Calm(t, Returned(th[t]).pc) /\ Alone
      BY <1>1, <1>2, <2>1 DEF Calm, Alone
    <2> QED BY <2>1, <2>2, RestStep
  <1>3. CASE Loop(t)
    <2>1. CASE LoopEnds(t)
      BY <1>2, <1>3, <2>1 DEF Loop
    <2>2. CASE ~LoopEnds(t)
      <3> DEFINE f == Goto(th[t], "gate")
      <3>1. Sound(th[t]) /\ Len(th[t].stack) > 0 /\ th[t] \in FlowSet
        BY <1>3, ThreadSound DEF Loop, Inside, TInv, ThreadsOK
      <3>2. Within(th[t])
        <4>1. Valid(recipe) /\ th[t].stack[1].seq \in DOMAIN recipe
              /\ th[t].stack[1].idx \in Nat \ {0}
          BY <3>1, TopFrame, RecipesAssumption DEF TInv, FlagsOK
        <4>2. Len(recipe[th[t].stack[1].seq]) \in Nat
              /\ DOMAIN recipe[th[t].stack[1].seq] = 1 .. Len(recipe[th[t].stack[1].seq])
          BY <4>1, Zenon DEF Valid
        <4>3. ~(th[t].stack[1].idx > Len(recipe[th[t].stack[1].seq]))
          BY <2>2 DEF LoopEnds, Top, Steps
        <4> QED BY <4>1, <4>2, <4>3 DEF Within
      <3>3. Sound(f)
        BY <1>3, <3>1, <3>2, GotoSound DEF PcValues, Inside, Loop
      <3>4. f.pc = "gate" /\ f.main = th[t].main /\ f.run = th[t].run /\ f.stack = th[t].stack
        BY <3>1 DEF FlowSet, Goto
      <3>5. MoveOn(t, f)
        BY <1>3, <2>2 DEF Loop
      <3> HIDE DEF f
      <3>6. Becomes(t, f)
        <4>1. Seqs(f) = Seqs(th[t])
          BY <3>4, Zenon DEF Seqs
        <4> QED BY <3>3, <3>4, <3>5, <4>1 DEF Becomes, MoveOn, Move
      <3>7. Calm(t, f.pc) /\ Alone
        BY <1>1, <1>3, <2>2, <3>4 DEF Calm, Alone, Loop, LoopEnds
      <3> QED BY <3>6, <3>7, RestStep
    <2> QED BY <2>1, <2>2
  <1>4. CASE WaitIfPaused(t)
    <2>1. Becomes(t, Goto(th[t], "step")) /\ Goto(th[t], "step").pc = "step"
      BY <1>4, Goes DEF WaitIfPaused, PcValues, Inside, AtStep, crew
    <2>2. Calm(t, Goto(th[t], "step").pc) /\ Alone
      BY <1>1, <1>4, <2>1 DEF Calm, Alone, WaitIfPaused, crew
    <2> QED BY <2>1, <2>2, RestStep
  <1>5. CASE End(t)
    BY <1>2, <1>5 DEF End
  <1>6. CASE WaitLoop(t)
    <2>1. CASE stop
      BY <1>2, <1>6, <2>1 DEF WaitLoop
    <2>2. CASE ~stop
      <3> DEFINE q == IF gate THEN "poll" ELSE "held"
      <3>1. q \in {"poll", "held"} /\ (q = "poll" => gate)
        OBVIOUS
      <3>2. th[t].pc = "wait" /\ Move(t, Goto(th[t], q)) /\ snap' = snap
        BY <1>6, <2>2 DEF WaitLoop
      <3> HIDE DEF q
      <3>3. Becomes(t, Goto(th[t], q)) /\ Goto(th[t], q).pc = q
        BY <3>1, <3>2, Goes DEF PcValues, Inside, AtStep
      <3>4. Calm(t, Goto(th[t], q).pc) /\ Alone
        BY <1>1, <1>6, <2>2, <3>1, <3>2, <3>3 DEF Calm, Alone, WaitLoop
      <3> QED BY <3>3, <3>4, RestStep
    <2> QED BY <2>1, <2>2
  <1> QED BY <1>3, <1>4, <1>5, <1>6

\* The steps of a sequence that take the flow on, into a failure or into a motion.
LEMMA OwnSteps ==
    ASSUME TInv, NEW t \in Threads, UNCHANGED <<recipe, ui, starts, offs, offMissed>>,
           \/ Out(t) \/ Pos(t) \/ PosEnds(t) \/ Dat(t) \/ Comment(t) \/ Jmp(t) \/ Call(t)
    PROVE  \E f : StepTo(t, f)
  <1>1. offs' \in BOOLEAN
    BY DEF TInv, FlagsOK
  <1>2. ASSUME Move(t, Advanced(th[t])), th[t].pc \in {"step", "move"},
               UNCHANGED <<control, crew, on, extra>>
        PROVE  StepTo(t, Advanced(th[t]))
    <2>1. Becomes(t, Advanced(th[t])) /\ Advanced(th[t]).pc = "loop"
      BY <1>2, Advances DEF Inside, crew
    <2>2. Calm(t, Advanced(th[t]).pc) /\ Alone
      BY <1>1, <1>2, <2>1 DEF Calm, Alone, crew
    <2> QED BY <2>1, <2>2, RestStep
  <1>3. ASSUME Move(t, Raised(th[t])), th[t].pc \in {"step", "move"},
               UNCHANGED <<control, crew, on, extra>>
        PROVE  StepTo(t, Raised(th[t]))
    <2>1. Becomes(t, Raised(th[t])) /\ Raised(th[t]).pc = Broken(th[t])
      BY <1>3, Raises DEF Inside, crew
    <2>2. Calm(t, Raised(th[t]).pc) /\ Alone
      BY <1>1, <1>3, <2>1 DEF Calm, Alone, crew
    <2> QED BY <2>1, <2>2, RestStep
  <1>4. CASE Out(t)
    BY <1>4, WriteStep DEF Out
  <1>5. CASE Pos(t)
    <2> DEFINE f == Goto(th[t], "move")
    <2>1. Becomes(t, f) /\ f.pc = "move"
      BY <1>5, Goes DEF Pos, PcValues, Inside, AtStep, crew
    <2>2. on' \in SUBSET Outputs
      BY <1>5 DEF Pos, TInv, EffectsOK
    <2>3. Acts(t, f)
      BY <1>5, <2>1, <2>2 DEF Acts, Pos, crew
    <2> QED BY <1>1, <1>5, <2>1, <2>3 DEF StepTo, Pos, crew
  <1>6. CASE PosEnds(t)
    BY <1>2, <1>3, <1>6 DEF PosEnds
  <1>7. CASE Dat(t)
    BY <1>2, <1>3, <1>7 DEF Dat
  <1>8. CASE Comment(t)
    BY <1>2, <1>8 DEF Comment
  <1>9. CASE Jmp(t)
    <2>1. ASSUME Move(t, Jumped(th[t], Step(t).to))
          PROVE  StepTo(t, Jumped(th[t], Step(t).to))
      <3>1. Step(t).to \in Nat \ {0} /\ th[t].pc \in Inside
        BY <1>9, StepValid DEF Jmp, AtStep, Inside
      <3>2. Becomes(t, Jumped(th[t], Step(t).to)) /\ Jumped(th[t], Step(t).to).pc = "loop"
        BY <1>9, <2>1, <3>1, Jumps DEF Jmp, crew
      <3>3. Calm(t, Jumped(th[t], Step(t).to).pc) /\ Alone
        BY <1>1, <1>9, <3>2 DEF Calm, Alone, crew, Jmp
      <3> QED BY <3>2, <3>3, RestStep
    <2> QED BY <1>2, <1>3, <1>9, <2>1 DEF Jmp
  <1>10. CASE Call(t)
    <2>1. CASE CallDepth(t) > MaxDepth
      BY <1>3, <1>10, <2>1 DEF Call
    <2>2. CASE ~(CallDepth(t) > MaxDepth)
      <3> DEFINE f == Called(th[t], Step(t).seq)
      <3>1. CallDepth(t) \in Nat
        BY ThreadSound, LenProperties DEF CallDepth, Sound, FlowSet
      <3>2. Move(t, f) /\ th[t].pc = "step" /\ Step(t).op = "CALL"
        BY <1>10, <2>2 DEF Call, Called
      <3>3. Becomes(t, f) /\ f.pc = "loop"
        BY <1>10, <2>2, <3>1, <3>2, Calls DEF Call, crew
      <3>4. Calm(t, f.pc) /\ Alone
        BY <1>1, <1>10, <3>3 DEF Calm, Alone, crew, Call
      <3> QED BY <3>3, <3>4, RestStep
    <2> QED BY <2>1, <2>2
  <1> QED BY <1>4, <1>5, <1>6, <1>7, <1>8, <1>9, <1>10

\* The steps that wait, and the operator's answer to a time-out.
LEMMA WaitSteps ==
    ASSUME TInv, NEW t \in Threads, UNCHANGED <<recipe, ui, starts, offs, offMissed>>,
           BeginWait(t) \/ Held(t) \/ Poll(t) \/ Answer(t) \/ AskStopped(t)
    PROVE  \E f : StepTo(t, f)
  <1>1. offs' \in BOOLEAN
    BY DEF TInv, FlagsOK
  <1>2. ASSUME NEW q \in {"wait", "poll", "ask", "stopA"}, Move(t, Goto(th[t], q)),
               th[t].pc \in Inside, q # "stopA" => th[t].pc \in AtStep, Calm(t, q),
               UNCHANGED <<control, crew, on, extra>>
        PROVE  StepTo(t, Goto(th[t], q))
    <2>1. q \in PcValues \ {"werr", "join"} /\ (q \in AtStep => th[t].pc \in AtStep)
      BY <1>2 DEF PcValues, AtStep
    <2>2. Becomes(t, Goto(th[t], q)) /\ Goto(th[t], q).pc = q
      BY <1>2, <2>1, Goes DEF crew
    <2>3. Alone
      BY <1>1, <1>2 DEF Alone, crew
    <2> QED BY <1>2, <2>2, <2>3, RestStep
  <1>3. ASSUME Move(t, Advanced(th[t])), th[t].pc \in {"poll", "ask"},
               UNCHANGED <<control, crew, on, extra>>
        PROVE  StepTo(t, Advanced(th[t]))
    <2>1. Becomes(t, Advanced(th[t])) /\ Advanced(th[t]).pc = "loop"
      BY <1>3, Advances DEF Inside, crew
    <2>2. Calm(t, Advanced(th[t]).pc) /\ Alone
      BY <1>1, <1>3, <2>1 DEF Calm, Alone, crew
    <2> QED BY <2>1, <2>2, RestStep
  <1>4. ASSUME Move(t, Raised(th[t])), th[t].pc = "poll",
               UNCHANGED <<control, crew, on, extra>>
        PROVE  StepTo(t, Raised(th[t]))
    <2>1. Becomes(t, Raised(th[t])) /\ Raised(th[t]).pc = Broken(th[t])
      BY <1>4, Raises DEF crew
    <2>2. Calm(t, Raised(th[t]).pc) /\ Alone
      BY <1>1, <1>4, <2>1 DEF Calm, Alone, crew
    <2> QED BY <2>1, <2>2, RestStep
  <1>5. CASE BeginWait(t)
    BY <1>2, <1>5 DEF BeginWait, Calm, Inside, AtStep
  <1>6. CASE Held(t)
    BY <1>2, <1>6 DEF Held, Calm, Inside, AtStep
  <1>7. CASE Poll(t)
    <2>1. th[t].pc = "poll" /\ th[t].pc \in Inside /\ th[t].pc \in AtStep
      BY <1>7 DEF Poll, Inside, AtStep
    <2>2. CASE Step(t).op = "OUTD" /\ WriteOutput(t)
      BY <2>1, <2>2, WriteStep
    <2>3. CASE ~(Step(t).op = "OUTD" /\ WriteOutput(t))
      <3>1. Calm(t, "wait") /\ Calm(t, "ask")
        BY <2>1 DEF Calm
      <3>2. UNCHANGED <<control, crew, on, extra>>
            /\ \E f \in {Goto(th[t], "wait"), Advanced(th[t]), Goto(th[t], "ask"), Raised(th[t])} :
                  Move(t, f)
        BY <1>7, <2>3, Zenon DEF Poll
      <3> QED BY <1>2, <1>3, <1>4, <2>1, <3>1, <3>2
    <2> QED BY <2>2, <2>3
  <1>8. CASE Answer(t)
    <2>1. Calm(t, "wait") /\ Calm(t, "stopA") /\ th[t].pc \in Inside /\ th[t].pc \in AtStep
      BY <1>8 DEF Calm, Answer, Inside, AtStep
    <2> QED BY <1>2, <1>3, <1>8, <2>1 DEF Answer
  <1>9. CASE AskStopped(t)
    BY <1>2, <1>9 DEF AskStopped, Calm, Inside, AtStep
  <1> QED BY <1>5, <1>6, <1>7, <1>8, <1>9

\* stop() in a flow's own thread.
LEMMA StopSteps ==
    ASSUME TInv, NEW t \in Threads, UNCHANGED <<recipe, ui, starts, offMissed>>, FlowStop(t)
    PROVE  \E f : StepTo(t, f)
  <1>1. th[t].pc \in Inside /\ offs' \in BOOLEAN
    BY DEF FlowStop, Inside, TInv, FlagsOK
  <1>2. CASE th[t].pc = "stopA"
    <2>1. CASE IsRunning
      <3>1. Move(t, Goto(th[t], "stopB")) /\ snap' = snap
            /\ UNCHANGED <<control, cur, workers, workerErr, on, extra>>
        BY <1>2, <2>1 DEF FlowStop
      <3>2. Becomes(t, Goto(th[t], "stopB")) /\ Goto(th[t], "stopB").pc = "stopB"
        BY <1>1, <3>1, Goes DEF PcValues, AtStep
      <3>3. Calm(t, Goto(th[t], "stopB").pc) /\ Alone
        BY <1>1, <1>2, <3>1, <3>2 DEF Calm, Alone
      <3> QED BY <3>2, <3>3, RestStep
    <2>2. CASE ~IsRunning
      <3>1. MoveOn(t, Returned(th[t]))
            /\ UNCHANGED <<control, cur, workers, workerErr, on, extra>>
        BY <1>2, <2>2 DEF FlowStop
      <3>2. Becomes(t, Returned(th[t])) /\ Returned(th[t]).pc \in {"loop", Over(th[t])}
        BY <1>1, <3>1, Returns
      <3>3. Calm(t, Returned(th[t]).pc) /\ Alone
        BY <1>1, <1>2, <3>1, <3>2 DEF Calm, Alone
      <3> QED BY <3>2, <3>3, RestStep
    <2> QED BY <2>1, <2>2
  <1>3. CASE th[t].pc = "stopB"
    <2>1. Move(t, Goto(th[t], "stopC")) /\ state' = "STOPPING"
          /\ UNCHANGED <<stop, gate, lastErr, crew, on, extra, offs>>
      BY <1>3 DEF FlowStop
    <2>2. Becomes(t, Goto(th[t], "stopC")) /\ Goto(th[t], "stopC").pc = "stopC"
      BY <1>1, <2>1, Goes DEF PcValues, AtStep, crew
    <2>3. Reports(t, Goto(th[t], "stopC"))
      BY <1>3, <2>1, <2>2 DEF Reports, crew, TInv, FlagsOK
    <2> QED BY <1>1, <2>1, <2>2, <2>3 DEF StepTo, crew
  <1>4. CASE th[t].pc = "stopC"
    <2>1. stop' = TRUE /\ gate' = TRUE /\ MoveOn(t, Returned(th[t]))
          /\ extra' = (IF stop THEN extra ELSE NoExtra)
          /\ UNCHANGED <<state, lastErr, cur, workers, workerErr, on, offs>>
      BY <1>4 DEF FlowStop
    <2>2. Becomes(t, Returned(th[t])) /\ Returned(th[t]).pc \in {"loop", Over(th[t])}
      BY <1>1, <2>1, Returns
    <2>3. Stops(t, Returned(th[t]))
      BY <1>4, <2>1, <2>2 DEF Stops
    <2> QED BY <1>1, <2>1, <2>2, <2>3 DEF StepTo
  <1> QED BY <1>2, <1>3, <1>4 DEF FlowStop

\* The end of a flow: a failed worker, and _run after Main.
LEMMA EndSteps ==
    ASSUME TInv, NEW t \in Threads, UNCHANGED <<recipe, ui, starts, offs>>,
           \/ /\ \/ WorkerFails(t) \/ Join(t) \/ Check(t) \/ Complete(t) \/ Error(t)
                 \/ LastCheck(t) \/ Exit(t)
              /\ offMissed' = offMissed
           \/ OutputsOff(t)
    PROVE  \E f : StepTo(t, f)
  <1>1. offs' \in BOOLEAN
    BY DEF TInv, FlagsOK
  <1>2. ASSUME NEW q \in {"dead", "check", "err", "off", "compl", "last", "exit"},
               Move(t, Goto(th[t], q)), snap' = snap
        PROVE  Becomes(t, Goto(th[t], q)) /\ Goto(th[t], q).pc = q
    <2>1. q \in PcValues \ {"werr", "join"} /\ q \notin Inside /\ q \notin AtStep
      BY DEF PcValues, Inside, AtStep
    <2> QED BY <1>2, <2>1, Goes
  <1>3. CASE WorkerFails(t) /\ offMissed' = offMissed
    <2> DEFINE f == Goto(th[t], "dead")
    <2>1. Becomes(t, f) /\ f.pc = "dead"
      BY <1>2, <1>3 DEF WorkerFails
    <2>2. Stops(t, f)
      BY <1>3, <2>1 DEF Stops, WorkerFails, FailureStops
    <2> QED BY <1>1, <1>3, <2>1, <2>2 DEF StepTo, WorkerFails
  <1>4. CASE (Join(t) \/ Check(t) \/ Exit(t)) /\ offMissed' = offMissed
    <2>1. ASSUME NEW q \in {"dead", "check", "err", "off", "compl"}, Calm(t, q),
                 Move(t, Goto(th[t], q))
          PROVE  StepTo(t, Goto(th[t], q))
      <3>1. Alone /\ snap' = snap
        BY <1>1, <1>4 DEF Alone, Join, Check, Exit, crew
      <3>2. Becomes(t, Goto(th[t], q)) /\ Goto(th[t], q).pc = q
        BY <1>2, <2>1, <3>1
      <3> QED BY <2>1, <3>1, <3>2, RestStep
    <2>2. CASE Join(t)
      BY <2>1, <2>2 DEF Join, Calm
    <2>3. CASE Check(t)
      <3> DEFINE q == IF workerErr THEN "err" ELSE IF stop THEN "off" ELSE "compl"
      <3>1. q \in {"err", "off", "compl"} /\ (q = "compl" => ~stop)
        OBVIOUS
      <3>2. Move(t, Goto(th[t], q)) /\ th[t].pc = "check"
        BY <2>3 DEF Check
      <3> HIDE DEF q
      <3>3. Calm(t, q)
        BY <3>1, <3>2 DEF Calm
      <3> QED BY <2>1, <3>1, <3>2, <3>3
    <2>4. CASE Exit(t)
      BY <2>1, <2>4 DEF Exit, Calm
    <2> QED BY <1>4, <2>2, <2>3, <2>4
  <1>5. CASE (Complete(t) \/ Error(t)) /\ offMissed' = offMissed
    <2> DEFINE f == Goto(th[t], "off")
    <2>1. Becomes(t, f) /\ f.pc = "off"
      BY <1>2, <1>5 DEF Complete, Error, crew
    <2>2. Reports(t, f)
      BY <1>5, <2>1 DEF Reports, Complete, Error, crew, TInv, FlagsOK
    <2> QED BY <1>1, <1>5, <2>1, <2>2 DEF StepTo, Complete, Error, crew
  <1>6. CASE LastCheck(t) /\ offMissed' = offMissed
    <2> DEFINE f == Goto(th[t], "exit")
    <2>1. Becomes(t, f) /\ f.pc = "exit"
      BY <1>2, <1>6 DEF LastCheck, crew
    <2>2. Reports(t, f)
      BY <1>6, <2>1 DEF Reports, LastCheck, crew, TInv, FlagsOK
    <2> QED BY <1>1, <1>6, <2>1, <2>2 DEF StepTo, LastCheck, crew
  <1>7. CASE OutputsOff(t)
    <2> DEFINE f == Goto(th[t], "last")
    <2>1. Becomes(t, f) /\ f.pc = "last"
      BY <1>2, <1>7 DEF OutputsOff, crew
    <2>2. state' \in {state, "ERROR"} /\ lastErr' \in BOOLEAN
      BY <1>7, Zenon DEF OutputsOff, TInv, FlagsOK
    <2>3. \/ on' = SafeOff /\ offMissed' = offMissed
          \/ on' = on /\ offMissed' = TRUE
      BY <1>7, Zenon DEF OutputsOff
    <2>4. UNCHANGED <<stop, gate, workerErr, extra>> /\ th[t].pc = "off"
      BY <1>7, Zenon DEF OutputsOff, crew
    <2>5. Resets(t, f)
      BY <2>1, <2>2, <2>3, <2>4, Zenon DEF Resets
    <2> QED BY <1>1, <1>7, <2>1, <2>5 DEF StepTo, OutputsOff, crew
  <1> QED BY <1>3, <1>4, <1>5, <1>6, <1>7

\* A parallel CALL.
LEMMA ForkStep ==
    ASSUME TInv, NEW t \in Threads, UNCHANGED <<recipe, ui, starts, offs, offMissed>>,
           ParallelCall(t)
    PROVE  \E u \in Threads : \E f, g : ForkTo(t, u, f, g)
  <1>1. PICK u \in Free :
          /\ th' = [th EXCEPT
                      ![t] = Advanced(@),
                      ![u] = LET f == Flow(Step(t).seq, CallDepth(t), FALSE,
                                           th[t].run)
                             IN  IF CallDepth(t) > MaxDepth THEN Raised(f) ELSE f]
          /\ workers' = workers \cup {u}
    BY DEF ParallelCall
  <1> DEFINE n == Flow(Step(t).seq, CallDepth(t), FALSE, th[t].run)
             g == IF CallDepth(t) > MaxDepth THEN Raised(n) ELSE n
             f == Advanced(th[t])
  <1>2. u \in Threads /\ th[u].pc = "free" /\ th[t].pc = "step" /\ Step(t).op = "PCALL"
    BY DEF Free, ParallelCall
  <1>3. th' = [th EXCEPT ![t] = f, ![u] = g]
    BY <1>1
  <1>4. Sound(f) /\ f.pc = "loop" /\ f.main = th[t].main /\ f.run = th[t].run
        /\ Seqs(f) \subseteq Seqs(th[t])
    BY <1>2, ThreadSound, AdvancedSound DEF Inside
  <1>5. Step(t).seq \in DOMAIN recipe /\ th[t].run \in Nat
    BY <1>2, ThreadSound, StepValid DEF AtStep
  <1>6. CallDepth(t) \in Nat /\ CallDepth(t) <= MaxDepth + 1
    BY ThreadSound, LenProperties DEF CallDepth, Sound, FlowSet
  <1>7. Sound(g) /\ g.pc \in {"loop", "werr"} /\ g.main = FALSE /\ g.run = th[t].run
        /\ Seqs(g) \subseteq {Step(t).seq}
    <2>1. CASE CallDepth(t) > MaxDepth
      <3> DEFINE r == [pc |-> "werr", stack |-> <<>>, base |-> CallDepth(t),
                       main |-> FALSE, run |-> th[t].run]
      <3>1. g = Raised(n)
        BY <2>1
      <3>2. Raised(n) = r
        <4> DEFINE st == <<[seq |-> Step(t).seq, idx |-> 1]>>
        <4>1. n = [pc |-> "loop", stack |-> st, base |-> CallDepth(t), main |-> FALSE,
                   run |-> th[t].run]
          BY DEF Flow
        <4> HIDE DEF st, n
        <4>2. n.main = FALSE
          BY <4>1
        <4>3. Raised(n) = [n EXCEPT !.stack = <<>>, !.pc = "werr"]
          BY <4>2, Zenon DEF Raised
        <4> QED BY <4>1, <4>3
      <3>3. <<>> \in Seq(Frames) /\ Len(<<>>) = 0
        BY EmptySeq
      <3>4. r.pc = "werr" /\ r.main = FALSE /\ r.run = th[t].run
            /\ r.base = CallDepth(t) /\ r.stack = <<>>
        OBVIOUS
      <3>5. r \in FlowSet
        BY <1>5, <1>6, <3>3 DEF FlowSet, PcValues
      <3> HIDE DEF r
      <3>6. Seqs(r) = {}
        BY <3>3, <3>4 DEF Seqs
      <3>7. r.base + Len(r.stack) <= MaxDepth + 1
        BY <1>6, <3>3, <3>4
      <3>8. Sound(r)
        BY <3>4, <3>5, <3>7 DEF Sound, Inside, AtStep
      <3> QED BY <3>1, <3>2, <3>4, <3>6, <3>8
    <2>2. CASE ~(CallDepth(t) > MaxDepth)
      <3>1. CallDepth(t) \in 0 .. MaxDepth
        BY <1>6, <2>2
      <3> QED BY <1>5, <2>2, <3>1, FlowSound
    <2> QED BY <2>1, <2>2
  <1> HIDE DEF f, g
  <1>8. UNCHANGED <<recipe, control, cur, snap, workerErr, ui, starts, offs, on, extra, offMissed>>
    BY DEF ParallelCall
  <1>9. ForkTo(t, u, f, g)
    BY <1>1, <1>2, <1>3, <1>4, <1>7, <1>8 DEF ForkTo
  <1> QED BY <1>2, <1>9

\* Every step of a flow thread is of one of the kinds.
LEMMA FlowMoves ==
    ASSUME TInv, NEW t \in Threads, FlowStep(t) \/ FlowAnswer(t)
    PROVE  (\E f : StepTo(t, f)) \/ \E u \in Threads : \E f, g : ForkTo(t, u, f, g)
  <1>1. CASE FlowAnswer(t)
    BY <1>1, WaitSteps DEF FlowAnswer
  <1>2. CASE FlowStep(t)
    <2>1. UNCHANGED <<recipe, ui, starts>>
      BY <1>2, Zenon DEF FlowStep
    <2>2. CASE UNCHANGED <<offs, offMissed>> /\ (Loop(t) \/ WaitIfPaused(t) \/ End(t) \/ WaitLoop(t))
      BY <2>1, <2>2, LoopSteps
    <2>3. CASE UNCHANGED <<offs, offMissed>>
               /\ (Out(t) \/ Pos(t) \/ PosEnds(t) \/ Dat(t) \/ Comment(t) \/ Jmp(t) \/ Call(t))
      BY <2>1, <2>3, OwnSteps
    <2>4. CASE UNCHANGED <<offs, offMissed>> /\ (BeginWait(t) \/ Held(t) \/ Poll(t) \/ AskStopped(t))
      BY <2>1, <2>4, WaitSteps
    <2>5. CASE UNCHANGED <<offs, offMissed>>
               /\ (\/ WorkerFails(t) \/ Join(t) \/ Check(t) \/ Complete(t) \/ Error(t)
                   \/ LastCheck(t) \/ Exit(t))
      BY <2>1, <2>5, EndSteps
    <2>6. CASE UNCHANGED <<offs, offMissed>> /\ ParallelCall(t)
      BY <2>1, <2>6, ForkStep
    <2>7. CASE OutputsOff(t) /\ UNCHANGED offs
      BY <2>1, <2>7, EndSteps
    <2>8. CASE FlowStop(t) /\ UNCHANGED offMissed
      BY <2>1, <2>8, StopSteps
    <2> QED BY <1>2, <2>2, <2>3, <2>4, <2>5, <2>6, <2>7, <2>8, Zenon DEF FlowStep
  <1> QED BY <1>1, <1>2

---------------------------------------------------------------------------
(* The inductive invariant.                                                  *)

\* What the flags show while the UI thread is inside an operation.
Shown ==
    /\ PauseIsShown
    /\ ui = "starting" => gate
    /\ ui = "pausing" => ~gate \/ stop
    /\ ui = "resuming" => state # "PAUSED"

\* A flow that has acted since the stop or the pause is not about to act again.
Spent ==
    \A t \in Threads :
        /\ extra[t] \in 0 .. 1
        /\ extra[t] = 1 /\ stop => th[t].pc \notin {"gate", "step", "held", "poll"}
        /\ extra[t] = 1 /\ ~stop /\ ~gate => th[t].pc \notin {"step", "poll"}

\* What only _run does.
OfRun == {"join", "check", "compl", "err", "off", "last", "exit"}

\* One main flow at a time: that of the last start.
OneRun ==
    /\ \A t \in Threads :
          /\ Alive(t) /\ th[t].main => t = cur
          /\ th[t].pc \in OfRun => th[t].main
          /\ th[t].pc # "free" => th[t].run <= starts /\ (ui = "starting" => th[t].run < starts)
    /\ cur # 0 => th[cur].pc # "free" /\ th[cur].main /\ (ui # "starting" => th[cur].run = starts)
    /\ ui = "starting" => ~IsRunning

IInv == TInv /\ Shown /\ Spent /\ OneRun

---------------------------------------------------------------------------
\* A start makes a main flow in a thread that was free.
LEMMA StartMoves ==
    ASSUME TInv, Started
    PROVE  \E t \in Threads : \E f :
              /\ th[t].pc = "free" /\ cur' = t /\ th' = [th EXCEPT ![t] = f]
              /\ Sound(f) /\ f.pc = "loop" /\ f.main = TRUE /\ f.run = starts
  <1>1. PICK t \in Free : cur' = t /\ Move(t, Flow("Main", 0, TRUE, starts))
    BY DEF Started
  <1>2. "Main" \in DOMAIN recipe /\ 0 \in 0 .. MaxDepth /\ starts \in Nat
    BY RecipesAssumption DEF TInv, FlagsOK, Valid
  <1>3. TRUE \in BOOLEAN
    OBVIOUS
  <1> DEFINE f == Flow("Main", 0, TRUE, starts)
  <1>4. Sound(f)
    BY <1>2, <1>3, FlowSound, Zenon
  <1>5. f.pc = "loop" /\ f.main = TRUE /\ f.run = starts
    BY DEF Flow
  <1> HIDE DEF f
  <1> QED BY <1>1, <1>4, <1>5 DEF Free, Move, f

\* The types hold at first ...
LEMMA TypesInit == Init => TInv
  <1> SUFFICES ASSUME Init PROVE TInv
    OBVIOUS
  <1>1. <<>> \in Seq(Frames) /\ Len(<<>>) = 0
    BY EmptySeq
  <1>2. NoFlow \in FlowSet /\ NoFlow.main = FALSE /\ NoFlow.pc = "free" /\ NoFlow.base = 0
        /\ NoFlow.stack = <<>>
    BY <1>1 DEF NoFlow, FlowSet, PcValues
  <1>3. NoFlow.base + Len(NoFlow.stack) <= MaxDepth + 1
    BY <1>1, <1>2
  <1>4. Sound(NoFlow)
    BY <1>2, <1>3 DEF Sound, Inside, AtStep
  <1>5. FlagsOK
    <2>1. 0 \in 0 .. MaxStarts
      OBVIOUS
    <2> QED BY <2>1, Zenon DEF Init, FlagsOK
  <1>6. CrewOK
    BY <1>2 DEF Init, CrewOK
  <1>7. ThreadsOK
    BY <1>2, <1>4 DEF Init, ThreadsOK
  <1>8. EffectsOK
    BY DEF Init, EffectsOK, NoExtra
  <1> QED BY <1>5, <1>6, <1>7, <1>8 DEF TInv

\* ... and a step of a flow ...
LEMMA TypesStep ==
    ASSUME TInv, NEW t \in Threads, NEW f, StepTo(t, f)
    PROVE  TInv'
  <1>1. f \in FlowSet /\ Sound(f) /\ f.main = th[t].main /\ th' = [th EXCEPT ![t] = f]
        /\ th \in [Threads -> FlowSet] /\ recipe' = recipe
    BY DEF StepTo, Becomes, Sound, TInv, ThreadsOK
  <1>2. th' \in [Threads -> FlowSet] /\ th'[t] = f /\ \A u \in Threads \ {t} : th'[u] = th[u]
    BY <1>1
  <1>3. ThreadsOK'
    <2>1. FlowSet' = FlowSet
      BY <1>1 DEF FlowSet, Frames
    <2>2. \A u \in Threads : Sound(th'[u])
      BY <1>1, <1>2 DEF TInv, ThreadsOK
    <2>3. \A u \in Threads : Sound(th[u])'
      BY <1>1, <2>1, <2>2 DEF Sound, Within
    <2> QED BY <1>2, <2>1, <2>3 DEF ThreadsOK
  <1>4. FlagsOK'
    <2>1. recipe' \in Recipes /\ ui' = ui /\ starts' = starts /\ offs' \in BOOLEAN
      BY DEF StepTo, TInv, FlagsOK
    <2>2. /\ state' \in {"IDLE", "RUNNING", "PAUSED", "STOPPING", "ERROR"}
          /\ stop' \in BOOLEAN /\ gate' \in BOOLEAN
          /\ workerErr' \in BOOLEAN /\ lastErr' \in BOOLEAN /\ offMissed' \in BOOLEAN
      BY DEF StepTo, Rests, Acts, Stops, Reports, Resets, control, TInv, FlagsOK
    <2> QED BY <2>1, <2>2 DEF TInv, FlagsOK
  <1>5. CrewOK'
    <2>1. cur' = cur /\ workers' = workers /\ (snap' = snap \/ snap' = workers)
      BY DEF StepTo, Becomes
    <2>2. \A u \in Threads : th'[u].main = th[u].main
      BY <1>1, <1>2
    <2> QED BY <2>1, <2>2 DEF TInv, CrewOK
  <1>6. EffectsOK'
    <2>1. on \subseteq Outputs /\ extra \in [Threads -> Nat]
      BY DEF TInv, EffectsOK
    <2>2. on' \subseteq Outputs
      BY <2>1 DEF StepTo, Rests, Acts, Stops, Reports, Resets, SafeOff
    <2>3. NoExtra \in [Threads -> Nat] /\ [extra EXCEPT ![t] = @ + 1] \in [Threads -> Nat]
      BY <2>1 DEF NoExtra
    <2>4. extra' \in [Threads -> Nat]
      BY <2>1, <2>3 DEF StepTo, Rests, Acts, Stops, Reports, Resets, Effect
    <2> QED BY <2>2, <2>4 DEF EffectsOK
  <1> QED BY <1>3, <1>4, <1>5, <1>6 DEF TInv

\* ... a parallel CALL ...
LEMMA TypesFork ==
    ASSUME TInv, NEW t \in Threads, NEW u \in Threads, NEW f, NEW g, ForkTo(t, u, f, g)
    PROVE  TInv'
  <1>1. f \in FlowSet /\ Sound(f) /\ f.main = th[t].main /\ th' = [th EXCEPT ![t] = f, ![u] = g]
        /\ g \in FlowSet /\ Sound(g) /\ g.main = FALSE /\ t # u
        /\ th \in [Threads -> FlowSet] /\ recipe' = recipe
    BY DEF ForkTo, Sound, TInv, ThreadsOK
  <1>2. th' \in [Threads -> FlowSet] /\ th'[t] = f /\ th'[u] = g
        /\ \A v \in Threads \ {t, u} : th'[v] = th[v]
    BY <1>1
  <1>3. ThreadsOK'
    <2>1. FlowSet' = FlowSet
      BY <1>1 DEF FlowSet, Frames
    <2>2. \A v \in Threads : Sound(th'[v])
      BY <1>1, <1>2 DEF TInv, ThreadsOK
    <2>3. \A v \in Threads : Sound(th[v])'
      BY <1>1, <2>1, <2>2 DEF Sound, Within
    <2> QED BY <1>2, <2>1, <2>3 DEF ThreadsOK
  <1>4. FlagsOK'
    BY DEF ForkTo, TInv, FlagsOK, control
  <1>5. CrewOK'
    <2>1. cur' = cur /\ workers' = workers \cup {u} /\ snap' = snap
      BY DEF ForkTo
    <2>2. \A v \in Threads \ {u} : th'[v].main = th[v].main
      BY <1>1, <1>2
    <2> QED BY <1>1, <1>2, <2>1, <2>2 DEF TInv, CrewOK
  <1>6. EffectsOK'
    BY DEF ForkTo, TInv, EffectsOK
  <1> QED BY <1>3, <1>4, <1>5, <1>6 DEF TInv

\* The UI thread, when it does not start a flow.
UiElse == Paused \/ Resumed \/ StopState \/ StopEvents \/ Start \/ Pause \/ Resume \/ StopCall

\* ... an operation of the UI thread and the output reset of an idle stop keep them.
LEMMA TypesUi ==
    ASSUME TInv, Started \/ UiElse \/ IdleOff
    PROVE  TInv'
  <1>1. CASE Started
    <2>1. PICK t \in Threads : \E f :
              /\ th[t].pc = "free" /\ cur' = t /\ th' = [th EXCEPT ![t] = f]
              /\ Sound(f) /\ f.pc = "loop" /\ f.main = TRUE /\ f.run = starts
      BY <1>1, StartMoves
    <2>2. PICK f :
              /\ th[t].pc = "free" /\ cur' = t /\ th' = [th EXCEPT ![t] = f]
              /\ Sound(f) /\ f.pc = "loop" /\ f.main = TRUE /\ f.run = starts
      BY <2>1
    <2>3. f \in FlowSet /\ th \in [Threads -> FlowSet] /\ recipe' = recipe
      BY <1>1, <2>2 DEF Sound, TInv, ThreadsOK, Started
    <2>4. th' \in [Threads -> FlowSet] /\ th'[t] = f /\ \A u \in Threads \ {t} : th'[u] = th[u]
      BY <2>2, <2>3
    <2>5. ThreadsOK'
      <3>1. FlowSet' = FlowSet
        BY <2>3 DEF FlowSet, Frames
      <3>2. \A u \in Threads : Sound(th'[u])
        BY <2>2, <2>4 DEF TInv, ThreadsOK
      <3>3. \A u \in Threads : Sound(th[u])'
        BY <2>3, <3>1, <3>2 DEF Sound, Within
      <3> QED BY <2>4, <3>1, <3>3 DEF ThreadsOK
    <2>6. FlagsOK'
      BY <1>1 DEF Started, TInv, FlagsOK
    <2>7. CrewOK'
      BY <1>1, <2>2 DEF Started, TInv, CrewOK
    <2>8. EffectsOK'
      BY <1>1 DEF Started, TInv, EffectsOK
    <2> QED BY <2>5, <2>6, <2>7, <2>8 DEF TInv
  <1>2. CASE UiElse \/ IdleOff
    <2>1. UNCHANGED <<recipe, cur, workers, snap, th>>
      BY <1>2 DEF UiElse, Paused, Resumed, StopState, StopEvents, Start, Pause, Resume, StopCall,
         IdleOff, crew
    <2>2. ThreadsOK' /\ CrewOK'
      <3>1. FlowSet' = FlowSet
        BY <2>1 DEF FlowSet, Frames
      <3>2. \A u \in Threads : Sound(th[u])'
        BY <2>1, <3>1 DEF Sound, Within, TInv, ThreadsOK
      <3> QED BY <2>1, <3>1, <3>2 DEF TInv, ThreadsOK, CrewOK
    <2>3. FlagsOK'
      <3>1. starts' \in 0 .. MaxStarts
        BY <1>2 DEF UiElse, Paused, Resumed, StopState, StopEvents, Start, Pause, Resume, StopCall,
           IdleOff, TInv, FlagsOK
      <3>2. workerErr' = workerErr /\ lastErr' = lastErr /\ offMissed' = offMissed /\ recipe' = recipe
        BY <1>2, Zenon DEF UiElse, Paused, Resumed, StopState, StopEvents, Start, Pause, Resume,
           StopCall, IdleOff, crew, control
      <3>3. stop' \in {stop, TRUE, FALSE} /\ gate' \in {gate, TRUE, FALSE}
            /\ offs' \in {offs, TRUE, FALSE}
        BY <1>2, Zenon DEF UiElse, Paused, Resumed, StopState, StopEvents, Start, Pause, Resume,
           StopCall, IdleOff, control, GateOpens
      <3>4. state' \in {state, "PAUSED", "RUNNING", "STOPPING"}
            /\ ui' \in {ui, "idle", "starting", "pausing", "resuming", "stop1", "stop2"}
        BY <1>2, Zenon DEF UiElse, Paused, Resumed, StopState, StopEvents, Start, Pause, Resume,
           StopCall, IdleOff, control
      <3>5. stop' \in BOOLEAN /\ gate' \in BOOLEAN /\ offs' \in BOOLEAN
        BY <3>3, Zenon DEF TInv, FlagsOK
      <3>6. state' \in {"IDLE", "RUNNING", "PAUSED", "STOPPING", "ERROR"}
            /\ ui' \in {"idle", "starting", "pausing", "resuming", "stop1", "stop2"}
        BY <3>4 DEF TInv, FlagsOK
      <3> QED BY <3>1, <3>2, <3>5, <3>6, Zenon DEF TInv, FlagsOK
    <2>4. EffectsOK'
      <3>1. NoExtra \in [Threads -> Nat]
        BY DEF NoExtra
      <3>2. extra' \in {extra, NoExtra} /\ on' \in {on, SafeOff}
        BY <1>2 DEF UiElse, Paused, Resumed, StopState, StopEvents, Start, Pause, Resume, StopCall,
           IdleOff
      <3> QED BY <3>1, <3>2 DEF EffectsOK, TInv, SafeOff
    <2> QED BY <2>2, <2>3, <2>4 DEF TInv
  <1> QED BY <1>1, <1>2

---------------------------------------------------------------------------
\* A step of a flow leaves what the flags show true: it never sets RUNNING or PAUSED,
\* never closes the gate, and opens it only with the stop event.
LEMMA ShownFlow ==
    ASSUME TInv, Shown, UNCHANGED ui,
           state' \in {state, "IDLE", "ERROR", "STOPPING"},
           \/ UNCHANGED <<stop, gate>>
           \/ stop' = TRUE /\ gate' \in {gate, TRUE}
    PROVE  Shown'
  <1>1. stop \in BOOLEAN /\ gate \in BOOLEAN
    BY DEF TInv, FlagsOK
  <1>2. (state' = "RUNNING" => state = "RUNNING") /\ (state' = "PAUSED" => state = "PAUSED")
    OBVIOUS
  <1>3. (gate => gate') /\ (~gate \/ stop => ~gate' \/ stop')
    <2>1. CASE UNCHANGED <<stop, gate>>
      BY <2>1
    <2>2. CASE stop' = TRUE /\ gate' = gate
      BY <2>2
    <2>3. CASE stop' = TRUE /\ gate' = TRUE
      BY <2>3
    <2> QED BY <2>1, <2>2, <2>3
  <1> QED BY <1>2, <1>3, Zenon DEF Shown, PauseIsShown

\* So does the UI thread.
LEMMA ShownUi ==
    ASSUME TInv, Shown, Started \/ UiElse \/ IdleOff
    PROVE  Shown'
  <1>1. stop \in BOOLEAN /\ gate \in BOOLEAN
    BY DEF TInv, FlagsOK
  <1>2. CASE Started
    BY <1>1, <1>2 DEF Started, Shown, PauseIsShown
  <1>3. CASE Paused
    BY <1>1, <1>3 DEF Paused, Shown, PauseIsShown
  <1>4. CASE Resumed
    BY <1>1, <1>4 DEF Resumed, Shown, PauseIsShown
  <1>5. CASE StopState
    BY <1>1, <1>5 DEF StopState, Shown, PauseIsShown
  <1>6. CASE StopEvents
    BY <1>1, <1>6 DEF StopEvents, Shown, PauseIsShown
  <1>7. CASE Start
    BY <1>1, <1>7 DEF Start, GateOpens, Shown, PauseIsShown
  <1>8. CASE Pause
    BY <1>1, <1>8 DEF Pause, Shown, PauseIsShown
  <1>9. CASE Resume
    BY <1>1, <1>9 DEF Resume, Shown, PauseIsShown
  <1>10. CASE StopCall
    BY <1>1, <1>10 DEF StopCall, control, Shown, PauseIsShown
  <1>11. CASE IdleOff
    BY <1>1, <1>11 DEF IdleOff, control, Shown, PauseIsShown
  <1> QED BY <1>2, <1>3, <1>4, <1>5, <1>6, <1>7, <1>8, <1>9, <1>10, <1>11 DEF UiElse

---------------------------------------------------------------------------
\* When the counts start again, no flow is spent.
LEMMA NoneSpent == extra' = NoExtra => Spent'
  BY DEF Spent, NoExtra

\* What a flow does after it has acted: it reaches no further step.
LEMMA SpentFlow ==
    ASSUME TInv, Spent, NEW t \in Threads, NEW f, StepTo(t, f)
    PROVE  Spent'
  <1>1. th \in [Threads -> FlowSet] /\ f \in FlowSet /\ th' = [th EXCEPT ![t] = f]
        /\ stop \in BOOLEAN /\ gate \in BOOLEAN /\ extra \in [Threads -> Nat]
    BY DEF StepTo, Becomes, Sound, TInv, ThreadsOK, FlagsOK, EffectsOK
  <1>2. th'[t] = f /\ \A u \in Threads \ {t} : th'[u] = th[u]
    BY <1>1
  <1>3. CASE Rests(t, f)
    <2>1. UNCHANGED <<stop, gate, extra>> /\ Calm(t, f.pc)
      BY <1>3 DEF Rests, control
    <2>2. extra[t] = 1 /\ stop => f.pc \notin {"gate", "step", "held", "poll"}
      BY <1>1, <2>1 DEF Spent, Calm, Over, Broken
    <2>3. extra[t] = 1 /\ ~stop /\ ~gate => f.pc \notin {"step", "poll"}
      BY <1>1, <2>1 DEF Spent, Calm, Over, Broken, Passes
    <2> QED BY <1>2, <2>1, <2>2, <2>3 DEF Spent
  <1>4. CASE Acts(t, f)
    <2>1. UNCHANGED <<stop, gate>> /\ f.pc \in {"loop", "move"} /\ th[t].pc \in {"step", "poll"}
          /\ extra' = (IF stop \/ ~gate THEN [extra EXCEPT ![t] = @ + 1] ELSE extra)
      BY <1>4 DEF Acts, control, Effect
    <2>2. extra[t] \in 0 .. 1 /\ (stop \/ ~gate => extra[t] = 0)
      BY <1>1, <2>1 DEF Spent
    <2>3. \A u \in Threads \ {t} : extra'[u] = extra[u]
      BY <1>1, <2>1
    <2>4. extra'[t] \in 0 .. 1
      BY <1>1, <2>1, <2>2
    <2> QED BY <1>2, <2>1, <2>3, <2>4 DEF Spent
  <1>5. CASE Stops(t, f)
    <2>1. CASE stop
      <3>1. stop' = TRUE /\ extra' = extra /\ f.pc \in {"loop", "join", "dead"}
        BY <1>5, <2>1 DEF Stops, Over
      <3> QED BY <1>2, <2>1, <3>1 DEF Spent
    <2>2. CASE ~stop
      BY <1>5, <2>2, NoneSpent DEF Stops
    <2> QED BY <1>1, <2>1, <2>2
  <1>6. CASE Reports(t, f) \/ Resets(t, f)
    <2>1. UNCHANGED <<stop, gate, extra>> /\ f.pc \in {"off", "exit", "stopC", "last"}
      BY <1>6 DEF Reports, Resets
    <2> QED BY <1>2, <2>1 DEF Spent
  <1> QED BY <1>3, <1>4, <1>5, <1>6 DEF StepTo

\* A parallel CALL acts on nothing, and its flows are before their next steps.
LEMMA SpentFork ==
    ASSUME TInv, Spent, NEW t \in Threads, NEW u \in Threads, NEW f, NEW g, ForkTo(t, u, f, g)
    PROVE  Spent'
  <1>1. th \in [Threads -> FlowSet] /\ th' = [th EXCEPT ![t] = f, ![u] = g] /\ t # u
        /\ f.pc = "loop" /\ g.pc \in {"loop", "werr"} /\ UNCHANGED <<stop, gate, extra>>
    BY DEF ForkTo, TInv, ThreadsOK, control
  <1>2. th'[t] = f /\ th'[u] = g /\ \A v \in Threads \ {t, u} : th'[v] = th[v]
    BY <1>1
  <1> QED BY <1>1, <1>2 DEF Spent

\* A pause or a stop that takes hold begins a new count.
LEMMA SpentUi ==
    ASSUME TInv, Spent, Started \/ UiElse \/ IdleOff
    PROVE  Spent'
  <1>1. stop \in BOOLEAN /\ gate \in BOOLEAN
    BY DEF TInv, FlagsOK
  <1>2. CASE Started
    <2>1. PICK t \in Threads : \E f : th' = [th EXCEPT ![t] = f] /\ f.pc = "loop"
      BY <1>2, StartMoves
    <2>2. PICK f : th' = [th EXCEPT ![t] = f] /\ f.pc = "loop"
      BY <2>1
    <2>3. th'[t] = f /\ \A u \in Threads \ {t} : th'[u] = th[u]
      BY <2>2 DEF TInv, ThreadsOK
    <2>4. UNCHANGED <<stop, gate, extra>>
      BY <1>2 DEF Started
    <2> QED BY <2>2, <2>3, <2>4 DEF Spent
  <1>3. CASE Pause \/ StopEvents
    <2>1. th' = th
      BY <1>3 DEF Pause, StopEvents
    <2>2. CASE stop
      <3>1. stop' = stop /\ extra' = extra
        BY <1>3, <2>2 DEF Pause, StopEvents
      <3> QED BY <2>1, <2>2, <3>1 DEF Spent
    <2>3. CASE ~stop
      <3>1. extra' = NoExtra
        BY <1>3, <2>3 DEF Pause, StopEvents
      <3> QED BY <3>1, NoneSpent
    <2> QED BY <2>2, <2>3
  <1>4. CASE Start
    BY <1>4, NoneSpent DEF Start
  <1>5. CASE Resumed
    <2>1. th' = th /\ gate' = TRUE /\ stop' = stop /\ extra' = extra
      BY <1>5 DEF Resumed
    <2> QED BY <2>1 DEF Spent
  <1>6. CASE Paused \/ StopState \/ Resume \/ StopCall \/ IdleOff
    <2>1. UNCHANGED <<th, stop, gate, extra>>
      BY <1>6 DEF Paused, StopState, Resume, StopCall, IdleOff, control
    <2> QED BY <2>1 DEF Spent
  <1> QED BY <1>2, <1>3, <1>4, <1>5, <1>6 DEF UiElse

---------------------------------------------------------------------------
\* A flow that moves is alive, and keeps being the flow of its run.
LEMMA OneRunFlow ==
    ASSUME TInv, OneRun, NEW t \in Threads, NEW f, StepTo(t, f)
    PROVE  OneRun'
  <1>1. th \in [Threads -> FlowSet] /\ f \in FlowSet /\ th' = [th EXCEPT ![t] = f]
        /\ f.main = th[t].main /\ f.run = th[t].run /\ UNCHANGED <<ui, starts, cur>>
        /\ cur \in Threads \cup {0}
    BY DEF StepTo, Becomes, Sound, TInv, ThreadsOK, CrewOK
  <1>2. th'[t] = f /\ \A u \in Threads \ {t} : th'[u] = th[u]
    BY <1>1
  <1>3. Alive(t) /\ f.pc # "free"
    BY DEF StepTo, Rests, Calm, Acts, Stops, Reports, Resets, Over, Broken, Alive
  <1>4. f.pc \in OfRun => f.main
    <2>1. th[t].pc \in OfRun => th[t].main
      BY DEF OneRun
    <2>2. f.pc \in OfRun => th[t].pc \in OfRun \/ th[t].main
      BY DEF StepTo, Rests, Calm, Acts, Stops, Reports, Resets, Over, Broken, OfRun
    <2> QED BY <1>1, <2>1, <2>2
  <1>5. \A u \in Threads : Alive(u)' => Alive(u)
    BY <1>2, <1>3 DEF Alive
  <1>6. \A u \in Threads : th'[u].main = th[u].main /\ th'[u].run = th[u].run
                           /\ (th'[u].pc = "free" <=> th[u].pc = "free")
    BY <1>1, <1>2, <1>3 DEF Alive
  <1>7. \A u \in Threads : th'[u].pc \in OfRun => th[u].main
    BY <1>1, <1>2, <1>4 DEF OneRun
  <1>8. IsRunning' => IsRunning
    BY <1>1, <1>5 DEF IsRunning
  <1> QED BY <1>1, <1>5, <1>6, <1>7, <1>8, Zenon DEF OneRun

\* A parallel CALL makes a flow that is not the main one.
LEMMA OneRunFork ==
    ASSUME TInv, OneRun, NEW t \in Threads, NEW u \in Threads, NEW f, NEW g, ForkTo(t, u, f, g)
    PROVE  OneRun'
  <1>1. th \in [Threads -> FlowSet] /\ th' = [th EXCEPT ![t] = f, ![u] = g] /\ t # u
        /\ f.pc = "loop" /\ g.pc \in {"loop", "werr"} /\ UNCHANGED <<ui, starts, cur>>
        /\ f.main = th[t].main /\ f.run = th[t].run /\ g.main = FALSE /\ g.run = th[t].run
        /\ th[u].pc = "free" /\ th[t].pc = "step" /\ cur \in Threads \cup {0}
    BY DEF ForkTo, TInv, ThreadsOK, CrewOK
  <1>2. th'[t] = f /\ th'[u] = g /\ \A v \in Threads \ {t, u} : th'[v] = th[v]
    BY <1>1
  <1>3. u # cur
    BY <1>1 DEF OneRun, Threads
  <1>4. \A v \in Threads \ {u} : (Alive(v)' => Alive(v)) /\ th'[v].main = th[v].main
            /\ th'[v].run = th[v].run /\ (th'[v].pc = "free" <=> th[v].pc = "free")
            /\ (th'[v].pc \in OfRun => th[v].pc \in OfRun)
    BY <1>1, <1>2 DEF Alive, OfRun
  <1>5. IsRunning' => IsRunning
    BY <1>1, <1>3, <1>4 DEF IsRunning
  <1>6. \A v \in Threads :
          /\ Alive(v)' /\ th'[v].main => v = cur
          /\ th'[v].pc \in OfRun => th'[v].main
          /\ th'[v].pc # "free" => th'[v].run <= starts /\ (ui = "starting" => th'[v].run < starts)
    <2> SUFFICES ASSUME NEW v \in Threads
                 PROVE  /\ Alive(v)' /\ th'[v].main => v = cur
                        /\ th'[v].pc \in OfRun => th'[v].main
                        /\ th'[v].pc # "free" =>
                              th'[v].run <= starts /\ (ui = "starting" => th'[v].run < starts)
      OBVIOUS
    <2>1. CASE v = u
      BY <1>1, <1>2, <2>1 DEF OneRun, OfRun
    <2>2. CASE v # u
      BY <1>4, <2>2, Zenon DEF OneRun
    <2> QED BY <2>1, <2>2
  <1> QED BY <1>1, <1>3, <1>4, <1>5, <1>6 DEF OneRun

\* A start finds no main flow alive, and numbers its flow as the last run.
LEMMA OneRunUi ==
    ASSUME TInv, OneRun, Started \/ UiElse \/ IdleOff
    PROVE  OneRun'
  <1>0. cur \in Threads \cup {0} /\ starts \in Nat
        /\ \A v \in Threads : th[v].run \in Nat
    BY ThreadSound DEF TInv, CrewOK, FlagsOK
  <1>1. CASE Started
    <2>1. PICK t \in Threads : \E f : th[t].pc = "free" /\ cur' = t /\ th' = [th EXCEPT ![t] = f]
                                      /\ f.pc = "loop" /\ f.main = TRUE /\ f.run = starts
      BY <1>1, StartMoves
    <2>2. PICK f : th[t].pc = "free" /\ cur' = t /\ th' = [th EXCEPT ![t] = f]
                   /\ f.pc = "loop" /\ f.main = TRUE /\ f.run = starts
      BY <2>1
    <2>3. th'[t] = f /\ \A u \in Threads \ {t} : th'[u] = th[u]
      BY <2>2 DEF TInv, ThreadsOK
    <2>4. ui = "starting" /\ ui' = "idle" /\ starts' = starts
      BY <1>1 DEF Started
    <2>5. \A u \in Threads : ~(Alive(u) /\ th[u].main)
      BY <2>4 DEF OneRun, IsRunning, Threads
    <2>6. \A u \in Threads \ {t} : (Alive(u)' => Alive(u)) /\ th'[u].main = th[u].main
      BY <2>3 DEF Alive
    <2>7. \A u \in Threads :
          /\ Alive(u)' /\ th'[u].main => u = t
          /\ th'[u].pc \in OfRun => th'[u].main
          /\ th'[u].pc # "free" => th'[u].run <= starts
      <3> SUFFICES ASSUME NEW u \in Threads
                   PROVE  /\ Alive(u)' /\ th'[u].main => u = t
                          /\ th'[u].pc \in OfRun => th'[u].main
                          /\ th'[u].pc # "free" => th'[u].run <= starts
        OBVIOUS
      <3>1. CASE u = t
        BY <1>0, <2>2, <2>3, <3>1 DEF OfRun
      <3>2. CASE u # t
        BY <2>3, <2>5, <2>6, <3>2, Zenon DEF OneRun
      <3> QED BY <3>1, <3>2
    <2> QED BY <1>0, <2>2, <2>3, <2>4, <2>7 DEF OneRun
  <1>2. CASE Start
    <2>1. UNCHANGED <<th, cur>> /\ ui' = "starting" /\ starts' = starts + 1 /\ ~IsRunning
      BY <1>2 DEF Start, crew
    <2>2. ~IsRunning'
      BY <2>1 DEF IsRunning, Alive
    <2>3. \A v \in Threads : th[v].pc # "free" => th[v].run <= starts + 1 /\ th[v].run < starts + 1
      BY <1>0 DEF OneRun
    <2> QED BY <2>1, <2>2, <2>3 DEF OneRun, Alive
  <1>3. CASE Paused \/ Resumed \/ StopState \/ StopEvents \/ Pause \/ Resume \/ StopCall \/ IdleOff
    <2>1. UNCHANGED <<th, cur, starts>> /\ (ui' = ui \/ (ui # "starting" /\ ui' # "starting"))
      BY <1>3 DEF Paused, Resumed, StopState, StopEvents, Pause, Resume, StopCall, IdleOff, crew
    <2>2. IsRunning' <=> IsRunning
      BY <2>1 DEF IsRunning, Alive
    <2> QED BY <2>1, <2>2 DEF OneRun, Alive
  <1> QED BY <1>1, <1>2, <1>3 DEF UiElse

---------------------------------------------------------------------------
\* A step of the specification is one of a flow, of the UI thread, or the output reset.
LEMMA NextCases ==
    ASSUME TInv, Next
    PROVE  \/ \E t \in Threads : \E f : StepTo(t, f)
           \/ \E t \in Threads : \E u \in Threads : \E f, g : ForkTo(t, u, f, g)
           \/ Started \/ UiElse \/ IdleOff
  <1>1. CASE \E t \in Threads : FlowStep(t) \/ FlowAnswer(t)
    BY <1>1, FlowMoves
  <1>2. CASE ~(\E t \in Threads : FlowStep(t) \/ FlowAnswer(t))
    BY <1>2, Zenon DEF Next, UiStep, UiElse
  <1> QED BY <1>1, <1>2

\* The invariant is inductive.
LEMMA InvInit == Init => IInv
  <1> SUFFICES ASSUME Init PROVE IInv
    OBVIOUS
  <1>1. Shown
    BY DEF Init, Shown, PauseIsShown
  <1>2. Spent
    BY DEF Init, Spent, NoExtra
  <1>3. OneRun
    BY DEF Init, OneRun, NoFlow, Alive, OfRun
  <1> QED BY <1>1, <1>2, <1>3, TypesInit DEF IInv

\* Each kind of step keeps each part of it.
LEMMA InvNext == IInv /\ [Next]_vars => IInv'
  <1> SUFFICES ASSUME IInv, [Next]_vars PROVE IInv'
    OBVIOUS
  <1>1. TInv /\ Shown /\ Spent /\ OneRun
    BY DEF IInv
  <1>2. ASSUME NEW t \in Threads, NEW f, StepTo(t, f)
        PROVE  IInv'
    <2>1. UNCHANGED ui /\ state' \in {state, "IDLE", "ERROR", "STOPPING"}
          /\ (UNCHANGED <<stop, gate>> \/ (stop' = TRUE /\ gate' \in {gate, TRUE}))
      BY <1>2 DEF StepTo, Rests, Acts, Stops, Reports, Resets, control
    <2> QED BY <1>1, <1>2, <2>1, TypesStep, ShownFlow, SpentFlow, OneRunFlow DEF IInv
  <1>3. ASSUME NEW t \in Threads, NEW u \in Threads, NEW f, NEW g, ForkTo(t, u, f, g)
        PROVE  IInv'
    <2>1. UNCHANGED <<ui, state, stop, gate>>
      BY <1>3 DEF ForkTo, control
    <2> QED BY <1>1, <1>3, <2>1, TypesFork, ShownFlow, SpentFork, OneRunFork DEF IInv
  <1>4. CASE Started \/ UiElse \/ IdleOff
    BY <1>1, <1>4, TypesUi, ShownUi, SpentUi, OneRunUi DEF IInv
  <1>5. CASE UNCHANGED vars
    <2>1. UNCHANGED <<recipe, state, stop, gate, lastErr, cur, workers, snap, workerErr, th, ui,
                      starts, offs, on, extra, offMissed>>
      BY <1>5 DEF vars, control, crew
    <2>2. FlagsOK' /\ CrewOK' /\ EffectsOK'
      BY <1>1, <2>1 DEF TInv, FlagsOK, CrewOK, EffectsOK
    <2>3. ThreadsOK'
      <3>1. FlowSet' = FlowSet
        BY <2>1 DEF FlowSet, Frames
      <3>2. \A u \in Threads : Sound(th[u])'
        BY <1>1, <2>1, <3>1 DEF Sound, Within, TInv, ThreadsOK
      <3> QED BY <1>1, <2>1, <3>1, <3>2 DEF TInv, ThreadsOK
    <2>4. Shown'
      BY <1>1, <2>1, ShownFlow
    <2>5. Spent'
      BY <1>1, <2>1 DEF Spent
    <2>6. OneRun'
      BY <1>1, <2>1 DEF OneRun, Alive, IsRunning
    <2> QED BY <2>2, <2>3, <2>4, <2>5, <2>6 DEF IInv, TInv
  <1> QED BY <1>1, <1>2, <1>3, <1>4, <1>5, NextCases

\* So it holds in every state.
LEMMA InvSpec == Spec => []IInv
  BY InvInit, InvNext, PTL DEF Spec

\* The executor's flags describe its threads: whatever the order in which the UI thread and
\* the flows read and write them without a lock, RUNNING means that the gate is open, PAUSED
\* that it is closed or the run is being stopped, and no flow nests CALLs deeper than the limit.
THEOREM ExecutorInvariant == Spec => []ExecutorInv
  <1>1. IInv => ExecutorInv
    <2> SUFFICES ASSUME IInv PROVE ExecutorInv
      OBVIOUS
    <2>1. FlagsOK /\ CrewOK /\ ThreadsOK /\ EffectsOK /\ PauseIsShown
      BY DEF IInv, TInv, Shown
    <2>2. \A t \in Threads : th[t].pc \in PcValues /\ th[t].base + Len(th[t].stack) <= MaxDepth + 1
      BY <2>1 DEF ThreadsOK, Sound, FlowSet
    <2>3. TypeOK
      BY <2>1, <2>2, Zenon DEF TypeOK, FlagsOK, CrewOK, EffectsOK
    <2> QED BY <2>1, <2>3 DEF ExecutorInv
  <1> QED BY <1>1, InvSpec, PTL

\* A flow acts on the machine at most once more after a stop or a pause has taken hold: with
\* the step it had begun, or was held before (step_executor.py 276-280 and 634-637).
THEOREM OneMoreEffect == Spec => []AtMostOneMoreEffect
  <1>1. IInv => AtMostOneMoreEffect
    BY DEF IInv, Spent, AtMostOneMoreEffect
  <1> QED BY <1>1, InvSpec, PTL

---------------------------------------------------------------------------
(* Recipes without parallel CALLs.                                           *)

\* The run that is over has switched its outputs off, unless that failed.
SequentialInv ==
    Sequential =>
        /\ \A t \in Threads : th[t].pc = "free" \/ th[t].main
        /\ cur # 0 /\ th[cur].pc \in {"last", "exit", "dead"} /\ ~offMissed =>
              on \cap ResetOutputs = {}

\* A step at which a flow is, is one of the recipe.
LEMMA StepOfRecipe ==
    ASSUME TInv, NEW t \in Threads, th[t].pc \in AtStep
    PROVE  \E s \in DOMAIN recipe : \E i \in DOMAIN recipe[s] :
              Step(t) = recipe[s][i] /\ s \in Seqs(th[t])
  <1> DEFINE s == th[t].stack[1].seq
  <1>1. Sound(th[t]) /\ Within(th[t]) /\ Len(th[t].stack) > 0
    BY ThreadSound
  <1>2. s \in DOMAIN recipe /\ th[t].stack[1].idx \in DOMAIN recipe[s]
    BY <1>1, TopFrame DEF Within
  <1>3. 1 \in 1 .. Len(th[t].stack)
    BY <1>1, TopFrame
  <1>4. s \in Seqs(th[t])
    BY <1>3 DEF Seqs
  <1> QED BY <1>2, <1>4 DEF Step, Steps, Top

\* No step changes the recipe.
LEMMA RecipeFixed == TInv /\ [Next]_vars => recipe' = recipe
  BY NextCases DEF StepTo, ForkTo, Started, UiElse, Paused, Resumed, StopState, StopEvents,
     Start, Pause, Resume, StopCall, IdleOff, vars

\* Under Sequential the only flow that is not over is the main one of the last start.
LEMMA SequentialNext == IInv /\ SequentialInv /\ [Next]_vars => SequentialInv'
  <1> SUFFICES ASSUME IInv, SequentialInv, [Next]_vars, Sequential'
               PROVE  /\ \A t \in Threads : th'[t].pc = "free" \/ th'[t].main
                      /\ cur' # 0 /\ th'[cur'].pc \in {"last", "exit", "dead"} /\ ~offMissed' =>
                            on' \cap ResetOutputs = {}
    BY DEF SequentialInv
  <1>1. TInv /\ OneRun /\ th \in [Threads -> FlowSet] /\ cur \in Threads \cup {0}
    BY DEF IInv, TInv, ThreadsOK, CrewOK
  <1>2. recipe' = recipe
    BY <1>1, RecipeFixed
  <1>3. \A t \in Threads : th[t].pc = "free" \/ th[t].main
    BY <1>2 DEF SequentialInv, Sequential
  <1>4. Sequential /\ (cur # 0 /\ th[cur].pc \in {"last", "exit", "dead"} /\ ~offMissed =>
                          on \cap ResetOutputs = {})
    BY <1>2 DEF SequentialInv, Sequential
  <1>5. ASSUME NEW t \in Threads, NEW f, StepTo(t, f)
        PROVE  /\ \A u \in Threads : th'[u].pc = "free" \/ th'[u].main
               /\ cur' # 0 /\ th'[cur'].pc \in {"last", "exit", "dead"} /\ ~offMissed' =>
                     on' \cap ResetOutputs = {}
    <2>1. f.main = th[t].main /\ th' = [th EXCEPT ![t] = f] /\ cur' = cur
      BY <1>5 DEF StepTo, Becomes
    <2>2. th'[t] = f /\ \A u \in Threads \ {t} : th'[u] = th[u]
      BY <1>1, <2>1
    <2>3. Alive(t) /\ th[t].pc # "free"
      BY <1>5 DEF StepTo, Rests, Calm, Acts, Stops, Reports, Resets, Over, Broken, Alive
    <2>4. th[t].main /\ t = cur /\ th[t].pc # "werr"
      BY <1>1, <1>3, <2>3, ThreadSound DEF OneRun, Sound
    <2>5. \/ Rests(t, f) /\ (f.pc \in {"last", "exit", "dead"} => th[t].pc = "exit")
          \/ Acts(t, f) /\ f.pc \notin {"last", "exit", "dead"}
          \/ Stops(t, f) /\ f.pc \notin {"last", "exit", "dead"}
          \/ Reports(t, f) /\ (f.pc \in {"last", "exit", "dead"} => th[t].pc = "last")
          \/ Resets(t, f)
      BY <1>5, <2>4 DEF StepTo, Rests, Calm, Acts, Stops, Reports, Over, Broken
    <2>6. f.pc \in {"last", "exit", "dead"} /\ ~offMissed' => on' \cap ResetOutputs = {}
      <3>1. CASE Resets(t, f)
        <4>1. CASE on' = SafeOff
          BY <4>1 DEF SafeOff
        <4>2. CASE offMissed' = TRUE
          BY <4>2
        <4> QED BY <3>1, <4>1, <4>2 DEF Resets
      <3>2. CASE f.pc \in {"last", "exit", "dead"} /\ ~Resets(t, f)
        <4>1. th[t].pc \in {"exit", "last"} /\ on' = on /\ offMissed' = offMissed
          BY <2>5, <3>2 DEF Rests, Reports
        <4> QED BY <1>1, <1>4, <2>4, <4>1 DEF Threads
      <3> QED BY <3>1, <3>2
    <2> QED BY <1>3, <2>1, <2>2, <2>4, <2>6
  <1>6. ASSUME NEW t \in Threads, NEW u \in Threads, NEW f, NEW g, ForkTo(t, u, f, g)
        PROVE  FALSE
    <2>1. th[t].pc \in AtStep /\ Step(t).op = "PCALL"
      BY <1>6 DEF ForkTo, AtStep
    <2> QED BY <1>1, <1>4, <2>1, StepOfRecipe DEF Sequential
  <1>7. CASE Started
    <2>1. PICK t \in Threads : \E f : cur' = t /\ th' = [th EXCEPT ![t] = f]
                                      /\ f.pc = "loop" /\ f.main = TRUE
      BY <1>1, <1>7, StartMoves
    <2>2. PICK f : cur' = t /\ th' = [th EXCEPT ![t] = f] /\ f.pc = "loop" /\ f.main = TRUE
      BY <2>1
    <2>3. th'[t] = f /\ \A u \in Threads \ {t} : th'[u] = th[u]
      BY <1>1, <2>2
    <2> QED BY <1>3, <2>2, <2>3
  <1>8. CASE UiElse \/ IdleOff \/ UNCHANGED vars
    <2>1. UNCHANGED <<th, cur, offMissed>> /\ on' \in {on, SafeOff}
      BY <1>8 DEF UiElse, Paused, Resumed, StopState, StopEvents, Start, Pause, Resume, StopCall,
         IdleOff, crew, vars
    <2> QED BY <1>3, <1>4, <2>1 DEF SafeOff
  <1> QED BY <1>1, <1>5, <1>6, <1>7, <1>8, NextCases

\* However a run ends, by its last step, a failure or a stop, the outputs with stop policy RESET
\* are off from then on, in every recipe without parallel CALLs, unless the reset itself failed
\* or found no connection to the PLC, in which case it does nothing.
THEOREM SequentialRunsEndOff == Spec => []SequentialOutputsOff
  <1>1. Init => SequentialInv
    BY DEF Init, SequentialInv, NoFlow
  <1>2. IInv /\ SequentialInv => SequentialOutputsOff
    <2> SUFFICES ASSUME SequentialInv, Sequential, RunIsOver, ~offMissed, IInv
                 PROVE  on \cap ResetOutputs = {}
      BY DEF SequentialOutputsOff, OutputsOffAfterRun
    <2>1. cur # 0 /\ th[cur].pc # "free" /\ th[cur].pc \in {"free", "dead"}
      BY DEF RunIsOver, Alive, IInv, OneRun
    <2> QED BY <2>1 DEF SequentialInv
  <1> QED BY <1>1, <1>2, InvSpec, SequentialNext, PTL DEF Spec

---------------------------------------------------------------------------
(* Recipes whose parallel sequences make no parallel CALLs of their own.     *)

\* Sequences that hold all the parallel ones with what they CALL.
Beside(r, side) ==
    \A s \in DOMAIN r : \A i \in DOMAIN r[s] :
        /\ r[s][i].op = "PCALL" => r[s][i].seq \in side
        /\ s \in side => r[s][i].op # "PCALL" /\ (r[s][i].op = "CALL" => r[s][i].seq \in side)

Flat(r) == \E side \in SUBSET DOMAIN r : Beside(r, side)

Side == CHOOSE side \in SUBSET DOMAIN recipe : Beside(recipe, side)

\* The main flow of the last run knows all its workers once it is over.
JoinInv ==
    /\ \A t \in Threads :
          /\ ~th[t].main => Seqs(th[t]) \subseteq Side
          /\ th[t].pc # "free" /\ ~th[t].main /\ th[t].run = starts => t \in workers
    /\ \A w \in workers : th[w].pc # "free"
    /\ cur # 0 /\ th[cur].pc \in {"join", "check", "compl"} => snap = workers
    /\ cur # 0 /\ (th[cur].pc = "compl" \/ (th[cur].pc = "check" /\ ~stop)) =>
          \A w \in snap : ~Alive(w)

\* A worker is recorded in its run before the main flow of the run copies the workers.
LEMMA JoinNext ==
    ASSUME \A r \in Recipes : Flat(r)
    PROVE  IInv /\ JoinInv /\ [Next]_vars => JoinInv'
  <1> SUFFICES ASSUME IInv, JoinInv, [Next]_vars PROVE JoinInv'
    OBVIOUS
  <1>1. TInv /\ OneRun /\ th \in [Threads -> FlowSet] /\ cur \in Threads \cup {0}
        /\ workers \subseteq Threads /\ snap \subseteq Threads /\ 0 \notin Threads /\ starts \in Nat
    BY DEF IInv, TInv, ThreadsOK, CrewOK, FlagsOK, Threads
  <1>2. Beside(recipe, Side)
    BY <1>1 DEF Flat, Side, TInv, FlagsOK
  <1>3. Side' = Side
    <2>1. recipe' = recipe
      BY <1>1, RecipeFixed
    <2> QED BY <2>1 DEF Side
  <1>4. ASSUME NEW t \in Threads, NEW f, StepTo(t, f)
        PROVE  JoinInv'
    <2>1. f.main = th[t].main /\ f.run = th[t].run /\ th' = [th EXCEPT ![t] = f]
          /\ UNCHANGED <<cur, workers, starts, ui>> /\ snap' = (IF f.pc = "join" THEN workers ELSE snap)
          /\ Seqs(f) \subseteq Seqs(th[t]) \cup CalledBy(t)
      BY <1>4 DEF StepTo, Becomes
    <2>2. th'[t] = f /\ \A u \in Threads \ {t} : th'[u] = th[u]
      BY <1>1, <2>1
    <2>3. Alive(t) /\ th[t].pc # "free" /\ f.pc # "free"
      BY <1>4 DEF StepTo, Rests, Calm, Acts, Stops, Reports, Resets, Over, Broken, Alive
    <2>4. th[t].main => t = cur
      BY <1>1, <2>3 DEF OneRun
    <2>5. f.pc \in OfRun => t = cur
      <3>1. th[t].pc \in OfRun => th[t].main
        BY <1>1 DEF OneRun
      <3>2. f.pc \in OfRun => th[t].pc \in OfRun \/ th[t].main
        BY <1>4 DEF StepTo, Rests, Calm, Acts, Stops, Reports, Resets, Over, Broken, OfRun
      <3> QED BY <2>4, <3>1, <3>2
    <2>6. ~f.main => Seqs(f) \subseteq Side
      <3>1. CASE CalledBy(t) = {}
        BY <2>1, <3>1 DEF JoinInv
      <3>2. CASE CalledBy(t) # {}
        <4>1. th[t].pc \in AtStep /\ Step(t).op = "CALL" /\ CalledBy(t) = {Step(t).seq}
          BY <3>2 DEF CalledBy, AtStep
        <4>2. PICK s \in DOMAIN recipe : \E i \in DOMAIN recipe[s] :
                      Step(t) = recipe[s][i] /\ s \in Seqs(th[t])
          BY <1>1, <4>1, StepOfRecipe
        <4>3. s \in Side => Step(t).seq \in Side
          BY <1>2, <4>1, <4>2 DEF Beside
        <4> QED BY <2>1, <4>1, <4>2, <4>3 DEF JoinInv
      <3> QED BY <3>1, <3>2
    <2>7. \A u \in Threads :
          /\ ~th'[u].main => Seqs(th'[u]) \subseteq Side
          /\ th'[u].pc # "free" /\ ~th'[u].main /\ th'[u].run = starts => u \in workers
      BY <2>1, <2>2, <2>3, <2>6 DEF JoinInv
    <2>8. \A w \in workers : th'[w].pc # "free"
      BY <1>1, <2>2, <2>3 DEF JoinInv
    <2>9. cur # 0 /\ th'[cur].pc \in {"join", "check", "compl"} => snap' = workers
      <3>1. CASE t = cur
        <4>1. f.pc \in {"check", "compl"} => th[t].pc \in {"join", "check"}
          BY <1>4 DEF StepTo, Rests, Calm, Acts, Stops, Reports, Resets, Over, Broken
        <4> QED BY <2>1, <2>2, <3>1, <4>1 DEF JoinInv
      <3>2. CASE t # cur
        BY <1>1, <2>1, <2>2, <2>5, <3>2 DEF JoinInv, OfRun
      <3> QED BY <3>1, <3>2
    <2>10. cur # 0 /\ (th'[cur].pc = "compl" \/ (th'[cur].pc = "check" /\ ~stop')) =>
              \A w \in snap' : ~Alive(w)'
      <3>1. \A u \in Threads : Alive(u)' => Alive(u)
        BY <2>2, <2>3 DEF Alive
      <3>2. stop \in BOOLEAN /\ (stop' = stop \/ stop' = TRUE)
        BY <1>1, <1>4 DEF StepTo, Rests, Acts, Stops, Reports, Resets, control, TInv, FlagsOK
      <3>3. CASE t = cur
        <4>1. f.pc = "check" => th[t].pc = "join" /\ Joined /\ stop' = stop
          BY <1>4 DEF StepTo, Rests, Calm, Acts, Stops, Reports, Resets, Over, Broken, control
        <4>2. f.pc = "compl" => th[t].pc = "check" /\ ~stop
          BY <1>4 DEF StepTo, Rests, Calm, Acts, Stops, Reports, Resets, Over, Broken
        <4> QED BY <1>1, <2>1, <2>2, <3>1, <3>3, <4>1, <4>2 DEF JoinInv, Joined
      <3>4. CASE t # cur
        <4>1. snap' = snap
          BY <2>1, <2>5, <3>4 DEF OfRun
        <4>2. cur # 0 => th'[cur] = th[cur]
          BY <1>1, <2>2, <3>4
        <4> QED BY <1>1, <3>1, <3>2, <4>1, <4>2 DEF JoinInv
      <3> QED BY <3>3, <3>4
    <2> QED BY <1>3, <2>1, <2>7, <2>8, <2>9, <2>10, Zenon DEF JoinInv, Seqs
  <1>5. ASSUME NEW t \in Threads, NEW u \in Threads, NEW f, NEW g, ForkTo(t, u, f, g)
        PROVE  JoinInv'
    <2>1. th' = [th EXCEPT ![t] = f, ![u] = g] /\ t # u /\ f.pc = "loop" /\ f.main = th[t].main
          /\ f.run = th[t].run /\ g.pc \in {"loop", "werr"} /\ g.main = FALSE
          /\ Seqs(f) \subseteq Seqs(th[t]) /\ Seqs(g) \subseteq {Step(t).seq}
          /\ th[t].pc = "step" /\ Step(t).op = "PCALL" /\ th[u].pc = "free"
          /\ workers' = workers \cup {u} /\ UNCHANGED <<cur, starts, snap, stop>>
      BY <1>5 DEF ForkTo, control
    <2>2. th'[t] = f /\ th'[u] = g /\ \A v \in Threads \ {t, u} : th'[v] = th[v]
      BY <1>1, <2>1
    <2>3. PICK s \in DOMAIN recipe : \E i \in DOMAIN recipe[s] :
                  Step(t) = recipe[s][i] /\ s \in Seqs(th[t])
      BY <1>1, <2>1, StepOfRecipe DEF AtStep
    <2>4. Step(t).seq \in Side /\ s \notin Side
      BY <1>2, <2>1, <2>3 DEF Beside
    <2>5. th[t].main /\ t = cur
      BY <1>1, <2>1, <2>3, <2>4 DEF JoinInv, OneRun, Alive
    <2>6. \A v \in Threads :
          /\ ~th'[v].main => Seqs(th'[v]) \subseteq Side
          /\ th'[v].pc # "free" /\ ~th'[v].main /\ th'[v].run = starts => v \in workers'
      <3> SUFFICES ASSUME NEW v \in Threads
                   PROVE  /\ ~th'[v].main => Seqs(th'[v]) \subseteq Side
                          /\ th'[v].pc # "free" /\ ~th'[v].main /\ th'[v].run = starts => v \in workers'
        OBVIOUS
      <3>1. CASE v = t
        BY <2>1, <2>2, <2>5, <3>1
      <3>2. CASE v = u
        BY <2>1, <2>2, <2>4, <3>2
      <3>3. CASE v \notin {t, u}
        BY <2>1, <2>2, <3>3 DEF JoinInv
      <3> QED BY <3>1, <3>2, <3>3
    <2>7. \A w \in workers' : th'[w].pc # "free"
      BY <1>1, <2>1, <2>2 DEF JoinInv
    <2>8. th'[cur].pc = "loop"
      BY <2>1, <2>2, <2>5
    <2> QED BY <1>3, <2>1, <2>6, <2>7, <2>8, Zenon DEF JoinInv, Seqs
  <1>6. CASE Started
    <2>1. PICK t \in Threads : \E f : th[t].pc = "free" /\ cur' = t /\ th' = [th EXCEPT ![t] = f]
                                      /\ f.pc = "loop" /\ f.main = TRUE /\ f.run = starts
      BY <1>1, <1>6, StartMoves
    <2>2. PICK f : th[t].pc = "free" /\ cur' = t /\ th' = [th EXCEPT ![t] = f]
                   /\ f.pc = "loop" /\ f.main = TRUE /\ f.run = starts
      BY <2>1
    <2>3. th'[t] = f /\ \A u \in Threads \ {t} : th'[u] = th[u]
      BY <1>1, <2>2
    <2>4. ui = "starting" /\ workers' = {} /\ starts' = starts
      BY <1>6 DEF Started
    <2>5. \A u \in Threads : th[u].pc # "free" => th[u].run < starts /\ th[u].run \in Nat
      BY <1>1, <2>4, ThreadSound DEF OneRun
    <2>6. \A u \in Threads :
          /\ ~th'[u].main => Seqs(th'[u]) \subseteq Side
          /\ ~(th'[u].pc # "free" /\ ~th'[u].main /\ th'[u].run = starts)
      BY <1>1, <2>2, <2>3, <2>5 DEF JoinInv
    <2>7. th'[cur'].pc = "loop"
      BY <2>2, <2>3
    <2> QED BY <1>3, <2>4, <2>6, <2>7, Zenon DEF JoinInv, Seqs
  <1>7. CASE UiElse \/ IdleOff \/ UNCHANGED vars
    <2>1. UNCHANGED <<th, workers, snap, cur>>
      BY <1>7 DEF UiElse, Paused, Resumed, StopState, StopEvents, Start, Pause, Resume, StopCall,
         IdleOff, crew, vars
    <2>2. \/ starts' = starts /\ (stop' = stop \/ stop' = TRUE)
          \/ starts' = starts + 1 /\ ~IsRunning
      BY <1>7 DEF UiElse, Paused, Resumed, StopState, StopEvents, Start, Pause, Resume, StopCall,
         IdleOff, control, vars
    <2>3. \A t \in Threads : th[t].pc # "free" => th[t].run <= starts /\ th[t].run \in Nat
      BY <1>1, ThreadSound DEF OneRun
    <2>4. CASE starts' = starts /\ (stop' = stop \/ stop' = TRUE)
      BY <1>3, <2>1, <2>4 DEF JoinInv, Seqs, Alive
    <2>5. CASE starts' = starts + 1 /\ ~IsRunning
      <3>1. \A t \in Threads : th[t].pc # "free" => th[t].run # starts'
        BY <1>1, <2>3, <2>5
      <3>2. cur # 0 => th[cur].pc \notin {"join", "check", "compl"}
        BY <2>5 DEF IsRunning, Alive
      <3> QED BY <1>3, <2>1, <3>1, <3>2 DEF JoinInv, Seqs, Alive
    <2> QED BY <2>2, <2>4, <2>5
  <1> QED BY <1>1, <1>4, <1>5, <1>6, <1>7, NextCases

\* A run is reported complete when every flow it started has ended, for every recipe whose
\* parallel sequences make no parallel CALLs themselves: the flow of such a CALL may be
\* missing in the copy of the workers that the main flow joins (step_executor.py 245-252).
THEOREM CompleteIsAll ==
    ASSUME \A r \in Recipes : Flat(r)
    PROVE  Spec => CompleteMeansAll
  <1>1. Init => JoinInv
    BY DEF Init, JoinInv, NoFlow, Seqs
  <1>2. IInv /\ JoinInv /\ [Next]_vars =>
           [\A t \in Threads :
               th[t].pc = "compl" /\ th'[t].pc = "off" =>
                  \A u \in Threads \ {t} : th[u].run = th[t].run => ~Alive(u)]_vars
    <2> SUFFICES ASSUME IInv, JoinInv, NEW t \in Threads, th[t].pc = "compl",
                        NEW u \in Threads \ {t}, th[u].run = th[t].run, Alive(u)
                 PROVE  FALSE
      OBVIOUS
    <2>1. t = cur /\ cur # 0 /\ th[cur].pc = "compl" /\ ui # "starting" /\ th[t].run = starts
      BY DEF IInv, OneRun, Alive, OfRun, Threads, IsRunning
    <2>2. ~th[u].main
      BY <2>1 DEF IInv, OneRun
    <2>3. u \in workers /\ snap = workers
      BY <2>1, <2>2 DEF JoinInv, Alive
    <2> QED BY <2>1, <2>3 DEF JoinInv
  <1> QED BY <1>1, <1>2, InvSpec, JoinNext, PTL DEF Spec, CompleteMeansAll
=============================================================================
