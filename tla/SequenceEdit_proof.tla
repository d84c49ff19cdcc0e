------------------------ MODULE SequenceEdit_proof ------------------------
(* Proofs about SequenceEdit, for any names, rows and changes, in both         *)
(* editors: jumps keep their targets and calls their programs, and Monitor    *)
(* never moves.                                                               *)
EXTENDS SequenceEdit, FiniteSetTheorems, SequenceTheorems, WellFoundedInduction, TLAPS

\* A program after k changes: the steps have different identities, none of which is still
\* to be given, and the jumps that are to be relied on lead where they were aimed.
Sound(s, k) ==
    /\ s \in Seq(Step)
    /\ \A i \in DOMAIN s : s[i].id <= 100 + k /\ s[i].aim <= 100 + k
    /\ \A i, j \in DOMAIN s : s[i].id = s[j].id => i = j
    /\ \A i \in DOMAIN s : s[i].kind = "JMP" /\ ~s[i].lost => OnTarget(s, s[i])

Book(p, k) ==
    /\ DOMAIN p \subseteq Names /\ "Main" \in DOMAIN p
    /\ \A n \in DOMAIN p : Sound(p[n], k)

\* What the QML editor keeps: Monitor exists, and what is called.
Callees(s) == {s[i].call : i \in {i \in DOMAIN s : s[i].kind = "CALL"}} \cup {""}
Callable(p) ==
    /\ "Monitor" \in DOMAIN p
    /\ \A n \in DOMAIN p : Callees(p[n]) \subseteq DOMAIN p \cup {""}

Standing(p) ==
    \E P \in SUBSET DOMAIN p :
        /\ "Monitor" \in P
        /\ \A n \in P : \A i \in DOMAIN p[n] :
              LET j == p[n][i] IN
              j.kind # "POS" /\ (j.kind = "CALL" /\ j.call # "" => j.call \in P)

SelectionOK ==
    /\ editor \in {"qml", "widget"} /\ open \in BOOLEAN /\ changes \in 0 .. MaxChanges
    /\ cur \in DOMAIN seqs /\ row \in -1 .. Len(seqs[cur]) - 1

IInv ==
    /\ SelectionOK
    /\ Book(committed, changes) /\ Book(seqs, changes)
    /\ editor = "qml" => Callable(committed) /\ Callable(seqs) /\ Standing(committed)

---------------------------------------------------------------------------
(* Numbers.                                                                  *)

\* Every nonempty set of numbers has a smallest one.
LEMMA SmallestOf ==
    ASSUME NEW T \in SUBSET Nat, T # {} PROVE \E x \in T : \A y \in T : x <= y
  <1> DEFINE R == {ss \in Nat \X Nat : ss[1] < ss[2]}
  <1>1. IsWellFoundedOn(R, Nat)
    BY NatLessThanWellFounded, Zenon DEF OpToRel
  <1> HIDE DEF R
  <1>2. PICK x \in T : \A y \in T : ~ (<<y, x>> \in R)
    BY <1>1, WFMin
  <1>3. \A y \in T : <<y, x>> \in R <=> y < x
    BY DEF R
  <1>4. \A y \in T : x \in Nat /\ y \in Nat /\ ~(y < x)
    BY <1>2, <1>3
  <1>5. \A y \in T : x <= y
    BY <1>4
  <1> QED BY <1>5

\* Min is that one.
LEMMA MinIsLeast ==
    ASSUME NEW T \in SUBSET Nat, T # {} PROVE Min(T) \in T /\ \A y \in T : Min(T) <= y
  BY SmallestOf DEF Min

---------------------------------------------------------------------------
(* Rows.                                                                     *)

\* The rows of a program are finitely many numbers.
LEMMA RowsFinite ==
    ASSUME NEW s, s \in Seq(Step)
    PROVE  /\ Len(s) \in Nat /\ DOMAIN s = 1 .. Len(s)
           /\ Rows(s) \subseteq Nat /\ ExecutableRows(s) \in SUBSET Nat
           /\ IsFiniteSet(ExecutableRows(s))
  <1>1. Len(s) \in Nat /\ DOMAIN s = 1 .. Len(s) /\ Rows(s) = 0 .. Len(s) - 1
    BY DEF Rows
  <1>2. Rows(s) \subseteq Nat /\ IsFiniteSet(Rows(s))
    BY <1>1, FS_Interval
  <1>3. ExecutableRows(s) \in SUBSET Rows(s)
    BY DEF ExecutableRows
  <1> QED BY <1>1, <1>2, <1>3, FS_Subset

---------------------------------------------------------------------------
(* Programs, row by row.                                                     *)

\* The rows of a sequence of steps.
LEMMA RowAt ==
    ASSUME NEW s, s \in Seq(Step)
    PROVE  /\ Len(s) \in Nat /\ Rows(s) = 0 .. Len(s) - 1
           /\ \A x \in Rows(s) : At(s, x) \in Step /\ x + 1 \in DOMAIN s /\ At(s, x) = s[x + 1]
           /\ \A i \in DOMAIN s : i - 1 \in Rows(s) /\ At(s, i - 1) = s[i] /\ i \in Nat
  BY DEF Rows, At

\* The members of a sequence of steps.
LEMMA AllSteps ==
    ASSUME NEW s, s \in Seq(Step) PROVE \A i \in DOMAIN s : s[i] \in Step
  OBVIOUS

\* The fields of a step.
LEMMA StepFields ==
    ASSUME NEW x \in Step
    PROVE  /\ x.id \in 1 .. 100 + MaxChanges /\ x.aim \in 0 .. 100 + MaxChanges
           /\ x.kind \in Kinds /\ x.jmp \in Nat /\ x.call \in Names \cup {""}
           /\ x.lost \in BOOLEAN
  BY DEF Step

\* Changed row by row, a sequence of steps keeps its length.
LEMMA RowByRow ==
    ASSUME NEW s, s \in Seq(Step), NEW r, r \in [DOMAIN s -> Step]
    PROVE  r \in Seq(Step) /\ Len(r) = Len(s) /\ Rows(r) = Rows(s) /\ DOMAIN r = DOMAIN s
  <1>1. DOMAIN s = 1 .. Len(s) /\ Len(s) \in Nat
    OBVIOUS
  <1>2. r \in Seq(Step) /\ Len(r) = Len(s) /\ DOMAIN r = DOMAIN s
    BY <1>1
  <1> QED BY <1>2 DEF Rows

\* Two sequences of steps, joined.
LEMMA Joined ==
    ASSUME NEW a, a \in Seq(Step), NEW b, b \in Seq(Step), NEW t, t = a \o b
    PROVE  /\ t \in Seq(Step) /\ Len(t) = Len(a) + Len(b)
           /\ \A i \in 1 .. Len(a) + Len(b) :
                 t[i] = IF i <= Len(a) THEN a[i] ELSE b[i - Len(a)]
  OBVIOUS

\* The rows of a program with a step inserted.
LEMMA Inserted ==
    ASSUME NEW s, s \in Seq(Step), NEW p \in 0 .. Len(s), NEW e \in Step,
           NEW t, t = InsertAt(s, p + 1, e)
    PROVE  /\ t \in Seq(Step) /\ Len(t) = Len(s) + 1
           /\ At(t, p) = e
           /\ \A x \in Rows(t) : x < p => At(t, x) = At(s, x)
           /\ \A x \in Rows(t) : x > p => At(t, x) = At(s, x - 1)
  <1> DEFINE a == SubSeq(s, 1, p)
             b == SubSeq(s, p + 1, Len(s))
  <1>1. Len(s) \in Nat /\ p \in Nat /\ p <= Len(s)
    OBVIOUS
  <1>2. t = (a \o <<e>>) \o b
    <2>1. (p + 1) - 1 = p
      BY <1>1
    <2> QED BY <2>1 DEF InsertAt
  <1>3. /\ a \in Seq(Step) /\ Len(a) = p /\ \A i \in 1 .. p : a[i] = s[i]
    BY <1>1
  <1>4. /\ b \in Seq(Step) /\ Len(b) = Len(s) - p
        /\ \A i \in 1 .. Len(s) - p : b[i] = s[p + i]
    BY <1>1
  <1> HIDE DEF a, b
  <1>5. /\ a \o <<e>> \in Seq(Step) /\ Len(a \o <<e>>) = p + 1
        /\ \A i \in 1 .. p : (a \o <<e>>)[i] = s[i]
        /\ (a \o <<e>>)[p + 1] = e
    BY <1>1, <1>3
  <1> DEFINE c == a \o <<e>>
  <1>6. t = c \o b
    BY <1>2
  <1>7. c \in Seq(Step) /\ Len(c) = p + 1 /\ (\A i \in 1 .. p : c[i] = s[i]) /\ c[p + 1] = e
    BY <1>5
  <1> HIDE DEF c
  <1>8. /\ t \in Seq(Step) /\ Len(t) = Len(s) + 1
        /\ \A i \in 1 .. Len(s) + 1 : t[i] = IF i <= p + 1 THEN c[i] ELSE b[i - (p + 1)]
    <2>1. Len(c) + Len(b) = Len(s) + 1
      BY <1>1, <1>4, <1>7
    <2>2. /\ t \in Seq(Step) /\ Len(t) = Len(c) + Len(b)
          /\ \A i \in 1 .. Len(c) + Len(b) : t[i] = IF i <= Len(c) THEN c[i] ELSE b[i - Len(c)]
      <3>1. b \in Seq(Step) /\ c \in Seq(Step)
        BY <1>4, <1>7
      <3> QED BY <1>6, <3>1, Joined, Zenon
    <2> QED BY <1>7, <2>1, <2>2
  <1>9. At(t, p) = e
    BY <1>1, <1>7, <1>8 DEF At
  <1>10. ASSUME NEW x \in Rows(t), x < p
         PROVE  At(t, x) = At(s, x)
    BY <1>1, <1>7, <1>8, <1>10 DEF At, Rows
  <1>11. ASSUME NEW x \in Rows(t), x > p
         PROVE  At(t, x) = At(s, x - 1)
    <2>1. x \in Nat /\ x + 1 \in 1 .. Len(s) + 1 /\ x <= Len(s)
      BY <1>1, <1>8 DEF Rows
    <2>2. t[x + 1] = b[(x + 1) - (p + 1)]
      BY <1>1, <1>8, <1>11, <2>1
    <2>3. (x + 1) - (p + 1) \in 1 .. Len(s) - p /\ p + ((x + 1) - (p + 1)) = (x - 1) + 1
      BY <1>1, <1>11, <2>1
    <2>4. t[x + 1] = s[(x - 1) + 1]
      BY <1>4, <2>2, <2>3
    <2> QED BY <2>4 DEF At
  <1> QED BY <1>8, <1>9, <1>10, <1>11

\* The rows of a program without one of them.
LEMMA Removed ==
    ASSUME NEW s, s \in Seq(Step), NEW p \in Rows(s), NEW t, t = RemoveAt(s, p + 1)
    PROVE  /\ t \in Seq(Step) /\ Len(t) = Len(s) - 1
           /\ \A x \in Rows(t) : x < p => At(t, x) = At(s, x)
           /\ \A x \in Rows(t) : x >= p => At(t, x) = At(s, x + 1)
  <1> DEFINE a == SubSeq(s, 1, p)
             b == SubSeq(s, p + 2, Len(s))
  <1>1. Len(s) \in Nat /\ p \in Nat /\ p < Len(s)
    BY DEF Rows
  <1>2. t = a \o b
    <2>1. (p + 1) - 1 = p /\ (p + 1) + 1 = p + 2
      BY <1>1
    <2> QED BY <2>1 DEF RemoveAt
  <1>3. /\ a \in Seq(Step) /\ Len(a) = p /\ \A i \in 1 .. p : a[i] = s[i]
    BY <1>1
  <1>4. /\ b \in Seq(Step) /\ Len(b) = Len(s) - (p + 1)
        /\ \A i \in 1 .. Len(s) - (p + 1) : b[i] = s[(p + 1) + i]
    BY <1>1
  <1> HIDE DEF a, b
  <1>5. /\ t \in Seq(Step) /\ Len(t) = Len(s) - 1
        /\ \A i \in 1 .. Len(s) - 1 : t[i] = IF i <= p THEN a[i] ELSE b[i - p]
    <2>1. Len(a) + Len(b) = Len(s) - 1
      BY <1>1, <1>3, <1>4
    <2>2. /\ t \in Seq(Step) /\ Len(t) = Len(a) + Len(b)
          /\ \A i \in 1 .. Len(a) + Len(b) : t[i] = IF i <= Len(a) THEN a[i] ELSE b[i - Len(a)]
      <3>1. a \in Seq(Step) /\ b \in Seq(Step)
        BY <1>3, <1>4
      <3> QED BY <1>2, <3>1, Joined
    <2> QED BY <1>3, <2>1, <2>2
  <1>6. ASSUME NEW x \in Rows(t), x < p
        PROVE  At(t, x) = At(s, x)
    BY <1>1, <1>3, <1>5, <1>6 DEF At, Rows
  <1>7. ASSUME NEW x \in Rows(t), x >= p
        PROVE  At(t, x) = At(s, x + 1)
    <2>1. x \in Nat /\ x + 1 \in 1 .. Len(s) - 1
      BY <1>1, <1>5 DEF Rows
    <2>2. t[x + 1] = b[(x + 1) - p]
      BY <1>1, <1>5, <1>7, <2>1
    <2>3. (x + 1) - p \in 1 .. Len(s) - (p + 1) /\ (p + 1) + ((x + 1) - p) = (x + 1) + 1
      BY <1>1, <1>7, <2>1
    <2>4. t[x + 1] = s[(x + 1) + 1]
      BY <1>4, <2>2, <2>3
    <2> QED BY <2>4 DEF At
  <1> QED BY <1>5, <1>6, <1>7

\* Each row of t comes from another row of s, or is the new one; the jumps to rely on lead to
\* where the rows they led to have come, or to any row when that is gone.
Carried(t, s, src, k) ==
    /\ src \in [Rows(t) -> Rows(s) \cup {-1}]
    /\ \A x, y \in Rows(t) : src[x] = src[y] => x = y
    /\ \A x \in Rows(t) : src[x] = -1 =>
          /\ At(t, x).id = 100 + k + 1 /\ At(t, x).jmp = 0 /\ At(t, x).aim = 0
          /\ ~At(t, x).lost
    /\ \A x \in Rows(t) : src[x] # -1 =>
          LET new == At(t, x)
              old == At(s, src[x])
          IN  /\ new.id = old.id /\ new.kind = old.kind /\ new.aim = old.aim
              /\ new.kind = "JMP" /\ ~new.lost =>
                    /\ ~old.lost /\ new.jmp \in Rows(t)
                    /\ (\E z \in Rows(t) : src[z] = old.jmp) => src[new.jmp] = old.jmp

\* So it stays sound.
LEMMA Relocated ==
    ASSUME NEW k \in Nat, NEW s, Sound(s, k), NEW t, t \in Seq(Step),
           NEW src, Carried(t, s, src, k)
    PROVE  Sound(t, k + 1)
  <1> USE DEF Carried
  <1>1. /\ s \in Seq(Step)
        /\ \A i \in DOMAIN s : s[i].id <= 100 + k /\ s[i].aim <= 100 + k
        /\ \A i, j \in DOMAIN s : s[i].id = s[j].id => i = j
        /\ \A i \in DOMAIN s : s[i].kind = "JMP" /\ ~s[i].lost => OnTarget(s, s[i])
    BY DEF Sound
  <1>2. /\ \A x \in Rows(s) : /\ At(s, x) \in Step
                              /\ At(s, x).id <= 100 + k /\ At(s, x).aim <= 100 + k
                              /\ At(s, x).kind = "JMP" /\ ~At(s, x).lost => OnTarget(s, At(s, x))
        /\ \A x, y \in Rows(s) : At(s, x).id = At(s, y).id => x = y
    <2>1. \A x \in Rows(s) : /\ x \in Int /\ x + 1 \in DOMAIN s
                             /\ At(s, x) = s[x + 1] /\ At(s, x) \in Step
      BY <1>1, RowAt
    <2>2. \A x, y \in Rows(s) : x + 1 = y + 1 => x = y
      BY <2>1
    <2>3. ASSUME NEW x \in Rows(s)
          PROVE  /\ At(s, x).id <= 100 + k /\ At(s, x).aim <= 100 + k
                 /\ At(s, x).kind = "JMP" /\ ~At(s, x).lost => OnTarget(s, At(s, x))
      <3>1. x + 1 \in DOMAIN s /\ At(s, x) = s[x + 1]
        BY <2>1
      <3>2. s[x + 1].id <= 100 + k /\ s[x + 1].aim <= 100 + k
        BY <1>1, <3>1
      <3>3. s[x + 1].kind = "JMP" /\ ~s[x + 1].lost => OnTarget(s, s[x + 1])
        BY <1>1, <3>1
      <3> QED BY <3>1, <3>2, <3>3
    <2>4. ASSUME NEW x \in Rows(s), NEW y \in Rows(s), At(s, x).id = At(s, y).id
          PROVE  x + 1 = y + 1
      <3>1. x + 1 \in DOMAIN s /\ y + 1 \in DOMAIN s
        BY <2>1, Zenon
      <3>2. s[x + 1].id = s[y + 1].id
        BY <2>1, <2>4, Zenon
      <3>3. \A i, j \in DOMAIN s : s[i].id = s[j].id => i = j
        BY <1>1, Zenon
      <3> QED BY <3>1, <3>2, <3>3, Zenon
    <2> QED BY <2>1, <2>2, <2>3, <2>4
  <1>3. \A x \in Rows(s) : /\ At(s, x).id \in Nat /\ At(s, x).aim \in Nat
                           /\ At(s, x).id <= 100 + k /\ At(s, x).aim <= 100 + k
    <2>1. MaxChanges \in Nat
      BY SessionBoundsAssumption
    <2> SUFFICES ASSUME NEW x \in Rows(s)
                 PROVE  At(s, x).id \in Nat /\ At(s, x).aim \in Nat
      BY <1>2
    <2>2. At(s, x).id \in 1 .. 100 + MaxChanges /\ At(s, x).aim \in 0 .. 100 + MaxChanges
      BY <1>2, StepFields
    <2> QED BY <2>1, <2>2
  <1>4. \A x \in Rows(t) : src[x] # -1 => src[x] \in Rows(s)
    OBVIOUS
  <1>5. \A x \in Rows(t) : At(t, x).id <= 100 + (k + 1) /\ At(t, x).aim <= 100 + (k + 1)
    <2> SUFFICES ASSUME NEW x \in Rows(t)
                 PROVE  At(t, x).id <= 100 + (k + 1) /\ At(t, x).aim <= 100 + (k + 1)
      OBVIOUS
    <2>1. CASE src[x] = -1
      BY <2>1
    <2>2. CASE src[x] # -1
      <3>1. /\ src[x] \in Rows(s) /\ At(t, x).id = At(s, src[x]).id
            /\ At(t, x).aim = At(s, src[x]).aim
        BY <1>4, <2>2
      <3> QED BY <1>3, <3>1
    <2> QED BY <2>1, <2>2
  <1>6. \A x, y \in Rows(t) : At(t, x).id = At(t, y).id => x = y
    <2> SUFFICES ASSUME NEW x \in Rows(t), NEW y \in Rows(t), At(t, x).id = At(t, y).id
                 PROVE  src[x] = src[y]
      OBVIOUS
    <2>1. \A z \in Rows(t) : src[z] # -1 =>
             /\ src[z] \in Rows(s) /\ At(t, z).id = At(s, src[z]).id
             /\ At(t, z).id # 100 + k + 1
      BY <1>3, <1>4
    <2> QED BY <1>2, <2>1
  <1>7. ASSUME NEW x \in Rows(t), At(t, x).kind = "JMP", ~At(t, x).lost
        PROVE  OnTarget(t, At(t, x))
    <2> DEFINE new == At(t, x)
    <2>1. \A z \in Rows(t) : At(t, z) \in Step
      BY RowAt
    <2>2. CASE src[x] = -1
      <3>1. 0 \in Rows(t)
        BY DEF Rows
      <3>2. \A i \in DOMAIN t : t[i].id # 0
        <4>1. \A i \in DOMAIN t : t[i] \in Step
          OBVIOUS
        <4>2. \A i \in DOMAIN t : t[i].id \in 1 .. 100 + MaxChanges
          BY <4>1, StepFields
        <4> QED BY <4>2
      <3> QED BY <2>2, <3>1, <3>2 DEF OnTarget
    <2>3. CASE src[x] # -1
      <3> DEFINE old == At(s, src[x])
      <3>1. /\ src[x] \in Rows(s) /\ old.kind = "JMP" /\ ~old.lost /\ new.aim = old.aim
            /\ new.jmp \in Rows(t)
            /\ (\E z \in Rows(t) : src[z] = old.jmp) => src[new.jmp] = old.jmp
        BY <1>4, <1>7, <2>3
      <3>2. OnTarget(s, old)
        BY <1>2, <3>1
      <3>3. ASSUME NEW i \in DOMAIN t, t[i].id = new.aim
            PROVE  At(t, new.jmp).id = new.aim
        <4> DEFINE z == i - 1
        <4>1. z \in Rows(t) /\ At(t, z) = t[i]
          BY RowAt
        <4> HIDE DEF z
        <4>2. src[z] # -1
          <5>1. At(s, src[x]).aim \in Nat /\ At(s, src[x]).aim <= 100 + k
            BY <1>3, <3>1
          <5> QED BY <3>1, <3>3, <4>1, <5>1
        <4>3. src[z] \in Rows(s) /\ At(s, src[z]).id = old.aim
          BY <1>4, <3>1, <3>3, <4>1, <4>2
        <4>4. src[z] + 1 \in DOMAIN s /\ s[src[z] + 1].id = old.aim
          BY <1>1, <4>3, RowAt, SMTT(30)
        <4>5. old.jmp \in Rows(s) /\ At(s, old.jmp).id = old.aim
          BY <3>2, <4>4 DEF OnTarget
        <4>6. src[z] = old.jmp
          BY <1>2, <4>3, <4>5
        <4>7. src[new.jmp] = old.jmp
          BY <3>1, <4>1, <4>6
        <4>8. old.jmp # -1
          BY <4>5, <1>1, RowAt
        <4> QED BY <3>1, <4>5, <4>7, <4>8
      <3> QED BY <3>1, <3>3 DEF OnTarget
    <2> QED BY <2>2, <2>3
  <1>8. \A i \in DOMAIN t : i - 1 \in Rows(t) /\ At(t, i - 1) = t[i] /\ i \in Nat
    BY RowAt
  <1>9. \A i, j \in DOMAIN t : t[i].id = t[j].id => i = j
    <2> SUFFICES ASSUME NEW i \in DOMAIN t, NEW j \in DOMAIN t, t[i].id = t[j].id
                 PROVE  i = j
      OBVIOUS
    <2>1. i - 1 = j - 1
      BY <1>6, <1>8
    <2> QED BY <1>8, <2>1
  <1>10. \A i \in DOMAIN t : t[i].id <= 100 + (k + 1) /\ t[i].aim <= 100 + (k + 1)
    BY <1>5, <1>8
  <1>11. \A i \in DOMAIN t : t[i].kind = "JMP" /\ ~t[i].lost => OnTarget(t, t[i])
    BY <1>7, <1>8
  <1> QED BY <1>9, <1>10, <1>11 DEF Sound

\* It calls no other programs; each of its calls is a call of the other program.
CallsNoMore(t, s) == Callees(t) \subseteq Callees(s)
NoNewCalls(t, s) ==
    \A x \in Rows(t) :
       \/ At(t, x).call = ""
       \/ \E y \in Rows(s) : At(s, y).kind = At(t, x).kind /\ At(s, y).call = At(t, x).call

\* A program whose calls are calls of another calls no other programs.
LEMMA SameCalls ==
    ASSUME NEW s, s \in Seq(Step), NEW t, t \in Seq(Step), NoNewCalls(t, s)
    PROVE  CallsNoMore(t, s)
  <1> SUFFICES ASSUME NEW i \in DOMAIN t, t[i].kind = "CALL", t[i].call # ""
               PROVE  t[i].call \in Callees(s)
    BY DEF Callees, CallsNoMore
  <1>1. i - 1 \in Rows(t) /\ At(t, i - 1) = t[i]
    BY RowAt
  <1>2. PICK y \in Rows(s) : At(s, y).kind = "CALL" /\ At(s, y).call = t[i].call
    BY <1>1 DEF NoNewCalls
  <1>3. y + 1 \in DOMAIN s /\ At(s, y) = s[y + 1]
    BY RowAt
  <1> QED BY <1>2, <1>3 DEF Callees

\* A program in which only jumps are aimed anew, or calls call another, stays sound.
LEMMA Renewed ==
    ASSUME NEW k \in Nat, NEW s, Sound(s, k), NEW t, t \in Seq(Step), DOMAIN t = DOMAIN s,
           \A i \in DOMAIN s : t[i].id = s[i].id /\ t[i].aim <= 100 + k,
           \A i \in DOMAIN s : t[i].kind = "JMP" /\ ~t[i].lost =>
              \/ s[i].kind = "JMP" /\ ~s[i].lost /\ t[i].jmp = s[i].jmp /\ t[i].aim = s[i].aim
              \/ t[i].jmp \in Rows(s) /\ t[i].aim = At(s, t[i].jmp).id
    PROVE  Sound(t, k)
  <1>1. /\ s \in Seq(Step)
        /\ \A i \in DOMAIN s : s[i].id <= 100 + k
        /\ \A i, j \in DOMAIN s : s[i].id = s[j].id => i = j
        /\ \A i \in DOMAIN s : s[i].kind = "JMP" /\ ~s[i].lost => OnTarget(s, s[i])
    BY DEF Sound
  <1>2. Len(t) = Len(s)
    BY <1>1
  <1>3. Rows(t) = Rows(s) /\ \A x \in Rows(s) : At(t, x).id = At(s, x).id
    <2>1. Rows(t) = Rows(s)
      BY <1>2 DEF Rows
    <2>2. \A x \in Rows(s) : x + 1 \in DOMAIN s
      BY <1>1, RowAt
    <2> QED BY <2>1, <2>2 DEF At
  <1>4. ASSUME NEW i \in DOMAIN t, t[i].kind = "JMP", ~t[i].lost
        PROVE  OnTarget(t, t[i])
    <2>1. CASE s[i].kind = "JMP" /\ ~s[i].lost /\ t[i].jmp = s[i].jmp /\ t[i].aim = s[i].aim
      <3>1. OnTarget(s, s[i])
        BY <1>1, <2>1
      <3>2. t[i].jmp \in Rows(s)
        BY <2>1, <3>1 DEF OnTarget
      <3>3. \A j \in DOMAIN t : t[j].id = t[i].aim => At(s, t[i].jmp).id = t[i].aim
        BY <2>1, <3>1 DEF OnTarget
      <3> QED BY <1>3, <3>2, <3>3 DEF OnTarget
    <2>2. CASE t[i].jmp \in Rows(s) /\ t[i].aim = At(s, t[i].jmp).id
      BY <1>3, <2>2 DEF OnTarget
    <2> QED BY <1>4, <2>1, <2>2
  <1>5. \A i, j \in DOMAIN t : t[i].id = t[j].id => i = j
    BY <1>1
  <1>6. \A i \in DOMAIN t : t[i].id <= 100 + k /\ t[i].aim <= 100 + k
    BY <1>1
  <1> QED BY <1>4, <1>5, <1>6 DEF Sound

\* More changes leave a program sound.
LEMMA SoundGrows ==
    ASSUME NEW k \in Nat, NEW s, Sound(s, k) PROVE Sound(s, k + 1)
  <1>1. s \in Seq(Step) /\ MaxChanges \in Nat
    BY SessionBoundsAssumption DEF Sound
  <1>2. ASSUME NEW i \in DOMAIN s
        PROVE  s[i].id <= 100 + (k + 1) /\ s[i].aim <= 100 + (k + 1)
    <2>1. s[i] \in Step
      BY <1>1
    <2>2. s[i].id \in 1 .. 100 + MaxChanges /\ s[i].aim \in 0 .. 100 + MaxChanges
      BY <2>1, StepFields
    <2>3. s[i].id <= 100 + k /\ s[i].aim <= 100 + k
      BY DEF Sound
    <2> QED BY <1>1, <2>2, <2>3
  <1> QED BY <1>2, Zenon DEF Sound

---------------------------------------------------------------------------
(* Changing targets.                                                         *)

\* Retarget, with functions for the new target and for what is lost.
Turned(s, g, l) ==
    [i \in DOMAIN s |->
        IF s[i].kind = "JMP"
        THEN [s[i] EXCEPT !.jmp = g[s[i].jmp], !.lost = s[i].lost \/ l[s[i].jmp]]
        ELSE s[i]]

\* The same steps, up to the targets of jumps; a jump to rely on was one before.
Alike(r, s) ==
    /\ r \in Seq(Step) /\ Len(r) = Len(s) /\ Rows(r) = Rows(s)
    /\ \A x \in Rows(s) :
          /\ At(r, x).id = At(s, x).id /\ At(r, x).kind = At(s, x).kind
          /\ At(r, x).aim = At(s, x).aim /\ At(r, x).call = At(s, x).call
          /\ At(s, x).kind = "JMP" /\ ~At(r, x).lost => ~At(s, x).lost

Aimed(r, s, g, l) ==
    \A x \in Rows(s) : At(s, x).kind = "JMP" =>
       At(r, x).jmp = g[At(s, x).jmp] /\ (~At(r, x).lost => ~l[At(s, x).jmp])

\* Turned gives the same steps, and the targets it says.
LEMMA TurnedRows ==
    ASSUME NEW s, s \in Seq(Step), NEW g \in [Nat -> Nat], NEW l \in [Nat -> BOOLEAN],
           NEW r, r = Turned(s, g, l)
    PROVE  Alike(r, s) /\ Aimed(r, s, g, l)
  <1>1. ASSUME NEW i \in DOMAIN s
        PROVE  /\ r[i] \in Step /\ r[i].id = s[i].id /\ r[i].kind = s[i].kind
               /\ r[i].aim = s[i].aim /\ r[i].call = s[i].call
               /\ s[i].kind = "JMP" =>
                     /\ r[i].jmp = g[s[i].jmp]
                     /\ ~r[i].lost => ~s[i].lost /\ ~l[s[i].jmp]
    <2>1. s[i] \in Step
      OBVIOUS
    <2>2. s[i].jmp \in Nat /\ s[i].lost \in BOOLEAN
      BY <2>1, StepFields
    <2>3. CASE s[i].kind = "JMP"
      <3> DEFINE t == g[s[i].jmp]
                 b == s[i].lost \/ l[s[i].jmp]
                 y == [s[i] EXCEPT !.jmp = t, !.lost = b]
      <3>1. r[i] = y
        BY <2>3 DEF Turned
      <3>2. t \in Nat /\ b \in BOOLEAN
        BY <2>2
      <3>3. /\ y \in Step /\ y.jmp = t /\ y.lost = b
            /\ y.id = s[i].id /\ y.kind = s[i].kind /\ y.call = s[i].call /\ y.aim = s[i].aim
        <4>1. y = [s[i] EXCEPT !.jmp = t, !.lost = b]
          OBVIOUS
        <4> HIDE DEF t, b, y
        <4>2. y = [s[i] EXCEPT !.jmp = t, !.lost = b] => y \in Step
          BY <2>1, <3>2, ZenonT(40) DEF Step
        <4>3. y.jmp = t /\ y.id = s[i].id /\ y.kind = s[i].kind /\ y.call = s[i].call
              /\ y.aim = s[i].aim
          BY <2>1, <4>1 DEF Step
        <4>4. y.lost = b
          BY <2>1, <4>1 DEF Step
        <4> QED BY <4>1, <4>2, <4>3, <4>4
      <3>4. r[i].lost = (s[i].lost \/ l[s[i].jmp])
        BY <3>1, <3>3
      <3> HIDE DEF y
      <3>5. r[i].jmp = g[s[i].jmp]
        BY <3>1, <3>3
      <3>6. ~r[i].lost => ~s[i].lost /\ ~l[s[i].jmp]
        BY <3>4, Zenon
      <3>7. /\ r[i] \in Step /\ r[i].id = s[i].id /\ r[i].kind = s[i].kind
            /\ r[i].aim = s[i].aim /\ r[i].call = s[i].call
        BY <3>1, <3>3
      <3> QED BY <3>5, <3>6, <3>7
    <2>4. CASE s[i].kind # "JMP"
      <3>1. r[i] = s[i]
        BY <2>4 DEF Turned
      <3> QED BY <2>1, <2>4, <3>1
    <2> QED BY <2>3, <2>4
  <1>2. r \in [DOMAIN s -> Step]
    <2> DEFINE F(i) == IF s[i].kind = "JMP"
                       THEN [s[i] EXCEPT !.jmp = g[s[i].jmp], !.lost = s[i].lost \/ l[s[i].jmp]]
                       ELSE s[i]
    <2>1. r = [i \in DOMAIN s |-> F(i)]
      BY DEF Turned
    <2> HIDE DEF F
    <2> QED BY <1>1, <2>1
  <1>6. r \in Seq(Step) /\ Len(r) = Len(s) /\ Rows(r) = Rows(s)
    BY <1>2, RowByRow
  <1>8. \A x \in Rows(s) : x + 1 \in DOMAIN s
    BY RowAt
  <1>9. ASSUME NEW x \in Rows(s)
        PROVE  /\ At(r, x).id = At(s, x).id /\ At(r, x).kind = At(s, x).kind
               /\ At(r, x).aim = At(s, x).aim /\ At(r, x).call = At(s, x).call
               /\ At(s, x).kind = "JMP" =>
                     /\ At(r, x).jmp = g[At(s, x).jmp]
                     /\ ~At(r, x).lost => ~At(s, x).lost /\ ~l[At(s, x).jmp]
    BY <1>1, <1>8 DEF At
  <1> QED BY <1>6, <1>9, Zenon DEF Alike, Aimed

---------------------------------------------------------------------------
(* Inserting, removing and swapping rows.                                    *)

\* A jump to rely on leads to a row.
LEMMA OnRow ==
    ASSUME NEW k, NEW s, Sound(s, k), NEW x \in Rows(s), At(s, x).kind = "JMP", ~At(s, x).lost
    PROVE  At(s, x).jmp \in Rows(s)
  <1>1. x + 1 \in DOMAIN s /\ At(s, x) = s[x + 1]
    BY RowAt DEF Sound
  <1> QED BY <1>1 DEF Sound, OnTarget

\* A new step.
LEMMA NewStepIs ==
    ASSUME NEW k \in Nat, k < MaxChanges, NEW kind \in Kinds,
           NEW e, e = NewStep(100 + k + 1, kind)
    PROVE  /\ e \in Step /\ e.id = 100 + k + 1 /\ e.jmp = 0 /\ e.aim = 0 /\ e.call = ""
           /\ ~e.lost
  <1>1. MaxChanges \in Nat
    BY SessionBoundsAssumption
  <1>2. 100 + k + 1 \in 1 .. 100 + MaxChanges /\ 0 \in 0 .. 100 + MaxChanges /\ 0 \in Nat
    BY <1>1
  <1>3. "" \in Names \cup {""} /\ FALSE \in BOOLEAN
    OBVIOUS
  <1>4. e \in Step
    BY <1>2, <1>3 DEF NewStep, Step
  <1> QED BY <1>4 DEF NewStep

\* A program with a step inserted stays sound, when its jumps are shifted.
LEMMA InsertSound ==
    ASSUME NEW k \in Nat, k < MaxChanges, NEW s, Sound(s, k), NEW p \in 0 .. Len(s),
           NEW kind \in Kinds, NEW r, Alike(r, s),
           \A x \in Rows(s) : At(s, x).kind = "JMP" /\ ~At(r, x).lost /\ At(s, x).jmp \in Rows(s)
                => At(r, x).jmp = OnInsert(At(s, x).jmp, p),
           NEW e, e = NewStep(100 + k + 1, kind),
           NEW t, t = InsertAt(r, p + 1, e)
    PROVE  Sound(t, k + 1) /\ CallsNoMore(t, s) /\ Len(t) = Len(s) + 1
  <1>1. s \in Seq(Step) /\ r \in Seq(Step) /\ Len(r) = Len(s) /\ Rows(r) = Rows(s)
    BY DEF Sound, Alike
  <1>2. e \in Step /\ e.id = 100 + k + 1 /\ e.jmp = 0 /\ e.aim = 0 /\ e.call = "" /\ ~e.lost
    BY NewStepIs, ZenonT(40)
  <1>3. /\ t \in Seq(Step) /\ Len(t) = Len(s) + 1
        /\ At(t, p) = e
        /\ \A x \in Rows(t) : x < p => At(t, x) = At(r, x)
        /\ \A x \in Rows(t) : x > p => At(t, x) = At(r, x - 1)
    <2>1. p \in 0 .. Len(r)
      BY <1>1
    <2>2. /\ t \in Seq(Step) /\ Len(t) = Len(r) + 1
          /\ At(t, p) = e
          /\ \A x \in Rows(t) : x < p => At(t, x) = At(r, x)
          /\ \A x \in Rows(t) : x > p => At(t, x) = At(r, x - 1)
      <3>1. r \in Seq(Step) /\ e \in Step
        BY <1>1, <1>2
      <3>2. t \in Seq(Step) /\ Len(t) = Len(r) + 1
        BY <2>1, <3>1, Inserted
      <3>3. At(t, p) = e
        BY <2>1, <3>1, Inserted
      <3>4. \A x \in Rows(t) : x < p => At(t, x) = At(r, x)
        BY <2>1, <3>1, Inserted
      <3>5. \A x \in Rows(t) : x > p => At(t, x) = At(r, x - 1)
        BY <2>1, <3>1, Inserted
      <3> QED BY <3>2, <3>3, <3>4, <3>5
    <2> QED BY <1>1, <2>2
  <1>4. Len(s) \in Nat /\ Rows(s) = 0 .. Len(s) - 1 /\ Rows(t) = 0 .. Len(s)
    BY <1>1, <1>3 DEF Rows
  <1> DEFINE src == [x \in Rows(t) |-> IF x < p THEN x ELSE IF x = p THEN -1 ELSE x - 1]
  <1>5. \A x \in Rows(t) : src[x] = IF x < p THEN x ELSE IF x = p THEN -1 ELSE x - 1
    OBVIOUS
  <1>6. src \in [Rows(t) -> Rows(s) \cup {-1}]
    BY <1>4
  <1> HIDE DEF src
  <1>7. \A x, y \in Rows(t) : src[x] = src[y] => x = y
    BY <1>4, <1>5
  <1>8. \A x \in Rows(t) : src[x] = -1 => At(t, x) = e
    BY <1>3, <1>4, <1>5
  <1>9. \A x \in Rows(t) : src[x] # -1 => src[x] \in Rows(s) /\ At(t, x) = At(r, src[x])
    BY <1>3, <1>4, <1>5
  <1>10. ASSUME NEW x \in Rows(t), src[x] # -1
         PROVE  LET new == At(t, x)
                    old == At(s, src[x])
                IN  /\ new.id = old.id /\ new.kind = old.kind /\ new.aim = old.aim
                    /\ new.kind = "JMP" /\ ~new.lost =>
                          /\ ~old.lost /\ new.jmp \in Rows(t)
                          /\ (\E z \in Rows(t) : src[z] = old.jmp) => src[new.jmp] = old.jmp
    <2> DEFINE new == At(t, x)
               old == At(s, src[x])
    <2>1. src[x] \in Rows(s) /\ new = At(r, src[x])
      BY <1>9, <1>10
    <2>2. /\ new.id = old.id /\ new.kind = old.kind /\ new.aim = old.aim
          /\ old.kind = "JMP" /\ ~new.lost => ~old.lost
      BY <2>1 DEF Alike
    <2>3. ASSUME new.kind = "JMP", ~new.lost
          PROVE  ~old.lost /\ new.jmp \in Rows(t) /\ src[new.jmp] = old.jmp
      <3>1. ~old.lost /\ old.jmp \in Rows(s)
        BY <2>1, <2>2, <2>3, OnRow
      <3>2. new.jmp = OnInsert(old.jmp, p)
        BY <2>1, <2>2, <2>3, <3>1
      <3> DEFINE j == old.jmp
                 m == new.jmp
      <3>3. j \in Rows(s) /\ m = OnInsert(j, p)
        BY <3>1, <3>2
      <3> HIDE DEF j, m
      <3>4. m \in Rows(t) /\ src[m] = j
        BY <1>4, <1>5, <3>3 DEF OnInsert
      <3> QED BY <3>1, <3>4 DEF j, m
    <2> QED BY <2>2, <2>3
  <1>11. \A x \in Rows(t) : src[x] = -1 =>
            /\ At(t, x).id = 100 + k + 1 /\ At(t, x).jmp = 0 /\ At(t, x).aim = 0
            /\ ~At(t, x).lost
    BY <1>2, <1>8
  <1>12. Sound(t, k + 1)
    <2>1. t \in Seq(Step)
      BY <1>3
    <2>2. Carried(t, s, src, k)
      BY <1>6, <1>7, <1>10, <1>11 DEF Carried
    <2> QED BY <2>1, <2>2, Relocated
  <1>13. ASSUME NEW x \in Rows(t)
         PROVE  \/ At(t, x).call = ""
                \/ \E y \in Rows(s) :
                      At(s, y).kind = At(t, x).kind /\ At(s, y).call = At(t, x).call
    <2>1. CASE src[x] = -1
      BY <1>2, <1>8, <2>1
    <2>2. CASE src[x] # -1
      BY <1>9, <2>2, ZenonT(40) DEF Alike
    <2> QED BY <2>1, <2>2
  <1>14. s \in Seq(Step) /\ t \in Seq(Step)
    BY <1>1, <1>3
  <1>15. CallsNoMore(t, s)
    <2>1. NoNewCalls(t, s)
      BY <1>13 DEF NoNewCalls
    <2> QED BY <1>14, <2>1, SameCalls
  <1> QED BY <1>3, <1>12, <1>15

\* A program without one of its rows stays sound, when its jumps are shifted.
LEMMA DeleteSound ==
    ASSUME NEW k \in Nat, NEW s, Sound(s, k), NEW p \in Rows(s), NEW r, Alike(r, s),
           \A x \in Rows(s) : At(s, x).kind = "JMP" /\ ~At(r, x).lost /\ At(s, x).jmp \in Rows(s)
                => At(r, x).jmp = OnDelete(At(s, x).jmp, p),
           NEW t, t = RemoveAt(r, p + 1)
    PROVE  Sound(t, k + 1) /\ CallsNoMore(t, s) /\ Len(t) = Len(s) - 1
  <1>1. s \in Seq(Step) /\ r \in Seq(Step) /\ Len(r) = Len(s) /\ Rows(r) = Rows(s)
    BY DEF Sound, Alike
  <1>3. /\ t \in Seq(Step) /\ Len(t) = Len(s) - 1
        /\ \A x \in Rows(t) : x < p => At(t, x) = At(r, x)
        /\ \A x \in Rows(t) : x >= p => At(t, x) = At(r, x + 1)
    <2>1. p \in Rows(r) /\ r \in Seq(Step)
      BY <1>1
    <2>2. t \in Seq(Step) /\ Len(t) = Len(r) - 1
      BY <2>1, Removed
    <2>3. \A x \in Rows(t) : x < p => At(t, x) = At(r, x)
      BY <2>1, Removed
    <2>4. \A x \in Rows(t) : x >= p => At(t, x) = At(r, x + 1)
      BY <2>1, Removed
    <2> QED BY <1>1, <2>2, <2>3, <2>4
  <1>4. /\ Len(s) \in Nat /\ Rows(s) = 0 .. Len(s) - 1 /\ Rows(t) = 0 .. Len(s) - 2
        /\ p \in 0 .. Len(s) - 1
    BY <1>1, <1>3 DEF Rows
  <1> DEFINE src == [x \in Rows(t) |-> IF x < p THEN x ELSE x + 1]
  <1>5. \A x \in Rows(t) : src[x] = IF x < p THEN x ELSE x + 1
    OBVIOUS
  <1>6. src \in [Rows(t) -> Rows(s) \cup {-1}]
    BY <1>4
  <1> HIDE DEF src
  <1>7. \A x, y \in Rows(t) : src[x] = src[y] => x = y
    BY <1>4, <1>5
  <1>8. \A x \in Rows(t) : src[x] # -1
    BY <1>4, <1>5
  <1>9. \A x \in Rows(t) : src[x] \in Rows(s) /\ At(t, x) = At(r, src[x])
    BY <1>3, <1>4, <1>5
  <1>10. ASSUME NEW x \in Rows(t), src[x] # -1
         PROVE  LET new == At(t, x)
                    old == At(s, src[x])
                IN  /\ new.id = old.id /\ new.kind = old.kind /\ new.aim = old.aim
                    /\ new.kind = "JMP" /\ ~new.lost =>
                          /\ ~old.lost /\ new.jmp \in Rows(t)
                          /\ (\E z \in Rows(t) : src[z] = old.jmp) => src[new.jmp] = old.jmp
    <2> DEFINE new == At(t, x)
               old == At(s, src[x])
    <2>1. src[x] \in Rows(s) /\ new = At(r, src[x])
      BY <1>9
    <2>2. /\ new.id = old.id /\ new.kind = old.kind /\ new.aim = old.aim
          /\ old.kind = "JMP" /\ ~new.lost => ~old.lost
      BY <2>1 DEF Alike
    <2>3. ASSUME new.kind = "JMP", ~new.lost
          PROVE  /\ ~old.lost /\ new.jmp \in Rows(t)
                 /\ (\E z \in Rows(t) : src[z] = old.jmp) => src[new.jmp] = old.jmp
      <3>1. ~old.lost /\ old.jmp \in Rows(s)
        BY <2>1, <2>2, <2>3, OnRow
      <3>2. new.jmp = OnDelete(old.jmp, p)
        BY <2>1, <2>2, <2>3, <3>1
      <3> DEFINE j == old.jmp
                 m == new.jmp
      <3>3. j \in Rows(s) /\ m = OnDelete(j, p)
        BY <3>1, <3>2
      <3> HIDE DEF j, m
      <3>4. m \in Rows(t)
        <4>1. x \in 0 .. Len(s) - 2
          BY <1>4
        <4> QED BY <1>4, <3>3, <4>1 DEF OnDelete
      <3>5. (\E z \in Rows(t) : src[z] = j) => src[m] = j
        <4>1. j # p => src[m] = j
          BY <1>4, <1>5, <3>3, <3>4 DEF OnDelete
        <4>2. \A z \in Rows(t) : src[z] # p
          BY <1>4, <1>5
        <4> QED BY <4>1, <4>2
      <3> QED BY <3>1, <3>4, <3>5 DEF j, m
    <2> QED BY <2>2, <2>3
  <1>11. \A x \in Rows(t) : src[x] = -1 =>
            /\ At(t, x).id = 100 + k + 1 /\ At(t, x).jmp = 0 /\ At(t, x).aim = 0
            /\ ~At(t, x).lost
    BY <1>8
  <1>12. Sound(t, k + 1)
    <2>1. t \in Seq(Step)
      BY <1>3
    <2>2. Carried(t, s, src, k)
      BY <1>6, <1>7, <1>10, <1>11 DEF Carried
    <2> QED BY <2>1, <2>2, Relocated
  <1>13. NoNewCalls(t, s)
    <2> SUFFICES ASSUME NEW x \in Rows(t)
                 PROVE  \E y \in Rows(s) :
                           At(s, y).kind = At(t, x).kind /\ At(s, y).call = At(t, x).call
      BY DEF NoNewCalls
    <2>1. src[x] \in Rows(s) /\ At(t, x) = At(r, src[x])
      BY <1>9
    <2> QED BY <2>1 DEF Alike
  <1>14. s \in Seq(Step) /\ t \in Seq(Step)
    BY <1>1, <1>3
  <1>15. CallsNoMore(t, s)
    BY <1>13, <1>14, SameCalls
  <1> QED BY <1>3, <1>12, <1>15

\* A program with two rows swapped stays sound, when its jumps follow them.
LEMMA SwapSound ==
    ASSUME NEW k \in Nat, NEW s, Sound(s, k), NEW p \in Rows(s), NEW q \in Rows(s), p # q,
           NEW r, Alike(r, s),
           \A x \in Rows(s) : At(s, x).kind = "JMP" /\ ~At(r, x).lost /\ At(s, x).jmp \in Rows(s)
                => At(r, x).jmp = OnSwap(At(s, x).jmp, p, q),
           NEW t, t = [r EXCEPT ![p + 1] = At(r, q), ![q + 1] = At(r, p)]
    PROVE  Sound(t, k + 1) /\ CallsNoMore(t, s) /\ Len(t) = Len(s)
  <1>1. s \in Seq(Step) /\ r \in Seq(Step) /\ Len(r) = Len(s) /\ Rows(r) = Rows(s)
    BY DEF Sound, Alike
  <1>2. /\ Len(s) \in Nat /\ Rows(s) = 0 .. Len(s) - 1 /\ DOMAIN r = 1 .. Len(s)
        /\ p \in 0 .. Len(s) - 1 /\ q \in 0 .. Len(s) - 1
    BY <1>1 DEF Rows
  <1>3. /\ t \in Seq(Step) /\ Len(t) = Len(s) /\ Rows(t) = Rows(s)
        /\ \A x \in Rows(s) : At(t, x) = At(r, OnSwap(x, p, q))
    <2>1. At(r, p) \in Step /\ At(r, q) \in Step
      BY <1>1, RowAt
    <2>2. DOMAIN t = DOMAIN r /\ \A i \in DOMAIN r :
             t[i] = IF i = q + 1 THEN At(r, p) ELSE IF i = p + 1 THEN At(r, q) ELSE r[i]
      BY <1>1, <1>2
    <2>3. t \in [DOMAIN r -> Step]
      <3>1. r \in [DOMAIN r -> Step]
        BY <1>1
      <3> QED BY <2>1, <3>1
    <2>4. t \in Seq(Step) /\ Len(t) = Len(r) /\ Rows(t) = Rows(r)
      BY <1>1, <2>3, RowByRow
    <2>5. ASSUME NEW x \in Rows(s)
          PROVE  At(t, x) = At(r, OnSwap(x, p, q))
      <3>1. x \in Int /\ x + 1 \in DOMAIN r
        BY <1>2
      <3>2. t[x + 1] = IF x + 1 = q + 1 THEN At(r, p)
                       ELSE IF x + 1 = p + 1 THEN At(r, q) ELSE r[x + 1]
        BY <2>2, <3>1
      <3>3. (x + 1 = q + 1 <=> x = q) /\ (x + 1 = p + 1 <=> x = p)
        BY <1>2, <3>1
      <3>4. t[x + 1] = IF x = q THEN At(r, p) ELSE IF x = p THEN At(r, q) ELSE At(r, x)
        BY <3>2, <3>3 DEF At
      <3> QED BY <3>4 DEF At, OnSwap
    <2> QED BY <1>1, <2>4, <2>5
  <1> DEFINE src == [x \in Rows(t) |-> OnSwap(x, p, q)]
  <1>5. \A x \in Rows(t) : src[x] = OnSwap(x, p, q)
    OBVIOUS
  <1>6. src \in [Rows(t) -> Rows(s) \cup {-1}]
    BY <1>3 DEF OnSwap
  <1> HIDE DEF src
  <1>7. \A x, y \in Rows(t) : src[x] = src[y] => x = y
    BY <1>5 DEF OnSwap
  <1>8. \A x \in Rows(t) : src[x] \in Rows(s)
    BY <1>3, <1>5 DEF OnSwap
  <1>9. \A x \in Rows(t) : src[x] \in Rows(s) /\ src[x] # -1 /\ At(t, x) = At(r, src[x])
    <2>1. \A x \in Rows(s) : x # -1
      BY <1>2
    <2> QED BY <1>3, <1>5, <1>8, <2>1
  <1>10. ASSUME NEW x \in Rows(t), src[x] # -1
         PROVE  LET new == At(t, x)
                    old == At(s, src[x])
                IN  /\ new.id = old.id /\ new.kind = old.kind /\ new.aim = old.aim
                    /\ new.kind = "JMP" /\ ~new.lost =>
                          /\ ~old.lost /\ new.jmp \in Rows(t)
                          /\ (\E z \in Rows(t) : src[z] = old.jmp) => src[new.jmp] = old.jmp
    <2> DEFINE new == At(t, x)
               old == At(s, src[x])
    <2>1. src[x] \in Rows(s) /\ new = At(r, src[x])
      BY <1>9
    <2>2. /\ new.id = old.id /\ new.kind = old.kind /\ new.aim = old.aim
          /\ old.kind = "JMP" /\ ~new.lost => ~old.lost
      BY <2>1 DEF Alike
    <2>3. ASSUME new.kind = "JMP", ~new.lost
          PROVE  ~old.lost /\ new.jmp \in Rows(t) /\ src[new.jmp] = old.jmp
      <3>1. ~old.lost /\ old.jmp \in Rows(s)
        BY <2>1, <2>2, <2>3, OnRow
      <3>2. new.jmp = OnSwap(old.jmp, p, q)
        BY <2>1, <2>2, <2>3, <3>1
      <3> DEFINE j == old.jmp
                 m == new.jmp
      <3>3. j \in Rows(s) /\ m = OnSwap(j, p, q)
        BY <3>1, <3>2
      <3> HIDE DEF j, m
      <3>4. m \in Rows(t) /\ src[m] = j
        BY <1>3, <1>5, <3>3 DEF OnSwap
      <3> QED BY <3>1, <3>4 DEF j, m
    <2> QED BY <2>2, <2>3
  <1>11. \A x \in Rows(t) : src[x] = -1 =>
            /\ At(t, x).id = 100 + k + 1 /\ At(t, x).jmp = 0 /\ At(t, x).aim = 0
            /\ ~At(t, x).lost
    BY <1>9
  <1>12. Sound(t, k + 1)
    <2>1. t \in Seq(Step)
      BY <1>3
    <2>2. Carried(t, s, src, k)
      BY <1>6, <1>7, <1>10, <1>11 DEF Carried
    <2> QED BY <2>1, <2>2, Relocated
  <1>13. NoNewCalls(t, s)
    <2> SUFFICES ASSUME NEW x \in Rows(t)
                 PROVE  \E y \in Rows(s) :
                           At(s, y).kind = At(t, x).kind /\ At(s, y).call = At(t, x).call
      BY DEF NoNewCalls
    <2>1. src[x] \in Rows(s) /\ At(t, x) = At(r, src[x])
      BY <1>9
    <2> QED BY <2>1 DEF Alike
  <1>14. s \in Seq(Step) /\ t \in Seq(Step)
    BY <1>1, <1>3
  <1>15. CallsNoMore(t, s)
    BY <1>13, <1>14, SameCalls
  <1> QED BY <1>3, <1>12, <1>15

---------------------------------------------------------------------------
(* One change of one program.                                                *)

\* More changes leave the programs sound.
LEMMA BookGrows ==
    ASSUME NEW k \in Nat, NEW p, Book(p, k) PROVE Book(p, k + 1)
  BY SoundGrows DEF Book

\* In the QML editor a program calls programs that are there.
CallsKept(s) == editor = "qml" => Callees(s) \subseteq DOMAIN seqs \cup {""}

\* A change of the program shown keeps the invariant.
LEMMA EditKeeps ==
    ASSUME IInv, changes < MaxChanges, changes' = changes + 1,
           NEW t, SetCurrent(t), Sound(t, changes + 1),
           CallsKept(t),
           Keep, cur' = cur, row' \in -1 .. Len(t) - 1
    PROVE  IInv'
  <1>1. /\ SelectionOK /\ Book(committed, changes) /\ Book(seqs, changes)
        /\ changes \in Nat /\ MaxChanges \in Nat
    <2>1. SelectionOK /\ Book(committed, changes) /\ Book(seqs, changes)
      BY DEF IInv
    <2>2. MaxChanges \in Nat /\ changes \in 0 .. MaxChanges
      BY <2>1, SessionBoundsAssumption DEF SelectionOK
    <2>3. changes \in Nat
      BY <2>2
    <2> QED BY <2>1, <2>2, <2>3, Zenon
  <1>2. /\ editor' = editor /\ committed' = committed /\ open' = open
        /\ seqs' = [seqs EXCEPT ![cur] = t] /\ cur \in DOMAIN seqs
    BY <1>1 DEF Keep, SetCurrent, SelectionOK
  <1>3. /\ DOMAIN seqs' = DOMAIN seqs /\ seqs'[cur] = t
        /\ \A n \in DOMAIN seqs : n # cur => seqs'[n] = seqs[n]
    BY <1>2
  <1>4. SelectionOK'
    <2>1. changes' \in 0 .. MaxChanges
      <3>1. changes \in Nat /\ MaxChanges \in Nat /\ changes < MaxChanges
        BY <1>1, Zenon
      <3>2. changes + 1 \in 0 .. MaxChanges
        BY <3>1
      <3> QED BY <3>2, Zenon
    <2>2. cur' \in DOMAIN seqs' /\ row' \in -1 .. Len(seqs'[cur']) - 1
      BY <1>2, <1>3
    <2>3. editor' \in {"qml", "widget"} /\ open' \in BOOLEAN
      BY <1>1, <1>2 DEF SelectionOK
    <2> QED BY <2>1, <2>2, <2>3 DEF SelectionOK
  <1>5. Book(committed, changes + 1) /\ Book(seqs, changes + 1)
    BY <1>1, BookGrows
  <1>6. Book(seqs', changes + 1)
    BY <1>3, <1>5 DEF Book
  <1>7. editor = "qml" => Callable(seqs')
    BY <1>3 DEF IInv, Callable, CallsKept
  <1>8. editor = "qml" => Callable(committed) /\ Standing(committed)
    BY DEF IInv
  <1> QED BY <1>2, <1>4, <1>5, <1>6, <1>7, <1>8 DEF IInv

\* What the invariant says of the program shown.
LEMMA CurrentIs ==
    ASSUME IInv
    PROVE  /\ Sound(Current, changes) /\ Current \in Seq(Step) /\ Len(Current) \in Nat
           /\ changes \in Nat /\ row \in -1 .. Len(Current) - 1
           /\ editor \in {"qml", "widget"}
           /\ CallsKept(Current)
  <1>1. SelectionOK /\ Sound(Current, changes)
    BY DEF IInv, SelectionOK, Book, Current
  <1>2. Current \in Seq(Step)
    BY <1>1 DEF Sound
  <1>3. CallsKept(Current)
    BY <1>1 DEF IInv, Callable, Current, SelectionOK, CallsKept
  <1>4. changes \in Nat /\ row \in -1 .. Len(Current) - 1 /\ editor \in {"qml", "widget"}
    BY <1>1, SessionBoundsAssumption DEF SelectionOK, Current
  <1>5. Len(Current) \in Nat
    BY <1>2
  <1> QED BY <1>1, <1>2, <1>3, <1>4, <1>5

\* A new step keeps the invariant.
LEMMA AddStepKeeps ==
    ASSUME IInv, changes < MaxChanges, changes' = changes + 1, NEW kind \in Kinds, AddStep(kind)
    PROVE  IInv'
  <1> DEFINE s == Current
             p == InsertRow
             g == [t \in Nat |-> OnInsert(t, p)]
             l == [t \in Nat |-> FALSE]
             e == NewStep(100 + changes + 1, kind)
             r == IF editor = "qml" \/ row >= 0 THEN Turned(s, g, l) ELSE s
             t == InsertAt(r, p + 1, e)
  <1>1. /\ Sound(s, changes) /\ s \in Seq(Step) /\ Len(s) \in Nat
        /\ changes \in Nat /\ row \in -1 .. Len(s) - 1
        /\ editor \in {"qml", "widget"}
        /\ CallsKept(s)
    BY CurrentIs
  <1>2. p \in 0 .. Len(s) /\ (row < 0 => p = Len(s))
    <2> HIDE DEF s, p
    <2>1. CASE row \in Rows(s)
      <3>1. p = row + 1 
        BY <2>1 DEF InsertRow, Selected, p, s
      <3>2. row \in 0 .. Len(s) - 1
        BY <2>1 DEF Rows
      <3> QED BY <1>1, <3>1, <3>2
    <2>2. CASE row \notin Rows(s)
      <3>1. p = Len(s)
        BY <2>2 DEF InsertRow, Selected, p, s
      <3> QED BY <1>1, <3>1
    <2> QED BY <2>1, <2>2
  <1>3. Turned(s, g, l) = [i \in DOMAIN s |->
              IF s[i].kind = "JMP"
              THEN [s[i] EXCEPT !.jmp = OnInsert(s[i].jmp, p), !.lost = s[i].lost \/ FALSE]
              ELSE s[i]]
    <2> HIDE DEF s, p
    <2>1. ASSUME NEW i \in DOMAIN s
          PROVE  g[s[i].jmp] = OnInsert(s[i].jmp, p) /\ l[s[i].jmp] = FALSE
      <3>1. s[i] \in Step
        BY <1>1
      <3>2. s[i].jmp \in Nat
        BY <3>1, StepFields
      <3> QED BY <3>2
    <2> HIDE DEF g, l
    <2> QED BY <2>1 DEF Turned
  <1>4. SetCurrent(t) /\ row' = p /\ Keep /\ cur' = cur
    BY <1>3 DEF AddStep, Retarget, Never
  <1>5. /\ Alike(r, s)
        /\ \A x \in Rows(s) : At(s, x).kind = "JMP" /\ ~At(r, x).lost /\ At(s, x).jmp \in Rows(s)
              => At(r, x).jmp = OnInsert(At(s, x).jmp, p)
    <2> HIDE DEF s, p
    <2>1. \A x \in Rows(s) : At(s, x) \in Step
      BY <1>1, RowAt
    <2>2. CASE editor = "qml" \/ row >= 0
      <3> DEFINE u == Turned(s, g, l)
      <3>1. r = u
        BY <2>2
      <3>2. g \in [Nat -> Nat] /\ l \in [Nat -> BOOLEAN]
        <4>1. \A x \in Nat : OnInsert(x, p) \in Nat
          BY DEF OnInsert
        <4> QED BY <4>1
      <3>3. \A x \in Nat : g[x] = OnInsert(x, p)
        OBVIOUS
      <3> HIDE DEF g, l, r
      <3>4. Alike(u, s) /\ Aimed(u, s, g, l)
        BY <1>1, <3>2, TurnedRows
      <3>5. ASSUME NEW x \in Rows(s), At(s, x).kind = "JMP"
            PROVE  At(r, x).jmp = OnInsert(At(s, x).jmp, p)
        <4>1. At(s, x).jmp \in Nat
          BY <2>1, StepFields
        <4>2. At(r, x).jmp = g[At(s, x).jmp]
          BY <3>1, <3>4, <3>5 DEF Aimed
        <4> QED BY <3>3, <4>1, <4>2
      <3> QED BY <3>1, <3>4, <3>5
    <2>3. CASE ~(editor = "qml" \/ row >= 0)
      <3>1. r = s
        BY <2>3
      <3>2. p = Len(s)
        BY <1>1, <1>2, <2>3
      <3>3. \A x \in Rows(s) : OnInsert(x, p) = x
        BY <1>1, <3>2 DEF Rows, OnInsert
      <3>4. Alike(s, s)
        BY <1>1 DEF Alike
      <3> QED BY <3>1, <3>3, <3>4
    <2> QED BY <2>2, <2>3
  <1> HIDE DEF s, p, r
  <1>6. Sound(t, changes + 1) /\ CallsNoMore(t, s) /\ Len(t) = Len(s) + 1
    BY <1>1, <1>2, <1>5, InsertSound
  <1>7. CallsKept(t)
    BY <1>1, <1>6 DEF CallsKept, CallsNoMore
  <1> HIDE DEF t
  <1>8. row' \in -1 .. Len(t) - 1
    BY <1>1, <1>2, <1>4, <1>6
  <1> QED BY <1>4, <1>6, <1>7, <1>8, EditKeeps

\* The deletion of the selected step does.
LEMMA DeleteSelectedKeeps ==
    ASSUME IInv, changes < MaxChanges, changes' = changes + 1, DeleteSelected
    PROVE  IInv'
  <1> DEFINE s == Current
             p == row
             g == [t \in Nat |-> IF editor = "qml" THEN t ELSE OnDelete(t, p)]
             l == [t \in Nat |-> editor = "qml" /\ t >= p]
             r == Turned(s, g, l)
             t == RemoveAt(r, p + 1)
  <1>1. /\ Sound(s, changes) /\ s \in Seq(Step) /\ Len(s) \in Nat
        /\ changes \in Nat /\ row \in -1 .. Len(s) - 1
        /\ editor \in {"qml", "widget"}
        /\ CallsKept(s)
    BY CurrentIs
  <1>2. p \in Rows(s) /\ p \in Nat
    BY <1>1 DEF DeleteSelected, Selected, Rows
  <1>3. \A i \in DOMAIN s : s[i].jmp \in Nat
    <2>1. \A i \in DOMAIN s : s[i] \in Step
      BY <1>1
    <2> QED BY <2>1, StepFields
  <1>4. /\ editor = "qml" =>
              r = [i \in DOMAIN s |->
                     IF s[i].kind = "JMP"
                     THEN [s[i] EXCEPT !.jmp = s[i].jmp, !.lost = s[i].lost \/ s[i].jmp >= p]
                     ELSE s[i]]
        /\ editor # "qml" =>
              r = [i \in DOMAIN s |->
                     IF s[i].kind = "JMP"
                     THEN [s[i] EXCEPT !.jmp = OnDelete(s[i].jmp, p), !.lost = s[i].lost \/ FALSE]
                     ELSE s[i]]
    <2> HIDE DEF s, p
    <2>1. CASE editor = "qml"
      <3>1. \A i \in DOMAIN s : g[s[i].jmp] = s[i].jmp /\ l[s[i].jmp] = (s[i].jmp >= p)
        BY <1>3, <2>1
      <3> HIDE DEF g, l
      <3> QED BY <2>1, <3>1 DEF Turned
    <2>2. CASE editor # "qml"
      <3>1. \A i \in DOMAIN s : g[s[i].jmp] = OnDelete(s[i].jmp, p) /\ l[s[i].jmp] = FALSE
        BY <1>3, <2>2
      <3> HIDE DEF g, l
      <3> QED BY <2>2, <3>1 DEF Turned
    <2> QED BY <2>1, <2>2
  <1>5. SetCurrent(t) /\ Keep /\ cur' = cur
    BY <1>4 DEF DeleteSelected, Retarget, Never, Kept
  <1>6. row' = IF row < Len(s) - 1 THEN row ELSE Len(s) - 2
    BY DEF DeleteSelected
  <1>7. /\ Alike(r, s)
        /\ \A x \in Rows(s) : At(s, x).kind = "JMP" /\ ~At(r, x).lost /\ At(s, x).jmp \in Rows(s)
              => At(r, x).jmp = OnDelete(At(s, x).jmp, p)
    <2> HIDE DEF s, p
    <2>1. \A x \in Rows(s) : At(s, x) \in Step
      BY <1>1, RowAt
    <2>2. g \in [Nat -> Nat] /\ l \in [Nat -> BOOLEAN]
      <3>1. \A x \in Nat : OnDelete(x, p) \in Nat
        BY <1>2 DEF OnDelete
      <3> QED BY <3>1
    <2>3. ASSUME NEW x \in Nat, ~l[x]
          PROVE  g[x] = OnDelete(x, p)
      <3>1. ~(editor = "qml" /\ x >= p)
        BY <2>3
      <3>2. CASE editor = "qml"
        BY <1>2, <3>1, <3>2 DEF OnDelete
      <3>3. CASE editor # "qml"
        BY <3>3
      <3> QED BY <3>2, <3>3
    <2> HIDE DEF g, l
    <2>4. Alike(r, s) /\ Aimed(r, s, g, l)
      BY <1>1, <2>2, TurnedRows
    <2> HIDE DEF r
    <2>5. ASSUME NEW x \in Rows(s), At(s, x).kind = "JMP", ~At(r, x).lost
          PROVE  At(r, x).jmp = OnDelete(At(s, x).jmp, p)
      <3>1. At(s, x).jmp \in Nat
        BY <2>1, StepFields
      <3>2. At(r, x).jmp = g[At(s, x).jmp] /\ ~l[At(s, x).jmp]
        BY <2>4, <2>5 DEF Aimed
      <3> QED BY <2>3, <3>1, <3>2
    <2> QED BY <2>4, <2>5
  <1> HIDE DEF s, p, r
  <1>8. Sound(t, changes + 1) /\ CallsNoMore(t, s) /\ Len(t) = Len(s) - 1
    BY <1>1, <1>2, <1>7, DeleteSound
  <1>9. CallsKept(t)
    BY <1>1, <1>8 DEF CallsKept, CallsNoMore
  <1> HIDE DEF t
  <1>10. row' \in -1 .. Len(t) - 1
    <2>1. row \in 0 .. Len(s) - 1
      BY <1>1, <1>2 DEF p, Rows
    <2> QED BY <1>1, <1>6, <1>8, <2>1
  <1> QED BY <1>5, <1>8, <1>9, <1>10, EditKeeps

\* The move of the selected step does.
LEMMA MoveSelectedKeeps ==
    ASSUME IInv, changes < MaxChanges, changes' = changes + 1,
           NEW delta \in {-1, 1}, MoveSelected(delta)
    PROVE  IInv'
  <1> DEFINE s == Current
             p == row
             q == row + delta
             g == [t \in Nat |-> IF editor = "qml" THEN t ELSE OnSwap(t, p, q)]
             l == [t \in Nat |-> editor = "qml" /\ t \in {p, q}]
             r == Turned(s, g, l)
             t == [r EXCEPT ![p + 1] = At(r, q), ![q + 1] = At(r, p)]
  <1>1. /\ Sound(s, changes) /\ s \in Seq(Step) /\ Len(s) \in Nat
        /\ changes \in Nat /\ row \in -1 .. Len(s) - 1
        /\ editor \in {"qml", "widget"}
        /\ CallsKept(s)
    BY CurrentIs
  <1>2. p \in Rows(s) /\ p \in Nat /\ q \in Rows(s) /\ q \in Nat /\ p # q
    <2>1. p \in Rows(s) /\ q \in Rows(s)
      BY DEF MoveSelected, Selected
    <2>2. p # q
      BY <1>1
    <2>3. \A x \in Rows(s) : x \in Nat
      BY <1>1 DEF Rows
    <2> QED BY <2>1, <2>2, <2>3
  <1>3. \A i \in DOMAIN s : s[i].jmp \in Nat
    <2>1. \A i \in DOMAIN s : s[i] \in Step
      BY <1>1
    <2> QED BY <2>1, StepFields
  <1>4. /\ editor = "qml" =>
              r = [i \in DOMAIN s |->
                     IF s[i].kind = "JMP"
                     THEN [s[i] EXCEPT !.jmp = s[i].jmp, !.lost = s[i].lost \/ s[i].jmp \in {p, q}]
                     ELSE s[i]]
        /\ editor # "qml" =>
              r = [i \in DOMAIN s |->
                     IF s[i].kind = "JMP"
                     THEN [s[i] EXCEPT !.jmp = OnSwap(s[i].jmp, p, q), !.lost = s[i].lost \/ FALSE]
                     ELSE s[i]]
    <2> HIDE DEF s, p, q
    <2>1. CASE editor = "qml"
      <3>1. \A i \in DOMAIN s : g[s[i].jmp] = s[i].jmp /\ l[s[i].jmp] = (s[i].jmp \in {p, q})
        BY <1>3, <2>1
      <3> HIDE DEF g, l
      <3> QED BY <2>1, <3>1 DEF Turned
    <2>2. CASE editor # "qml"
      <3>1. \A i \in DOMAIN s : g[s[i].jmp] = OnSwap(s[i].jmp, p, q) /\ l[s[i].jmp] = FALSE
        BY <1>3, <2>2
      <3> HIDE DEF g, l
      <3> QED BY <2>2, <3>1 DEF Turned
    <2> QED BY <2>1, <2>2
  <1>5. SetCurrent(t) /\ Keep /\ cur' = cur
    BY <1>4 DEF MoveSelected, Swapped, Retarget, Never, Kept
  <1>6. row' = q
    BY DEF MoveSelected
  <1>7. /\ Alike(r, s)
        /\ \A x \in Rows(s) : At(s, x).kind = "JMP" /\ ~At(r, x).lost /\ At(s, x).jmp \in Rows(s)
              => At(r, x).jmp = OnSwap(At(s, x).jmp, p, q)
    <2> HIDE DEF s, p, q
    <2>1. \A x \in Rows(s) : At(s, x) \in Step
      BY <1>1, RowAt
    <2>2. g \in [Nat -> Nat] /\ l \in [Nat -> BOOLEAN]
      <3>1. \A x \in Nat : OnSwap(x, p, q) \in Nat
        BY <1>2 DEF OnSwap
      <3> QED BY <3>1
    <2>3. \A x \in Nat : ~l[x] => g[x] = OnSwap(x, p, q)
      BY <1>2 DEF OnSwap
    <2> HIDE DEF g, l
    <2>4. Alike(r, s) /\ Aimed(r, s, g, l)
      BY <1>1, <2>2, TurnedRows
    <2> HIDE DEF r
    <2>5. ASSUME NEW x \in Rows(s), At(s, x).kind = "JMP", ~At(r, x).lost
          PROVE  At(r, x).jmp = OnSwap(At(s, x).jmp, p, q)
      <3>1. At(s, x).jmp \in Nat
        BY <2>1, StepFields
      <3>2. At(r, x).jmp = g[At(s, x).jmp] /\ ~l[At(s, x).jmp]
        BY <2>4, <2>5 DEF Aimed
      <3> QED BY <2>3, <3>1, <3>2
    <2> QED BY <2>4, <2>5
  <1> HIDE DEF s, p, q, r
  <1>8. Sound(t, changes + 1) /\ CallsNoMore(t, s) /\ Len(t) = Len(s)
    <2>1. p \in Rows(s) /\ q \in Rows(s) /\ p # q
      BY <1>2
    <2>2. t = [r EXCEPT ![p + 1] = At(r, q), ![q + 1] = At(r, p)]
      OBVIOUS
    <2> HIDE DEF t
    <2>3. Sound(s, changes) /\ changes \in Nat
      BY <1>1
    <2>4. Sound(t, changes + 1)
      BY <1>7, <2>1, <2>2, <2>3, SwapSound
    <2>5. CallsNoMore(t, s)
      BY <1>7, <2>1, <2>2, <2>3, SwapSound
    <2>6. Len(t) = Len(s)
      BY <1>7, <2>1, <2>2, <2>3, SwapSound
    <2> QED BY <2>4, <2>5, <2>6
  <1>9. CallsKept(t)
    BY <1>1, <1>8 DEF CallsKept, CallsNoMore
  <1> HIDE DEF t
  <1>10. row' \in -1 .. Len(t) - 1
    BY <1>1, <1>2, <1>6, <1>8 DEF Rows
  <1> QED BY <1>5, <1>8, <1>9, <1>10, EditKeeps

\* A new target does.
LEMMA SetTargetKeeps ==
    ASSUME IInv, changes < MaxChanges, changes' = changes + 1, SetTarget
    PROVE  IInv'
  <1> DEFINE s == Current
  <1>1. /\ Sound(s, changes) /\ s \in Seq(Step) /\ Len(s) \in Nat
        /\ changes \in Nat /\ row \in -1 .. Len(s) - 1
        /\ CallsKept(s)
    BY CurrentIs
  <1>2. PICK j \in ExecutableRows(s) :
          SetCurrent([s EXCEPT ![row + 1] =
                         [@ EXCEPT !.jmp = j, !.aim = At(s, j).id, !.lost = FALSE]])
    BY DEF SetTarget
  <1> DEFINE y == [s[row + 1] EXCEPT !.jmp = j, !.aim = At(s, j).id, !.lost = FALSE]
             t == [s EXCEPT ![row + 1] = y]
  <1>3. SetCurrent(t) /\ Keep /\ cur' = cur /\ row' = row
    BY <1>2 DEF SetTarget
  <1> HIDE DEF s
  <1>4. /\ j \in Rows(s) /\ j \in Nat /\ At(s, j) \in Step
        /\ row + 1 \in DOMAIN s /\ s[row + 1] \in Step
    <2>1. j \in Rows(s) /\ row \in Rows(s)
      BY DEF ExecutableRows, SetTarget, Selected, s
    <2>2. row + 1 \in DOMAIN s
      BY <1>1, <2>1, RowAt
    <2> QED BY <1>1, <2>1, <2>2 DEF Rows, At
  <1>5. At(s, j).id \in 1 .. 100 + MaxChanges /\ At(s, j).id <= 100 + changes
    <2>1. j + 1 \in DOMAIN s /\ At(s, j) = s[j + 1]
      BY <1>1, <1>4, RowAt
    <2>2. At(s, j).id <= 100 + changes
      BY <1>1, <2>1 DEF Sound
    <2> QED BY <1>4, <2>2, StepFields
  <1>6. /\ y \in Step /\ y.jmp = j /\ y.aim = At(s, j).id
        /\ y.id = s[row + 1].id /\ y.kind = s[row + 1].kind /\ y.call = s[row + 1].call
    <2>1. At(s, j).id \in 0 .. 100 + MaxChanges
      BY <1>5
    <2> QED BY <1>4, <2>1 DEF Step
  <1> HIDE DEF y
  <1>7. /\ t \in [DOMAIN s -> Step]
        /\ \A i \in DOMAIN s : t[i] = IF i = row + 1 THEN y ELSE s[i]
    <2>1. s \in [DOMAIN s -> Step]
      BY <1>1
    <2> QED BY <1>6, <2>1
  <1> HIDE DEF t
  <1>8. t \in Seq(Step) /\ Len(t) = Len(s) /\ Rows(t) = Rows(s) /\ DOMAIN t = DOMAIN s
    BY <1>1, <1>7, RowByRow
  <1>9. \A i \in DOMAIN s : t[i].id = s[i].id /\ t[i].aim <= 100 + changes
    <2>1. \A i \in DOMAIN s : s[i].aim <= 100 + changes
      BY <1>1 DEF Sound
    <2> QED BY <1>5, <1>6, <1>7, <2>1
  <1>10. \A i \in DOMAIN s : t[i].kind = "JMP" /\ ~t[i].lost =>
            \/ s[i].kind = "JMP" /\ ~s[i].lost /\ t[i].jmp = s[i].jmp /\ t[i].aim = s[i].aim
            \/ t[i].jmp \in Rows(s) /\ t[i].aim = At(s, t[i].jmp).id
    <2> SUFFICES ASSUME NEW i \in DOMAIN s, t[i].kind = "JMP", ~t[i].lost
                 PROVE  \/ /\ s[i].kind = "JMP" /\ ~s[i].lost
                           /\ t[i].jmp = s[i].jmp /\ t[i].aim = s[i].aim
                        \/ t[i].jmp \in Rows(s) /\ t[i].aim = At(s, t[i].jmp).id
      BY Zenon
    <2>1. CASE i = row + 1
      BY <1>4, <1>6, <1>7, <2>1
    <2>2. CASE i # row + 1
      <3>1. t[i] = s[i]
        BY <1>7, <2>2
      <3> QED BY <3>1
    <2> QED BY <2>1, <2>2
  <1>11. Sound(t, changes)
    BY <1>1, <1>8, <1>9, <1>10, Renewed
  <1>12. CallsNoMore(t, s)
    <2>1. \A i \in DOMAIN s : t[i].kind = s[i].kind /\ t[i].call = s[i].call
      BY <1>6, <1>7
    <2> QED BY <1>8, <2>1 DEF CallsNoMore, Callees
  <1>13. Sound(t, changes + 1)
    BY <1>1, <1>11, SoundGrows
  <1>14. CallsKept(t)
    BY <1>1, <1>12 DEF CallsKept, CallsNoMore
  <1>15. row' \in -1 .. Len(t) - 1
    BY <1>1, <1>3, <1>8
  <1> QED BY <1>3, <1>13, <1>14, <1>15, EditKeeps

\* Another program to call does.
LEMMA SetTargetSequenceKeeps ==
    ASSUME IInv, changes < MaxChanges, changes' = changes + 1, SetTargetSequence
    PROVE  IInv'
  <1> DEFINE s == Current
  <1>1. /\ Sound(s, changes) /\ s \in Seq(Step) /\ Len(s) \in Nat
        /\ changes \in Nat /\ row \in -1 .. Len(s) - 1
        /\ CallsKept(s)
    BY CurrentIs
  <1>2. PICK n \in DOMAIN seqs \ {cur} : SetCurrent([s EXCEPT ![row + 1].call = n])
    BY DEF SetTargetSequence
  <1> DEFINE y == [s[row + 1] EXCEPT !.call = n]
             t == [s EXCEPT ![row + 1] = y]
  <1>3. SetCurrent(t) /\ Keep /\ cur' = cur /\ row' = row
    BY <1>2 DEF SetTargetSequence
  <1> HIDE DEF s
  <1>4. row + 1 \in DOMAIN s /\ s[row + 1] \in Step /\ s[row + 1].kind = "CALL"
    <2>1. row \in Rows(s) /\ At(s, row).kind = "CALL"
      BY DEF SetTargetSequence, Selected, s
    <2>2. row + 1 \in DOMAIN s /\ At(s, row) = s[row + 1]
      BY <1>1, <2>1, RowAt
    <2> QED BY <1>1, <2>1, <2>2
  <1>5. n \in Names
    BY <1>2 DEF IInv, Book
  <1>6. /\ y \in Step /\ y.jmp = s[row + 1].jmp /\ y.aim = s[row + 1].aim
        /\ y.id = s[row + 1].id /\ y.kind = s[row + 1].kind /\ y.call = n
    BY <1>4, <1>5 DEF Step
  <1> HIDE DEF y
  <1>7. /\ t \in [DOMAIN s -> Step]
        /\ \A i \in DOMAIN s : t[i] = IF i = row + 1 THEN y ELSE s[i]
    <2>1. s \in [DOMAIN s -> Step]
      BY <1>1
    <2> QED BY <1>6, <2>1
  <1> HIDE DEF t
  <1>8. t \in Seq(Step) /\ Len(t) = Len(s) /\ Rows(t) = Rows(s) /\ DOMAIN t = DOMAIN s
    BY <1>1, <1>7, RowByRow
  <1>9. \A i \in DOMAIN s : t[i].id = s[i].id /\ t[i].aim <= 100 + changes
    <2>1. \A i \in DOMAIN s : s[i].aim <= 100 + changes
      BY <1>1 DEF Sound
    <2> QED BY <1>6, <1>7, <2>1
  <1>10. \A i \in DOMAIN s : t[i].kind = "JMP" /\ ~t[i].lost =>
            \/ s[i].kind = "JMP" /\ ~s[i].lost /\ t[i].jmp = s[i].jmp /\ t[i].aim = s[i].aim
            \/ t[i].jmp \in Rows(s) /\ t[i].aim = At(s, t[i].jmp).id
    <2> SUFFICES ASSUME NEW i \in DOMAIN s, t[i].kind = "JMP", ~t[i].lost
                 PROVE  /\ s[i].kind = "JMP" /\ ~s[i].lost
                        /\ t[i].jmp = s[i].jmp /\ t[i].aim = s[i].aim
      BY Zenon
    <2>1. CASE i = row + 1
      BY <1>4, <1>6, <1>7, <2>1
    <2>2. CASE i # row + 1
      <3>1. t[i] = s[i]
        BY <1>7, <2>2
      <3> QED BY <3>1
    <2> QED BY <2>1, <2>2
  <1>11. Sound(t, changes)
    BY <1>1, <1>8, <1>9, <1>10, Renewed
  <1>13. Sound(t, changes + 1)
    BY <1>1, <1>11, SoundGrows
  <1>14. CallsKept(t)
    <2>1. \A i \in DOMAIN s : t[i].kind = s[i].kind /\ (t[i].call = s[i].call \/ t[i].call = n)
      BY <1>6, <1>7
    <2>2. Callees(t) \subseteq Callees(s) \cup {n}
      BY <1>8, <2>1 DEF Callees
    <2> QED BY <1>1, <1>2, <2>2 DEF CallsKept
  <1>15. row' \in -1 .. Len(t) - 1
    BY <1>1, <1>3, <1>8
  <1> QED BY <1>3, <1>13, <1>14, <1>15, EditKeeps

---------------------------------------------------------------------------
(* Changes of the set of programs.                                           *)

\* A change of the set of programs keeps the invariant.
LEMMA ProgramsKeep ==
    ASSUME IInv, changes < MaxChanges, changes' = changes + 1, Keep,
           Book(seqs', changes + 1), editor = "qml" => Callable(seqs'),
           cur' \in DOMAIN seqs', row' \in -1 .. Len(seqs'[cur']) - 1
    PROVE  IInv'
  <1>1. SelectionOK /\ Book(committed, changes)
    BY DEF IInv
  <1>2. /\ editor' = editor /\ committed' = committed /\ open' = open
    BY DEF Keep
  <1>3. changes \in Nat /\ changes + 1 \in 0 .. MaxChanges
    BY <1>1, SessionBoundsAssumption DEF SelectionOK
  <1>4. SelectionOK'
    BY <1>1, <1>2, <1>3 DEF SelectionOK
  <1>5. Book(committed, changes + 1)
    BY <1>1, <1>3, BookGrows
  <1>6. editor = "qml" => Callable(committed) /\ Standing(committed)
    BY DEF IInv
  <1> QED BY <1>2, <1>4, <1>5, <1>6 DEF IInv

\* The first row of a program.
LEMMA FirstOK == ASSUME NEW s, s \in Seq(Step) PROVE First(s) \in -1 .. Len(s) - 1
  BY DEF First

\* A new program does.
LEMMA AddSequenceKeeps ==
    ASSUME IInv, changes < MaxChanges, changes' = changes + 1, AddSequence
    PROVE  IInv'
  <1>1. PICK n \in Subs \ DOMAIN seqs :
           /\ seqs' = [m \in DOMAIN seqs \cup {n} |-> IF m = n THEN <<>> ELSE seqs[m]]
           /\ cur' = n
    BY DEF AddSequence
  <1>2. /\ DOMAIN seqs' = DOMAIN seqs \cup {n} /\ seqs'[n] = <<>>
        /\ \A m \in DOMAIN seqs : seqs'[m] = seqs[m]
    <2>1. DOMAIN seqs' = DOMAIN seqs \cup {n}
      BY <1>1
    <2>2. seqs'[n] = <<>>
      BY <1>1
    <2>3. \A m \in DOMAIN seqs : m # n
      OBVIOUS
    <2>4. \A m \in DOMAIN seqs : seqs'[m] = seqs[m]
      BY <1>1, <2>3
    <2> QED BY <2>1, <2>2, <2>4
  <1>3. row' = -1 /\ Keep
    BY DEF AddSequence
  <1>4. changes \in Nat /\ Book(seqs, changes)
    BY SessionBoundsAssumption DEF IInv, SelectionOK
  <1>5. Book(seqs, changes + 1)
    BY <1>4, BookGrows
  <1>6. Sound(<<>>, changes + 1)
    BY DEF Sound
  <1>7. Book(seqs', changes + 1)
    BY <1>1, <1>2, <1>5, <1>6 DEF Book, Names
  <1>8. editor = "qml" => Callable(seqs')
    <2> SUFFICES ASSUME editor = "qml" PROVE Callable(seqs')
      OBVIOUS
    <2>1. Callable(seqs)
      BY DEF IInv
    <2>2. Callees(<<>>) = {""}
      BY DEF Callees
    <2> QED BY <1>2, <2>1, <2>2 DEF Callable
  <1>9. cur' \in DOMAIN seqs' /\ row' \in -1 .. Len(seqs'[cur']) - 1
    BY <1>1, <1>2, <1>3
  <1> QED BY <1>3, <1>7, <1>8, <1>9, ProgramsKeep

\* What calls named anew leave: the same programs called, but for that name.
Renamed(t, s, old, new, k) ==
    /\ Sound(t, k) /\ Len(t) = Len(s)
    /\ Callees(t) \subseteq (Callees(s) \ {old}) \cup {new, ""}

\* Calls named anew leave a program sound, and call the same programs but for that name.
LEMMA RecalledSound ==
    ASSUME NEW k \in Nat, NEW s, Sound(s, k), NEW old, NEW new \in Names \cup {""},
           NEW t, t = Recalled(s, old, new)
    PROVE  Renamed(t, s, old, new, k)
  <1>1. s \in Seq(Step)
    BY DEF Sound
  <1>3. \A i \in DOMAIN s : s[i] \in Step
    BY <1>1, AllSteps
  <1> DEFINE F(i) == IF s[i].kind = "CALL" /\ s[i].call = old
                     THEN [s[i] EXCEPT !.call = new] ELSE s[i]
  <1>2. t = [i \in DOMAIN s |-> F(i)]
    BY DEF Recalled
  <1>4. \A i \in DOMAIN s :
           /\ F(i) \in Step /\ F(i).id = s[i].id /\ F(i).kind = s[i].kind
           /\ F(i).jmp = s[i].jmp /\ F(i).aim = s[i].aim /\ F(i).lost = s[i].lost
           /\ s[i].kind = "CALL" => F(i).call = IF s[i].call = old THEN new ELSE s[i].call
    <2> SUFFICES ASSUME NEW i \in DOMAIN s
                 PROVE  /\ F(i) \in Step /\ F(i).id = s[i].id /\ F(i).kind = s[i].kind
                        /\ F(i).jmp = s[i].jmp /\ F(i).aim = s[i].aim /\ F(i).lost = s[i].lost
                        /\ s[i].kind = "CALL" => F(i).call = IF s[i].call = old THEN new ELSE s[i].call
      BY Zenon
    <2>1. CASE s[i].kind = "CALL" /\ s[i].call = old
      <3> DEFINE y == [s[i] EXCEPT !.call = new]
      <3>1. F(i) = y
        BY <2>1
      <3>2. /\ y \in Step /\ y.id = s[i].id /\ y.kind = s[i].kind
            /\ y.jmp = s[i].jmp /\ y.aim = s[i].aim /\ y.lost = s[i].lost /\ y.call = new
        BY <1>3 DEF Step
      <3> HIDE DEF y, F
      <3> QED BY <2>1, <3>1, <3>2
    <2>2. CASE ~(s[i].kind = "CALL" /\ s[i].call = old)
      <3>1. F(i) = s[i]
        BY <2>2
      <3> HIDE DEF F
      <3> QED BY <1>3, <2>2, <3>1
    <2> QED BY <2>1, <2>2
  <1> HIDE DEF F
  <1>5. t \in [DOMAIN s -> Step] /\ \A i \in DOMAIN s : t[i] = F(i)
    BY <1>2, <1>4
  <1>6. t \in Seq(Step) /\ Len(t) = Len(s) /\ DOMAIN t = DOMAIN s
    BY <1>1, <1>5, RowByRow
  <1>7. \A i \in DOMAIN s : t[i].id = s[i].id /\ t[i].aim <= 100 + k
    <2>1. \A i \in DOMAIN s : s[i].aim <= 100 + k
      BY DEF Sound
    <2> QED BY <1>4, <1>5, <2>1
  <1>8. \A i \in DOMAIN s : t[i].kind = "JMP" /\ ~t[i].lost =>
           \/ s[i].kind = "JMP" /\ ~s[i].lost /\ t[i].jmp = s[i].jmp /\ t[i].aim = s[i].aim
           \/ t[i].jmp \in Rows(s) /\ t[i].aim = At(s, t[i].jmp).id
    <2>1. \A i \in DOMAIN s : /\ t[i].kind = s[i].kind /\ t[i].lost = s[i].lost
                              /\ t[i].jmp = s[i].jmp /\ t[i].aim = s[i].aim
      BY <1>4, <1>5
    <2> QED BY <2>1, Zenon
  <1>9. Sound(t, k)
    BY <1>6, <1>7, <1>8, Renewed
  <1>10. Callees(t) \subseteq (Callees(s) \ {old}) \cup {new, ""}
    <2> SUFFICES ASSUME NEW i \in DOMAIN t, t[i].kind = "CALL"
                 PROVE  t[i].call \in (Callees(s) \ {old}) \cup {new, ""}
      BY DEF Callees
    <2>1. s[i].kind = "CALL" /\ t[i].call = IF s[i].call = old THEN new ELSE s[i].call
      BY <1>4, <1>5, <1>6
    <2>2. s[i].call \in Callees(s)
      BY <1>6, <2>1 DEF Callees
    <2> QED BY <2>1, <2>2
  <1> QED BY <1>6, <1>9, <1>10 DEF Renamed

\* A new name does.
LEMMA RenameSequenceKeeps ==
    ASSUME IInv, changes < MaxChanges, changes' = changes + 1, RenameSequence
    PROVE  IInv'
  <1>1. PICK old \in DOMAIN seqs \cap Subs, new \in Subs \ DOMAIN seqs :
        /\ seqs' = [m \in (DOMAIN seqs \ {old}) \cup {new} |->
                       Recalled(seqs[IF m = new THEN old ELSE m], old, new)]
        /\ cur' = IF cur = old THEN new ELSE cur
        /\ IF editor = "qml" THEN UNCHANGED row ELSE Shown(cur')
        /\ Keep
    BY DEF RenameSequence
  <1> DEFINE was(m) == IF m = new THEN old ELSE m
  <1>2. /\ DOMAIN seqs' = (DOMAIN seqs \ {old}) \cup {new}
        /\ \A m \in DOMAIN seqs' : was(m) \in DOMAIN seqs /\ seqs'[m] = Recalled(seqs[was(m)], old, new)
    BY <1>1
  <1>3. changes \in Nat /\ Book(seqs, changes) /\ SelectionOK
    BY SessionBoundsAssumption DEF IInv, SelectionOK
  <1>4. ASSUME NEW m \in DOMAIN seqs'
        PROVE  /\ Sound(seqs'[m], changes + 1) /\ Len(seqs'[m]) = Len(seqs[was(m)])
               /\ Callees(seqs'[m]) \subseteq (Callees(seqs[was(m)]) \ {old}) \cup {new, ""}
    <2>1. Sound(seqs[was(m)], changes) /\ new \in Names \cup {""}
      BY <1>2, <1>3 DEF Book, Names
    <2>2. /\ Sound(seqs'[m], changes) /\ Len(seqs'[m]) = Len(seqs[was(m)])
          /\ Callees(seqs'[m]) \subseteq (Callees(seqs[was(m)]) \ {old}) \cup {new, ""}
      <3>1. seqs'[m] = Recalled(seqs[was(m)], old, new)
        BY <1>2
      <3> HIDE DEF was
      <3>2. Renamed(seqs'[m], seqs[was(m)], old, new, changes)
        BY <1>3, <2>1, <3>1, RecalledSound
      <3> QED BY <3>2 DEF Renamed
    <2> QED BY <1>3, <2>2, SoundGrows
  <1>5. Book(seqs', changes + 1)
    <2>1. DOMAIN seqs' \subseteq Names /\ "Main" \in DOMAIN seqs'
      BY <1>2, <1>3, NamesAssumption DEF Book, Names
    <2> QED BY <1>4, <2>1 DEF Book
  <1>6. editor = "qml" => Callable(seqs')
    <2> SUFFICES ASSUME editor = "qml" PROVE Callable(seqs')
      OBVIOUS
    <2>1. Callable(seqs)
      BY DEF IInv
    <2>2. "Monitor" \in DOMAIN seqs'
      BY <1>2, <2>1, NamesAssumption DEF Callable
    <2>3. ASSUME NEW m \in DOMAIN seqs'
          PROVE  Callees(seqs'[m]) \subseteq DOMAIN seqs' \cup {""}
      <3>1. Callees(seqs[was(m)]) \subseteq DOMAIN seqs \cup {""}
        BY <1>2, <2>1 DEF Callable
      <3> QED BY <1>2, <1>4, <3>1
    <2> QED BY <2>2, <2>3 DEF Callable
  <1>7. cur' \in DOMAIN seqs' /\ was(cur') = cur
    BY <1>1, <1>2, <1>3 DEF SelectionOK
  <1>8. row' \in -1 .. Len(seqs'[cur']) - 1
    <2>1. CASE editor = "qml"
      BY <1>1, <1>3, <1>4, <1>7, <2>1 DEF SelectionOK
    <2>2. CASE editor # "qml"
      <3>1. seqs'[cur'] \in Seq(Step)
        BY <1>4, <1>7 DEF Sound
      <3> QED BY <1>1, <2>2, <3>1, FirstOK DEF Shown
    <2> QED BY <2>1, <2>2
  <1> QED BY <1>1, <1>5, <1>6, <1>7, <1>8, ProgramsKeep

\* The deletion of a program does.
LEMMA DeleteSequenceKeeps ==
    ASSUME IInv, changes < MaxChanges, changes' = changes + 1, DeleteSequence
    PROVE  IInv'
  <1>1. /\ DOMAIN seqs' = DOMAIN seqs \ {cur}
        /\ \A m \in DOMAIN seqs' :
              seqs'[m] = IF editor = "qml" THEN Recalled(seqs[m], cur, "") ELSE seqs[m]
    BY DEF DeleteSequence
  <1>2. cur # "Main" /\ (editor = "qml" => cur # "Monitor") /\ cur' = "Main" /\ Shown("Main") /\ Keep
    BY DEF DeleteSequence
  <1>3. changes \in Nat /\ Book(seqs, changes)
    BY SessionBoundsAssumption DEF IInv, SelectionOK
  <1>4. ASSUME NEW m \in DOMAIN seqs'
        PROVE  /\ Sound(seqs'[m], changes + 1)
               /\ editor = "qml" => Callees(seqs'[m]) \subseteq (Callees(seqs[m]) \ {cur}) \cup {""}
    <2>1. Sound(seqs[m], changes)
      BY <1>1, <1>3 DEF Book
    <2>2. CASE editor = "qml"
      <3>1. seqs'[m] = Recalled(seqs[m], cur, "") /\ "" \in Names \cup {""}
        BY <1>1, <2>2
      <3>2. /\ Sound(seqs'[m], changes)
            /\ Callees(seqs'[m]) \subseteq (Callees(seqs[m]) \ {cur}) \cup {"", ""}
        <4>1. Renamed(seqs'[m], seqs[m], cur, "", changes)
          BY <1>3, <2>1, <3>1, RecalledSound
        <4> QED BY <4>1 DEF Renamed
      <3> QED BY <1>3, <3>2, SoundGrows
    <2>3. CASE editor # "qml"
      BY <1>1, <1>3, <2>1, <2>3, SoundGrows
    <2> QED BY <2>2, <2>3
  <1>5. Book(seqs', changes + 1)
    BY <1>1, <1>2, <1>3, <1>4 DEF Book
  <1>6. editor = "qml" => Callable(seqs')
    <2> SUFFICES ASSUME editor = "qml" PROVE Callable(seqs')
      OBVIOUS
    <2>1. Callable(seqs)
      BY DEF IInv
    <2>2. "Monitor" \in DOMAIN seqs'
      BY <1>1, <1>2, <2>1 DEF Callable
    <2>3. ASSUME NEW m \in DOMAIN seqs'
          PROVE  Callees(seqs'[m]) \subseteq DOMAIN seqs' \cup {""}
      <3>1. Callees(seqs[m]) \subseteq DOMAIN seqs \cup {""}
        BY <1>1, <2>1 DEF Callable
      <3> QED BY <1>1, <1>4, <3>1
    <2> QED BY <2>2, <2>3 DEF Callable
  <1>7. cur' \in DOMAIN seqs' /\ row' \in -1 .. Len(seqs'[cur']) - 1
    <2>1. cur' = "Main" /\ "Main" \in DOMAIN seqs'
      BY <1>2, <1>5 DEF Book
    <2>2. seqs'["Main"] \in Seq(Step)
      BY <1>5, <2>1 DEF Book, Sound
    <2> QED BY <1>2, <2>1, <2>2, FirstOK DEF Shown
  <1> QED BY <1>2, <1>5, <1>6, <1>7, ProgramsKeep

---------------------------------------------------------------------------
(* The check of Monitor before saving, and the session.                      *)

\* There are finitely many names, and Monitor is one.
LEMMA NamesFinite ==
    /\ IsFiniteSet(Names) /\ Cardinality(Names) \in Nat /\ Cardinality(Names) >= 1
    /\ "Monitor" \in Names
  <1>1. IsFiniteSet(Subs)
    BY NamesAssumption
  <1>2. IsFiniteSet(Subs \cup {"Main"})
    BY <1>1, FS_AddElement
  <1>3. IsFiniteSet((Subs \cup {"Main"}) \cup {"Monitor"})
    BY <1>2, FS_AddElement
  <1>4. Names = (Subs \cup {"Main"}) \cup {"Monitor"}
    BY DEF Names
  <1>5. IsFiniteSet(Names) /\ "Monitor" \in Names
    BY <1>3, <1>4
  <1>6. Cardinality(Names) \in Nat
    BY <1>5, FS_CardinalityType
  <1>7. Cardinality(Names) # 0
    BY <1>5, FS_EmptySet
  <1> QED BY <1>5, <1>6, <1>7

\* A path has a length, and its last name is that of its last place.
LEMMA PathIs ==
    ASSUME NEW p \in Paths
    PROVE  \E k \in Nat : /\ 1 <= k /\ k <= Cardinality(Names) /\ p \in [1 .. k -> Names]
                          /\ DOMAIN p = 1 .. k /\ Len(p) = k /\ Last(p) = p[k]
                          /\ p[1] = "Monitor" /\ IsInjective(p)
  <1>1. PICK k \in 1 .. Cardinality(Names) : p \in [1 .. k -> Names]
    BY DEF Paths
  <1>2. k \in Nat /\ 1 <= k /\ k <= Cardinality(Names)
    BY NamesFinite
  <1>3. DOMAIN p = 1 .. k /\ Len(p) = k
    BY <1>1, <1>2
  <1>4. Last(p) = p[k]
    BY <1>3 DEF Last
  <1> QED BY <1>1, <1>2, <1>3, <1>4 DEF Paths

\* An injective function into the names that starts with Monitor is a path.
LEMMA IsPath ==
    ASSUME NEW k \in Nat, 1 <= k, NEW p \in [1 .. k -> Names], p[1] = "Monitor",
           IsInjective(p)
    PROVE  p \in Paths /\ Len(p) = k /\ Last(p) = p[k]
  <1>1. p \in Injection(1 .. k, Names)
    BY DEF Injection
  <1>2. Cardinality(1 .. k) = k
    BY FS_Interval
  <1>3. k <= Cardinality(Names)
    BY <1>1, <1>2, NamesFinite, FS_Injection
  <1>4. k \in 1 .. Cardinality(Names)
    BY <1>3, NamesFinite
  <1>5. Len(p) = k
    OBVIOUS
  <1> QED BY <1>4, <1>5 DEF Paths, Last

\* When no way from Monitor leads to a POS, the programs it leads to stand still.
LEMMA CheckedStands ==
    ASSUME Callable(seqs), DOMAIN seqs \subseteq Names, ~MonitorMoves
    PROVE  Standing(seqs)
  <1> DEFINE P == {n \in DOMAIN seqs : \E p \in Paths : CallsAlong(p) /\ Last(p) = n}
  <1>1. "Monitor" \in P
    <2> DEFINE p == [i \in 1 .. 1 |-> "Monitor"]
    <2>1. p \in [1 .. 1 -> Names] /\ p[1] = "Monitor"
      BY NamesFinite
    <2>2. IsInjective(p)
      BY DEF IsInjective
    <2> HIDE DEF p
    <2>3. p \in Paths /\ Len(p) = 1 /\ Last(p) = "Monitor"
      <3>1. 1 \in Nat /\ 1 <= 1
        OBVIOUS
      <3>2. p \in Paths /\ Len(p) = 1 /\ Last(p) = p[1]
        BY <2>1, <2>2, <3>1, IsPath
      <3> QED BY <2>1, <3>2
    <2>4. CallsAlong(p)
      <3>1. \A j \in DOMAIN p : p[j] = "Monitor"
        BY <2>1
      <3>2. 2 .. Len(p) = {}
        BY <2>3
      <3> QED BY <3>1, <3>2 DEF CallsAlong, Callable
    <2> QED BY <2>3, <2>4 DEF Callable
  <1>2. ASSUME NEW n \in P, NEW i \in DOMAIN seqs[n]
        PROVE  seqs[n][i].kind # "POS"
    BY <1>2 DEF MonitorMoves
  <1>3. ASSUME NEW n \in P, NEW i \in DOMAIN seqs[n],
               seqs[n][i].kind = "CALL", seqs[n][i].call # ""
        PROVE  seqs[n][i].call \in P
    <2> DEFINE m == seqs[n][i].call
    <2>1. m \in DOMAIN seqs
      <3>1. m \in Callees(seqs[n])
        BY <1>3 DEF Callees
      <3> QED BY <1>3, <3>1 DEF Callable
    <2>2. PICK p \in Paths : CallsAlong(p) /\ Last(p) = n
      OBVIOUS
    <2>3. PICK k \in Nat : /\ 1 <= k /\ k <= Cardinality(Names) /\ p \in [1 .. k -> Names]
                           /\ DOMAIN p = 1 .. k /\ Len(p) = k /\ Last(p) = p[k]
                           /\ p[1] = "Monitor" /\ IsInjective(p)
      BY PathIs
    <2>4. /\ \A j \in 1 .. k : p[j] \in DOMAIN seqs
          /\ \A j \in 2 .. k : \E x \in DOMAIN seqs[p[j - 1]] :
                seqs[p[j - 1]][x].kind = "CALL" /\ seqs[p[j - 1]][x].call = p[j]
      BY <2>2, <2>3 DEF CallsAlong
    <2> HIDE DEF m
    <2>5. CASE \E j \in 1 .. k : p[j] = m
      <3>1. PICK j \in 1 .. k : p[j] = m
        BY <2>5
      <3> DEFINE r == [x \in 1 .. j |-> p[x]]
      <3>2. j \in Nat /\ 1 <= j /\ j <= k
        BY <2>3
      <3>3. r \in [1 .. j -> Names] /\ r[1] = "Monitor" /\ r[j] = m /\ DOMAIN r = 1 .. j
        BY <2>3, <3>1, <3>2
      <3>4. \A x \in 1 .. j : r[x] = p[x] /\ x \in 1 .. k
        BY <3>2
      <3> HIDE DEF r
      <3>5. IsInjective(r)
        BY <2>3, <3>3, <3>4 DEF IsInjective
      <3>6. r \in Paths /\ Len(r) = j /\ Last(r) = m
        BY <3>2, <3>3, <3>5, IsPath
      <3>7. \A x \in 2 .. j : x \in 2 .. k /\ x \in 1 .. j /\ x - 1 \in 1 .. j
        BY <3>2
      <3>8. CallsAlong(r)
        <4>1. \A x \in DOMAIN r : r[x] \in DOMAIN seqs
          BY <2>4, <3>3, <3>4
        <4>2. ASSUME NEW x \in 2 .. Len(r)
              PROVE  \E y \in DOMAIN seqs[r[x - 1]] :
                        seqs[r[x - 1]][y].kind = "CALL" /\ seqs[r[x - 1]][y].call = r[x]
          <5>1. x \in 2 .. k /\ r[x] = p[x] /\ r[x - 1] = p[x - 1]
            BY <3>4, <3>6, <3>7
          <5> QED BY <2>4, <5>1
        <4> QED BY <4>1, <4>2 DEF CallsAlong
      <3> QED BY <2>1, <3>6, <3>8 DEF m
    <2>6. CASE \A j \in 1 .. k : p[j] # m
      <3> DEFINE r == [x \in 1 .. k + 1 |-> IF x <= k THEN p[x] ELSE m]
      <3>1. m \in Names
        BY <2>1
      <3>2. r \in [1 .. k + 1 -> Names] /\ DOMAIN r = 1 .. k + 1
        BY <2>3, <3>1
      <3>3. r[k + 1] = m /\ (\A x \in 1 .. k : r[x] = p[x]) /\ r[1] = "Monitor"
        BY <2>3
      <3> HIDE DEF r
      <3>4. IsInjective(r)
        <4> SUFFICES ASSUME NEW a \in 1 .. k + 1, NEW b \in 1 .. k + 1, r[a] = r[b]
                     PROVE  a = b
          BY <3>2 DEF IsInjective
        <4>1. (a \in 1 .. k \/ a = k + 1) /\ (b \in 1 .. k \/ b = k + 1)
          BY <2>3
        <4>2. \A x, y \in 1 .. k : p[x] = p[y] => x = y
          BY <2>3 DEF IsInjective
        <4> QED BY <2>6, <3>3, <4>1, <4>2
      <3>5. k + 1 \in Nat /\ 1 <= k + 1
        BY <2>3
      <3>6. r \in Paths /\ Len(r) = k + 1 /\ Last(r) = m
        BY <3>2, <3>3, <3>4, <3>5, IsPath
      <3>7. CallsAlong(r)
        <4>1. \A x \in 1 .. k + 1 : x \in 1 .. k \/ x = k + 1
          BY <2>3
        <4>2. \A x \in DOMAIN r : r[x] \in DOMAIN seqs
          BY <2>1, <2>4, <3>2, <3>3, <4>1
        <4>3. ASSUME NEW x \in 2 .. Len(r)
              PROVE  \E y \in DOMAIN seqs[r[x - 1]] :
                        seqs[r[x - 1]][y].kind = "CALL" /\ seqs[r[x - 1]][y].call = r[x]
          <5>1. CASE x \in 2 .. k
            <6>1. x \in 1 .. k /\ x - 1 \in 1 .. k
              BY <2>3, <5>1
            <6> QED BY <2>4, <3>3, <5>1, <6>1
          <5>2. CASE x = k + 1
            <6>1. r[x] = m /\ x - 1 = k /\ k \in 1 .. k
              BY <2>3, <3>3, <5>2
            <6>2. r[x - 1] = n
              BY <2>2, <2>3, <3>3, <6>1
            <6> QED BY <1>3, <6>1, <6>2 DEF m
          <5>3. x \in 2 .. k \/ x = k + 1
            BY <2>3, <3>6
          <5> QED BY <5>1, <5>2, <5>3
        <4> QED BY <4>2, <4>3 DEF CallsAlong
      <3> QED BY <2>1, <3>6, <3>7 DEF m
    <2> QED BY <2>5, <2>6
  <1>4. P \in SUBSET DOMAIN seqs
    OBVIOUS
  <1> HIDE DEF P
  <1> QED BY <1>1, <1>2, <1>3, <1>4 DEF Standing

\* When some way from Monitor leads to a POS, there is a Monitor and it has a step; the row
\* shown is one of its.
LEMMA RefusedShows ==
    ASSUME Book(seqs, changes), MonitorMoves
    PROVE  /\ "Monitor" \in DOMAIN seqs
           /\ (LET s == seqs["Monitor"] IN
               IF PositionRows(s) # {} THEN Min(PositionRows(s)) ELSE 0)
                 \in -1 .. Len(seqs["Monitor"]) - 1
  <1>1. PICK p \in Paths : CallsAlong(p) /\ \E i \in DOMAIN seqs[Last(p)] :
                                              seqs[Last(p)][i].kind = "POS"
    BY DEF MonitorMoves
  <1>2. PICK k \in Nat : /\ 1 <= k /\ k <= Cardinality(Names) /\ p \in [1 .. k -> Names]
                         /\ DOMAIN p = 1 .. k /\ Len(p) = k /\ Last(p) = p[k]
                         /\ p[1] = "Monitor" /\ IsInjective(p)
    BY PathIs
  <1> DEFINE s == seqs["Monitor"]
  <1>3. "Monitor" \in DOMAIN seqs
    BY <1>1, <1>2 DEF CallsAlong
  <1>4. s \in Seq(Step)
    BY <1>3 DEF Book, Sound
  <1>5. \E i \in DOMAIN s : TRUE
    <2>1. CASE k = 1
      BY <1>1, <1>2, <2>1
    <2>2. CASE k # 1
      <3>1. 2 \in 2 .. Len(p) /\ 2 - 1 = 1
        BY <1>2, <2>2
      <3> QED BY <1>1, <1>2, <3>1 DEF CallsAlong
    <2> QED BY <2>1, <2>2
  <1> HIDE DEF s
  <1>6. Len(s) \in Nat /\ Len(s) >= 1 /\ Rows(s) = 0 .. Len(s) - 1
    BY <1>4, <1>5 DEF Rows
  <1>7. PositionRows(s) # {} => Min(PositionRows(s)) \in Rows(s)
    <2>1. PositionRows(s) \in SUBSET Nat /\ PositionRows(s) \subseteq Rows(s)
      BY <1>6 DEF PositionRows
    <2> QED BY <2>1, MinIsLeast
  <1>8. (IF PositionRows(s) # {} THEN Min(PositionRows(s)) ELSE 0) \in -1 .. Len(s) - 1
    BY <1>6, <1>7
  <1> QED BY <1>3, <1>8 DEF s

\* A refused save keeps the invariant.
LEMMA RefuseSaveKeeps == ASSUME IInv, RefuseSave PROVE IInv'
  <1>1. /\ editor' = editor /\ committed' = committed /\ seqs' = seqs
        /\ open' = open /\ changes' = changes
    BY DEF RefuseSave
  <1>2. SelectionOK /\ Book(seqs, changes)
    BY DEF IInv
  <1>3. "Monitor" \in DOMAIN seqs /\ cur' = "Monitor" /\ row' \in -1 .. Len(seqs["Monitor"]) - 1
    <2>1. MonitorMoves /\ cur' = "Monitor"
      BY DEF RefuseSave
    <2> QED BY <1>2, <2>1, RefusedShows DEF RefuseSave
  <1>4. SelectionOK'
    BY <1>1, <1>2, <1>3 DEF SelectionOK
  <1> QED BY <1>1, <1>4 DEF IInv

\* So does the end of a session, with programs that are sound.
LEMMA CloseKeeps ==
    ASSUME IInv, NEW p, Close(p), Book(p, changes), editor = "qml" => Callable(p) /\ Standing(p)
    PROVE  IInv'
  <1>1. /\ committed' = p /\ seqs' = p /\ cur' = "Main" /\ row' = -1 /\ open' = FALSE
        /\ editor' = editor /\ changes' = changes
    BY DEF Close
  <1>2. SelectionOK /\ "Main" \in DOMAIN p /\ p["Main"] \in Seq(Step)
    BY DEF IInv, Book, Sound
  <1>3. -1 \in -1 .. Len(p["Main"]) - 1
    BY <1>2
  <1>4. SelectionOK'
    BY <1>1, <1>2, <1>3 DEF SelectionOK
  <1> QED BY <1>1, <1>4 DEF IInv

\* The programs saved are sound, and Monitor stands.
LEMMA SaveKeeps == ASSUME IInv, Save PROVE IInv'
  <1>1. Close(seqs) /\ Book(seqs, changes) /\ (editor = "qml" => ~MonitorMoves)
    BY DEF Save, IInv
  <1>2. editor = "qml" => Callable(seqs) /\ Standing(seqs)
    BY <1>1, CheckedStands DEF IInv, Book
  <1> QED BY <1>1, <1>2, CloseKeeps

\* Those of before are, too.
LEMMA CancelKeeps == ASSUME IInv, Cancel PROVE IInv'
  <1>1. Close(committed) /\ Book(committed, changes)
    BY DEF Cancel, IInv
  <1>2. editor = "qml" => Callable(committed) /\ Standing(committed)
    BY DEF IInv
  <1> QED BY <1>1, <1>2, CloseKeeps

\* A new session works on a copy of them.
LEMMA OpenKeeps == ASSUME IInv, Open PROVE IInv'
  <1>1. /\ open' = TRUE /\ seqs' = committed /\ cur' = "Main"
        /\ row' = First(committed["Main"])
        /\ editor' = editor /\ committed' = committed /\ changes' = changes
    BY DEF Open
  <1>2. SelectionOK /\ "Main" \in DOMAIN committed /\ committed["Main"] \in Seq(Step)
    BY DEF IInv, Book, Sound
  <1>3. SelectionOK'
    BY <1>1, <1>2, FirstOK DEF SelectionOK
  <1>4. Book(committed, changes)
    BY DEF IInv
  <1> QED BY <1>1, <1>3, <1>4 DEF IInv

\* A selection changes no program.
LEMMA SelectKeeps ==
    ASSUME IInv, UNCHANGED changes, SelectStep \/ SelectSequence PROVE IInv'
  <1>1. /\ editor' = editor /\ committed' = committed /\ open' = open /\ seqs' = seqs
        /\ changes' = changes
    BY DEF SelectStep, SelectSequence, Keep
  <1>2. SelectionOK
    BY DEF IInv
  <1>3. cur' \in DOMAIN seqs /\ row' \in -1 .. Len(seqs[cur']) - 1
    <2>1. CASE SelectStep
      <3>1. cur' = cur /\ row' \in Rows(Current)
        BY <2>1 DEF SelectStep
      <3>2. Current \in Seq(Step)
        BY CurrentIs
      <3> QED BY <1>2, <3>1, <3>2 DEF SelectionOK, Rows, Current
    <2>2. CASE SelectSequence
      <3>1. cur' \in DOMAIN seqs /\ row' = First(seqs[cur'])
        BY <1>1, <2>2 DEF SelectSequence, Shown
      <3>2. seqs[cur'] \in Seq(Step)
        BY <3>1 DEF IInv, Book, Sound
      <3> QED BY <3>1, <3>2, FirstOK
    <2> QED BY <2>1, <2>2
  <1>4. SelectionOK'
    BY <1>1, <1>2, <1>3 DEF SelectionOK
  <1> QED BY <1>1, <1>4 DEF IInv

---------------------------------------------------------------------------
(* The invariant and what it means.                                          *)

\* The recipe a session starts from.
LEMMA StartOK == Book(Start, 0) /\ Callable(Start) /\ Standing(Start)
  <1> DEFINE sub == CHOOSE s \in Subs : TRUE
             a == NewStep(1, "COMMENT")
             b == [NewStep(2, "JMP") EXCEPT !.jmp = 2, !.aim = 3]
             c == NewStep(3, "OUT")
             d == NewStep(5, "CALL")
             e == NewStep(4, "POS")
  <1>1. sub \in Subs /\ sub # "Main" /\ sub # "Monitor" /\ MaxChanges \in Nat
    BY NamesAssumption, SessionBoundsAssumption
  <1>2. a \in Step /\ b \in Step /\ c \in Step /\ d \in Step /\ e \in Step
    <2>1. ASSUME NEW id \in {1, 2, 3, 4, 5}, NEW kind \in Kinds,
                 NEW j \in {0, 2}, NEW x \in {0, 3}
          PROVE  [id |-> id, kind |-> kind, jmp |-> j, call |-> "", aim |-> x, lost |-> FALSE]
                   \in Step
      <3>1. id \in 1 .. 100 + MaxChanges /\ x \in 0 .. 100 + MaxChanges /\ j \in Nat
        BY <1>1
      <3> QED BY <3>1 DEF Step
    <2>2. a = [id |-> 1, kind |-> "COMMENT", jmp |-> 0, call |-> "", aim |-> 0, lost |-> FALSE]
      BY DEF NewStep
    <2>9. c = [id |-> 3, kind |-> "OUT", jmp |-> 0, call |-> "", aim |-> 0, lost |-> FALSE]
      BY DEF NewStep
    <2>10. d = [id |-> 5, kind |-> "CALL", jmp |-> 0, call |-> "", aim |-> 0, lost |-> FALSE]
      BY DEF NewStep
    <2>11. e = [id |-> 4, kind |-> "POS", jmp |-> 0, call |-> "", aim |-> 0, lost |-> FALSE]
      BY DEF NewStep
    <2>12. NewStep(2, "JMP") =
              [id |-> 2, kind |-> "JMP", jmp |-> 0, call |-> "", aim |-> 0, lost |-> FALSE]
      BY DEF NewStep
    <2>13. b = [NewStep(2, "JMP") EXCEPT !.jmp = 2, !.aim = 3]
      OBVIOUS
    <2> HIDE DEF a, b, c, d, e
    <2>3. {"COMMENT", "JMP", "OUT", "CALL", "POS"} \subseteq Kinds
      BY DEF Kinds
    <2>4. a \in Step
      BY <2>1, <2>2, <2>3
    <2>5. b \in Step
      <3>1. NewStep(2, "JMP") \in Step
        BY <2>1, <2>12, <2>3
      <3>2. 2 \in Nat /\ 3 \in 0 .. 100 + MaxChanges
        BY <1>1
      <3> QED BY <2>13, <3>1, <3>2 DEF Step
    <2>6. c \in Step
      BY <2>1, <2>9, <2>3
    <2>7. d \in Step
      BY <2>1, <2>10, <2>3
    <2>8. e \in Step
      BY <2>1, <2>11, <2>3
    <2> QED BY <2>4, <2>5, <2>6, <2>7, <2>8
  <1>3. /\ a.id = 1 /\ a.kind = "COMMENT" /\ a.aim = 0
        /\ b.id = 2 /\ b.aim = 3 /\ b.jmp = 2 /\ b.kind = "JMP"
        /\ c.id = 3 /\ c.kind = "OUT" /\ c.aim = 0
        /\ d.id = 5 /\ d.kind = "CALL" /\ d.call = "" /\ d.aim = 0
        /\ e.id = 4 /\ e.kind = "POS" /\ e.aim = 0
    BY DEF NewStep
  <1>4. /\ DOMAIN Start = {"Main", "Monitor", sub}
        /\ Start["Main"] = <<a, b, c>> /\ Start["Monitor"] = <<d>> /\ Start[sub] = <<e>>
    BY <1>1 DEF Start
  <1> HIDE DEF sub, a, b, c, d, e
  <1>5. Sound(<<a, b, c>>, 0)
    <2> DEFINE s == <<a, b, c>>
    <2>1. s \in Seq(Step) /\ Len(s) = 3 /\ DOMAIN s = 1 .. 3 /\ s[1] = a /\ s[2] = b /\ s[3] = c
      BY <1>2
    <2> HIDE DEF s
    <2>2. \A i \in DOMAIN s : i = 1 \/ i = 2 \/ i = 3
      BY <2>1
    <2>3. \A i \in DOMAIN s : s[i].id = i /\ s[i].id <= 100 + 0 /\ s[i].aim <= 100 + 0
      <3>1. /\ s[1].id = 1 /\ s[1].aim = 0 /\ s[2].id = 2 /\ s[2].aim = 3
            /\ s[3].id = 3 /\ s[3].aim = 0
        BY <1>3, <2>1
      <3>2. ASSUME NEW i \in DOMAIN s
            PROVE  s[i].id = i /\ s[i].id <= 100 + 0 /\ s[i].aim <= 100 + 0
        <4>1. CASE i = 1
          BY <3>1, <4>1
        <4>2. CASE i = 2
          BY <3>1, <4>2
        <4>3. CASE i = 3
          BY <3>1, <4>3
        <4> QED BY <2>2, <4>1, <4>2, <4>3
      <3> QED BY <3>2
    <2>4. ASSUME NEW i \in DOMAIN s, s[i].kind = "JMP", ~s[i].lost
          PROVE  OnTarget(s, s[i])
      <3>1. i = 2 /\ s[i].jmp = 2 /\ s[i].aim = 3
        BY <1>3, <2>1, <2>2, <2>4
      <3>2. 2 \in Rows(s) /\ At(s, 2).id = 3
        <4>1. 2 \in 0 .. Len(s) - 1 /\ 2 + 1 = 3
          BY <2>1
        <4>2. s[3].id = 3
          BY <1>3, <2>1
        <4> QED BY <4>1, <4>2 DEF Rows, At
      <3> QED BY <3>1, <3>2 DEF OnTarget
    <2>5. \A i, j \in DOMAIN s : s[i].id = s[j].id => i = j
      BY <2>3
    <2> QED BY <2>1, <2>3, <2>4, <2>5 DEF Sound, s
  <1>6. Sound(<<d>>, 0) /\ Sound(<<e>>, 0)
    <2>1. ASSUME NEW x \in Step, x.id <= 100, x.aim <= 100, x.kind # "JMP"
          PROVE  Sound(<<x>>, 0)
      <3> DEFINE s == <<x>>
      <3>1. s \in Seq(Step) /\ DOMAIN s = 1 .. 1 /\ s[1] = x
        OBVIOUS
      <3> HIDE DEF s
      <3>2. \A i \in DOMAIN s : i = 1 /\ s[i] = x
        BY <3>1
      <3> QED BY <2>1, <3>1, <3>2 DEF Sound, s
    <2>2. d.kind # "JMP" /\ e.kind # "JMP"
      BY <1>3
    <2>3. d.id = 5 /\ d.aim = 0 /\ e.id = 4 /\ e.aim = 0
      BY <1>3
    <2>4. d.id <= 100 /\ d.aim <= 100
      BY <2>3
    <2>5. e.id <= 100 /\ e.aim <= 100
      BY <2>3
    <2>6. Sound(<<d>>, 0)
      BY <1>2, <2>1, <2>2, <2>4
    <2>7. Sound(<<e>>, 0)
      BY <1>2, <2>1, <2>2, <2>5
    <2> QED BY <2>6, <2>7
  <1>7. Book(Start, 0)
    BY <1>1, <1>4, <1>5, <1>6 DEF Book, Names
  <1>8. Callable(Start)
    <2> DEFINE s == <<a, b, c>>
    <2>1. DOMAIN s = 1 .. 3 /\ s[1] = a /\ s[2] = b /\ s[3] = c
      OBVIOUS
    <2> HIDE DEF s
    <2>2. \A i \in 1 .. 3 : i = 1 \/ i = 2 \/ i = 3
      OBVIOUS
    <2>3. a.kind # "CALL" /\ b.kind # "CALL" /\ c.kind # "CALL" /\ e.kind # "CALL" /\ d.call = ""
      BY <1>3
    <2>4. \A i \in DOMAIN s : s[i].kind # "CALL"
      BY <2>1, <2>2, <2>3
    <2>5. Callees(s) = {""}
      BY <2>4 DEF Callees
    <2>6. ASSUME NEW x, x.kind # "CALL" \/ x.call = ""
          PROVE  Callees(<<x>>) = {""}
      <3> DEFINE r == <<x>>
      <3>1. \A i \in DOMAIN r : r[i] = x
        OBVIOUS
      <3> HIDE DEF r
      <3>2. \A i \in DOMAIN r : r[i].kind = "CALL" => r[i].call = ""
        BY <2>6, <3>1
      <3>3. Callees(r) = {""}
        BY <3>2 DEF Callees
      <3> QED BY <3>3 DEF r
    <2>7. Callees(<<e>>) = {""} /\ Callees(<<d>>) = {""}
      BY <2>3, <2>6
    <2>8. /\ Callees(Start["Main"]) = {""} /\ Callees(Start["Monitor"]) = {""}
          /\ Callees(Start[sub]) = {""}
      BY <1>4, <2>5, <2>7 DEF s
    <2> QED BY <1>4, <2>8 DEF Callable
  <1>9. Standing(Start)
    <2>1. \A i \in DOMAIN Start["Monitor"] :
             Start["Monitor"][i].kind = "CALL" /\ Start["Monitor"][i].call = ""
      <3>1. \A i \in DOMAIN <<d>> : <<d>>[i] = d
        OBVIOUS
      <3> QED BY <1>3, <1>4, <3>1
    <2>2. {"Monitor"} \in SUBSET DOMAIN Start
      BY <1>4
    <2> QED BY <2>1, <2>2, ZenonT(40) DEF Standing
  <1> QED BY <1>7, <1>8, <1>9

\* The invariant holds at the start.
LEMMA InitInv == Init => IInv
  <1> SUFFICES ASSUME Init PROVE IInv
    OBVIOUS
  <1>1. /\ editor \in {"qml", "widget"} /\ committed = Start /\ seqs = Start
        /\ cur = "Main" /\ row = -1 /\ open = FALSE /\ changes = 0
    BY DEF Init
  <1>2. "Main" \in DOMAIN Start /\ Start["Main"] \in Seq(Step)
    BY StartOK DEF Book, Sound
  <1>3. SelectionOK
    <2>1. -1 \in -1 .. Len(seqs[cur]) - 1 /\ 0 \in 0 .. MaxChanges /\ FALSE \in BOOLEAN
      BY <1>1, <1>2, SessionBoundsAssumption
    <2> QED BY <1>1, <1>2, <2>1 DEF SelectionOK
  <1> QED BY <1>1, <1>3, StartOK DEF IInv

\* Every step keeps it.
LEMMA NextInv == ASSUME IInv, [Next]_vars PROVE IInv'
  <1>1. CASE UNCHANGED vars
    <2>1. /\ editor' = editor /\ committed' = committed /\ seqs' = seqs /\ cur' = cur
          /\ row' = row /\ open' = open /\ changes' = changes
      BY <1>1 DEF vars
    <2>2. SelectionOK'
      BY <2>1 DEF IInv, SelectionOK
    <2> QED BY <2>1, <2>2 DEF IInv
  <1>2. CASE changes < MaxChanges /\ changes' = changes + 1 /\ Change
    <2>1. ASSUME NEW k \in AddKinds, AddStep(k) PROVE IInv'
      BY <1>2, <2>1, AddStepKeeps, SessionBoundsAssumption
    <2>2. ASSUME NEW d \in {-1, 1}, MoveSelected(d) PROVE IInv'
      BY <1>2, <2>2, MoveSelectedKeeps
    <2> QED BY <1>2, <2>1, <2>2, DeleteSelectedKeeps, SetTargetKeeps, SetTargetSequenceKeeps,
               AddSequenceKeeps, RenameSequenceKeeps, DeleteSequenceKeeps DEF Change
  <1>3. CASE UNCHANGED changes /\ (SelectStep \/ SelectSequence)
    BY <1>3, SelectKeeps
  <1>4. CASE RefuseSave \/ Save \/ Cancel \/ Open
    BY <1>4, RefuseSaveKeeps, SaveKeeps, CancelKeeps, OpenKeeps
  <1> QED BY <1>1, <1>2, <1>3, <1>4, Zenon DEF Next, Edit

\* The invariant is an invariant.
THEOREM Invariant == Spec => []IInv
  <1> QED BY InitInv, NextInv, PTL DEF Spec

\* What it says of types.
LEMMA Typed == ASSUME IInv PROVE TypeOK
  <1>1. \A p \in {committed, seqs} : Book(p, changes)
    BY DEF IInv
  <1> QED BY <1>1 DEF IInv, SelectionOK, Book, Sound, TypeOK

\* The steps of the programs, one by one.
LEMMA StepsAre ==
    ASSUME NEW p, NEW x \in Steps(p) PROVE x[1] \in DOMAIN p /\ x[2] \in DOMAIN p[x[1]]
  BY DEF Steps

\* The editor hands the executor programs it can run: in the QML editor calls lead
\* somewhere, and the Monitor program stands still.
THEOREM EditorInvariant == Spec => []EditorInv
  <1>1. ASSUME IInv PROVE CallsNameSequences
    <2> SUFFICES ASSUME editor = "qml", NEW n \in DOMAIN seqs, NEW i \in DOMAIN seqs[n],
                        seqs[n][i].kind = "CALL"
                 PROVE  seqs[n][i].call \in DOMAIN seqs \cup {""}
      BY Zenon, StepsAre DEF CallsNameSequences
    <2>1. seqs[n][i].call \in Callees(seqs[n])
      BY DEF Callees
    <2> QED BY <1>1, <2>1 DEF IInv, Callable
  <1>2. ASSUME IInv PROVE MonitorNeverMoves
    BY <1>2 DEF IInv, Standing, MonitorNeverMoves
  <1>3. IInv => EditorInv
    BY <1>1, <1>2, Typed DEF EditorInv
  <1> QED BY <1>3, Invariant, PTL

\* Whatever is inserted, moved or deleted, a jump that is not lost keeps leading to the
\* step it was aimed at.
THEOREM JumpsKeepTargets == Spec => []JumpKeepsTargetApart
  <1>1. ASSUME IInv PROVE JumpKeepsTargetApart
    <2> SUFFICES ASSUME NEW n \in DOMAIN seqs, NEW i \in DOMAIN seqs[n],
                        seqs[n][i].kind = "JMP", ~seqs[n][i].lost
                 PROVE  OnTarget(seqs[n], seqs[n][i])
      BY Zenon, StepsAre DEF JumpKeepsTargetApart
    <2>1. Sound(seqs[n], changes)
      BY <1>1 DEF IInv, Book
    <2> QED BY <2>1 DEF Sound
  <1> QED BY <1>1, Invariant, PTL
=============================================================================
