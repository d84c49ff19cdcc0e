----------------------- MODULE VariableMirror_proof -----------------------
(* Proofs about VariableMirror, for all variables, slots and values, any      *)
(* threshold and any number of changes and losses: the header of a snapshot   *)
(* is never ahead of its payload, and the PLC agrees with the variables once  *)
(* everything has settled.                                                    *)
EXTENDS VariableMirror, FiniteSetTheorems, SequenceTheorems, TLAPS

\* What can wait in the queue.
Words == UNION {[D -> Values] : D \in SUBSET Addresses}
Message ==
    [kind : {"data"}, snap : Nat, words : Words]
        \cup [kind : {"bits"}, snap : Nat, words : Values]
        \cup [kind : {"header"}, snap : Nat, words : {0}]

QueueOK == queue \in Seq(Message) /\ signals \in Seq(BOOLEAN)

\* The writes of q come in the order of their snapshots, of which n is the last; the
\* header is the last of its snapshot.
InOrder(q, n) ==
    /\ \A i \in DOMAIN q : q[i].snap <= n
    /\ \A i, j \in DOMAIN q : i < j =>
          q[i].snap <= q[j].snap /\ (q[i].kind = "header" => q[i].snap < q[j].snap)

\* A snapshot of which a write is missing has no other left to be sent.
Unsent ==
    /\ broken \subseteq 0 .. snap
    /\ link => \A i \in DOMAIN queue : queue[i].snap \notin broken

\* The slot that one variable left and another took will show the other.
Retaken == \A i \in Items : addr[i] \in clears => i \in dirty

\* The writes of q that set slot a, and those that set the bits.
Carry(q, a) == {n \in DOMAIN q : q[n].kind = "data" /\ a \in DOMAIN q[n].words}
CarryBits(q) == {n \in DOMAIN q : q[n].kind = "bits"}

\* Once q is executed, slot a, which holds d now, is v.
Leads(q, a, d, v) ==
    /\ Carry(q, a) = {} => d = v
    /\ \A n \in Carry(q, a) : (\A m \in Carry(q, a) : m <= n) => q[n].words[a] = v

LeadsBits(q, d, v) ==
    /\ CarryBits(q) = {} => d = v
    /\ \A n \in CarryBits(q) : (\A m \in CarryBits(q) : m <= n) => q[n].words = v

\* The session lasts and no snapshot of everything is due.
Told == link /\ ~full /\ \A n \in DOMAIN signals : ~signals[n]

\* The value of a slot that no flag speaks of is on its way or there.
SlotTold(a) ==
    /\ \A i \in Items : addr[i] = a /\ i \notin dirty => Leads(queue, a, dt[a], val[i])
    /\ a \notin Published => Leads(queue, a, dt[a], 0)

OnItsWay ==
    Told => /\ bitsDirty \/ LeadsBits(queue, dtBits, bits)
            /\ \A a \in Addresses \ (zeroed \cup clears) : SlotTold(a)

IInv == TypeOK /\ QueueOK /\ InOrder(queue, snap) /\ Unsent /\ Retaken /\ OnItsWay

---------------------------------------------------------------------------
(* What a snapshot is written as.                                            *)

\* A proper subset has fewer elements.
LEMMA ProperSubset ==
    ASSUME NEW S, IsFiniteSet(S), NEW T \in SUBSET S, T # S
    PROVE  /\ IsFiniteSet(T) /\ Cardinality(T) \in Nat /\ Cardinality(S) \in Nat
           /\ Cardinality(T) < Cardinality(S)
  <1>1. IsFiniteSet(T) /\ Cardinality(T) <= Cardinality(S) /\ Cardinality(S) # Cardinality(T)
    BY FS_Subset
  <1>2. Cardinality(T) \in Nat /\ Cardinality(S) \in Nat
    BY <1>1, FS_CardinalityType
  <1> QED BY <1>1, <1>2

\* The slots are a finite set of numbers, and each of them has a rank among the slots of
\* a set: none is lost when they are written one by one.
LEMMA Ranks ==
    ASSUME NEW D \in SUBSET Addresses
    PROVE  /\ Cardinality(D) \in Nat
           /\ \A n \in 1 .. Cardinality(D) :
                 \E a \in D : Cardinality({b \in D : b < a}) = n - 1
           /\ \A a \in D : \E n \in 1 .. Cardinality(D) :
                 Cardinality({b \in D : b < a}) = n - 1
           /\ \A a, c \in D :
                 Cardinality({b \in D : b < a}) = Cardinality({b \in D : b < c}) => a = c
  <1> DEFINE below(a) == {b \in D : b < a}
             rank == [a \in D |-> Cardinality(below(a)) + 1]
             N == Cardinality(D)
  <1>1. IsFiniteSet(D) /\ N \in Nat /\ D \subseteq Int
    <2>1. IsFiniteSet(Addresses)
      BY FS_Interval, MirrorBoundsAssumption DEF Addresses
    <2>2. D \subseteq Int
      BY MirrorBoundsAssumption DEF Addresses
    <2> QED BY <2>1, <2>2, FS_Subset, FS_CardinalityType
  <1>2. \A a \in D : IsFiniteSet(below(a)) /\ Cardinality(below(a)) \in 0 .. N - 1
    <2> SUFFICES ASSUME NEW a \in D
                 PROVE  IsFiniteSet(below(a)) /\ Cardinality(below(a)) \in 0 .. N - 1
      OBVIOUS
    <2>1. below(a) \in SUBSET D /\ below(a) # D
      BY <1>1
    <2> HIDE DEF below
    <2>2. /\ IsFiniteSet(below(a)) /\ Cardinality(below(a)) \in Nat
          /\ Cardinality(below(a)) < N
      BY <1>1, <2>1, ProperSubset
    <2> QED BY <1>1, <2>2
  <1>3. \A a, c \in D : a < c => Cardinality(below(a)) < Cardinality(below(c))
    <2> SUFFICES ASSUME NEW a \in D, NEW c \in D, a < c
                 PROVE  Cardinality(below(a)) < Cardinality(below(c))
      OBVIOUS
    <2>1. below(a) \in SUBSET below(c) /\ below(a) # below(c)
      <3>1. a \in below(c) /\ a \notin below(a)
        BY <1>1
      <3>2. \A b \in D : b < a => b < c
        BY <1>1
      <3> QED BY <3>1, <3>2
    <2> HIDE DEF below
    <2> QED BY <1>2, <2>1, ProperSubset
  <1>4. \A a, c \in D : Cardinality(below(a)) = Cardinality(below(c)) => a = c
    <2> SUFFICES ASSUME NEW a \in D, NEW c \in D,
                        Cardinality(below(a)) = Cardinality(below(c)), a # c
                 PROVE  FALSE
      OBVIOUS
    <2>1. Cardinality(below(a)) \in Int /\ Cardinality(below(c)) \in Int
      BY <1>2
    <2>2. a < c \/ c < a
      BY <1>1
    <2>3. CASE a < c
      BY <1>3, <2>1, <2>3
    <2>4. CASE c < a
      BY <1>3, <2>1, <2>4
    <2> QED BY <2>2, <2>3, <2>4
  <1>5. rank \in Surjection(D, 1 .. N)
    <2>1. rank \in [D -> 1 .. N]
      BY <1>1, <1>2
    <2>2. \A a, c \in D : rank[a] = rank[c] => a = c
      <3> SUFFICES ASSUME NEW a \in D, NEW c \in D, rank[a] = rank[c]
                   PROVE  a = c
        OBVIOUS
      <3>1. Cardinality(below(a)) + 1 = Cardinality(below(c)) + 1
        OBVIOUS
      <3> HIDE DEF below
      <3>2. Cardinality(below(a)) = Cardinality(below(c))
        BY <1>2, <3>1
      <3> QED BY <1>4, <3>2
    <2>3. rank \in Injection(D, 1 .. N)
      BY <2>1, <2>2 DEF Injection, IsInjective
    <2>4. IsFiniteSet(1 .. N) /\ Cardinality(1 .. N) = N
      BY <1>1, FS_Interval
    <2> QED BY <2>3, <2>4, FS_Injection
  <1>6. \A n \in 1 .. N : \E a \in D : rank[a] = n
    BY <1>5 DEF Surjection
  <1>7. \A n \in 1 .. N : \E a \in D : Cardinality(below(a)) = n - 1
    <2> SUFFICES ASSUME NEW n \in 1 .. N
                 PROVE  \E a \in D : Cardinality(below(a)) = n - 1
      OBVIOUS
    <2>1. PICK a \in D : rank[a] = n
      BY <1>6
    <2>2. Cardinality(below(a)) + 1 = n
      BY <2>1
    <2> HIDE DEF below
    <2> QED BY <1>2, <2>2
  <1>8. \A a \in D : \E n \in 1 .. N : Cardinality(below(a)) = n - 1
    <2> SUFFICES ASSUME NEW a \in D
                 PROVE  \E n \in 1 .. N : Cardinality(below(a)) = n - 1
      OBVIOUS
    <2> HIDE DEF below
    <2>1. Cardinality(below(a)) + 1 \in 1 .. N
                /\ Cardinality(below(a)) = (Cardinality(below(a)) + 1) - 1
      BY <1>1, <1>2
    <2> QED BY <2>1
  <1> QED BY <1>1, <1>4, <1>7, <1>8

\* A snapshot of the variables d, in the store of this state: each of them that is
\* published shows its value, and the other slots are cleared.
LEMMA SnapshotOf ==
    ASSUME TypeOK, NEW d \in SUBSET Items
    PROVE  LET s == Snapshot(d)
               shared == {i \in d \cap defined : addr[i] # NoAddress}
           IN  /\ s \in Words
               /\ DOMAIN s = clears \cup {addr[i] : i \in shared}
               /\ \A i \in shared : s[addr[i]] = val[i]
               /\ \A a \in DOMAIN s : (\A i \in shared : addr[i] # a) => s[a] = 0
  <1> DEFINE s == Snapshot(d)
             shared == {i \in d \cap defined : addr[i] # NoAddress}
  <1>1. addr \in [Items -> Addresses \cup {NoAddress}]
        /\ \A i, j \in Items : addr[i] = addr[j] => i = j \/ addr[i] = NoAddress
    BY DEF TypeOK, Assignments
  <1>2. shared \subseteq Items /\ clears \subseteq Addresses /\ val \in [Items -> Values]
    BY DEF TypeOK
  <1>3. s = [a \in clears \cup {addr[i] : i \in shared} |->
                IF \E i \in shared : addr[i] = a
                THEN val[CHOOSE i \in shared : addr[i] = a] ELSE 0]
    BY DEF Snapshot
  <1>4. DOMAIN s = clears \cup {addr[i] : i \in shared}
    BY <1>3
  <1>5. \A i \in shared : s[addr[i]] = val[i]
    <2> SUFFICES ASSUME NEW i \in shared
                 PROVE  s[addr[i]] = val[i]
      OBVIOUS
    <2>1. \A j \in shared : addr[j] = addr[i] => j = i
      BY <1>1, <1>2
    <2>2. (CHOOSE j \in shared : addr[j] = addr[i]) = i
      BY <2>1
    <2> QED BY <1>3, <2>2
  <1>6. \A a \in DOMAIN s : (\A i \in shared : addr[i] # a) => s[a] = 0
    BY <1>3, <1>4
  <1>7. s \in [DOMAIN s -> Values] /\ DOMAIN s \in SUBSET Addresses
    <2>1. DOMAIN s \in SUBSET Addresses
      BY <1>1, <1>2, <1>4
    <2>2. \A a \in DOMAIN s : s[a] \in Values
      BY <1>2, <1>4, <1>5, <1>6, ValuesAssumption
    <2> QED BY <1>3, <1>4, <2>1, <2>2
  <1> QED BY <1>4, <1>5, <1>6, <1>7 DEF Words

\* The writes of the data of a snapshot s: each slot of s, and in a block each slot, is
\* set, to the value of s or to 0.
LEMMA DataWritesOf ==
    ASSUME snap \in Nat, NEW s \in Words
    PROVE  LET W == DataWrites(s)
           IN  /\ W \in Seq(Message)
               /\ \A n \in DOMAIN W : W[n].kind = "data" /\ W[n].snap = snap + 1
               /\ \A n \in DOMAIN W : \A a \in DOMAIN W[n].words :
                     W[n].words[a] = IF a \in DOMAIN s THEN s[a] ELSE 0
               /\ \A a \in Addresses :
                     (\E n \in DOMAIN W : a \in DOMAIN W[n].words)
                         <=> a \in DOMAIN s \/ InBlock(s)
  <1> DEFINE W == DataWrites(s)
             msg(f) == [kind |-> "data", snap |-> snap + 1, words |-> f]
  <1>1. PICK D \in SUBSET Addresses : s \in [D -> Values]
    BY DEF Words
  <1>2. DOMAIN s = D
    BY <1>1
  <1>3. \A f \in Words : msg(f) \in Message
    BY DEF Message
  <1>4. CASE InBlock(s)
    <2> DEFINE f == [a \in Addresses |-> IF a \in DOMAIN s THEN s[a] ELSE 0]
    <2>1. f \in [Addresses -> Values]
      BY <1>1, <1>2, ValuesAssumption
    <2>2. f \in Words
      BY <2>1 DEF Words
    <2>3. W = [n \in 1 .. 1 |-> msg(f)]
      BY <1>4 DEF DataWrites, Block
    <2>4. W \in Seq(Message) /\ DOMAIN W = {1} /\ W[1] = msg(f)
      BY <1>3, <2>2, <2>3
    <2> QED BY <1>4, <2>1, <2>4
  <1>5. CASE ~InBlock(s)
    <2> DEFINE nth(n) == CHOOSE a \in D : Cardinality({b \in D : b < a}) = n - 1
               one(n) == [a \in {nth(n)} |-> s[a]]
               N == Cardinality(D)
    <2>1. \A n \in 1 .. N : nth(n) \in D /\ Cardinality({b \in D : b < nth(n)}) = n - 1
      <3> SUFFICES ASSUME NEW n \in 1 .. N
                   PROVE  nth(n) \in D /\ Cardinality({b \in D : b < nth(n)}) = n - 1
        OBVIOUS
      <3>1. \E a \in D : Cardinality({b \in D : b < a}) = n - 1
        BY Ranks, ZenonT(40)
      <3> QED BY <3>1, Zenon
    <2>2. N \in Nat
      BY Ranks
    <2>3. OneByOne(s) = [n \in 1 .. N |-> one(n)]
      BY <1>2 DEF OneByOne
    <2>4. W = [n \in 1 .. Len(OneByOne(s)) |-> msg(OneByOne(s)[n])]
      BY <1>5 DEF DataWrites
    <2>5. Len(OneByOne(s)) = N
      <3> HIDE DEF one
      <3> QED BY <2>2, <2>3
    <2>6. \A n \in 1 .. N : OneByOne(s)[n] = one(n)
      <3> HIDE DEF one
      <3> QED BY <2>3
    <2>7. \A n \in 1 .. N : one(n) \in Words
      <3> SUFFICES ASSUME NEW n \in 1 .. N
                   PROVE  one(n) \in Words
        OBVIOUS
      <3>1. nth(n) \in D
        BY <2>1
      <3> HIDE DEF nth
      <3>2. one(n) \in [{nth(n)} -> Values] /\ {nth(n)} \in SUBSET Addresses
        BY <1>1, <3>1
      <3> QED BY <3>2 DEF Words
    <2>8. DOMAIN W = 1 .. N /\ \A n \in 1 .. N : W[n] = msg(one(n))
      <3> HIDE DEF one
      <3> QED BY <2>4, <2>5, <2>6
    <2>9. W \in Seq(Message)
      <3>1. \A n \in 1 .. N : W[n] \in Message
        BY <1>3, <2>7, <2>8
      <3>2. W = [n \in 1 .. N |-> W[n]]
        BY <2>4, <2>5
      <3> HIDE DEF W
      <3> QED BY <2>2, <3>1, <3>2
    <2>10. \A n \in 1 .. N : DOMAIN W[n].words = {nth(n)} /\ W[n].words[nth(n)] = s[nth(n)]
      <3> SUFFICES ASSUME NEW n \in 1 .. N
                   PROVE  /\ DOMAIN W[n].words = {nth(n)}
                          /\ W[n].words[nth(n)] = s[nth(n)]
        OBVIOUS
      <3>1. W[n].words = one(n)
        <4> HIDE DEF one, W
        <4> QED BY <2>8
      <3>2. DOMAIN one(n) = {nth(n)} /\ one(n)[nth(n)] = s[nth(n)]
        <4> HIDE DEF nth
        <4> QED OBVIOUS
      <3> HIDE DEF one, W
      <3> QED BY <3>1, <3>2
    <2>11. \A a \in D : \E n \in 1 .. N : nth(n) = a
      <3> SUFFICES ASSUME NEW a \in D
                   PROVE  \E n \in 1 .. N : nth(n) = a
        OBVIOUS
      <3>1. PICK n \in 1 .. N : Cardinality({b \in D : b < a}) = n - 1
        BY Ranks, ZenonT(40)
      <3>2. nth(n) \in D /\ Cardinality({b \in D : b < nth(n)}) = Cardinality({b \in D : b < a})
        BY <2>1, <3>1
      <3>3. nth(n) = a
        <4> HIDE DEF nth
        <4> QED BY <3>2, Ranks
      <3> QED BY <3>3
    <2>12. \A n \in DOMAIN W : W[n].kind = "data" /\ W[n].snap = snap + 1
      <3> HIDE DEF W, one
      <3> QED BY <2>8
    <2> HIDE DEF W, nth, one
    <2>13. \A n \in DOMAIN W : \A a \in DOMAIN W[n].words :
              W[n].words[a] = IF a \in DOMAIN s THEN s[a] ELSE 0
      <3> SUFFICES ASSUME NEW n \in DOMAIN W, NEW a \in DOMAIN W[n].words
                   PROVE  W[n].words[a] = IF a \in DOMAIN s THEN s[a] ELSE 0
        OBVIOUS
      <3>1. n \in 1 .. N
        BY <2>8
      <3>2. a = nth(n) /\ W[n].words[nth(n)] = s[nth(n)] /\ nth(n) \in D
        BY <2>1, <2>10, <3>1
      <3> QED BY <1>2, <3>2
    <2>14. \A a \in Addresses :
              (\E n \in DOMAIN W : a \in DOMAIN W[n].words) <=> a \in DOMAIN s \/ InBlock(s)
      <3>1. \A n \in DOMAIN W : DOMAIN W[n].words = {nth(n)} /\ nth(n) \in D
        BY <2>1, <2>8, <2>10
      <3>2. \A a \in D : \E n \in DOMAIN W : nth(n) = a
        BY <2>8, <2>11
      <3> QED BY <1>2, <1>5, <3>1, <3>2, Zenon
    <2> USE DEF W
    <2> QED BY <2>9, <2>12, <2>13, <2>14
  <1> QED BY <1>4, <1>5

\* The elements of two sequences, one after the other.
LEMMA Joining ==
    ASSUME NEW M, NEW q \in Seq(M), NEW w \in Seq(M)
    PROVE  /\ q \o w \in Seq(M) /\ Len(q \o w) = Len(q) + Len(w)
           /\ \A n \in DOMAIN (q \o w) :
                 \/ n \in DOMAIN q /\ (q \o w)[n] = q[n]
                 \/ /\ n > Len(q) /\ n - Len(q) \in DOMAIN w
                    /\ (q \o w)[n] = w[n - Len(q)]
           /\ \A n \in DOMAIN q : n \in DOMAIN (q \o w) /\ (q \o w)[n] = q[n]
           /\ \A n \in DOMAIN w :
                 Len(q) + n \in DOMAIN (q \o w) /\ (q \o w)[Len(q) + n] = w[n]
  <1>1. /\ q \o w \in Seq(M) /\ Len(q \o w) = Len(q) + Len(w)
        /\ \A i \in 1 .. Len(q) + Len(w) :
              (q \o w)[i] = IF i <= Len(q) THEN q[i] ELSE w[i - Len(q)]
    BY ConcatProperties
  <1>2. /\ Len(q) \in Nat /\ Len(w) \in Nat /\ DOMAIN q = 1 .. Len(q) /\ DOMAIN w = 1 .. Len(w)
        /\ DOMAIN (q \o w) = 1 .. Len(q) + Len(w)
    BY <1>1
  <1> DEFINE qw == q \o w
  <1> HIDE DEF qw
  <1>3. \A n \in DOMAIN qw :
           \/ n \in DOMAIN q /\ qw[n] = q[n]
           \/ n > Len(q) /\ n - Len(q) \in DOMAIN w /\ qw[n] = w[n - Len(q)]
    BY <1>1, <1>2 DEF qw
  <1>4. \A n \in DOMAIN q : n \in DOMAIN qw /\ qw[n] = q[n]
    BY <1>1, <1>2 DEF qw
  <1>5. \A n \in DOMAIN w : Len(q) + n \in DOMAIN qw /\ qw[Len(q) + n] = w[n]
    BY <1>1, <1>2 DEF qw
  <1> QED BY <1>1, <1>3, <1>4, <1>5 DEF qw

\* The fields of what waits in the queue.
LEMMA MessageFields ==
    ASSUME NEW w \in Message
    PROVE  /\ w.snap \in Nat
           /\ w.kind = "data" =>
                 DOMAIN w.words \subseteq Addresses /\ \A a \in DOMAIN w.words : w.words[a] \in Values
           /\ w.kind = "bits" => w.words \in Values
  <1>1. CASE w \in [kind : {"data"}, snap : Nat, words : Words]
    <2>1. w.snap \in Nat /\ w.kind = "data" /\ w.words \in Words
      BY <1>1
    <2>2. PICK D \in SUBSET Addresses : w.words \in [D -> Values]
      BY <2>1 DEF Words
    <2> QED BY <2>1, <2>2
  <1>2. CASE w \in [kind : {"bits"}, snap : Nat, words : Values]
    BY <1>2
  <1>3. CASE w \in [kind : {"header"}, snap : Nat, words : {0}]
    BY <1>3
  <1> QED BY <1>1, <1>2, <1>3 DEF Message

\* All the writes of a snapshot s: they carry its number, the header comes last, the bits
\* are there if they are due, and the slots as in DataWritesOf.
LEMMA WritesOf ==
    ASSUME snap \in Nat, bits \in Values, NEW s \in Words
    PROVE  LET W == Writes(s)
           IN  /\ W \in Seq(Message)
               /\ \A n \in DOMAIN W :
                     W[n].snap = snap + 1 /\ (W[n].kind = "header" => n = Len(W))
               /\ bitsDirty \/ full => CarryBits(W) # {}
               /\ ~bitsDirty /\ ~full => CarryBits(W) = {}
               /\ \A n \in CarryBits(W) : W[n].words = bits
               /\ \A a \in Addresses :
                     /\ a \in DOMAIN s \/ InBlock(s) => Carry(W, a) # {}
                     /\ a \notin DOMAIN s /\ ~InBlock(s) => Carry(W, a) = {}
                     /\ \A n \in Carry(W, a) :
                           W[n].words[a] = IF a \in DOMAIN s THEN s[a] ELSE 0
  <1> DEFINE B == BitWrites
             D == DataWrites(s)
             H == Header
             BD == B \o D
             W == BD \o H
  <1>1. Writes(s) = W
    BY DEF Writes
  <1>2. /\ D \in Seq(Message)
        /\ \A n \in DOMAIN D : D[n].kind = "data" /\ D[n].snap = snap + 1
        /\ \A n \in DOMAIN D : \A a \in DOMAIN D[n].words :
              D[n].words[a] = IF a \in DOMAIN s THEN s[a] ELSE 0
        /\ \A a \in Addresses :
              (\E n \in DOMAIN D : a \in DOMAIN D[n].words) <=> a \in DOMAIN s \/ InBlock(s)
    BY DataWritesOf
  <1>3. /\ H \in Seq(Message) /\ Len(H) = 1 /\ DOMAIN H = {1}
        /\ H[1].kind = "header" /\ H[1].snap = snap + 1
    <2>1. [kind |-> "header", snap |-> snap + 1, words |-> 0] \in Message
      BY DEF Message
    <2> QED BY <2>1 DEF Header
  <1>4. /\ B \in Seq(Message)
        /\ \A n \in DOMAIN B : B[n].kind = "bits" /\ B[n].snap = snap + 1 /\ B[n].words = bits
        /\ bitsDirty \/ full => DOMAIN B # {}
        /\ ~bitsDirty /\ ~full => DOMAIN B = {}
    <2>1. [kind |-> "bits", snap |-> snap + 1, words |-> bits] \in Message
      BY DEF Message
    <2>2. CASE bitsDirty \/ full
      <3>1. B = <<[kind |-> "bits", snap |-> snap + 1, words |-> bits]>>
        BY <2>2 DEF BitWrites
      <3>2. B \in Seq(Message) /\ DOMAIN B = {1}
            /\ B[1] = [kind |-> "bits", snap |-> snap + 1, words |-> bits]
        BY <2>1, <3>1
      <3> QED BY <2>2, <3>2
    <2>3. CASE ~(bitsDirty \/ full)
      <3>1. B = <<>>
        BY <2>3 DEF BitWrites
      <3> QED BY <2>3, <3>1
    <2> QED BY <2>2, <2>3
  <1> HIDE DEF B, D, H
  <1>5. /\ BD \in Seq(Message)
        /\ \A n \in DOMAIN BD :
              \/ n \in DOMAIN B /\ BD[n] = B[n]
              \/ n - Len(B) \in DOMAIN D /\ BD[n] = D[n - Len(B)]
        /\ \A n \in DOMAIN B : n \in DOMAIN BD /\ BD[n] = B[n]
        /\ \A n \in DOMAIN D : Len(B) + n \in DOMAIN BD /\ BD[Len(B) + n] = D[n]
    BY <1>2, <1>4, Joining
  <1> HIDE DEF BD
  <1>6. /\ W \in Seq(Message) /\ Len(W) = Len(BD) + 1
        /\ \A n \in DOMAIN W :
              \/ n \in DOMAIN BD /\ W[n] = BD[n]
              \/ n > Len(BD) /\ n - Len(BD) \in DOMAIN H /\ W[n] = H[n - Len(BD)]
        /\ \A n \in DOMAIN BD : n \in DOMAIN W /\ W[n] = BD[n]
    BY <1>3, <1>5, Joining
  <1> HIDE DEF W
  <1>7. \A n \in DOMAIN BD : BD[n].snap = snap + 1 /\ BD[n].kind # "header"
    BY <1>2, <1>4, <1>5
  <1>8. \A n \in DOMAIN W : \/ n \in DOMAIN BD /\ W[n] = BD[n]
                            \/ n = Len(W) /\ W[n] = H[1]
    <2>1. \A n \in DOMAIN W : n \in Int /\ Len(BD) \in Int /\ (n - Len(BD) = 1 => n = Len(W))
      BY <1>5, <1>6
    <2> QED BY <1>3, <1>6, <2>1
  <1>9. \A n \in DOMAIN W : W[n].snap = snap + 1 /\ (W[n].kind = "header" => n = Len(W))
    BY <1>3, <1>7, <1>8
  <1>10. \A n \in CarryBits(W) : n \in DOMAIN B /\ W[n] = B[n]
    BY <1>2, <1>3, <1>5, <1>8 DEF CarryBits
  <1>11. \A n \in DOMAIN B : n \in CarryBits(W)
    BY <1>4, <1>5, <1>6 DEF CarryBits
  <1>12. /\ bitsDirty \/ full => CarryBits(W) # {}
         /\ ~bitsDirty /\ ~full => CarryBits(W) = {}
         /\ \A n \in CarryBits(W) : W[n].words = bits
    BY <1>4, <1>10, <1>11
  <1>13. ASSUME NEW a \in Addresses
         PROVE  /\ a \in DOMAIN s \/ InBlock(s) => Carry(W, a) # {}
                /\ a \notin DOMAIN s /\ ~InBlock(s) => Carry(W, a) = {}
                /\ \A n \in Carry(W, a) : W[n].words[a] = IF a \in DOMAIN s THEN s[a] ELSE 0
    <2>1. \A n \in Carry(W, a) : \E m \in DOMAIN D : W[n] = D[m] /\ a \in DOMAIN D[m].words
      <3> SUFFICES ASSUME NEW n \in Carry(W, a)
                   PROVE  \E m \in DOMAIN D : W[n] = D[m] /\ a \in DOMAIN D[m].words
        OBVIOUS
      <3>1. n \in DOMAIN W /\ W[n].kind = "data" /\ a \in DOMAIN W[n].words
        BY DEF Carry
      <3>2. n \in DOMAIN BD /\ W[n] = BD[n]
        BY <1>3, <1>8, <3>1
      <3>3. n - Len(B) \in DOMAIN D /\ W[n] = D[n - Len(B)]
        BY <1>4, <1>5, <3>1, <3>2
      <3> QED BY <3>1, <3>3
    <2>2. \A m \in DOMAIN D : a \in DOMAIN D[m].words => Len(B) + m \in Carry(W, a)
      <3> SUFFICES ASSUME NEW m \in DOMAIN D, a \in DOMAIN D[m].words
                   PROVE  Len(B) + m \in Carry(W, a)
        OBVIOUS
      <3>1. Len(B) + m \in DOMAIN W /\ W[Len(B) + m] = D[m]
        BY <1>5, <1>6
      <3> QED BY <1>2, <3>1 DEF Carry
    <2>3. CASE a \in DOMAIN s \/ InBlock(s)
      BY <1>2, <2>1, <2>2, <2>3, SMTT(30)
    <2>4. CASE ~(a \in DOMAIN s \/ InBlock(s))
      BY <1>2, <2>1, <2>4
    <2> QED BY <2>3, <2>4
  <1> QED BY <1>1, <1>6, <1>9, <1>12, <1>13

---------------------------------------------------------------------------
(* Queues, when writes are added and when the first is sent.                 *)

\* A slot leads to what the writes added set it to, or to what it led to.
LEMMA LeadsAppended ==
    ASSUME NEW q \in Seq(Message), NEW w \in Seq(Message), NEW a, NEW d, NEW v,
           \/ Carry(w, a) # {} /\ \A n \in Carry(w, a) : w[n].words[a] = v
           \/ Carry(w, a) = {} /\ Leads(q, a, d, v)
    PROVE  Leads(q \o w, a, d, v)
  <1> DEFINE qw == q \o w
  <1>1. /\ Len(q) \in Nat /\ DOMAIN q = 1 .. Len(q) /\ DOMAIN w = 1 .. Len(w)
        /\ \A n \in DOMAIN qw :
              \/ n \in DOMAIN q /\ qw[n] = q[n]
              \/ n > Len(q) /\ n - Len(q) \in DOMAIN w /\ qw[n] = w[n - Len(q)]
        /\ \A n \in DOMAIN q : n \in DOMAIN qw /\ qw[n] = q[n]
        /\ \A n \in DOMAIN w : Len(q) + n \in DOMAIN qw /\ qw[Len(q) + n] = w[n]
    BY Joining
  <1> HIDE DEF qw
  <1>2. \A n \in DOMAIN w : n \in Carry(w, a) => Len(q) + n \in Carry(qw, a)
    BY <1>1 DEF Carry
  <1>3. \A n \in Carry(qw, a) :
           \/ n \in Carry(q, a) /\ qw[n] = q[n]
           \/ n - Len(q) \in Carry(w, a) /\ qw[n] = w[n - Len(q)]
    BY <1>1 DEF Carry
  <1>4. CASE Carry(w, a) # {} /\ \A n \in Carry(w, a) : w[n].words[a] = v
    <2>1. PICK k \in DOMAIN w : k \in Carry(w, a)
      BY <1>4 DEF Carry
    <2>2. Len(q) + k \in Carry(qw, a)
      BY <1>2, <2>1
    <2>3. ASSUME NEW n \in Carry(qw, a), \A m \in Carry(qw, a) : m <= n
          PROVE  qw[n].words[a] = v
      <3>1. Len(q) + k <= n
        BY <2>2, <2>3
      <3>2. n \notin Carry(q, a)
        BY <1>1, <3>1, <2>1 DEF Carry
      <3> QED BY <1>3, <1>4, <3>2
    <2> QED BY <2>2, <2>3 DEF Leads, qw
  <1>5. CASE Carry(w, a) = {} /\ Leads(q, a, d, v)
    <2>1. \A n \in Carry(q, a) : n \in Carry(qw, a) /\ qw[n] = q[n]
      BY <1>1 DEF Carry
    <2>2. Carry(qw, a) = Carry(q, a) /\ \A n \in Carry(q, a) : qw[n] = q[n]
      BY <1>3, <1>5, <2>1
    <2> QED BY <1>5, <2>2 DEF Leads, qw
  <1> QED BY <1>4, <1>5

\* Likewise the bits.
LEMMA LeadsBitsAppended ==
    ASSUME NEW q \in Seq(Message), NEW w \in Seq(Message), NEW d, NEW v,
           \/ CarryBits(w) # {} /\ \A n \in CarryBits(w) : w[n].words = v
           \/ CarryBits(w) = {} /\ LeadsBits(q, d, v)
    PROVE  LeadsBits(q \o w, d, v)
  <1> DEFINE qw == q \o w
  <1>1. /\ Len(q) \in Nat /\ DOMAIN q = 1 .. Len(q) /\ DOMAIN w = 1 .. Len(w)
        /\ \A n \in DOMAIN qw :
              \/ n \in DOMAIN q /\ qw[n] = q[n]
              \/ n > Len(q) /\ n - Len(q) \in DOMAIN w /\ qw[n] = w[n - Len(q)]
        /\ \A n \in DOMAIN q : n \in DOMAIN qw /\ qw[n] = q[n]
        /\ \A n \in DOMAIN w : Len(q) + n \in DOMAIN qw /\ qw[Len(q) + n] = w[n]
    BY Joining
  <1> HIDE DEF qw
  <1>2. \A n \in DOMAIN w : n \in CarryBits(w) => Len(q) + n \in CarryBits(qw)
    BY <1>1 DEF CarryBits
  <1>3. \A n \in CarryBits(qw) :
           \/ n \in CarryBits(q) /\ qw[n] = q[n]
           \/ n - Len(q) \in CarryBits(w) /\ qw[n] = w[n - Len(q)]
    BY <1>1 DEF CarryBits
  <1>4. CASE CarryBits(w) # {} /\ \A n \in CarryBits(w) : w[n].words = v
    <2>1. PICK k \in DOMAIN w : k \in CarryBits(w)
      BY <1>4 DEF CarryBits
    <2>2. Len(q) + k \in CarryBits(qw)
      BY <1>2, <2>1
    <2>3. ASSUME NEW n \in CarryBits(qw), \A m \in CarryBits(qw) : m <= n
          PROVE  qw[n].words = v
      <3>1. Len(q) + k <= n
        BY <2>2, <2>3
      <3>2. n \notin CarryBits(q)
        BY <1>1, <3>1, <2>1 DEF CarryBits
      <3> QED BY <1>3, <1>4, <3>2
    <2> QED BY <2>2, <2>3 DEF LeadsBits, qw
  <1>5. CASE CarryBits(w) = {} /\ LeadsBits(q, d, v)
    <2>1. \A n \in CarryBits(q) : n \in CarryBits(qw) /\ qw[n] = q[n]
      BY <1>1 DEF CarryBits
    <2>2. CarryBits(qw) = CarryBits(q) /\ \A n \in CarryBits(q) : qw[n] = q[n]
      BY <1>3, <1>5, <2>1
    <2> QED BY <1>5, <2>2 DEF LeadsBits, qw
  <1> QED BY <1>4, <1>5

\* Sending the first write brings a slot on its way, or leaves it there.
LEMMA LeadsSent ==
    ASSUME NEW q \in Seq(Message), q # <<>>, NEW a, NEW d, NEW v, Leads(q, a, d, v)
    PROVE  Leads(Tail(q), a,
                 IF Head(q).kind = "data" /\ a \in DOMAIN Head(q).words
                 THEN Head(q).words[a] ELSE d, v)
  <1> DEFINE t == Tail(q)
             e == IF Head(q).kind = "data" /\ a \in DOMAIN Head(q).words
                  THEN Head(q).words[a] ELSE d
  <1>1. /\ t \in Seq(Message) /\ DOMAIN q = 1 .. Len(q) /\ Len(q) \in Nat /\ Len(q) >= 1
        /\ DOMAIN t = 1 .. Len(q) - 1 /\ Head(q) = q[1]
        /\ \A n \in DOMAIN t : t[n] = q[n + 1]
    <2>1. t \in Seq(Message) /\ Len(t) = Len(q) - 1 /\ \A n \in 1 .. Len(t) : t[n] = q[n + 1]
      BY HeadTailProperties
    <2>2. Len(q) \in Nat /\ Len(q) >= 1 /\ DOMAIN q = 1 .. Len(q) /\ Head(q) = q[1]
      BY EmptySeq
    <2> QED BY <2>1, <2>2
  <1> HIDE DEF t
  <1>2. \A n \in Carry(t, a) : n + 1 \in Carry(q, a)
    BY <1>1 DEF Carry
  <1>3. \A m \in Carry(q, a) : m = 1 \/ m - 1 \in Carry(t, a)
    BY <1>1 DEF Carry
  <1>4. 1 \in Carry(q, a) <=> Head(q).kind = "data" /\ a \in DOMAIN Head(q).words
    BY <1>1 DEF Carry
  <1>5. Carry(t, a) = {} => e = v
    <2> SUFFICES ASSUME Carry(t, a) = {}
                 PROVE  e = v
      OBVIOUS
    <2>1. \A m \in Carry(q, a) : m = 1
      BY <1>3
    <2>2. CASE 1 \in Carry(q, a)
      <3>1. \A m \in Carry(q, a) : m <= 1
        BY <2>1
      <3> QED BY <1>1, <1>4, <2>2, <3>1 DEF Leads
    <2>3. CASE 1 \notin Carry(q, a)
      BY <1>4, <2>1, <2>3 DEF Leads
    <2> QED BY <2>2, <2>3
  <1>6. ASSUME NEW n \in Carry(t, a), \A m \in Carry(t, a) : m <= n
        PROVE  t[n].words[a] = v
    <2>1. n + 1 \in Carry(q, a) /\ n \in Nat /\ t[n] = q[n + 1]
      BY <1>1, <1>2 DEF Carry
    <2>2. \A m \in Carry(q, a) : m <= n + 1
      <3> SUFFICES ASSUME NEW m \in Carry(q, a)
                   PROVE  m <= n + 1
        OBVIOUS
      <3>1. m \in Nat
        BY <1>1 DEF Carry
      <3>2. CASE m = 1
        BY <2>1, <3>2
      <3>3. CASE m - 1 \in Carry(t, a)
        BY <1>6, <2>1, <3>1, <3>3
      <3> QED BY <1>3, <3>2, <3>3
    <2> QED BY <2>1, <2>2 DEF Leads
  <1> QED BY <1>5, <1>6 DEF Leads, t

\* Likewise the bits.
LEMMA LeadsBitsSent ==
    ASSUME NEW q \in Seq(Message), q # <<>>, NEW d, NEW v, LeadsBits(q, d, v)
    PROVE  LeadsBits(Tail(q), IF Head(q).kind = "bits" THEN Head(q).words ELSE d, v)
  <1> DEFINE t == Tail(q)
             e == IF Head(q).kind = "bits" THEN Head(q).words ELSE d
  <1>1. /\ t \in Seq(Message) /\ DOMAIN q = 1 .. Len(q) /\ Len(q) \in Nat /\ Len(q) >= 1
        /\ DOMAIN t = 1 .. Len(q) - 1 /\ Head(q) = q[1]
        /\ \A n \in DOMAIN t : t[n] = q[n + 1]
    <2>1. t \in Seq(Message) /\ Len(t) = Len(q) - 1 /\ \A n \in 1 .. Len(t) : t[n] = q[n + 1]
      BY HeadTailProperties
    <2>2. Len(q) \in Nat /\ Len(q) >= 1 /\ DOMAIN q = 1 .. Len(q) /\ Head(q) = q[1]
      BY EmptySeq
    <2> QED BY <2>1, <2>2
  <1> HIDE DEF t
  <1>2. \A n \in CarryBits(t) : n + 1 \in CarryBits(q)
    BY <1>1 DEF CarryBits
  <1>3. \A m \in CarryBits(q) : m = 1 \/ m - 1 \in CarryBits(t)
    BY <1>1 DEF CarryBits
  <1>4. 1 \in CarryBits(q) <=> Head(q).kind = "bits"
    BY <1>1 DEF CarryBits
  <1>5. CarryBits(t) = {} => e = v
    <2> SUFFICES ASSUME CarryBits(t) = {}
                 PROVE  e = v
      OBVIOUS
    <2>1. \A m \in CarryBits(q) : m = 1
      BY <1>3
    <2>2. CASE 1 \in CarryBits(q)
      <3>1. \A m \in CarryBits(q) : m <= 1
        BY <2>1
      <3> QED BY <1>1, <1>4, <2>2, <3>1 DEF LeadsBits
    <2>3. CASE 1 \notin CarryBits(q)
      BY <1>4, <2>1, <2>3 DEF LeadsBits
    <2> QED BY <2>2, <2>3
  <1>6. ASSUME NEW n \in CarryBits(t), \A m \in CarryBits(t) : m <= n
        PROVE  t[n].words = v
    <2>1. n + 1 \in CarryBits(q) /\ n \in Nat /\ t[n] = q[n + 1]
      BY <1>1, <1>2 DEF CarryBits
    <2>2. \A m \in CarryBits(q) : m <= n + 1
      <3> SUFFICES ASSUME NEW m \in CarryBits(q)
                   PROVE  m <= n + 1
        OBVIOUS
      <3>1. m \in Nat
        BY <1>1 DEF CarryBits
      <3>2. CASE m = 1
        BY <2>1, <3>2
      <3>3. CASE m - 1 \in CarryBits(t)
        BY <1>6, <2>1, <3>1, <3>3
      <3> QED BY <1>3, <3>2, <3>3
    <2> QED BY <2>1, <2>2 DEF LeadsBits
  <1> QED BY <1>5, <1>6 DEF LeadsBits, t

\* A new snapshot comes after the others.
LEMMA OrderAppended ==
    ASSUME NEW q \in Seq(Message), NEW w \in Seq(Message), NEW n \in Nat, InOrder(q, n),
           \A i \in DOMAIN w : w[i].snap = n + 1 /\ (w[i].kind = "header" => i = Len(w))
    PROVE  InOrder(q \o w, n + 1)
  <1> DEFINE qw == q \o w
  <1>1. /\ Len(q) \in Nat /\ DOMAIN q = 1 .. Len(q) /\ DOMAIN w = 1 .. Len(w) /\ Len(w) \in Nat
        /\ \A i \in DOMAIN qw :
              \/ i \in DOMAIN q /\ qw[i] = q[i]
              \/ i > Len(q) /\ i - Len(q) \in DOMAIN w /\ qw[i] = w[i - Len(q)]
    BY Joining
  <1>0. \A i \in DOMAIN qw : i \in Int
    <2>1. qw \in Seq(Message)
      BY Joining
    <2> QED BY <2>1
  <1>2. \A i \in DOMAIN q : q[i].snap \in Nat /\ q[i].snap <= n
    BY MessageFields DEF InOrder
  <1> HIDE DEF qw
  <1>3. ASSUME NEW i \in DOMAIN qw
        PROVE  qw[i].snap <= n + 1
    BY <1>1, <1>2
  <1>4. ASSUME NEW i \in DOMAIN qw, NEW j \in DOMAIN qw, i < j
        PROVE  qw[i].snap <= qw[j].snap /\ (qw[i].kind = "header" => qw[i].snap < qw[j].snap)
    <2>1. CASE i \in DOMAIN q /\ qw[i] = q[i] /\ j \in DOMAIN q /\ qw[j] = q[j]
      BY <1>4, <2>1 DEF InOrder
    <2>2. CASE i \in DOMAIN q /\ qw[i] = q[i] /\ j - Len(q) \in DOMAIN w /\ qw[j] = w[j - Len(q)]
      BY <1>2, <2>2
    <2>3. CASE /\ i > Len(q) /\ i - Len(q) \in DOMAIN w /\ qw[i] = w[i - Len(q)]
               /\ j - Len(q) \in DOMAIN w /\ qw[j] = w[j - Len(q)]
      <3>1. i \in Int /\ j \in Int
        BY <1>0
      <3>2. i - Len(q) # Len(w)
        BY <1>1, <1>4, <2>3, <3>1
      <3> QED BY <2>3, <3>2
    <2>4. CASE i > Len(q) /\ j \in DOMAIN q
      BY <1>1, <1>4, <2>4
    <2> QED BY <1>1, <2>1, <2>2, <2>3, <2>4
  <1> QED BY <1>3, <1>4 DEF InOrder, qw

\* What is left after the first write belongs to its snapshot or a later one.
LEMMA OrderSent ==
    ASSUME NEW q \in Seq(Message), q # <<>>, NEW n \in Nat, InOrder(q, n)
    PROVE  /\ Tail(q) \in Seq(Message) /\ Head(q) \in Message /\ 1 \in DOMAIN q
           /\ Head(q) = q[1]
           /\ \A i \in DOMAIN Tail(q) : i + 1 \in DOMAIN q /\ Tail(q)[i] = q[i + 1]
           /\ InOrder(Tail(q), n)
           /\ Head(q).kind = "header" =>
                 \A i \in DOMAIN Tail(q) : Tail(q)[i].snap > Head(q).snap
  <1> DEFINE t == Tail(q)
  <1>1. /\ t \in Seq(Message) /\ DOMAIN q = 1 .. Len(q) /\ Len(q) \in Nat /\ Len(q) >= 1
        /\ DOMAIN t = 1 .. Len(q) - 1 /\ Head(q) = q[1] /\ Head(q) \in Message
        /\ \A i \in DOMAIN t : t[i] = q[i + 1]
    <2>1. /\ t \in Seq(Message) /\ Len(t) = Len(q) - 1 /\ Head(q) \in Message
          /\ \A i \in 1 .. Len(t) : t[i] = q[i + 1]
      BY HeadTailProperties
    <2>2. Len(q) \in Nat /\ Len(q) >= 1 /\ DOMAIN q = 1 .. Len(q) /\ Head(q) = q[1]
      BY EmptySeq
    <2> QED BY <2>1, <2>2
  <1> HIDE DEF t
  <1>2. \A i \in DOMAIN t : i + 1 \in DOMAIN q /\ i \in Nat
    BY <1>1
  <1>3. InOrder(t, n)
    BY <1>1, <1>2, SMTT(30) DEF InOrder
  <1>4. ASSUME Head(q).kind = "header", NEW i \in DOMAIN t
        PROVE  t[i].snap > Head(q).snap
    <2>1. 1 \in DOMAIN q /\ i + 1 \in DOMAIN q /\ 1 < i + 1 /\ t[i] = q[i + 1]
      BY <1>1, <1>2
    <2>2. q[1].snap < q[i + 1].snap
      BY <1>1, <1>4, <2>1 DEF InOrder
    <2>3. q[1].snap \in Nat /\ q[i + 1].snap \in Nat
      BY <2>1, MessageFields
    <2> QED BY <1>1, <2>1, <2>2, <2>3
  <1> QED BY <1>1, <1>2, <1>3, <1>4 DEF t

---------------------------------------------------------------------------
(* The operations of the store.                                              *)

\* An operation of the store that flags what it changes keeps the invariant: what it
\* leaves unflagged is published as before, with the value of before.
LEMMA StoreKeeps ==
    ASSUME IInv, Elsewhere, TypeOK', Retaken',
           clears \subseteq clears', dirty \subseteq dirty',
           bitsDirty' \/ (bits' = bits /\ bitsDirty' = bitsDirty),
           Published \subseteq Published' \cup clears',
           \A i \in Items : i \notin dirty' =>
              addr'[i] = NoAddress \/ (addr'[i] = addr[i] /\ val'[i] = val[i])
    PROVE  IInv'
  <1> USE DEF IInv
  <1>1. QueueOK' /\ InOrder(queue, snap)' /\ Unsent'
    BY DEF Elsewhere, QueueOK, InOrder, Unsent
  <1>2. ASSUME Told'
        PROVE  /\ bitsDirty' \/ LeadsBits(queue, dtBits, bits)'
               /\ \A a \in Addresses \ (zeroed' \cup clears') : SlotTold(a)'
    <2>1. Told /\ queue' = queue /\ dt' = dt /\ dtBits' = dtBits /\ zeroed' = zeroed
      BY <1>2 DEF Elsewhere, Told, mirror
    <2>2. bitsDirty \/ LeadsBits(queue, dtBits, bits)
      BY <2>1 DEF OnItsWay
    <2>3. bitsDirty' \/ LeadsBits(queue, dtBits, bits)'
      BY <2>1, <2>2 DEF LeadsBits
    <2>4. ASSUME NEW a \in Addresses \ (zeroed' \cup clears')
          PROVE  SlotTold(a)'
      <3>1. SlotTold(a)
        BY <2>1, <2>4 DEF OnItsWay
      <3>2. a # NoAddress
        BY MirrorBoundsAssumption DEF Addresses, NoAddress
      <3>3. ASSUME NEW i \in Items, addr'[i] = a, i \notin dirty'
            PROVE  Leads(queue, a, dt[a], val[i])'
        <4>1. addr[i] = a /\ val'[i] = val[i] /\ i \notin dirty
          BY <3>2, <3>3
        <4>2. Leads(queue, a, dt[a], val[i])
          BY <3>1, <4>1 DEF SlotTold
        <4> QED BY <2>1, <4>1, <4>2 DEF Leads
      <3>4. ASSUME a \notin Published'
            PROVE  Leads(queue, a, dt[a], 0)'
        <4>1. a \notin Published
          BY <2>4, <3>4
        <4> QED BY <2>1, <3>1, <4>1 DEF SlotTold, Leads
      <3> QED BY <3>3, <3>4 DEF SlotTold
    <2> QED BY <2>3, <2>4
  <1>3. OnItsWay'
    BY <1>2 DEF OnItsWay
  <1> QED BY <1>1, <1>3

\* A slot belongs to one variable.
LEMMA OneOwner ==
    ASSUME TypeOK
    PROVE  /\ addr \in [Items -> Addresses \cup {NoAddress}]
           /\ \A i, j \in Items : addr[i] = addr[j] => i = j \/ addr[i] = NoAddress
           /\ NoAddress \notin Addresses
           /\ \A a : a \in Published <=> a # NoAddress /\ \E i \in Items : addr[i] = a
  BY MirrorBoundsAssumption DEF TypeOK, Assignments, Addresses, NoAddress, Published

\* set_data and its relatives, and the setting of bits.
LEMMA SetStep == ASSUME IInv, SetData \/ SetBits PROVE IInv'
  <1> USE DEF IInv
  <1>1. CASE SetData
    <2>1. PICK i \in Items, v \in Values :
             /\ defined' = defined \cup {i}
             /\ val' = [val EXCEPT ![i] = v]
             /\ dirty' = dirty \cup {i}
      BY <1>1 DEF SetData
    <2>2. Elsewhere /\ UNCHANGED <<addr, clears, bits, bitsDirty>>
          /\ changes < MaxChanges /\ changes' = changes + 1
      BY <1>1 DEF SetData, Changing
    <2>3. TypeOK'
      BY <2>1, <2>2, MirrorBoundsAssumption DEF TypeOK, Elsewhere, mirror
    <2>4. Retaken'
      BY <2>1, <2>2 DEF Retaken
    <2>5. \A j \in Items : j \notin dirty' =>
             addr'[j] = NoAddress \/ (addr'[j] = addr[j] /\ val'[j] = val[j])
      BY <2>1, <2>2 DEF TypeOK
    <2>6. /\ clears \subseteq clears' /\ dirty \subseteq dirty'
          /\ bitsDirty' \/ (bits' = bits /\ bitsDirty' = bitsDirty)
          /\ Published \subseteq Published' \cup clears'
      BY <2>1, <2>2 DEF Published
    <2> HIDE DEF IInv
    <2> QED BY <2>2, <2>3, <2>4, <2>5, <2>6, StoreKeeps, Zenon
  <1>2. CASE SetBits
    <2>1. /\ Elsewhere /\ UNCHANGED <<defined, val, addr, dirty, clears>>
          /\ changes < MaxChanges /\ changes' = changes + 1 /\ bits' \in Values /\ bitsDirty' = TRUE
      BY <1>2 DEF SetBits, Changing
    <2>2. TypeOK'
      BY <2>1, MirrorBoundsAssumption DEF TypeOK, Elsewhere, mirror
    <2>3. Retaken' /\ Published' = Published
      BY <2>1 DEF Retaken, Published
    <2>4. /\ clears \subseteq clears' /\ dirty \subseteq dirty' /\ Elsewhere
          /\ Published \subseteq Published' \cup clears'
      BY <2>1, <2>3
    <2>6. bitsDirty' \/ (bits' = bits /\ bitsDirty' = bitsDirty)
      BY <2>1, Zenon
    <2>5. \A i \in Items : i \notin dirty' =>
             addr'[i] = NoAddress \/ (addr'[i] = addr[i] /\ val'[i] = val[i])
      BY <2>1
    <2> HIDE DEF IInv
    <2> QED BY <2>2, <2>3, <2>4, <2>5, <2>6, StoreKeeps, Zenon
  <1> QED BY <1>1, <1>2

\* remove: the slot is to be cleared.
LEMMA RemoveStep == ASSUME IInv, Remove PROVE IInv'
  <1> USE DEF IInv
  <1>1. PICK i \in defined :
           /\ defined' = defined \ {i}
           /\ val' = [val EXCEPT ![i] = 0]
           /\ clears' = Leaves(i)
           /\ addr' = [addr EXCEPT ![i] = NoAddress]
           /\ dirty' = dirty \cup {i}
    BY DEF Remove
  <1>2. /\ Elsewhere /\ UNCHANGED <<bits, bitsDirty>>
        /\ changes < MaxChanges /\ changes' = changes + 1
    BY DEF Remove, Changing
  <1>3. /\ i \in Items /\ val \in [Items -> Values] /\ clears \subseteq Addresses
        /\ defined \subseteq Items
    BY DEF TypeOK
  <1>4. /\ addr'[i] = NoAddress /\ \A j \in Items \ {i} : addr'[j] = addr[j]
        /\ val' \in [Items -> Values] /\ \A j \in Items \ {i} : val'[j] = val[j]
    BY <1>1, <1>3, OneOwner, ValuesAssumption
  <1>5. addr' \in Assignments
    <2>1. addr' \in [Items -> Addresses \cup {NoAddress}]
      BY <1>1, OneOwner
    <2> QED BY <1>4, <2>1, OneOwner DEF Assignments
  <1>6. clears' \subseteq Addresses
    BY <1>1, <1>3, OneOwner DEF Leaves
  <1>7. TypeOK'
    BY <1>1, <1>2, <1>3, <1>4, <1>5, <1>6, MirrorBoundsAssumption DEF TypeOK, Elsewhere, mirror
  <1>8. Retaken'
    <2> SUFFICES ASSUME NEW j \in Items, addr'[j] \in clears'
                 PROVE  j \in dirty'
      BY DEF Retaken
    <2>1. CASE j = i
      BY <1>1, <2>1
    <2>2. CASE j # i
      <3>1. addr'[j] = addr[j]
        BY <1>4, <2>2
      <3>2. addr[j] \in clears
        BY <1>1, <1>3, <2>2, <3>1, OneOwner DEF Leaves
      <3> QED BY <1>1, <3>2 DEF Retaken
    <2> QED BY <2>1, <2>2
  <1>9. Published \subseteq Published' \cup clears'
    <2> SUFFICES ASSUME NEW a \in Published, a \notin clears'
                 PROVE  a \in Published'
      OBVIOUS
    <2>1. PICK j \in Items : a = addr[j] /\ a # NoAddress
      BY OneOwner
    <2>2. j # i
      BY <1>1, <2>1 DEF Leaves
    <2> QED BY <1>4, <2>1, <2>2 DEF Published
  <1>10. clears \subseteq clears'
    BY <1>1 DEF Leaves
  <1> QED BY <1>1, <1>2, <1>4, <1>7, <1>8, <1>9, <1>10, StoreKeeps

\* set_publish: the variable changes its slot for a free one.
LEMMA SetPublishStep == ASSUME IInv, SetPublish PROVE IInv'
  <1> USE DEF IInv
  <1>0. PICK i \in defined : \E b \in FreeFor(i) \cup {NoAddress} :
           /\ clears' = IF b = addr[i] THEN clears ELSE Leaves(i)
           /\ addr' = [addr EXCEPT ![i] = b]
           /\ dirty' = dirty \cup {i}
    BY DEF SetPublish
  <1>1. PICK b \in FreeFor(i) \cup {NoAddress} :
           /\ clears' = IF b = addr[i] THEN clears ELSE Leaves(i)
           /\ addr' = [addr EXCEPT ![i] = b]
           /\ dirty' = dirty \cup {i}
    BY <1>0
  <1>2. /\ Elsewhere /\ UNCHANGED <<defined, val, bits, bitsDirty>>
        /\ changes < MaxChanges /\ changes' = changes + 1
    BY DEF SetPublish, Changing
  <1>3. /\ i \in Items /\ val \in [Items -> Values] /\ clears \subseteq Addresses
        /\ defined \subseteq Items
    BY DEF TypeOK
  <1>4. addr'[i] = b /\ \A j \in Items \ {i} : addr'[j] = addr[j]
    BY <1>1, <1>3, OneOwner
  <1>5. addr' \in Assignments
    <2>1. addr' \in [Items -> Addresses \cup {NoAddress}]
      BY <1>1, OneOwner DEF FreeFor
    <2>2. \A j \in Items \ {i} : b = NoAddress \/ b # addr[j]
      BY <1>1 DEF FreeFor
    <2> QED BY <1>4, <2>1, <2>2, OneOwner DEF Assignments
  <1>6. clears' \subseteq Addresses /\ clears \subseteq clears'
    BY <1>1, <1>3, OneOwner DEF Leaves
  <1>7. TypeOK'
    BY <1>1, <1>2, <1>3, <1>4, <1>5, <1>6, MirrorBoundsAssumption DEF TypeOK, Elsewhere, mirror
  <1>8. Retaken'
    <2> SUFFICES ASSUME NEW j \in Items, addr'[j] \in clears'
                 PROVE  j \in dirty'
      BY DEF Retaken
    <2>1. CASE j = i
      BY <1>1, <2>1
    <2>2. CASE j # i
      <3>1. addr'[j] = addr[j]
        BY <1>4, <2>2
      <3>2. addr[j] \in clears
        BY <1>1, <1>3, <2>2, <3>1, OneOwner DEF Leaves
      <3> QED BY <1>1, <3>2 DEF Retaken
    <2> QED BY <2>1, <2>2
  <1>9. Published \subseteq Published' \cup clears'
    <2> SUFFICES ASSUME NEW a \in Published, a \notin clears'
                 PROVE  a \in Published'
      OBVIOUS
    <2>1. PICK j \in Items : a = addr[j] /\ a # NoAddress
      BY OneOwner
    <2>2. CASE j # i
      BY <1>4, <2>1, <2>2 DEF Published
    <2>3. CASE j = i
      <3>1. b = addr[i]
        BY <1>1, <2>1, <2>3 DEF Leaves
      <3> QED BY <1>4, <2>1, <2>3, <3>1 DEF Published
    <2> QED BY <2>2, <2>3
  <1> QED BY <1>1, <1>2, <1>4, <1>6, <1>7, <1>8, <1>9, StoreKeeps

\* reset, and load_from_dict, which gives other definitions.
LEMMA ResetStep == ASSUME IInv, Reset PROVE IInv'
  <1> USE DEF IInv
  <1>1. /\ val' = [i \in Items |-> IF i \in defined \cap AutoItems THEN 0 ELSE val[i]]
        /\ dirty' = dirty \cup (defined \cap AutoItems)
        /\ bits' \in {bits, 0} /\ bitsDirty' = TRUE
        /\ UNCHANGED <<defined, addr, clears>> /\ Elsewhere
        /\ changes < MaxChanges /\ changes' = changes + 1
    BY DEF Reset, Changing
  <1>2. val' \in [Items -> Values]
    BY <1>1, ValuesAssumption DEF TypeOK
  <1>3. TypeOK'
    BY <1>1, <1>2, ValuesAssumption, MirrorBoundsAssumption DEF TypeOK, Elsewhere, mirror
  <1>4. Retaken' /\ Published' = Published
    BY <1>1 DEF Retaken, Published
  <1>5. \A i \in Items : i \notin dirty' =>
           addr'[i] = NoAddress \/ (addr'[i] = addr[i] /\ val'[i] = val[i])
    BY <1>1
  <1>6. /\ clears \subseteq clears' /\ dirty \subseteq dirty' /\ Elsewhere
        /\ Published \subseteq Published' \cup clears'
    BY <1>1, <1>4
  <1>7. bitsDirty' \/ (bits' = bits /\ bitsDirty' = bitsDirty)
    BY <1>1, Zenon
  <1> HIDE DEF IInv
  <1> QED BY <1>3, <1>4, <1>5, <1>6, <1>7, StoreKeeps, Zenon

\* load_from_dict: what was published and is not any more is to be cleared.
LEMMA LoadStep == ASSUME IInv, Load PROVE IInv'
  <1> USE DEF IInv
  <1>1. /\ defined' \in SUBSET Items
        /\ val' = [i \in Items |-> 0] /\ bits' = 0
        /\ addr' \in Assignments
        /\ \A i \in Items \ defined' : addr'[i] = NoAddress
        /\ clears' = clears \cup (Published \ {addr'[i] : i \in Items})
        /\ dirty' = dirty \cup defined'
        /\ bitsDirty' = TRUE
        /\ Elsewhere
        /\ changes < MaxChanges /\ changes' = changes + 1
    BY DEF Load, Changing
  <1>2. clears' \subseteq Addresses
    BY <1>1, OneOwner DEF TypeOK
  <1>3. TypeOK'
    BY <1>1, <1>2, ValuesAssumption, MirrorBoundsAssumption DEF TypeOK, Elsewhere, mirror
  <1>4. \A i \in Items : i \notin dirty' => addr'[i] = NoAddress
    BY <1>1
  <1>7. /\ clears \subseteq clears' /\ dirty \subseteq dirty' /\ Elsewhere
        /\ \A i \in Items : i \notin dirty' =>
              addr'[i] = NoAddress \/ (addr'[i] = addr[i] /\ val'[i] = val[i])
    BY <1>1, <1>4
  <1>8. bitsDirty' \/ (bits' = bits /\ bitsDirty' = bitsDirty)
    BY <1>1, Zenon
  <1>5. Retaken'
    BY <1>2, <1>4, OneOwner DEF Retaken
  <1>6. Published \subseteq Published' \cup clears'
    BY <1>1 DEF Published
  <1> HIDE DEF IInv
  <1> QED BY <1>3, <1>5, <1>6, <1>7, <1>8, StoreKeeps, Zenon

---------------------------------------------------------------------------
(* The publisher.                                                            *)

\* A snapshot of what is flagged shows a published variable's value, a slot without
\* one as 0, and every slot that a flag speaks of.
LEMMA Flagged ==
    ASSUME TypeOK, Retaken, full \in BOOLEAN
    PROVE  LET s == Snapshot(IF full THEN defined ELSE dirty)
           IN  /\ s \in Words
               /\ clears \subseteq DOMAIN s
               /\ \A i \in Items : addr[i] \in DOMAIN s => s[addr[i]] = val[i]
               /\ \A a \in DOMAIN s : a \notin Published => s[a] = 0
               /\ \A i \in Items :
                     addr[i] # NoAddress /\ (full \/ i \in dirty) => addr[i] \in DOMAIN s
  <1> DEFINE d == IF full THEN defined ELSE dirty
             s == Snapshot(d)
             shared == {i \in d \cap defined : addr[i] # NoAddress}
  <1>1. d \in SUBSET Items
    BY DEF TypeOK
  <1>2. /\ s \in Words
        /\ DOMAIN s = clears \cup {addr[i] : i \in shared}
        /\ \A i \in shared : s[addr[i]] = val[i]
        /\ \A a \in DOMAIN s : (\A i \in shared : addr[i] # a) => s[a] = 0
    BY <1>1, SnapshotOf
  <1>3. \A i \in Items : addr[i] # NoAddress => i \in defined
    BY DEF TypeOK
  <1>4. \A i \in Items : addr[i] # NoAddress /\ (full \/ i \in dirty) => i \in shared
    BY <1>3
  <1>5. NoAddress \notin DOMAIN s
    BY <1>2, OneOwner DEF TypeOK
  <1>6. ASSUME NEW i \in Items, addr[i] \in DOMAIN s
        PROVE  s[addr[i]] = val[i]
    <2>1. addr[i] # NoAddress
      BY <1>5, <1>6
    <2>2. CASE addr[i] \in clears
      BY <1>2, <1>4, <2>1, <2>2 DEF Retaken
    <2>3. CASE \E j \in shared : addr[i] = addr[j]
      <3>1. i \in shared
        BY <1>1, <2>1, <2>3, OneOwner
      <3> QED BY <1>2, <3>1
    <2> QED BY <1>2, <1>6, <2>2, <2>3
  <1>7. ASSUME NEW a \in DOMAIN s, a \notin Published
        PROVE  s[a] = 0
    <2>1. \A i \in shared : addr[i] # a
      BY <1>1, <1>7, OneOwner
    <2> QED BY <1>2, <1>7, <2>1
  <1>8. \A i \in Items : addr[i] # NoAddress /\ (full \/ i \in dirty) => addr[i] \in DOMAIN s
    BY <1>2, <1>4
  <1> QED BY <1>2, <1>6, <1>7, <1>8

\* One tick of the publisher: the snapshot takes over what the flags said.
LEMMA PublishStep == ASSUME IInv, Publish PROVE IInv'
  <1> DEFINE s == Snapshot(IF full THEN defined ELSE dirty)
             W == Writes(s)
  <1>1. /\ TypeOK /\ QueueOK /\ InOrder(queue, snap) /\ Unsent /\ Retaken /\ OnItsWay
        /\ full \in BOOLEAN /\ snap \in Nat /\ bits \in Values /\ queue \in Seq(Message)
    BY DEF IInv, TypeOK, QueueOK
  <1>2. /\ s \in Words /\ clears \subseteq DOMAIN s
        /\ \A i \in Items : addr[i] \in DOMAIN s => s[addr[i]] = val[i]
        /\ \A a \in DOMAIN s : a \notin Published => s[a] = 0
        /\ \A i \in Items :
              addr[i] # NoAddress /\ (full \/ i \in dirty) => addr[i] \in DOMAIN s
    BY <1>1, Flagged
  <1> HIDE DEF s
  <1>3. /\ W \in Seq(Message)
        /\ \A n \in DOMAIN W :
              W[n].snap = snap + 1 /\ (W[n].kind = "header" => n = Len(W))
        /\ bitsDirty \/ full => CarryBits(W) # {}
        /\ ~bitsDirty /\ ~full => CarryBits(W) = {}
        /\ \A n \in CarryBits(W) : W[n].words = bits
        /\ \A a \in Addresses :
              /\ a \in DOMAIN s \/ InBlock(s) => Carry(W, a) # {}
              /\ a \notin DOMAIN s /\ ~InBlock(s) => Carry(W, a) = {}
              /\ \A n \in Carry(W, a) : W[n].words[a] = IF a \in DOMAIN s THEN s[a] ELSE 0
    BY <1>1, <1>2, WritesOf
  <1> HIDE DEF W
  <1>4. /\ dirty' = {} /\ clears' = {} /\ ~bitsDirty' /\ bitsDirty' \in BOOLEAN
        /\ UNCHANGED <<defined, val, addr, bits, view, link, signals, mirror, losses, broken>>
    BY DEF Publish, Consumed
  <1>5. DOMAIN s = {} /\ ~full => ~InBlock(s)
    <2> SUFFICES ASSUME DOMAIN s = {}
                 PROVE  ~(Cardinality(DOMAIN s) > Threshold)
      BY DEF InBlock
    <2> QED BY FS_EmptySet, MirrorBoundsAssumption
  <1>6. /\ changes' \in 0 .. MaxChanges /\ ~full' /\ full' \in BOOLEAN
        /\ zeroed' = IF InBlock(s) THEN Published \ DOMAIN s ELSE zeroed \ DOMAIN s
        /\ \/ queue' = queue \o W /\ snap' = snap + 1
           \/ /\ queue' = queue /\ snap' = snap
              /\ ~full /\ ~bitsDirty /\ DOMAIN s = {} /\ ~InBlock(s)
    <2>1. CASE /\ changes' = changes /\ queue' = queue \o W
               /\ zeroed' = IF InBlock(s) THEN Published \ DOMAIN s ELSE zeroed \ DOMAIN s
               /\ snap' = snap + 1 /\ full' = FALSE
      BY <1>1, <2>1 DEF TypeOK
    <2>2. CASE /\ ~full /\ ~bitsDirty /\ DOMAIN s = {}
               /\ \/ Changing /\ queue' = queue \o W /\ snap' = snap + 1
                  \/ UNCHANGED <<changes, queue, snap>>
               /\ UNCHANGED <<zeroed, full>>
      <3>1. ~InBlock(s)
        BY <1>5, <2>2
      <3>2. zeroed' = zeroed \ DOMAIN s
        BY <2>2
      <3>3. changes' \in 0 .. MaxChanges
        BY <1>1, <2>2, MirrorBoundsAssumption DEF TypeOK, Changing
      <3>4. ~full' /\ full' \in BOOLEAN
        BY <1>1, <2>2
      <3> QED BY <2>2, <3>1, <3>2, <3>3, <3>4
    <2> QED BY <2>1, <2>2 DEF Publish, s, W
  <1>7. TypeOK'
    <2>1. snap' \in Nat
      BY <1>1, <1>6
    <2> QED BY <1>1, <1>4, <1>6, <2>1 DEF TypeOK, mirror
  <1>8. QueueOK' /\ InOrder(queue, snap)'
    <2>1. CASE queue' = queue \o W /\ snap' = snap + 1
      <3>1. queue \o W \in Seq(Message)
        BY <1>1, <1>3, Joining
      <3>2. InOrder(queue \o W, snap + 1)
        BY <1>1, <1>3, OrderAppended
      <3>3. signals' \in Seq(BOOLEAN)
        BY <1>1, <1>4 DEF QueueOK
      <3> QED BY <2>1, <3>1, <3>2, <3>3 DEF QueueOK, InOrder
    <2>2. CASE queue' = queue /\ snap' = snap
      BY <1>1, <1>4, <2>2 DEF QueueOK, InOrder
    <2> QED BY <1>6, <2>1, <2>2
  <1>9. Unsent'
    <2>1. broken' = broken /\ link' = link /\ snap' \in Nat /\ snap <= snap'
      BY <1>1, <1>4, <1>6
    <2>2. broken' \subseteq 0 .. snap'
      BY <1>1, <2>1 DEF Unsent
    <2>3. ASSUME link', NEW i \in DOMAIN queue'
          PROVE  queue'[i].snap \notin broken'
      <3>1. CASE queue' = queue \o W /\ snap' = snap + 1
        <4>1. \/ i \in DOMAIN queue /\ queue'[i] = queue[i]
              \/ \E n \in DOMAIN W : queue'[i] = W[n]
          BY <1>1, <1>3, <2>3, <3>1, Joining
        <4>2. snap + 1 \notin broken
          BY <1>1 DEF Unsent
        <4> QED BY <1>1, <1>3, <2>1, <2>3, <4>1, <4>2 DEF Unsent
      <3>2. CASE queue' = queue
        BY <1>1, <2>1, <2>3, <3>2 DEF Unsent
      <3> QED BY <1>6, <3>1, <3>2
    <2> QED BY <2>2, <2>3 DEF Unsent
  <1>10. Retaken'
    BY <1>4 DEF Retaken
  <1>11. ASSUME Told'
         PROVE  LeadsBits(queue, dtBits, bits)'
    <2>1. dtBits' = dtBits /\ bits' = bits
      BY <1>4 DEF mirror
    <2>2. ~full => Told
      BY <1>4, <1>11 DEF Told
    <2>3. CASE bitsDirty \/ full
      <3>1. queue' = queue \o W
        BY <1>6, <2>3
      <3>2. LeadsBits(queue \o W, dtBits, bits)
        BY <1>1, <1>3, <2>3, LeadsBitsAppended
      <3> QED BY <2>1, <3>1, <3>2 DEF LeadsBits
    <2>4. CASE ~(bitsDirty \/ full)
      <3>1. LeadsBits(queue, dtBits, bits)
        BY <1>1, <2>2, <2>4 DEF OnItsWay
      <3>2. LeadsBits(queue \o W, dtBits, bits)
        BY <1>1, <1>3, <2>4, <3>1, LeadsBitsAppended
      <3> QED BY <1>6, <2>1, <3>1, <3>2 DEF LeadsBits
    <2> QED BY <2>3, <2>4
  <1>12. ASSUME Told', NEW a \in Addresses, a \notin zeroed'
         PROVE  SlotTold(a)'
    <2>1. dt' = dt /\ addr' = addr /\ val' = val /\ Published' = Published
      BY <1>4 DEF mirror, Published
    <2>2. ~full => Told
      BY <1>4, <1>12 DEF Told
    <2>3. a # NoAddress
      BY <1>1, OneOwner
    <2>4. ASSUME NEW v,
                 \/ /\ a \in DOMAIN s \/ InBlock(s)
                    /\ v = IF a \in DOMAIN s THEN s[a] ELSE 0
                 \/ ~(a \in DOMAIN s \/ InBlock(s)) /\ Leads(queue, a, dt[a], v)
          PROVE  Leads(queue, a, dt[a], v)'
      <3>1. CASE queue' = queue \o W
        <4>1. \/ Carry(W, a) # {} /\ \A n \in Carry(W, a) : W[n].words[a] = v
              \/ Carry(W, a) = {} /\ Leads(queue, a, dt[a], v)
          BY <1>3, <2>4
        <4>2. Leads(queue \o W, a, dt[a], v)
          BY <1>1, <1>3, <4>1, LeadsAppended
        <4> QED BY <2>1, <3>1, <4>2 DEF Leads
      <3>2. CASE queue' = queue /\ DOMAIN s = {} /\ ~InBlock(s)
        BY <2>1, <2>4, <3>2 DEF Leads
      <3> QED BY <1>6, <3>1, <3>2
    <2>5. CASE a \in DOMAIN s
      <3>1. \A i \in Items : addr[i] = a => s[a] = val[i]
        BY <1>2, <2>5
      <3>2. a \notin Published => s[a] = 0
        BY <1>2, <2>5
      <3> QED BY <2>1, <2>4, <2>5, <3>1, <3>2 DEF SlotTold
    <2>6. CASE a \notin DOMAIN s /\ InBlock(s)
      <3>1. a \notin Published
        BY <1>6, <1>12, <2>6
      <3>2. \A i \in Items : addr[i] # a
        BY <1>1, <2>3, <3>1, OneOwner
      <3> QED BY <2>1, <2>4, <2>6, <3>2 DEF SlotTold
    <2>7. CASE a \notin DOMAIN s /\ ~InBlock(s)
      <3>1. ~full
        BY <2>7 DEF InBlock
      <3>2. a \notin zeroed /\ a \notin clears
        BY <1>2, <1>6, <1>12, <2>7
      <3>3. SlotTold(a)
        BY <1>1, <2>2, <3>1, <3>2 DEF OnItsWay
      <3>4. \A i \in Items : addr[i] = a => i \notin dirty
        BY <1>2, <2>3, <2>7
      <3> QED BY <2>1, <2>4, <2>7, <3>3, <3>4 DEF SlotTold
    <2> QED BY <2>5, <2>6, <2>7
  <1>13. OnItsWay'
    BY <1>11, <1>12 DEF OnItsWay
  <1> QED BY <1>7, <1>8, <1>9, <1>10, <1>13 DEF IInv

---------------------------------------------------------------------------
(* The queue, the session and its signals.                                   *)

\* A write leaves the PLC with numbers of its type.
LEMMA ApplyTypes ==
    ASSUME TypeOK, NEW w \in Message, Apply(w)
    PROVE  /\ dt' \in [Addresses -> Values] /\ dtBits' \in Values /\ commit' \in Nat
           /\ \A a \in Addresses : dt'[a] = IF w.kind = "data" /\ a \in DOMAIN w.words
                                            THEN w.words[a] ELSE dt[a]
           /\ dtBits' = IF w.kind = "bits" THEN w.words ELSE dtBits
           /\ commit' # commit => w.kind = "header" /\ commit' = w.snap
  <1>1. /\ w.snap \in Nat
        /\ w.kind = "data" => \A a \in DOMAIN w.words : w.words[a] \in Values
        /\ w.kind = "bits" => w.words \in Values
    BY MessageFields
  <1>2. /\ dt' = IF w.kind = "data"
                 THEN [a \in Addresses |-> IF a \in DOMAIN w.words THEN w.words[a] ELSE dt[a]]
                 ELSE dt
        /\ dtBits' = IF w.kind = "bits" THEN w.words ELSE dtBits
        /\ commit' = IF w.kind = "header" THEN w.snap ELSE commit
    BY DEF Apply
  <1>3. dt \in [Addresses -> Values] /\ dtBits \in Values /\ commit \in Nat
    BY DEF TypeOK
  <1>4. CASE w.kind = "data"
    BY <1>1, <1>2, <1>3, <1>4
  <1>5. CASE w.kind # "data"
    BY <1>1, <1>2, <1>3, <1>5
  <1> QED BY <1>4, <1>5

\* The first write is executed, perhaps executed, or dropped.
LEMMA TransmitStep == ASSUME IInv, Transmit PROVE IInv'
  <1> DEFINE h == Head(queue)
  <1>1. /\ TypeOK /\ QueueOK /\ InOrder(queue, snap) /\ Unsent /\ Retaken /\ OnItsWay
        /\ queue # <<>> /\ queue \in Seq(Message) /\ snap \in Nat
    BY DEF IInv, TypeOK, QueueOK, Transmit
  <1>2. /\ queue' = Tail(queue)
        /\ UNCHANGED <<defined, val, addr, dirty, clears, bits, bitsDirty, full, snap, view,
                       changes, zeroed>>
    BY DEF Transmit, store
  <1>3. /\ Tail(queue) \in Seq(Message) /\ h \in Message /\ 1 \in DOMAIN queue
        /\ h = queue[1]
        /\ \A i \in DOMAIN Tail(queue) :
              i + 1 \in DOMAIN queue /\ Tail(queue)[i] = queue[i + 1]
        /\ InOrder(Tail(queue), snap)
    BY <1>1, OrderSent
  <1>4. h.snap \in 0 .. snap
    BY <1>1, <1>3, MessageFields DEF InOrder
  <1>5. /\ dt' \in [Addresses -> Values] /\ dtBits' \in Values /\ commit' \in Nat
        /\ link' \in BOOLEAN /\ signals' \in Seq(BOOLEAN) /\ losses' \in 0 .. MaxLosses
        /\ broken' \subseteq 0 .. snap
        /\ link' => Written
    <2>1. CASE Written
      <3>1. Apply(h) /\ UNCHANGED <<link, signals, losses, broken>>
        BY <2>1 DEF Written
      <3> QED BY <1>1, <1>3, <2>1, <3>1, ApplyTypes DEF TypeOK, QueueOK, Unsent
    <2>2. CASE Unanswered
      <3>1. /\ losses < MaxLosses /\ losses' = losses + 1
            /\ link' = FALSE /\ signals' = Append(signals, FALSE)
            /\ broken' = broken \cup {h.snap}
            /\ Apply(h) \/ UNCHANGED mirror
        BY <2>2 DEF Unanswered, LinkLost
      <3>2. dt' \in [Addresses -> Values] /\ dtBits' \in Values /\ commit' \in Nat
        <4>1. CASE Apply(h)
          BY <1>1, <1>3, <4>1, ApplyTypes
        <4>2. CASE UNCHANGED mirror
          BY <1>1, <4>2 DEF TypeOK, mirror
        <4> QED BY <3>1, <4>1, <4>2
      <3>3. losses' \in 0 .. MaxLosses
        BY <1>1, <3>1, MirrorBoundsAssumption DEF TypeOK
      <3>4. signals' \in Seq(BOOLEAN)
        BY <1>1, <3>1, AppendProperties DEF QueueOK
      <3> QED BY <1>1, <1>4, <3>1, <3>2, <3>3, <3>4 DEF Unsent
    <2>3. CASE Dropped
      <3>1. ~link /\ broken' = broken \cup {h.snap} /\ UNCHANGED <<link, signals, losses, mirror>>
        BY <2>3 DEF Dropped
      <3> QED BY <1>1, <1>4, <3>1 DEF TypeOK, QueueOK, Unsent, mirror
    <2> QED BY <2>1, <2>2, <2>3 DEF Transmit
  <1>6. TypeOK'
    BY <1>1, <1>2, <1>5 DEF TypeOK
  <1>7. QueueOK' /\ InOrder(queue, snap)' /\ Retaken'
    BY <1>1, <1>2, <1>3, <1>5 DEF QueueOK, InOrder, Retaken
  <1>8. Unsent'
    <2>1. ASSUME link', NEW i \in DOMAIN queue'
          PROVE  queue'[i].snap \notin broken'
      <3>1. link /\ broken' = broken
        BY <1>5, <2>1 DEF Written
      <3>2. i + 1 \in DOMAIN queue /\ queue'[i] = queue[i + 1]
        BY <1>2, <1>3, <2>1
      <3> QED BY <1>1, <3>1, <3>2 DEF Unsent
    <2> QED BY <1>2, <1>5, <2>1 DEF Unsent
  <1>9. OnItsWay'
    <2> SUFFICES ASSUME Told'
                 PROVE  /\ bitsDirty' \/ LeadsBits(queue, dtBits, bits)'
                        /\ \A a \in Addresses \ (zeroed' \cup clears') : SlotTold(a)'
      BY DEF OnItsWay
    <2>1. Apply(h) /\ link /\ UNCHANGED <<link, signals>>
      BY <1>5 DEF Told, Written
    <2>2. Told
      BY <1>2, <2>1 DEF Told
    <2>3. /\ \A a \in Addresses : dt'[a] = IF h.kind = "data" /\ a \in DOMAIN h.words
                                           THEN h.words[a] ELSE dt[a]
          /\ dtBits' = IF h.kind = "bits" THEN h.words ELSE dtBits
      BY <1>1, <1>3, <2>1, ApplyTypes
    <2>4. ASSUME NEW a \in Addresses, NEW v, Leads(queue, a, dt[a], v)
          PROVE  Leads(queue, a, dt[a], v)'
      <3>1. Leads(Tail(queue), a, IF h.kind = "data" /\ a \in DOMAIN h.words
                                  THEN h.words[a] ELSE dt[a], v)
        BY <1>1, <2>4, LeadsSent
      <3>2. Leads(Tail(queue), a, dt'[a], v)
        BY <2>3, <3>1
      <3> QED BY <1>2, <3>2 DEF Leads
    <2>5. bitsDirty' \/ LeadsBits(queue, dtBits, bits)'
      <3>1. CASE bitsDirty
        BY <1>2, <3>1
      <3>2. CASE LeadsBits(queue, dtBits, bits)
        <4>1. LeadsBits(Tail(queue), IF h.kind = "bits" THEN h.words ELSE dtBits, bits)
          BY <1>1, <3>2, LeadsBitsSent
        <4>2. LeadsBits(Tail(queue), dtBits', bits)
          BY <2>3, <4>1
        <4> QED BY <1>2, <4>2 DEF LeadsBits
      <3> QED BY <1>1, <2>2, <3>1, <3>2 DEF OnItsWay
    <2>6. ASSUME NEW a \in Addresses \ (zeroed' \cup clears')
          PROVE  SlotTold(a)'
      <3>1. SlotTold(a)
        BY <1>1, <1>2, <2>2, <2>6 DEF OnItsWay
      <3>2. addr' = addr /\ val' = val /\ dirty' = dirty /\ Published' = Published
        BY <1>2 DEF Published
      <3> QED BY <2>4, <3>1, <3>2 DEF SlotTold
    <2> QED BY <2>5, <2>6
  <1> QED BY <1>6, <1>7, <1>8, <1>9 DEF IInv

\* The session is lost: what is on its way is no longer relied on.
LEMMA LoseStep == ASSUME IInv, Lose PROVE IInv'
  <1>1. /\ TypeOK /\ QueueOK /\ InOrder(queue, snap) /\ Unsent /\ Retaken
        /\ losses < MaxLosses /\ losses' = losses + 1
        /\ link' = FALSE /\ signals' = Append(signals, FALSE)
        /\ UNCHANGED <<defined, val, addr, dirty, clears, bits, bitsDirty, full, snap, view,
                       queue, dt, dtBits, commit, changes, broken, zeroed>>
    BY DEF IInv, Lose, LinkLost, store, mirror
  <1>2. TypeOK'
    <2>1. losses' \in 0 .. MaxLosses
      BY <1>1, MirrorBoundsAssumption DEF TypeOK
    <2>2. link' \in BOOLEAN
      BY <1>1
    <2> QED BY <1>1, <2>1, <2>2 DEF TypeOK
  <1>3. QueueOK'
    BY <1>1, AppendProperties DEF QueueOK
  <1>4. InOrder(queue, snap)' /\ Unsent' /\ Retaken' /\ OnItsWay'
    BY <1>1 DEF InOrder, Unsent, Retaken, OnItsWay, Told
  <1> QED BY <1>2, <1>3, <1>4 DEF IInv

\* A new session starts with an empty queue and the word that it has come.
LEMMA ReconnectStep == ASSUME IInv, Reconnect PROVE IInv'
  <1>1. /\ TypeOK /\ QueueOK /\ InOrder(queue, snap) /\ Unsent /\ Retaken
        /\ queue = <<>> /\ link' = TRUE /\ signals' = Append(signals, TRUE)
        /\ UNCHANGED <<defined, val, addr, dirty, clears, bits, bitsDirty, full, snap, view,
                       queue, dt, dtBits, commit, changes, losses, broken, zeroed>>
    BY DEF IInv, Reconnect, store, mirror
  <1>2. TypeOK'
    BY <1>1 DEF TypeOK
  <1>3. /\ QueueOK' /\ Len(signals) + 1 \in DOMAIN signals'
        /\ signals'[Len(signals) + 1] = TRUE
    <2>1. /\ signals' \in Seq(BOOLEAN) /\ Len(signals') = Len(signals) + 1
          /\ signals'[Len(signals) + 1] = TRUE /\ Len(signals) \in Nat
      BY <1>1, AppendProperties DEF QueueOK
    <2> QED BY <1>1, <2>1 DEF QueueOK
  <1>4. InOrder(queue, snap)' /\ Unsent' /\ Retaken'
    BY <1>1 DEF InOrder, Unsent, Retaken
  <1>5. OnItsWay'
    BY <1>3 DEF OnItsWay, Told
  <1> QED BY <1>2, <1>3, <1>4, <1>5 DEF IInv

\* The UI thread hears of it, and has everything sent; or hears of a loss.
LEMMA ConnectedStep == ASSUME IInv, OnConnected PROVE IInv'
  <1> DEFINE up == Head(signals)
  <1>1. /\ TypeOK /\ QueueOK /\ InOrder(queue, snap) /\ Unsent /\ Retaken /\ OnItsWay
        /\ signals # <<>> /\ view' = up /\ full' = (full \/ up)
        /\ dirty' = IF up THEN dirty \cup defined ELSE dirty
        /\ bitsDirty' = (bitsDirty \/ up)
        /\ signals' = Tail(signals)
        /\ UNCHANGED <<defined, val, addr, clears, bits, snap, link, queue, dt, dtBits,
                       commit, changes, losses, broken, zeroed>>
    BY DEF IInv, OnConnected, mirror
  <1>2. /\ up \in BOOLEAN /\ signals' \in Seq(BOOLEAN) /\ 1 \in DOMAIN signals
        /\ signals[1] = up
        /\ \A n \in DOMAIN signals' : n + 1 \in DOMAIN signals /\ signals'[n] = signals[n + 1]
    <2>0. signals \in Seq(BOOLEAN) /\ signals # <<>>
      BY <1>1 DEF QueueOK
    <2>1. /\ up \in BOOLEAN /\ Tail(signals) \in Seq(BOOLEAN)
          /\ Len(Tail(signals)) = Len(signals) - 1
          /\ \A n \in 1 .. Len(Tail(signals)) : Tail(signals)[n] = signals[n + 1]
      BY <2>0, HeadTailProperties
    <2>2. Len(signals) \in Nat /\ Len(signals) >= 1 /\ DOMAIN signals = 1 .. Len(signals)
      BY <2>0, EmptySeq
    <2>3. signals[1] = up
      BY <2>0, <2>2
    <2>5. signals' = Tail(signals)
      BY <1>1, Zenon
    <2>4. DOMAIN Tail(signals) = 1 .. Len(Tail(signals))
      BY <2>1
    <2> HIDE DEF up
    <2> QED BY <2>1, <2>2, <2>3, <2>4, <2>5
  <1> HIDE DEF up
  <1>3. dirty \subseteq dirty' /\ dirty' \subseteq Items
    BY <1>1 DEF TypeOK
  <1>4. full' \in BOOLEAN /\ bitsDirty' \in BOOLEAN /\ view' \in BOOLEAN
    BY <1>1, <1>2
  <1>5. TypeOK'
    BY <1>1, <1>3, <1>4 DEF TypeOK
  <1>6. QueueOK' /\ InOrder(queue, snap)' /\ Unsent' /\ Retaken'
    BY <1>1, <1>2, <1>3 DEF QueueOK, InOrder, Unsent, Retaken
  <1>7. OnItsWay'
    <2>1. CASE up
      <3>1. full'
        BY <1>1, <2>1, Zenon
      <3> QED BY <3>1 DEF OnItsWay, Told
    <2>2. CASE ~up
      <3>1. full' = full /\ bitsDirty' = bitsDirty
        BY <1>1, <2>2 DEF TypeOK
      <3>2. dirty' = dirty
        BY <1>1, <2>2
      <3>3. Told' => Told
        <4> SUFFICES ASSUME Told', NEW n \in DOMAIN signals
                     PROVE  ~signals[n]
          BY <1>1, <3>1 DEF Told
        <4>1. CASE n = 1
          BY <1>2, <2>2, <4>1
        <4>2. CASE n # 1
          <5>1. n - 1 \in DOMAIN signals' /\ n = (n - 1) + 1
            <6>1. /\ Len(Tail(signals)) = Len(signals) - 1 /\ Tail(signals) \in Seq(BOOLEAN)
                  /\ signals \in Seq(BOOLEAN)
              BY <1>1, HeadTailProperties DEF QueueOK
            <6> QED BY <1>1, <4>2, <6>1
          <5>2. ~signals'[n - 1]
            BY <5>1 DEF Told
          <5> QED BY <1>2, <5>1, <5>2
        <4> QED BY <4>1, <4>2
      <3>4. Published' = Published
        BY <1>1 DEF Published
      <3> QED BY <1>1, <3>1, <3>2, <3>3, <3>4 DEF OnItsWay, SlotTold, Leads, LeadsBits
    <2> QED BY <2>1, <2>2
  <1> QED BY <1>5, <1>6, <1>7 DEF IInv

---------------------------------------------------------------------------
(* The theorems.                                                             *)

\* The invariant holds at first: there is no session.
LEMMA InitInv == Init => IInv
  <1> SUFFICES ASSUME Init
               PROVE  IInv
    OBVIOUS
  <1>1. dt \in [Addresses -> Values] /\ dtBits \in Values
    BY DEF Init
  <1>2. /\ defined = Items /\ val = [i \in Items |-> 0] /\ addr \in Assignments
        /\ dirty = Items /\ clears = {} /\ bits = 0 /\ bitsDirty = TRUE
        /\ full = TRUE /\ snap = 0 /\ view = FALSE /\ link = FALSE
        /\ signals = <<>> /\ queue = <<>> /\ commit = 0
        /\ changes = 0 /\ losses = 0 /\ broken = {} /\ zeroed = {}
    BY DEF Init
  <1>3. TypeOK
    <2>1. val \in [Items -> Values] /\ bits \in Values
      BY <1>2, ValuesAssumption
    <2>2. changes \in 0 .. MaxChanges /\ losses \in 0 .. MaxLosses
      BY <1>2, MirrorBoundsAssumption
    <2>3. /\ bitsDirty \in BOOLEAN /\ full \in BOOLEAN /\ view \in BOOLEAN /\ link \in BOOLEAN
          /\ snap \in Nat /\ commit \in Nat
      BY <1>2
    <2>4. /\ defined \subseteq Items /\ dirty \subseteq Items /\ clears \subseteq Addresses
          /\ \A i \in Items \ defined : addr[i] = NoAddress
      BY <1>2
    <2> QED BY <1>1, <1>2, <2>1, <2>2, <2>3, <2>4 DEF TypeOK
  <1>4. QueueOK /\ InOrder(queue, snap)
    <2>1. queue \in Seq(Message) /\ signals \in Seq(BOOLEAN) /\ DOMAIN queue = {}
      BY <1>2
    <2> QED BY <2>1 DEF QueueOK, InOrder
  <1>5. Unsent /\ Retaken /\ OnItsWay
    BY <1>2 DEF Unsent, Retaken, OnItsWay, Told
  <1> QED BY <1>3, <1>4, <1>5 DEF IInv

\* Every step keeps it.
LEMMA NextInv == IInv /\ [Next]_vars => IInv'
  <1> SUFFICES ASSUME IInv, [Next]_vars
               PROVE  IInv'
    OBVIOUS
  <1>1. CASE UNCHANGED vars
    <2>1. UNCHANGED <<defined, val, addr, dirty, clears, bits, bitsDirty, full, snap, view,
                      link, signals, queue, dt, dtBits, commit, changes, losses, broken,
                      zeroed>>
      BY <1>1 DEF vars, store, mirror
    <2>2. TypeOK' /\ QueueOK' /\ InOrder(queue, snap)' /\ Unsent' /\ Retaken'
      BY <2>1 DEF IInv, TypeOK, QueueOK, InOrder, Unsent, Retaken
    <2>3. OnItsWay'
      BY <2>1 DEF IInv, OnItsWay, Told, SlotTold, Leads, LeadsBits, Carry, CarryBits, Published
    <2> QED BY <2>2, <2>3 DEF IInv
  <1>2. CASE SetData \/ SetBits
    BY <1>2, SetStep
  <1>3. CASE Remove
    BY <1>3, RemoveStep
  <1>4. CASE SetPublish
    BY <1>4, SetPublishStep
  <1>5. CASE Reset
    BY <1>5, ResetStep
  <1>6. CASE Load
    BY <1>6, LoadStep
  <1>7. CASE Publish
    BY <1>7, PublishStep
  <1>8. CASE Transmit
    BY <1>8, TransmitStep
  <1>9. CASE Lose
    BY <1>9, LoseStep
  <1>10. CASE Reconnect
    BY <1>10, ReconnectStep
  <1>11. CASE OnConnected
    BY <1>11, ConnectedStep
  <1> QED BY <1>1, <1>2, <1>3, <1>4, <1>5, <1>6, <1>7, <1>8, <1>9, <1>10, <1>11 DEF Next

\* For all variables, slots, values and thresholds, and whatever was lost: once nothing is
\* on its way each slot shows its variable, or 0 if it has none, unless a partial block
\* has zeroed it; no slot has two variables.
THEOREM MirrorInvariant == Spec => []MirrorInv
  <1>1. IInv => MirrorInv
    <2> SUFFICES ASSUME IInv
                 PROVE  MirrorInv
      OBVIOUS
    <2>1. TypeOK /\ OnItsWay
      BY DEF IInv
    <2>2. ASSUME Settled
          PROVE  dtBits = bits /\ \A a \in Addresses \ zeroed : dt[a] = Shown(a)
      <3>1. /\ link /\ ~full /\ signals = <<>> /\ queue = <<>>
            /\ dirty = {} /\ clears = {} /\ ~bitsDirty
        BY <2>2 DEF Settled
      <3>2. DOMAIN signals = {} /\ DOMAIN queue = {}
        BY <3>1
      <3>3. Told
        BY <3>1, <3>2 DEF Told
      <3>4. CarryBits(queue) = {} /\ \A a : Carry(queue, a) = {}
        BY <3>2 DEF CarryBits, Carry
      <3>5. dtBits = bits
        BY <2>1, <3>1, <3>3, <3>4 DEF OnItsWay, LeadsBits
      <3>6. ASSUME NEW a \in Addresses \ zeroed
            PROVE  dt[a] = Shown(a)
        <4>1. SlotTold(a)
          BY <2>1, <3>1, <3>3 DEF OnItsWay
        <4>2. /\ \A i \in Items : addr[i] = a => dt[a] = val[i]
              /\ a \notin Published => dt[a] = 0
          BY <3>1, <3>4, <4>1 DEF SlotTold, Leads
        <4>3. a \notin Published <=> \A i \in Items : addr[i] # a
          BY <2>1, OneOwner
        <4> QED BY <4>2, <4>3 DEF Shown
      <3> QED BY <3>5, <3>6
    <2> QED BY <2>1, <2>2 DEF MirrorInv, MirrorAgreesApart
  <1> QED BY <1>1, InitInv, NextInv, PTL DEF Spec

\* The header with the number of a snapshot is written when every other write of that
\* snapshot has been executed, and none of an earlier one is left: a reader of the number
\* never has a snapshot of which a part was lost.
THEOREM HeaderIsLast == Spec => CommitIsLast
  <1>1. ASSUME IInv, [Next]_vars, commit' # commit
        PROVE  commit' \notin broken /\ \A n \in DOMAIN queue' : queue'[n].snap > commit'
    <2>1. Transmit
      BY <1>1 DEF Next, vars, mirror, Elsewhere, SetData, SetBits, Remove, SetPublish, Reset,
         Load, Publish, Lose, Reconnect, OnConnected
    <2>2. /\ TypeOK /\ InOrder(queue, snap) /\ Unsent /\ snap \in Nat
          /\ queue \in Seq(Message) /\ queue # <<>> /\ queue' = Tail(queue)
      BY <1>1, <2>1 DEF IInv, TypeOK, QueueOK, Transmit
    <2>3. link /\ Apply(Head(queue))
      BY <1>1, <2>1 DEF Transmit, Written, Unanswered, Dropped, mirror
    <2>4. /\ Head(queue) \in Message /\ 1 \in DOMAIN queue /\ Head(queue) = queue[1]
          /\ Head(queue).kind = "header" =>
                \A i \in DOMAIN Tail(queue) : Tail(queue)[i].snap > Head(queue).snap
      BY <2>2, OrderSent
    <2>5. Head(queue).kind = "header" /\ commit' = Head(queue).snap
      BY <1>1, <2>2, <2>3, <2>4, ApplyTypes
    <2>6. commit' \notin broken
      BY <2>2, <2>3, <2>4, <2>5 DEF Unsent
    <2> QED BY <2>2, <2>4, <2>5, <2>6
  <1>2. IInv /\ [Next]_vars
        => [commit' # commit =>
              /\ commit' \notin broken
              /\ \A n \in DOMAIN queue' : queue'[n].snap > commit']_vars
    BY <1>1
  <1> QED BY <1>2, InitInv, NextInv, PTL DEF Spec, CommitIsLast
=====
