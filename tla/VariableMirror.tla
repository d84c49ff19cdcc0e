-------------------------- MODULE VariableMirror --------------------------
(* The pendant's named variables and their read-only mirror in the PLC:      *)
(* VariableStore (utils/variable_store.py), whose dirty flags and pending    *)
(* clears any thread sets; the 100 ms publisher of PLCSequenceRuntime        *)
(* (engine/qt_runtime.py), which consumes them and queues writes whose       *)
(* results nobody looks at; and the ordered command queue of PLCClient, which*)
(* loses writes when the session is lost.                                    *)
(*                                                                           *)
(* The bits are one value, published together; names are left out; initial   *)
(* values are 0, also those of the bits.  Values are not clamped.            *)
EXTENDS Integers, Sequences, FiniteSets

CONSTANTS
    Items,          \* identities of data variables
    NumAddresses,   \* DINT slots of the export block, numbered from 1
    Values,         \* values of a variable, 0 among them
    AutoItems,      \* variables whose reset policy is "auto"
    Threshold,      \* most values written one by one (8 in the code)
    MaxChanges,     \* bound: changes of the variables and of the status word
    MaxLosses       \* bound: losses of the session

ASSUME ItemsAssumption == AutoItems \subseteq Items
ASSUME ValuesAssumption == 0 \in Values /\ Values \subseteq Int
ASSUME MirrorBoundsAssumption ==
    NumAddresses \in Nat /\ Threshold \in Nat /\ MaxChanges \in Nat /\ MaxLosses \in Nat

VARIABLES
    defined,    \* the variables that exist
    val,        \* their values
    addr,       \* plc_dt_address, NoAddress when not published
    dirty,      \* _dirty_data
    clears,     \* _pending_data_clears
    bits,       \* the words of the published bits
    bitsDirty,  \* _dirty_bits
    full,       \* _publish_full
    snap,       \* _publish_sequence
    view,       \* is_connected of the runtime
    link,       \* is_connected of the client
    signals,    \* sig_connected on their way to the UI thread
    queue,      \* writes submitted and not yet executed
    dt,         \* the PLC: the export block
    dtBits,     \*          the bit words
    commit,     \*          the snapshot number of the header
    changes,    \* changes so far
    losses,     \* losses so far
    broken,     \* history: snapshots of which a write failed or was dropped
    zeroed      \* history: published slots a partial block set to 0

store == <<defined, val, addr, dirty, clears, bits, bitsDirty>>
mirror == <<dt, dtBits, commit>>
vars == <<store, full, snap, view, link, signals, queue, mirror, changes, losses,
          broken, zeroed>>

Addresses == 1 .. NumAddresses
NoAddress == 0

\* No slot is given twice: set_publish refuses it, load_from_dict drops it.
Assignments ==
    {f \in [Items -> Addresses \cup {NoAddress}] :
        \A i, j \in Items : f[i] = f[j] => i = j \/ f[i] = NoAddress}

Published == {addr[i] : i \in Items} \ {NoAddress}

TypeOK ==
    /\ defined \subseteq Items /\ dirty \subseteq Items
    /\ val \in [Items -> Values]
    /\ addr \in Assignments
    /\ \A i \in Items \ defined : addr[i] = NoAddress
    /\ clears \subseteq Addresses
    /\ bits \in Values /\ dtBits \in Values
    /\ bitsDirty \in BOOLEAN /\ full \in BOOLEAN
    /\ view \in BOOLEAN /\ link \in BOOLEAN
    /\ dt \in [Addresses -> Values]
    /\ snap \in Nat /\ commit \in Nat
    /\ changes \in 0 .. MaxChanges /\ losses \in 0 .. MaxLosses

---------------------------------------------------------------------------
(* VariableStore.  Every operation holds its lock.                           *)

Changing == changes < MaxChanges /\ changes' = changes + 1
Elsewhere == UNCHANGED <<full, snap, view, link, signals, queue, mirror, losses, broken,
                         zeroed>>

\* set_data, operate_data, calculate_data; an unknown variable comes into being.
SetData ==
    /\ Changing
    /\ \E i \in Items, v \in Values :
          /\ i \notin defined \/ v # val[i]
          /\ defined' = defined \cup {i}
          /\ val' = [val EXCEPT ![i] = v]
          /\ dirty' = dirty \cup {i}
    /\ UNCHANGED <<addr, clears, bits, bitsDirty>> /\ Elsewhere

SetBits ==
    /\ Changing
    /\ bits' \in Values \ {bits}
    /\ bitsDirty' = TRUE
    /\ UNCHANGED <<defined, val, addr, dirty, clears>> /\ Elsewhere

\* Mutant: the slot a variable leaves is forgotten.
LeavesNothing(i) == clears

\* The slot that item i leaves is to be cleared.
Leaves(i) == clears \cup ({addr[i]} \ {NoAddress})

Remove ==
    /\ Changing
    /\ \E i \in defined :
          /\ defined' = defined \ {i}
          /\ val' = [val EXCEPT ![i] = 0]
          /\ clears' = Leaves(i)
          /\ addr' = [addr EXCEPT ![i] = NoAddress]
          /\ dirty' = dirty \cup {i}
    /\ UNCHANGED <<bits, bitsDirty>> /\ Elsewhere

\* Mutant: a slot in use is not refused.
FreeForAnyone(i) == Addresses

FreeFor(i) == Addresses \ {addr[j] : j \in Items \ {i}}

SetPublish ==
    /\ Changing
    /\ \E i \in defined : \E a \in FreeFor(i) \cup {NoAddress} :
          /\ clears' = IF a = addr[i] THEN clears ELSE Leaves(i)
          /\ addr' = [addr EXCEPT ![i] = a]
          /\ dirty' = dirty \cup {i}
    /\ UNCHANGED <<defined, val, bits, bitsDirty>> /\ Elsewhere

Reset ==
    /\ Changing
    /\ val' = [i \in Items |-> IF i \in defined \cap AutoItems THEN 0 ELSE val[i]]
    /\ dirty' = dirty \cup (defined \cap AutoItems)
    /\ bits' \in {bits, 0} /\ bitsDirty' = TRUE
    /\ UNCHANGED <<defined, addr, clears>> /\ Elsewhere

\* load_from_dict: other definitions and values.
Load ==
    /\ Changing
    /\ defined' \in SUBSET Items
    /\ val' = [i \in Items |-> 0] /\ bits' = 0
    /\ addr' \in Assignments
    /\ \A i \in Items \ defined' : addr'[i] = NoAddress
    /\ clears' = clears \cup (Published \ {addr'[i] : i \in Items})
    /\ dirty' = dirty \cup defined'
    /\ bitsDirty' = TRUE
    /\ Elsewhere

---------------------------------------------------------------------------
(* _publish_variables.                                                       *)

\* export_snapshot: zeros for the slots that were left, values of the published
\* variables among the dirty ones.
Snapshot(d) ==
    LET shared == {i \in d \cap defined : addr[i] # NoAddress}
    IN  [a \in clears \cup {addr[i] : i \in shared} |->
            IF \E i \in shared : addr[i] = a
            THEN val[CHOOSE i \in shared : addr[i] = a] ELSE 0]

\* One write of the whole block, the slots without an exported value set to 0.
Block(s) == <<[a \in Addresses |-> IF a \in DOMAIN s THEN s[a] ELSE 0]>>

\* One write for each slot, by address.
OneByOne(s) ==
    LET nth(n) == CHOOSE a \in DOMAIN s : Cardinality({b \in DOMAIN s : b < a}) = n - 1
    IN  [n \in 1 .. Cardinality(DOMAIN s) |-> [a \in {nth(n)} |-> s[a]]]

InBlock(s) == full \/ Cardinality(DOMAIN s) > Threshold

DataWrites(s) ==
    LET writes == IF InBlock(s) THEN Block(s) ELSE OneByOne(s)
    IN  [n \in 1 .. Len(writes) |->
            [kind |-> "data", snap |-> snap + 1, words |-> writes[n]]]

BitWrites ==
    IF bitsDirty \/ full
    THEN <<[kind |-> "bits", snap |-> snap + 1, words |-> bits]>> ELSE <<>>

Header == <<[kind |-> "header", snap |-> snap + 1, words |-> 0]>>

\* Mutant: the header goes first.
HeaderFirst(s) == Header \o BitWrites \o DataWrites(s)

Writes(s) == BitWrites \o DataWrites(s) \o Header

\* Mutant: the snapshot leaves the dirty flags as they are.
Unconsumed(flagged) == flagged

Consumed(flagged) == {}

\* The flags are consumed whether or not anything is written.  The status word
\* may have changed since the last snapshot.
Publish ==
    /\ view
    /\ LET s == Snapshot(IF full THEN defined ELSE dirty)
       IN  \/ /\ full \/ bitsDirty \/ DOMAIN s # {}
              /\ changes' = changes
              /\ queue' = queue \o Writes(s)
              /\ zeroed' = IF InBlock(s) THEN Published \ DOMAIN s
                           ELSE zeroed \ DOMAIN s
              /\ snap' = snap + 1 /\ full' = FALSE
           \/ /\ ~full /\ ~bitsDirty /\ DOMAIN s = {}
              /\ \/ /\ Changing
                    /\ queue' = queue \o Writes(s)
                    /\ snap' = snap + 1
                 \/ UNCHANGED <<changes, queue, snap>>
              /\ UNCHANGED <<zeroed, full>>
    /\ dirty' = Consumed(dirty) /\ clears' = Consumed(clears) /\ bitsDirty' = FALSE
    /\ UNCHANGED <<defined, val, addr, bits, view, link, signals, mirror, losses, broken>>

---------------------------------------------------------------------------
(* PLCClient: the queue, the session, its signals.                           *)

Apply(w) ==
    /\ dt' = IF w.kind = "data"
             THEN [a \in Addresses |-> IF a \in DOMAIN w.words THEN w.words[a] ELSE dt[a]]
             ELSE dt
    /\ dtBits' = IF w.kind = "bits" THEN w.words ELSE dtBits
    /\ commit' = IF w.kind = "header" THEN w.snap ELSE commit

Written ==
    /\ link
    /\ Apply(Head(queue))
    /\ UNCHANGED <<link, signals, losses, broken>>

LinkLost ==
    /\ losses < MaxLosses /\ losses' = losses + 1
    /\ link' = FALSE /\ signals' = Append(signals, FALSE)

\* No answer: the PLC may have taken the write all the same.
Unanswered ==
    /\ link /\ LinkLost
    /\ broken' = broken \cup {Head(queue).snap}
    /\ Apply(Head(queue)) \/ UNCHANGED mirror

Dropped ==
    /\ ~link
    /\ broken' = broken \cup {Head(queue).snap}
    /\ UNCHANGED <<link, signals, losses, mirror>>

Transmit ==
    /\ queue # <<>>
    /\ Written \/ Unanswered \/ Dropped
    /\ queue' = Tail(queue)
    /\ UNCHANGED <<store, full, snap, view, changes, zeroed>>

Lose ==
    /\ link /\ LinkLost
    /\ UNCHANGED <<store, full, snap, view, queue, mirror, changes, broken, zeroed>>

\* The reconnect loop sleeps 5 s; without a session the queue is empty long before.
Reconnect ==
    /\ ~link /\ queue = <<>>
    /\ link' = TRUE /\ signals' = Append(signals, TRUE)
    /\ UNCHANGED <<store, full, snap, view, queue, mirror, changes, losses, broken, zeroed>>

OnConnected ==
    /\ signals # <<>>
    /\ LET up == Head(signals)
       IN  /\ view' = up
           /\ full' = (full \/ up)
           /\ dirty' = IF up THEN dirty \cup defined ELSE dirty
           /\ bitsDirty' = (bitsDirty \/ up)
    /\ signals' = Tail(signals)
    /\ UNCHANGED <<defined, val, addr, clears, bits, snap, link, queue, mirror, changes,
                   losses, broken, zeroed>>

---------------------------------------------------------------------------
\* The recipe has been loaded; the PLC holds something from before.
Init ==
    /\ defined = Items /\ val = [i \in Items |-> 0]
    /\ addr \in Assignments
    /\ dirty = Items /\ clears = {} /\ bits = 0 /\ bitsDirty = TRUE
    /\ full = TRUE /\ snap = 0 /\ view = FALSE /\ link = FALSE
    /\ signals = <<>> /\ queue = <<>>
    /\ dt \in {[a \in Addresses |-> v] : v \in Values \ {0}}
    /\ dtBits \in Values \ {0} /\ commit = 0
    /\ changes = 0 /\ losses = 0 /\ broken = {} /\ zeroed = {}

Next ==
    \/ SetData \/ SetBits \/ Remove \/ SetPublish \/ Reset \/ Load
    \/ Publish
    \/ Transmit \/ Lose \/ Reconnect \/ OnConnected

Spec == Init /\ [][Next]_vars

\* The publisher's timer, the communication thread, its reconnect loop and the UI
\* thread run.
FairSpec ==
    /\ Spec
    /\ WF_vars(Publish) /\ WF_vars(Transmit) /\ WF_vars(Reconnect) /\ WF_vars(OnConnected)

---------------------------------------------------------------------------
(* Properties.                                                               *)

\* What the PLC should show in a slot.
Shown(a) ==
    IF \E i \in Items : addr[i] = a THEN val[CHOOSE i \in Items : addr[i] = a] ELSE 0

\* Nothing is on its way.
Settled ==
    /\ link /\ view /\ signals = <<>> /\ queue = <<>>
    /\ ~full /\ dirty = {} /\ clears = {} /\ ~bitsDirty

\* When nothing is on its way, whatever was lost before, the PLC shows the values
\* of the published variables and zeros elsewhere, except in slots that a partial
\* block write has set to 0.
MirrorAgreesApart ==
    Settled => dtBits = bits /\ \A a \in Addresses \ zeroed : dt[a] = Shown(a)

MirrorInv == TypeOK /\ MirrorAgreesApart

\* The header announces a snapshot only when all of its payload was delivered
\* ("Payload words are written first and DT500..DT503 are committed last").
CommitIsLast ==
    [][commit' # commit =>
          /\ commit' \notin broken
          /\ \A n \in DOMAIN queue' : queue'[n].snap > commit']_vars

\* After the last change and the last loss everything is delivered: no flag set by
\* another thread is forgotten and none keeps the publisher busy.
Converges == <>[]Settled
============================================================================
