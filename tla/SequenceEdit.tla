---------------------------- MODULE SequenceEdit ----------------------------
(* One editing session of the recipe's programs: the QML editor of the        *)
(* pendant (ui/dialogs/sequence_editor_qml.py), and the widget editor it      *)
(* replaces (sequence_editor_dialog.py).  Both keep a copy of the programs,   *)
(* in which a JMP names its target by its row and a CALL names a program;     *)
(* every operation that moves rows or renames programs has to keep the two    *)
(* right.                                                                     *)
(*                                                                            *)
(* Rows are numbered from 0, as in the code.  Each step carries an identity,  *)
(* and a JMP what it was aimed at, for the properties only.                   *)
EXTENDS Integers, Sequences, FiniteSets, SequencesExt

CONSTANTS
    Subs,       \* names a sub-program may have
    AddKinds,   \* bound: kinds of the steps added
    MaxRows,    \* bound: rows of a program
    MaxChanges  \* bound: changes of the programs

ASSUME NamesAssumption ==
    /\ "Main" \notin Subs /\ "Monitor" \notin Subs /\ "" \notin Subs
    /\ IsFiniteSet(Subs) /\ Subs # {}

Names == Subs \cup {"Main", "Monitor"}
Kinds == {"OUT", "POS", "COMMENT", "JMP", "CALL"}

ASSUME SessionBoundsAssumption ==
    AddKinds \subseteq Kinds /\ MaxRows \in Nat /\ MaxChanges \in Nat

VARIABLES
    editor,     \* which of the two editors is in use
    committed,  \* the page's programs
    seqs,       \* the session's copy: a function from the existing names
    cur,        \* current_sequence
    row,        \* selected_row, -1 for none
    open,       \* the session is open
    changes     \* changes so far; they number the new steps

vars == <<editor, committed, seqs, cur, row, open, changes>>

Step == [id : 1 .. 100 + MaxChanges, kind : Kinds, jmp : Nat, call : Names \cup {""},
         aim : 0 .. 100 + MaxChanges, lost : BOOLEAN]

TypeOK ==
    /\ editor \in {"qml", "widget"}
    /\ \A p \in {committed, seqs} :
          /\ DOMAIN p \subseteq Names /\ "Main" \in DOMAIN p
          /\ \A n \in DOMAIN p : p[n] \in Seq(Step)
    /\ cur \in DOMAIN seqs
    /\ row \in -1 .. Len(seqs[cur]) - 1
    /\ open \in BOOLEAN
    /\ changes \in 0 .. MaxChanges

---------------------------------------------------------------------------
(* Rows.                                                                     *)

NewStep(id, kind) ==
    [id |-> id, kind |-> kind, jmp |-> 0, call |-> "", aim |-> 0, lost |-> FALSE]

Rows(s) == 0 .. Len(s) - 1
At(s, r) == s[r + 1]
IsComment(s, r) == At(s, r).kind = "COMMENT"

ExecutableRows(s) == {r \in Rows(s) : ~IsComment(s, r)}

---------------------------------------------------------------------------
(* Changing the targets of a program's jumps.                                *)

\* F is the new target of a JMP, L says whether it is no longer to be relied on.
Retarget(s, F(_), L(_)) ==
    [i \in DOMAIN s |->
        IF s[i].kind = "JMP" THEN [s[i] EXCEPT !.jmp = F(@), !.lost = @ \/ L(s[i].jmp)]
        ELSE s[i]]

Kept(t) == t
Never(t) == FALSE

\* Mutant: a jump to the row just below the selected one is not shifted.
OnInsertPast(t, p) == IF t > p THEN t + 1 ELSE t

OnInsert(t, p) == IF t >= p THEN t + 1 ELSE t

\* _fix_jmp_targets("delete") and ("swap"), which the QML editor does not have.
OnDelete(t, p) == IF t = p THEN 0 ELSE IF t > p THEN t - 1 ELSE t
OnSwap(t, p, q) == IF t = p THEN q ELSE IF t = q THEN p ELSE t

Current == seqs[cur]
Selected == row \in Rows(Current)
Keep == UNCHANGED <<editor, committed, open>>
SetCurrent(s) == seqs' = [seqs EXCEPT ![cur] = s]
First(s) == IF s = <<>> THEN -1 ELSE 0

---------------------------------------------------------------------------
(* Rows: addStep and _add_new_step, _add_comment; deleteSelected and           *)
(* _delete_step; moveSelected, _move_up and _move_down.                        *)

InsertRow == IF Selected THEN row + 1 ELSE Len(Current)

AddStep(kind) ==
    /\ editor = "qml" => ~(cur = "Monitor" /\ kind = "POS")
    /\ Len(Current) < MaxRows
    /\ LET p == InsertRow
           shifted == IF editor = "qml" \/ row >= 0
                      THEN LET f(t) == OnInsert(t, p) IN Retarget(Current, f, Never)
                      ELSE Current
       IN SetCurrent(InsertAt(shifted, p + 1, NewStep(100 + changes + 1, kind)))
          /\ row' = p
    /\ Keep /\ UNCHANGED cur

DeleteSelected ==
    /\ Selected
    /\ LET fixed(t) == OnDelete(t, row)
           past(t) == t >= row
       IN SetCurrent(RemoveAt(IF editor = "qml" THEN Retarget(Current, Kept, past)
                              ELSE Retarget(Current, fixed, Never), row + 1))
    /\ row' = IF row < Len(Current) - 1 THEN row ELSE Len(Current) - 2
    /\ Keep /\ UNCHANGED cur

\* Mutant: the widget editor swaps the rows only.
SwappedRowsOnly(s, p, q) == [s EXCEPT ![p + 1] = At(s, q), ![q + 1] = At(s, p)]

Swapped(s, p, q) ==
    LET f(t) == OnSwap(t, p, q)
        touched(t) == t \in {p, q}
        r == IF editor = "qml" THEN Retarget(s, Kept, touched) ELSE Retarget(s, f, Never)
    IN [r EXCEPT ![p + 1] = At(r, q), ![q + 1] = At(r, p)]

MoveSelected(delta) ==
    /\ Selected /\ row + delta \in Rows(Current)
    /\ SetCurrent(Swapped(Current, row, row + delta))
    /\ row' = row + delta
    /\ Keep /\ UNCHANGED cur

SelectStep ==
    /\ row' \in Rows(Current)
    /\ Keep /\ UNCHANGED <<seqs, cur>>

\* setTargetIndex, _on_jmp_value_changed: one of the executable rows.
SetTarget ==
    /\ Selected /\ At(Current, row).kind = "JMP"
    /\ \E t \in ExecutableRows(Current) :
          SetCurrent([Current EXCEPT ![row + 1] =
                         [@ EXCEPT !.jmp = t, !.aim = At(Current, t).id, !.lost = FALSE]])
    /\ Keep /\ UNCHANGED <<cur, row>>

\* setTargetSequenceIndex, _open_call_selector: any program but this one.
SetTargetSequence ==
    /\ Selected /\ At(Current, row).kind = "CALL"
    /\ \E n \in DOMAIN seqs \ {cur} :
          SetCurrent([Current EXCEPT ![row + 1].call = n])
    /\ Keep /\ UNCHANGED <<cur, row>>

---------------------------------------------------------------------------
(* Programs.                                                                 *)

\* reset_steps, _load_step_list_from_memory: the list shows a program from the top.
Shown(n) == row' = First(seqs'[n])

SelectSequence ==
    /\ cur' \in DOMAIN seqs
    /\ UNCHANGED seqs
    /\ Shown(cur')
    /\ Keep

AddSequence ==
    /\ \E n \in Subs \ DOMAIN seqs :
          /\ seqs' = [m \in DOMAIN seqs \cup {n} |-> IF m = n THEN <<>> ELSE seqs[m]]
          /\ cur' = n
    /\ row' = -1
    /\ Keep

\* Mutant: the calls keep the old name.
RecalledNot(s, old, new) == s

\* Every CALL of one program calls another in its place.
Recalled(s, old, new) ==
    [i \in DOMAIN s |-> IF s[i].kind = "CALL" /\ s[i].call = old
                        THEN [s[i] EXCEPT !.call = new] ELSE s[i]]

RenameSequence ==
    \E old \in DOMAIN seqs \cap Subs : \E new \in Subs \ DOMAIN seqs :
        /\ seqs' = [m \in (DOMAIN seqs \ {old}) \cup {new} |->
                       Recalled(seqs[IF m = new THEN old ELSE m], old, new)]
        /\ cur' = IF cur = old THEN new ELSE cur
        /\ IF editor = "qml" THEN UNCHANGED row ELSE Shown(cur')
        /\ Keep

\* The widget editor deletes Monitor too, and leaves the calls as they are.
DeleteSequence ==
    /\ cur # "Main" /\ (editor = "qml" => cur # "Monitor")
    /\ seqs' = [m \in DOMAIN seqs \ {cur} |->
                   IF editor = "qml" THEN Recalled(seqs[m], cur, "") ELSE seqs[m]]
    /\ cur' = "Main"
    /\ Shown("Main")
    /\ Keep

---------------------------------------------------------------------------
(* The session: open, save, cancel.                                          *)

\* Ways from Monitor that meet no program twice.
Paths == {p \in UNION {[1 .. k -> Names] : k \in 1 .. Cardinality(Names)} :
             p[1] = "Monitor" /\ IsInjective(p)}

\* Each program of the path calls the next one.
CallsAlong(p) ==
    /\ \A k \in DOMAIN p : p[k] \in DOMAIN seqs
    /\ \A k \in 2 .. Len(p) : \E i \in DOMAIN seqs[p[k - 1]] :
          LET j == seqs[p[k - 1]][i] IN j.kind = "CALL" /\ j.call = p[k]

\* _monitor_position_path: such a path leads to a POS.
MonitorMoves ==
    \E p \in Paths : CallsAlong(p) /\ \E i \in DOMAIN seqs[Last(p)] :
                                        seqs[Last(p)][i].kind = "POS"

PositionRows(s) == {r \in Rows(s) : At(s, r).kind = "POS"}

RefuseSave ==
    /\ editor = "qml" /\ MonitorMoves
    /\ cur' = "Monitor"
    /\ row' = LET s == seqs["Monitor"] IN
              IF PositionRows(s) # {} THEN Min(PositionRows(s)) ELSE 0
    /\ UNCHANGED <<editor, committed, seqs, open, changes>>

\* The session's copy is dropped.
Close(p) ==
    /\ committed' = p /\ seqs' = p
    /\ cur' = "Main" /\ row' = -1
    /\ open' = FALSE
    /\ UNCHANGED <<editor, changes>>

Save == (editor = "qml" => ~MonitorMoves) /\ Close(seqs)

Cancel == Close(committed)

Open ==
    /\ ~open
    /\ open' = TRUE
    /\ seqs' = committed
    /\ cur' = "Main" /\ row' = First(committed["Main"])
    /\ UNCHANGED <<editor, committed, changes>>

Change ==
    \/ \E k \in AddKinds : AddStep(k)
    \/ DeleteSelected \/ (\E d \in {-1, 1} : MoveSelected(d))
    \/ SetTarget \/ SetTargetSequence
    \/ AddSequence \/ RenameSequence \/ DeleteSequence

Edit ==
    \/ /\ changes < MaxChanges /\ changes' = changes + 1
       /\ Change
    \/ /\ UNCHANGED changes
       /\ SelectStep \/ SelectSequence

Next == (open /\ (Edit \/ RefuseSave \/ Save \/ Cancel)) \/ Open

\* A recipe with a jump over a comment, a sub-program that moves, and a Monitor
\* that calls nothing yet.
Start ==
    [n \in {"Main", "Monitor", CHOOSE s \in Subs : TRUE} |->
        CASE n = "Main" ->
               <<NewStep(1, "COMMENT"),
                 [NewStep(2, "JMP") EXCEPT !.jmp = 2, !.aim = 3], NewStep(3, "OUT")>>
          [] n = "Monitor" -> <<NewStep(5, "CALL")>>
          [] OTHER -> <<NewStep(4, "POS")>>]

Init ==
    /\ editor \in {"qml", "widget"}
    /\ committed = Start /\ seqs = Start
    /\ cur = "Main" /\ row = -1
    /\ open = FALSE /\ changes = 0

Spec == Init /\ [][Next]_vars

---------------------------------------------------------------------------
(* Properties.                                                               *)

Steps(p) == UNION {{<<n, i>> : i \in DOMAIN p[n]} : n \in DOMAIN p}

\* The jump exists and leads to the step it was aimed at, if that still exists.
OnTarget(s, j) ==
    /\ j.jmp \in Rows(s)
    /\ \A i \in DOMAIN s : s[i].id = j.aim => At(s, j.jmp).id = j.aim

\* Whatever is inserted, moved or deleted, a jump keeps leading to the step it was
\* aimed at ("JMP targets are stored as raw list indices. Preserve their logical
\* destination"): always in the widget editor, and in the QML editor as long as no
\* row at or before the target was deleted and the target was not moved.
JumpKeepsTargetApart ==
    \A x \in Steps(seqs) : LET j == seqs[x[1]][x[2]] IN
        j.kind = "JMP" /\ ~j.lost => OnTarget(seqs[x[1]], j)

\* In the QML editor no renaming and no deletion of a program leaves a call of a
\* program that is not there: the executor would refuse the whole recipe.
CallsNameSequences ==
    editor = "qml" =>
        \A x \in Steps(seqs) : LET j == seqs[x[1]][x[2]] IN
            j.kind = "CALL" => j.call \in DOMAIN seqs \cup {""}

\* What the QML editor saves never makes the Monitor program, which runs while the
\* machine stands, move an axis: there is a set of programs closed under calls
\* that holds Monitor and has no POS.
MonitorNeverMoves ==
    editor = "qml" =>
        \E P \in SUBSET DOMAIN committed :
            /\ "Monitor" \in P
            /\ \A n \in P : \A i \in DOMAIN committed[n] :
                  LET j == committed[n][i] IN
                  j.kind # "POS" /\ (j.kind = "CALL" /\ j.call # "" => j.call \in P)

\* The editor hands the executor programs it can run: calls lead somewhere, and the
\* Monitor program stands still.
EditorInv == TypeOK /\ CallsNameSequences /\ MonitorNeverMoves
============================================================================
