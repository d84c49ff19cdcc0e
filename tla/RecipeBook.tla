----------------------------- MODULE RecipeBook -----------------------------
(* Where the recipe lives: the pages' shared dictionaries in memory, the copy *)
(* an editing session works on, and the files.  A position and a time are     *)
(* each kept twice, in a library under a name and in the steps that use it,   *)
(* so that every operation has to bring the two together again.  Steps name   *)
(* variables by numbers of the store, which is not copied for a session.      *)
(*                                                                            *)
(* Modelled: the position page (teach, edit, fine adjustment), the timer page,*)
(* the point, timer and variable operations of the editor, the data page      *)
(* (load, new, save, delete), the automatic save, and restarts of the pendant.*)
(* One axis stands for the eight, one kind of variable for bits and data.     *)
EXTENDS Integers, FiniteSets

CONSTANTS
    Moves,          \* the POS steps of the recipe
    Points,         \* names of points
    Coords,         \* coordinates; 0 is one of them
    Timers, Secs,   \* names and values of timers
    Uses,           \* the steps that name a variable
    Held,           \* those of them that are TMR steps ("hold")
    MaxIds,         \* MAX_BITS, MAX_DATA
    Files,          \* names of recipe files
    Legacy,         \* those of the previous version at first: a bare list of steps
    None,           \* no coordinate, no timer, no file, no session
    MaxChanges      \* bound: changes of the recipe and saves by hand

ASSUME RecipeAssumption ==
    /\ 0 \in Coords /\ Legacy \subseteq Files /\ Held \subseteq Uses
    /\ None \notin Coords \cup Timers \cup Files \cup Nat
    /\ Points # {} /\ Timers # {} /\ Secs # {}
    /\ MaxChanges \in Nat /\ MaxIds \in Nat \ {0}

VARIABLES
    mem,        \* the shared dictionaries
    session,    \* the open editor's copy, or None
    files,      \* the recipe files: a function from the existing names
    current,    \* the data page's current_filename
    last,       \* last_recipe in the settings file
    changes,    \* changes so far
    mixed       \* history: a load failed half-way

vars == <<mem, session, files, current, last, changes, mixed>>

\* Partial functions, used as dictionaries.
Dicts(S, T) == UNION {[D -> T] : D \in SUBSET S}
Put(f, k, v) == [x \in DOMAIN f \cup {k} |-> IF x = k THEN v ELSE f[x]]
Drop(f, k) == [x \in DOMAIN f \ {k} |-> f[x]]
Renamed(f, old, new) ==
    [x \in (DOMAIN f \ {old}) \cup {new} |-> f[IF x = new THEN old ELSE x]]

Ids == 0 .. MaxIds - 1

\* move: the POS steps, with the coordinates they may carry themselves;
\* wait: a TMR step; use: the variables that steps name; vars: the variables there are
\* and the next number; bare: a file of the previous version.  Ghosts: drift, the
\* step's coordinates were left behind by a change of its point; torn, the step's time
\* by a session that was not accepted; lost, variables deleted while a step that
\* is not counted named them; progOf and libOf, the file the programs and the
\* libraries come from.
Recipe ==
    [move : [Moves -> [point : Points, own : Coords \cup {None}, drift : BOOLEAN]],
     wait : [ref : Timers \cup {None}, secs : Secs],
     use : [Uses -> Ids \cup {None}],
     vars : [ids : SUBSET Ids, next : 0 .. MaxIds, lost : SUBSET Ids],
     points : Dicts(Points, Coords), timers : Dicts(Timers, Secs),
     bare : BOOLEAN, torn : BOOLEAN, progOf : Files \cup {None}, libOf : Files \cup {None}]

TypeOK ==
    /\ mem \in Recipe
    /\ session \in Recipe \cup {None}
    /\ \A f \in DOMAIN files : f \in Files /\ files[f] \in Recipe
    /\ current \in Files \cup {None} /\ last \in Files \cup {None}
    /\ changes \in 0 .. MaxChanges /\ mixed \in BOOLEAN

---------------------------------------------------------------------------
(* What the executor does with a step, and what a file keeps of it.          *)

\* _resolve_position; 0 stands for a point that is missing.
Goal(r, m) ==
    LET s == r.move[m] IN
    IF s.own # None THEN s.own ELSE IF s.point \in DOMAIN r.points THEN r.points[s.point] ELSE 0

\* Mutant: the steps keep their coordinates in the file.
Unstripped(r) == [m \in Moves |-> r.move[m]]

Stripped(r) == [m \in Moves |-> [r.move[m] EXCEPT !.own = None, !.drift = FALSE]]

\* _perform_save.
Filed(r, f) ==
    [r EXCEPT !.move = Stripped(r), !.bare = FALSE, !.progOf = f, !.libOf = f]

\* Mutant: the libraries are not written.
ProgramsSaved(r) ==
    IF current \notin DOMAIN files THEN files
    ELSE Put(files, current, [files[current] EXCEPT !.move = Stripped(r), !.wait = r.wait])

\* auto_save with the memory r: the file is written if there is a current one.
Saved(r) ==
    IF current = None THEN files
    ELSE Put(files, current, [r EXCEPT !.move = Stripped(r), !.bare = FALSE])

\* Mutant: a deleted variable's number is free again.
EnsuredNextAbove(r) ==
    LET ids == r.vars.ids \cup ({r.use[u] : u \in Uses \ Held} \ {None})
    IN  [r EXCEPT !.vars = [ids |-> ids, lost |-> r.vars.lost \ ids,
                            next |-> CHOOSE n \in 0 .. MaxIds :
                                (\A i \in ids : i < n) /\ (n = 0 \/ n - 1 \in ids)]]

\* ensure_legacy_references: the variables that steps name exist; TMR is not looked at.
Ensured(r) ==
    LET ids == r.vars.ids \cup ({r.use[u] : u \in Uses \ Held} \ {None})
    IN  [r EXCEPT !.vars = [ids |-> ids, lost |-> r.vars.lost \ ids,
                            next |-> CHOOSE n \in r.vars.next .. MaxIds :
                                (\A i \in ids : i < n) /\ (n = r.vars.next \/ n - 1 \in ids)]]

\* load_from_dict of nothing.
NoVariables(r) == Ensured([r EXCEPT !.vars = [ids |-> {}, next |-> 0, lost |-> {}]])

---------------------------------------------------------------------------
(* The pages.  Each change ends in sig_sequence_changed or sig_timer_changed, *)
(* that is, in an automatic save.  They are out of reach while the editor     *)
(* covers them.                                                               *)

Page(r) ==
    /\ session = None
    /\ changes < MaxChanges /\ changes' = changes + 1
    /\ mem' = r /\ files' = Saved(r)
    /\ UNCHANGED <<session, current, last, mixed>>

\* Mutant: teaching changes the point only.
TaughtPointOnly(r, p, c) == [r EXCEPT !.points = Put(@, p, c)]

\* _on_teach_clicked: every step of the point gets the coordinates of its own.
Taught(r, p, c) ==
    [r EXCEPT !.points = Put(@, p, c),
              !.move = [m \in Moves |->
                  IF @[m].point = p THEN [@[m] EXCEPT !.own = c, !.drift = FALSE] ELSE @[m]]]

\* _apply_edited_value and _apply_fine_adjust, on one axis.
Edited(r, p, c) ==
    [r EXCEPT !.points = Put(@, p, c),
              !.move = [m \in Moves |->
                  IF @[m].point = p /\ @[m].own # None THEN [@[m] EXCEPT !.own = c] ELSE @[m]]]

Teach == \E p \in DOMAIN mem.points, c \in Coords : Page(Taught(mem, p, c))
EditPoint == \E p \in DOMAIN mem.points, c \in Coords : Page(Edited(mem, p, c))

\* Mutant: the steps keep the time they had.
TimedNot(r, t, x) == r

\* _sync_steps_time and _sync_timer_references.
Timed(r, t, x) == IF r.wait.ref = t THEN [r EXCEPT !.wait.secs = x, !.torn = FALSE] ELSE r

EditTimer ==
    \E t \in DOMAIN mem.timers, x \in Secs :
        Page(Timed([mem EXCEPT !.timers = Put(@, t, x)], t, x))

---------------------------------------------------------------------------
(* The editing session: programs and points are copies, the timer library is  *)
(* the pages' own.                                                            *)

\* normalize_step takes the times from the library.
Opened(r) ==
    IF r.wait.ref \in DOMAIN r.timers
    THEN [r EXCEPT !.wait.secs = r.timers[r.wait.ref], !.torn = FALSE] ELSE r

\* The store of the variables is not copied.
OpenEditor ==
    /\ session = None
    /\ mem' = Ensured(mem) /\ session' = Opened(mem')
    /\ UNCHANGED <<files, current, last, changes, mixed>>

\* StepExecutor.start, also of the Monitor program, which runs beside a session.
StartRun ==
    /\ mem' = Ensured(mem)
    /\ session' = IF session = None THEN None ELSE [session EXCEPT !.vars = mem'.vars]
    /\ UNCHANGED <<files, current, last, changes, mixed>>

InSession(s) ==
    /\ session # None
    /\ changes < MaxChanges /\ changes' = changes + 1
    /\ session' = s
    /\ UNCHANGED <<files, current, last, mixed>>

\* A step that carries coordinates is now of another mind than its point.
Drifted(r, M) ==
    [r EXCEPT !.move = [m \in Moves |->
        IF m \in M /\ @[m].own # None THEN [@[m] EXCEPT !.drift = TRUE] ELSE @[m]]]

Users(r, p) == {m \in Moves : r.move[m].point = p}
Selected == {session.move[m].point : m \in Moves} \cap DOMAIN session.points

SetPointCoordinate ==
    \E p \in Selected, c \in Coords :
        InSession(Drifted([session EXCEPT !.points = Put(@, p, c)], Users(session, p)))

SetPointIndex ==
    \E m \in Moves, p \in DOMAIN session.points :
        InSession(Drifted([session EXCEPT !.move[m].point = p], {m}))

AddPositionPoint ==
    \E m \in Moves, p \in Points \ DOMAIN session.points :
        InSession(Drifted([session EXCEPT !.move[m].point = p, !.points = Put(@, p, 0)], {m}))

\* Mutant: the steps keep the old name.
RepointedNot(r, old, new) == r

Repointed(r, old, new) ==
    [r EXCEPT !.move = [m \in Moves |->
        IF @[m].point = old THEN [@[m] EXCEPT !.point = new] ELSE @[m]]]

RenameSelectedPoint ==
    \E p \in Selected, q \in Points \ DOMAIN session.points :
        InSession(Repointed([session EXCEPT !.points = Renamed(@, p, q)], p, q))

\* The first point that is left takes its place, or a new one ("Point_1").
DeleteSelectedPoint ==
    \E p \in Selected :
        LET left == Drop(session.points, p) IN
        \E q \in IF DOMAIN left # {} THEN DOMAIN left ELSE Points :
            InSession(Drifted(Repointed([session EXCEPT !.points =
                                 IF DOMAIN left # {} THEN left ELSE Put(left, q, 0)], p, q),
                              Users(session, p)))

PointStep ==
    /\ session # None
    /\ \/ SetPointCoordinate \/ SetPointIndex \/ AddPositionPoint
       \/ RenameSelectedPoint \/ DeleteSelectedPoint
    /\ UNCHANGED mem

\* A change of the library is a change of the pages' library; their steps are not
\* touched.
InLibrary(timers, s) ==
    /\ InSession([s EXCEPT !.timers = timers])
    /\ mem' = [mem EXCEPT !.timers = timers, !.torn = TRUE]

EditTimerSeconds ==
    \E x \in Secs :
        IF session.wait.ref \in DOMAIN session.timers
        THEN InLibrary(Put(session.timers, session.wait.ref, x),
                       Timed(session, session.wait.ref, x))
        ELSE InSession([session EXCEPT !.wait = [ref |-> None, secs |-> x]]) /\ UNCHANGED mem

SelectTimer ==
    /\ \/ InSession([session EXCEPT !.wait.ref = None])
       \/ \E t \in DOMAIN session.timers :
             InSession([session EXCEPT !.wait = [ref |-> t, secs |-> session.timers[t]],
                                       !.torn = FALSE])
    /\ UNCHANGED mem

AddTimer ==
    \E t \in Timers \ DOMAIN session.timers, x \in Secs :
        InLibrary(Put(session.timers, t, x),
                  [session EXCEPT !.wait = [ref |-> t, secs |-> x], !.torn = FALSE])

DeleteTimer ==
    /\ session.wait.ref \in DOMAIN session.timers
    /\ InLibrary(Drop(session.timers, session.wait.ref),
                 [session EXCEPT !.wait.ref = None])

RenameTimer ==
    \E t \in DOMAIN session.timers, u \in Timers \ DOMAIN session.timers :
        InLibrary(Renamed(session.timers, t, u),
                  IF session.wait.ref = t THEN [session EXCEPT !.wait.ref = u] ELSE session)

TimerStep ==
    /\ session # None
    /\ EditTimerSeconds \/ SelectTimer \/ AddTimer \/ DeleteTimer \/ RenameTimer

\* setAddressClass, _select_variable.
SelectVariable ==
    /\ \E u \in Uses, i \in session.vars.ids \cup {None} : InSession([session EXCEPT !.use[u] = i])
    /\ UNCHANGED mem

\* A change of the store, which is saved automatically with the programs in memory.
InStore(s) ==
    /\ session # None
    /\ changes < MaxChanges /\ changes' = changes + 1
    /\ session' = s /\ mem' = [mem EXCEPT !.vars = s.vars]
    /\ files' = Saved(mem')
    /\ UNCHANGED <<current, last, mixed>>

\* add_bit, add_data for the selected step: numbers are not given twice.
AddVariable ==
    /\ session.vars.next < MaxIds
    /\ \E u \in Uses :
          LET i == session.vars.next IN
          InStore([session EXCEPT !.use[u] = i, !.vars.ids = @ \cup {i}, !.vars.next = i + 1])

\* Mutant: the programs in memory are looked at, and not the session's.
CountedInMemory(r) == {mem.use[u] : u \in Uses \ Held}

\* _variable_reference_count: the variables used by OUT, IN, JMP and DAT.
Counted(r) == {r.use[u] : u \in Uses \ Held}

DeleteVariable ==
    \E i \in session.vars.ids \ Counted(session) :
        InStore([session EXCEPT !.vars.ids = @ \ {i},
                                !.vars.lost = IF i \in {mem.use[u] : u \in Uses}
                                                      \cup {session.use[u] : u \in Held}
                                              THEN @ \cup {i} ELSE @])

VariableStep == session # None /\ (SelectVariable \/ AddVariable \/ DeleteVariable)

\* acceptRequested: the shared dictionaries are replaced in place, then saved.
Accept ==
    /\ session # None
    /\ mem' = session /\ files' = Saved(session)
    /\ session' = None
    /\ UNCHANGED <<current, last, changes, mixed>>

Cancel ==
    /\ session # None
    /\ session' = None
    /\ UNCHANGED <<mem, files, current, last, changes, mixed>>

---------------------------------------------------------------------------
(* The data page.                                                            *)

\* _on_new_clicked and _on_save_clicked: under a new name or the current one.
SaveAs ==
    /\ session = None
    /\ changes < MaxChanges /\ changes' = changes + 1
    /\ \E f \in Files :
          /\ files' = Put(files, f, Filed(mem, f))
          /\ mem' = [mem EXCEPT !.progOf = f, !.libOf = f]
          /\ current' = f /\ last' = f
    /\ UNCHANGED <<session, mixed>>

\* Mutant: the name stays.
LoadedUnderOldName(f) == current

LoadedName(f) == f

\* _perform_load of a file of this version ...
Load ==
    /\ session = None
    /\ \E f \in DOMAIN files :
          ~files[f].bare /\ mem' = Ensured(files[f]) /\ current' = LoadedName(f) /\ last' = f
    /\ UNCHANGED <<session, files, changes, mixed>>

\* ... and of a bare list: the programs are replaced and the points cleared before
\* new_data.get raises; the rest stays, and so does the current name.
LoadLegacy ==
    /\ session = None
    /\ \E f \in DOMAIN files :
          /\ files[f].bare
          /\ mem' = [NoVariables(files[f]) EXCEPT !.points = <<>>, !.timers = mem.timers,
                                     !.libOf = mem.libOf]
    /\ mixed' = TRUE
    /\ UNCHANGED <<session, files, current, last, changes>>

CurrentAfterDelete(f) == IF current = f THEN None ELSE current

Delete ==
    /\ session = None
    /\ \E f \in DOMAIN files :
          files' = Drop(files, f) /\ current' = CurrentAfterDelete(f)
    /\ UNCHANGED <<mem, session, last, changes, mixed>>

\* The 60 s timer, and the signals of the other pages; also during a session.
AutoSave ==
    /\ files' = Saved(mem)
    /\ UNCHANGED <<mem, session, current, last, changes, mixed>>

\* A restart: what was in memory is gone; last_recipe is loaded, or the default
\* recipe set up.  PagePosition makes the points a program needs and has not.
Started(r) ==
    [Ensured(r) EXCEPT !.points =
        [p \in DOMAIN r.points \cup {r.move[m].point : m \in Moves} |->
            IF p \in DOMAIN r.points THEN r.points[p]
            ELSE LET m == CHOOSE m \in Users(r, p) : TRUE IN
                 IF r.move[m].own = None THEN 0 ELSE r.move[m].own]]

Default ==
    [move |-> [m \in Moves |-> [point |-> CHOOSE p \in Points : TRUE, own |-> 0,
                                drift |-> FALSE]],
     use |-> [u \in Uses |-> None], vars |-> [ids |-> {}, next |-> 0, lost |-> {}],
     wait |-> [ref |-> None, secs |-> CHOOSE x \in Secs : TRUE],
     points |-> [p \in {CHOOSE p \in Points : TRUE} |-> 0], timers |-> <<>>,
     bare |-> FALSE, torn |-> FALSE, progOf |-> None, libOf |-> None]

Restart ==
    /\ session' = None
    /\ IF last \in DOMAIN files
       THEN mem' = Started(files[last]) /\ current' = last
       ELSE mem' = Default /\ current' = None
    /\ UNCHANGED <<files, last, changes, mixed>>

---------------------------------------------------------------------------
\* A start with one file of this version and maybe files of the version before.
Init ==
    \E f \in Files \ Legacy :
        LET t == CHOOSE t \in Timers : TRUE
            r == [Default EXCEPT !.move = Stripped(Default), !.wait.ref = t,
                                 !.timers = [u \in {t} |-> Default.wait.secs],
                                 !.progOf = f, !.libOf = f]
            old == [Default EXCEPT !.points = <<>>,
                                   !.use = [u \in Uses |-> IF u \in Held THEN None ELSE 0]]
        IN /\ files = [g \in {f} \cup Legacy |->
                          IF g = f THEN r ELSE [old EXCEPT !.bare = TRUE, !.progOf = g, !.libOf = g]]
           /\ mem = r /\ current = f /\ last = f
           /\ session = None /\ changes = 0 /\ mixed = FALSE

Next ==
    \/ Teach \/ EditPoint \/ EditTimer
    \/ OpenEditor \/ PointStep \/ TimerStep \/ VariableStep \/ StartRun \/ Accept \/ Cancel
    \/ SaveAs \/ Load \/ LoadLegacy \/ Delete \/ AutoSave \/ Restart

Spec == Init /\ [][Next]_vars

\* The automatic save has a timer of its own.
FairSpec == Spec /\ WF_vars(AutoSave)

---------------------------------------------------------------------------
(* Properties.                                                               *)

\* A step goes where its point is shown to be ("Coordinates/speeds belong to the
\* point library"), unless the step was taught and its point was then changed, or
\* the step given another, in the editor, or a load failed half-way and left no
\* points.
GoesWhereShownApart ==
    \A m \in Moves :
        mem.move[m].point \in DOMAIN mem.points /\ ~mem.move[m].drift /\ ~mixed =>
        Goal(mem, m) = mem.points[mem.move[m].point]

\* The time a step waits is the one its timer shows, unless a session that changed
\* the library was not accepted, or a load failed half-way.
TimersAgreeApart ==
    mem.wait.ref \in DOMAIN mem.timers /\ ~mem.torn /\ ~mixed =>
        mem.wait.secs = mem.timers[mem.wait.ref]

\* A file holds the programs and the libraries of one recipe, its own, and so does
\* the memory, unless the load of an old file failed half-way.
RecipesWhole ==
    ~mixed =>
        /\ \A f \in DOMAIN files : files[f].progOf = f /\ files[f].libOf = f
        /\ current # None => mem.progOf = current /\ mem.libOf = current

\* No move names a point that does not exist, unless such a load cleared them: the
\* executor would stop in the middle of the program.
PointsExist ==
    ~mixed => \A m \in Moves : mem.move[m].point \in DOMAIN mem.points

\* A step names a variable that exists, so that no start has to make one with a name
\* and a value of its own; unless it was deleted where a TMR step or the program
\* in memory, of which the editor has a copy, named it.
VariablesExistApart ==
    \A u \in Uses : mem.use[u] \in {None} \cup mem.vars.ids \cup mem.vars.lost

\* No step of memory, session or file comes to mean another variable: the numbers
\* still to be given are all above those that steps name.
NumbersKept ==
    /\ \A u \in Uses : mem.use[u] # None => mem.use[u] < mem.vars.next
    /\ session # None => \A u \in Uses : session.use[u] # None => session.use[u] < session.vars.next
    /\ \A f \in DOMAIN files : ~files[f].bare =>
          \A u \in Uses : files[f].use[u] # None => files[f].use[u] < files[f].vars.next

\* The recipe in memory and those in the files are whole recipes, each its own.
BookInv ==
    /\ TypeOK /\ TimersAgreeApart /\ RecipesWhole /\ PointsExist
    /\ VariablesExistApart /\ NumbersKept

\* The current file holds what the memory does.
Filing ==
    /\ current \in DOMAIN files
    /\ files[current].points = mem.points /\ files[current].timers = mem.timers
    /\ files[current].wait = mem.wait
    /\ files[current].use = mem.use /\ files[current].vars = mem.vars
    /\ \A m \in Moves : files[current].move[m].point = mem.move[m].point

\* What is written to a file is read back as it was: after a restart each move goes
\* where its point was when the file was last written, whatever the step carried.
ReloadKeepsGoals ==
    [][Restart /\ last = current /\ ~mixed /\ Filing
         => \A m \in Moves : Goal(mem', m) = mem.points[mem.move[m].point]]_vars

\* Nothing entered is kept from its file for ever while the recipe has a name.
ChangesReachFile == []<>(current = None \/ Filing)
============================================================================
