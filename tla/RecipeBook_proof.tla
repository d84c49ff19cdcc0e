-------------------------- MODULE RecipeBook_proof --------------------------
(* Proofs about RecipeBook, for any numbers of moves, points, timers, files,  *)
(* variables and changes: memory, session and files stay whole recipes, and   *)
(* a step goes where its point is shown.                                      *)
EXTENDS RecipeBook, NaturalsInduction, WellFoundedInduction, TLAPS

\* The numbers of a recipe's variables are below the next one, and each variable that a
\* step names exists, or was deleted while it was named.
VariablesOK(r) ==
    /\ \A i \in r.vars.ids : i < r.vars.next
    /\ \A u \in Uses : r.use[u] # None =>
          r.use[u] < r.vars.next /\ r.use[u] \in r.vars.ids \cup r.vars.lost

\* The points that steps name exist, and what a step knows of its point and its timer is
\* what they say.
PointsOK(r) == \A m \in Moves : r.move[m].point \in DOMAIN r.points
GoalsOK(r) ==
    \A m \in Moves : ~r.move[m].drift => r.move[m].own \in {None, r.points[r.move[m].point]}
TimesOK(r) ==
    ~r.torn /\ r.wait.ref # None =>
        r.wait.ref \in DOMAIN r.timers /\ r.wait.secs = r.timers[r.wait.ref]
Agrees(r) == PointsOK(r) /\ GoalsOK(r) /\ TimesOK(r)

\* The recipe is that of file f.
IsOf(r, f) == r.progOf = f /\ r.libOf = f

\* A file of this version holds a recipe without coordinates; one of the previous version
\* names no variable in a TMR step.
FileOK(r) ==
    IF r.bare THEN \A u \in Held : r.use[u] = None
    ELSE VariablesOK(r) /\ \A m \in Moves : r.move[m].own = None

\* A recipe in memory, under the name c; b: a load has failed half-way, after which only
\* the variables are looked at.
BookOf(r, c, b) ==
    r \in Recipe /\ VariablesOK(r) /\ (~b => Agrees(r) /\ (c # None => IsOf(r, c)))

\* The files F; l is the one a restart loads.
FilesOK(F, l, b) ==
    /\ \A f \in DOMAIN F :
          /\ f \in Files /\ F[f] \in Recipe /\ FileOK(F[f])
          /\ ~b => IsOf(F[f], f) /\ (~F[f].bare => Agrees(F[f]))
    /\ l \in DOMAIN F => ~F[l].bare

Names(c, l, n, b) ==
    c \in Files \cup {None} /\ l \in Files \cup {None} /\ n \in 0 .. MaxChanges /\ b \in BOOLEAN

\* The inductive invariant: memory, session and files each hold a recipe that is whole,
\* and the session works on the pages' variables.
IInv ==
    /\ BookOf(mem, current, mixed)
    /\ session # None => BookOf(session, current, mixed) /\ session.vars = mem.vars
    /\ FilesOK(files, last, mixed)
    /\ Names(current, last, changes, mixed)

---------------------------------------------------------------------------
(* Dictionaries.                                                             *)

LEMMA IsDict ==
    ASSUME NEW S, NEW T, NEW D \in SUBSET S, NEW f \in [D -> T] PROVE f \in Dicts(S, T)
  BY Zenon DEF Dicts

LEMMA DictIs ==
    ASSUME NEW S, NEW T, NEW f \in Dicts(S, T)
    PROVE  DOMAIN f \in SUBSET S /\ f \in [DOMAIN f -> T]
  <1>1. PICK D \in SUBSET S : f \in [D -> T]
    BY Zenon DEF Dicts
  <1> QED BY <1>1

\* g is f with v at k.
IsPut(g, f, k, v) ==
    DOMAIN g = DOMAIN f \cup {k} /\ g[k] = v /\ \A x \in DOMAIN f : x # k => g[x] = f[x]

LEMMA PutIn ==
    ASSUME NEW S, NEW T, NEW f \in Dicts(S, T), NEW k \in S, NEW v \in T
    PROVE  Put(f, k, v) \in Dicts(S, T) /\ IsPut(Put(f, k, v), f, k, v)
  <1>1. DOMAIN f \cup {k} \in SUBSET S /\ Put(f, k, v) \in [DOMAIN f \cup {k} -> T]
    BY DictIs DEF Put
  <1>2. IsPut(Put(f, k, v), f, k, v)
    BY DEF IsPut, Put
  <1> QED BY <1>1, <1>2, IsDict

LEMMA DropIn ==
    ASSUME NEW S, NEW T, NEW f \in Dicts(S, T), NEW k
    PROVE  /\ Drop(f, k) \in Dicts(S, T) /\ DOMAIN Drop(f, k) = DOMAIN f \ {k}
           /\ \A x \in DOMAIN f \ {k} : Drop(f, k)[x] = f[x]
  <1>1. DOMAIN f \ {k} \in SUBSET S /\ Drop(f, k) \in [DOMAIN f \ {k} -> T]
    BY DictIs DEF Drop
  <1> QED BY <1>1, IsDict DEF Drop

\* g is f with what was at k at n.
IsRenamed(g, f, k, n) ==
    /\ DOMAIN g = (DOMAIN f \ {k}) \cup {n}
    /\ g[n] = f[k] /\ \A x \in DOMAIN f \ {k, n} : g[x] = f[x]

LEMMA RenamedIn ==
    ASSUME NEW S, NEW T, NEW f \in Dicts(S, T), NEW k \in DOMAIN f, NEW n \in S
    PROVE  Renamed(f, k, n) \in Dicts(S, T) /\ IsRenamed(Renamed(f, k, n), f, k, n)
  <1>1. (DOMAIN f \ {k}) \cup {n} \in SUBSET S
        /\ Renamed(f, k, n) \in [(DOMAIN f \ {k}) \cup {n} -> T]
    BY DictIs DEF Renamed
  <1>2. IsRenamed(Renamed(f, k, n), f, k, n)
    BY DEF IsRenamed, Renamed
  <1> QED BY <1>1, <1>2, IsDict

LEMMA EmptyIn == ASSUME NEW S, NEW T PROVE <<>> \in Dicts(S, T) /\ DOMAIN <<>> = {}
  <1>1. DOMAIN <<>> = {} /\ <<>> \in [{} -> T]
    OBVIOUS
  <1> QED BY <1>1, IsDict

---------------------------------------------------------------------------
(* Recipes, field by field.                                                  *)

StepSet == [point : Points, own : Coords \cup {None}, drift : BOOLEAN]
WaitSet == [ref : Timers \cup {None}, secs : Secs]
StoreSet == [ids : SUBSET Ids, next : 0 .. MaxIds, lost : SUBSET Ids]

LEMMA Fields ==
    ASSUME NEW r \in Recipe
    PROVE  /\ r.move \in [Moves -> StepSet] /\ r.wait \in WaitSet
           /\ r.use \in [Uses -> Ids \cup {None}] /\ r.vars \in StoreSet
           /\ r.points \in Dicts(Points, Coords) /\ r.timers \in Dicts(Timers, Secs)
           /\ r.bare \in BOOLEAN /\ r.torn \in BOOLEAN
           /\ r.progOf \in Files \cup {None} /\ r.libOf \in Files \cup {None}
  BY DEF Recipe, StepSet, WaitSet, StoreSet

\* What an operation may leave of a recipe: its variables, and the file it is of.
StoreKept(t, r) == t.use = r.use /\ t.vars = r.vars
NameKept(t, r) == t.progOf = r.progOf /\ t.libOf = r.libOf

\* r2 is a recipe made of r by an operation on its points or its timers.
MadeOf(t, r) ==
    t \in Recipe /\ StoreKept(t, r) /\ NameKept(t, r) /\ (Agrees(r) => Agrees(t))

LEMMA StoreStays ==
    ASSUME NEW r, NEW t, StoreKept(t, r) PROVE VariablesOK(r) => VariablesOK(t)
  BY DEF StoreKept, VariablesOK

\* A point with other coordinates.
LEMMA PointPut ==
    ASSUME NEW r \in Recipe, NEW p \in DOMAIN r.points, NEW c \in Coords
    PROVE  LET P == Put(r.points, p, c) IN
           /\ p \in Points /\ P \in Dicts(Points, Coords) /\ DOMAIN P = DOMAIN r.points
           /\ P[p] = c /\ \A x \in DOMAIN r.points : x # p => P[x] = r.points[x]
  <1> DEFINE f == r.points
  <1>1. f \in Dicts(Points, Coords) /\ p \in DOMAIN f
    BY Fields
  <1> HIDE DEF f
  <1>2. p \in Points
    BY <1>1, DictIs
  <1>3. Put(f, p, c) \in Dicts(Points, Coords) /\ IsPut(Put(f, p, c), f, p, c)
    BY <1>1, <1>2, PutIn
  <1> QED BY <1>1, <1>2, <1>3 DEF f, IsPut

\* Moves and points made anew.
WithMoves(r, P, M) == [r EXCEPT !.points = P, !.move = M]

HasMoves(t, r, P, M) ==
    /\ t \in Recipe /\ StoreKept(t, r) /\ NameKept(t, r) /\ t.move = M /\ t.points = P
    /\ t.bare = r.bare /\ (TimesOK(r) => TimesOK(t))

LEMMA MovesAnew ==
    ASSUME NEW r \in Recipe, NEW M \in [Moves -> StepSet], NEW P \in Dicts(Points, Coords)
    PROVE  HasMoves(WithMoves(r, P, M), r, P, M)
  BY Fields DEF HasMoves, WithMoves, Recipe, StoreKept, NameKept, TimesOK, StepSet

\* A time, a timer library made anew.
WithTimes(r, W, T, b) == [r EXCEPT !.wait = W, !.timers = T, !.torn = b]

HasTimes(t, r, W, T, b) ==
    /\ t \in Recipe /\ StoreKept(t, r) /\ NameKept(t, r)
    /\ t.wait = W /\ t.timers = T /\ t.torn = b /\ t.bare = r.bare
    /\ (PointsOK(r) => PointsOK(t)) /\ (GoalsOK(r) => GoalsOK(t))

LEMMA TimesAnew ==
    ASSUME NEW r \in Recipe, NEW W \in WaitSet, NEW T \in Dicts(Timers, Secs), NEW b \in BOOLEAN
    PROVE  HasTimes(WithTimes(r, W, T, b), r, W, T, b)
  BY Fields DEF HasTimes, WithTimes, Recipe, StoreKept, NameKept, PointsOK, GoalsOK, WaitSet

\* The points of all moves are there, and their own coordinates are theirs.
LEMMA StepIs ==
    ASSUME NEW r \in Recipe, NEW m \in Moves
    PROVE  /\ r.move[m] \in StepSet /\ r.move[m].point \in Points
           /\ r.move[m].own \in Coords \cup {None} /\ r.move[m].drift \in BOOLEAN
           /\ None \notin Coords
  BY Fields, RecipeAssumption DEF StepSet

---------------------------------------------------------------------------
(* The pages' changes of points and timers.                                  *)

LEMMA TaughtMade ==
    ASSUME NEW r \in Recipe, NEW p \in DOMAIN r.points, NEW c \in Coords
    PROVE  MadeOf(Taught(r, p, c), r)
  <1> DEFINE M == [m \in Moves |->
                     IF r.move[m].point = p THEN [r.move[m] EXCEPT !.own = c, !.drift = FALSE]
                     ELSE r.move[m]]
             P == Put(r.points, p, c)
             t == Taught(r, p, c)
  <1>1. p \in Points /\ P \in Dicts(Points, Coords) /\ DOMAIN P = DOMAIN r.points
        /\ P[p] = c /\ \A x \in DOMAIN r.points : x # p => P[x] = r.points[x]
    BY PointPut
  <1>2. M \in [Moves -> StepSet]
    BY StepIs DEF StepSet
  <1>3. \A m \in Moves : M[m].point = r.move[m].point
                        /\ (r.move[m].point = p => M[m].own = c)
                        /\ (r.move[m].point # p => M[m] = r.move[m])
    BY StepIs DEF StepSet
  <1>4. t = WithMoves(r, P, M)
    BY DEF WithMoves, Taught, Recipe
  <1> HIDE DEF M, P, t
  <1>5. HasMoves(t, r, P, M)
    BY <1>1, <1>2, <1>4, MovesAnew
  <1>6. PointsOK(r) => PointsOK(t)
    BY <1>1, <1>3, <1>5 DEF HasMoves, PointsOK
  <1>7. PointsOK(r) /\ GoalsOK(r) => GoalsOK(t)
    BY <1>1, <1>3, <1>5 DEF HasMoves, GoalsOK, PointsOK
  <1> QED BY <1>5, <1>6, <1>7 DEF HasMoves, MadeOf, Agrees, t

LEMMA EditedMade ==
    ASSUME NEW r \in Recipe, NEW p \in DOMAIN r.points, NEW c \in Coords
    PROVE  MadeOf(Edited(r, p, c), r)
  <1> DEFINE M == [m \in Moves |->
                     IF r.move[m].point = p /\ r.move[m].own # None
                     THEN [r.move[m] EXCEPT !.own = c] ELSE r.move[m]]
             P == Put(r.points, p, c)
             t == Edited(r, p, c)
  <1>1. p \in Points /\ P \in Dicts(Points, Coords) /\ DOMAIN P = DOMAIN r.points
        /\ P[p] = c /\ \A x \in DOMAIN r.points : x # p => P[x] = r.points[x]
    BY PointPut
  <1>2. M \in [Moves -> StepSet]
    BY StepIs DEF StepSet
  <1>3. \A m \in Moves : M[m].point = r.move[m].point /\ M[m].drift = r.move[m].drift
                        /\ (r.move[m].point = p => M[m].own \in {None, c})
                        /\ (r.move[m].point # p => M[m] = r.move[m])
    BY StepIs DEF StepSet
  <1>4. t = WithMoves(r, P, M)
    BY DEF WithMoves, Edited, Recipe
  <1> HIDE DEF M, P, t
  <1>5. HasMoves(t, r, P, M)
    BY <1>1, <1>2, <1>4, MovesAnew
  <1>6. PointsOK(r) => PointsOK(t)
    BY <1>1, <1>3, <1>5 DEF HasMoves, PointsOK
  <1>7. PointsOK(r) /\ GoalsOK(r) => GoalsOK(t)
    BY <1>1, <1>3, <1>5 DEF HasMoves, GoalsOK, PointsOK
  <1> QED BY <1>5, <1>6, <1>7 DEF HasMoves, MadeOf, Agrees, t

---------------------------------------------------------------------------
(* The editor's changes of points.                                           *)

\* What moves know of their points after such a change.
LEMMA AgreeAnew ==
    ASSUME NEW r \in Recipe, NEW M \in [Moves -> StepSet], NEW P \in Dicts(Points, Coords),
           PointsOK(r) => \A m \in Moves : M[m].point \in DOMAIN P,
           PointsOK(r) /\ GoalsOK(r) =>
              \A m \in Moves : ~M[m].drift => M[m].own \in {None, P[M[m].point]}
    PROVE  MadeOf(WithMoves(r, P, M), r)
  <1>1. HasMoves(WithMoves(r, P, M), r, P, M)
    BY MovesAnew
  <1> QED BY <1>1 DEF HasMoves, MadeOf, Agrees, PointsOK, GoalsOK

\* The steps S of moves N that carry coordinates are now of another mind.
DriftedMoves(N, S) ==
    [m \in Moves |-> IF m \in S /\ N[m].own # None THEN [N[m] EXCEPT !.drift = TRUE] ELSE N[m]]

LEMMA DriftedIs ==
    ASSUME NEW N \in [Moves -> StepSet], NEW S
    PROVE  /\ DriftedMoves(N, S) \in [Moves -> StepSet]
           /\ \A m \in Moves : LET d == DriftedMoves(N, S)[m] IN
                 /\ d.point = N[m].point /\ d.own = N[m].own
                 /\ ~d.drift => ~N[m].drift /\ (m \in S => d.own = None)
  BY DEF DriftedMoves, StepSet

LEMMA SetCoordinateMade ==
    ASSUME NEW r \in Recipe, NEW p \in DOMAIN r.points, NEW c \in Coords
    PROVE  MadeOf(Drifted([r EXCEPT !.points = Put(@, p, c)], Users(r, p)), r)
  <1> DEFINE P == Put(r.points, p, c)
             M == DriftedMoves(r.move, Users(r, p))
             t == Drifted([r EXCEPT !.points = Put(@, p, c)], Users(r, p))
  <1>1. /\ P \in Dicts(Points, Coords) /\ DOMAIN P = DOMAIN r.points
        /\ \A x \in DOMAIN r.points : x # p => P[x] = r.points[x]
    BY PointPut
  <1>2. /\ M \in [Moves -> StepSet]
        /\ \A m \in Moves :
              /\ M[m].point = r.move[m].point /\ M[m].own = r.move[m].own
              /\ ~M[m].drift => ~r.move[m].drift /\ (m \in Users(r, p) => M[m].own = None)
    BY Fields, DriftedIs
  <1>3. \A m \in Moves : m \in Users(r, p) <=> r.move[m].point = p
    BY DEF Users
  <1>4. t = WithMoves(r, P, M)
    BY DEF Drifted, DriftedMoves, WithMoves, Recipe
  <1> HIDE DEF P, M, t
  <1>5. PointsOK(r) => \A m \in Moves : M[m].point \in DOMAIN P
    BY <1>1, <1>2 DEF PointsOK
  <1>6. PointsOK(r) /\ GoalsOK(r) =>
            \A m \in Moves : ~M[m].drift => M[m].own \in {None, P[M[m].point]}
    BY <1>1, <1>2, <1>3 DEF PointsOK, GoalsOK
  <1>7. MadeOf(WithMoves(r, P, M), r)
    BY <1>1, <1>2, <1>5, <1>6, AgreeAnew
  <1> QED BY <1>4, <1>7 DEF t

\* A move that is given another point.
Pointed(N, k, p) == [N EXCEPT ![k].point = p]

LEMMA PointedIs ==
    ASSUME NEW N \in [Moves -> StepSet], NEW k \in Moves, NEW p \in Points
    PROVE  /\ Pointed(N, k, p) \in [Moves -> StepSet]
           /\ \A m \in Moves \ {k} : Pointed(N, k, p)[m] = N[m]
           /\ Pointed(N, k, p)[k].point = p
  BY DEF Pointed, StepSet

LEMMA SetIndexMade ==
    ASSUME NEW r \in Recipe, NEW k \in Moves, NEW p \in DOMAIN r.points
    PROVE  MadeOf(Drifted([r EXCEPT !.move[k].point = p], {k}), r)
  <1> DEFINE N == Pointed(r.move, k, p)
             M == DriftedMoves(N, {k})
             t == Drifted([r EXCEPT !.move[k].point = p], {k})
  <1>1. p \in Points /\ r.points \in Dicts(Points, Coords) /\ r.move \in [Moves -> StepSet]
    <2>1. r.points \in Dicts(Points, Coords) /\ r.move \in [Moves -> StepSet]
      BY Fields
    <2> QED BY <2>1, DictIs
  <1>2. /\ N \in [Moves -> StepSet] /\ N[k].point = p
        /\ \A m \in Moves \ {k} : N[m] = r.move[m]
    BY <1>1, PointedIs
  <1>3. t = WithMoves(r, r.points, M)
    BY DEF Drifted, DriftedMoves, Pointed, WithMoves, Recipe
  <1> HIDE DEF N
  <1>4. /\ M \in [Moves -> StepSet]
        /\ \A m \in Moves :
              /\ M[m].point = N[m].point /\ M[m].own = N[m].own
              /\ ~M[m].drift => ~N[m].drift /\ (m \in {k} => M[m].own = None)
    BY <1>2, DriftedIs
  <1> HIDE DEF M, t
  <1>5. PointsOK(r) => \A m \in Moves : M[m].point \in DOMAIN r.points
    BY <1>2, <1>4 DEF PointsOK
  <1>6. PointsOK(r) /\ GoalsOK(r) =>
            \A m \in Moves : ~M[m].drift => M[m].own \in {None, r.points[M[m].point]}
    BY <1>2, <1>4 DEF PointsOK, GoalsOK
  <1>7. MadeOf(WithMoves(r, r.points, M), r)
    BY <1>1, <1>4, <1>5, <1>6, AgreeAnew
  <1> QED BY <1>3, <1>7 DEF t

LEMMA AddPointMade ==
    ASSUME NEW r \in Recipe, NEW k \in Moves, NEW p \in Points \ DOMAIN r.points
    PROVE  MadeOf(Drifted([r EXCEPT !.move[k].point = p, !.points = Put(@, p, 0)], {k}), r)
  <1> DEFINE N == Pointed(r.move, k, p)
             M == DriftedMoves(N, {k})
             P == Put(r.points, p, 0)
             t == Drifted([r EXCEPT !.move[k].point = p, !.points = Put(@, p, 0)], {k})
  <1>1. r.points \in Dicts(Points, Coords) /\ r.move \in [Moves -> StepSet]
    BY Fields
  <1>2. /\ N \in [Moves -> StepSet] /\ N[k].point = p
        /\ \A m \in Moves \ {k} : N[m] = r.move[m]
    BY <1>1, PointedIs
  <1>3. /\ P \in Dicts(Points, Coords) /\ DOMAIN P = DOMAIN r.points \cup {p}
        /\ \A x \in DOMAIN r.points : x # p => P[x] = r.points[x]
    <2> DEFINE f == r.points
    <2>1. f \in Dicts(Points, Coords) /\ p \in Points /\ 0 \in Coords
      BY <1>1, RecipeAssumption
    <2> HIDE DEF f
    <2>2. Put(f, p, 0) \in Dicts(Points, Coords) /\ IsPut(Put(f, p, 0), f, p, 0)
      BY <2>1, PutIn
    <2> QED BY <2>2 DEF f, IsPut
  <1>4. t = WithMoves(r, P, M)
    BY DEF Drifted, DriftedMoves, Pointed, WithMoves, Recipe
  <1> HIDE DEF N, P
  <1>5. /\ M \in [Moves -> StepSet]
        /\ \A m \in Moves :
              /\ M[m].point = N[m].point /\ M[m].own = N[m].own
              /\ ~M[m].drift => ~N[m].drift /\ (m \in {k} => M[m].own = None)
    BY <1>2, DriftedIs
  <1> HIDE DEF M, t
  <1>6. PointsOK(r) => \A m \in Moves : M[m].point \in DOMAIN P
    BY <1>2, <1>3, <1>5 DEF PointsOK
  <1>7. PointsOK(r) /\ GoalsOK(r) =>
            \A m \in Moves : ~M[m].drift => M[m].own \in {None, P[M[m].point]}
    BY <1>2, <1>3, <1>5 DEF PointsOK, GoalsOK
  <1>8. MadeOf(WithMoves(r, P, M), r)
    BY <1>3, <1>5, <1>6, <1>7, AgreeAnew
  <1> QED BY <1>4, <1>8 DEF t

\* Moves with another name for a point.
RepointedMoves(N, p, q) ==
    [m \in Moves |-> IF N[m].point = p THEN [N[m] EXCEPT !.point = q] ELSE N[m]]

LEMMA RepointedIs ==
    ASSUME NEW N \in [Moves -> StepSet], NEW p, NEW q \in Points
    PROVE  /\ RepointedMoves(N, p, q) \in [Moves -> StepSet]
           /\ \A m \in Moves : LET d == RepointedMoves(N, p, q)[m] IN
                 /\ d.own = N[m].own /\ d.drift = N[m].drift
                 /\ d.point = IF N[m].point = p THEN q ELSE N[m].point
  BY DEF RepointedMoves, StepSet

LEMMA RenamePointMade ==
    ASSUME NEW r \in Recipe, NEW p \in DOMAIN r.points, NEW q \in Points \ DOMAIN r.points
    PROVE  MadeOf(Repointed([r EXCEPT !.points = Renamed(@, p, q)], p, q), r)
  <1> DEFINE M == RepointedMoves(r.move, p, q)
             P == Renamed(r.points, p, q)
             t == Repointed([r EXCEPT !.points = Renamed(@, p, q)], p, q)
  <1>1. r.points \in Dicts(Points, Coords) /\ r.move \in [Moves -> StepSet]
    BY Fields
  <1>2. /\ M \in [Moves -> StepSet]
        /\ \A m \in Moves :
              /\ M[m].own = r.move[m].own /\ M[m].drift = r.move[m].drift
              /\ M[m].point = IF r.move[m].point = p THEN q ELSE r.move[m].point
    BY <1>1, RepointedIs
  <1>3. /\ P \in Dicts(Points, Coords) /\ DOMAIN P = (DOMAIN r.points \ {p}) \cup {q}
        /\ P[q] = r.points[p] /\ \A x \in DOMAIN r.points \ {p} : P[x] = r.points[x]
    <2> DEFINE f == r.points
    <2>1. f \in Dicts(Points, Coords) /\ p \in DOMAIN f /\ q \in Points \ DOMAIN f
      BY <1>1
    <2> HIDE DEF f
    <2>2. Renamed(f, p, q) \in Dicts(Points, Coords) /\ IsRenamed(Renamed(f, p, q), f, p, q)
      BY <2>1, RenamedIn
    <2> QED BY <2>1, <2>2 DEF f, IsRenamed
  <1>4. t = WithMoves(r, P, M)
    BY DEF Repointed, RepointedMoves, WithMoves, Recipe
  <1> HIDE DEF M, P, t
  <1>5. PointsOK(r) => \A m \in Moves : M[m].point \in DOMAIN P
    BY <1>2, <1>3 DEF PointsOK
  <1>6. PointsOK(r) /\ GoalsOK(r) =>
            \A m \in Moves : ~M[m].drift => M[m].own \in {None, P[M[m].point]}
    BY <1>2, <1>3 DEF PointsOK, GoalsOK
  <1>7. MadeOf(WithMoves(r, P, M), r)
    BY <1>2, <1>3, <1>5, <1>6, AgreeAnew
  <1> QED BY <1>4, <1>7 DEF t

LEMMA DeletePointMade ==
    ASSUME NEW r \in Recipe, NEW p \in DOMAIN r.points, NEW q,
           LET left == Drop(r.points, p) IN
           q \in IF DOMAIN left # {} THEN DOMAIN left ELSE Points
    PROVE  LET left == Drop(r.points, p) IN
           MadeOf(Drifted(Repointed([r EXCEPT !.points =
                             IF DOMAIN left # {} THEN left ELSE Put(left, q, 0)], p, q),
                          Users(r, p)), r)
  <1> DEFINE left == Drop(r.points, p)
             N == RepointedMoves(r.move, p, q)
             M == DriftedMoves(N, Users(r, p))
             P == IF DOMAIN left # {} THEN left ELSE Put(left, q, 0)
             t == Drifted(Repointed([r EXCEPT !.points = P], p, q), Users(r, p))
  <1>1. r.points \in Dicts(Points, Coords) /\ r.move \in [Moves -> StepSet]
    BY Fields
  <1>2. /\ left \in Dicts(Points, Coords) /\ DOMAIN left = DOMAIN r.points \ {p}
        /\ \A x \in DOMAIN r.points \ {p} : left[x] = r.points[x]
    <2> DEFINE f == r.points
    <2>1. f \in Dicts(Points, Coords)
      BY <1>1
    <2> HIDE DEF f
    <2>2. /\ Drop(f, p) \in Dicts(Points, Coords) /\ DOMAIN Drop(f, p) = DOMAIN f \ {p}
          /\ \A x \in DOMAIN f \ {p} : Drop(f, p)[x] = f[x]
      BY <2>1, DropIn
    <2> QED BY <2>2 DEF f
  <1>3. t = WithMoves(r, P, M)
    BY ZenonT(40) DEF Drifted, DriftedMoves, Repointed, RepointedMoves, WithMoves, Recipe
  <1>4. \A m \in Moves : m \in Users(r, p) <=> r.move[m].point = p
    BY DEF Users
  <1> HIDE DEF left
  <1>5. q \in Points /\ (DOMAIN left # {} => q \in DOMAIN left)
    <2>1. DOMAIN left \subseteq Points
      BY <1>2, DictIs
    <2> QED BY <2>1 DEF left
  <1>6. /\ P \in Dicts(Points, Coords) /\ q \in DOMAIN P
        /\ \A x \in DOMAIN r.points \ {p} : x \in DOMAIN P /\ P[x] = r.points[x]
    <2>1. CASE DOMAIN left # {}
      BY <1>2, <1>5, <2>1
    <2>2. CASE DOMAIN left = {}
      <3> HIDE DEF N, M, t
      <3>1. 0 \in Coords
        BY RecipeAssumption
      <3>2. left \in Dicts(Points, Coords) /\ q \in Points
        BY <1>2, <1>5
      <3>3. Put(left, q, 0) \in Dicts(Points, Coords) /\ IsPut(Put(left, q, 0), left, q, 0)
        BY <3>1, <3>2, PutIn
      <3> QED BY <1>2, <2>2, <3>3 DEF IsPut
    <2> QED BY <2>1, <2>2
  <1>7. /\ N \in [Moves -> StepSet]
        /\ \A m \in Moves :
              /\ N[m].own = r.move[m].own /\ N[m].drift = r.move[m].drift
              /\ N[m].point = IF r.move[m].point = p THEN q ELSE r.move[m].point
    BY <1>1, <1>5, RepointedIs
  <1> HIDE DEF N, P
  <1>8. /\ M \in [Moves -> StepSet]
        /\ \A m \in Moves :
              /\ M[m].point = N[m].point /\ M[m].own = N[m].own
              /\ ~M[m].drift => ~N[m].drift /\ (m \in Users(r, p) => M[m].own = None)
    BY <1>7, DriftedIs
  <1> HIDE DEF M, t
  <1>9. PointsOK(r) => \A m \in Moves : M[m].point \in DOMAIN P
    BY <1>6, <1>7, <1>8 DEF PointsOK
  <1>10. PointsOK(r) /\ GoalsOK(r) =>
            \A m \in Moves : ~M[m].drift => M[m].own \in {None, P[M[m].point]}
    BY <1>4, <1>6, <1>7, <1>8 DEF PointsOK, GoalsOK
  <1>11. MadeOf(WithMoves(r, P, M), r)
    BY <1>6, <1>8, <1>9, <1>10, AgreeAnew
  <1> QED BY <1>3, <1>11 DEF t, P, left

---------------------------------------------------------------------------
(* Changes of the timers.                                                    *)

LEMMA TimesAgree ==
    ASSUME NEW r \in Recipe, NEW W \in WaitSet, NEW T \in Dicts(Timers, Secs), NEW b \in BOOLEAN,
           TimesOK(r) /\ ~b /\ W.ref # None => W.ref \in DOMAIN T /\ W.secs = T[W.ref]
    PROVE  MadeOf(WithTimes(r, W, T, b), r)
  <1>1. HasTimes(WithTimes(r, W, T, b), r, W, T, b)
    BY TimesAnew
  <1> QED BY <1>1 DEF HasTimes, MadeOf, Agrees, TimesOK

LEMMA WaitIs ==
    ASSUME NEW r \in Recipe
    PROVE  /\ r.wait \in WaitSet /\ r.wait = [ref |-> r.wait.ref, secs |-> r.wait.secs]
           /\ r.wait.ref \in Timers \cup {None} /\ r.wait.secs \in Secs
           /\ r.timers \in Dicts(Timers, Secs) /\ r.torn \in BOOLEAN /\ None \notin Timers
           /\ DOMAIN r.timers \subseteq Timers /\ \A x \in DOMAIN r.timers : r.timers[x] \in Secs
  <1>1. /\ r.wait \in WaitSet /\ r.timers \in Dicts(Timers, Secs) /\ r.torn \in BOOLEAN
        /\ None \notin Timers
    BY Fields, RecipeAssumption
  <1>2. r.timers \in [DOMAIN r.timers -> Secs] /\ DOMAIN r.timers \in SUBSET Timers
    BY <1>1, DictIs
  <1> QED BY <1>1, <1>2 DEF WaitSet

LEMMA WaitSecs ==
    ASSUME NEW w \in WaitSet, NEW n PROVE [w EXCEPT !.secs = n] = [ref |-> w.ref, secs |-> n]
  BY DEF WaitSet

\* Another time for timer x, and for the step that waits for it.
LEMMA TimedMade ==
    ASSUME NEW r \in Recipe, NEW x \in DOMAIN r.timers, NEW n \in Secs
    PROVE  /\ MadeOf(Timed([r EXCEPT !.timers = Put(@, x, n)], x, n), r)
           /\ Timed([r EXCEPT !.timers = Put(@, x, n)], x, n).timers = Put(r.timers, x, n)
           /\ Put(r.timers, x, n) \in Dicts(Timers, Secs)
  <1> DEFINE W == IF r.wait.ref = x THEN [r.wait EXCEPT !.secs = n] ELSE r.wait
             T == Put(r.timers, x, n)
             b == IF r.wait.ref = x THEN FALSE ELSE r.torn
             t == Timed([r EXCEPT !.timers = Put(@, x, n)], x, n)
  <1>1. x \in Timers /\ W \in WaitSet /\ b \in BOOLEAN
    BY WaitIs DEF WaitSet
  <1>2. T \in Dicts(Timers, Secs) /\ DOMAIN T = DOMAIN r.timers
        /\ T[x] = n /\ \A y \in DOMAIN r.timers : y # x => T[y] = r.timers[y]
    <2> DEFINE f == r.timers
    <2>1. f \in Dicts(Timers, Secs) /\ x \in DOMAIN f
      BY WaitIs
    <2> HIDE DEF f
    <2>2. Put(f, x, n) \in Dicts(Timers, Secs) /\ IsPut(Put(f, x, n), f, x, n)
      BY <1>1, <2>1, PutIn
    <2> QED BY <2>1, <2>2 DEF f, IsPut
  <1>3. t = WithTimes(r, W, T, b)
    BY DEF Timed, WithTimes, Recipe
  <1>4. TimesOK(r) /\ ~b /\ W.ref # None => W.ref \in DOMAIN T /\ W.secs = T[W.ref]
    BY <1>2, WaitIs DEF TimesOK
  <1> HIDE DEF W, T, b
  <1>5. MadeOf(WithTimes(r, W, T, b), r)
    BY <1>1, <1>2, <1>4, TimesAgree
  <1>6. HasTimes(WithTimes(r, W, T, b), r, W, T, b)
    BY <1>1, <1>2, TimesAnew
  <1> QED BY <1>2, <1>3, <1>5, <1>6 DEF HasTimes, T

\* A new timer, which the step then waits for.
LEMMA AddTimerMade ==
    ASSUME NEW r \in Recipe, NEW x \in Timers \ DOMAIN r.timers, NEW n \in Secs
    PROVE  /\ MadeOf([[r EXCEPT !.wait = [ref |-> x, secs |-> n], !.torn = FALSE]
                        EXCEPT !.timers = Put(r.timers, x, n)], r)
           /\ Put(r.timers, x, n) \in Dicts(Timers, Secs)
  <1> DEFINE W == [ref |-> x, secs |-> n]
             T == Put(r.timers, x, n)
             t == [[r EXCEPT !.wait = W, !.torn = FALSE] EXCEPT !.timers = T]
  <1>1. r.timers \in Dicts(Timers, Secs) /\ W \in WaitSet
    BY Fields DEF WaitSet
  <1>2. T \in Dicts(Timers, Secs) /\ x \in DOMAIN T /\ T[x] = n
    <2> DEFINE f == r.timers
    <2>1. f \in Dicts(Timers, Secs)
      BY <1>1
    <2> HIDE DEF f
    <2>2. Put(f, x, n) \in Dicts(Timers, Secs) /\ IsPut(Put(f, x, n), f, x, n)
      BY <2>1, PutIn
    <2> QED BY <2>2 DEF f, IsPut
  <1>3. t = WithTimes(r, W, T, FALSE)
    BY DEF WithTimes, Recipe
  <1>4. W.ref = x /\ W.secs = n
    OBVIOUS
  <1> HIDE DEF W, T, t
  <1>5. MadeOf(WithTimes(r, W, T, FALSE), r)
    BY <1>1, <1>2, <1>4, TimesAgree
  <1> QED BY <1>2, <1>3, <1>5 DEF W, T, t

LEMMA DeleteTimerMade ==
    ASSUME NEW r \in Recipe, r.wait.ref \in DOMAIN r.timers
    PROVE  /\ MadeOf([[r EXCEPT !.wait.ref = None]
                        EXCEPT !.timers = Drop(r.timers, r.wait.ref)], r)
           /\ Drop(r.timers, r.wait.ref) \in Dicts(Timers, Secs)
  <1> DEFINE W == [r.wait EXCEPT !.ref = None]
             T == Drop(r.timers, r.wait.ref)
             t == [[r EXCEPT !.wait.ref = None] EXCEPT !.timers = T]
  <1>1. r.timers \in Dicts(Timers, Secs) /\ W \in WaitSet /\ W.ref = None /\ r.torn \in BOOLEAN
    BY Fields DEF WaitSet
  <1>2. T \in Dicts(Timers, Secs)
    <2> DEFINE f == r.timers
    <2>1. f \in Dicts(Timers, Secs)
      BY <1>1
    <2> HIDE DEF f
    <2>2. Drop(f, r.wait.ref) \in Dicts(Timers, Secs)
      BY <2>1, DropIn
    <2> QED BY <2>2 DEF f
  <1>3. t = WithTimes(r, W, T, r.torn)
    BY DEF WithTimes, Recipe
  <1> HIDE DEF W, T, t
  <1>4. MadeOf(WithTimes(r, W, T, r.torn), r)
    BY <1>1, <1>2, TimesAgree
  <1> QED BY <1>2, <1>3, <1>4 DEF W, T, t

LEMMA RenameTimerMade ==
    ASSUME NEW r \in Recipe, NEW x \in DOMAIN r.timers, NEW y \in Timers \ DOMAIN r.timers
    PROVE  /\ MadeOf([IF r.wait.ref = x THEN [r EXCEPT !.wait.ref = y] ELSE r
                        EXCEPT !.timers = Renamed(r.timers, x, y)], r)
           /\ Renamed(r.timers, x, y) \in Dicts(Timers, Secs)
  <1> DEFINE W == IF r.wait.ref = x THEN [r.wait EXCEPT !.ref = y] ELSE r.wait
             T == Renamed(r.timers, x, y)
             t == [IF r.wait.ref = x THEN [r EXCEPT !.wait.ref = y] ELSE r EXCEPT !.timers = T]
  <1>1. r.timers \in Dicts(Timers, Secs) /\ W \in WaitSet /\ r.torn \in BOOLEAN
        /\ W.secs = r.wait.secs /\ W.ref = IF r.wait.ref = x THEN y ELSE r.wait.ref
    BY Fields DEF WaitSet
  <1>2. T \in Dicts(Timers, Secs) /\ DOMAIN T = (DOMAIN r.timers \ {x}) \cup {y}
        /\ T[y] = r.timers[x] /\ \A z \in DOMAIN r.timers \ {x, y} : T[z] = r.timers[z]
    <2> DEFINE f == r.timers
    <2>1. f \in Dicts(Timers, Secs) /\ x \in DOMAIN f /\ y \in Timers
      BY <1>1
    <2> HIDE DEF f, W, T, t
    <2>2. Renamed(f, x, y) \in Dicts(Timers, Secs) /\ IsRenamed(Renamed(f, x, y), f, x, y)
      BY <2>1, RenamedIn
    <2> QED BY <2>2 DEF f, T, IsRenamed
  <1>3. t = WithTimes(r, W, T, r.torn)
    BY DEF WithTimes, Recipe
  <1> HIDE DEF W, T, t
  <1>4. TimesOK(r) /\ ~r.torn /\ W.ref # None => W.ref \in DOMAIN T /\ W.secs = T[W.ref]
    <2>1. x # None /\ y \notin DOMAIN r.timers
      BY WaitIs
    <2>2. CASE r.wait.ref = x
      BY <1>1, <1>2, <2>1, <2>2 DEF TimesOK
    <2>3. CASE r.wait.ref # x
      <3>1. W.ref = r.wait.ref /\ W.secs = r.wait.secs
        BY <1>1, <2>3
      <3>2. r.wait.ref \in DOMAIN r.timers => r.wait.ref \in DOMAIN r.timers \ {x, y}
        BY <2>1, <2>3
      <3> QED BY <1>2, <3>1, <3>2 DEF TimesOK
    <2> QED BY <2>2, <2>3
  <1>5. MadeOf(WithTimes(r, W, T, r.torn), r)
    BY <1>1, <1>2, <1>4, TimesAgree
  <1> QED BY <1>2, <1>3, <1>5 DEF W, T, t

\* Another time, or another timer, without a change of the library.
LEMMA WaitMade ==
    ASSUME NEW r \in Recipe
    PROVE  /\ \A x \in DOMAIN r.timers :
                 MadeOf([r EXCEPT !.wait = [ref |-> x, secs |-> r.timers[x]], !.torn = FALSE], r)
           /\ \A n \in Secs : MadeOf([r EXCEPT !.wait = [ref |-> None, secs |-> n]], r)
           /\ MadeOf([r EXCEPT !.wait.ref = None], r)
           /\ MadeOf(Opened(r), r)
  <1>1. /\ r.timers \in Dicts(Timers, Secs) /\ r.torn \in BOOLEAN /\ r.wait.secs \in Secs
        /\ DOMAIN r.timers \subseteq Timers /\ \A x \in DOMAIN r.timers : r.timers[x] \in Secs
    BY WaitIs
  <1>2. ASSUME NEW x \in DOMAIN r.timers
        PROVE  MadeOf([r EXCEPT !.wait = [ref |-> x, secs |-> r.timers[x]], !.torn = FALSE], r)
    <2> DEFINE W == [ref |-> x, secs |-> r.timers[x]]
    <2>1. W \in WaitSet /\ W.ref = x /\ W.secs = r.timers[x]
      BY <1>1 DEF WaitSet
    <2>2. [r EXCEPT !.wait = W, !.torn = FALSE] = WithTimes(r, W, r.timers, FALSE)
      BY DEF WithTimes, Recipe
    <2> HIDE DEF W
    <2>3. MadeOf(WithTimes(r, W, r.timers, FALSE), r)
      BY <1>1, <2>1, TimesAgree
    <2> QED BY <2>2, <2>3 DEF W
  <1>3. ASSUME NEW n \in Secs PROVE MadeOf([r EXCEPT !.wait = [ref |-> None, secs |-> n]], r)
    <2> DEFINE W == [ref |-> None, secs |-> n]
    <2>1. W \in WaitSet /\ W.ref = None
      BY DEF WaitSet
    <2>2. [r EXCEPT !.wait = W] = WithTimes(r, W, r.timers, r.torn)
      BY DEF WithTimes, Recipe
    <2> HIDE DEF W
    <2>3. MadeOf(WithTimes(r, W, r.timers, r.torn), r)
      BY <1>1, <2>1, TimesAgree
    <2> QED BY <2>2, <2>3 DEF W
  <1>4. [r EXCEPT !.wait.ref = None] = [r EXCEPT !.wait = [ref |-> None, secs |-> r.wait.secs]]
    BY WaitIs DEF Recipe
  <1>5. MadeOf(Opened(r), r)
    <2>1. CASE r.wait.ref \in DOMAIN r.timers
      <3>1. Opened(r) = [r EXCEPT !.wait = [ref |-> r.wait.ref, secs |-> r.timers[r.wait.ref]],
                                  !.torn = FALSE]
        <4> DEFINE n == r.timers[r.wait.ref]
        <4>1. [r.wait EXCEPT !.secs = n] = [ref |-> r.wait.ref, secs |-> n]
          <5> DEFINE w == r.wait
          <5>1. w \in WaitSet
            BY WaitIs
          <5> HIDE DEF w, n
          <5>2. [w EXCEPT !.secs = n] = [ref |-> w.ref, secs |-> n]
            BY <5>1, WaitSecs
          <5> QED BY <5>2 DEF w
        <4>2. Opened(r) = [r EXCEPT !.wait = [r.wait EXCEPT !.secs = n], !.torn = FALSE]
          BY <2>1 DEF Opened, Recipe
        <4> QED BY <4>1, <4>2
      <3> QED BY <1>2, <2>1, <3>1
    <2>2. CASE r.wait.ref \notin DOMAIN r.timers
      BY <2>2 DEF Opened, MadeOf, StoreKept, NameKept
    <2> QED BY <2>1, <2>2
  <1> QED BY <1>1, <1>2, <1>3, <1>4, <1>5

\* The pages' library, changed by a session.
LEMMA LibraryMade ==
    ASSUME NEW r \in Recipe, NEW T \in Dicts(Timers, Secs)
    PROVE  MadeOf([r EXCEPT !.timers = T, !.torn = TRUE], r)
  <1>1. [r EXCEPT !.timers = T, !.torn = TRUE] = WithTimes(r, r.wait, T, TRUE)
    BY DEF WithTimes, Recipe
  <1>2. MadeOf(WithTimes(r, r.wait, T, TRUE), r)
    BY WaitIs, TimesAgree
  <1> QED BY <1>1, <1>2

---------------------------------------------------------------------------
(* The store of the variables.                                               *)

\* Every nonempty set of numbers has a smallest one.
LEMMA LeastOf ==
    ASSUME NEW T \in SUBSET Nat, T # {} PROVE \E x \in T : \A y \in T : x <= y
  <1> DEFINE R == {ss \in Nat \X Nat : ss[1] < ss[2]}
  <1>1. IsWellFoundedOn(R, Nat)
    BY NatLessThanWellFounded, Zenon DEF OpToRel
  <1> HIDE DEF R
  <1>2. PICK x \in T : \A y \in T : ~ (<<y, x>> \in R)
    BY <1>1, WFMin
  <1>3. \A y \in T : x \in Nat /\ y \in Nat /\ ~(y < x)
    BY <1>2 DEF R
  <1> QED BY <1>3

\* The next number: the least that is above all those there are.
LEMMA NextIs ==
    ASSUME NEW I \in SUBSET Ids, NEW k \in 0 .. MaxIds
    PROVE  LET n == CHOOSE n \in k .. MaxIds : (\A i \in I : i < n) /\ (n = k \/ n - 1 \in I) IN
           n \in k .. MaxIds /\ \A i \in I : i < n
  <1> DEFINE T == {n \in k .. MaxIds : \A i \in I : i < n}
  <1>1. MaxIds \in Nat /\ \A i \in I : i \in Nat /\ i < MaxIds
    BY RecipeAssumption DEF Ids
  <1>2. T \in SUBSET Nat /\ MaxIds \in T
    BY <1>1
  <1>3. PICK n \in T : \A y \in T : n <= y
    BY <1>2, LeastOf
  <1>4. n = k \/ n - 1 \in I
    <2>1. SUFFICES ASSUME n # k PROVE n - 1 \in I
      OBVIOUS
    <2>2. n \in k .. MaxIds /\ n - 1 \in k .. MaxIds
      BY <1>1, <2>1
    <2>3. n - 1 \notin T
      BY <1>2, <1>3, <2>2
    <2>4. PICK i \in I : ~(i < n - 1)
      BY <2>2, <2>3
    <2>5. i = n - 1
      BY <1>1, <2>2, <2>4
    <2> QED BY <2>5
  <1> QED BY <1>3, <1>4

\* t is r with a store in which all numbers are below the next, and all variables that
\* steps other than TMR name are there.
IsEnsured(t, r) ==
    /\ t \in Recipe /\ NameKept(t, r) /\ t.use = r.use /\ t.bare = r.bare
    /\ t.move = r.move /\ t.points = r.points /\ (TimesOK(r) => TimesOK(t))
    /\ \A i \in t.vars.ids : i < t.vars.next
    /\ t.vars.next >= r.vars.next /\ r.vars.ids \cup r.vars.lost \subseteq t.vars.ids \cup t.vars.lost
    /\ \A u \in Uses \ Held : r.use[u] # None => r.use[u] \in t.vars.ids

LEMMA EnsuredIs ==
    ASSUME NEW r \in Recipe PROVE IsEnsured(Ensured(r), r)
  <1> DEFINE I == r.vars.ids \cup ({r.use[u] : u \in Uses \ Held} \ {None})
             k == r.vars.next
             n == CHOOSE n \in k .. MaxIds : (\A i \in I : i < n) /\ (n = k \/ n - 1 \in I)
             v == [ids |-> I, lost |-> r.vars.lost \ I, next |-> n]
             t == [r EXCEPT !.vars = v]
  <1>1. /\ r.use \in [Uses -> Ids \cup {None}] /\ r.vars \in StoreSet
        /\ r.vars.ids \in SUBSET Ids /\ r.vars.lost \in SUBSET Ids /\ k \in 0 .. MaxIds
    BY Fields DEF StoreSet
  <1>2. I \in SUBSET Ids /\ \A u \in Uses \ Held : r.use[u] # None => r.use[u] \in I
    BY <1>1
  <1>3. Ensured(r) = t
    BY DEF Ensured
  <1>4. r.vars.ids \subseteq I
    OBVIOUS
  <1> HIDE DEF I, k
  <1>5. n \in k .. MaxIds /\ \A i \in I : i < n
    BY <1>1, <1>2, NextIs
  <1> HIDE DEF n
  <1>6. v \in StoreSet /\ v.ids = I /\ v.next = n /\ v.lost = r.vars.lost \ I
    BY <1>1, <1>2, <1>5 DEF StoreSet
  <1> HIDE DEF v
  <1>7. /\ t \in Recipe /\ NameKept(t, r) /\ t.use = r.use /\ t.bare = r.bare /\ t.vars = v
        /\ t.move = r.move /\ t.points = r.points /\ (TimesOK(r) => TimesOK(t))
    BY <1>6 DEF Recipe, NameKept, StoreSet, TimesOK
  <1> HIDE DEF t
  <1>8. n >= r.vars.next
    BY <1>1, <1>5 DEF k
  <1> QED BY <1>2, <1>3, <1>4, <1>5, <1>6, <1>7, <1>8 DEF IsEnsured

\* Nothing else of the recipe changes, and what it names, it has.
LEMMA EnsuredOK ==
    ASSUME NEW r \in Recipe
    PROVE  LET t == Ensured(r) IN
           /\ t \in Recipe /\ NameKept(t, r) /\ t.bare = r.bare /\ t.move = r.move
           /\ (Agrees(r) => Agrees(t))
           /\ VariablesOK(r) \/ (\A u \in Held : r.use[u] = None) => VariablesOK(t)
  <1> DEFINE t == Ensured(r)
  <1>1. IsEnsured(t, r)
    BY EnsuredIs
  <1> HIDE DEF t
  <1>2. Agrees(r) => Agrees(t)
    BY <1>1 DEF IsEnsured, Agrees, PointsOK, GoalsOK
  <1>3. /\ r.use \in [Uses -> Ids \cup {None}] /\ r.vars.next \in Int /\ t.vars.next \in Int
        /\ t.use = r.use
    BY <1>1, Fields, RecipeAssumption DEF IsEnsured, StoreSet
  <1>4. ASSUME VariablesOK(r) \/ (\A u \in Held : r.use[u] = None),
               NEW u \in Uses, t.use[u] # None
        PROVE  t.use[u] < t.vars.next /\ t.use[u] \in t.vars.ids \cup t.vars.lost
    <2>1. CASE u \notin Held
      BY <1>1, <1>3, <1>4, <2>1 DEF IsEnsured
    <2>2. CASE VariablesOK(r)
      <3>1. /\ r.use[u] < r.vars.next /\ r.use[u] \in r.vars.ids \cup r.vars.lost
            /\ r.use[u] \in Ids
        BY <1>3, <1>4, <2>2 DEF VariablesOK
      <3>2. t.vars.next >= r.vars.next /\ r.use[u] \in t.vars.ids \cup t.vars.lost
        BY <1>1, <3>1 DEF IsEnsured
      <3> QED BY <1>3, <3>1, <3>2 DEF Ids
    <2> QED BY <1>3, <1>4, <2>1, <2>2
  <1>5. VariablesOK(r) \/ (\A u \in Held : r.use[u] = None) => VariablesOK(t)
    BY <1>1, <1>4 DEF IsEnsured, VariablesOK
  <1> QED BY <1>1, <1>2, <1>5 DEF IsEnsured, t

\* A session whose variables are those of memory, when memory gets a store that is wider.
LEMMA SessionStore ==
    ASSUME NEW s \in Recipe, NEW r \in Recipe, s.vars = r.vars, VariablesOK(s)
    PROVE  LET t == [s EXCEPT !.vars = Ensured(r).vars] IN
           /\ t \in Recipe /\ NameKept(t, s) /\ VariablesOK(t) /\ (Agrees(s) => Agrees(t))
           /\ t.vars = Ensured(r).vars
  <1> DEFINE v == Ensured(r).vars
             t == [s EXCEPT !.vars = v]
  <1>1. /\ v \in StoreSet /\ v.next >= s.vars.next /\ (\A i \in v.ids : i < v.next)
        /\ s.vars.ids \cup s.vars.lost \subseteq v.ids \cup v.lost
    BY EnsuredIs, Fields DEF IsEnsured
  <1> HIDE DEF v
  <1>2. /\ t \in Recipe /\ t.vars = v /\ NameKept(t, s) /\ t.use = s.use /\ t.move = s.move
        /\ t.points = s.points /\ (TimesOK(s) => TimesOK(t))
    BY <1>1 DEF Recipe, StoreSet, NameKept, TimesOK
  <1> HIDE DEF t
  <1>3. Agrees(s) => Agrees(t)
    BY <1>2 DEF Agrees, PointsOK, GoalsOK
  <1>4. VariablesOK(t)
    <2>1. s.use \in [Uses -> Ids \cup {None}] /\ s.vars.next \in Int /\ v.next \in Int
      BY <1>1, Fields, RecipeAssumption DEF StoreSet
    <2> QED BY <1>1, <1>2, <2>1 DEF VariablesOK, Ids
  <1> QED BY <1>2, <1>3, <1>4 DEF t, v

\* What the editor does to its own recipe and, in the store, to the one in memory.
WithStore(r, U, v) == [r EXCEPT !.use = U, !.vars = v]

HasStore(t, r, U, v) ==
    /\ t \in Recipe /\ NameKept(t, r) /\ t.use = U /\ t.vars = v /\ t.bare = r.bare
    /\ (Agrees(r) => Agrees(t))

LEMMA NewStore ==
    ASSUME NEW r \in Recipe, NEW U \in [Uses -> Ids \cup {None}], NEW v \in StoreSet
    PROVE  HasStore(WithStore(r, U, v), r, U, v)
  <1> DEFINE t == WithStore(r, U, v)
  <1>1. /\ t \in Recipe /\ NameKept(t, r) /\ t.use = U /\ t.vars = v /\ t.bare = r.bare
        /\ t.move = r.move /\ t.points = r.points /\ (TimesOK(r) => TimesOK(t))
    BY DEF Recipe, StoreSet, NameKept, TimesOK, WithStore
  <1> HIDE DEF t
  <1>2. Agrees(r) => Agrees(t)
    BY <1>1 DEF Agrees, PointsOK, GoalsOK
  <1> QED BY <1>1, <1>2 DEF t, HasStore

\* Selecting one of the variables there are.
LEMMA SelectedMade ==
    ASSUME NEW r \in Recipe, VariablesOK(r), NEW u \in Uses, NEW i \in r.vars.ids \cup {None}
    PROVE  LET t == [r EXCEPT !.use[u] = i] IN
           /\ t \in Recipe /\ NameKept(t, r) /\ VariablesOK(t) /\ t.vars = r.vars
           /\ (Agrees(r) => Agrees(t))
  <1> DEFINE U == [r.use EXCEPT ![u] = i]
             t == WithStore(r, U, r.vars)
  <1>1. /\ r.use \in [Uses -> Ids \cup {None}] /\ r.vars \in StoreSet /\ r.vars.ids \in SUBSET Ids
    BY Fields DEF StoreSet
  <1>2. U \in [Uses -> Ids \cup {None}] /\ U[u] = i /\ \A w \in Uses : w # u => U[w] = r.use[w]
    BY <1>1
  <1>3. [r EXCEPT !.use[u] = i] = t
    BY DEF Recipe, WithStore
  <1> DEFINE v == r.vars
  <1> HIDE DEF U, t, v
  <1>4. HasStore(t, r, U, v)
    BY <1>1, <1>2, NewStore DEF t, v
  <1>5. VariablesOK(t)
    BY <1>1, <1>2, <1>4 DEF VariablesOK, HasStore, v
  <1> QED BY <1>3, <1>4, <1>5 DEF HasStore, v

\* The store of memory is that of the session.
LEMMA SharedStore ==
    ASSUME NEW r \in Recipe, NEW s, s.vars \in StoreSet
    PROVE  LET t == [r EXCEPT !.vars = s.vars] IN
           /\ t \in Recipe /\ NameKept(t, r) /\ t.use = r.use /\ t.vars = s.vars
           /\ (Agrees(r) => Agrees(t))
  <1> DEFINE v == s.vars
  <1>1. v \in StoreSet
    OBVIOUS
  <1> HIDE DEF v
  <1>2. r.use \in [Uses -> Ids \cup {None}]
    BY Fields
  <1>3. [r EXCEPT !.vars = v] = WithStore(r, r.use, v)
    BY DEF Recipe, WithStore
  <1> DEFINE U == r.use
  <1> HIDE DEF U
  <1>4. HasStore(WithStore(r, U, v), r, U, v)
    BY <1>1, <1>2, NewStore DEF U
  <1> QED BY <1>3, <1>4 DEF v, U, HasStore

LEMMA OneMore ==
    ASSUME NEW a \in StoreSet, a.next < MaxIds
    PROVE  LET b == [a EXCEPT !.ids = @ \cup {a.next}, !.next = a.next + 1] IN
           b \in StoreSet /\ b.ids = a.ids \cup {a.next} /\ b.lost = a.lost /\ b.next = a.next + 1
  <1>1. /\ a.ids \in SUBSET Ids /\ a.lost \in SUBSET Ids /\ a.next \in Ids
        /\ a.next + 1 \in 0 .. MaxIds
    BY RecipeAssumption DEF StoreSet, Ids
  <1> QED BY <1>1 DEF StoreSet

\* A new variable for a step.
LEMMA AddedMade ==
    ASSUME NEW s \in Recipe, VariablesOK(s), s.vars.next < MaxIds, NEW u \in Uses,
           NEW r \in Recipe, VariablesOK(r), s.vars = r.vars
    PROVE  LET i == s.vars.next
               t == [s EXCEPT !.use[u] = i, !.vars.ids = @ \cup {i}, !.vars.next = i + 1]
               w == [r EXCEPT !.vars = t.vars]
           IN  /\ t \in Recipe /\ NameKept(t, s) /\ VariablesOK(t) /\ (Agrees(s) => Agrees(t))
               /\ w \in Recipe /\ NameKept(w, r) /\ VariablesOK(w) /\ (Agrees(r) => Agrees(w))
  <1> DEFINE i == s.vars.next
             U == [s.use EXCEPT ![u] = i]
             v == [s.vars EXCEPT !.ids = @ \cup {i}, !.next = i + 1]
             t == WithStore(s, U, v)
             w == [r EXCEPT !.vars = t.vars]
  <1>1. /\ s.use \in [Uses -> Ids \cup {None}] /\ r.use \in [Uses -> Ids \cup {None}]
        /\ s.vars \in StoreSet /\ i \in 0 .. MaxIds /\ MaxIds \in Nat
        /\ s.vars.ids \in SUBSET Ids /\ s.vars.lost \in SUBSET Ids
    BY Fields, RecipeAssumption DEF StoreSet
  <1>2. i \in Ids
    BY <1>1 DEF Ids
  <1>3. /\ v \in StoreSet /\ v.ids = s.vars.ids \cup {i} /\ v.lost = s.vars.lost /\ v.next = i + 1
    <2> DEFINE a == s.vars
    <2>1. a \in StoreSet /\ a.next < MaxIds
      BY <1>1
    <2> HIDE DEF a
    <2>2. LET b == [a EXCEPT !.ids = @ \cup {a.next}, !.next = a.next + 1] IN
          b \in StoreSet /\ b.ids = a.ids \cup {a.next} /\ b.lost = a.lost /\ b.next = a.next + 1
      BY <2>1, OneMore
    <2> QED BY <2>2 DEF a
  <1>4. U \in [Uses -> Ids \cup {None}] /\ U[u] = i /\ \A x \in Uses : x # u => U[x] = s.use[x]
    BY <1>1, <1>2
  <1>5. [s EXCEPT !.use[u] = i, !.vars.ids = @ \cup {i}, !.vars.next = i + 1] = t
    BY DEF Recipe, WithStore
  <1> HIDE DEF U, v
  <1> HIDE DEF t
  <1>6. HasStore(t, s, U, v)
    BY <1>3, <1>4, NewStore DEF t
  <1>7. /\ w \in Recipe /\ NameKept(w, r) /\ w.use = r.use /\ w.vars = v
        /\ (Agrees(r) => Agrees(w))
    BY <1>3, <1>6, SharedStore DEF HasStore
  <1> HIDE DEF w
  <1>8. \A j \in v.ids : j < v.next
    BY <1>1, <1>3 DEF VariablesOK, Ids
  <1>9. \A j \in Ids : j < s.vars.next /\ j \in s.vars.ids \cup s.vars.lost
                         => j < v.next /\ j \in v.ids \cup v.lost
    BY <1>1, <1>3 DEF Ids
  <1>10. \A x \in Uses : U[x] # None => U[x] < v.next /\ U[x] \in v.ids \cup v.lost
    <2> TAKE x \in Uses
    <2>1. CASE x = u
      BY <1>1, <1>3, <1>4, <2>1
    <2>2. CASE x # u
      BY <1>1, <1>4, <1>9, <2>2 DEF VariablesOK
    <2> QED BY <2>1, <2>2
  <1>11. \A x \in Uses : r.use[x] # None => r.use[x] < v.next /\ r.use[x] \in v.ids \cup v.lost
    BY <1>1, <1>9 DEF VariablesOK
  <1>12. VariablesOK(t) /\ VariablesOK(w)
    BY <1>6, <1>7, <1>8, <1>10, <1>11 DEF VariablesOK, HasStore
  <1> QED BY <1>5, <1>6, <1>7, <1>12 DEF w, HasStore

\* A variable less: one that the session counts no use of.
LEMMA DeletedMade ==
    ASSUME NEW s \in Recipe, VariablesOK(s), NEW r \in Recipe, VariablesOK(r), s.vars = r.vars,
           NEW i \in s.vars.ids \ Counted(s)
    PROVE  LET L == IF i \in {r.use[u] : u \in Uses} \cup {s.use[u] : u \in Held}
                    THEN s.vars.lost \cup {i} ELSE s.vars.lost
               t == [s EXCEPT !.vars.ids = @ \ {i}, !.vars.lost = L]
               w == [r EXCEPT !.vars = t.vars]
           IN  /\ t \in Recipe /\ NameKept(t, s) /\ VariablesOK(t) /\ (Agrees(s) => Agrees(t))
               /\ w \in Recipe /\ NameKept(w, r) /\ VariablesOK(w) /\ (Agrees(r) => Agrees(w))
  <1> DEFINE L == IF i \in {r.use[u] : u \in Uses} \cup {s.use[u] : u \in Held}
                  THEN s.vars.lost \cup {i} ELSE s.vars.lost
             v == [s.vars EXCEPT !.ids = @ \ {i}, !.lost = L]
             t == WithStore(s, s.use, v)
             w == [r EXCEPT !.vars = t.vars]
  <1>1. /\ s.use \in [Uses -> Ids \cup {None}] /\ r.use \in [Uses -> Ids \cup {None}]
        /\ s.vars \in StoreSet /\ s.vars.ids \in SUBSET Ids /\ s.vars.lost \in SUBSET Ids
    BY Fields DEF StoreSet
  <1>2. v \in StoreSet /\ v.ids = s.vars.ids \ {i} /\ v.lost = L /\ v.next = s.vars.next
    BY <1>1 DEF StoreSet
  <1>3. [s EXCEPT !.vars.ids = @ \ {i}, !.vars.lost = L] = t
    BY DEF Recipe, WithStore
  <1> DEFINE U == s.use
  <1> HIDE DEF v, t, U
  <1>4. HasStore(t, s, U, v)
    BY <1>1, <1>2, NewStore DEF t, U
  <1>5. /\ w \in Recipe /\ NameKept(w, r) /\ w.use = r.use /\ w.vars = v
        /\ (Agrees(r) => Agrees(w))
    BY <1>2, <1>4, SharedStore DEF HasStore
  <1> HIDE DEF w
  <1>6. \A x \in Uses : s.use[x] # None => s.use[x] \in v.ids \cup v.lost
    BY <1>1, <1>2 DEF VariablesOK, Counted
  <1>7. \A x \in Uses : r.use[x] # None => r.use[x] \in v.ids \cup v.lost
    BY <1>1, <1>2 DEF VariablesOK
  <1>8. VariablesOK(t) /\ VariablesOK(w)
    BY <1>2, <1>4, <1>5, <1>6, <1>7 DEF VariablesOK, HasStore, U
  <1> QED BY <1>3, <1>4, <1>5, <1>8 DEF w, HasStore

---------------------------------------------------------------------------
(* The files, and what is read from them.                                    *)

\* What is written: the recipe without the coordinates of its steps.
LEMMA StrippedOK ==
    ASSUME NEW r \in Recipe, VariablesOK(r)
    PROVE  LET t == [r EXCEPT !.move = Stripped(r), !.bare = FALSE] IN
           /\ t \in Recipe /\ NameKept(t, r) /\ ~t.bare /\ FileOK(t) /\ (Agrees(r) => Agrees(t))
  <1> DEFINE M == Stripped(r)
             t == [r EXCEPT !.move = M, !.bare = FALSE]
  <1>1. /\ M \in [Moves -> StepSet]
        /\ \A m \in Moves : M[m].point = r.move[m].point /\ M[m].own = None
    BY StepIs DEF Stripped, StepSet
  <1> HIDE DEF M
  <1>2. /\ t \in Recipe /\ NameKept(t, r) /\ StoreKept(t, r) /\ t.move = M /\ t.points = r.points
        /\ t.bare = FALSE /\ (TimesOK(r) => TimesOK(t))
    BY <1>1 DEF Recipe, StepSet, NameKept, StoreKept, TimesOK
  <1> HIDE DEF t
  <1>3. Agrees(r) => Agrees(t)
    BY <1>1, <1>2 DEF Agrees, PointsOK, GoalsOK
  <1>4. FileOK(t)
    BY <1>1, <1>2, StoreStays DEF FileOK
  <1> QED BY <1>2, <1>3, <1>4 DEF M, t

\* A file of the name f, written or added.
LEMMA FilePut ==
    ASSUME NEW F, NEW l, NEW b, FilesOK(F, l, b), NEW f \in Files,
           NEW r \in Recipe, ~r.bare, FileOK(r), ~b => IsOf(r, f) /\ Agrees(r)
    PROVE  FilesOK(Put(F, f, r), l, b) /\ FilesOK(Put(F, f, r), f, b)
  <1> DEFINE G == Put(F, f, r)
  <1>1. DOMAIN G = DOMAIN F \cup {f} /\ G[f] = r /\ \A g \in DOMAIN F : g # f => G[g] = F[g]
    BY DEF Put
  <1> HIDE DEF G
  <1>2. \A g \in DOMAIN G : IF g = f THEN G[g] = r ELSE g \in DOMAIN F /\ G[g] = F[g]
    BY <1>1
  <1>3. \A g \in DOMAIN G :
          /\ g \in Files /\ G[g] \in Recipe /\ FileOK(G[g])
          /\ ~b => IsOf(G[g], g) /\ (~G[g].bare => Agrees(G[g]))
    BY <1>2 DEF FilesOK
  <1>4. l \in DOMAIN G => ~G[l].bare
    BY <1>2 DEF FilesOK
  <1> QED BY <1>1, <1>3, <1>4 DEF FilesOK, G

\* The automatic save.
LEMMA SavedOK ==
    ASSUME NEW r, BookOf(r, current, mixed), FilesOK(files, last, mixed),
           current \in Files \cup {None}
    PROVE  FilesOK(Saved(r), last, mixed)
  <1>1. CASE current = None
    BY <1>1 DEF Saved
  <1>2. CASE current # None
    <2> DEFINE t == [r EXCEPT !.move = Stripped(r), !.bare = FALSE]
    <2>1. r \in Recipe /\ VariablesOK(r) /\ (~mixed => Agrees(r) /\ IsOf(r, current))
      BY <1>2 DEF BookOf
    <2>2. t \in Recipe /\ NameKept(t, r) /\ ~t.bare /\ FileOK(t) /\ (Agrees(r) => Agrees(t))
      BY <2>1, StrippedOK
    <2>3. Saved(r) = Put(files, current, t)
      BY <1>2 DEF Saved
    <2> HIDE DEF t
    <2>4. ~mixed => IsOf(t, current) /\ Agrees(t)
      BY <2>1, <2>2 DEF IsOf, NameKept
    <2>5. FilesOK(Put(files, current, t), last, mixed)
      BY <1>2, <2>2, <2>4, FilePut
    <2> QED BY <2>3, <2>5
  <1> QED BY <1>1, <1>2

\* Writing it under a name of its own.
FileOf(t, f, b) == t \in Recipe /\ ~t.bare /\ FileOK(t) /\ (~b => IsOf(t, f) /\ Agrees(t))

LEMMA FiledOK ==
    ASSUME NEW r, NEW c, NEW b, BookOf(r, c, b), NEW f \in Files
    PROVE  /\ FileOf(Filed(r, f), f, b)
           /\ BookOf([r EXCEPT !.progOf = f, !.libOf = f], f, b)
  <1> DEFINE n == [r EXCEPT !.progOf = f, !.libOf = f]
             t == [n EXCEPT !.move = Stripped(n), !.bare = FALSE]
  <1>1. r \in Recipe /\ VariablesOK(r) /\ (~b => Agrees(r))
    BY DEF BookOf
  <1>2. /\ n \in Recipe /\ IsOf(n, f) /\ StoreKept(n, r) /\ n.move = r.move /\ n.points = r.points
        /\ n.wait = r.wait /\ n.timers = r.timers /\ n.torn = r.torn
    BY <1>1 DEF Recipe, IsOf, StoreKept
  <1>3. Stripped(n) = Stripped(r)
    BY <1>2 DEF Stripped
  <1>4. Filed(r, f) = t
    BY <1>1, <1>3 DEF Filed, Recipe
  <1> HIDE DEF n
  <1>5. VariablesOK(n) /\ (Agrees(r) => Agrees(n))
    BY <1>1, <1>2, StoreStays DEF Agrees, PointsOK, GoalsOK, TimesOK
  <1>6. t \in Recipe /\ NameKept(t, n) /\ ~t.bare /\ FileOK(t) /\ (Agrees(n) => Agrees(t))
    BY <1>2, <1>5, StrippedOK
  <1> HIDE DEF t
  <1>7. IsOf(t, f)
    BY <1>2, <1>6 DEF IsOf, NameKept
  <1> QED BY <1>1, <1>2, <1>4, <1>5, <1>6, <1>7 DEF BookOf, FileOf, n

\* Another name for the current recipe, or none.
LEMMA StillBook == ASSUME NEW r, NEW c, NEW b, BookOf(r, c, b) PROVE BookOf(r, None, b)
  BY DEF BookOf

\* A file is gone.
LEMMA FileDropped ==
    ASSUME NEW F, NEW l, NEW b, FilesOK(F, l, b), NEW f PROVE FilesOK(Drop(F, f), l, b)
  <1> DEFINE G == Drop(F, f)
  <1>1. DOMAIN G = DOMAIN F \ {f} /\ \A g \in DOMAIN G : G[g] = F[g]
    BY DEF Drop
  <1> HIDE DEF G
  <1> QED BY <1>1 DEF FilesOK, G

\* A file of this version is loaded, also at a start.
LEMMA LoadedOK ==
    ASSUME NEW f \in DOMAIN files, FilesOK(files, last, mixed), ~files[f].bare
    PROVE  BookOf(Ensured(files[f]), f, mixed)
  <1> DEFINE r == files[f]
  <1>1. r \in Recipe /\ VariablesOK(r) /\ (~mixed => IsOf(r, f) /\ Agrees(r))
    BY DEF FilesOK, FileOK
  <1> HIDE DEF r
  <1> DEFINE t == Ensured(r)
  <1>2. t \in Recipe /\ NameKept(t, r) /\ (Agrees(r) => Agrees(t)) /\ VariablesOK(t)
    BY <1>1, EnsuredOK
  <1> HIDE DEF t
  <1> QED BY <1>1, <1>2 DEF BookOf, IsOf, NameKept, r, t

LEMMA StartedOK ==
    ASSUME NEW f \in DOMAIN files, FilesOK(files, last, mixed), ~files[f].bare
    PROVE  BookOf(Started(files[f]), f, mixed)
  <1> DEFINE r == files[f]
             D == DOMAIN r.points \cup {r.move[m].point : m \in Moves}
             P == [p \in D |->
                     IF p \in DOMAIN r.points THEN r.points[p]
                     ELSE LET m == CHOOSE m \in Users(r, p) : TRUE IN
                          IF r.move[m].own = None THEN 0 ELSE r.move[m].own]
             e == Ensured(r)
             t == [e EXCEPT !.points = P]
  <1>1. /\ r \in Recipe /\ VariablesOK(r) /\ (~mixed => IsOf(r, f) /\ Agrees(r))
        /\ \A m \in Moves : r.move[m].own = None
    BY DEF FilesOK, FileOK
  <1>2. Started(files[f]) = t
    BY DEF Started
  <1>3. P \in Dicts(Points, Coords) /\ DOMAIN P = D
    <2>1. r.points \in Dicts(Points, Coords)
      BY <1>1, Fields
    <2>2. DOMAIN r.points \in SUBSET Points /\ r.points \in [DOMAIN r.points -> Coords]
      BY <2>1, DictIs
    <2>3. D \in SUBSET Points
      BY <1>1, <2>2, StepIs
    <2>4. ASSUME NEW p \in D PROVE P[p] \in Coords
      <3>1. CASE p \in DOMAIN r.points
        BY <2>2, <3>1
      <3>2. CASE p \notin DOMAIN r.points
        <4>1. PICK k \in Moves : r.move[k].point = p
          BY <2>4, <3>2
        <4>2. k \in Users(r, p) /\ Users(r, p) \subseteq Moves
          BY <4>1 DEF Users
        <4>3. (CHOOSE m \in Users(r, p) : TRUE) \in Moves
          BY <4>2
        <4> QED BY <1>1, <3>2, <4>3, RecipeAssumption
      <3> QED BY <3>1, <3>2
    <2> HIDE DEF r
    <2>5. P \in [D -> Coords]
      BY <2>4
    <2> QED BY <2>3, <2>5, IsDict
  <1>4. \A m \in Moves : r.move[m].point \in D
    OBVIOUS
  <1> HIDE DEF r, D, P
  <1>5. /\ e \in Recipe /\ NameKept(e, r) /\ e.move = r.move /\ (Agrees(r) => Agrees(e))
        /\ VariablesOK(e)
    BY <1>1, EnsuredOK
  <1> HIDE DEF e
  <1>6. /\ t \in Recipe /\ NameKept(t, e) /\ StoreKept(t, e) /\ t.move = e.move /\ t.points = P
        /\ (TimesOK(e) => TimesOK(t))
    BY <1>3, <1>5 DEF Recipe, NameKept, StoreKept, TimesOK
  <1> HIDE DEF t
  <1>7. Agrees(r) => Agrees(t)
    BY <1>1, <1>3, <1>4, <1>5, <1>6 DEF Agrees, PointsOK, GoalsOK
  <1>8. VariablesOK(t)
    BY <1>5, <1>6, StoreStays
  <1> QED BY <1>1, <1>2, <1>5, <1>6, <1>7, <1>8 DEF BookOf, IsOf, NameKept, t

\* A load that fails half-way: only the variables are those of a recipe.
LEMMA LegacyOK ==
    ASSUME NEW f \in DOMAIN files, FilesOK(files, last, mixed), files[f].bare, NEW c, NEW d,
           BookOf(mem, d, mixed)
    PROVE  BookOf([NoVariables(files[f]) EXCEPT !.points = <<>>, !.timers = mem.timers,
                                                !.libOf = mem.libOf], c, TRUE)
  <1> DEFINE r == files[f]
             v == [ids |-> {}, next |-> 0, lost |-> {}]
             b == [r EXCEPT !.vars = v]
             e == Ensured(b)
             t == [e EXCEPT !.points = <<>>, !.timers = mem.timers, !.libOf = mem.libOf]
  <1>1. r \in Recipe /\ \A u \in Held : r.use[u] = None
    BY DEF FilesOK, FileOK
  <1>2. NoVariables(files[f]) = e
    BY DEF NoVariables
  <1>3. mem.timers \in Dicts(Timers, Secs) /\ mem.libOf \in Files \cup {None}
    BY Fields DEF BookOf
  <1> HIDE DEF r
  <1>4. v \in StoreSet
    BY RecipeAssumption DEF StoreSet
  <1> HIDE DEF v
  <1>5. b \in Recipe /\ b.use = r.use
    BY <1>1, <1>4 DEF Recipe, StoreSet
  <1> HIDE DEF b
  <1>6. e \in Recipe /\ VariablesOK(e)
    BY <1>1, <1>5, EnsuredOK
  <1> HIDE DEF e
  <1>7. t \in Recipe /\ StoreKept(t, e)
    BY <1>3, <1>6, EmptyIn DEF Recipe, StoreKept
  <1> HIDE DEF t
  <1>8. VariablesOK(t)
    BY <1>6, <1>7, StoreStays
  <1> QED BY <1>2, <1>7, <1>8 DEF BookOf, t

\* The recipe of a pendant that has none.
LEMMA DefaultOK == Default \in Recipe /\ Agrees(Default) /\ VariablesOK(Default)
  <1> DEFINE p == CHOOSE p \in Points : TRUE
             P == [q \in {p} |-> 0]
  <1>1. p \in Points /\ 0 \in Coords /\ (CHOOSE x \in Secs : TRUE) \in Secs /\ MaxIds \in Nat
    BY RecipeAssumption
  <1>2. P \in Dicts(Points, Coords) /\ p \in DOMAIN P /\ P[p] = 0
    <2>1. {p} \in SUBSET Points /\ P \in [{p} -> Coords]
      BY <1>1
    <2> QED BY <2>1, IsDict
  <1>3. Default.points = P /\ \A m \in Moves : Default.move[m].point = p /\ Default.move[m].own = 0
    BY DEF Default
  <1> HIDE DEF p, P
  <1>4. Default \in Recipe
    BY <1>1, <1>2, EmptyIn DEF Default, Recipe, p, P
  <1>5. Agrees(Default)
    <2>1. Default.wait.ref = None
      BY DEF Default
    <2> QED BY <1>2, <1>3, <2>1 DEF Agrees, PointsOK, GoalsOK, TimesOK
  <1>6. VariablesOK(Default)
    BY DEF VariablesOK, Default
  <1> QED BY <1>4, <1>5, <1>6

---------------------------------------------------------------------------
(* The steps.                                                                *)

LEMMA InitHolds == ASSUME Init PROVE IInv
  <1> DEFINE t == CHOOSE t \in Timers : TRUE
             x == CHOOSE x \in Secs : TRUE
             T == [u \in {t} |-> x]
             O == [u \in Uses |-> IF u \in Held THEN None ELSE 0]
  <1>1. PICK f \in Files \ Legacy :
          LET r == [Default EXCEPT !.move = Stripped(Default), !.wait.ref = t,
                                   !.timers = [u \in {t} |-> Default.wait.secs],
                                   !.progOf = f, !.libOf = f]
              old == [Default EXCEPT !.points = <<>>, !.use = O]
          IN /\ files = [g \in {f} \cup Legacy |->
                            IF g = f THEN r
                            ELSE [old EXCEPT !.bare = TRUE, !.progOf = g, !.libOf = g]]
             /\ mem = r /\ current = f /\ last = f
             /\ session = None /\ changes = 0 /\ mixed = FALSE
    BY DEF Init
  <1> DEFINE d == [Default EXCEPT !.move = Stripped(Default), !.bare = FALSE]
             r == [d EXCEPT !.wait = [ref |-> t, secs |-> x], !.timers = T,
                            !.progOf = f, !.libOf = f]
             old(g) == [Default EXCEPT !.points = <<>>, !.use = O, !.bare = TRUE,
                                       !.progOf = g, !.libOf = g]
  <1>2. t \in Timers /\ x \in Secs /\ Legacy \subseteq Files /\ 0 \in Ids /\ MaxChanges \in Nat
    BY RecipeAssumption DEF Ids
  <1>3. Default.wait = [ref |-> None, secs |-> x] /\ Default.torn = FALSE /\ Default.bare = FALSE
    BY DEF Default
  <1>4. mem = r /\ files = [g \in {f} \cup Legacy |-> IF g = f THEN r ELSE old(g)]
    <2> DEFINE r0 == [Default EXCEPT !.move = Stripped(Default), !.wait.ref = t,
                                     !.timers = [u \in {t} |-> Default.wait.secs],
                                     !.progOf = f, !.libOf = f]
               old0(g) == [[Default EXCEPT !.points = <<>>, !.use = O]
                             EXCEPT !.bare = TRUE, !.progOf = g, !.libOf = g]
    <2>1. mem = r0 /\ files = [g \in {f} \cup Legacy |-> IF g = f THEN r0 ELSE old0(g)]
      BY <1>1
    <2>2. r0 = r
      <3> HIDE DEF t, x
      <3> DEFINE w == Default.wait
      <3>0. w = [ref |-> None, secs |-> x]
        BY <1>3
      <3>2. T = [u \in {t} |-> Default.wait.secs]
        BY <3>0
      <3> HIDE DEF T, w
      <3>1. [Default.wait EXCEPT !.ref = t] = [ref |-> t, secs |-> x]
        <4>1. [w EXCEPT !.ref = t] = [ref |-> t, secs |-> x]
          BY <3>0
        <4> QED BY <4>1 DEF w
      <3>3. r0 = [Default EXCEPT !.move = Stripped(Default),
                                 !.wait = [Default.wait EXCEPT !.ref = t], !.timers = T,
                                 !.progOf = f, !.libOf = f]
        BY <3>2, DefaultOK DEF Recipe
      <3>4. [Default EXCEPT !.move = Stripped(Default), !.bare = FALSE]
              = [Default EXCEPT !.move = Stripped(Default)]
        BY <1>3, DefaultOK DEF Recipe
      <3> QED BY <3>1, <3>3, <3>4, DefaultOK DEF Recipe
    <2>3. \A g : old0(g) = old(g)
      OBVIOUS
    <2> HIDE DEF r0, old0, r, old
    <2> QED BY <2>1, <2>2, <2>3
  <1>5. d \in Recipe /\ d.bare = FALSE /\ FileOK(d) /\ Agrees(d)
    <2> DEFINE e == Default
    <2>1. e \in Recipe /\ VariablesOK(e) /\ Agrees(e)
      BY DefaultOK
    <2> HIDE DEF e
    <2>2. LET b == [e EXCEPT !.move = Stripped(e), !.bare = FALSE] IN
          b \in Recipe /\ ~b.bare /\ FileOK(b) /\ Agrees(b)
      BY <2>1, StrippedOK
    <2> QED BY <2>2, Fields DEF e
  <1>6. T \in Dicts(Timers, Secs) /\ t \in DOMAIN T /\ T[t] = x
    <2>1. {t} \in SUBSET Timers /\ T \in [{t} -> Secs]
      BY <1>2
    <2> QED BY <2>1, IsDict
  <1>7. O \in [Uses -> Ids \cup {None}] /\ \A u \in Held : u \in Uses => O[u] = None
    BY <1>2
  <1> HIDE DEF t, x, T, O, d
  <1>8. /\ r \in Recipe /\ IsOf(r, f) /\ StoreKept(r, d) /\ r.move = d.move
        /\ r.points = d.points /\ r.bare = FALSE
        /\ r.wait.ref = t /\ r.wait.secs = x /\ r.timers = T
    BY <1>2, <1>5, <1>6 DEF Recipe, IsOf, StoreKept
  <1>9. \A g \in Files : old(g) \in Recipe /\ IsOf(old(g), g) /\ old(g).bare /\ old(g).use = O
    BY <1>7, DefaultOK, EmptyIn DEF Recipe, IsOf
  <1> HIDE DEF r, old
  <1>10. VariablesOK(d) /\ \A m \in Moves : d.move[m].own = None
    BY <1>5 DEF FileOK
  <1>11. VariablesOK(r) /\ FileOK(r) /\ Agrees(r)
    BY <1>5, <1>6, <1>8, <1>10, StoreStays DEF FileOK, Agrees, PointsOK, GoalsOK, TimesOK
  <1>12. \A g \in Files : FileOK(old(g))
    BY <1>7, <1>9, RecipeAssumption DEF FileOK
  <1>13. BookOf(mem, current, mixed)
    BY <1>1, <1>4, <1>8, <1>11 DEF BookOf
  <1>14. FilesOK(files, last, mixed)
    <2>1. ASSUME NEW g \in DOMAIN files
          PROVE  /\ g \in Files /\ files[g] \in Recipe /\ FileOK(files[g])
                 /\ IsOf(files[g], g) /\ (~files[g].bare => Agrees(files[g]))
      <3>1. CASE g = f
        BY <1>4, <1>8, <1>11, <3>1
      <3>2. CASE g # f
        <4>1. g \in Legacy /\ files[g] = old(g)
          BY <1>4, <3>2
        <4> QED BY <1>2, <1>9, <1>12, <4>1
      <3> QED BY <3>1, <3>2
    <2>2. ~files[last].bare
      BY <1>1, <1>4, <1>8
    <2> QED BY <2>1, <2>2 DEF FilesOK
  <1>15. session = None /\ Names(current, last, changes, mixed)
    <2>1. f \in Files /\ current = f /\ last = f /\ changes = 0 /\ mixed = FALSE /\ session = None
      BY <1>1
    <2>2. mixed \in BOOLEAN
      BY <2>1
    <2>3. current \in Files \cup {None} /\ last \in Files \cup {None} /\ changes \in 0 .. MaxChanges
      BY <1>2, <2>1
    <2> QED BY <2>1, <2>2, <2>3 DEF Names
  <1> QED BY <1>13, <1>14, <1>15 DEF IInv

\* What is made of a recipe in memory is one.
LEMMA MadeBook ==
    ASSUME NEW r, NEW t, NEW c, NEW b, BookOf(r, c, b), MadeOf(t, r)
    PROVE  BookOf(t, c, b) /\ t.vars = r.vars
  BY StoreStays DEF BookOf, MadeOf, IsOf, NameKept, StoreKept

LEMMA MadeOfItself == ASSUME NEW r \in Recipe PROVE MadeOf(r, r)
  BY DEF MadeOf, StoreKept, NameKept

\* As one it stays when only its store has changed.
LEMMA StoreBook ==
    ASSUME NEW r, NEW t, NEW c, NEW b, BookOf(r, c, b),
           t \in Recipe, NameKept(t, r), VariablesOK(t), Agrees(r) => Agrees(t)
    PROVE  BookOf(t, c, b)
  BY DEF BookOf, IsOf, NameKept

\* A change on a page.
LEMMA PageKeeps == ASSUME IInv, NEW r, MadeOf(r, mem), Page(r) PROVE IInv'
  <1>1. BookOf(r, current, mixed)
    BY MadeBook DEF IInv
  <1>2. FilesOK(Saved(r), last, mixed)
    BY <1>1, SavedOK DEF IInv, Names
  <1>3. changes' \in 0 .. MaxChanges
    BY RecipeAssumption DEF IInv, Names, Page
  <1> QED BY <1>1, <1>2, <1>3 DEF IInv, Names, Page

\* A change in a session, and of the pages' library.
LEMMA SessionKeeps ==
    ASSUME IInv, session # None, NEW s, MadeOf(s, session), InSession(s), MadeOf(mem', mem)
    PROVE  IInv'
  <1>1. BookOf(s, current, mixed) /\ s.vars = session.vars
    BY MadeBook DEF IInv
  <1>2. BookOf(mem', current, mixed) /\ mem'.vars = mem.vars
    BY MadeBook DEF IInv
  <1>3. changes' \in 0 .. MaxChanges
    BY RecipeAssumption DEF IInv, Names, InSession
  <1> QED BY <1>1, <1>2, <1>3 DEF IInv, Names, InSession

LEMMA PagesKeep == ASSUME IInv, Teach \/ EditPoint \/ EditTimer PROVE IInv'
  <1>1. mem \in Recipe
    BY DEF IInv, BookOf
  <1>2. CASE Teach
    <2>1. PICK p \in DOMAIN mem.points, c \in Coords : Page(Taught(mem, p, c))
      BY <1>2 DEF Teach
    <2>2. MadeOf(Taught(mem, p, c), mem)
      BY <1>1, <2>1, TaughtMade
    <2> QED BY <2>1, <2>2, PageKeeps
  <1>3. CASE EditPoint
    <2>1. PICK p \in DOMAIN mem.points, c \in Coords : Page(Edited(mem, p, c))
      BY <1>3 DEF EditPoint
    <2>2. MadeOf(Edited(mem, p, c), mem)
      BY <1>1, <2>1, EditedMade
    <2> QED BY <2>1, <2>2, PageKeeps
  <1>4. CASE EditTimer
    <2>1. PICK t \in DOMAIN mem.timers, x \in Secs :
             Page(Timed([mem EXCEPT !.timers = Put(@, t, x)], t, x))
      BY <1>4 DEF EditTimer
    <2>2. MadeOf(Timed([mem EXCEPT !.timers = Put(@, t, x)], t, x), mem)
      BY <1>1, <2>1, TimedMade
    <2> QED BY <2>1, <2>2, PageKeeps
  <1> QED BY <1>2, <1>3, <1>4

LEMMA PointStepKeeps == ASSUME IInv, PointStep PROVE IInv'
  <1>1. /\ session # None /\ session \in Recipe /\ mem \in Recipe /\ mem' = mem
        /\ MadeOf(mem', mem)
    BY MadeOfItself DEF PointStep, IInv, BookOf
  <1>2. ASSUME NEW s, MadeOf(s, session), InSession(s) PROVE IInv'
    BY <1>1, <1>2, SessionKeeps
  <1>3. \A p \in Selected : p \in DOMAIN session.points
    BY DEF Selected
  <1>4. CASE SetPointCoordinate
    <2>1. PICK p \in Selected, c \in Coords :
             InSession(Drifted([session EXCEPT !.points = Put(@, p, c)], Users(session, p)))
      BY <1>4 DEF SetPointCoordinate
    <2>2. MadeOf(Drifted([session EXCEPT !.points = Put(@, p, c)], Users(session, p)), session)
      BY <1>1, <1>3, <2>1, SetCoordinateMade
    <2> QED BY <1>2, <2>1, <2>2
  <1>5. CASE SetPointIndex
    <2>1. PICK m \in Moves, p \in DOMAIN session.points :
             InSession(Drifted([session EXCEPT !.move[m].point = p], {m}))
      BY <1>5 DEF SetPointIndex
    <2>2. MadeOf(Drifted([session EXCEPT !.move[m].point = p], {m}), session)
      BY <1>1, <2>1, SetIndexMade
    <2> QED BY <1>2, <2>1, <2>2
  <1>6. CASE AddPositionPoint
    <2>1. PICK m \in Moves, p \in Points \ DOMAIN session.points :
             InSession(Drifted([session EXCEPT !.move[m].point = p, !.points = Put(@, p, 0)],
                               {m}))
      BY <1>6 DEF AddPositionPoint
    <2>2. MadeOf(Drifted([session EXCEPT !.move[m].point = p, !.points = Put(@, p, 0)], {m}),
                 session)
      BY <1>1, <2>1, AddPointMade
    <2> QED BY <1>2, <2>1, <2>2
  <1>7. CASE RenameSelectedPoint
    <2>1. PICK p \in Selected, q \in Points \ DOMAIN session.points :
             InSession(Repointed([session EXCEPT !.points = Renamed(@, p, q)], p, q))
      BY <1>7 DEF RenameSelectedPoint
    <2>2. MadeOf(Repointed([session EXCEPT !.points = Renamed(@, p, q)], p, q), session)
      BY <1>1, <1>3, <2>1, RenamePointMade
    <2> QED BY <1>2, <2>1, <2>2
  <1>8. CASE DeleteSelectedPoint
    <2>1. PICK p \in Selected :
             LET left == Drop(session.points, p) IN
             \E q \in IF DOMAIN left # {} THEN DOMAIN left ELSE Points :
                InSession(Drifted(Repointed([session EXCEPT !.points =
                                     IF DOMAIN left # {} THEN left ELSE Put(left, q, 0)], p, q),
                                  Users(session, p)))
      BY <1>8 DEF DeleteSelectedPoint
    <2> DEFINE left == Drop(session.points, p)
               S(q) == Drifted(Repointed([session EXCEPT !.points =
                                  IF DOMAIN left # {} THEN left ELSE Put(left, q, 0)], p, q),
                               Users(session, p))
    <2>2. PICK q \in IF DOMAIN left # {} THEN DOMAIN left ELSE Points : InSession(S(q))
      BY <2>1
    <2>3. MadeOf(S(q), session)
      BY <1>1, <1>3, <2>1, <2>2, DeletePointMade
    <2> QED BY <1>2, <2>2, <2>3
  <1> QED BY <1>4, <1>5, <1>6, <1>7, <1>8 DEF PointStep

LEMMA TimerStepKeeps == ASSUME IInv, TimerStep PROVE IInv'
  <1>1. session # None /\ session \in Recipe /\ mem \in Recipe
    BY DEF TimerStep, IInv, BookOf
  <1>2. ASSUME NEW s, MadeOf(s, session), InSession(s), mem' = mem PROVE IInv'
    BY <1>1, <1>2, MadeOfItself, SessionKeeps
  <1>3. ASSUME NEW s, NEW T \in Dicts(Timers, Secs),
               MadeOf([s EXCEPT !.timers = T], session), InLibrary(T, s)
        PROVE  IInv'
    <2>1. MadeOf(mem', mem)
      BY <1>1, <1>3, LibraryMade DEF InLibrary
    <2> QED BY <1>1, <1>3, <2>1, SessionKeeps DEF InLibrary
  <1> DEFINE w == session.wait.ref
             L == session.timers
  <1>4. CASE EditTimerSeconds
    <2>1. PICK x \in Secs :
            IF w \in DOMAIN L THEN InLibrary(Put(L, w, x), Timed(session, w, x))
            ELSE InSession([session EXCEPT !.wait = [ref |-> None, secs |-> x]]) /\ mem' = mem
      BY <1>4 DEF EditTimerSeconds
    <2>2. CASE w \in DOMAIN L
      <3>1. Put(L, w, x) \in Dicts(Timers, Secs)
        BY <1>1, <2>1, <2>2, TimedMade
      <3>2. MadeOf(Timed([session EXCEPT !.timers = Put(@, w, x)], w, x), session)
        BY <1>1, <2>1, <2>2, TimedMade
      <3>3. Timed([session EXCEPT !.timers = Put(@, w, x)], w, x)
              = [Timed(session, w, x) EXCEPT !.timers = Put(L, w, x)]
        BY <1>1 DEF Timed, Recipe
      <3> QED BY <1>3, <2>1, <2>2, <3>1, <3>2, <3>3
    <2>3. CASE w \notin DOMAIN L
      BY <1>1, <1>2, <2>1, <2>3, WaitMade
    <2> QED BY <2>2, <2>3
  <1>5. CASE SelectTimer
    <2>1. /\ MadeOf([session EXCEPT !.wait.ref = None], session)
          /\ \A t \in DOMAIN L :
                MadeOf([session EXCEPT !.wait = [ref |-> t, secs |-> L[t]], !.torn = FALSE],
                       session)
      BY <1>1, WaitMade
    <2> QED BY <1>2, <1>5, <2>1 DEF SelectTimer
  <1>6. CASE AddTimer
    <2>1. PICK t \in Timers \ DOMAIN L, x \in Secs :
            InLibrary(Put(L, t, x),
                      [session EXCEPT !.wait = [ref |-> t, secs |-> x], !.torn = FALSE])
      BY <1>6 DEF AddTimer
    <2>2. /\ MadeOf([[session EXCEPT !.wait = [ref |-> t, secs |-> x], !.torn = FALSE]
                       EXCEPT !.timers = Put(L, t, x)], session)
          /\ Put(L, t, x) \in Dicts(Timers, Secs)
      BY <1>1, <2>1, AddTimerMade
    <2> QED BY <1>3, <2>1, <2>2
  <1>7. CASE DeleteTimer
    <2>1. w \in DOMAIN L /\ InLibrary(Drop(L, w), [session EXCEPT !.wait.ref = None])
      BY <1>7 DEF DeleteTimer
    <2>2. /\ MadeOf([[session EXCEPT !.wait.ref = None] EXCEPT !.timers = Drop(L, w)], session)
          /\ Drop(L, w) \in Dicts(Timers, Secs)
      BY <1>1, <2>1, DeleteTimerMade
    <2> QED BY <1>3, <2>1, <2>2
  <1>8. CASE RenameTimer
    <2>1. PICK t \in DOMAIN L, u \in Timers \ DOMAIN L :
            InLibrary(Renamed(L, t, u),
                      IF w = t THEN [session EXCEPT !.wait.ref = u] ELSE session)
      BY <1>8 DEF RenameTimer
    <2>2. /\ MadeOf([IF w = t THEN [session EXCEPT !.wait.ref = u] ELSE session
                       EXCEPT !.timers = Renamed(L, t, u)], session)
          /\ Renamed(L, t, u) \in Dicts(Timers, Secs)
      BY <1>1, <2>1, RenameTimerMade
    <2> QED BY <1>3, <2>1, <2>2
  <1> QED BY <1>4, <1>5, <1>6, <1>7, <1>8 DEF TimerStep

LEMMA VariableStepKeeps == ASSUME IInv, VariableStep PROVE IInv'
  <1>1. /\ session # None /\ session \in Recipe /\ mem \in Recipe /\ session.vars = mem.vars
        /\ VariablesOK(session) /\ VariablesOK(mem)
    BY DEF VariableStep, IInv, BookOf
  <1>2. changes < MaxChanges /\ changes' = changes + 1 => changes' \in 0 .. MaxChanges
    BY RecipeAssumption DEF IInv, Names
  <1>3. CASE SelectVariable
    <2>1. PICK u \in Uses, i \in session.vars.ids \cup {None} :
             InSession([session EXCEPT !.use[u] = i]) /\ mem' = mem
      BY <1>3 DEF SelectVariable
    <2> DEFINE s == [session EXCEPT !.use[u] = i]
    <2>2. /\ s \in Recipe /\ NameKept(s, session) /\ VariablesOK(s) /\ s.vars = session.vars
          /\ (Agrees(session) => Agrees(s))
      BY <1>1, <2>1, SelectedMade
    <2>3. InSession(s)
      BY <2>1
    <2> HIDE DEF s
    <2>4. BookOf(s, current, mixed)
      BY <1>1, <2>2, StoreBook DEF IInv
    <2> QED BY <1>1, <1>2, <2>1, <2>2, <2>3, <2>4 DEF IInv, Names, InSession
  <1>4. ASSUME NEW s, InStore(s),
               s \in Recipe, NameKept(s, session), VariablesOK(s), Agrees(session) => Agrees(s),
               LET w == [mem EXCEPT !.vars = s.vars] IN
               w \in Recipe /\ NameKept(w, mem) /\ VariablesOK(w) /\ (Agrees(mem) => Agrees(w))
        PROVE  IInv'
    <2> DEFINE w == [mem EXCEPT !.vars = s.vars]
    <2>1. BookOf(s, current, mixed)
      BY <1>1, <1>4, StoreBook DEF IInv
    <2>2. w.vars = s.vars
      BY <1>1 DEF Recipe
    <2>3. session' = s /\ mem' = w /\ files' = Saved(w)
      BY <1>4 DEF InStore
    <2>4. w \in Recipe /\ NameKept(w, mem) /\ VariablesOK(w) /\ (Agrees(mem) => Agrees(w))
      BY <1>4
    <2> HIDE DEF w
    <2>5. BookOf(w, current, mixed)
      BY <2>4, StoreBook DEF IInv
    <2>6. FilesOK(Saved(w), last, mixed)
      BY <2>5, SavedOK DEF IInv, Names
    <2> QED BY <1>2, <1>4, <2>1, <2>2, <2>3, <2>5, <2>6 DEF IInv, Names, InStore
  <1>5. CASE AddVariable
    <2> DEFINE i == session.vars.next
               S(u) == [session EXCEPT !.use[u] = i, !.vars.ids = @ \cup {i}, !.vars.next = i + 1]
    <2>1. PICK u \in Uses : InStore(S(u))
      BY <1>5 DEF AddVariable
    <2>2. LET s == S(u)
              w == [mem EXCEPT !.vars = s.vars]
          IN  /\ s \in Recipe /\ NameKept(s, session) /\ VariablesOK(s)
              /\ (Agrees(session) => Agrees(s))
              /\ w \in Recipe /\ NameKept(w, mem) /\ VariablesOK(w) /\ (Agrees(mem) => Agrees(w))
      BY <1>1, <1>5, AddedMade DEF AddVariable
    <2> HIDE DEF S
    <2> QED BY <1>4, <2>1, <2>2
  <1>6. CASE DeleteVariable
    <2> DEFINE L(i) == IF i \in {mem.use[u] : u \in Uses} \cup {session.use[u] : u \in Held}
                       THEN session.vars.lost \cup {i} ELSE session.vars.lost
               S(i) == [session EXCEPT !.vars.ids = @ \ {i}, !.vars.lost = L(i)]
    <2>1. PICK i \in session.vars.ids \ Counted(session) : InStore(S(i))
      BY <1>6 DEF DeleteVariable
    <2>2. LET s == S(i)
              w == [mem EXCEPT !.vars = s.vars]
          IN  /\ s \in Recipe /\ NameKept(s, session) /\ VariablesOK(s)
              /\ (Agrees(session) => Agrees(s))
              /\ w \in Recipe /\ NameKept(w, mem) /\ VariablesOK(w) /\ (Agrees(mem) => Agrees(w))
      BY <1>1, <2>1, DeletedMade
    <2> HIDE DEF S
    <2> QED BY <1>4, <2>1, <2>2
  <1> QED BY <1>3, <1>5, <1>6 DEF VariableStep

\* Opening, running, accepting and cancelling.
LEMMA EditorKeeps == ASSUME IInv, OpenEditor \/ StartRun \/ Accept \/ Cancel PROVE IInv'
  <1>1. BookOf(mem, current, mixed) /\ mem \in Recipe /\ VariablesOK(mem)
    BY DEF IInv, BookOf
  <1> DEFINE e == Ensured(mem)
  <1>2. e \in Recipe /\ NameKept(e, mem) /\ VariablesOK(e) /\ (Agrees(mem) => Agrees(e))
    BY <1>1, EnsuredOK
  <1> HIDE DEF e
  <1>3. BookOf(e, current, mixed)
    BY <1>1, <1>2, StoreBook
  <1>4. CASE OpenEditor
    <2>1. /\ mem' = e /\ session' = Opened(e)
          /\ UNCHANGED <<files, current, last, changes, mixed>>
      BY <1>4 DEF OpenEditor, e
    <2>2. MadeOf(Opened(e), e)
      BY <1>2, WaitMade
    <2>3. BookOf(Opened(e), current, mixed) /\ Opened(e).vars = e.vars
      BY <1>3, <2>2, MadeBook
    <2> QED BY <1>3, <2>1, <2>3 DEF IInv, Names
  <1>5. CASE StartRun
    <2>1. /\ mem' = e /\ UNCHANGED <<files, current, last, changes, mixed>>
          /\ session' = IF session = None THEN None ELSE [session EXCEPT !.vars = e.vars]
      BY <1>5 DEF StartRun, e
    <2>2. CASE session = None
      BY <1>3, <2>1, <2>2 DEF IInv, Names
    <2>3. CASE session # None
      <3>1. session \in Recipe /\ session.vars = mem.vars /\ VariablesOK(session)
        BY <2>3 DEF IInv, BookOf
      <3> DEFINE t == [session EXCEPT !.vars = e.vars]
      <3>2. /\ t \in Recipe /\ NameKept(t, session) /\ VariablesOK(t)
            /\ (Agrees(session) => Agrees(t)) /\ t.vars = e.vars
        BY <1>1, <3>1, SessionStore DEF e
      <3>3. session' = t
        BY <2>1, <2>3
      <3> HIDE DEF t
      <3>4. BookOf(t, current, mixed)
        BY <2>3, <3>2, StoreBook DEF IInv
      <3> QED BY <1>3, <2>1, <3>2, <3>3, <3>4 DEF IInv, Names
    <2> QED BY <2>2, <2>3
  <1>6. CASE Accept
    <2>1. BookOf(session, current, mixed)
      BY <1>6 DEF Accept, IInv
    <2>2. FilesOK(Saved(session), last, mixed)
      BY <2>1, SavedOK DEF IInv, Names
    <2> QED BY <1>6, <2>1, <2>2 DEF Accept, IInv, Names
  <1>7. CASE Cancel
    BY <1>7 DEF Cancel, IInv, Names
  <1> QED BY <1>4, <1>5, <1>6, <1>7

\* The data page, the automatic save and a restart.
LEMMA FilesKeep ==
    ASSUME IInv, SaveAs \/ Load \/ LoadLegacy \/ Delete \/ AutoSave \/ Restart PROVE IInv'
  <1>1. /\ BookOf(mem, current, mixed) /\ FilesOK(files, last, mixed)
        /\ Names(current, last, changes, mixed)
    BY DEF IInv
  <1>2. CASE SaveAs
    <2>1. PICK f \in Files :
          /\ files' = Put(files, f, Filed(mem, f))
          /\ mem' = [mem EXCEPT !.progOf = f, !.libOf = f]
          /\ current' = f /\ last' = f
      BY <1>2 DEF SaveAs
    <2> DEFINE t == Filed(mem, f)
    <2>2. FileOf(t, f, mixed)
      BY <1>1, FiledOK
    <2>3. BookOf(mem', f, mixed)
      BY <1>1, <2>1, FiledOK
    <2>4. files' = Put(files, f, t)
      BY <2>1
    <2> HIDE DEF t
    <2>5. FilesOK(Put(files, f, t), f, mixed)
      BY <1>1, <2>2, FilePut DEF FileOf
    <2>6. changes' \in 0 .. MaxChanges
      <3>1. changes < MaxChanges /\ changes' = changes + 1
        BY <1>2 DEF SaveAs
      <3> QED BY <1>1, <3>1, RecipeAssumption DEF Names
    <2> QED BY <1>1, <1>2, <2>1, <2>3, <2>4, <2>5, <2>6 DEF IInv, Names, SaveAs
  <1>3. CASE Load
    <2>1. PICK f \in DOMAIN files :
             ~files[f].bare /\ mem' = Ensured(files[f]) /\ current' = f /\ last' = f
      BY <1>3 DEF Load, LoadedName
    <2>2. BookOf(mem', f, mixed)
      BY <1>1, <2>1, LoadedOK
    <2>3. f \in Files /\ FilesOK(files, f, mixed)
      BY <1>1, <2>1 DEF FilesOK
    <2> QED BY <1>1, <1>3, <2>1, <2>2, <2>3 DEF IInv, Names, Load
  <1>4. CASE LoadLegacy
    <2>1. PICK f \in DOMAIN files :
          /\ files[f].bare
          /\ mem' = [NoVariables(files[f]) EXCEPT !.points = <<>>, !.timers = mem.timers,
                                                  !.libOf = mem.libOf]
      BY <1>4 DEF LoadLegacy
    <2>2. BookOf(mem', current, TRUE)
      BY <1>1, <2>1, LegacyOK
    <2>3. FilesOK(files, last, TRUE)
      BY <1>1 DEF FilesOK
    <2>4. mixed' = TRUE
      BY <1>4 DEF LoadLegacy
    <2> QED BY <1>1, <1>4, <2>2, <2>3, <2>4 DEF IInv, Names, LoadLegacy
  <1>5. CASE Delete
    <2>1. PICK f \in DOMAIN files :
             files' = Drop(files, f) /\ current' = CurrentAfterDelete(f)
      BY <1>5 DEF Delete
    <2>2. FilesOK(Drop(files, f), last, mixed)
      BY <1>1, FileDropped
    <2>3. BookOf(mem, None, mixed) /\ current' \in {current, None}
      BY <1>1, <2>1, StillBook DEF CurrentAfterDelete
    <2> QED BY <1>1, <1>5, <2>1, <2>2, <2>3 DEF IInv, Names, Delete
  <1>6. CASE AutoSave
    <2>1. FilesOK(Saved(mem), last, mixed)
      BY <1>1, SavedOK DEF Names
    <2> QED BY <1>1, <1>6, <2>1 DEF IInv, Names, AutoSave
  <1>7. CASE Restart
    <2>1. CASE last \in DOMAIN files
      <3>1. BookOf(Started(files[last]), last, mixed)
        BY <1>1, <2>1, StartedOK DEF FilesOK
      <3> QED BY <1>1, <1>7, <2>1, <3>1 DEF IInv, Names, Restart
    <2>2. CASE last \notin DOMAIN files
      <3>1. BookOf(Default, None, mixed)
        BY DefaultOK DEF BookOf
      <3> QED BY <1>1, <1>7, <2>2, <3>1 DEF IInv, Names, Restart
    <2> QED BY <2>1, <2>2
  <1> QED BY <1>2, <1>3, <1>4, <1>5, <1>6, <1>7

LEMMA NextKeeps == ASSUME IInv, [Next]_vars PROVE IInv'
  <1>1. CASE UNCHANGED vars
    BY <1>1 DEF IInv, Names, BookOf, FilesOK, FileOK, VariablesOK, Agrees, PointsOK, GoalsOK,
                TimesOK, IsOf, vars
  <1> QED BY <1>1, PagesKeep, PointStepKeeps, TimerStepKeeps, VariableStepKeeps, EditorKeeps,
             FilesKeep DEF Next

\* The recipes in memory, session and files stay whole, whatever is done to them.
THEOREM RecipesStayWhole == Spec => []IInv
  <1> QED BY InitHolds, NextKeeps, PTL DEF Spec

---------------------------------------------------------------------------
(* What the runs check.                                                      *)

LEMMA Whole == ASSUME IInv PROVE BookInv
  <1>1. /\ mem \in Recipe /\ VariablesOK(mem) /\ (~mixed => Agrees(mem))
        /\ (~mixed /\ current # None => IsOf(mem, current))
        /\ session # None => session \in Recipe /\ VariablesOK(session)
        /\ FilesOK(files, last, mixed) /\ Names(current, last, changes, mixed)
    BY DEF IInv, BookOf
  <1>2. TypeOK
    BY <1>1 DEF TypeOK, FilesOK, Names
  <1>3. TimersAgreeApart
    <2>1. mem.wait.ref \in DOMAIN mem.timers => mem.wait.ref # None
      BY <1>1, WaitIs
    <2> QED BY <1>1, <2>1 DEF TimersAgreeApart, Agrees, TimesOK
  <1>4. RecipesWhole
    BY <1>1 DEF RecipesWhole, FilesOK, IsOf
  <1>5. PointsExist
    BY <1>1 DEF PointsExist, Agrees, PointsOK
  <1>6. VariablesExistApart
    BY <1>1 DEF VariablesExistApart, VariablesOK
  <1>7. NumbersKept
    BY <1>1 DEF NumbersKept, FilesOK, FileOK, VariablesOK
  <1> QED BY <1>2, <1>3, <1>4, <1>5, <1>6, <1>7 DEF BookInv

\* The recipe in memory and those in the files are whole: programs and libraries are of one
\* file, and the steps' points exist, unless an old file was loaded half-way (mixed); a time
\* is the one of its timer, unless a session that changed timers was cancelled too (torn); the
\* variables that steps name exist, unless they were deleted where the editor does not count
\* their users (lost); and no number that a step names is ever given again, without exception.
THEOREM BookInvariant == Spec => []BookInv
  <1> QED BY RecipesStayWhole, Whole, PTL

LEMMA Shown == ASSUME IInv PROVE GoesWhereShownApart
  BY DEF IInv, BookOf, Agrees, GoalsOK, GoesWhereShownApart, Goal

\* A step goes where its point is shown to be, whatever was taught, edited, saved, loaded
\* and accepted before.
THEOREM GoesWhereShown == Spec => []GoesWhereShownApart
  <1> QED BY RecipesStayWhole, Shown, PTL

LEMMA RestartReads ==
    ASSUME IInv, Restart, last = current, ~mixed, Filing, NEW m \in Moves
    PROVE  Goal(mem', m) = mem.points[mem.move[m].point]
  <1> DEFINE r == files[last]
             t == Started(r)
  <1>1. last \in DOMAIN files /\ mem' = t
    BY DEF Restart, Filing
  <1>2. /\ r \in Recipe /\ ~r.bare /\ PointsOK(r) /\ \A k \in Moves : r.move[k].own = None
        /\ r.points = mem.points /\ r.move[m].point = mem.move[m].point
    BY <1>1 DEF IInv, FilesOK, FileOK, Agrees, Filing
  <1>3. t.move = r.move /\ \A p \in DOMAIN r.points : p \in DOMAIN t.points
                                                     /\ t.points[p] = r.points[p]
    <2> HIDE DEF r
    <2>1. Ensured(r) \in Recipe /\ Ensured(r).move = r.move
      BY <1>2, EnsuredOK
    <2> QED BY <2>1 DEF Started, Recipe
  <1> HIDE DEF r, t
  <1> QED BY <1>1, <1>2, <1>3 DEF Goal, PointsOK

\* A restart reads back what was written: the moves go where their points were when the
\* file was saved.
THEOREM ReloadKeeps == Spec => ReloadKeepsGoals
  <1>1. IInv => [Restart /\ last = current /\ ~mixed /\ Filing
                   => \A m \in Moves : Goal(mem', m) = mem.points[mem.move[m].point]]_vars
    BY RestartReads
  <1> QED BY <1>1, RecipesStayWhole, PTL DEF ReloadKeepsGoals

=============================================================================
