----------------------------- MODULE PoolForEach -----------------------------
(***************************************************************************)
(* Pool::ForEach(func) (Pool.hpp), with callbacks that call the pool they  *)
(* are called from.  Other than the iteration of EntityManager this one    *)
(* compares its iterator with an End() taken anew at every turn, and hands *)
(* a copy of the component to the callback.                                *)
(*                                                                         *)
(* The calls on the pool are those of PoolClient, made before the          *)
(* iteration or by the callback that runs.                                 *)
(***************************************************************************)
EXTENDS PoolClient

VARIABLE walk  \* the running ForEach

walkVars == <<pool, capacity, held, wanted, ub, walk>>

\* next is the place of the iterator in _dense.  over is a bound of the model: a
\* behaviour ends with its first ForEach.  visits and erased are history: how often
\* the callback was called for each entity, and whether one has deleted.
NotWalking == [active |-> FALSE, inside |-> FALSE, next |-> 0, moved |-> FALSE,
               over |-> FALSE, visits |-> [et \in Value |-> 0], erased |-> FALSE]

WalkInit == Init /\ walk = NotWalking

-----------------------------------------------------------------------------
StartForEach ==
  /\ ~ub
  /\ ~walk.active /\ ~walk.over
  /\ walk' = [NotWalking EXCEPT !.active = TRUE]
  /\ UNCHANGED vars

\* Mutant: stops before the last element.
AtEndEarly == walk.next + 1 >= pool.set.size

\* it = End(), on vectors that have not moved.
AtEnd == walk.next = pool.set.size

\* The cell the iterator points at is one of _dense, and the component at the
\* place of the entity it names is one of _components.
Readable ==
  /\ walk.next < pool.set.capacity
  /\ Place(pool, pool.set.dense[walk.next]) <= Len(pool.components)

\* The callback is called with the entity in the next cell.
Visit ==
  /\ ~ub
  /\ walk.active /\ ~walk.inside /\ ~walk.moved
  /\ ~AtEnd /\ Readable
  /\ walk' = [walk EXCEPT !.inside = TRUE,
                          !.visits[pool.set.dense[walk.next]] = @ + 1]
  /\ UNCHANGED vars

\* The iterator is one of a vector that is gone, or has stepped over the end and
\* leads out of the vectors.
VisitOutside ==
  /\ ~ub
  /\ walk.active /\ ~walk.inside
  /\ walk.moved \/ (~AtEnd /\ ~Readable)
  /\ ub' = TRUE
  /\ UNCHANGED <<pool, capacity, held, wanted, walk>>

\* Mutant: stays at its place once a callback has deleted, as one does with
\* vector::erase.
ReturnsToPlace ==
  /\ ~ub
  /\ walk.inside
  /\ walk' = [walk EXCEPT !.inside = FALSE, !.next = IF walk.erased THEN @ ELSE @ + 1]
  /\ UNCHANGED vars

CallbackReturns ==
  /\ ~ub
  /\ walk.inside
  /\ walk' = [walk EXCEPT !.inside = FALSE, !.next = @ + 1]
  /\ UNCHANGED vars

EndForEach ==
  /\ ~ub
  /\ walk.active /\ ~walk.inside /\ ~walk.moved
  /\ AtEnd
  /\ walk' = [walk EXCEPT !.active = FALSE, !.over = TRUE]
  /\ UNCHANGED vars

OutsideCall ==
  /\ ~walk.active /\ ~walk.over
  /\ Next
  /\ UNCHANGED walk

\* A call of the callback.  When _dense grows it may or may not move: std::vector
\* keeps some room of its own.
CallbackCall ==
  /\ walk.inside
  /\ Next
  /\ \E moved \in {walk.moved, walk.moved \/ pool'.set.capacity > pool.set.capacity} :
       walk' = [walk EXCEPT !.moved = moved,
                            !.erased = @ \/ pool'.set.size < pool.set.size]

WalkNext ==
  \/ StartForEach
  \/ Visit
  \/ VisitOutside
  \/ CallbackReturns
  \/ EndForEach
  \/ OutsideCall
  \/ CallbackCall

WalkSpec == WalkInit /\ [][WalkNext]_walkVars

-----------------------------------------------------------------------------
\* The iterator has come to et, or is past it.
Behind(et) == Place(pool, et) <= walk.next + (IF walk.inside THEN 1 ELSE 0)

\* As long as the callbacks delete nothing, ForEach is at or before the end and
\* has called the callback once for each owner up to the iterator and for no
\* other one.  When it returns it has done so for every owner, those the callbacks
\* have added included.
VisitedAsListed ==
  (walk.active \/ walk.over) /\ ~walk.erased /\ ~ub =>
    /\ walk.next <= pool.set.size
    /\ \A et \in Owners(pool) :
         walk.visits[et] = IF walk.over \/ Behind(et) THEN 1 ELSE 0

\* How often ForEach has called the callback for an owner, or will if nothing moves.
Meetings(et) == walk.visits[et] + (IF Behind(et) THEN 0 ELSE 1)

\* The callback deletes an owner the iterator has come to or passed, and et, which
\* is the last and still ahead, moves into its cell.
TakenBack(et) ==
  /\ ~Behind(et) /\ Place(pool, et) = pool.set.size
  /\ \E gone \in Entities \ {et} : Delete(gone) /\ Behind(gone)

\* With callbacks that delete, too, ForEach meets an owner that stays once, unless it
\* is taken back: no other step, of ForEach or of a callback, makes it pass over an
\* owner or meet one again, until the iterator has stepped over the end.
MissedOnlyIfTakenBack ==
  [][walk.active /\ walk'.active /\ walk.next <= pool.set.size =>
       \A et \in Owners(pool) \cap Owners(pool') :
         Meetings(et)' = Meetings(et) - (IF TakenBack(et) THEN 1 ELSE 0)]_walkVars

\* The program breaks the memory in three ways only.  The iteration does when the
\* vectors have moved under its iterator, or when the callbacks have left fewer
\* owners than they were called for, so that the iterator has stepped over the
\* end: deleting is harmless as long as enough owners are left.  A call does when
\* it assigns to the largest value of EntityType.
CausesOfWalkUB ==
  [][ub' /\ ~ub =>
       IF walk.active /\ ~walk.inside
       THEN walk.moved \/ walk.next > pool.set.size
       ELSE \A et \in Entities : PoolAssignOverruns(pool, et) => et = Limit - 1]_walkVars
=============================================================================
