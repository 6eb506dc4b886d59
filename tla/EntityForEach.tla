---------------------------- MODULE EntityForEach ----------------------------
(***************************************************************************)
(* EntityManager::ForEach<Components...>(func), with callbacks that call   *)
(* the manager they are called from (EntityManager.hpp, ForEach and        *)
(* Filter).  The range-for takes Begin() and End() of _entities once; the  *)
(* callback may erase from that list, insert into it, or make it grow,     *)
(* after which the two iterators may dangle.                               *)
(*                                                                         *)
(* The steps of the manager are those of EntityManager, made between two   *)
(* iterations or by the callback of the one that runs.                     *)
(***************************************************************************)
EXTENDS EntityManager

CONSTANT MaxCalls  \* bound of the model: calls the callbacks of a ForEach make

ASSUME MaxCallsAssumption == MaxCalls \in Nat

VARIABLE walk  \* the running ForEach

walkVars == <<entities, deleted, ett, pools, loop, ub, elsewhere, walk>>

\* at is the entity the callback is called for; over is a bound of the model:
\* a behaviour ends with its first ForEach.  visits, stayed, erased and tame
\* are history: how often the callback was called for each id, the entities that
\* have owned the components since the start, whether a callback has destroyed,
\* and whether none has destroyed another entity or created after a destruction.
NotWalking == [active |-> FALSE, inside |-> FALSE, types |-> {}, next |-> 0,
               end |-> 0, at |-> 0, moved |-> FALSE,
               over |-> FALSE, visits |-> [et \in Ids |-> 0], stayed |-> {},
               erased |-> FALSE, tame |-> TRUE, calls |-> 0]

WalkInit == Init /\ walk = NotWalking

-----------------------------------------------------------------------------
\* ForEach<types>(func), of registered components.
StartForEach(types) ==
  /\ Ready
  /\ ~walk.active /\ ~walk.over
  /\ types # {} /\ types \subseteq Registered
  /\ walk' = [NotWalking EXCEPT !.active = TRUE, !.types = types,
                                !.end = entities.size,
                                !.stayed = { et \in Live : OwnsAll(et, types) }]
  /\ UNCHANGED vars

\* filter.Has<Components...>(et): the pools the Filter points at all have et.
Selected(et) == \A c \in walk.types : PoolHas(pools[c], et)

\* The next cell of the list: the callback is called if filter.Has(et).
Visit ==
  /\ ~ub
  /\ walk.active /\ ~walk.inside /\ ~walk.moved
  /\ walk.next < walk.end
  /\ LET et == entities.dense[walk.next]
     IN  walk' = IF Selected(et)
                 THEN [walk EXCEPT !.next = @ + 1, !.inside = TRUE, !.at = et,
                                   !.visits[et] = @ + 1]
                 ELSE [walk EXCEPT !.next = @ + 1]
  /\ UNCHANGED vars

\* The next cell belongs to a vector that is gone.
VisitMoved ==
  /\ ~ub
  /\ walk.active /\ ~walk.inside /\ walk.moved
  /\ walk.next < walk.end
  /\ ub' = TRUE
  /\ UNCHANGED <<entities, deleted, ett, pools, loop, elsewhere, walk>>

\* Mutant: stays at its place when the callback has destroyed the entity, as
\* one does with vector::erase.
ReturnsToPlace ==
  /\ Ready
  /\ walk.inside
  /\ walk' = [walk EXCEPT !.inside = FALSE,
                          !.next = IF walk.at \in Live THEN @ ELSE @ - 1]
  /\ UNCHANGED vars

CallbackReturns ==
  /\ Ready
  /\ walk.inside
  /\ walk' = [walk EXCEPT !.inside = FALSE]
  /\ UNCHANGED vars

EndForEach ==
  /\ ~ub
  /\ walk.active /\ ~walk.inside
  /\ walk.next = walk.end
  /\ walk' = [NotWalking EXCEPT !.over = TRUE]
  /\ UNCHANGED vars

-----------------------------------------------------------------------------
\* Between iterations the caller makes, destroys and furnishes entities: of the
\* calls of EntityManager, a bound of the model leaves these to it.
OutsideCall ==
  /\ ~walk.active /\ ~walk.over
  /\ \/ CreateFresh
     \/ \E et \in Ids : Destroy(et)
     \/ \E c \in ComponentTypes, et \in Ids : ~OwnsAll(et, {c}) /\ Assign(c, et)
  /\ UNCHANGED walk

\* What a call of the callback does to the iteration.  Growing the vector may
\* or may not move it: std::vector keeps some room of its own.
Track ==
  LET owns(et) == \A c \in walk.types : c \in DOMAIN pools' /\ PoolHas(pools'[c], et)
      grown == entities'.capacity > entities.capacity
      tame == /\ Live \ Live' \subseteq {walk.at}
              /\ walk.erased => Live' \subseteq Live
  IN  \E moved \in {walk.moved, walk.moved \/ grown} :
        walk' = [walk EXCEPT
                   !.moved = moved,
                   !.stayed = { et \in @ : SparseHas(entities', et) /\ owns(et) },
                   !.erased = @ \/ entities'.size < entities.size,
                   !.tame = @ /\ tame,
                   !.calls = IF loop.active THEN @ ELSE @ + 1]

\* The callback makes any call of EntityManager, a step at a time if it is Reset()
\* or Destroy<...>(); Create of another manager is one of them.
CallbackCall ==
  /\ walk.inside
  /\ loop.active \/ walk.calls < MaxCalls
  /\ Next
  /\ Track

WalkNext ==
  \/ \E types \in SUBSET ComponentTypes : StartForEach(types)
  \/ Visit
  \/ VisitMoved
  \/ CallbackReturns
  \/ EndForEach
  \/ OutsideCall
  \/ CallbackCall

WalkSpec == WalkInit /\ [][WalkNext]_walkVars

-----------------------------------------------------------------------------
\* How often the iteration has met et or will meet it in the cells ahead.
Meetings(et) ==
  walk.visits[et]
    + Cardinality({ i \in walk.next .. (walk.end - 1) : entities.dense[i] = et })

\* As long as callbacks destroy no entity but their own and create none after
\* a destruction, the callback is called exactly once for each entity that owns
\* the components from the start of ForEach to its end: it has been or it is in
\* exactly one of the cells ahead.  What else callbacks create, give and take
\* does not matter.
VisitedOnce ==
  walk.active /\ walk.tame /\ ~ub => \A et \in walk.stayed : Meetings(et) = 1

\* The program breaks the memory in four ways only: ForEach reads the next cell
\* after a callback has made the list of entities grow, an entity is created with
\* the counter at its largest value, one is freed after the free ids have lost their
\* coherence, or a component is replaced that the entity does not own.  Nothing
\* else a callback does to the entities and components it is called for breaks it.
CausesOfWalkUB ==
  [][ub' /\ ~ub =>
       \/ walk.active /\ ~walk.inside /\ walk.moved
       \/ ett = Limit - 1 /\ (CreateFresh \/ CreateElsewhere)
       \/ ~Coherent(deleted) /\ entities'.size < entities.size
       \/ \E c \in ComponentTypes, et \in Ids :
            Replace(c, et) /\ ~OwnsAll(et, {c})]_walkVars

\* "Iterates through each entities which own all specified components": when
\* ForEach returns, the callback has been called once, neither more nor less,
\* for each entity that owned them all along.
EachOnce ==
  [][EndForEach => \A et \in walk.stayed : walk.visits[et] = 1]_walkVars
=============================================================================
