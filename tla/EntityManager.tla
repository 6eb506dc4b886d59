---------------------------- MODULE EntityManager ----------------------------
(***************************************************************************)
(* indie::ecs::EntityManager<EntityType>, the registry of entities and of  *)
(* their components (ecs/include/indie/ecs/EntityManager.hpp), driven by a *)
(* caller that respects the documented preconditions: it passes entities   *)
(* that exist, deletes components that are owned and resets pools that are *)
(* registered.  Calls run one after the other in one thread; the two       *)
(* members that destroy many entities, Reset() and Destroy<Components...>, *)
(* are modelled entity by entity because they erase from the list they     *)
(* iterate over.                                                           *)
(*                                                                         *)
(* Instead of its data a component carries the entity it was made for.     *)
(***************************************************************************)
EXTENDS Pool, FiniteSets

CONSTANTS ComponentTypes,  \* the component types the caller uses
          MaxEntities,     \* bound of the model: ids Create makes
          MaxComponents    \* bound of the model: length of a pool's _components

ASSUME MaxEntitiesAssumption == MaxEntities \in Nat /\ MaxEntities < Limit
ASSUME MaxComponentsAssumption == MaxComponents \in Nat

VARIABLES entities,  \* _entities
          deleted,   \* _deleted_et, the ids to be used again
          ett,       \* the static counter of Create
          pools,     \* _pools: a function on the registered component types
          loop,      \* the iteration of a running Reset() or Destroy<...>()
          ub,        \* undefined behaviour: nothing is modelled after that
          elsewhere  \* history: the ids the counter has given to other managers

vars == <<entities, deleted, ett, pools, loop, ub, elsewhere>>

Ids == 0 .. (MaxEntities - 1)

\* No iteration is running.
Idle == [active |-> FALSE, types |-> {}, next |-> 0, end |-> 0,
         doomed |-> {}, spared |-> {}]

Init ==
  /\ entities = EmptySparse
  /\ deleted = EmptySparse
  /\ ett = 0
  /\ pools = [c \in {} |-> EmptyPool]
  /\ loop = Idle
  /\ ub = FALSE
  /\ elsewhere = {}

-----------------------------------------------------------------------------
Exists(et) == SparseHas(entities, et)

Live == Members(entities)

Registered == DOMAIN pools

\* Has<Components...>(et); no component type at all is owned by everyone.
OwnsAll(et, types) == \A c \in types : c \in Registered /\ PoolHas(pools[c], et)

\* TryAllocatePool<Component>(), and the pools after p becomes that pool.
PoolOf(c) == IF c \in Registered THEN pools[c] ELSE EmptyPool

WithPool(c, p) == [d \in Registered \cup {c} |-> IF d = c THEN p ELSE pools[d]]

\* The caller has the thread and no call has broken the program.
Ready == ~ub /\ ~loop.active

\* The bound of the model lets the counter be used at its largest value too.
Countable == ett < MaxEntities \/ ett = Limit - 1

\* Mutant: a counter of the manager's own.
CreateFreshByOwnCount ==
  /\ Ready
  /\ deleted.size = 0
  /\ Countable
  /\ LET et == ett - Cardinality(elsewhere)
     IN  /\ ub' = InsertOverruns(entities, et)
         /\ entities' = IF ub' THEN entities ELSE SparseInsert(entities, et)
  /\ ett' = IF ub' THEN ett ELSE (ett + 1) % Limit
  /\ UNCHANGED <<deleted, pools, loop, elsewhere>>

\* Create() when no id is free.
CreateFresh ==
  /\ Ready
  /\ deleted.size = 0
  /\ Countable
  /\ ub' = InsertOverruns(entities, ett)
  /\ entities' = IF ub' THEN entities ELSE SparseInsert(entities, ett)
  /\ ett' = IF ub' THEN ett ELSE (ett + 1) % Limit
  /\ UNCHANGED <<deleted, pools, loop, elsewhere>>

\* Mutant: the id stays on the list.
RecycleKeepsListed ==
  /\ Ready
  /\ deleted.size # 0
  /\ LET et == deleted.dense[0]
     IN  /\ ub' = InsertOverruns(entities, et)
         /\ entities' = IF ub' THEN entities ELSE SparseInsert(entities, et)
  /\ UNCHANGED <<deleted, ett, elsewhere, pools, loop>>

\* Create() when _deleted_et lists an id: the first of the list is used and
\* erased through the iterator that points at it.
CreateRecycled ==
  /\ Ready
  /\ deleted.size # 0
  /\ LET et == deleted.dense[0]
     IN  /\ ub' = InsertOverruns(entities, et)
         /\ entities' = IF ub' THEN entities ELSE SparseInsert(entities, et)
  /\ deleted' = SparseEraseAt(deleted, 0)
  /\ UNCHANGED <<ett, elsewhere, pools, loop>>

\* Create() of another manager of the same EntityType, which has no free id: the
\* static counter is the one of all of them.  No set has a place for the largest
\* value.
CreateElsewhere ==
  /\ Ready
  /\ Countable
  /\ ub' = (ett = Limit - 1)
  /\ elsewhere' = IF ub' THEN elsewhere ELSE elsewhere \cup {ett}
  /\ ett' = IF ub' THEN ett ELSE (ett + 1) % Limit
  /\ UNCHANGED <<entities, deleted, pools, loop>>

\* Mutants: the components stay; only one pool is looked at; the id is not kept
\* for later.
DestroyKeepsComponents(et) ==
  /\ entities' = SparseErase(entities, et)
  /\ ub' = InsertOverruns(deleted, et)
  /\ deleted' = IF ub' THEN deleted ELSE SparseInsert(deleted, et)
  /\ UNCHANGED pools

DestroyInOnePool(et) ==
  /\ LET owned == { c \in Registered : PoolHas(pools[c], et) }
     IN  pools' = IF owned = {} THEN pools
                  ELSE LET c == CHOOSE d \in owned : TRUE
                       IN  [pools EXCEPT ![c] = PoolDelete(@, et)]
  /\ entities' = SparseErase(entities, et)
  /\ ub' = InsertOverruns(deleted, et)
  /\ deleted' = IF ub' THEN deleted ELSE SparseInsert(deleted, et)

DestroyForgetsId(et) ==
  /\ pools' = [c \in Registered |->
                 IF PoolHas(pools[c], et) THEN PoolDelete(pools[c], et) ELSE pools[c]]
  /\ entities' = SparseErase(entities, et)
  /\ UNCHANGED <<deleted, ub>>

\* Destroy(et): every pool that has et deletes it, the id moves to the free ids.
DestroyEffect(et) ==
  /\ pools' = [c \in Registered |->
                 IF PoolHas(pools[c], et) THEN PoolDelete(pools[c], et) ELSE pools[c]]
  /\ entities' = SparseErase(entities, et)
  /\ ub' = InsertOverruns(deleted, et)
  /\ deleted' = IF ub' THEN deleted ELSE SparseInsert(deleted, et)

Destroy(et) ==
  /\ Ready
  /\ Exists(et)
  /\ DestroyEffect(et)
  /\ UNCHANGED <<ett, elsewhere, loop>>

\* Reset(), for types = {}, and Destroy<Components...>(): the range-for takes
\* End() once, before the first entity.  doomed and spared are history: which
\* of the entities own the components when the call starts.
StartDestroyAll(types) ==
  /\ Ready
  /\ loop' = [active |-> TRUE, types |-> types, next |-> 0, end |-> entities.size,
              doomed |-> { et \in Live : OwnsAll(et, types) },
              spared |-> { et \in Live : ~OwnsAll(et, types) }]
  /\ UNCHANGED <<entities, deleted, ett, elsewhere, pools, ub>>

\* Mutant: stays at its place after destroying, as one does with
\* vector::erase.
StepStaysAfterDestroy ==
  /\ ~ub
  /\ loop.active
  /\ loop.next < loop.end
  /\ LET et == entities.dense[loop.next]
     IN  IF OwnsAll(et, loop.types)
         THEN DestroyEffect(et) /\ UNCHANGED loop
         ELSE /\ UNCHANGED <<entities, deleted, pools, ub>>
              /\ loop' = [loop EXCEPT !.next = @ + 1]
  /\ UNCHANGED <<ett, elsewhere>>

DestroyAllStep ==
  /\ ~ub
  /\ loop.active
  /\ loop.next < loop.end
  /\ LET et == entities.dense[loop.next]
     IN  IF OwnsAll(et, loop.types)
         THEN DestroyEffect(et)
         ELSE UNCHANGED <<entities, deleted, pools, ub>>
  /\ loop' = [loop EXCEPT !.next = @ + 1]
  /\ UNCHANGED <<ett, elsewhere>>

DestroyAllEnd ==
  /\ ~ub
  /\ loop.active
  /\ loop.next = loop.end
  /\ loop' = Idle
  /\ UNCHANGED <<entities, deleted, ett, elsewhere, pools, ub>>

-----------------------------------------------------------------------------
Assign(c, et) ==
  /\ Ready
  /\ Exists(et)
  /\ Len(PoolOf(c).components) < MaxComponents
  /\ ub' = PoolAssignOverruns(PoolOf(c), et)
  /\ pools' = WithPool(c, IF ub' THEN PoolOf(c) ELSE PoolAssign(PoolOf(c), et, et))
  /\ UNCHANGED <<entities, deleted, ett, elsewhere, loop>>

\* Replace() dereferences the pool, and Pool::Replace its arrays, unchecked.
Replace(c, et) ==
  /\ Ready
  /\ Exists(et)
  /\ ub' = (c \notin Registered \/ PoolReplaceOverruns(PoolOf(c), et))
  /\ pools' = IF ub' THEN pools ELSE WithPool(c, PoolReplace(pools[c], et, et))
  /\ UNCHANGED <<entities, deleted, ett, elsewhere, loop>>

AssignOrReplace(c, et) ==
  /\ Ready
  /\ Exists(et)
  /\ Len(PoolOf(c).components) < MaxComponents
  /\ ub' = PoolAssignOverruns(PoolOf(c), et)
  /\ pools' = WithPool(c, IF ub' THEN PoolOf(c)
                          ELSE PoolAssignOrReplace(PoolOf(c), et, et))
  /\ UNCHANGED <<entities, deleted, ett, elsewhere, loop>>

\* Delete<Component>(et), of a component et owns.
Delete(c, et) ==
  /\ Ready
  /\ OwnsAll(et, {c})
  /\ pools' = WithPool(c, PoolDelete(pools[c], et))
  /\ UNCHANGED <<entities, deleted, ett, elsewhere, loop, ub>>

\* Reset<Component>(), of a registered pool.
ResetPool(c) ==
  /\ Ready
  /\ c \in Registered
  /\ pools' = WithPool(c, PoolReset(pools[c]))
  /\ UNCHANGED <<entities, deleted, ett, elsewhere, loop, ub>>

Reserve(count) ==
  /\ Ready
  /\ entities' = SparseReserve(entities, count)
  /\ UNCHANGED <<deleted, ett, elsewhere, pools, loop, ub>>

\* Reserve<Component>(count): registers the pool; the storage is left out.
ReservePool(c) ==
  /\ Ready
  /\ pools' = WithPool(c, PoolOf(c))
  /\ UNCHANGED <<entities, deleted, ett, elsewhere, loop, ub>>

UsualNext ==
  \/ \E et \in Ids : Destroy(et)
  \/ \E types \in SUBSET ComponentTypes : StartDestroyAll(types)
  \/ DestroyAllStep
  \/ DestroyAllEnd
  \/ \E c \in ComponentTypes, et \in Ids :
       Assign(c, et) \/ AssignOrReplace(c, et) \/ Delete(c, et)
  \/ \E c \in ComponentTypes : ResetPool(c) \/ ReservePool(c)
  \/ \E count \in Value : Reserve(count)

Next ==
  \/ UsualNext
  \/ CreateFresh
  \/ CreateElsewhere
  \/ CreateRecycled
  \/ \E c \in ComponentTypes, et \in Ids : Replace(c, et)

\* A caller that never creates an entity while several ids are free or the counter
\* is at its largest value, and replaces only components that are owned.
TidyNext ==
  \/ UsualNext
  \/ ett # Limit - 1 /\ CreateFresh
  \/ ett # Limit - 1 /\ CreateElsewhere
  \/ deleted.size = 1 /\ CreateRecycled
  \/ \E c \in ComponentTypes, et \in Ids : OwnsAll(et, {c}) /\ Replace(c, et)

Spec == Init /\ [][Next]_vars

TidySpec == Init /\ [][TidyNext]_vars

-----------------------------------------------------------------------------
LoopOK ==
  /\ loop = [active |-> loop.active, types |-> loop.types, next |-> loop.next,
             end |-> loop.end, doomed |-> loop.doomed, spared |-> loop.spared]
  /\ loop.active \in BOOLEAN
  /\ loop.types \in SUBSET ComponentTypes
  /\ loop.next \in 0 .. loop.end /\ loop.end \in Value
  /\ loop.doomed \in SUBSET Ids /\ loop.spared \in SUBSET Ids

\* Every set keeps the shape of its vectors, and every id is one Create may make.
TypeOK ==
  /\ SparseTypeOK(entities)
  /\ SparseTypeOK(deleted)
  /\ Listed(deleted) \subseteq Ids
  /\ ett \in 0 .. MaxEntities
  /\ Registered \subseteq ComponentTypes
  /\ \A c \in Registered :
       /\ pools[c] = [set |-> pools[c].set, components |-> pools[c].components]
       /\ SparseTypeOK(pools[c].set)
       /\ pools[c].components \in Seq(Ids)
  /\ LoopOK
  /\ ub \in BOOLEAN
  /\ elsewhere \in SUBSET Ids

\* Only entities that exist own components, and what an owner's Get returns is
\* a component that exists: Destroy and Reset leave no orphan behind, in the
\* middle of an iteration either.
OwnersLive ==
  \A c \in Registered :
    /\ Owners(pools[c]) \subseteq Live
    /\ \A et \in Owners(pools[c]) :
         Place(pools[c], et) \in 1 .. Len(pools[c].components)

\* No id is ever lost: each id the counter has passed exists, is listed as free or
\* is one of another manager.  (An id can exist and be free at once.)
IdsAccounted ==
  ~ub => \A et \in 0 .. (ett - 1) :
           et \in Live \/ et \in Listed(deleted) \/ et \in elsewhere

\* Managers of the same EntityType share the counter and nothing else: the ids one
\* of them has made neither exist in another nor become free there, so that an
\* entity of one manager is never mistaken for an entity of another.
IdsNotShared == elsewhere \cap (Live \cup Listed(deleted)) = {}

\* The index of the list of free ids does not know the first of them.
HeadLost == deleted.size # 0 /\ deleted.sparse[deleted.dense[0]] # 0

\* The list of free ids is coherent and lists no existing entity, or its first
\* id is lost: there is no other way for it to go wrong.
FreeIdsUnused ==
  \/ Coherent(deleted) /\ Live \cap Listed(deleted) = {}
  \/ HeadLost

\* Once the first free id is lost nothing brings the list back: it is never
\* empty again and its first id, the one every Create returns, never changes.
LostForGood ==
  [][HeadLost => HeadLost' /\ deleted'.dense[0] = deleted.dense[0]]_vars

\* The entities the iteration of Reset() or Destroy<...>() has yet to visit.
Ahead == { entities.dense[i] : i \in loop.next .. (loop.end - 1) }

\* Although it erases from the list it runs over, the iteration visits each
\* entity once: the ones ahead still exist, those that owned the components
\* and are behind it are gone, all the others are untouched.  At its end no
\* entity is left that should have been destroyed.
DestroyAllExact ==
  loop.active =>
    /\ Ahead \subseteq Live
    /\ Live = loop.spared \cup (loop.doomed \cap Ahead)

\* Calls within the contract break the memory in three ways only: creating an
\* entity with the counter at its largest value, before it wraps around, freeing an
\* entity after the free ids have lost their coherence, and replacing a component
\* the entity does not own.
CausesOfUB ==
  [][ub' /\ ~ub =>
       \/ ett = Limit - 1 /\ (CreateFresh \/ CreateElsewhere)
       \/ ~Coherent(deleted) /\ entities'.size < entities.size
       \/ \E c \in ComponentTypes, et \in Ids : Replace(c, et) /\ ~OwnsAll(et, {c})]_vars

\* Every owner finds a component that was made for it.
ReadsOwn ==
  \A c \in Registered : \A et \in Owners(pools[c]) : PoolGet(pools[c], et) = et

\* What makes an owner find the component of another entity: an owner that is
\* not the last of a pool leaves it, an entity joins a pool that still holds
\* components of former owners or superfluous ones, or Replace is called for
\* an entity that owns none.
CausesOfMisreads ==
  [][ReadsOwn /\ ~ReadsOwn' =>
       \E c \in Registered :
         LET p == pools[c]
             q == pools'[c]
         IN  \/ \E et \in Owners(p) \ Owners(q) : Place(p, et) # p.set.size
             \/ q.set.size > p.set.size /\ Len(p.components) > p.set.size
             \/ \E et \in Ids : Replace(c, et) /\ ~OwnsAll(et, {c})]_vars

\* What Create returns when it is called.
NextCreated == IF deleted.size = 0 THEN ett ELSE deleted.dense[0]

\* "Creates a new entity" (Create): the entity a call of Create would return does
\* not exist yet.
CreateIsNew == NextCreated \notin Live

-----------------------------------------------------------------------------
\* The tidy caller never breaks the memory.
NoUB == ~ub

\* For the tidy caller the manager implements the registry it promises.
Owning ==
  [c \in ComponentTypes |-> IF c \in Registered THEN Owners(pools[c]) ELSE {}]

Abstract == INSTANCE Registry WITH exists <- Live, owners <- Owning
ImplementsRegistry == Abstract!Spec
=============================================================================
