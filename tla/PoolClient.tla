----------------------------- MODULE PoolClient -----------------------------
(***************************************************************************)
(* One Pool driven by a client that keeps to the documented contract: it   *)
(* assigns only to entities without a component, replaces and deletes only *)
(* components that exist (the @warning paragraphs of Pool.hpp).            *)
(***************************************************************************)
EXTENDS Pool, FiniteSets

CONSTANTS Entities,       \* the entities the client uses
          Components,     \* the values components can have
          MaxComponents   \* bound of the model: length and capacity of _components

ASSUME EntitiesAssumption == Entities \subseteq Value
ASSUME BoundAssumption == MaxComponents \in Nat

VARIABLES pool,      \* the Pool object
          capacity,  \* _components.capacity()
          held,      \* a reference to a component the client has kept
          wanted,    \* history: what the client last stored for each owner
          ub         \* a store has left a vector: nothing is modelled after that

vars == <<pool, capacity, held, wanted, ub>>

\* The place in _components a reference points at, and the entity it was
\* obtained for.  No reference is kept, or it dangles: place 0.
NoReference == [et |-> 0, at |-> 0]

NoComponents == [et \in {} |-> {}]

Store(et, component) ==
  [e \in DOMAIN wanted \cup {et} |-> IF e = et THEN component ELSE wanted[e]]

Init ==
  /\ pool = EmptyPool
  /\ capacity = 0
  /\ held = NoReference
  /\ wanted = NoComponents
  /\ ub = FALSE

-----------------------------------------------------------------------------
\* Pool::Reserve(count): the capacities std::vector::reserve may choose.
Reserved(count) ==
  IF count > capacity THEN count .. MaxComponents ELSE {capacity}

\* Mutant: makes room for the next component too.
RoomForNext(et) ==
  LET index == SparseInsert(pool.set, et).sparse[et] + 1
  IN  UNION { IF Len(pool.components) = room THEN (room + 1) .. MaxComponents
                                             ELSE {room} :
              room \in IF index >= capacity THEN Reserved(index + 1) ELSE {capacity} }

\* The capacities Assign(et) may leave: its Reserve looks at the place of et
\* and emplace_back at the number of components there are.
RoomAfterAssign(et) ==
  LET index == SparseInsert(pool.set, et).sparse[et]
  IN  UNION { IF Len(pool.components) = room THEN (room + 1) .. MaxComponents
                                             ELSE {room} :
              room \in IF index >= capacity THEN Reserved(index + 1) ELSE {capacity} }

\* A vector whose capacity changes has moved, and references to it dangle.
Surviving(room) == IF room = capacity THEN held ELSE NoReference

\* What Assign does to the storage; the client may keep the reference it returns.
StorageAfterAssign(et) ==
  \E room \in RoomAfterAssign(et) :
    /\ capacity' = room
    /\ held' \in {Surviving(room), [et |-> et, at |-> Len(pool.components) + 1]}

Assign(et, component) ==
  /\ ~ub
  /\ ~PoolHas(pool, et)
  /\ ~PoolAssignOverruns(pool, et)
  /\ Len(pool.components) < MaxComponents
  /\ pool' = PoolAssign(pool, et, component)
  /\ StorageAfterAssign(et)
  /\ wanted' = Store(et, component)
  /\ UNCHANGED ub

\* Assign, or AssignOrReplace, when Insert stores outside of its vectors.
AssignOverrun(et) ==
  /\ ~ub
  /\ PoolAssignOverruns(pool, et)
  /\ ub' = TRUE
  /\ UNCHANGED <<pool, capacity, held, wanted>>

Replace(et, component) ==
  /\ ~ub
  /\ PoolHas(pool, et)
  /\ pool' = PoolReplace(pool, et, component)
  /\ wanted' = Store(et, component)
  /\ UNCHANGED <<capacity, held, ub>>

AssignOrReplace(et, component) ==
  /\ ~ub
  /\ ~PoolAssignOverruns(pool, et)
  /\ PoolHas(pool, et) \/ Len(pool.components) < MaxComponents
  /\ pool' = PoolAssignOrReplace(pool, et, component)
  /\ IF PoolHas(pool, et) THEN UNCHANGED <<capacity, held>> ELSE StorageAfterAssign(et)
  /\ wanted' = Store(et, component)
  /\ UNCHANGED ub

Delete(et) ==
  /\ ~ub
  /\ PoolHas(pool, et)
  /\ pool' = PoolDelete(pool, et)
  /\ wanted' = [e \in DOMAIN wanted \ {et} |-> wanted[e]]
  /\ UNCHANGED <<capacity, held, ub>>

\* The client keeps the pointer Get returns.
Get(et) ==
  /\ ~ub
  /\ PoolHas(pool, et)
  /\ held' = [et |-> et, at |-> Place(pool, et)]
  /\ UNCHANGED <<pool, capacity, wanted, ub>>

\* clear() keeps the capacity.
Reset ==
  /\ ~ub
  /\ pool' = PoolReset(pool)
  /\ held' = NoReference
  /\ wanted' = NoComponents
  /\ UNCHANGED <<capacity, ub>>

Reserve(count) ==
  /\ ~ub
  /\ capacity' \in Reserved(count)
  /\ held' = Surviving(capacity')
  /\ UNCHANGED <<pool, wanted, ub>>

Next ==
  \/ \E et \in Entities, component \in Components :
       \/ Assign(et, component)
       \/ Replace(et, component)
       \/ AssignOrReplace(et, component)
  \/ \E et \in Entities : AssignOverrun(et) \/ Delete(et) \/ Get(et)
  \/ Reset
  \/ \E count \in 0 .. MaxComponents : Reserve(count)

Spec == Init /\ [][Next]_vars

-----------------------------------------------------------------------------
\* The pool keeps its shape, the components fit the capacity, and the reference
\* the client keeps points at one of them or at none.
TypeOK ==
  /\ pool = [set |-> pool.set, components |-> pool.components]
  /\ SparseTypeOK(pool.set)
  /\ pool.components \in Seq(Components)
  /\ capacity \in Nat /\ Len(pool.components) <= capacity
  /\ held = [et |-> held.et, at |-> held.at]
  /\ held.at \in 0 .. Len(pool.components)
  /\ DOMAIN wanted \subseteq Entities
  /\ wanted \in [DOMAIN wanted -> Components]
  /\ ub \in BOOLEAN

\* Deletes included, the owners are exactly the entities that were stored and
\* not deleted since, and the place of each is a component that exists, so
\* that Get never returns a pointer past the end of _components.
OwnersExact ==
  /\ Owners(pool) = DOMAIN wanted
  /\ \A et \in Owners(pool) : Place(pool, et) \in 1 .. Len(pool.components)

\* "Finds in this pool the associated component of an entity" (Get): every owner
\* finds the component it was given.
ReadsBack == \A et \in Owners(pool) : PoolGet(pool, et) = wanted[et]

\* No component of a deleted entity is left in _components.
Unspoiled == Len(pool.components) = pool.set.size

\* Up to the first Delete, and again from the next Reset on, every owner finds
\* the component it was given, and the reference the client has kept still is
\* the address Get would return.
UnspoiledReadsBack ==
  Unspoiled =>
    /\ ReadsBack
    /\ held.at # 0 => held.et \in Owners(pool) /\ held.at = Place(pool, held.et)

\* A reference to a component dangles only after a Reset, a Reserve that makes
\* room, or an Assign of more components than the capacity, those of deleted
\* entities included: an Assign within the room a Reserve has made never moves
\* the components.
ReferencesKept ==
  [][held.at # 0 /\ held'.at = 0 =>
       \/ pool'.components = <<>>
       \/ pool' = pool /\ capacity' > capacity
       \/ Len(pool'.components) > capacity]_vars

\* There are two ways for an owner to lose its component: a Delete of an
\* entity that is not the last of the list, which moves the last entity away
\* from its component, and a new assignment while _components still holds
\* components of deleted entities.
OnlyDeletedSlotsMislead ==
  [][ReadsBack /\ ~ReadsBack'
       => \/ \E et \in Entities :
               Delete(et) /\ Place(pool, et) # pool.set.size
          \/ /\ pool'.set.size > pool.set.size
             /\ Len(pool.components) > pool.set.size]_vars

\* Up to the first Delete, and again from the next Reset on, the class
\* implements a map from entities to components; in between the map is taken to
\* be empty.
Stored ==
  IF Unspoiled THEN [et \in Owners(pool) |-> PoolGet(pool, et)] ELSE NoComponents
Abstract == INSTANCE ComponentMap WITH map <- Stored
ImplementsComponentMap == Abstract!Spec
=============================================================================
