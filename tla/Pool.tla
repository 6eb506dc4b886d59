--------------------------------- MODULE Pool ---------------------------------
(***************************************************************************)
(* indie::ecs::Pool<Component, EntityType> (ecs/include/indie/ecs/Pool.hpp)*)
(* A pool object is its base SparseSet (the entities that own a component) *)
(* and the vector _components; the component of an entity is the one at    *)
(* the place the base set gives the entity (IndexOf).  As in SparseSet,    *)
(* operators return the object after the call.  The capacity of            *)
(* _components, which decides when its storage moves, is in PoolClient.    *)
(***************************************************************************)
EXTENDS SparseSet, Sequences

EmptyPool == [set |-> EmptySparse, components |-> <<>>]

PoolHas(p, et) == SparseHas(p.set, et)

Owners(p) == Members(p.set)

\* IndexOf(et), as a position of the sequence components.
Place(p, et) == p.set.sparse[et] + 1

PoolGet(p, et) == p.components[Place(p, et)]

\* The component is appended whether or not Insert added the entity.
PoolAssign(p, et, component) ==
  [set |-> SparseInsert(p.set, et),
   components |-> Append(p.components, component)]

PoolAssignOverruns(p, et) == InsertOverruns(p.set, et)

\* Replace does not look whether the entity owns a component: it reads
\* sparse[et], and writes the component, wherever they are.
PoolReplaceOverruns(p, et) ==
  et >= p.set.capacity \/ Place(p, et) > Len(p.components)

\* Mutant: the entity itself taken for its place.
ReplaceByEntity(p, et, component) ==
  [p EXCEPT !.components[et + 1] = component]

PoolReplace(p, et, component) ==
  [p EXCEPT !.components[Place(p, et)] = component]

\* Mutant: always assigns.
AssignAlways(p, et, component) == PoolAssign(p, et, component)

PoolAssignOrReplace(p, et, component) ==
  IF PoolHas(p, et) THEN PoolReplace(p, et, component)
                    ELSE PoolAssign(p, et, component)

\* Mutant: drops the last component, without a look at whose it is.
DeletePopsLast(p, et) ==
  [set |-> SparseErase(p.set, et),
   components |-> SubSeq(p.components, 1, Len(p.components) - 1)]

\* Only the base set changes: components keeps its length and its order.
PoolDelete(p, et) == [p EXCEPT !.set = SparseErase(p.set, et)]

\* Mutant: only one half of Reset.
ResetKeepsOwners(p) == [p EXCEPT !.components = <<>>]

PoolReset(p) == [set |-> SparseClear(p.set), components |-> <<>>]

-----------------------------------------------------------------------------
\* The shape of a pool whose base set is coherent and in which every owner's
\* place lies within components.
PoolWellFormed(p) ==
  /\ p = [set |-> p.set, components |-> p.components]
  /\ SparseTypeOK(p.set)
  /\ Coherent(p.set)
  /\ p.set.size <= Len(p.components)
=============================================================================
