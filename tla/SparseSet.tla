------------------------------ MODULE SparseSet ------------------------------
(***************************************************************************)
(* indie::ecs::details::SparseSet<T>, the index structure every part of    *)
(* the ECS is built from (ecs/include/indie/ecs/details/SparseSet.hpp).    *)
(*                                                                         *)
(* A set object is a record: the two vectors dense and sparse (functions   *)
(* on 0 .. capacity-1, both always resized to capacity), size and          *)
(* capacity.  dense[0 .. size-1] lists the elements, sparse[v] is meant to *)
(* be the place of v in dense; what the vectors hold beyond that is stale  *)
(* data that the code reads, so it is kept.  The module has no variables:  *)
(* an operator returns the object after the call.                          *)
(***************************************************************************)
EXTENDS Integers

CONSTANT Limit  \* how many values the unsigned type T has: 2^width

ASSUME LimitAssumption == Limit \in Nat \ {0}

Value == 0 .. (Limit - 1)

EmptySparse ==
  [dense |-> [i \in {} |-> 0], sparse |-> [i \in {} |-> 0],
   size |-> 0, capacity |-> 0]

Slots(s) == 0 .. (s.size - 1)

\* What iterating from Begin() to End() yields.
Listed(s) == { s.dense[i] : i \in Slots(s) }

\* Mutant: a cell that once named v is taken for v even when it lies behind the
\* elements.
HasIgnoringSize(s, v) ==
  /\ v < s.capacity
  /\ s.sparse[v] < s.capacity
  /\ s.dense[s.sparse[v]] = v

SparseHas(s, v) ==
  /\ v < s.capacity
  /\ s.sparse[v] < s.size
  /\ s.dense[s.sparse[v]] = v

Members(s) == { v \in 0 .. (s.capacity - 1) : SparseHas(s, v) }

\* Mutant: assign(count, 0) for resize(count, 0), which forgets the cells.
ResizeToZeros(vec, count) == [i \in 0 .. (count - 1) |-> 0]

\* std::vector::resize(count, 0) on a vector that does not shrink.
Resize(vec, count) ==
  [i \in 0 .. (count - 1) |-> IF i \in DOMAIN vec THEN vec[i] ELSE 0]

\* Mutant: no look at the capacity there is.
ReserveUnguarded(s, count) ==
  [dense |-> Resize(s.dense, count), sparse |-> Resize(s.sparse, count),
   size |-> s.size, capacity |-> count]

SparseReserve(s, count) ==
  IF count > s.capacity
  THEN [dense |-> Resize(s.dense, count), sparse |-> Resize(s.sparse, count),
        size |-> s.size, capacity |-> count]
  ELSE s

\* Mutant: Reserve(v), one cell short.
RoomOneShort(s, v) == IF v >= s.capacity THEN SparseReserve(s, v) ELSE s

\* The storage Insert(v) writes to; v + 1 is computed in the unsigned type T.
RoomFor(s, v) ==
  IF v >= s.capacity THEN SparseReserve(s, (v + 1) % Limit) ELSE s

\* Insert writes dense[size] and sparse[v] without looking at the vectors'
\* sizes.  A store outside of them is undefined behaviour.
InsertOverruns(s, v) ==
  /\ ~SparseHas(s, v)
  /\ LET r == RoomFor(s, v) IN r.size >= r.capacity \/ v >= r.capacity

\* Mutant: Insert without its Reserve.
InsertWithoutRoom(s, v) ==
  IF SparseHas(s, v) THEN s
  ELSE [dense |-> [s.dense EXCEPT ![s.size] = v],
        sparse |-> [s.sparse EXCEPT ![v] = s.size],
        size |-> s.size + 1, capacity |-> s.capacity]

\* The outcome of Insert when its stores are in bounds.
SparseInsert(s, v) ==
  IF SparseHas(s, v) THEN s
  ELSE LET r == RoomFor(s, v)
       IN  [dense |-> [r.dense EXCEPT ![r.size] = v],
            sparse |-> [r.sparse EXCEPT ![v] = r.size],
            size |-> r.size + 1, capacity |-> r.capacity]

\* Mutant: looks at the bounds and not whether v is an element.
EraseUnchecked(s, v) ==
  IF v >= s.capacity \/ s.size = 0 THEN s
  ELSE LET slot == s.sparse[v]
           last == s.dense[s.size - 1]
       IN  [dense |-> [s.dense EXCEPT ![slot] = last],
            sparse |-> [s.sparse EXCEPT ![last] = slot],
            size |-> s.size - 1, capacity |-> s.capacity]

\* Erase(val) for a val that is not part of the set's own storage: the last
\* element moves into the slot of v.
SparseErase(s, v) ==
  IF ~SparseHas(s, v) THEN s
  ELSE LET slot == s.sparse[v]
           last == s.dense[s.size - 1]
       IN  [dense |-> [s.dense EXCEPT ![slot] = last],
            sparse |-> [s.sparse EXCEPT ![last] = slot],
            size |-> s.size - 1, capacity |-> s.capacity]

\* Erase(it), it pointing at dense[i].  Erase(*it) binds val to the vector
\* cell itself, so the first store may change what val reads in the second.
SparseEraseAt(s, i) ==
  IF ~SparseHas(s, s.dense[i]) THEN s
  ELSE LET last  == s.dense[s.size - 1]
           dense == [s.dense EXCEPT ![s.sparse[s.dense[i]]] = last]
       IN  [dense |-> dense,
            sparse |-> [s.sparse EXCEPT ![last] = s.sparse[dense[i]]],
            size |-> s.size - 1, capacity |-> s.capacity]

SparseClear(s) == [s EXCEPT !.size = 0]

-----------------------------------------------------------------------------
(***************************************************************************)
(* What the structure is meant to maintain.                                *)
(***************************************************************************)

\* The shape of a set object: both vectors have exactly capacity cells, and
\* every number in it is one that T can hold.
SparseTypeOK(s) ==
  /\ s = [dense |-> s.dense, sparse |-> s.sparse,
          size |-> s.size, capacity |-> s.capacity]
  /\ s.capacity \in Value
  /\ s.size \in 0 .. s.capacity
  /\ s.dense \in [0 .. (s.capacity - 1) -> 0 .. (s.capacity - 1)]
  /\ s.sparse \in [0 .. (s.capacity - 1) -> 0 .. (s.capacity - 1)]

\* dense and sparse are inverse to each other on the listed elements.
Coherent(s) == \A i \in Slots(s) : s.sparse[s.dense[i]] = i
=============================================================================
