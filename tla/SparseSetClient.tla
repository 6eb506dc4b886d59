--------------------------- MODULE SparseSetClient ---------------------------
(***************************************************************************)
(* One SparseSet driven by an arbitrary client, one action per member      *)
(* function that changes it.  ByValueSpec is the client that erases by     *)
(* value, as EntityManager does with _entities and Pool with its entities; *)
(* Spec also erases through iterators, as EntityManager::Create does with  *)
(* _deleted_et.                                                            *)
(***************************************************************************)
EXTENDS SparseSet, FiniteSets

CONSTANT Keys  \* the values the client inserts and erases

ASSUME KeysAssumption == Keys \subseteq Value

VARIABLES ss,  \* the set object
          ub   \* a store has left the vectors: nothing is modelled after that

vars == <<ss, ub>>

Init == ss = EmptySparse /\ ub = FALSE

Insert(v) ==
  /\ ~ub
  /\ ~InsertOverruns(ss, v)
  /\ ss' = SparseInsert(ss, v)
  /\ UNCHANGED ub

InsertOverrun(v) ==
  /\ ~ub
  /\ InsertOverruns(ss, v)
  /\ ub' = TRUE
  /\ UNCHANGED ss

Erase(v) ==
  /\ ~ub
  /\ ss' = SparseErase(ss, v)
  /\ UNCHANGED ub

\* it is an iterator in [Begin(), End()), at dense[i].
EraseAt(i) ==
  /\ ~ub
  /\ i \in Slots(ss)
  /\ ss' = SparseEraseAt(ss, i)
  /\ UNCHANGED ub

Clear ==
  /\ ~ub
  /\ ss' = SparseClear(ss)
  /\ UNCHANGED ub

Reserve(count) ==
  /\ ~ub
  /\ ss' = SparseReserve(ss, count)
  /\ UNCHANGED ub

ByValueNext ==
  \/ \E v \in Keys : Insert(v) \/ InsertOverrun(v) \/ Erase(v)
  \/ Clear
  \/ \E count \in Value : Reserve(count)

Next == ByValueNext \/ \E i \in Value : EraseAt(i)

ByValueSpec == Init /\ [][ByValueNext]_vars

Spec == Init /\ [][Next]_vars

-----------------------------------------------------------------------------
\* Both vectors have capacity cells, and every cell holds a number below it.
TypeOK == SparseTypeOK(ss) /\ ub \in BOOLEAN

\* Erasing by value keeps dense and sparse inverse to each other, so the O(1)
\* lookup of Has answers for exactly the elements iteration visits.
Indexed == Coherent(ss)

\* Iterating from Begin() to End() meets every element Has knows, each one
\* once, and Size() is their number (SparseSet.hpp Has, Begin, End, Size).
IterationExact ==
  /\ Listed(ss) = Members(ss)
  /\ ss.size = Cardinality(Members(ss))

\* Whatever was inserted, erased and cleared before, Insert would write within
\* its vectors, for every value but the largest of T: there is always a free
\* slot for a value that is no element.
NoOverrun == \A v \in Keys \ {Limit - 1} : ~InsertOverruns(ss, v)

\* Whatever was inserted and erased before, and whatever stale cells that
\* left, each call changes the set of elements as its name says.
CallsExact ==
  [][/\ \A v \in Keys : Insert(v) => Members(ss') = Members(ss) \cup {v}
     /\ \A v \in Keys : Erase(v) => Members(ss') = Members(ss) \ {v}
     /\ Clear => Members(ss') = {}
     /\ \A count \in Value : Reserve(count) => Members(ss') = Members(ss)]_vars

\* dense and sparse cease to agree with an Erase through an iterator that does not
\* point at the last element, always and only then: Erase(*it) reads its value
\* again from the cell it has overwritten.
IteratorEraseBreaks ==
  [][Coherent(ss) =>
       (~Coherent(ss') <=> \E i \in 0 .. (ss.size - 2) : EraseAt(i))]_vars
=============================================================================
