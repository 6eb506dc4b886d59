--------------------------- MODULE SparseSetProofs ---------------------------
(***************************************************************************)
(* The properties of SparseSetClient, for every width of T and every set   *)
(* of keys.                                                                *)
(***************************************************************************)
EXTENDS SparseSetClient, StorageTheorems

\* For every client, erasing through iterators included, the vectors have the
\* size capacity says and hold values of T.
THEOREM TypeCorrect == Spec => []TypeOK
<1>1. Init => TypeOK
  BY EmptyIsWellFormed DEF Init, TypeOK, WellFormed
<1>2. TypeOK /\ [Next]_vars => TypeOK'
  <2> SUFFICES ASSUME TypeOK, [Next]_vars PROVE TypeOK'
    OBVIOUS
  <2> USE DEF TypeOK
  <2>1. ASSUME NEW v \in Keys, Insert(v) PROVE TypeOK'
    BY <2>1, ShapeKept, KeysAssumption DEF Insert
  <2>2. ASSUME NEW v \in Keys, InsertOverrun(v) PROVE TypeOK'
    BY <2>2 DEF InsertOverrun
  <2>3. ASSUME NEW v \in Keys, Erase(v) PROVE TypeOK'
    BY <2>3, ShapeKept, KeysAssumption DEF Erase
  <2>4. CASE Clear
    BY <2>4, ShapeKept, LimitAssumption DEF Clear, Value
  <2>5. ASSUME NEW count \in Value, Reserve(count) PROVE TypeOK'
    BY <2>5, ShapeKept DEF Reserve
  <2>6. ASSUME NEW i \in Value, EraseAt(i) PROVE TypeOK'
    BY <2>6, ShapeKept DEF EraseAt
  <2>7. CASE UNCHANGED vars
    BY <2>7 DEF vars
  <2>. QED
    BY <2>1, <2>2, <2>3, <2>4, <2>5, <2>6, <2>7 DEF Next, ByValueNext
<1>. QED
  BY <1>1, <1>2, PTL DEF Spec

-----------------------------------------------------------------------------
(***************************************************************************)
(* The client that erases by value.  Its inductive invariant is the shape  *)
(* of the object together with Indexed; that there is room is a conclusion *)
(* about cardinalities (RoomLeft), not a bound the code maintains.         *)
(***************************************************************************)
IInv == TypeOK /\ Indexed

\* The invariant holds at first and every step of the client keeps it.
LEMMA ByValueInductive ==
  /\ Init => IInv
  /\ IInv /\ [ByValueNext]_vars => IInv'
<1>1. Init => IInv
  BY EmptyIsWellFormed DEF Init, IInv, TypeOK, Indexed, WellFormed
<1>2. IInv /\ [ByValueNext]_vars => IInv'
  <2> SUFFICES ASSUME IInv, [ByValueNext]_vars PROVE IInv'
    OBVIOUS
  <2> USE DEF IInv, TypeOK, Indexed
  <2>0. WellFormed(ss)
    BY DEF WellFormed
  <2>1. ASSUME NEW v \in Keys, Insert(v) PROVE IInv'
    BY <2>0, <2>1, InsertExact, KeysAssumption DEF Insert, WellFormed
  <2>2. ASSUME NEW v \in Keys, InsertOverrun(v) PROVE IInv'
    BY <2>2 DEF InsertOverrun
  <2>3. ASSUME NEW v \in Keys, Erase(v) PROVE IInv'
    BY <2>0, <2>3, EraseExact, KeysAssumption DEF Erase, WellFormed
  <2>4. CASE Clear
    BY <2>0, <2>4, ClearExact DEF Clear, WellFormed
  <2>5. ASSUME NEW count \in Value, Reserve(count) PROVE IInv'
    BY <2>0, <2>5, ReserveExact DEF Reserve, WellFormed
  <2>6. CASE UNCHANGED vars
    BY <2>6 DEF vars
  <2>. QED
    BY <2>1, <2>2, <2>3, <2>4, <2>5, <2>6 DEF ByValueNext
<1>. QED
  BY <1>1, <1>2

\* Erasing by value keeps the lookup index and the element list inverse to
\* each other.
THEOREM IndexStays == ByValueSpec => []Indexed
<1>1. IInv => Indexed
  BY DEF IInv
<1>. QED
  BY <1>1, ByValueInductive, PTL DEF ByValueSpec

\* Iteration meets every element Has knows exactly once.
THEOREM IterationIsExact == ByValueSpec => []IterationExact
<1>1. IInv => IterationExact
  BY ListedIsMembers, SizeIsCardinality
     DEF IInv, TypeOK, Indexed, WellFormed, IterationExact
<1>. QED
  BY <1>1, ByValueInductive, PTL DEF ByValueSpec

\* Whatever the client has done, Insert would write within the vectors for
\* every value but the largest of T.
THEOREM NeverOverruns == ByValueSpec => []NoOverrun
<1>1. IInv => NoOverrun
  BY RoomLeft, KeysAssumption DEF IInv, TypeOK, Indexed, WellFormed, NoOverrun
<1>. QED
  BY <1>1, ByValueInductive, PTL DEF ByValueSpec

\* Each call of the by-value client changes the elements as its name says.
THEOREM CallsAreExact == ByValueSpec => CallsExact
<1> DEFINE Exact ==
      /\ \A v \in Keys : Insert(v) => Members(ss') = Members(ss) \cup {v}
      /\ \A v \in Keys : Erase(v) => Members(ss') = Members(ss) \ {v}
      /\ Clear => Members(ss') = {}
      /\ \A count \in Value : Reserve(count) => Members(ss') = Members(ss)
<1>1. IInv => Exact
  <2> SUFFICES ASSUME WellFormed(ss) PROVE Exact
    BY DEF IInv, TypeOK, Indexed, WellFormed
  <2>1. ASSUME NEW v \in Keys, Insert(v) PROVE Members(ss') = Members(ss) \cup {v}
    BY <2>1, InsertExact, KeysAssumption DEF Insert
  <2>2. ASSUME NEW v \in Keys, Erase(v) PROVE Members(ss') = Members(ss) \ {v}
    BY <2>2, EraseExact, KeysAssumption DEF Erase
  <2>3. ASSUME Clear PROVE Members(ss') = {}
    BY <2>3, ClearExact DEF Clear
  <2>4. ASSUME NEW count \in Value, Reserve(count) PROVE Members(ss') = Members(ss)
    BY <2>4, ReserveExact DEF Reserve
  <2>. QED
    BY <2>1, <2>2, <2>3, <2>4
<1>. QED
  BY <1>1, ByValueInductive, PTL DEF ByValueSpec, CallsExact

-----------------------------------------------------------------------------
\* The client that erases through iterators too: an iterator at the last
\* element is as good as a value, so the index breaks at any other place only.
LEMMA EraseAtLastExact ==
  ASSUME NEW s, WellFormed(s), s.size # 0
  PROVE  SparseEraseAt(s, s.size - 1) = SparseErase(s, s.dense[s.size - 1])
<1> DEFINE last == s.dense[s.size - 1]
<1>1. /\ s.capacity \in Nat /\ s.size \in 1 .. s.capacity
      /\ s.size - 1 \in Slots(s)
      /\ s.dense \in [0 .. (s.capacity - 1) -> 0 .. (s.capacity - 1)]
  BY LimitAssumption, WellFormed(s) DEF WellFormed, SparseTypeOK, Slots, Value
<1>2. s.sparse[last] = s.size - 1 /\ [s.dense EXCEPT ![s.size - 1] = last] = s.dense
  BY <1>1, WellFormed(s) DEF WellFormed, Coherent
<1>. QED
  BY <1>2 DEF SparseEraseAt, SparseErase

\* Before the last element the alias shows: the moved element keeps the place the
\* list has just given up.
LEMMA EraseAtOtherBreaks ==
  ASSUME NEW s, WellFormed(s), NEW i \in 0 .. (s.size - 2)
  PROVE  ~Coherent(SparseEraseAt(s, i))
<1> DEFINE last == s.dense[s.size - 1]
           t == SparseEraseAt(s, i)
<1>1. /\ s.capacity \in Nat /\ s.size \in 2 .. s.capacity
      /\ i \in Slots(s) /\ s.size - 1 \in Slots(s) /\ i # s.size - 1
      /\ i \in 0 .. (s.capacity - 1)
      /\ s.dense \in [0 .. (s.capacity - 1) -> 0 .. (s.capacity - 1)]
      /\ s.sparse \in [0 .. (s.capacity - 1) -> 0 .. (s.capacity - 1)]
  BY LimitAssumption, WellFormed(s) DEF WellFormed, SparseTypeOK, Slots, Value
<1>2. s.sparse[s.dense[i]] = i /\ s.sparse[last] = s.size - 1
  BY <1>1, WellFormed(s) DEF WellFormed, Coherent
<1>3. last \in 0 .. (s.capacity - 1)
  BY <1>1 DEF Slots
<1>4. SparseHas(s, s.dense[i])
  BY <1>1, <1>2, SMTT(30) DEF SparseHas, Slots
<1> DEFINE dense == [s.dense EXCEPT ![i] = last]
<1>5. t = [dense |-> dense, sparse |-> [s.sparse EXCEPT ![last] = s.sparse[dense[i]]],
           size |-> s.size - 1, capacity |-> s.capacity]
  BY <1>2, <1>4 DEF SparseEraseAt
<1>6. dense[i] = last /\ s.sparse[dense[i]] = s.size - 1
  BY <1>1, <1>2
<1> HIDE DEF dense, t
<1>7. t.dense[i] = last /\ t.sparse[last] = s.size - 1 /\ t.size = s.size - 1
  BY <1>1, <1>3, <1>5, <1>6
<1>8. i \in Slots(t)
  BY <1>1, <1>7 DEF Slots
<1>9. ~Coherent(t)
  BY <1>1, <1>7, <1>8 DEF Coherent
<1>. QED
  BY <1>9 DEF t

\* Spec admits erasures through iterators, and the index breaks with those before the
\* last element, always and only with them.
THEOREM OnlyIteratorErase == Spec => IteratorEraseBreaks
<1>1. ASSUME TypeOK, [Next]_vars, Coherent(ss), ~Coherent(ss')
      PROVE  \E i \in 0 .. (ss.size - 2) : EraseAt(i)
  <2>0. WellFormed(ss)
    BY <1>1 DEF TypeOK, WellFormed
  <2>1. ASSUME NEW v \in Keys, Insert(v) PROVE FALSE
    BY <1>1, <2>0, <2>1, InsertExact, KeysAssumption DEF Insert, WellFormed
  <2>2. ASSUME NEW v \in Keys, InsertOverrun(v) PROVE FALSE
    BY <1>1, <2>2 DEF InsertOverrun
  <2>3. ASSUME NEW v \in Keys, Erase(v) PROVE FALSE
    BY <1>1, <2>0, <2>3, EraseExact, KeysAssumption DEF Erase, WellFormed
  <2>4. ASSUME Clear PROVE FALSE
    BY <1>1, <2>0, <2>4, ClearExact DEF Clear, WellFormed
  <2>5. ASSUME NEW count \in Value, Reserve(count) PROVE FALSE
    BY <1>1, <2>0, <2>5, ReserveExact DEF Reserve, WellFormed
  <2>6. ASSUME UNCHANGED vars PROVE FALSE
    BY <1>1, <2>6 DEF vars
  <2>7. ASSUME NEW i \in Value, EraseAt(i) PROVE i \in 0 .. (ss.size - 2)
    <3>1. /\ ss.capacity \in Nat /\ ss.size \in 1 .. ss.capacity
          /\ i \in 0 .. (ss.size - 1)
          /\ ss.size - 1 \in 0 .. (ss.capacity - 1)
          /\ ss.dense[ss.size - 1] \in Value
      BY <2>0, <2>7, LimitAssumption
         DEF EraseAt, WellFormed, SparseTypeOK, Slots, Value
    <3>2. WellFormed(SparseErase(ss, ss.dense[ss.size - 1]))
      BY <2>0, <3>1, EraseExact
    <3>3. SparseEraseAt(ss, ss.size - 1) = SparseErase(ss, ss.dense[ss.size - 1])
      BY <2>0, <3>1, EraseAtLastExact
    <3>4. i # ss.size - 1
      BY <1>1, <2>7, <3>2, <3>3 DEF EraseAt, WellFormed
    <3>. QED
      BY <3>1, <3>4
  <2>. QED
    BY <1>1, <2>1, <2>2, <2>3, <2>4, <2>5, <2>6, <2>7 DEF Next, ByValueNext
<1>2. ASSUME TypeOK, Coherent(ss), NEW i \in 0 .. (ss.size - 2), EraseAt(i)
      PROVE  ~Coherent(ss')
  BY <1>2, EraseAtOtherBreaks DEF TypeOK, WellFormed, EraseAt
<1>3. TypeOK /\ [Next]_vars
        => (Coherent(ss) =>
              (~Coherent(ss') <=> \E i \in 0 .. (ss.size - 2) : EraseAt(i)))
  BY <1>1, <1>2
<1>. QED
  BY <1>3, TypeCorrect, PTL DEF Spec, IteratorEraseBreaks
=============================================================================
