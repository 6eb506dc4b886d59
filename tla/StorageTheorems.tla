--------------------------- MODULE StorageTheorems ---------------------------
(***************************************************************************)
(* What each member function of SparseSet and Pool does to the elements of *)
(* a coherent object, for every width of T and every object.               *)
(***************************************************************************)
EXTENDS Pool, FiniteSetTheorems, SequenceTheorems, TLAPS

WellFormed(s) == SparseTypeOK(s) /\ Coherent(s)

\* The empty object is coherent and has no element.
LEMMA EmptyIsWellFormed ==
  WellFormed(EmptySparse) /\ Members(EmptySparse) = {}
BY LimitAssumption
   DEF WellFormed, SparseTypeOK, Coherent, EmptySparse, Members, Slots, Value

\* On a coherent object iteration visits exactly the elements Has knows.
LEMMA ListedIsMembers ==
  ASSUME NEW s, WellFormed(s)
  PROVE  Listed(s) = Members(s)
<1>1. ASSUME NEW i \in Slots(s) PROVE s.dense[i] \in Members(s)
  BY LimitAssumption, WellFormed(s)
     DEF WellFormed, SparseTypeOK, Coherent, Members, SparseHas, Slots, Value
<1>2. ASSUME NEW v \in Members(s) PROVE s.sparse[v] \in Slots(s) /\ v = s.dense[s.sparse[v]]
  BY LimitAssumption, WellFormed(s)
     DEF WellFormed, SparseTypeOK, Members, SparseHas, Slots, Value
<1>. QED
  BY <1>1, <1>2 DEF Listed

\* Reserve changes the storage and no element.
LEMMA ReserveExact ==
  ASSUME NEW s, WellFormed(s), NEW count \in Value
  PROVE  /\ WellFormed(SparseReserve(s, count))
         /\ Members(SparseReserve(s, count)) = Members(s)
         /\ SparseReserve(s, count).size = s.size
         /\ SparseReserve(s, count).capacity
              = IF count > s.capacity THEN count ELSE s.capacity
<1>1. CASE count <= s.capacity
  BY <1>1, LimitAssumption, WellFormed(s)
     DEF SparseReserve, WellFormed, SparseTypeOK, Value
<1>2. CASE count > s.capacity
  <2> DEFINE r == SparseReserve(s, count)
  <2>1. r = [dense |-> Resize(s.dense, count), sparse |-> Resize(s.sparse, count),
             size |-> s.size, capacity |-> count]
    BY <1>2 DEF SparseReserve
  <2>2. /\ s.capacity \in Nat /\ count \in Nat /\ s.size \in 0 .. s.capacity
        /\ DOMAIN s.dense = 0 .. (s.capacity - 1)
        /\ DOMAIN s.sparse = 0 .. (s.capacity - 1)
    BY LimitAssumption, WellFormed(s) DEF WellFormed, SparseTypeOK, Value
  <2>3. /\ r.dense = [i \in 0 .. (count - 1) |->
                        IF i \in 0 .. (s.capacity - 1) THEN s.dense[i] ELSE 0]
        /\ r.sparse = [i \in 0 .. (count - 1) |->
                        IF i \in 0 .. (s.capacity - 1) THEN s.sparse[i] ELSE 0]
        /\ r.size = s.size /\ r.capacity = count
    BY <2>1, <2>2 DEF Resize
  <2> HIDE DEF r
  <2>4. SparseTypeOK(r)
    <3>1. r = [dense |-> r.dense, sparse |-> r.sparse,
               size |-> r.size, capacity |-> r.capacity]
      BY <2>1
    <3>2. r.capacity \in Value /\ r.size \in 0 .. r.capacity
      BY <1>2, <2>2, <2>3
    <3>3. /\ r.dense \in [0 .. (count - 1) -> 0 .. (count - 1)]
          /\ r.sparse \in [0 .. (count - 1) -> 0 .. (count - 1)]
      BY <1>2, <2>2, <2>3, WellFormed(s) DEF WellFormed, SparseTypeOK
    <3>. QED
      BY <2>3, <3>1, <3>2, <3>3 DEF SparseTypeOK
  <2>5. Coherent(r)
    BY <1>2, <2>2, <2>3, WellFormed(s)
       DEF WellFormed, SparseTypeOK, Coherent, Slots
  <2>6. ASSUME NEW v \in 0 .. (count - 1)
        PROVE  SparseHas(r, v) <=> v \in 0 .. (s.capacity - 1) /\ SparseHas(s, v)
    BY <1>2, <2>2, <2>3, WellFormed(s), ListedIsMembers
       DEF WellFormed, SparseTypeOK, Coherent, SparseHas, Slots
  <2>7. Members(r) = Members(s)
    BY <1>2, <2>2, <2>3, <2>6 DEF Members
  <2>. QED
    BY <1>2, <2>3, <2>4, <2>5, <2>7 DEF WellFormed, r
<1>. QED
  BY <1>1, <1>2, LimitAssumption, WellFormed(s) DEF WellFormed, SparseTypeOK, Value

\* Erase(val) by value removes val and nothing else: the element that moves
\* into the freed slot is still found.
LEMMA EraseExact ==
  ASSUME NEW s, WellFormed(s), NEW v \in Value
  PROVE  /\ WellFormed(SparseErase(s, v))
         /\ Members(SparseErase(s, v)) = Members(s) \ {v}
         /\ SparseErase(s, v).capacity = s.capacity
         /\ SparseErase(s, v).size
              = IF SparseHas(s, v) THEN s.size - 1 ELSE s.size
<1>1. CASE ~SparseHas(s, v)
  BY <1>1, WellFormed(s) DEF SparseErase, Members
<1>2. CASE SparseHas(s, v)
  <2> DEFINE slot == s.sparse[v]
             last == s.dense[s.size - 1]
             e == SparseErase(s, v)
  <2>1. e = [dense |-> [s.dense EXCEPT ![slot] = last],
             sparse |-> [s.sparse EXCEPT ![last] = slot],
             size |-> s.size - 1, capacity |-> s.capacity]
    BY <1>2 DEF SparseErase
  <2>2. /\ s.capacity \in Nat /\ s.size \in 1 .. s.capacity
        /\ v \in 0 .. (s.capacity - 1)
        /\ slot \in Slots(s) /\ s.dense[slot] = v
        /\ last \in 0 .. (s.capacity - 1)
        /\ s.dense \in [0 .. (s.capacity - 1) -> 0 .. (s.capacity - 1)]
        /\ s.sparse \in [0 .. (s.capacity - 1) -> 0 .. (s.capacity - 1)]
    BY <1>2, LimitAssumption, WellFormed(s)
       DEF WellFormed, SparseTypeOK, SparseHas, Slots, Value
  <2>3. s.size - 1 \in Slots(s) /\ s.sparse[last] = s.size - 1
    <3>1. s.size - 1 \in Slots(s)
      BY <2>2 DEF Slots
    <3>. QED
      BY <3>1, WellFormed(s) DEF WellFormed, Coherent
  <2>4. /\ e.size = s.size - 1 /\ e.capacity = s.capacity
        /\ e.dense = [s.dense EXCEPT ![slot] = last]
        /\ e.sparse = [s.sparse EXCEPT ![last] = slot]
        /\ e = [dense |-> e.dense, sparse |-> e.sparse,
                size |-> e.size, capacity |-> e.capacity]
    BY <2>1
  <2> HIDE DEF slot, last, e
  <2>5. SparseTypeOK(e)
    BY <2>2, <2>4, WellFormed(s) DEF WellFormed, SparseTypeOK, Slots
  <2>6. Coherent(e)
    <3> SUFFICES ASSUME NEW i \in Slots(e) PROVE e.sparse[e.dense[i]] = i
      BY DEF Coherent
    <3>1. CASE i = slot
      BY <2>2, <2>4, <3>1 DEF Slots
    <3>2. CASE i # slot
      <4>1. e.dense[i] = s.dense[i] /\ s.sparse[s.dense[i]] = i /\ i # s.size - 1
        BY <2>2, <2>4, <3>2, WellFormed(s) DEF WellFormed, Coherent, Slots
      <4>. QED
        BY <2>2, <2>3, <2>4, <4>1 DEF Slots
    <3>. QED
      BY <3>1, <3>2
  <2>7. ASSUME NEW w \in 0 .. (s.capacity - 1)
        PROVE  SparseHas(e, w) <=> SparseHas(s, w) /\ w # v
    <3>1. CASE w = v
      <4>1. CASE v = last
        <5>1. slot = s.size - 1 /\ e.sparse[w] = slot
          BY <2>2, <2>3, <2>4, <3>1, <4>1 DEF slot
        <5>. QED
          BY <2>2, <2>4, <3>1, <5>1 DEF SparseHas
      <4>2. CASE v # last
        <5>1. e.sparse[w] = slot /\ e.dense[slot] # w
          BY <2>2, <2>4, <3>1, <4>2 DEF slot, Slots
        <5>. QED
          BY <3>1, <5>1 DEF SparseHas
      <4>. QED
        BY <4>1, <4>2
    <3>2. CASE w = last /\ w # v
      BY <2>2, <2>3, <2>4, <3>2, WellFormed(s)
         DEF WellFormed, SparseTypeOK, SparseHas, Slots, last
    <3>3. CASE w # last /\ w # v
      BY <2>2, <2>3, <2>4, <3>3, WellFormed(s)
         DEF WellFormed, SparseTypeOK, SparseHas, Slots, last
    <3>. QED
      BY <3>1, <3>2, <3>3
  <2>8. Members(e) = Members(s) \ {v}
    BY <2>4, <2>7 DEF Members
  <2>. QED
    BY <1>2, <2>4, <2>5, <2>6, <2>8 DEF WellFormed, e
<1>. QED
  BY <1>1, <1>2

\* Clear leaves no element although the vectors keep their cells.
LEMMA ClearExact ==
  ASSUME NEW s, WellFormed(s)
  PROVE  WellFormed(SparseClear(s)) /\ Members(SparseClear(s)) = {}
<1>1. /\ SparseClear(s) = [dense |-> s.dense, sparse |-> s.sparse,
                           size |-> 0, capacity |-> s.capacity]
      /\ s.capacity \in Nat
      /\ s.sparse \in [0 .. (s.capacity - 1) -> 0 .. (s.capacity - 1)]
  BY LimitAssumption, WellFormed(s) DEF SparseClear, WellFormed, SparseTypeOK, Value
<1>2. WellFormed(SparseClear(s))
  BY <1>1, WellFormed(s) DEF WellFormed, SparseTypeOK, Coherent, Slots
<1>3. \A v \in 0 .. (s.capacity - 1) : ~SparseHas(SparseClear(s), v)
  BY <1>1 DEF SparseHas
<1>. QED
  BY <1>1, <1>2, <1>3 DEF Members

\* Iteration lists each element once: size is the number of elements.
LEMMA SizeIsCardinality ==
  ASSUME NEW s, WellFormed(s)
  PROVE  IsFiniteSet(Members(s)) /\ Cardinality(Members(s)) = s.size
<1> DEFINE nth == [i \in Slots(s) |-> s.dense[i]]
<1>1. s.size \in Nat
  BY LimitAssumption, WellFormed(s) DEF WellFormed, SparseTypeOK, Value
<1>2. nth \in [Slots(s) -> Members(s)]
  BY ListedIsMembers, WellFormed(s) DEF Listed
<1>3. IsInjective(nth)
  BY WellFormed(s) DEF WellFormed, Coherent, IsInjective
<1>4. \A v \in Members(s) : \E i \in Slots(s) : nth[i] = v
  BY ListedIsMembers, WellFormed(s) DEF Listed
<1>5. ExistsBijection(Slots(s), Members(s))
  <2>1. nth \in Bijection(Slots(s), Members(s))
    BY <1>2, <1>3, <1>4 DEF Bijection, Injection, Surjection
  <2>. QED
    BY <2>1 DEF ExistsBijection
<1>6. IsFiniteSet(Slots(s)) /\ Cardinality(Slots(s)) = s.size
  <2>1. 0 \in Int /\ s.size - 1 \in Int
        /\ (IF 0 > s.size - 1 THEN 0 ELSE s.size - 1 - 0 + 1) = s.size
    BY <1>1
  <2>. QED
    BY <2>1, FS_Interval DEF Slots
<1>. QED
  BY <1>5, <1>6, FS_Bijection

\* Making room for a value changes no element.
LEMMA RoomForExact ==
  ASSUME NEW s, WellFormed(s), NEW v \in Value
  PROVE  /\ WellFormed(RoomFor(s, v))
         /\ Members(RoomFor(s, v)) = Members(s)
         /\ RoomFor(s, v).size = s.size
         /\ RoomFor(s, v).capacity
              = IF v >= s.capacity /\ v # Limit - 1 THEN v + 1 ELSE s.capacity
<1>1. /\ Limit \in Nat /\ Limit > 0 /\ v \in 0 .. (Limit - 1)
      /\ s.capacity \in Nat
  BY LimitAssumption, WellFormed(s) DEF WellFormed, SparseTypeOK, Value
<1>2. (v + 1) % Limit = IF v = Limit - 1 THEN 0 ELSE v + 1
  BY <1>1
<1>3. (v + 1) % Limit \in Value
  BY <1>1, <1>2 DEF Value
<1>. QED
  BY <1>1, <1>2, <1>3, ReserveExact, WellFormed(s) DEF RoomFor

\* A coherent object always has room for one more value, unless the value is
\* the largest of T: it has fewer elements than its vectors have cells.
LEMMA RoomLeft ==
  ASSUME NEW s, WellFormed(s), NEW v \in Value, v # Limit - 1
  PROVE  ~InsertOverruns(s, v)
<1>1. /\ s.capacity \in Nat /\ s.size \in 0 .. s.capacity /\ v \in Nat
      /\ Members(s) \subseteq 0 .. (s.capacity - 1)
  BY LimitAssumption, WellFormed(s) DEF WellFormed, SparseTypeOK, Value, Members
<1>2. CASE v >= s.capacity
  BY <1>1, <1>2, RoomForExact, WellFormed(s) DEF InsertOverruns
<1>3. CASE v < s.capacity
  <2> SUFFICES ASSUME ~SparseHas(s, v), s.size = s.capacity PROVE FALSE
    BY <1>1, <1>3 DEF InsertOverruns, RoomFor
  <2>1. IsFiniteSet(0 .. (s.capacity - 1))
        /\ Cardinality(0 .. (s.capacity - 1)) = s.capacity
    <3>1. 0 \in Int /\ s.capacity - 1 \in Int
          /\ (IF 0 > s.capacity - 1 THEN 0 ELSE s.capacity - 1 - 0 + 1) = s.capacity
      BY <1>1
    <3>. QED
      BY <3>1, FS_Interval
  <2>2. Members(s) = 0 .. (s.capacity - 1)
    BY <1>1, <2>1, SizeIsCardinality, FS_Subset, WellFormed(s)
  <2>. QED
    BY <1>1, <1>3, <2>2 DEF Members
<1>. QED
  BY <1>1, <1>2, <1>3

\* Insert, when it stays in bounds, adds its value and nothing else.
LEMMA InsertExact ==
  ASSUME NEW s, WellFormed(s), NEW v \in Value, ~InsertOverruns(s, v)
  PROVE  /\ WellFormed(SparseInsert(s, v))
         /\ Members(SparseInsert(s, v)) = Members(s) \cup {v}
         /\ SparseInsert(s, v).size
              = IF SparseHas(s, v) THEN s.size ELSE s.size + 1
<1>1. CASE SparseHas(s, v)
  BY <1>1, LimitAssumption, WellFormed(s)
     DEF SparseInsert, Members, SparseHas, Value, WellFormed, SparseTypeOK
<1>2. CASE ~SparseHas(s, v)
  <2> DEFINE r == RoomFor(s, v)
             n == SparseInsert(s, v)
  <2>1. WellFormed(r) /\ Members(r) = Members(s) /\ r.size = s.size
    BY RoomForExact, WellFormed(s)
  <2>2. /\ n.dense = [r.dense EXCEPT ![r.size] = v]
        /\ n.sparse = [r.sparse EXCEPT ![v] = r.size]
        /\ n.size = r.size + 1 /\ n.capacity = r.capacity
        /\ n = [dense |-> n.dense, sparse |-> n.sparse,
                size |-> n.size, capacity |-> n.capacity]
    BY <1>2 DEF SparseInsert
  <2>3. /\ r.capacity \in Nat /\ r.size \in 0 .. (r.capacity - 1)
        /\ v \in 0 .. (r.capacity - 1)
        /\ r.dense \in [0 .. (r.capacity - 1) -> 0 .. (r.capacity - 1)]
        /\ r.sparse \in [0 .. (r.capacity - 1) -> 0 .. (r.capacity - 1)]
    BY <1>2, <2>1, LimitAssumption, ~InsertOverruns(s, v)
       DEF InsertOverruns, WellFormed, SparseTypeOK, Value
  <2>4. v \notin Members(r)
    BY <1>2, <2>1 DEF Members
  <2> HIDE DEF r, n
  <2>5. SparseTypeOK(n)
    BY <2>1, <2>2, <2>3 DEF WellFormed, SparseTypeOK
  <2>6. \A i \in Slots(r) : r.dense[i] # v /\ r.sparse[r.dense[i]] = i
    BY <2>1, <2>4, ListedIsMembers DEF Listed, WellFormed, Coherent
  <2>7. Coherent(n)
    BY <2>2, <2>3, <2>6 DEF Coherent, Slots
  <2>8. Listed(n) = Listed(r) \cup {v}
    <3>1. Slots(n) = Slots(r) \cup {r.size} /\ r.size \notin Slots(r)
      BY <2>2, <2>3, SMTT(30) DEF Slots
    <3>2. n.dense[r.size] = v /\ \A i \in Slots(r) : n.dense[i] = r.dense[i]
      BY <2>2, <2>3 DEF Slots
    <3>. QED
      BY <3>1, <3>2 DEF Listed
  <2>9. Members(n) = Members(s) \cup {v}
    BY <2>1, <2>5, <2>7, <2>8, ListedIsMembers DEF WellFormed
  <2>. QED
    BY <1>2, <2>1, <2>2, <2>5, <2>7, <2>9 DEF WellFormed, n
<1>. QED
  BY <1>1, <1>2

-----------------------------------------------------------------------------
(***************************************************************************)
(* Where the elements are.  A Pool keeps the component of an entity at the *)
(* place of the entity, so it matters which calls move elements.           *)
(***************************************************************************)

\* The places of the elements are the numbers below size, each used once.
LEMMA PlacesAreSlots ==
  ASSUME NEW s, WellFormed(s), NEW v \in Members(s)
  PROVE  /\ s.sparse[v] \in Slots(s)
         /\ s.dense[s.sparse[v]] = v
         /\ \A w \in Members(s) : s.sparse[w] = s.sparse[v] => w = v
<1>1. \A w \in Members(s) : s.sparse[w] \in Slots(s) /\ s.dense[s.sparse[w]] = w
  BY LimitAssumption, WellFormed(s)
     DEF WellFormed, SparseTypeOK, Members, SparseHas, Slots, Value
<1>. QED
  BY <1>1

\* Insert puts a new element at the end and moves no other.
LEMMA InsertPlaces ==
  ASSUME NEW s, WellFormed(s), NEW v \in Value, ~InsertOverruns(s, v),
         ~SparseHas(s, v)
  PROVE  /\ SparseInsert(s, v).sparse[v] = s.size
         /\ \A w \in Members(s) : SparseInsert(s, v).sparse[w] = s.sparse[w]
<1> DEFINE r == RoomFor(s, v)
<1>1. /\ WellFormed(r) /\ Members(r) = Members(s) /\ r.size = s.size
      /\ v < r.capacity
  <2>1. WellFormed(r) /\ Members(r) = Members(s) /\ r.size = s.size
    BY RoomForExact, WellFormed(s)
  <2>2. r.capacity \in Nat /\ v \in Nat
    BY <2>1, LimitAssumption DEF WellFormed, SparseTypeOK, Value
  <2>3. ~(v >= r.capacity)
    BY ~InsertOverruns(s, v), ~SparseHas(s, v) DEF InsertOverruns
  <2> HIDE DEF r
  <2>. QED
    BY <2>1, <2>2, <2>3
<1>2. SparseInsert(s, v).sparse = [r.sparse EXCEPT ![v] = r.size]
  BY ~SparseHas(s, v) DEF SparseInsert
<1>3. v \in 0 .. (r.capacity - 1) /\ DOMAIN r.sparse = 0 .. (r.capacity - 1)
  BY <1>1, LimitAssumption DEF WellFormed, SparseTypeOK, Value
<1>4. \A w \in Members(s) : w # v /\ w \in 0 .. (r.capacity - 1)
  BY <1>1, ~SparseHas(s, v) DEF Members
<1>5. \A w \in Members(s) : r.sparse[w] = s.sparse[w]
  <2>1. CASE r = s
    BY <2>1
  <2>2. CASE r # s
    <3>1. /\ r = SparseReserve(s, (v + 1) % Limit)
          /\ r.sparse = Resize(s.sparse, (v + 1) % Limit)
          /\ r.capacity = (v + 1) % Limit
      BY <2>2 DEF RoomFor, SparseReserve
    <3>2. \A w \in Members(s) : w \in DOMAIN s.sparse
      BY WellFormed(s) DEF WellFormed, SparseTypeOK, Members
    <3> HIDE DEF r
    <3>. QED
      BY <1>4, <3>1, <3>2 DEF Resize
  <2>. QED
    BY <2>1, <2>2
<1> HIDE DEF r
<1>. QED
  BY <1>1, <1>2, <1>3, <1>4, <1>5

\* Erase moves the last element to the place of the erased one, and no other.
LEMMA ErasePlaces ==
  ASSUME NEW s, WellFormed(s), NEW v \in Members(s),
         NEW w \in Members(s), w # v
  PROVE  SparseErase(s, v).sparse[w]
           = IF s.sparse[w] = s.size - 1 THEN s.sparse[v] ELSE s.sparse[w]
<1> DEFINE last == s.dense[s.size - 1]
<1>1. SparseErase(s, v).sparse = [s.sparse EXCEPT ![last] = s.sparse[v]]
  BY DEF SparseErase, Members
<1>2. w \in DOMAIN s.sparse
  BY WellFormed(s) DEF WellFormed, SparseTypeOK, Members
<1>3. w = last <=> s.sparse[w] = s.size - 1
  <2>1. s.sparse[v] \in Slots(s) /\ s.dense[s.sparse[w]] = w
    BY PlacesAreSlots, WellFormed(s)
  <2>2. s.size - 1 \in Slots(s)
    BY <2>1, LimitAssumption, WellFormed(s)
       DEF WellFormed, SparseTypeOK, Slots, Value
  <2>. QED
    BY <2>1, <2>2, WellFormed(s) DEF WellFormed, Coherent
<1> HIDE DEF last
<1>. QED
  BY <1>1, <1>2, <1>3

-----------------------------------------------------------------------------
(***************************************************************************)
(* The member functions of Pool.                                           *)
(***************************************************************************)

\* The place of an owner is a component that exists.
LEMMA OwnerPlace ==
  ASSUME NEW S, NEW p, PoolWellFormed(p), p.components \in Seq(S),
         NEW et \in Owners(p)
  PROVE  /\ Place(p, et) \in 1 .. p.set.size
         /\ Place(p, et) \in 1 .. Len(p.components)
         /\ PoolGet(p, et) \in S
<1>1. /\ WellFormed(p.set) /\ p.set.size \in Nat
      /\ p.set.size <= Len(p.components) /\ Len(p.components) \in Nat
  BY LimitAssumption, PoolWellFormed(p), p.components \in Seq(S)
     DEF PoolWellFormed, WellFormed, SparseTypeOK, Value
<1>2. p.set.sparse[et] \in 0 .. (p.set.size - 1)
  BY <1>1, PlacesAreSlots DEF Owners, Slots
<1>. QED
  BY <1>1, <1>2, p.components \in Seq(S), SMTT(30) DEF Place, PoolGet

\* Two owners never share a component.
LEMMA OwnersApart ==
  ASSUME NEW p, PoolWellFormed(p), NEW v \in Owners(p), NEW w \in Owners(p),
         Place(p, v) = Place(p, w)
  PROVE  v = w
<1>1. p.set.sparse[v] \in Slots(p.set) /\ p.set.sparse[w] \in Slots(p.set)
  BY PlacesAreSlots, PoolWellFormed(p) DEF PoolWellFormed, WellFormed, Owners
<1>2. p.set.sparse[v] = p.set.sparse[w]
  <2>1. p.set.sparse[v] \in Int /\ p.set.sparse[w] \in Int
    BY <1>1 DEF Slots
  <2>. QED
    BY <2>1, Place(p, v) = Place(p, w) DEF Place
<1>. QED
  BY <1>2, PlacesAreSlots, PoolWellFormed(p) DEF PoolWellFormed, WellFormed, Owners

\* Assign adds an owner and disturbs nobody's component; the new owner gets
\* the new component if _components holds no component without an owner.
LEMMA PoolAssignExact ==
  ASSUME NEW S, NEW p, PoolWellFormed(p), p.components \in Seq(S),
         NEW et \in Value, NEW c \in S, ~PoolAssignOverruns(p, et)
  PROVE  LET q == PoolAssign(p, et, c)
         IN  /\ PoolWellFormed(q) /\ q.components \in Seq(S)
             /\ Owners(q) = Owners(p) \cup {et}
             /\ Len(q.components) = Len(p.components) + 1
             /\ q.set.size = IF PoolHas(p, et) THEN p.set.size ELSE p.set.size + 1
             /\ \A w \in Owners(p) : PoolGet(q, w) = PoolGet(p, w)
             /\ ~PoolHas(p, et) /\ p.set.size = Len(p.components)
                  => PoolGet(q, et) = c
<1> DEFINE q == PoolAssign(p, et, c)
<1>1. /\ WellFormed(p.set) /\ ~InsertOverruns(p.set, et)
      /\ p.set.size \in Nat /\ p.set.size <= Len(p.components)
      /\ Len(p.components) \in Nat
  BY LimitAssumption, PoolWellFormed(p), p.components \in Seq(S),
     ~PoolAssignOverruns(p, et)
     DEF PoolWellFormed, WellFormed, SparseTypeOK, Value, PoolAssignOverruns
<1>2. /\ q.set = SparseInsert(p.set, et)
      /\ q.components = Append(p.components, c)
      /\ q = [set |-> q.set, components |-> q.components]
  BY DEF PoolAssign
<1>3. /\ q.components \in Seq(S) /\ Len(q.components) = Len(p.components) + 1
      /\ \A i \in 1 .. Len(p.components) : q.components[i] = p.components[i]
      /\ q.components[Len(p.components) + 1] = c
  BY <1>2, AppendProperties, p.components \in Seq(S)
<1> HIDE DEF q
<1>4. /\ WellFormed(q.set) /\ Members(q.set) = Members(p.set) \cup {et}
      /\ q.set.size = IF PoolHas(p, et) THEN p.set.size ELSE p.set.size + 1
  BY <1>1, <1>2, InsertExact DEF PoolHas
<1>5. PoolWellFormed(q)
  BY <1>1, <1>2, <1>3, <1>4 DEF PoolWellFormed, WellFormed
<1>6. ASSUME NEW w \in Owners(p) PROVE PoolGet(q, w) = PoolGet(p, w)
  <2>1. q.set.sparse[w] = p.set.sparse[w]
    <3>1. CASE PoolHas(p, et)
      BY <1>2, <3>1 DEF SparseInsert, PoolHas
    <3>2. CASE ~PoolHas(p, et)
      BY <1>1, <1>2, <3>2, InsertPlaces DEF PoolHas, Owners
    <3>. QED
      BY <3>1, <3>2
  <2>2. Place(p, w) \in 1 .. Len(p.components)
    BY OwnerPlace, PoolWellFormed(p), p.components \in Seq(S)
  <2>. QED
    BY <1>3, <2>1, <2>2 DEF PoolGet, Place
<1>7. ASSUME ~PoolHas(p, et), p.set.size = Len(p.components)
      PROVE  PoolGet(q, et) = c
  BY <1>1, <1>2, <1>3, <1>7, InsertPlaces DEF PoolHas, PoolGet, Place
<1>. QED
  BY <1>3, <1>4, <1>5, <1>6, <1>7 DEF q, Owners

\* Replace of an owner's component touches no other component.
LEMMA PoolReplaceExact ==
  ASSUME NEW S, NEW p, PoolWellFormed(p), p.components \in Seq(S),
         NEW et \in Owners(p), NEW c \in S
  PROVE  LET q == PoolReplace(p, et, c)
         IN  /\ PoolWellFormed(q) /\ q.components \in Seq(S)
             /\ q.set = p.set
             /\ Len(q.components) = Len(p.components)
             /\ \A w \in Owners(p) :
                  PoolGet(q, w) = IF w = et THEN c ELSE PoolGet(p, w)
<1> DEFINE q == PoolReplace(p, et, c)
<1>1. Place(p, et) \in 1 .. Len(p.components)
  BY OwnerPlace, PoolWellFormed(p), p.components \in Seq(S)
<1>2. /\ q.set = p.set
      /\ q.components = [p.components EXCEPT ![Place(p, et)] = c]
      /\ q = [set |-> q.set, components |-> q.components]
  BY PoolWellFormed(p) DEF PoolReplace, PoolWellFormed
<1>3. /\ q.components \in Seq(S) /\ Len(q.components) = Len(p.components)
      /\ \A i \in 1 .. Len(p.components) :
           q.components[i] = IF i = Place(p, et) THEN c ELSE p.components[i]
  BY <1>1, <1>2, ExceptSeq, p.components \in Seq(S)
<1> HIDE DEF q
<1>4. ASSUME NEW w \in Owners(p)
      PROVE  PoolGet(q, w) = IF w = et THEN c ELSE PoolGet(p, w)
  <2>1. Place(p, w) \in 1 .. Len(p.components) /\ Place(q, w) = Place(p, w)
    BY <1>2, OwnerPlace, PoolWellFormed(p), p.components \in Seq(S) DEF Place
  <2>2. Place(p, w) = Place(p, et) => w = et
    BY OwnersApart, PoolWellFormed(p)
  <2>. QED
    BY <1>3, <2>1, <2>2 DEF PoolGet
<1>5. PoolWellFormed(q)
  BY <1>2, <1>3, PoolWellFormed(p) DEF PoolWellFormed
<1>. QED
  BY <1>2, <1>3, <1>4, <1>5 DEF q

\* Delete removes the owner; the others keep their components if the place of
\* the deleted one was the last.
LEMMA PoolDeleteExact ==
  ASSUME NEW p, PoolWellFormed(p), NEW et \in Value
  PROVE  LET q == PoolDelete(p, et)
         IN  /\ Owners(q) = Owners(p) \ {et}
             /\ q.components = p.components
             /\ (\E S : p.components \in Seq(S)) => PoolWellFormed(q)
             /\ et \in Owners(p) /\ Place(p, et) = p.set.size
                  => \A w \in Owners(q) : PoolGet(q, w) = PoolGet(p, w)
<1> DEFINE q == PoolDelete(p, et)
<1>1. /\ WellFormed(p.set) /\ p.set.size \in Nat
      /\ p.set.size <= Len(p.components)
  BY LimitAssumption, PoolWellFormed(p)
     DEF PoolWellFormed, WellFormed, SparseTypeOK, Value
<1>2. /\ q.set = SparseErase(p.set, et) /\ q.components = p.components
      /\ q = [set |-> q.set, components |-> q.components]
  BY PoolWellFormed(p) DEF PoolDelete, PoolWellFormed
<1> HIDE DEF q
<1>3. /\ WellFormed(q.set) /\ Members(q.set) = Members(p.set) \ {et}
      /\ q.set.size = IF SparseHas(p.set, et) THEN p.set.size - 1 ELSE p.set.size
  BY <1>1, <1>2, EraseExact
<1>4. ASSUME \E S : p.components \in Seq(S) PROVE PoolWellFormed(q)
  <2>1. Len(p.components) \in Nat
    BY <1>4
  <2>. QED
    BY <1>1, <1>2, <1>3, <2>1 DEF PoolWellFormed, WellFormed
<1>5. ASSUME et \in Owners(p), Place(p, et) = p.set.size, NEW w \in Owners(q)
      PROVE  PoolGet(q, w) = PoolGet(p, w)
  <2>1. w \in Members(p.set) /\ w # et /\ et \in Members(p.set)
    BY <1>3, <1>5 DEF Owners
  <2>2. p.set.sparse[et] \in Nat /\ p.set.sparse[w] \in Nat
    BY <1>1, <2>1, PlacesAreSlots DEF Slots
  <2>3. p.set.sparse[et] = p.set.size - 1 /\ p.set.sparse[w] # p.set.sparse[et]
    BY <1>1, <1>5, <2>1, <2>2, PlacesAreSlots DEF Place
  <2>4. q.set.sparse[w] = p.set.sparse[w]
    BY <1>1, <1>2, <2>1, <2>3, ErasePlaces
  <2>. QED
    BY <1>2, <2>4 DEF PoolGet, Place
<1>. QED
  BY <1>2, <1>3, <1>4, <1>5 DEF q, Owners

\* Reset leaves no owner and no component.
LEMMA PoolResetExact ==
  ASSUME NEW p, PoolWellFormed(p)
  PROVE  LET q == PoolReset(p)
         IN  /\ PoolWellFormed(q)
             /\ Owners(q) = {}
             /\ q.components = <<>>
             /\ q.set.size = 0
<1> DEFINE q == PoolReset(p)
<1>1. /\ q = [set |-> q.set, components |-> q.components]
      /\ q.set = SparseClear(p.set) /\ q.components = <<>>
  BY DEF PoolReset
<1>2. q.set.size = 0
  BY PoolWellFormed(p) DEF PoolReset, SparseClear, PoolWellFormed, SparseTypeOK
<1> HIDE DEF q
<1>3. WellFormed(q.set) /\ Members(q.set) = {}
  BY <1>1, ClearExact, PoolWellFormed(p) DEF PoolWellFormed, WellFormed
<1>4. Len(q.components) = 0
  BY <1>1
<1>. QED
  BY <1>1, <1>2, <1>3, <1>4 DEF q, PoolWellFormed, WellFormed, Owners

-----------------------------------------------------------------------------
(***************************************************************************)
(* A set object whose two vectors may have come apart, as _deleted_et of   *)
(* EntityManager does: the shape it keeps and the elements it lists.       *)
(***************************************************************************)

\* The cells an Erase of a present element touches exist.
LEMMA EraseInBounds ==
  ASSUME NEW s, SparseTypeOK(s), NEW v \in Nat, SparseHas(s, v)
  PROVE  /\ s.size - 1 \in 0 .. (s.capacity - 1)
         /\ s.sparse[v] \in 0 .. (s.capacity - 1)
         /\ s.dense[s.size - 1] \in 0 .. (s.capacity - 1)
<1>1. /\ s.capacity \in Nat /\ s.size \in 0 .. s.capacity
      /\ s.dense \in [0 .. (s.capacity - 1) -> 0 .. (s.capacity - 1)]
      /\ s.sparse \in [0 .. (s.capacity - 1) -> 0 .. (s.capacity - 1)]
  BY LimitAssumption, SparseTypeOK(s) DEF SparseTypeOK, Value
<1>2. v \in 0 .. (s.capacity - 1) /\ s.sparse[v] < s.size
  BY <1>1, SparseHas(s, v) DEF SparseHas
<1>3. s.sparse[v] \in 0 .. (s.capacity - 1)
  BY <1>1, <1>2
<1>4. s.size - 1 \in 0 .. (s.capacity - 1)
  BY <1>1, <1>2, <1>3
<1>. QED
  BY <1>1, <1>3, <1>4

\* Both vectors keep exactly capacity cells and hold values of T only, even
\* when dense and sparse have come apart.
LEMMA ShapeKept ==
  ASSUME NEW s, SparseTypeOK(s), NEW v \in Value
  PROVE  /\ SparseTypeOK(SparseReserve(s, v))
         /\ ~InsertOverruns(s, v) => SparseTypeOK(SparseInsert(s, v))
         /\ SparseTypeOK(SparseErase(s, v))
         /\ SparseTypeOK(SparseClear(s))
         /\ \A i \in Slots(s) : SparseTypeOK(SparseEraseAt(s, i))
<1>1. /\ Limit \in Nat /\ Limit > 0
      /\ v \in Nat /\ s.capacity \in Nat /\ s.size \in 0 .. s.capacity
      /\ s.dense \in [0 .. (s.capacity - 1) -> 0 .. (s.capacity - 1)]
      /\ s.sparse \in [0 .. (s.capacity - 1) -> 0 .. (s.capacity - 1)]
  BY LimitAssumption, SparseTypeOK(s) DEF SparseTypeOK, Value
<1>2. ASSUME NEW count \in Value PROVE SparseTypeOK(SparseReserve(s, count))
  <2>1. CASE count <= s.capacity
    BY <1>1, <2>1, SparseTypeOK(s) DEF SparseReserve, Value
  <2>2. CASE count > s.capacity
    <3> DEFINE r == SparseReserve(s, count)
    <3>1. r = [dense |-> Resize(s.dense, count), sparse |-> Resize(s.sparse, count),
               size |-> s.size, capacity |-> count]
      BY <2>2 DEF SparseReserve
    <3>2. ASSUME NEW f \in [0 .. (s.capacity - 1) -> 0 .. (s.capacity - 1)]
          PROVE  Resize(f, count) \in [0 .. (count - 1) -> 0 .. (count - 1)]
      BY <1>1, <2>2 DEF Resize, Value
    <3>3. s.size \in 0 .. count
      BY <1>1, <2>2 DEF Value
    <3>. QED
      BY <1>1, <3>1, <3>2, <3>3 DEF SparseTypeOK
  <2>. QED
    BY <1>1, <2>1, <2>2 DEF Value
<1>3. SparseTypeOK(RoomFor(s, v)) /\ RoomFor(s, v).size = s.size
  <2>1. (v + 1) % Limit \in Value
    BY <1>1 DEF Value
  <2>. QED
    BY <1>2, <2>1, SparseTypeOK(s) DEF RoomFor, SparseReserve
<1>4. ASSUME ~InsertOverruns(s, v) PROVE SparseTypeOK(SparseInsert(s, v))
  <2>1. CASE SparseHas(s, v)
    BY <2>1, SparseTypeOK(s) DEF SparseInsert
  <2>2. CASE ~SparseHas(s, v)
    <3> DEFINE r == RoomFor(s, v)
    <3>1. /\ r.capacity \in Value /\ r.capacity \in Nat /\ r.size \in 0 .. (r.capacity - 1)
          /\ v \in 0 .. (r.capacity - 1)
          /\ r.dense \in [0 .. (r.capacity - 1) -> 0 .. (r.capacity - 1)]
          /\ r.sparse \in [0 .. (r.capacity - 1) -> 0 .. (r.capacity - 1)]
      BY <1>1, <1>3, <1>4, <2>2 DEF InsertOverruns, SparseTypeOK, Value
    <3>2. SparseInsert(s, v)
            = [dense |-> [r.dense EXCEPT ![r.size] = v],
               sparse |-> [r.sparse EXCEPT ![v] = r.size],
               size |-> r.size + 1, capacity |-> r.capacity]
      BY <2>2 DEF SparseInsert
    <3> HIDE DEF r
    <3>. QED
      BY <3>1, <3>2 DEF SparseTypeOK
  <2>. QED
    BY <2>1, <2>2
<1>5. SparseTypeOK(SparseErase(s, v))
  <2>1. CASE SparseHas(s, v)
    <3> DEFINE slot == s.sparse[v]
               last == s.dense[s.size - 1]
    <3>1. /\ slot \in 0 .. (s.capacity - 1)
          /\ s.size - 1 \in 0 .. (s.capacity - 1)
          /\ last \in 0 .. (s.capacity - 1)
      BY <1>1, <2>1, EraseInBounds, SparseTypeOK(s)
    <3>2. SparseErase(s, v)
            = [dense |-> [s.dense EXCEPT ![slot] = last],
               sparse |-> [s.sparse EXCEPT ![last] = slot],
               size |-> s.size - 1, capacity |-> s.capacity]
      BY <2>1 DEF SparseErase
    <3> HIDE DEF slot, last
    <3>. QED
      BY <1>1, <3>1, <3>2, SparseTypeOK(s) DEF SparseTypeOK
  <2>2. CASE ~SparseHas(s, v)
    BY <2>2, SparseTypeOK(s) DEF SparseErase
  <2>. QED
    BY <2>1, <2>2
<1>6. SparseTypeOK(SparseClear(s))
  <2>1. SparseClear(s) = [dense |-> s.dense, sparse |-> s.sparse,
                          size |-> 0, capacity |-> s.capacity]
    BY SparseTypeOK(s) DEF SparseClear, SparseTypeOK
  <2>2. 0 \in 0 .. s.capacity
    BY <1>1
  <2>. QED
    BY <1>1, <2>1, <2>2, SparseTypeOK(s) DEF SparseTypeOK
<1>7. ASSUME NEW i \in Slots(s) PROVE SparseTypeOK(SparseEraseAt(s, i))
  <2>1. s.dense[i] \in 0 .. (s.capacity - 1)
    BY <1>1 DEF Slots
  <2>2. CASE SparseHas(s, s.dense[i])
    <3> DEFINE slot == s.sparse[s.dense[i]]
               last == s.dense[s.size - 1]
               dense == [s.dense EXCEPT ![slot] = last]
    <3>1. /\ slot \in 0 .. (s.capacity - 1)
          /\ s.size - 1 \in 0 .. (s.capacity - 1)
          /\ last \in 0 .. (s.capacity - 1)
      BY <1>1, <2>1, <2>2, EraseInBounds, SparseTypeOK(s)
    <3>2. dense \in [0 .. (s.capacity - 1) -> 0 .. (s.capacity - 1)]
      BY <1>1, <3>1
    <3>3. s.sparse[dense[i]] \in 0 .. (s.capacity - 1)
      <4>1. i \in 0 .. (s.capacity - 1)
        BY <1>1 DEF Slots
      <4> HIDE DEF dense
      <4>. QED
        BY <1>1, <3>2, <4>1
    <3>4. SparseEraseAt(s, i)
            = [dense |-> dense,
               sparse |-> [s.sparse EXCEPT ![last] = s.sparse[dense[i]]],
               size |-> s.size - 1, capacity |-> s.capacity]
      BY <2>2 DEF SparseEraseAt
    <3> HIDE DEF slot, last, dense
    <3>. QED
      BY <1>1, <3>1, <3>2, <3>3, <3>4, SparseTypeOK(s) DEF SparseTypeOK
  <2>3. CASE ~SparseHas(s, s.dense[i])
    BY <2>3, SparseTypeOK(s) DEF SparseEraseAt
  <2>. QED
    BY <2>2, <2>3
<1>. QED
  BY <1>2, <1>4, <1>5, <1>6, <1>7

\* Making room copies every cell.
LEMMA RoomForCopies ==
  ASSUME NEW s, SparseTypeOK(s), NEW v \in Value
  PROVE  /\ SparseTypeOK(RoomFor(s, v))
         /\ RoomFor(s, v).size = s.size
         /\ \A i \in 0 .. (s.capacity - 1) :
              /\ RoomFor(s, v).dense[i] = s.dense[i]
              /\ RoomFor(s, v).sparse[i] = s.sparse[i]
<1> DEFINE count == (v + 1) % Limit
<1>1. /\ count \in Value /\ count \in Nat /\ s.capacity \in Nat
      /\ DOMAIN s.dense = 0 .. (s.capacity - 1)
      /\ DOMAIN s.sparse = 0 .. (s.capacity - 1)
  BY LimitAssumption, SparseTypeOK(s) DEF SparseTypeOK, Value
<1> HIDE DEF count
<1>2. RoomFor(s, v) = IF v >= s.capacity THEN SparseReserve(s, count) ELSE s
  BY DEF RoomFor, count
<1>3. SparseTypeOK(SparseReserve(s, count))
  BY <1>1, ShapeKept, SparseTypeOK(s)
<1>4. /\ SparseReserve(s, count).size = s.size
      /\ \A i \in 0 .. (s.capacity - 1) :
           /\ SparseReserve(s, count).dense[i] = s.dense[i]
           /\ SparseReserve(s, count).sparse[i] = s.sparse[i]
  BY <1>1 DEF SparseReserve, Resize
<1>. QED
  BY <1>2, <1>3, <1>4, SparseTypeOK(s)

\* The index does not know the first listed element.
Broken(s) == s.size # 0 /\ s.sparse[s.dense[0]] # 0

\* Insert lists its value, coherent or not, and leaves the first element first.
LEMMA InsertListed ==
  ASSUME NEW s, SparseTypeOK(s), NEW v \in Value, ~InsertOverruns(s, v)
  PROVE  LET n == SparseInsert(s, v)
         IN  /\ Listed(n) = Listed(s) \cup {v}
             /\ s.size # 0 => n.size # 0 /\ n.dense[0] = s.dense[0]
             /\ Broken(s) => Broken(n)
<1>1. /\ s.capacity \in Nat /\ s.size \in 0 .. s.capacity /\ v \in Nat
      /\ s.dense \in [0 .. (s.capacity - 1) -> 0 .. (s.capacity - 1)]
      /\ s.sparse \in [0 .. (s.capacity - 1) -> 0 .. (s.capacity - 1)]
  BY LimitAssumption, SparseTypeOK(s) DEF SparseTypeOK, Value
<1>2. CASE SparseHas(s, v)
  <2>1. s.sparse[v] \in Slots(s) /\ s.dense[s.sparse[v]] = v
    <3>1. v \in 0 .. (s.capacity - 1) /\ s.sparse[v] < s.size
      BY <1>1, <1>2 DEF SparseHas
    <3>2. s.sparse[v] \in Nat
      BY <1>1, <3>1
    <3>. QED
      BY <1>1, <1>2, <3>1, <3>2 DEF SparseHas, Slots
  <2>. QED
    BY <1>2, <2>1 DEF SparseInsert, Listed
<1>3. CASE ~SparseHas(s, v)
  <2> DEFINE r == RoomFor(s, v)
             n == SparseInsert(s, v)
  <2>1. /\ SparseTypeOK(r) /\ r.size = s.size
        /\ \A i \in 0 .. (s.capacity - 1) :
             r.dense[i] = s.dense[i] /\ r.sparse[i] = s.sparse[i]
    BY RoomForCopies, SparseTypeOK(s)
  <2>2. /\ r.capacity \in Nat
        /\ r.dense \in [0 .. (r.capacity - 1) -> 0 .. (r.capacity - 1)]
        /\ r.sparse \in [0 .. (r.capacity - 1) -> 0 .. (r.capacity - 1)]
    BY <2>1, LimitAssumption DEF SparseTypeOK, Value
  <2>3. ~(r.size >= r.capacity) /\ ~(v >= r.capacity)
    BY <1>3, ~InsertOverruns(s, v) DEF InsertOverruns
  <2>4. /\ n.dense = [r.dense EXCEPT ![r.size] = v]
        /\ n.sparse = [r.sparse EXCEPT ![v] = r.size]
        /\ n.size = r.size + 1
    BY <1>3 DEF SparseInsert
  <2> HIDE DEF r, n
  <2>5. /\ n.dense[s.size] = v /\ n.sparse[v] = s.size /\ n.size = s.size + 1
        /\ \A i \in Slots(s) : n.dense[i] = s.dense[i]
    <3>1. s.size \in 0 .. (r.capacity - 1) /\ v \in 0 .. (r.capacity - 1)
      BY <1>1, <2>1, <2>2, <2>3
    <3>2. ASSUME NEW i \in Slots(s) PROVE n.dense[i] = s.dense[i]
      <4>1. i \in 0 .. (s.capacity - 1) /\ i \in 0 .. (r.capacity - 1) /\ i # s.size
        BY <1>1, <2>2, <3>1 DEF Slots
      <4>. QED
        BY <2>1, <2>2, <2>4, <4>1
    <3>. QED
      BY <2>1, <2>2, <2>4, <3>1, <3>2
  <2>6. Slots(n) = Slots(s) \cup {s.size}
    BY <1>1, <2>5 DEF Slots
  <2>7. Listed(n) = Listed(s) \cup {v}
    BY <2>5, <2>6 DEF Listed
  <2>8. ASSUME s.size # 0 PROVE n.size # 0 /\ n.dense[0] = s.dense[0]
    BY <1>1, <2>5, <2>8 DEF Slots
  <2>9. ASSUME Broken(s) PROVE Broken(n)
    <3>1. s.size # 0 /\ s.dense[0] \in 0 .. (s.capacity - 1)
      BY <1>1, <2>9 DEF Broken
    <3>2. n.sparse[s.dense[0]] # 0
      <4>1. CASE s.dense[0] = v
        BY <1>1, <2>5, <3>1, <4>1
      <4>2. CASE s.dense[0] # v
        BY <2>1, <2>2, <2>4, <2>9, <3>1, <4>2 DEF Broken
      <4>. QED
        BY <4>1, <4>2
    <3>. QED
      BY <2>8, <3>1, <3>2 DEF Broken
  <2>. QED
    BY <2>7, <2>8, <2>9 DEF n
<1>. QED
  BY <1>2, <1>3

\* Erasing the first element through its iterator: right if it is the only
\* one, otherwise the index loses the element that becomes the first; and once
\* the first element is lost it stays, whatever is erased.
LEMMA EraseFirst ==
  ASSUME NEW s, SparseTypeOK(s), s.size # 0
  PROVE  LET r == SparseEraseAt(s, 0)
         IN  /\ SparseTypeOK(r)
             /\ Listed(r) \subseteq Listed(s)
             /\ Listed(s) \subseteq Listed(r) \cup {s.dense[0]}
             /\ Coherent(s) /\ s.size = 1 => r.size = 0
             /\ Coherent(s) /\ s.size # 1 => Broken(r)
             /\ Broken(s) => Broken(r) /\ r.dense[0] = s.dense[0]
<1> DEFINE first == s.dense[0]
           slot == s.sparse[first]
           last == s.dense[s.size - 1]
           r == SparseEraseAt(s, 0)
<1>1. /\ s.capacity \in Nat /\ s.size \in 1 .. s.capacity /\ 0 \in Slots(s)
      /\ s.dense \in [0 .. (s.capacity - 1) -> 0 .. (s.capacity - 1)]
      /\ s.sparse \in [0 .. (s.capacity - 1) -> 0 .. (s.capacity - 1)]
  BY LimitAssumption, SparseTypeOK(s), s.size # 0 DEF SparseTypeOK, Value, Slots
<1>2. SparseTypeOK(r)
  BY <1>1, ShapeKept, SparseTypeOK(s), LimitAssumption DEF Value
<1>3. /\ first \in 0 .. (s.capacity - 1) /\ last \in 0 .. (s.capacity - 1)
      /\ slot \in 0 .. (s.capacity - 1) /\ s.size - 1 \in Slots(s)
  <2>1. first \in 0 .. (s.capacity - 1) /\ last \in 0 .. (s.capacity - 1)
    BY <1>1
  <2>. QED
    BY <1>1, <2>1 DEF Slots
<1>4. CASE ~SparseHas(s, first)
  <2>1. r = s
    BY <1>4 DEF SparseEraseAt
  <2>2. ~Coherent(s)
    BY <1>1, <1>3, <1>4 DEF Coherent, SparseHas, Slots
  <2>. QED
    BY <1>2, <2>1, <2>2
<1>5. CASE SparseHas(s, first)
  <2>1. slot \in Slots(s) /\ s.dense[slot] = first
    BY <1>1, <1>3, <1>5 DEF SparseHas, Slots
  <2>2. /\ r.dense = [s.dense EXCEPT ![slot] = last]
        /\ r.sparse = [s.sparse EXCEPT ![last] = s.sparse[[s.dense EXCEPT ![slot] = last][0]]]
        /\ r.size = s.size - 1
    BY <1>5 DEF SparseEraseAt
  <2> HIDE DEF first, slot, last, r
  <2>3. /\ \A i \in Slots(r) : r.dense[i] = IF i = slot THEN last ELSE s.dense[i]
        /\ Slots(s) = Slots(r) \cup {s.size - 1}
    BY <1>1, <2>2 DEF Slots
  <2>4. last \in Listed(s)
    BY <1>3 DEF Listed, last
  <2>5. Listed(r) \subseteq Listed(s)
    BY <2>3, <2>4 DEF Listed
  <2>6. Listed(s) \subseteq Listed(r) \cup {first}
    <3> SUFFICES ASSUME NEW i \in Slots(s), s.dense[i] # first
                 PROVE  s.dense[i] \in Listed(r)
      BY DEF Listed
    <3>1. CASE i # s.size - 1
      BY <2>1, <2>3, <3>1 DEF Listed
    <3>2. CASE i = s.size - 1
      <4>1. s.dense[i] = last /\ slot # s.size - 1
        BY <2>1, <3>2 DEF last
      <4>2. slot \in Slots(r) /\ r.dense[slot] = last
        BY <2>1, <2>3, <4>1
      <4>. QED
        BY <4>1, <4>2 DEF Listed
    <3>. QED
      BY <3>1, <3>2
  <2>7. ASSUME Coherent(s) PROVE slot = 0
    BY <1>1, <2>7 DEF Coherent, first, slot
  <2>8. ASSUME Coherent(s), s.size # 1 PROVE Broken(r)
    <3>1. r.dense[0] = last /\ r.sparse[last] = s.sparse[last]
      BY <1>1, <1>3, <2>2, <2>7, <2>8
    <3>2. s.sparse[last] = s.size - 1
      BY <1>3, <2>8 DEF Coherent, last
    <3>. QED
      BY <1>1, <2>2, <2>8, <3>1, <3>2 DEF Broken
  <2>9. ASSUME Broken(s) PROVE Broken(r) /\ r.dense[0] = first
    <3>1. slot # 0
      BY <2>9 DEF Broken, slot, first
    <3>2. r.dense[0] = first /\ r.size # 0
      BY <1>1, <2>1, <2>2, <3>1 DEF first, Slots
    <3>3. r.sparse = [s.sparse EXCEPT ![last] = slot]
      BY <1>1, <1>3, <2>2, <3>1 DEF first, slot
    <3>4. r.sparse[first] = slot
      BY <1>1, <1>3, <3>3 DEF slot
    <3>. QED
      BY <3>1, <3>2, <3>4 DEF Broken
  <2>. QED
    BY <1>1, <1>2, <2>2, <2>5, <2>6, <2>8, <2>9 DEF first, r
<1>. QED
  BY <1>4, <1>5
=============================================================================
