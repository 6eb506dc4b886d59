------------------------------ MODULE PoolProofs ------------------------------
(***************************************************************************)
(* The properties of PoolClient, and below those of PoolForEach, for every *)
(* width of EntityType, every set of entities and components and every     *)
(* bound of the model.                                                     *)
(***************************************************************************)
EXTENDS PoolForEach, StorageTheorems

(***************************************************************************)
(* The inductive invariant of the documented contract: on top of types,    *)
(* the base set is coherent and _components is at least as long as it.     *)
(***************************************************************************)
IInv ==
  /\ TypeOK
  /\ PoolWellFormed(pool)
  /\ Owners(pool) = DOMAIN wanted

\* What every proof below starts from.
LEMMA Facts ==
  ASSUME IInv
  PROVE  /\ PoolWellFormed(pool)
         /\ pool.components \in Seq(Components)
         /\ \A et : PoolHas(pool, et) /\ et \in Entities => et \in Owners(pool)
         /\ Entities \subseteq Value
<1>1. ASSUME NEW et \in Entities, PoolHas(pool, et) PROVE et \in Owners(pool)
  BY <1>1, IInv, EntitiesAssumption, LimitAssumption
     DEF IInv, PoolWellFormed, SparseTypeOK, PoolHas, SparseHas, Owners, Members, Value
<1>. QED
  BY <1>1, IInv, EntitiesAssumption DEF IInv, TypeOK

LEMMA StoreType ==
  ASSUME IInv, NEW et \in Entities, NEW c \in Components
  PROVE  /\ DOMAIN Store(et, c) = DOMAIN wanted \cup {et}
         /\ DOMAIN Store(et, c) \subseteq Entities
         /\ Store(et, c) \in [DOMAIN Store(et, c) -> Components]
BY IInv DEF IInv, TypeOK, Store

\* A new entity takes the place after the last; the other owners stay where they are.
LEMMA AssignPlaces ==
  ASSUME IInv, NEW et \in Entities, ~PoolHas(pool, et), ~PoolAssignOverruns(pool, et)
  PROVE  /\ SparseInsert(pool.set, et).sparse[et] = pool.set.size
         /\ \A c : Place(PoolAssign(pool, et, c), et) = pool.set.size + 1
         /\ \A c : \A w \in Owners(pool) :
              Place(PoolAssign(pool, et, c), w) = Place(pool, w)
<1>1. /\ WellFormed(pool.set) /\ et \in Value
      /\ ~InsertOverruns(pool.set, et) /\ ~SparseHas(pool.set, et)
  BY Facts, ~PoolHas(pool, et), ~PoolAssignOverruns(pool, et)
     DEF PoolHas, PoolAssignOverruns, PoolWellFormed, WellFormed
<1>2. /\ SparseInsert(pool.set, et).sparse[et] = pool.set.size
      /\ \A w \in Members(pool.set) :
           SparseInsert(pool.set, et).sparse[w] = pool.set.sparse[w]
  BY <1>1, InsertPlaces
<1>. QED
  BY <1>2 DEF Place, PoolAssign, Owners

\* The storage after an assignment to a new entity has room for its component,
\* and the components have moved only if there were as many as the capacity.
LEMMA StorageExact ==
  ASSUME IInv, NEW et \in Entities, ~PoolHas(pool, et),
         ~PoolAssignOverruns(pool, et), StorageAfterAssign(et)
  PROVE  /\ capacity' \in Nat /\ Len(pool.components) + 1 <= capacity'
         /\ \/ held' = held
            \/ held' = NoReference /\ Len(pool.components) + 1 > capacity
            \/ held' = [et |-> et, at |-> Len(pool.components) + 1]
<1> DEFINE size == Len(pool.components)
           Final(room) == IF size = room THEN (room + 1) .. MaxComponents ELSE {room}
<1>1. /\ size \in Nat /\ capacity \in Nat /\ size <= capacity
      /\ pool.set.size \in Nat /\ pool.set.size <= size
  BY IInv, LimitAssumption DEF IInv, TypeOK, PoolWellFormed, SparseTypeOK, Value
<1>2. SparseInsert(pool.set, et).sparse[et] = pool.set.size
  BY AssignPlaces, IInv, ~PoolHas(pool, et), ~PoolAssignOverruns(pool, et)
<1>3. capacity' \in UNION { Final(room) :
         room \in IF pool.set.size >= capacity THEN Reserved(pool.set.size + 1)
                                               ELSE {capacity} }
  BY <1>2, StorageAfterAssign(et) DEF StorageAfterAssign, RoomAfterAssign
<1>4. PICK room \in IF pool.set.size >= capacity THEN Reserved(pool.set.size + 1)
                                                 ELSE {capacity} :
         capacity' \in Final(room)
  BY <1>3
<1>5. /\ room \in Nat /\ room >= capacity
      /\ pool.set.size >= capacity => room > capacity
      /\ pool.set.size < capacity => room = capacity
  BY <1>1, <1>4, BoundAssumption DEF Reserved
<1>6. /\ capacity' \in Nat /\ size + 1 <= capacity'
      /\ capacity' # capacity => size + 1 > capacity
  <2>1. CASE size = room
    BY <1>1, <1>4, <1>5, <2>1, BoundAssumption
  <2>2. CASE size # room
    BY <1>1, <1>4, <1>5, <2>2, BoundAssumption
  <2>. QED
    BY <2>1, <2>2
<1>7. held' \in {Surviving(capacity'), [et |-> et, at |-> size + 1]}
  BY StorageAfterAssign(et) DEF StorageAfterAssign
<1>. QED
  BY <1>6, <1>7 DEF Surviving

\* Every step within the contract keeps the invariant.
LEMMA Inductive ==
  /\ Init => IInv
  /\ IInv /\ [Next]_vars => IInv'
<1>1. Init => IInv
  <2> SUFFICES ASSUME Init PROVE IInv
    OBVIOUS
  <2>1. WellFormed(pool.set) /\ Members(pool.set) = {} /\ pool.components = <<>>
    BY EmptyIsWellFormed DEF Init, EmptyPool
  <2>2. pool.set.size = 0 /\ Len(pool.components) = 0
    BY DEF Init, EmptyPool, EmptySparse
  <2>3. /\ pool = [set |-> pool.set, components |-> pool.components]
        /\ DOMAIN wanted = {} /\ wanted \in [{} -> Components]
        /\ ub \in BOOLEAN
        /\ capacity = 0 /\ held = [et |-> held.et, at |-> held.at] /\ held.at = 0
    BY DEF Init, EmptyPool, NoComponents, NoReference
  <2>4. PoolWellFormed(pool)
    BY <2>1, <2>2, <2>3 DEF PoolWellFormed, WellFormed
  <2>5. TypeOK
    BY <2>1, <2>2, <2>3, <2>4 DEF TypeOK, PoolWellFormed
  <2>. QED
    BY <2>1, <2>3, <2>4, <2>5 DEF IInv, Owners
<1>2. IInv /\ [Next]_vars => IInv'
  <2> SUFFICES ASSUME IInv, [Next]_vars PROVE IInv'
    OBVIOUS
  <2>0. /\ PoolWellFormed(pool) /\ pool.components \in Seq(Components)
        /\ Entities \subseteq Value /\ ub \in BOOLEAN
        /\ capacity \in Nat /\ Len(pool.components) <= capacity
        /\ held = [et |-> held.et, at |-> held.at]
        /\ held.at \in 0 .. Len(pool.components)
    BY Facts DEF IInv, TypeOK
  <2>a. ASSUME NEW et \in Entities, NEW c \in Components,
               PoolHas(pool, et), pool' = PoolReplace(pool, et, c),
               wanted' = Store(et, c), UNCHANGED <<capacity, held, ub>>
        PROVE  IInv'
    <3>1. et \in Owners(pool)
      BY <2>a, Facts
    <3>2. /\ PoolWellFormed(pool') /\ pool'.components \in Seq(Components)
          /\ pool'.set = pool.set
          /\ Len(pool'.components) = Len(pool.components)
      BY <2>0, <2>a, <3>1, PoolReplaceExact
    <3>3. Owners(pool') = Owners(pool) /\ DOMAIN wanted' = DOMAIN wanted \cup {et}
      BY <2>a, <3>2, StoreType DEF Owners
    <3>4. TypeOK'
      BY <2>0, <2>a, <3>2, StoreType DEF TypeOK, PoolWellFormed
    <3>. QED
      BY <3>1, <3>2, <3>3, <3>4 DEF IInv
  <2>b. ASSUME NEW et \in Entities, NEW c \in Components,
               ~PoolHas(pool, et), ~PoolAssignOverruns(pool, et),
               pool' = PoolAssign(pool, et, c), StorageAfterAssign(et),
               wanted' = Store(et, c), UNCHANGED ub
        PROVE  IInv'
    <3>1. /\ PoolWellFormed(pool') /\ pool'.components \in Seq(Components)
          /\ Owners(pool') = Owners(pool) \cup {et}
          /\ Len(pool'.components) = Len(pool.components) + 1
      BY <2>0, <2>b, PoolAssignExact
    <3>2. /\ capacity' \in Nat /\ Len(pool'.components) <= capacity'
          /\ held' = [et |-> held'.et, at |-> held'.at]
          /\ held'.at \in 0 .. Len(pool'.components)
      <4>1. \/ held' = held \/ held' = NoReference
            \/ held' = [et |-> et, at |-> Len(pool.components) + 1]
        BY <2>b, StorageExact
      <4>2. Len(pool.components) \in Nat
        BY <2>0
      <4>3. \/ held'.at = held.at \/ held'.at = 0
            \/ held'.at = Len(pool.components) + 1
        BY <4>1 DEF NoReference
      <4>4. held' = [et |-> held'.et, at |-> held'.at]
        BY <2>0, <4>1 DEF NoReference
      <4>5. held'.at \in 0 .. Len(pool'.components)
        BY <2>0, <3>1, <4>2, <4>3
      <4>. QED
        BY <2>b, <3>1, <4>4, <4>5, StorageExact
    <3>. QED
      BY <2>0, <2>b, <3>1, <3>2, StoreType DEF IInv, TypeOK, PoolWellFormed
  <2>1. ASSUME NEW et \in Entities, NEW c \in Components, Assign(et, c)
        PROVE  IInv'
    BY <2>1, <2>b DEF Assign
  <2>2. ASSUME NEW et \in Entities, AssignOverrun(et) PROVE IInv'
    BY <2>2 DEF AssignOverrun, IInv, TypeOK
  <2>3. ASSUME NEW et \in Entities, NEW c \in Components, Replace(et, c)
        PROVE  IInv'
    BY <2>3, <2>a DEF Replace
  <2>4. ASSUME NEW et \in Entities, NEW c \in Components, AssignOrReplace(et, c)
        PROVE  IInv'
    BY <2>4, <2>a, <2>b DEF AssignOrReplace, PoolAssignOrReplace
  <2>5. ASSUME NEW et \in Entities, Delete(et) PROVE IInv'
    <3>1. /\ PoolWellFormed(pool') /\ pool'.components = pool.components
          /\ Owners(pool') = Owners(pool) \ {et}
      BY <2>0, <2>5, PoolDeleteExact DEF Delete
    <3>. QED
      BY <2>0, <2>5, <3>1 DEF Delete, IInv, TypeOK, PoolWellFormed
  <2>6. ASSUME NEW et \in Entities, Get(et) PROVE IInv'
    <3>1. Place(pool, et) \in 1 .. Len(pool.components)
      BY <2>0, <2>6, Facts, OwnerPlace DEF Get
    <3>2. /\ held' = [et |-> held'.et, at |-> held'.at]
          /\ held'.at \in 0 .. Len(pool.components)
      BY <2>6, <3>1 DEF Get
    <3>. QED
      BY <2>6, <3>2 DEF Get, IInv, TypeOK
  <2>7. CASE Reset
    <3>1. /\ PoolWellFormed(pool') /\ pool'.components = <<>>
          /\ Owners(pool') = {}
      BY <2>0, <2>7, PoolResetExact DEF Reset
    <3>2. /\ Len(pool'.components) = 0 /\ capacity' = capacity
          /\ held' = [et |-> held'.et, at |-> held'.at] /\ held'.at = 0
      BY <2>7, <3>1 DEF Reset, NoReference
    <3>. QED
      BY <2>0, <2>7, <3>1, <3>2 DEF Reset, NoComponents, IInv, TypeOK, PoolWellFormed
  <2>8. ASSUME NEW count \in 0 .. MaxComponents, Reserve(count) PROVE IInv'
    <3>1. capacity' \in Nat /\ capacity' >= capacity
      BY <2>0, <2>8, BoundAssumption DEF Reserve, Reserved
    <3>2. /\ held' = [et |-> held'.et, at |-> held'.at]
          /\ held'.at \in 0 .. Len(pool.components)
      BY <2>0, <2>8 DEF Reserve, Surviving, NoReference
    <3>3. Len(pool.components) <= capacity'
      BY <2>0, <3>1
    <3>. QED
      BY <2>8, <3>1, <3>2, <3>3 DEF Reserve, IInv, TypeOK
  <2>9. CASE UNCHANGED vars
    BY <2>9 DEF vars, IInv, TypeOK
  <2>. QED
    BY <2>1, <2>2, <2>3, <2>4, <2>5, <2>6, <2>7, <2>8, <2>9 DEF Next
<1>. QED
  BY <1>1, <1>2

\* Types hold within the contract.
THEOREM TypeCorrect == Spec => []TypeOK
<1>1. IInv => TypeOK
  BY DEF IInv
<1>. QED
  BY <1>1, Inductive, PTL DEF Spec

\* Deletes included, the owners are the entities stored and not deleted since,
\* and Get always returns a component that exists.
THEOREM OwnersAreExact == Spec => []OwnersExact
<1>1. IInv => OwnersExact
  BY OwnerPlace, Facts DEF IInv, OwnersExact
<1>. QED
  BY <1>1, Inductive, PTL DEF Spec

\* A reference dangles only after a Reset, a Reserve that makes room, or an Assign
\* of more components than the capacity.
THEOREM ReferencesAreKept == Spec => ReferencesKept
<1> DEFINE Cause ==
      \/ pool'.components = <<>>
      \/ pool' = pool /\ capacity' > capacity
      \/ Len(pool'.components) > capacity
<1>1. ASSUME IInv, [Next]_vars, held.at # 0, held'.at = 0 PROVE Cause
  <2>0. held' # held
    BY <1>1
  <2>1. ASSUME NEW et \in Entities, NEW c \in Components, ~PoolHas(pool, et),
               ~PoolAssignOverruns(pool, et), pool' = PoolAssign(pool, et, c),
               StorageAfterAssign(et)
        PROVE  Cause
    <3>1. Len(pool.components) \in Nat
      BY <1>1, Facts
    <3>2. Len(pool'.components) = Len(pool.components) + 1
      BY <1>1, <2>1, Facts, AppendProperties DEF PoolAssign
    <3>3. held' # [et |-> et, at |-> Len(pool.components) + 1]
      BY <1>1, <3>1
    <3>. QED
      BY <1>1, <2>0, <2>1, <3>2, <3>3, StorageExact
  <2>2. ASSUME NEW et \in Entities, Get(et) PROVE FALSE
    <3>1. Place(pool, et) \in 1 .. Len(pool.components)
      BY <1>1, <2>2, Facts, OwnerPlace DEF Get
    <3>. QED
      BY <1>1, <2>2, <3>1 DEF Get
  <2>3. CASE Reset
    BY <2>3, Facts, <1>1, PoolResetExact DEF Reset
  <2>4. ASSUME NEW count \in 0 .. MaxComponents, Reserve(count) PROVE Cause
    <3>1. capacity' # capacity /\ capacity \in Nat
      BY <1>1, <2>0, <2>4 DEF Reserve, Surviving, IInv, TypeOK
    <3>. QED
      BY <2>4, <3>1, BoundAssumption DEF Reserve, Reserved
  <2>. QED
    BY <1>1, <2>0, <2>1, <2>2, <2>3, <2>4
       DEF Next, Assign, AssignOverrun, Replace, AssignOrReplace, PoolAssignOrReplace,
           Delete, vars
<1>2. IInv /\ [Next]_vars => (held.at # 0 /\ held'.at = 0 => Cause)
  BY <1>1
<1>. QED
  BY <1>2, Inductive, PTL DEF Spec, ReferencesKept

-----------------------------------------------------------------------------
(***************************************************************************)
(* Which component an owner reads.                                         *)
(***************************************************************************)

\* Replacing keeps every owner reading what was stored for it.
LEMMA ReplaceReadsBack ==
  ASSUME IInv, ReadsBack, NEW et \in Entities, NEW c \in Components,
         PoolHas(pool, et), pool' = PoolReplace(pool, et, c),
         wanted' = Store(et, c)
  PROVE  /\ ReadsBack'
         /\ pool'.set = pool.set
         /\ Len(pool'.components) = Len(pool.components)
<1>1. /\ et \in Owners(pool) /\ PoolWellFormed(pool)
      /\ pool.components \in Seq(Components)
  BY Facts, IInv, PoolHas(pool, et)
<1>2. /\ pool'.set = pool.set /\ Len(pool'.components) = Len(pool.components)
      /\ \A w \in Owners(pool) :
           PoolGet(pool', w) = IF w = et THEN c ELSE PoolGet(pool, w)
  BY <1>1, PoolReplaceExact, pool' = PoolReplace(pool, et, c)
<1>3. \A w \in Owners(pool) : wanted'[w] = IF w = et THEN c ELSE wanted[w]
  BY IInv, wanted' = Store(et, c) DEF IInv, Store
<1>. QED
  BY <1>2, <1>3, ReadsBack DEF ReadsBack, Owners

\* So does a new assignment when every stored component has an owner.
LEMMA AssignReadsBack ==
  ASSUME IInv, ReadsBack, NEW et \in Entities, NEW c \in Components,
         ~PoolHas(pool, et), ~PoolAssignOverruns(pool, et),
         pool.set.size = Len(pool.components),
         pool' = PoolAssign(pool, et, c), wanted' = Store(et, c)
  PROVE  ReadsBack' /\ pool'.set.size = Len(pool'.components)
<1>1. /\ PoolWellFormed(pool) /\ pool.components \in Seq(Components)
      /\ et \in Value
  BY Facts, IInv
<1>2. /\ Owners(pool') = Owners(pool) \cup {et}
      /\ Len(pool'.components) = Len(pool.components) + 1
      /\ pool'.set.size = pool.set.size + 1
      /\ \A w \in Owners(pool) : PoolGet(pool', w) = PoolGet(pool, w)
      /\ PoolGet(pool', et) = c
  BY <1>1, PoolAssignExact, ~PoolHas(pool, et), ~PoolAssignOverruns(pool, et),
     pool.set.size = Len(pool.components), pool' = PoolAssign(pool, et, c)
<1>3. et \notin Owners(pool)
  BY ~PoolHas(pool, et) DEF PoolHas, Owners, Members
<1>4. \A w \in Owners(pool') : wanted'[w] = IF w = et THEN c ELSE wanted[w]
  BY <1>2, IInv, wanted' = Store(et, c) DEF IInv, Store
<1>. QED
  BY <1>2, <1>3, <1>4, ReadsBack, pool.set.size = Len(pool.components) DEF ReadsBack

\* An owner loses its component only by the Delete of an entity that is not
\* the last of the list, or by an assignment made while components of deleted
\* entities are still stored.
THEOREM OnlyDeletedSlotsMisleadPool == Spec => OnlyDeletedSlotsMislead
<1> DEFINE Cause ==
      \/ \E et \in Entities : Delete(et) /\ Place(pool, et) # pool.set.size
      \/ /\ pool'.set.size > pool.set.size
         /\ Len(pool.components) > pool.set.size
<1>1. ASSUME IInv, [Next]_vars, ReadsBack, ~ReadsBack' PROVE Cause
  <2>0. /\ PoolWellFormed(pool) /\ pool.components \in Seq(Components)
        /\ Entities \subseteq Value
        /\ pool.set.size \in Nat /\ Len(pool.components) \in Nat
        /\ pool.set.size <= Len(pool.components)
    BY <1>1, Facts, LimitAssumption DEF PoolWellFormed, SparseTypeOK, Value
  <2>a. ASSUME NEW et \in Entities, NEW c \in Components,
               ~PoolHas(pool, et), ~PoolAssignOverruns(pool, et),
               pool' = PoolAssign(pool, et, c), wanted' = Store(et, c)
        PROVE  Cause
    <3>1. pool.set.size # Len(pool.components)
      BY <1>1, <2>a, AssignReadsBack
    <3>2. pool'.set.size = pool.set.size + 1
      BY <2>0, <2>a, PoolAssignExact
    <3>. QED
      BY <2>0, <3>1, <3>2
  <2>1. ASSUME NEW et \in Entities, NEW c \in Components, Assign(et, c)
        PROVE  Cause
    BY <2>1, <2>a DEF Assign
  <2>2. ASSUME NEW et \in Entities, AssignOverrun(et) PROVE Cause
    BY <1>1, <2>2 DEF AssignOverrun, ReadsBack
  <2>3. ASSUME NEW et \in Entities, NEW c \in Components, Replace(et, c)
        PROVE  Cause
    BY <1>1, <2>3, ReplaceReadsBack DEF Replace
  <2>4. ASSUME NEW et \in Entities, NEW c \in Components, AssignOrReplace(et, c)
        PROVE  Cause
    BY <1>1, <2>4, <2>a, ReplaceReadsBack DEF AssignOrReplace, PoolAssignOrReplace
  <2>5. ASSUME NEW et \in Entities, Delete(et) PROVE Cause
    <3>1. CASE Place(pool, et) = pool.set.size
      <4>1. et \in Owners(pool)
        BY <1>1, <2>5, Facts DEF Delete
      <4>2. /\ Owners(pool') = Owners(pool) \ {et}
            /\ \A w \in Owners(pool') : PoolGet(pool', w) = PoolGet(pool, w)
        BY <2>0, <2>5, <3>1, <4>1, PoolDeleteExact DEF Delete
      <4>. QED
        BY <1>1, <2>5, <4>2 DEF Delete, ReadsBack, IInv
    <3>. QED
      BY <2>5, <3>1
  <2>6. CASE Reset
    <3>1. Owners(pool') = {}
      BY <2>0, <2>6, PoolResetExact DEF Reset
    <3>. QED
      BY <1>1, <3>1 DEF ReadsBack
  <2>7. CASE UNCHANGED <<pool, wanted>>
    BY <1>1, <2>7 DEF ReadsBack
  <2>. QED
    BY <1>1, <2>1, <2>2, <2>3, <2>4, <2>5, <2>6, <2>7 DEF Next, Get, Reserve, vars
<1>2. IInv /\ [Next]_vars => (ReadsBack /\ ~ReadsBack' => Cause)
  BY <1>1
<1>. QED
  BY <1>2, Inductive, PTL DEF Spec, OnlyDeletedSlotsMislead

-----------------------------------------------------------------------------
(***************************************************************************)
(* The pool as a map, up to the first Delete and again after a Reset.      *)
(***************************************************************************)
KeepInv == IInv /\ UnspoiledReadsBack

HeldInPlace ==
  held.at # 0 => held.et \in Owners(pool) /\ held.at = Place(pool, held.et)

\* What a step does to the pool as a whole: it stores a component and leaves no
\* new slot without an owner, empties the pool or leaves a slot without owner, or
\* touches no component.
LEMMA StepKinds ==
  ASSUME IInv, [Next]_vars
  PROVE  \/ \E et \in Entities, c \in Components :
              wanted' = Store(et, c) /\ Unspoiled' = Unspoiled
         \/ ~Unspoiled' \/ wanted' = NoComponents
         \/ UNCHANGED <<pool, wanted>>
<1> DEFINE Goal == \/ \E et \in Entities, c \in Components :
                        wanted' = Store(et, c) /\ Unspoiled' = Unspoiled
                   \/ ~Unspoiled' \/ wanted' = NoComponents
                   \/ UNCHANGED <<pool, wanted>>
<1>0. /\ pool.set.size \in Nat /\ Len(pool.components) \in Nat
      /\ pool.set.size <= Len(pool.components)
      /\ PoolWellFormed(pool) /\ pool.components \in Seq(Components)
      /\ Entities \subseteq Value
  BY Facts, IInv, LimitAssumption DEF PoolWellFormed, SparseTypeOK, Value
<1>1. ASSUME NEW et \in Entities, NEW c \in Components, ~PoolHas(pool, et),
             ~PoolAssignOverruns(pool, et), pool' = PoolAssign(pool, et, c),
             wanted' = Store(et, c)
      PROVE  Goal
  <2>1. /\ pool'.set.size = pool.set.size + 1
        /\ Len(pool'.components) = Len(pool.components) + 1
    BY <1>0, <1>1, PoolAssignExact
  <2>2. Unspoiled' = Unspoiled
    BY <1>0, <2>1 DEF Unspoiled
  <2>. QED
    BY <1>1, <2>2
<1>2. ASSUME NEW et \in Entities, NEW c \in Components, PoolHas(pool, et),
             pool' = PoolReplace(pool, et, c), wanted' = Store(et, c)
      PROVE  Goal
  <2>1. et \in Owners(pool)
    BY <1>2, IInv, Facts
  <2>2. pool'.set = pool.set /\ Len(pool'.components) = Len(pool.components)
    BY <1>0, <1>2, <2>1, PoolReplaceExact
  <2>3. Unspoiled' = Unspoiled
    BY <2>2 DEF Unspoiled
  <2>. QED
    BY <1>2, <2>3
<1>3. ASSUME NEW et \in Entities, Delete(et) PROVE ~Unspoiled'
  <2>1. WellFormed(pool.set) /\ SparseHas(pool.set, et)
    BY <1>0, <1>3 DEF Delete, PoolHas, PoolWellFormed, WellFormed
  <2>2. /\ pool'.set = SparseErase(pool.set, et)
        /\ pool'.components = pool.components
    BY <1>0, <1>3 DEF Delete, PoolDelete, PoolWellFormed
  <2>3. pool'.set.size = pool.set.size - 1
    BY <1>0, <2>1, <2>2, EraseExact
  <2>. QED
    BY <1>0, <2>2, <2>3 DEF Unspoiled
<1>. QED
  BY <1>1, <1>2, <1>3, [Next]_vars
     DEF Next, Assign, AssignOverrun, Replace, AssignOrReplace, PoolAssignOrReplace,
         Get, Reset, Reserve, vars

\* A new assignment keeps the reference at the place of its entity, and so is the
\* one it returns.
LEMMA AssignKeepsHeld ==
  ASSUME IInv, Unspoiled, HeldInPlace, NEW et \in Entities, NEW c \in Components,
         ~PoolHas(pool, et), ~PoolAssignOverruns(pool, et),
         pool' = PoolAssign(pool, et, c), StorageAfterAssign(et)
  PROVE  HeldInPlace'
<1>1. /\ Owners(pool') = Owners(pool) \cup {et}
      /\ Place(pool', et) = pool.set.size + 1
      /\ \A w \in Owners(pool) : Place(pool', w) = Place(pool, w)
  BY Facts, IInv, AssignPlaces, PoolAssignExact, ~PoolHas(pool, et),
     ~PoolAssignOverruns(pool, et), pool' = PoolAssign(pool, et, c)
<1>2. \/ held' = held \/ held' = NoReference
      \/ held' = [et |-> et, at |-> Len(pool.components) + 1]
  BY StorageExact, IInv, ~PoolHas(pool, et), ~PoolAssignOverruns(pool, et),
     StorageAfterAssign(et)
<1>3. CASE held' = held
  BY <1>1, <1>3, HeldInPlace DEF HeldInPlace
<1>4. CASE held' = NoReference
  BY <1>4 DEF HeldInPlace, NoReference
<1>5. CASE held' = [et |-> et, at |-> Len(pool.components) + 1]
  BY <1>1, <1>5, Unspoiled DEF HeldInPlace, Unspoiled
<1>. QED
  BY <1>2, <1>3, <1>4, <1>5

LEMMA KeepInductive ==
  /\ Init => KeepInv
  /\ KeepInv /\ [Next]_vars => KeepInv'
<1>1. Init => KeepInv
  <2> SUFFICES ASSUME Init PROVE KeepInv
    OBVIOUS
  <2>1. Owners(pool) = {} /\ held.at = 0
    BY EmptyIsWellFormed DEF Init, EmptyPool, Owners, NoReference
  <2>. QED
    BY <2>1, Inductive DEF KeepInv, UnspoiledReadsBack, ReadsBack
<1>2. KeepInv /\ [Next]_vars => KeepInv'
  <2> SUFFICES ASSUME KeepInv, [Next]_vars PROVE KeepInv'
    OBVIOUS
  <2>0. /\ IInv' /\ IInv
        /\ Unspoiled => ReadsBack /\ HeldInPlace
    BY Inductive DEF KeepInv, UnspoiledReadsBack, HeldInPlace
  <2> SUFFICES ASSUME Unspoiled' PROVE ReadsBack' /\ HeldInPlace'
    BY <2>0 DEF KeepInv, UnspoiledReadsBack, HeldInPlace
  <2>a. ASSUME NEW et \in Entities, NEW c \in Components, ~PoolHas(pool, et),
               ~PoolAssignOverruns(pool, et), pool' = PoolAssign(pool, et, c),
               StorageAfterAssign(et), wanted' = Store(et, c)
        PROVE  ReadsBack' /\ HeldInPlace'
    <3>0. /\ PoolWellFormed(pool) /\ pool.components \in Seq(Components)
          /\ et \in Value
      BY <2>0, Facts
    <3>1. /\ pool'.set.size = pool.set.size + 1
          /\ Len(pool'.components) = Len(pool.components) + 1
      BY <2>a, <3>0, PoolAssignExact
    <3>2. Unspoiled
      BY <3>0, <3>1, LimitAssumption DEF Unspoiled, PoolWellFormed, SparseTypeOK, Value
    <3>. QED
      BY <2>0, <2>a, <3>2, AssignReadsBack, AssignKeepsHeld DEF Unspoiled
  <2>b. ASSUME NEW et \in Entities, NEW c \in Components, PoolHas(pool, et),
               pool' = PoolReplace(pool, et, c), held' = held, wanted' = Store(et, c)
        PROVE  ReadsBack' /\ HeldInPlace'
    <3>1. et \in Owners(pool)
      BY <2>0, <2>b, Facts
    <3>2. pool'.set = pool.set /\ Len(pool'.components) = Len(pool.components)
      BY <2>0, <2>b, <3>1, Facts, PoolReplaceExact
    <3>3. Unspoiled
      BY <3>2 DEF Unspoiled
    <3>4. HeldInPlace'
      BY <2>0, <2>b, <3>2, <3>3 DEF HeldInPlace, Owners, Place
    <3>. QED
      BY <2>0, <2>b, <3>3, <3>4, ReplaceReadsBack
  <2>1. ASSUME NEW et \in Entities, NEW c \in Components, Assign(et, c)
        PROVE  ReadsBack' /\ HeldInPlace'
    BY <2>1, <2>a DEF Assign
  <2>2. ASSUME NEW et \in Entities, NEW c \in Components, Replace(et, c)
        PROVE  ReadsBack' /\ HeldInPlace'
    BY <2>2, <2>b DEF Replace
  <2>3. ASSUME NEW et \in Entities, NEW c \in Components, AssignOrReplace(et, c)
        PROVE  ReadsBack' /\ HeldInPlace'
    BY <2>3, <2>a, <2>b DEF AssignOrReplace, PoolAssignOrReplace
  <2>4. ASSUME NEW et \in Entities, Delete(et) PROVE ReadsBack' /\ HeldInPlace'
    <3>1. /\ WellFormed(pool.set) /\ SparseHas(pool.set, et)
          /\ PoolWellFormed(pool) /\ Entities \subseteq Value
          /\ pool.components \in Seq(Components)
      BY <2>0, <2>4, Facts DEF Delete, PoolHas, PoolWellFormed, WellFormed
    <3>2. /\ pool'.set = SparseErase(pool.set, et)
          /\ pool'.components = pool.components
      BY <2>4, <3>1 DEF Delete, PoolDelete, PoolWellFormed
    <3>3. pool'.set.size = pool.set.size - 1
      BY <3>1, <3>2, EraseExact
    <3>4. /\ pool.set.size \in Nat /\ Len(pool.components) \in Nat
          /\ pool.set.size <= Len(pool.components)
      BY <3>1, LimitAssumption DEF PoolWellFormed, SparseTypeOK, Value
    <3>5. ~Unspoiled'
      BY <3>2, <3>3, <3>4 DEF Unspoiled
    <3>. QED
      BY <3>5
  <2>5. ASSUME NEW et \in Entities, Get(et) PROVE ReadsBack' /\ HeldInPlace'
    <3>1. /\ UNCHANGED <<pool, wanted>> /\ Unspoiled /\ et \in Owners(pool)
          /\ held'.et = et /\ held'.at = Place(pool, et)
      BY <2>0, <2>5, Facts DEF Get, Unspoiled
    <3>. QED
      BY <2>0, <3>1 DEF ReadsBack, HeldInPlace
  <2>6. CASE Reset
    <3>1. Owners(pool') = {} /\ held'.at = 0
      BY <2>0, <2>6, PoolResetExact, Facts DEF Reset, NoReference
    <3>. QED
      BY <3>1 DEF ReadsBack, HeldInPlace
  <2>7. CASE UNCHANGED <<pool, wanted>> /\ (held' = held \/ held' = NoReference)
    <3>1. Unspoiled
      BY <2>7 DEF Unspoiled
    <3>2. HeldInPlace'
      BY <2>0, <2>7, <3>1 DEF HeldInPlace, NoReference
    <3>. QED
      BY <2>0, <2>7, <3>1, <3>2 DEF ReadsBack
  <2>. QED
    BY <2>1, <2>2, <2>3, <2>4, <2>5, <2>6, <2>7
       DEF Next, AssignOverrun, Reserve, Surviving, vars
<1>. QED
  BY <1>1, <1>2

\* Up to the first Delete, and again from the next Reset on, every owner finds
\* the component it was given and a kept reference is the address of its component.
THEOREM UnspoiledReadsBackPool == Spec => []UnspoiledReadsBack
<1>1. KeepInv => UnspoiledReadsBack
  BY DEF KeepInv
<1>. QED
  BY <1>1, KeepInductive, PTL DEF Spec

\* In the same stretches of a behaviour the class implements a map from entities
\* to components.
THEOREM Refinement == Spec => ImplementsComponentMap
<1> DEFINE Exact == Unspoiled => Stored = wanted
<1>1. KeepInv => Exact
  <2> SUFFICES ASSUME KeepInv, Unspoiled PROVE Stored = wanted
    OBVIOUS
  <2>1. wanted = [e \in DOMAIN wanted |-> wanted[e]]
    BY DEF KeepInv, IInv, TypeOK
  <2>. QED
    BY <2>1 DEF KeepInv, IInv, UnspoiledReadsBack, ReadsBack, Stored
<1>2. Init => Abstract!Init
  <2> SUFFICES ASSUME Init PROVE Stored = NoComponents
    BY DEF Abstract!Init, NoComponents
  <2>. QED
    BY <1>1, KeepInductive DEF Init, Stored
<1>3. IInv /\ Exact /\ Exact' /\ [Next]_vars => [Abstract!Next]_Stored
  <2> SUFFICES ASSUME IInv, Exact, Exact', [Next]_vars PROVE [Abstract!Next]_Stored
    OBVIOUS
  <2>0. /\ Stored = IF Unspoiled THEN wanted ELSE NoComponents
        /\ Stored' = IF Unspoiled' THEN wanted' ELSE NoComponents
    BY DEF Stored
  <2>1. ASSUME NEW et \in Entities, NEW c \in Components, wanted' = Store(et, c),
               Unspoiled' = Unspoiled
        PROVE  [Abstract!Next]_Stored
    BY <2>0, <2>1 DEF Store, Abstract!Next, Abstract!Put, Abstract!Owning
  <2>2. ASSUME ~Unspoiled' \/ wanted' = NoComponents PROVE Abstract!Next
    BY <2>0, <2>2 DEF NoComponents, Abstract!Next, Abstract!RemoveAll
  <2>3. ASSUME UNCHANGED <<pool, wanted>> PROVE UNCHANGED Stored
    BY <2>0, <2>3 DEF Unspoiled
  <2>. QED
    BY <2>1, <2>2, <2>3, StepKinds
<1>4. KeepInv => IInv
  BY DEF KeepInv
<1>. QED
  BY <1>1, <1>2, <1>3, <1>4, KeepInductive, PTL
     DEF Spec, ImplementsComponentMap, Abstract!Spec
-----------------------------------------------------------------------------
(***************************************************************************)
(* Pool::ForEach.                                                          *)
(***************************************************************************)
\* What is true of the iteration as long as no callback has deleted: the entities
\* that are no owners have not been visited, so that one of them that becomes an
\* owner, in a cell ahead, will be visited for the first time.
VisitsExact ==
  /\ walk.next <= pool.set.size
  /\ walk.inside => walk.next < pool.set.size
  /\ \A et \in Owners(pool) :
       walk.visits[et] = IF walk.over \/ Behind(et) THEN 1 ELSE 0
  /\ \A et \in Value \ Owners(pool) : walk.visits[et] = 0

WalkTypeOK ==
  /\ walk = [active |-> walk.active, inside |-> walk.inside, next |-> walk.next,
             moved |-> walk.moved, over |-> walk.over, visits |-> walk.visits,
             erased |-> walk.erased]
  /\ walk.next \in Nat
  /\ walk.visits \in [Value -> Nat]
  /\ walk.active \in BOOLEAN /\ walk.inside \in BOOLEAN
  /\ walk.over \in BOOLEAN /\ walk.erased \in BOOLEAN
  /\ walk.inside => walk.active
  /\ walk.active => ~walk.over

WalkInv ==
  /\ IInv
  /\ WalkTypeOK
  /\ (walk.active \/ walk.over) /\ ~walk.erased => VisitsExact

\* What the invariant says of the base set and of its owners' places.
LEMMA WalkFacts ==
  ASSUME IInv
  PROVE  /\ WellFormed(pool.set)
         /\ pool.set.size \in Nat /\ pool.set.size <= pool.set.capacity
         /\ pool.set.capacity \in Nat
         /\ pool.set.size <= Len(pool.components) /\ Len(pool.components) \in Nat
         /\ Owners(pool) \subseteq Value
         /\ \A i \in 0 .. (pool.set.size - 1) :
              /\ pool.set.dense[i] \in Owners(pool)
              /\ Place(pool, pool.set.dense[i]) = i + 1
         /\ \A et \in Owners(pool) : Place(pool, et) \in 1 .. pool.set.size
         /\ \A v, w \in Owners(pool) : Place(pool, v) = Place(pool, w) => v = w
<1>1. /\ PoolWellFormed(pool) /\ pool.components \in Seq(Components)
      /\ WellFormed(pool.set)
  BY Facts, IInv DEF PoolWellFormed, WellFormed
<1>2. /\ pool.set.size \in Nat /\ pool.set.capacity \in Nat
      /\ pool.set.size <= pool.set.capacity
      /\ pool.set.size <= Len(pool.components) /\ Len(pool.components) \in Nat
      /\ Owners(pool) \subseteq Value
  BY <1>1, LimitAssumption
     DEF PoolWellFormed, SparseTypeOK, Value, Owners, Members
<1>3. \A i \in 0 .. (pool.set.size - 1) : pool.set.dense[i] \in Owners(pool)
  BY <1>1, ListedIsMembers DEF Listed, Slots, Owners
<1>4. \A i \in 0 .. (pool.set.size - 1) : Place(pool, pool.set.dense[i]) = i + 1
  BY <1>1, <1>2 DEF PoolWellFormed, Coherent, Slots, Place
<1>5. \A et \in Owners(pool) : Place(pool, et) \in 1 .. pool.set.size
  BY <1>1, OwnerPlace
<1>6. \A v, w \in Owners(pool) : Place(pool, v) = Place(pool, w) => v = w
  BY <1>1, OwnersApart
<1>. QED
  BY <1>1, <1>2, <1>3, <1>4, <1>5, <1>6

\* What a call does to the base set: an entity is appended, nothing moves, or
\* there are fewer owners.
LEMMA CallKinds ==
  ASSUME IInv, [Next]_vars
  PROVE  \/ \E et \in Entities, c \in Components :
              /\ ~PoolHas(pool, et) /\ ~PoolAssignOverruns(pool, et)
              /\ pool' = PoolAssign(pool, et, c)
         \/ pool'.set = pool.set
         \/ /\ \E et \in Entities : Delete(et)
            /\ pool'.set.size = pool.set.size - 1
         \/ pool'.set.size = 0 /\ Owners(pool') = {}
<1>0. PoolWellFormed(pool) /\ Entities \subseteq Value /\ pool.components \in Seq(Components)
  BY Facts, IInv
<1>1. ASSUME NEW et \in Entities, Delete(et)
      PROVE  pool'.set.size = pool.set.size - 1
  <2>1. WellFormed(pool.set) /\ SparseHas(pool.set, et)
    BY <1>0, <1>1 DEF Delete, PoolHas, PoolWellFormed, WellFormed
  <2>2. pool'.set = SparseErase(pool.set, et)
    BY <1>0, <1>1 DEF Delete, PoolDelete, PoolWellFormed
  <2>. QED
    BY <1>0, <2>1, <2>2, EraseExact
<1>2. ASSUME NEW et \in Entities, NEW c \in Components, PoolHas(pool, et),
             pool' = PoolReplace(pool, et, c)
      PROVE  pool'.set = pool.set
  BY <1>0, <1>2, IInv, Facts, PoolReplaceExact
<1>3. CASE Reset
  BY <1>0, <1>3, PoolResetExact DEF Reset
<1>. QED
  BY <1>1, <1>2, <1>3, [Next]_vars
     DEF Next, Assign, AssignOverrun, Replace, AssignOrReplace, PoolAssignOrReplace,
         Get, Reserve, vars

\* A call of a callback that leaves no fewer owners keeps the iteration exact.
LEMMA CallKeepsExact ==
  ASSUME IInv, WalkTypeOK, VisitsExact, walk.inside, [Next]_vars,
         pool'.set.size >= pool.set.size,
         walk'.next = walk.next, walk'.visits = walk.visits,
         walk'.inside = walk.inside, walk'.over = walk.over
  PROVE  VisitsExact'
<1>0. /\ pool.set.size \in Nat /\ walk.next \in Nat /\ walk.next < pool.set.size
      /\ Owners(pool) \subseteq Value
  BY WalkFacts, IInv, WalkTypeOK, VisitsExact, walk.inside DEF WalkTypeOK, VisitsExact
<1>1. CASE pool'.set = pool.set
  <2>1. /\ Owners(pool') = Owners(pool)
        /\ \A et : Place(pool', et) = Place(pool, et)
    BY <1>1 DEF Owners, Place
  <2>. QED
    BY <1>1, <2>1, VisitsExact DEF VisitsExact, Behind
<1>2. ASSUME NEW et \in Entities, NEW c \in Components, ~PoolHas(pool, et),
             ~PoolAssignOverruns(pool, et), pool' = PoolAssign(pool, et, c)
      PROVE  VisitsExact'
  <2>1. /\ Owners(pool') = Owners(pool) \cup {et}
        /\ pool'.set.size = pool.set.size + 1
    BY <1>2, IInv, Facts, PoolAssignExact
  <2>2. /\ Place(pool', et) = pool.set.size + 1
        /\ \A w \in Owners(pool) : Place(pool', w) = Place(pool, w)
    BY <1>2, IInv, AssignPlaces
  <2>3. et \in Value /\ et \notin Owners(pool)
    BY <1>2, IInv, Facts DEF PoolHas, Owners, Members
  <2>4. walk'.visits[et] = 0 /\ ~walk'.over /\ ~Behind(et)'
    BY <1>0, <2>2, <2>3, VisitsExact, WalkTypeOK, walk.inside
       DEF VisitsExact, WalkTypeOK, Behind
  <2>5. \A w \in Owners(pool) : Behind(w)' = Behind(w)
    BY <2>2 DEF Behind
  <2>6. /\ \A w \in Owners(pool') :
             walk'.visits[w] = IF walk'.over \/ Behind(w)' THEN 1 ELSE 0
        /\ \A w \in Value \ Owners(pool') : walk'.visits[w] = 0
    BY <2>1, <2>3, <2>4, <2>5, VisitsExact DEF VisitsExact
  <2>7. /\ walk'.next <= pool'.set.size
        /\ walk'.inside => walk'.next < pool'.set.size
    BY <1>0, <2>1
  <2>. QED
    BY <2>6, <2>7 DEF VisitsExact
<1>. QED
  BY <1>0, <1>1, <1>2, IInv, CallKinds

-----------------------------------------------------------------------------
LEMMA WalkInductive ==
  /\ WalkInit => WalkInv
  /\ WalkInv /\ [WalkNext]_walkVars => WalkInv'
<1>1. WalkInit => WalkInv
  BY Inductive, LimitAssumption
     DEF WalkInit, NotWalking, WalkInv, WalkTypeOK, Value
<1>2. WalkInv /\ [WalkNext]_walkVars => WalkInv'
  <2> SUFFICES ASSUME WalkInv, [WalkNext]_walkVars PROVE WalkInv'
    OBVIOUS
  <2> USE DEF WalkInv
  <2>0. ASSUME UNCHANGED vars PROVE /\ IInv' /\ pool' = pool
                                    /\ Owners(pool)' = Owners(pool)
    BY <2>0, Inductive DEF vars
  <2>1. CASE StartForEach
    <3>1. /\ walk'.next = 0 /\ ~walk'.inside /\ walk'.active /\ ~walk'.over
          /\ ~walk'.erased /\ walk'.visits = [et \in Value |-> 0]
      BY <2>1 DEF StartForEach, NotWalking
    <3>2. WalkTypeOK'
      BY <2>1, <3>1 DEF StartForEach, NotWalking, WalkTypeOK
    <3>3. IInv' /\ pool' = pool
      BY <2>0, <2>1 DEF StartForEach
    <3>4. \A et \in Owners(pool) : ~Behind(et)'
      BY <3>1, <3>3, WalkFacts DEF Behind
    <3>5. VisitsExact'
      BY <3>1, <3>3, <3>4, WalkFacts DEF VisitsExact
    <3>. QED
      BY <3>2, <3>3, <3>5
  <2>2. CASE Visit
    <3> DEFINE et == pool.set.dense[walk.next]
               seen == [walk.visits EXCEPT ![et] = @ + 1]
    <3>0. IInv' /\ pool' = pool /\ ~walk.inside /\ walk.active
      BY <2>0, <2>2 DEF Visit
    <3>1. walk' = [walk EXCEPT !.inside = TRUE, !.visits = seen]
      BY <2>2 DEF Visit
    <3> HIDE DEF seen
    <3>2. /\ walk'.next = walk.next /\ walk'.inside = TRUE
          /\ walk'.active = walk.active /\ walk'.moved = walk.moved
          /\ walk'.over = walk.over /\ walk'.erased = walk.erased
          /\ walk'.visits = seen
          /\ walk' = [active |-> walk'.active, inside |-> walk'.inside,
                      next |-> walk'.next, moved |-> walk'.moved, over |-> walk'.over,
                      visits |-> walk'.visits, erased |-> walk'.erased]
      BY <3>1 DEF WalkTypeOK
    <3>a. seen \in [Value -> Nat]
      <4>1. walk.visits \in [Value -> Nat]
        BY DEF WalkTypeOK
      <4>2. \A v \in Value : seen[v] \in Nat
        BY <4>1 DEF seen
      <4>. QED
        BY <4>1, <4>2 DEF seen
    <3>3. WalkTypeOK'
      BY <3>0, <3>2, <3>a DEF WalkTypeOK
    <3>4. ASSUME ~walk.erased PROVE VisitsExact'
      <4>0. VisitsExact /\ walk.next \in Nat /\ ~walk.over
        BY <3>0, <3>4 DEF WalkTypeOK
      <4>1. walk.next < pool.set.size
        BY <2>2, <4>0, WalkFacts DEF Visit, AtEnd, VisitsExact
      <4>2. et \in Owners(pool) /\ Place(pool, et) = walk.next + 1 /\ et \in Value
        BY <4>0, <4>1, WalkFacts
      <4>3. ~Behind(et) /\ Behind(et)'
        BY <3>0, <3>2, <4>0, <4>2 DEF Behind
      <4>4. ASSUME NEW w \in Owners(pool), w # et PROVE Behind(w)' = Behind(w)
        <5>1. Place(pool, w) # walk.next + 1 /\ Place(pool, w) \in Nat
          BY <4>2, <4>4, WalkFacts
        <5>. QED
          BY <3>0, <3>2, <4>0, <5>1 DEF Behind
      <4>5. /\ walk'.visits[et] = 1
            /\ \A w \in Value : w # et => walk'.visits[w] = walk.visits[w]
        BY <3>2, <4>0, <4>2, <4>3 DEF VisitsExact, WalkTypeOK, seen
      <4>6. Owners(pool') = Owners(pool) /\ Owners(pool) \subseteq Value
        BY <3>0, WalkFacts
      <4> HIDE DEF et
      <4>7. ASSUME NEW w \in Owners(pool)
            PROVE  walk'.visits[w] = IF walk'.over \/ Behind(w)' THEN 1 ELSE 0
        <5>1. CASE w = et
          <6>1. Behind(w)'
            BY <3>0, <3>2, <4>0, <4>2, <5>1 DEF Behind
          <6>. QED
            BY <4>5, <5>1, <6>1
        <5>2. CASE w # et
          <6>1. walk'.visits[w] = walk.visits[w] /\ Behind(w)' = Behind(w)
            BY <4>4, <4>5, <4>6, <5>2
          <6>2. walk.visits[w] = IF walk.over \/ Behind(w) THEN 1 ELSE 0
            BY <4>0 DEF VisitsExact
          <6>. QED
            BY <3>2, <6>1, <6>2
        <5>. QED
          BY <5>1, <5>2
      <4>8. \A w \in Value \ Owners(pool) : walk'.visits[w] = 0
        BY <4>0, <4>2, <4>5 DEF VisitsExact
      <4>9. walk'.next <= pool'.set.size /\ walk'.next < pool'.set.size
        BY <3>0, <3>2, <4>0, <4>1, WalkFacts
      <4>. QED
        BY <4>6, <4>7, <4>8, <4>9 DEF VisitsExact
    <3>. QED
      BY <3>0, <3>2, <3>3, <3>4
  <2>3. CASE VisitOutside
    <3>1. /\ pool' = pool /\ walk' = walk /\ IInv'
      BY <2>3 DEF VisitOutside, IInv, TypeOK
    <3>. QED
      BY <3>1 DEF WalkTypeOK, VisitsExact, Behind
  <2>4. CASE CallbackReturns
    <3>1. /\ IInv' /\ pool' = pool /\ walk.inside
          /\ walk' = [walk EXCEPT !.inside = FALSE, !.next = @ + 1]
      BY <2>0, <2>4 DEF CallbackReturns
    <3>2. /\ walk'.next = walk.next + 1 /\ walk'.inside = FALSE
          /\ walk'.active = walk.active /\ walk'.moved = walk.moved
          /\ walk'.over = walk.over /\ walk'.erased = walk.erased
          /\ walk'.visits = walk.visits /\ walk.next \in Nat
          /\ walk' = [active |-> walk'.active, inside |-> walk'.inside,
                      next |-> walk'.next, moved |-> walk'.moved, over |-> walk'.over,
                      visits |-> walk'.visits, erased |-> walk'.erased]
      BY <3>1 DEF WalkTypeOK
    <3>3. WalkTypeOK'
      <4>1. /\ walk.active /\ walk.active \in BOOLEAN /\ ~walk.over
            /\ walk.over \in BOOLEAN /\ walk.erased \in BOOLEAN
            /\ walk.visits \in [Value -> Nat]
        BY <3>1 DEF WalkTypeOK
      <4>2. walk.next + 1 \in Nat
        BY <3>2
      <4>. QED
        BY <3>2, <4>1, <4>2 DEF WalkTypeOK
    <3>4. \A w : Behind(w)' = Behind(w)
      BY <3>1, <3>2 DEF Behind
    <3>5. ASSUME VisitsExact PROVE VisitsExact'
      BY <3>1, <3>2, <3>4, <3>5, WalkFacts DEF VisitsExact
    <3>. QED
      BY <3>1, <3>2, <3>3, <3>5
  <2>5. CASE EndForEach
    <3>1. /\ IInv' /\ pool' = pool /\ ~walk.inside /\ walk.active
          /\ walk.next = pool.set.size
          /\ walk' = [walk EXCEPT !.active = FALSE, !.over = TRUE]
      BY <2>0, <2>5 DEF EndForEach, AtEnd
    <3>2. /\ walk'.next = walk.next /\ walk'.inside = walk.inside /\ ~walk'.active
          /\ walk'.over /\ walk'.erased = walk.erased /\ walk'.visits = walk.visits
      BY <3>1, <2>5 DEF EndForEach, WalkTypeOK
    <3>3. WalkTypeOK'
      BY <2>5, <3>1, <3>2 DEF EndForEach, WalkTypeOK
    <3>4. \A et \in Owners(pool) : Behind(et)
      BY <3>1, WalkFacts DEF Behind
    <3>5. ASSUME VisitsExact PROVE VisitsExact'
      BY <3>1, <3>2, <3>4, <3>5 DEF VisitsExact
    <3>. QED
      BY <3>1, <3>2, <3>3, <3>5
  <2>6. CASE OutsideCall
    <3>1. IInv' /\ walk' = walk /\ ~walk.active /\ ~walk.over
      BY <2>6, Inductive DEF OutsideCall
    <3>. QED
      BY <3>1 DEF WalkTypeOK
  <2>7. CASE CallbackCall
    <3>1. IInv' /\ walk.inside /\ Next
      BY <2>7, Inductive DEF CallbackCall
    <3> DEFINE fewer == walk.erased \/ pool'.set.size < pool.set.size
    <3>2. PICK moved : walk' = [walk EXCEPT !.moved = moved, !.erased = fewer]
      BY <2>7 DEF CallbackCall
    <3> HIDE DEF fewer
    <3>3. /\ walk'.next = walk.next /\ walk'.inside = walk.inside
          /\ walk'.active = walk.active /\ walk'.over = walk.over
          /\ walk'.visits = walk.visits
          /\ walk'.erased = fewer
          /\ walk' = [active |-> walk'.active, inside |-> walk'.inside,
                      next |-> walk'.next, moved |-> walk'.moved, over |-> walk'.over,
                      visits |-> walk'.visits, erased |-> walk'.erased]
      BY <3>2 DEF WalkTypeOK
    <3>a. /\ fewer \in BOOLEAN
          /\ ~fewer => ~walk.erased /\ ~(pool'.set.size < pool.set.size)
      BY DEF fewer, WalkTypeOK
    <3>4. WalkTypeOK'
      BY <3>3, <3>a DEF WalkTypeOK
    <3>5. ASSUME VisitsExact, ~walk'.erased PROVE VisitsExact'
      <4>1. pool'.set.size >= pool.set.size
        <5>1. pool'.set.size \in Nat /\ pool.set.size \in Nat
          BY <3>1, LimitAssumption DEF IInv, PoolWellFormed, SparseTypeOK, Value
        <5>. QED
          BY <3>3, <3>5, <3>a, <5>1
      <4>. QED
        BY <3>1, <3>3, <3>5, <4>1, CallKeepsExact
    <3>. QED
      BY <3>1, <3>3, <3>a, <3>4, <3>5
  <2>8. CASE UNCHANGED walkVars
    <3>1. UNCHANGED vars /\ walk' = walk
      BY <2>8 DEF walkVars, vars
    <3>2. IInv' /\ pool' = pool
      BY <2>0, <3>1
    <3>. QED
      BY <3>1, <3>2 DEF WalkTypeOK, VisitsExact, Behind
  <2>. QED
    BY <2>1, <2>2, <2>3, <2>4, <2>5, <2>6, <2>7, <2>8 DEF WalkNext
<1>. QED
  BY <1>1, <1>2

\* As long as the callbacks delete nothing ForEach calls them once for every
\* owner, the ones they add included.
THEOREM VisitsAreExact == WalkSpec => []VisitedAsListed
<1>1. WalkInv => VisitedAsListed
  BY DEF WalkInv, VisitsExact, VisitedAsListed
<1>. QED
  BY <1>1, WalkInductive, PTL DEF WalkSpec

\* What a Delete does to the places of the other owners: the last one takes the place
\* that becomes free.
LEMMA DeletePlaces ==
  ASSUME IInv, NEW gone \in Entities, Delete(gone)
  PROVE  /\ gone \in Owners(pool)
         /\ Owners(pool') = Owners(pool) \ {gone}
         /\ pool'.set.size = pool.set.size - 1
         /\ \A et \in Owners(pool') :
              Place(pool', et) = IF Place(pool, et) = pool.set.size
                                 THEN Place(pool, gone) ELSE Place(pool, et)
<1>0. /\ PoolWellFormed(pool) /\ WellFormed(pool.set) /\ gone \in Value
      /\ pool.set.size \in Nat
      /\ \A et \in Owners(pool) : Place(pool, et) \in 1 .. pool.set.size
  BY Facts, WalkFacts, IInv
<1>1. gone \in Owners(pool) /\ pool' = PoolDelete(pool, gone)
  BY <1>0, Delete(gone), WalkFacts, IInv
     DEF Delete, PoolHas, SparseHas, Owners, Members, WellFormed, SparseTypeOK, Value
<1>2. Owners(pool') = Owners(pool) \ {gone}
  BY <1>0, <1>1, PoolDeleteExact
<1>3. pool'.set = SparseErase(pool.set, gone)
  BY <1>0, <1>1 DEF PoolDelete, PoolWellFormed
<1>5. pool'.set.size = pool.set.size - 1
  BY <1>0, <1>1, <1>3, EraseExact DEF Owners, Members
<1>6. ASSUME NEW et \in Owners(pool')
      PROVE  Place(pool', et) = IF Place(pool, et) = pool.set.size
                                THEN Place(pool, gone) ELSE Place(pool, et)
  <2>1. et \in Owners(pool) /\ et # gone
    BY <1>2, <1>6
  <2>2. pool'.set.sparse[et] = IF pool.set.sparse[et] = pool.set.size - 1
                               THEN pool.set.sparse[gone] ELSE pool.set.sparse[et]
    BY <1>0, <1>1, <1>3, <2>1, ErasePlaces DEF Owners
  <2>3. pool.set.sparse[et] \in Int
    BY <1>0, <2>1, PlacesAreSlots DEF Owners, Slots
  <2>4. pool.set.sparse[et] + 1 = pool.set.size <=> pool.set.sparse[et] = pool.set.size - 1
    BY <1>0, <2>3
  <2>. QED
    BY <2>2, <2>4 DEF Place
<1>. QED
  BY <1>1, <1>2, <1>5, <1>6

\* With callbacks that delete, too, ForEach passes over an owner only when it is taken
\* back, and meets none again, until the iterator has stepped over the end.
THEOREM MissesAreTakenBack == WalkSpec => MissedOnlyIfTakenBack
<1> DEFINE Counted(et) ==
      Meetings(et)' = Meetings(et) - (IF TakenBack(et) THEN 1 ELSE 0)
<1>1. ASSUME WalkInv, [WalkNext]_walkVars, walk.active, walk'.active,
             walk.next <= pool.set.size,
             NEW et \in Owners(pool), et \in Owners(pool')
      PROVE  Counted(et)
  <2>0. /\ IInv /\ WalkTypeOK /\ et \in Value
        /\ walk.next \in Nat /\ walk.visits[et] \in Nat
        /\ pool.set.size \in Nat /\ Place(pool, et) \in 1 .. pool.set.size
    BY <1>1, WalkFacts DEF WalkInv, WalkTypeOK
  <2>1. ASSUME walk'.visits[et] = walk.visits[et], Behind(et)' = Behind(et),
               ~TakenBack(et)
        PROVE  Counted(et)
    BY <2>0, <2>1 DEF Meetings
  <2>2. ASSUME pool' = pool PROVE ~TakenBack(et)
    BY <2>0, <2>2, DeletePlaces DEF TakenBack
  <2>3. CASE Visit
    <3> DEFINE seen == pool.set.dense[walk.next]
    <3>1. /\ pool' = pool /\ ~walk.inside /\ walk.next # pool.set.size
          /\ walk' = [walk EXCEPT !.inside = TRUE, !.visits[seen] = @ + 1]
      BY <2>3 DEF Visit, vars, AtEnd
    <3>2. walk'.next = walk.next /\ walk'.inside = TRUE
          /\ walk'.visits = [walk.visits EXCEPT ![seen] = @ + 1]
      BY <2>0, <3>1 DEF WalkTypeOK
    <3>3. seen \in Owners(pool) /\ Place(pool, seen) = walk.next + 1
      BY <1>1, <2>0, <3>1, WalkFacts
    <3>4. ~TakenBack(et)
      BY <2>2, <3>1
    <3>5. CASE et = seen
      <4>1. walk'.visits[et] = walk.visits[et] + 1
        BY <2>0, <3>2, <3>5 DEF WalkTypeOK
      <4>2. ~Behind(et) /\ Behind(et)'
        BY <2>0, <3>1, <3>2, <3>3, <3>5 DEF Behind
      <4>. QED
        BY <2>0, <3>4, <4>1, <4>2 DEF Meetings
    <3>6. CASE et # seen
      <4>1. walk'.visits[et] = walk.visits[et]
        BY <2>0, <3>2, <3>6 DEF WalkTypeOK
      <4>2. Place(pool, et) # walk.next + 1
        BY <2>0, <3>3, <3>6, WalkFacts
      <4>3. Behind(et)' = Behind(et)
        BY <2>0, <3>1, <3>2, <4>2 DEF Behind
      <4>. QED
        BY <2>1, <3>4, <4>1, <4>3
    <3>. QED
      BY <3>5, <3>6
  <2>4. CASE CallbackReturns
    <3>1. /\ pool' = pool /\ walk.inside
          /\ walk' = [walk EXCEPT !.inside = FALSE, !.next = @ + 1]
      BY <2>4 DEF CallbackReturns, vars
    <3>2. walk'.next = walk.next + 1 /\ walk'.inside = FALSE /\ walk'.visits = walk.visits
      BY <2>0, <3>1 DEF WalkTypeOK
    <3>3. Behind(et)' = Behind(et)
      BY <2>0, <3>1, <3>2 DEF Behind
    <3>. QED
      BY <2>1, <2>2, <3>1, <3>2, <3>3
  <2>5. CASE CallbackCall
    <3>1. /\ Next /\ walk.inside /\ walk'.next = walk.next /\ walk'.inside = walk.inside
          /\ walk'.visits = walk.visits
      BY <2>0, <2>5 DEF CallbackCall, WalkTypeOK
    <3>2. ASSUME Place(pool', et) = Place(pool, et), pool'.set.size # pool.set.size - 1
          PROVE  Counted(et)
      <4>1. ~TakenBack(et)
        BY <2>0, <3>2, DeletePlaces DEF TakenBack
      <4>2. Behind(et)' = Behind(et)
        BY <3>1, <3>2 DEF Behind
      <4>. QED
        BY <2>1, <3>1, <4>1, <4>2
    <3>3. CASE pool'.set = pool.set
      BY <2>0, <3>2, <3>3 DEF Place
    <3>4. ASSUME NEW e \in Entities, NEW c \in Components, ~PoolHas(pool, e),
                 ~PoolAssignOverruns(pool, e), pool' = PoolAssign(pool, e, c)
          PROVE  Counted(et)
      <4>1. Place(pool', et) = Place(pool, et)
        BY <1>1, <2>0, <3>4, AssignPlaces
      <4>2. pool'.set.size = pool.set.size + 1
        BY <2>0, <3>4, Facts, PoolAssignExact
      <4>. QED
        BY <2>0, <3>2, <4>1, <4>2
    <3>5. ASSUME NEW gone \in Entities, Delete(gone) PROVE Counted(et)
      <4>1. /\ gone \in Owners(pool) /\ Place(pool, gone) \in 1 .. pool.set.size
            /\ gone # et
            /\ Place(pool', et) = IF Place(pool, et) = pool.set.size
                                  THEN Place(pool, gone) ELSE Place(pool, et)
        BY <1>1, <2>0, <3>5, DeletePlaces, WalkFacts
      <4>2. ASSUME NEW e \in Entities, Delete(e) PROVE e = gone
        BY <2>0, <3>5, <4>1, <4>2, DeletePlaces
      <4>3. TakenBack(et) <=>
              ~Behind(et) /\ Place(pool, et) = pool.set.size /\ Behind(gone)
        BY <3>5, <4>1, <4>2 DEF TakenBack
      <4>4. Behind(et)' <=> Place(pool', et) <= walk.next + 1
        BY <3>1 DEF Behind
      <4>5. /\ Behind(et) <=> Place(pool, et) <= walk.next + 1
            /\ Behind(gone) <=> Place(pool, gone) <= walk.next + 1
        BY <3>1 DEF Behind
      <4>6. CASE TakenBack(et)
        <5>1. ~Behind(et) /\ Behind(et)'
          BY <4>1, <4>3, <4>4, <4>5, <4>6
        <5>. QED
          BY <2>0, <3>1, <4>6, <5>1 DEF Meetings
      <4>7. CASE ~TakenBack(et)
        <5>1. Behind(et)' <=> Behind(et)
          BY <2>0, <4>1, <4>3, <4>4, <4>5, <4>7
        <5>. QED
          BY <2>0, <3>1, <4>7, <5>1 DEF Meetings
      <4>. QED
        BY <4>6, <4>7
    <3>. QED
      BY <1>1, <2>0, <3>1, <3>3, <3>4, <3>5, CallKinds
  <2>6. CASE VisitOutside \/ UNCHANGED walkVars
    <3>1. pool' = pool /\ walk' = walk
      BY <2>6 DEF VisitOutside, walkVars
    <3>. QED
      BY <2>1, <2>2, <3>1 DEF Behind
  <2>7. ~StartForEach /\ ~EndForEach /\ ~OutsideCall
    BY <1>1, <2>0 DEF StartForEach, EndForEach, OutsideCall, WalkTypeOK
  <2>. QED
    BY <1>1, <2>3, <2>4, <2>5, <2>6, <2>7 DEF WalkNext
<1>2. WalkInv /\ [WalkNext]_walkVars =>
        (walk.active /\ walk'.active /\ walk.next <= pool.set.size =>
           \A et \in Owners(pool) \cap Owners(pool') : Counted(et))
  BY <1>1
<1>. QED
  BY <1>2, WalkInductive, PTL DEF WalkSpec, MissedOnlyIfTakenBack

\* The program breaks the memory in three ways only: vectors that have moved under
\* the iterator, an iterator that has stepped over the end, an assignment to the
\* largest entity.
THEOREM CausesOfWalkUBAreThree == WalkSpec => CausesOfWalkUB
<1> DEFINE Cause ==
      IF walk.active /\ ~walk.inside
      THEN walk.moved \/ walk.next > pool.set.size
      ELSE \A et \in Entities : PoolAssignOverruns(pool, et) => et = Limit - 1
<1>1. ASSUME WalkInv, [WalkNext]_walkVars, ub', ~ub PROVE Cause
  <2>1. \A et \in Entities : PoolAssignOverruns(pool, et) => et = Limit - 1
    BY <1>1, Facts, WalkFacts, RoomLeft DEF PoolAssignOverruns, WalkInv
  <2>2. CASE VisitOutside
    <3>1. /\ walk.active /\ ~walk.inside
          /\ walk.moved \/ (walk.next # pool.set.size /\ ~Readable)
      BY <2>2 DEF VisitOutside, AtEnd
    <3>2. walk.next < pool.set.size => Readable
      BY <1>1, WalkFacts DEF Readable, WalkInv, WalkTypeOK
    <3>3. walk.next \in Nat /\ pool.set.size \in Nat
      BY <1>1, WalkFacts DEF WalkInv, WalkTypeOK
    <3>. QED
      BY <3>1, <3>2, <3>3
  <2>3. CASE OutsideCall \/ CallbackCall
    <3>1. ~(walk.active /\ ~walk.inside)
      BY <2>3 DEF OutsideCall, CallbackCall
    <3>. QED
      BY <2>1, <3>1
  <2>. QED
    BY <1>1, <2>2, <2>3
       DEF WalkNext, StartForEach, Visit, CallbackReturns, EndForEach, walkVars, vars
<1>2. WalkInv /\ [WalkNext]_walkVars => (ub' /\ ~ub => Cause)
  BY <1>1
<1>. QED
  BY <1>2, WalkInductive, PTL DEF WalkSpec, CausesOfWalkUB
=============================================================================
