------------------------- MODULE EntityManagerProofs -------------------------
(***************************************************************************)
(* The properties of EntityManager, for every width of EntityType, every   *)
(* set of component types and every bound of the model.                    *)
(***************************************************************************)
EXTENDS EntityManager, StorageTheorems

(***************************************************************************)
(* The inductive invariant.  Base is about the manager between two calls   *)
(* and in the middle of an iteration alike.                                *)
(***************************************************************************)
PoolFits(p, live) ==
  PoolWellFormed(p) /\ p.components \in Seq(Ids) /\ Owners(p) \subseteq live

Base ==
  /\ WellFormed(entities)
  /\ SparseTypeOK(deleted)
  /\ ett \in 0 .. MaxEntities
  /\ Registered \subseteq ComponentTypes
  /\ \A c \in Registered : PoolFits(pools[c], Live)
  /\ Live \subseteq 0 .. (ett - 1)
  /\ Listed(deleted) \subseteq 0 .. (ett - 1)
  /\ IdsAccounted
  /\ FreeIdsUnused
  /\ elsewhere \subseteq 0 .. (ett - 1)
  /\ IdsNotShared
  /\ ub \in BOOLEAN

\* The entities ahead of a running iteration are distinct, exist and are not
\* placed behind the place they are listed at; so erasing, which writes at or
\* before the current place only, does not touch what is ahead.
LoopInv ==
  loop.active =>
    /\ loop.end <= entities.capacity
    /\ \A k \in loop.next .. (loop.end - 1) :
         /\ entities.dense[k] \in Live
         /\ entities.sparse[entities.dense[k]] <= k
    /\ \A k, m \in loop.next .. (loop.end - 1) :
         entities.dense[k] = entities.dense[m] => k = m
    /\ \A et \in Live : OwnsAll(et, loop.types) <=> et \in loop.doomed
    /\ loop.spared \cap loop.doomed = {}
    /\ Live = loop.spared \cup (loop.doomed \cap Ahead)

IInv == Base /\ LoopOK /\ LoopInv

-----------------------------------------------------------------------------
LEMMA HasIsMember ==
  ASSUME NEW s, SparseTypeOK(s), NEW v \in Nat
  PROVE  SparseHas(s, v) <=> v \in Members(s)
BY LimitAssumption, SparseTypeOK(s) DEF SparseTypeOK, SparseHas, Members, Value

LEMMA IdsAreValues == Ids \subseteq Value \ {Limit - 1} /\ Ids \subseteq Nat
BY MaxEntitiesAssumption, LimitAssumption DEF Ids, Value

LEMMA BaseFacts ==
  ASSUME Base
  PROVE  /\ SparseTypeOK(entities) /\ Coherent(entities)
         /\ 0 .. (ett - 1) \subseteq Ids
         /\ Live \subseteq Ids /\ Listed(deleted) \subseteq Ids
         /\ \A et \in Ids : Exists(et) <=> et \in Live
         /\ \A et \in Ids : ~InsertOverruns(entities, et)
         /\ \A c \in Registered, et \in Ids :
              PoolHas(pools[c], et) <=> et \in Owners(pools[c])
<1>1. 0 .. (ett - 1) \subseteq Ids
  BY Base, MaxEntitiesAssumption DEF Base, Ids
<1>2. \A et \in Ids : Exists(et) <=> et \in Live
  BY HasIsMember, IdsAreValues, Base DEF Base, WellFormed, Exists, Live
<1>3. \A et \in Ids : ~InsertOverruns(entities, et)
  BY RoomLeft, IdsAreValues, Base DEF Base
<1>4. \A c \in Registered, et \in Ids : PoolHas(pools[c], et) <=> et \in Owners(pools[c])
  BY HasIsMember, IdsAreValues, Base
     DEF Base, PoolFits, PoolWellFormed, PoolHas, Owners
<1>. QED
  BY <1>1, <1>2, <1>3, <1>4, Base DEF Base, WellFormed

\* The counter: below its largest value it gives an id and goes on, at its largest
\* value no set has a place for what it gives.
LEMMA CountOne ==
  ASSUME Base, Countable
  PROVE  /\ ett # Limit - 1 =>
              ett \in Ids /\ (ett + 1) % Limit = ett + 1 /\ ett + 1 \in 0 .. MaxEntities
         /\ ett = Limit - 1 => InsertOverruns(entities, ett)
<1>1. /\ Limit \in Nat /\ Limit > 0 /\ MaxEntities \in Nat /\ MaxEntities < Limit
      /\ ett \in 0 .. MaxEntities
  BY MaxEntitiesAssumption, LimitAssumption, Base DEF Base
<1>2. ASSUME ett # Limit - 1
      PROVE  ett \in Ids /\ (ett + 1) % Limit = ett + 1 /\ ett + 1 \in 0 .. MaxEntities
  <2>1. ett < MaxEntities
    BY <1>2, Countable DEF Countable
  <2>. QED
    BY <1>1, <2>1 DEF Ids
<1>3. ASSUME ett = Limit - 1 PROVE InsertOverruns(entities, ett)
  <2>1. entities.capacity \in 0 .. (Limit - 1)
    BY Base DEF Base, WellFormed, SparseTypeOK, Value
  <2>2. (ett + 1) % Limit = 0
    BY <1>1, <1>3
  <2>3. RoomFor(entities, ett) = entities
    BY <1>1, <2>1, <2>2 DEF RoomFor, SparseReserve
  <2>. QED
    BY <1>1, <1>3, <2>1, <2>3 DEF InsertOverruns, SparseHas
<1>. QED
  BY <1>2, <1>3

\* A create that breaks the memory leaves the manager as it was.
LEMMA BrokenCreate ==
  ASSUME IInv, ub' = TRUE, UNCHANGED <<entities, deleted, ett, elsewhere, pools, loop>>
  PROVE  IInv'
<1>1. Live' = Live /\ Registered' = Registered
  BY UNCHANGED <<entities, deleted, ett, elsewhere, pools, loop>> DEF Live, Registered
<1>. QED
  BY <1>1, IInv, ub' = TRUE, UNCHANGED <<entities, deleted, ett, elsewhere, pools, loop>>
     DEF IInv, Base, IdsAccounted, FreeIdsUnused, HeadLost, IdsNotShared, LoopOK,
         LoopInv, Ahead, OwnsAll

\* A step that only puts a fitting pool keeps Base.
LEMMA PoolStep ==
  ASSUME Base, NEW c \in ComponentTypes, NEW p, PoolFits(p, Live),
         pools' = WithPool(c, p), UNCHANGED <<entities, deleted, ett, elsewhere>>,
         ~ub, ub' \in BOOLEAN
  PROVE  Base'
<1>1. /\ DOMAIN pools' = Registered \cup {c}
      /\ \A d \in Registered \cup {c} : pools'[d] = IF d = c THEN p ELSE pools[d]
  BY pools' = WithPool(c, p) DEF WithPool
<1>2. Live' = Live /\ Listed(deleted)' = Listed(deleted)
  BY UNCHANGED <<entities, deleted, ett, elsewhere>> DEF Live
<1>3. \A d \in Registered' : PoolFits(pools'[d], Live')
  BY <1>1, <1>2, Base, PoolFits(p, Live) DEF Base, Registered
<1>4. Registered' \subseteq ComponentTypes
  BY <1>1, Base DEF Base, Registered
<1>5. IdsAccounted' /\ FreeIdsUnused' /\ IdsNotShared'
  BY <1>2, Base, ~ub, UNCHANGED <<entities, deleted, ett, elsewhere>>
     DEF Base, IdsAccounted, FreeIdsUnused, HeadLost, IdsNotShared
<1>. QED
  BY <1>2, <1>3, <1>4, <1>5, Base, ub' \in BOOLEAN,
     UNCHANGED <<entities, deleted, ett, elsewhere>>
     DEF Base

\* A call that creates entity et keeps Base.
LEMMA CreateStep ==
  ASSUME Base, NEW et \in Ids, ~ub, ub' = InsertOverruns(entities, et),
         entities' = IF ub' THEN entities ELSE SparseInsert(entities, et),
         UNCHANGED pools
  PROVE  /\ ub' = FALSE
         /\ WellFormed(entities') /\ Live' = Live \cup {et}
         /\ entities'.size = IF et \in Live THEN entities.size ELSE entities.size + 1
         /\ Registered' = Registered
         /\ \A c \in Registered' : PoolFits(pools'[c], Live')
<1>1. /\ ub' = FALSE /\ entities' = SparseInsert(entities, et)
      /\ et \in Value /\ WellFormed(entities)
      /\ SparseHas(entities, et) <=> et \in Live
  BY BaseFacts, IdsAreValues, Base, ub' = InsertOverruns(entities, et),
     entities' = IF ub' THEN entities ELSE SparseInsert(entities, et)
     DEF Base, Exists
<1>2. /\ WellFormed(entities') /\ Live' = Live \cup {et}
      /\ entities'.size = IF et \in Live THEN entities.size ELSE entities.size + 1
  BY <1>1, BaseFacts, InsertExact, Base DEF Live
<1>3. Registered' = Registered
  BY UNCHANGED pools DEF Registered
<1>4. \A c \in Registered' : PoolFits(pools'[c], Live')
  BY <1>2, <1>3, Base, UNCHANGED pools DEF Base, PoolFits
<1>. QED
  BY <1>1, <1>2, <1>3, <1>4

\* What destroying one existing entity does.
LEMMA DestroyExact ==
  ASSUME Base, NEW et \in Live, DestroyEffect(et)
  PROVE  /\ WellFormed(entities') /\ Live' = Live \ {et}
         /\ entities'.capacity = entities.capacity
         /\ entities' = SparseErase(entities, et)
         /\ entities'.size = entities.size - 1
         /\ Registered' = Registered
         /\ \A c \in Registered :
              /\ PoolFits(pools'[c], Live')
              /\ Owners(pools'[c]) = Owners(pools[c]) \ {et}
         /\ ub' \in BOOLEAN
         /\ SparseTypeOK(deleted')
         /\ Listed(deleted) \subseteq Listed(deleted')
         /\ Listed(deleted') \subseteq Listed(deleted) \cup {et}
         /\ ~ub' => et \in Listed(deleted')
         /\ Coherent(deleted) => Coherent(deleted') /\ ~ub'
         /\ Broken(deleted) => Broken(deleted') /\ deleted'.dense[0] = deleted.dense[0]
<1> USE DEF DestroyEffect
<1>1. /\ et \in Ids /\ et \in Value /\ et \in Nat /\ et # Limit - 1
      /\ WellFormed(entities) /\ SparseTypeOK(deleted) /\ SparseHas(entities, et)
  BY BaseFacts, IdsAreValues, Base DEF Base, Exists
<1>2. /\ WellFormed(entities') /\ Live' = Live \ {et}
      /\ entities'.capacity = entities.capacity
      /\ entities'.size = entities.size - 1
  BY <1>1, EraseExact, DestroyEffect(et) DEF Live
<1>3. Registered' = Registered
  BY DestroyEffect(et) DEF Registered
<1>4. ASSUME NEW c \in Registered
      PROVE  /\ PoolFits(pools'[c], Live')
             /\ Owners(pools'[c]) = Owners(pools[c]) \ {et}
  <2>1. PoolFits(pools[c], Live)
    BY Base DEF Base
  <2>2. CASE PoolHas(pools[c], et)
    <3>1. pools'[c] = PoolDelete(pools[c], et)
      BY <2>2, DestroyEffect(et)
    <3>2. /\ Owners(pools'[c]) = Owners(pools[c]) \ {et}
          /\ pools'[c].components = pools[c].components
          /\ PoolWellFormed(pools'[c])
      BY <1>1, <2>1, <3>1, PoolDeleteExact DEF PoolFits
    <3>. QED
      BY <1>2, <2>1, <3>2 DEF PoolFits
  <2>3. CASE ~PoolHas(pools[c], et)
    <3>1. pools'[c] = pools[c] /\ et \notin Owners(pools[c])
      BY <1>1, <2>3, BaseFacts, DestroyEffect(et)
    <3>. QED
      BY <1>2, <2>1, <3>1 DEF PoolFits
  <2>. QED
    BY <2>2, <2>3
<1>5. CASE InsertOverruns(deleted, et)
  <2>1. ub' = TRUE /\ deleted' = deleted
    BY <1>5, DestroyEffect(et)
  <2>2. ~Coherent(deleted)
    BY <1>1, <1>5, RoomLeft DEF WellFormed
  <2>. QED
    BY <1>1, <1>2, <1>3, <1>4, <2>1, <2>2, DestroyEffect(et)
<1>6. CASE ~InsertOverruns(deleted, et)
  <2>1. ub' = FALSE /\ deleted' = SparseInsert(deleted, et)
    BY <1>6, DestroyEffect(et)
  <2>2. /\ Listed(deleted') = Listed(deleted) \cup {et}
        /\ Broken(deleted) => Broken(deleted') /\ deleted'.dense[0] = deleted.dense[0]
    BY <1>1, <1>6, <2>1, InsertListed DEF Broken
  <2>3. SparseTypeOK(deleted')
    BY <1>1, <1>6, <2>1, ShapeKept
  <2>4. Coherent(deleted) => Coherent(deleted')
    BY <1>1, <1>6, <2>1, InsertExact DEF WellFormed
  <2>. QED
    BY <1>1, <1>2, <1>3, <1>4, <2>1, <2>2, <2>3, <2>4, DestroyEffect(et)
<1>. QED
  BY <1>5, <1>6

LEMMA DestroyStep ==
  ASSUME Base, NEW et \in Live, DestroyEffect(et), UNCHANGED <<ett, elsewhere>>, ~ub
  PROVE  Base'
<1>1. et \in 0 .. (ett - 1)
  BY Base DEF Base
<1>2. IdsAccounted' /\ FreeIdsUnused' /\ IdsNotShared'
  <2>1. IdsAccounted'
    <3> SUFFICES ASSUME ~ub', NEW v \in 0 .. (ett - 1)
                 PROVE  v \in Live' \/ v \in Listed(deleted') \/ v \in elsewhere
      BY UNCHANGED <<ett, elsewhere>> DEF IdsAccounted
    <3>. QED
      BY DestroyExact, Base, DestroyEffect(et), ~ub DEF Base, IdsAccounted
  <2>2. FreeIdsUnused'
    BY DestroyExact, Base, DestroyEffect(et)
       DEF Base, FreeIdsUnused, HeadLost, Broken
  <2>3. IdsNotShared'
    BY DestroyExact, Base, DestroyEffect(et), UNCHANGED <<ett, elsewhere>>
       DEF Base, IdsNotShared
  <2>. QED
    BY <2>1, <2>2, <2>3
<1>. QED
  BY <1>1, <1>2, DestroyExact, Base, DestroyEffect(et),
     UNCHANGED <<ett, elsewhere>> DEF Base

-----------------------------------------------------------------------------
(***************************************************************************)
(* The iteration of Reset() and Destroy<Components...>().                  *)
(***************************************************************************)

\* When it starts the iteration has the whole list of entities ahead.
LEMMA StartLoop ==
  ASSUME Base, NEW types \in SUBSET ComponentTypes, StartDestroyAll(types)
  PROVE  LoopOK' /\ LoopInv'
<1> USE DEF StartDestroyAll
<1>1. /\ loop' = [active |-> TRUE, types |-> types, next |-> 0, end |-> entities.size,
                  doomed |-> { et \in Live : OwnsAll(et, types) },
                  spared |-> { et \in Live : ~OwnsAll(et, types) }]
      /\ entities' = entities /\ pools' = pools /\ Live' = Live
      /\ \A et : OwnsAll(et, types)' <=> OwnsAll(et, types)
  BY StartDestroyAll(types) DEF Live, OwnsAll, Registered
<1>2. /\ entities.size \in Value /\ entities.size \in Nat
      /\ entities.size <= entities.capacity
      /\ 0 .. (entities.size - 1) = Slots(entities)
      /\ Listed(entities) = Live
      /\ \A k \in Slots(entities) : entities.sparse[entities.dense[k]] = k
  <2>1. WellFormed(entities)
    BY Base DEF Base
  <2>2. Listed(entities) = Live
    BY <2>1, ListedIsMembers DEF Live
  <2>. QED
    BY <2>1, <2>2, LimitAssumption DEF WellFormed, SparseTypeOK, Coherent, Value, Slots
<1>3. Ahead' = Live
  BY <1>1, <1>2 DEF Ahead, Listed
<1>4. LoopOK'
  BY <1>1, <1>2, BaseFacts, Base DEF LoopOK
<1>5. LoopInv'
  <2>1. \A k \in Slots(entities) : entities.dense[k] \in Live
    BY <1>2 DEF Listed
  <2>2. \A k \in Slots(entities) : k \in Nat
    BY DEF Slots
  <2>3. \A et \in Live : OwnsAll(et, loop.types)' <=> et \in loop'.doomed
    BY <1>1
  <2>. QED
    BY <1>1, <1>2, <1>3, <2>1, <2>2, <2>3 DEF LoopInv
<1>. QED
  BY <1>4, <1>5

\* The entity at hand is one of those ahead, and passing it removes it from
\* them.
LEMMA PassOne ==
  ASSUME LoopOK, LoopInv, loop.active, loop.next < loop.end,
         loop' = [loop EXCEPT !.next = @ + 1],
         \A k \in (loop.next + 1) .. (loop.end - 1) :
           entities'.dense[k] = entities.dense[k]
  PROVE  /\ LoopOK'
         /\ loop'.next = loop.next + 1 /\ loop'.end = loop.end
         /\ loop'.active = loop.active /\ loop'.types = loop.types
         /\ loop'.doomed = loop.doomed /\ loop'.spared = loop.spared
         /\ entities.dense[loop.next] \in Live
         /\ Ahead = Ahead' \cup {entities.dense[loop.next]}
         /\ entities.dense[loop.next] \notin Ahead'
<1>1. /\ loop.next \in Nat /\ loop.end \in Nat
      /\ loop.next \in loop.next .. (loop.end - 1)
  BY LoopOK, loop.next < loop.end, LimitAssumption DEF LoopOK, Value
<1>2. /\ loop'.next = loop.next + 1 /\ loop'.end = loop.end
      /\ loop'.active = loop.active /\ loop'.types = loop.types
      /\ loop'.doomed = loop.doomed /\ loop'.spared = loop.spared
      /\ loop' = [active |-> loop'.active, types |-> loop'.types, next |-> loop'.next,
                  end |-> loop'.end, doomed |-> loop'.doomed, spared |-> loop'.spared]
  BY LoopOK, loop' = [loop EXCEPT !.next = @ + 1] DEF LoopOK
<1>3. LoopOK'
  <2>1. loop.next + 1 \in 0 .. loop.end
    BY <1>1, loop.next < loop.end
  <2>2. (loop.next \in 0 .. loop.end)'
    BY <1>2, <2>1
  <2>. QED
    BY <1>2, <2>2, LoopOK DEF LoopOK
<1>4. loop.next .. (loop.end - 1)
        = (loop.next + 1) .. (loop.end - 1) \cup {loop.next}
  BY <1>1
<1>5. Ahead' = { entities.dense[k] : k \in (loop.next + 1) .. (loop.end - 1) }
  BY <1>2, \A k \in (loop.next + 1) .. (loop.end - 1) :
             entities'.dense[k] = entities.dense[k]
     DEF Ahead
<1>6. Ahead = Ahead' \cup {entities.dense[loop.next]}
  BY <1>4, <1>5 DEF Ahead
<1>7. \A k \in (loop.next + 1) .. (loop.end - 1) :
        entities.dense[k] # entities.dense[loop.next]
  BY <1>1, <1>4, LoopInv, loop.active DEF LoopInv
<1>8. entities.dense[loop.next] \notin Ahead'
  BY <1>5, <1>7
<1>9. entities.dense[loop.next] \in Live
  BY <1>1, LoopInv, loop.active DEF LoopInv
<1>. QED
  BY <1>2, <1>3, <1>6, <1>8, <1>9

\* One step of the iteration keeps its invariant.
LEMMA LoopStep ==
  ASSUME Base, LoopOK, LoopInv, DestroyAllStep
  PROVE  Base' /\ LoopOK' /\ LoopInv'
<1> DEFINE et == entities.dense[loop.next]
           Rest == (loop.next + 1) .. (loop.end - 1)
<1>1. /\ loop.active /\ loop.next < loop.end /\ ~ub /\ UNCHANGED <<ett, elsewhere>>
      /\ loop' = [loop EXCEPT !.next = @ + 1]
      /\ loop.next \in Nat /\ loop.end \in Nat /\ loop.end <= entities.capacity
      /\ entities.capacity \in Nat
      /\ loop.types \subseteq ComponentTypes
      /\ et \in Live /\ et \in Ids
  <2>1. /\ loop.active /\ loop.next < loop.end /\ ~ub /\ UNCHANGED <<ett, elsewhere>>
        /\ loop' = [loop EXCEPT !.next = @ + 1]
        /\ loop.next \in Nat /\ loop.end \in Nat /\ loop.end <= entities.capacity
        /\ entities.capacity \in Nat
        /\ loop.types \subseteq ComponentTypes
    BY LoopOK, LoopInv, DestroyAllStep, Base, LimitAssumption
       DEF DestroyAllStep, LoopOK, LoopInv, Base, WellFormed, SparseTypeOK, Value
  <2>2. et \in Live
    BY <2>1, LoopInv DEF LoopInv
  <2>. QED
    BY <2>1, <2>2, BaseFacts, Base
<1>2. CASE ~OwnsAll(et, loop.types)
  <2>1. UNCHANGED <<entities, deleted, pools, ub>>
    BY <1>2, DestroyAllStep DEF DestroyAllStep
  <2>2. /\ Live' = Live /\ et \notin loop.doomed
        /\ \A w : OwnsAll(w, loop.types)' <=> OwnsAll(w, loop'.types)
    BY <1>1, <1>2, <2>1, LoopInv DEF LoopInv, Live, OwnsAll, Registered
  <2>3. /\ LoopOK' /\ loop'.next = loop.next + 1 /\ loop'.end = loop.end
        /\ loop'.active = loop.active /\ loop'.types = loop.types
        /\ loop'.doomed = loop.doomed /\ loop'.spared = loop.spared
        /\ Ahead = Ahead' \cup {et} /\ et \notin Ahead'
    BY <1>1, <2>1, PassOne, LoopOK, LoopInv
  <2>4. Base'
    BY <1>1, <2>1, <2>2, Base
       DEF Base, Registered, Live, IdsAccounted, FreeIdsUnused, HeadLost, IdsNotShared
  <2>5. loop'.next .. (loop'.end - 1) \subseteq loop.next .. (loop.end - 1)
    BY <1>1, <2>3
  <2>6. LoopInv'
    BY <1>1, <2>1, <2>2, <2>3, <2>5, LoopInv DEF LoopInv
  <2>. QED
    BY <2>3, <2>4, <2>6
<1>3. CASE OwnsAll(et, loop.types)
  <2>1. DestroyEffect(et)
    BY <1>3, DestroyAllStep DEF DestroyAllStep
  <2>2. Base'
    BY <1>1, <2>1, DestroyStep, Base
  <2>3. /\ Live' = Live \ {et} /\ entities'.capacity = entities.capacity
        /\ entities' = SparseErase(entities, et)
        /\ Registered' = Registered
        /\ \A c \in Registered : Owners(pools'[c]) = Owners(pools[c]) \ {et}
    BY <1>1, <2>1, DestroyExact, Base
  <2>4. et \in loop.doomed /\ et \notin loop.spared
    BY <1>1, <1>3, LoopInv DEF LoopInv
  <2>5. /\ WellFormed(entities) /\ et \in Members(entities)
        /\ entities.sparse[et] \in 0 .. loop.next
        /\ SparseHas(entities, et)
    <3>1. entities.sparse[et] <= loop.next
      BY <1>1, LoopInv DEF LoopInv
    <3>2. entities.sparse[et] \in Nat
      BY <1>1, PlacesAreSlots, Base DEF Base, Slots, Live
    <3>. QED
      BY <1>1, <3>1, <3>2, Base DEF Base, Live, Members
  <2>6. ASSUME NEW k \in Rest
        PROVE  entities'.dense[k] = entities.dense[k]
    <3>1. entities'.dense = [entities.dense EXCEPT
                               ![entities.sparse[et]] = entities.dense[entities.size - 1]]
      BY <2>3, <2>5 DEF SparseErase
    <3>2. k # entities.sparse[et] /\ k \in 0 .. (entities.capacity - 1)
      BY <1>1, <2>5
    <3>. QED
      BY <2>5, <3>1, <3>2 DEF WellFormed, SparseTypeOK
  <2>7. /\ LoopOK' /\ loop'.next = loop.next + 1 /\ loop'.end = loop.end
        /\ loop'.active = loop.active /\ loop'.types = loop.types
        /\ loop'.doomed = loop.doomed /\ loop'.spared = loop.spared
        /\ Ahead = Ahead' \cup {et} /\ et \notin Ahead'
    BY <1>1, <2>6, PassOne, LoopOK, LoopInv
  <2>8. ASSUME NEW k \in Rest
        PROVE  entities'.dense[k] \in Live' /\ entities'.sparse[entities'.dense[k]] <= k
    <3> DEFINE w == entities.dense[k]
    <3>1. k \in loop.next .. (loop.end - 1) /\ loop.next \in loop.next .. (loop.end - 1)
          /\ k # loop.next
      BY <1>1
    <3>2. w \in Live /\ entities.sparse[w] <= k /\ w # et
      BY <1>1, <3>1, LoopInv DEF LoopInv
    <3>3. entities'.sparse[w] = IF entities.sparse[w] = entities.size - 1
                                THEN entities.sparse[et] ELSE entities.sparse[w]
      BY <2>3, <2>5, <3>2, ErasePlaces DEF Live
    <3>4. entities'.sparse[w] <= k
      BY <1>1, <2>5, <3>2, <3>3
    <3>. QED
      BY <2>3, <2>6, <3>2, <3>4
  <2>9. \A w \in Live' : OwnsAll(w, loop.types)' <=> w \in loop'.doomed
    <3> SUFFICES ASSUME NEW w \in Live' PROVE OwnsAll(w, loop.types)' <=> w \in loop'.doomed
      OBVIOUS
    <3>1. w \in Live /\ w # et /\ w \in Ids
      BY <2>3, BaseFacts, Base
    <3>2. \A c \in Registered : PoolHas(pools'[c], w) <=> PoolHas(pools[c], w)
      <4>1. \A c \in Registered : SparseTypeOK(pools'[c].set) /\ SparseTypeOK(pools[c].set)
        BY <2>2, <2>3, Base DEF Base, PoolFits, PoolWellFormed
      <4>. QED
        BY <2>3, <3>1, <4>1, HasIsMember, IdsAreValues DEF PoolHas, Owners
    <3>3. OwnsAll(w, loop.types)' <=> OwnsAll(w, loop.types)
      BY <2>3, <2>7, <3>2 DEF OwnsAll
    <3>. QED
      BY <1>1, <2>7, <3>1, <3>3, LoopInv DEF LoopInv
  <2>10. LoopInv'
    <3>1. loop'.next .. (loop'.end - 1) = Rest
      BY <2>7
    <3>2. \A k, m \in Rest : entities'.dense[k] = entities'.dense[m] => k = m
      <4>1. Rest \subseteq loop.next .. (loop.end - 1)
        BY <1>1
      <4>. QED
        BY <1>1, <2>6, <4>1, LoopInv DEF LoopInv
    <3>3. Live' = loop'.spared \cup (loop'.doomed \cap Ahead')
      BY <1>1, <2>3, <2>4, <2>7, LoopInv DEF LoopInv
    <3>4. loop'.end <= entities'.capacity /\ loop'.spared \cap loop'.doomed = {}
      BY <1>1, <2>3, <2>7, LoopInv DEF LoopInv
    <3> HIDE DEF Rest
    <3>. QED
      BY <2>8, <2>9, <3>1, <3>2, <3>3, <3>4 DEF LoopInv
  <2>. QED
    BY <2>2, <2>7, <2>10
<1>. QED
  BY <1>2, <1>3

\* A step of a call while no iteration runs keeps the iteration idle.
LEMMA IdleLoop ==
  ASSUME LoopOK, ~loop.active, loop' = loop
  PROVE  LoopOK' /\ LoopInv'
BY LoopOK, ~loop.active, loop' = loop DEF LoopOK, LoopInv

-----------------------------------------------------------------------------
(***************************************************************************)
(* The calls that use one pool.                                            *)
(***************************************************************************)

\* The pool a call works on, registered before or by the call.
LEMMA PoolOfFits ==
  ASSUME Base, NEW c \in ComponentTypes
  PROVE  /\ PoolFits(PoolOf(c), Live)
         /\ \A et \in Ids : PoolHas(PoolOf(c), et) <=> et \in Owners(PoolOf(c))
         /\ \A et \in Ids : ~PoolAssignOverruns(PoolOf(c), et)
<1>1. PoolFits(PoolOf(c), Live)
  <2>1. CASE c \in Registered
    BY <2>1, Base DEF PoolOf, Base
  <2>2. CASE c \notin Registered
    <3>1. /\ PoolOf(c) = [set |-> EmptySparse, components |-> <<>>]
          /\ PoolOf(c).set = EmptySparse /\ PoolOf(c).components = <<>>
      BY <2>2 DEF PoolOf, EmptyPool
    <3>2. EmptySparse.size = 0 /\ Len(<<>>) = 0 /\ <<>> \in Seq(Ids)
      BY DEF EmptySparse
    <3>. QED
      BY <3>1, <3>2, EmptyIsWellFormed
         DEF PoolFits, PoolWellFormed, WellFormed, Owners
  <2>. QED
    BY <2>1, <2>2
<1>2. \A et \in Ids : PoolHas(PoolOf(c), et) <=> et \in Owners(PoolOf(c))
  BY <1>1, HasIsMember, IdsAreValues DEF PoolFits, PoolWellFormed, PoolHas, Owners
<1>3. \A et \in Ids : ~PoolAssignOverruns(PoolOf(c), et)
  BY <1>1, RoomLeft, IdsAreValues
     DEF PoolFits, PoolWellFormed, WellFormed, PoolAssignOverruns
<1>. QED
  BY <1>1, <1>2, <1>3

LEMMA AssignedFits ==
  ASSUME Base, NEW c \in ComponentTypes, NEW et \in Live
  PROVE  /\ PoolFits(PoolAssign(PoolOf(c), et, et), Live)
         /\ Owners(PoolAssign(PoolOf(c), et, et)) = Owners(PoolOf(c)) \cup {et}
<1>1. et \in Ids /\ et \in Value
  BY BaseFacts, IdsAreValues, Base
<1>. QED
  BY <1>1, PoolOfFits, PoolAssignExact, Base DEF PoolFits

LEMMA ReplacedFits ==
  ASSUME Base, NEW c \in ComponentTypes, NEW et \in Live,
         ~PoolReplaceOverruns(PoolOf(c), et)
  PROVE  /\ PoolFits(PoolReplace(PoolOf(c), et, et), Live)
         /\ PoolReplace(PoolOf(c), et, et).set = PoolOf(c).set
<1> DEFINE p == PoolOf(c)
           q == PoolReplace(p, et, et)
<1>1. PoolFits(p, Live) /\ et \in Ids
  BY PoolOfFits, BaseFacts, Base
<1>2. Place(p, et) \in 1 .. Len(p.components)
  <2>1. /\ p.set.capacity \in Nat /\ et \in 0 .. (p.set.capacity - 1)
        /\ p.set.sparse \in [0 .. (p.set.capacity - 1) -> 0 .. (p.set.capacity - 1)]
    BY <1>1, IdsAreValues, LimitAssumption, ~PoolReplaceOverruns(PoolOf(c), et)
       DEF PoolFits, PoolWellFormed, SparseTypeOK, Value, PoolReplaceOverruns
  <2>2. Len(p.components) \in Nat /\ p.set.sparse[et] \in Nat
    BY <1>1, <2>1 DEF PoolFits
  <2>3. ~(Place(p, et) > Len(p.components))
    BY ~PoolReplaceOverruns(PoolOf(c), et) DEF PoolReplaceOverruns
  <2> HIDE DEF p
  <2>. QED
    BY <2>2, <2>3 DEF Place
<1>3. /\ q.set = p.set
      /\ q.components = [p.components EXCEPT ![Place(p, et)] = et]
      /\ q = [set |-> q.set, components |-> q.components]
  BY <1>1 DEF PoolReplace, PoolFits, PoolWellFormed
<1>4. /\ q.components \in Seq(Ids) /\ Len(q.components) = Len(p.components)
  BY <1>1, <1>2, <1>3, ExceptSeq DEF PoolFits
<1> HIDE DEF p, q
<1>5. PoolFits(q, Live)
  BY <1>1, <1>3, <1>4 DEF PoolFits, PoolWellFormed, Owners
<1>. QED
  BY <1>3, <1>5 DEF p, q

\* Replacing never changes who owns a component, and is within bounds for an
\* owner.
LEMMA ReplaceKeepsOwners ==
  \A p, et, component : Owners(PoolReplace(p, et, component)) = Owners(p)
<1> SUFFICES ASSUME NEW p, NEW et, NEW component
             PROVE  Owners(PoolReplace(p, et, component)) = Owners(p)
  OBVIOUS
<1>1. PoolReplace(p, et, component).set = p.set
  BY DEF PoolReplace
<1>. QED
  BY <1>1 DEF Owners

LEMMA OwnedIsReplaceable ==
  ASSUME Base, NEW c \in ComponentTypes, NEW et \in Ids, OwnsAll(et, {c})
  PROVE  /\ c \in Registered /\ PoolOf(c) = pools[c]
         /\ et \in Owners(pools[c])
         /\ ~PoolReplaceOverruns(PoolOf(c), et)
<1>1. /\ c \in Registered /\ PoolOf(c) = pools[c]
      /\ PoolFits(pools[c], Live) /\ et \in Owners(pools[c])
  BY BaseFacts, Base, OwnsAll(et, {c}) DEF OwnsAll, PoolOf, Base
<1>2. Place(pools[c], et) \in 1 .. Len(pools[c].components)
  BY <1>1, OwnerPlace DEF PoolFits
<1>3. Len(pools[c].components) \in Nat /\ pools[c].set.capacity \in Nat
  BY <1>1, LimitAssumption DEF PoolFits, PoolWellFormed, SparseTypeOK, Value
<1>4. et \in 0 .. (pools[c].set.capacity - 1)
  BY <1>1 DEF Owners, Members
<1>5. ~PoolReplaceOverruns(pools[c], et)
  BY <1>2, <1>3, <1>4 DEF PoolReplaceOverruns
<1>. QED
  BY <1>1, <1>5

-----------------------------------------------------------------------------
\* Every step of the caller keeps the invariant.
LEMMA Inductive ==
  /\ Init => IInv
  /\ IInv /\ [Next]_vars => IInv'
<1>1. Init => IInv
  <2> SUFFICES ASSUME Init PROVE IInv
    OBVIOUS
  <2> USE DEF Init
  <2>1. /\ WellFormed(entities) /\ Live = {} /\ WellFormed(deleted)
        /\ Listed(deleted) = {} /\ Registered = {}
    BY EmptyIsWellFormed, ListedIsMembers DEF Live, Registered
  <2>2. Base
    <3>1. 0 .. (ett - 1) = {} /\ ett \in 0 .. MaxEntities
      BY MaxEntitiesAssumption
    <3>2. IdsAccounted
      BY <3>1 DEF IdsAccounted
    <3>3. FreeIdsUnused
      BY <2>1 DEF WellFormed, FreeIdsUnused
    <3>4. WellFormed(entities) /\ SparseTypeOK(deleted)
      BY <2>1 DEF WellFormed
    <3>5. elsewhere \subseteq 0 .. (ett - 1) /\ IdsNotShared
      BY DEF IdsNotShared
    <3>. QED
      BY <2>1, <3>1, <3>2, <3>3, <3>4, <3>5 DEF Base
  <2>3. LoopOK /\ LoopInv
    BY LimitAssumption DEF Idle, LoopOK, LoopInv, Value
  <2>. QED
    BY <2>2, <2>3 DEF IInv
<1>2. IInv /\ [Next]_vars => IInv'
  <2> SUFFICES ASSUME IInv, [Next]_vars PROVE IInv'
    OBVIOUS
  <2>0. Base /\ LoopOK /\ LoopInv
    BY DEF IInv
  <2>b. ASSUME ett = Limit - 1, CreateFresh \/ CreateElsewhere PROVE IInv'
    BY <2>0, <2>b, CountOne, BrokenCreate DEF CreateFresh, CreateElsewhere
  <2>1. CASE CreateFresh /\ ett # Limit - 1
    <3>0. /\ ett \in Ids /\ (ett + 1) % Limit = ett + 1 /\ ett + 1 \in 0 .. MaxEntities
          /\ ub' = InsertOverruns(entities, ett) /\ ~InsertOverruns(entities, ett)
      BY <2>0, <2>1, CountOne, BaseFacts DEF CreateFresh
    <3>1. ett \in Ids /\ ett' = ett + 1 /\ ett' \in 0 .. MaxEntities
      BY <2>1, <3>0 DEF CreateFresh
    <3>2. /\ ub' = FALSE /\ WellFormed(entities') /\ Live' = Live \cup {ett}
          /\ Registered' = Registered
          /\ \A c \in Registered' : PoolFits(pools'[c], Live')
      BY <2>0, <2>1, <3>1, CreateStep DEF CreateFresh, Ready
    <3>3. Listed(deleted) = {} /\ Slots(deleted) = {}
      BY <2>1 DEF CreateFresh, Listed, Slots
    <3>4. Base'
      <4>1. Listed(deleted)' = {} /\ SparseTypeOK(deleted)' /\ Coherent(deleted)'
        BY <2>0, <2>1, <3>3 DEF CreateFresh, Base, Coherent
      <4>2. 0 .. (ett' - 1) = 0 .. (ett - 1) \cup {ett} /\ ub' \in BOOLEAN
        <5>1. ett \in Nat /\ ett' - 1 = ett
          BY <3>1, MaxEntitiesAssumption DEF Ids
        <5>2. \A n \in Nat : 0 .. n = 0 .. (n - 1) \cup {n}
          OBVIOUS
        <5>. QED
          BY <3>2, <5>1, <5>2
      <4>3. FreeIdsUnused'
        BY <4>1 DEF FreeIdsUnused
      <4>4. IdsAccounted'
        BY <2>0, <2>1, <3>2, <3>3, <4>2 DEF CreateFresh, Ready, Base, IdsAccounted
      <4>5. Live' \subseteq 0 .. (ett' - 1)
        BY <2>0, <3>2, <4>2 DEF Base
      <4>6. elsewhere' \subseteq 0 .. (ett' - 1) /\ IdsNotShared'
        <5>1. ett \notin elsewhere /\ elsewhere' = elsewhere
          BY <2>0, <2>1, <3>1 DEF CreateFresh, Base, Ids
        <5>. QED
          BY <2>0, <3>2, <4>1, <4>2, <5>1 DEF Base, IdsNotShared
      <4>. QED
        BY <2>0, <3>1, <3>2, <4>1, <4>2, <4>3, <4>4, <4>5, <4>6 DEF Base
    <3>. QED
      BY <2>0, <2>1, <3>4, IdleLoop DEF CreateFresh, Ready, IInv
  <2>2. CASE CreateRecycled
    <3> DEFINE et == deleted.dense[0]
    <3>1. et \in Listed(deleted) /\ et \in Ids /\ et \in 0 .. (ett - 1)
      <4>1. 0 \in Slots(deleted)
        BY <2>0, <2>2, LimitAssumption DEF CreateRecycled, Base, SparseTypeOK, Slots,
           Value
      <4>. QED
        BY <2>0, <4>1, BaseFacts DEF Base, Listed
    <3>2. /\ ub' = FALSE /\ WellFormed(entities') /\ Live' = Live \cup {et}
          /\ Registered' = Registered
          /\ \A c \in Registered' : PoolFits(pools'[c], Live')
      BY <2>0, <2>2, <3>1, CreateStep DEF CreateRecycled, Ready
    <3>3. /\ SparseTypeOK(deleted')
          /\ Listed(deleted') \subseteq Listed(deleted)
          /\ Listed(deleted) \subseteq Listed(deleted') \cup {et}
          /\ Coherent(deleted) /\ deleted.size = 1 => deleted'.size = 0
          /\ Coherent(deleted) /\ deleted.size # 1 => Broken(deleted')
          /\ Broken(deleted) => Broken(deleted')
      BY <2>0, <2>2, EraseFirst DEF CreateRecycled, Base
    <3>4. FreeIdsUnused'
      <4>1. CASE Broken(deleted')
        BY <4>1 DEF Broken, FreeIdsUnused, HeadLost
      <4>2. CASE deleted'.size = 0
        BY <4>2 DEF FreeIdsUnused, Coherent, Listed, Slots
      <4>. QED
        BY <2>0, <3>3, <4>1, <4>2 DEF Base, FreeIdsUnused, HeadLost, Broken
    <3>5. IdsAccounted'
      BY <2>0, <2>2, <3>2, <3>3 DEF CreateRecycled, Ready, Base, IdsAccounted
    <3>6. IdsNotShared'
      BY <2>0, <2>2, <3>1, <3>2, <3>3 DEF CreateRecycled, Base, IdsNotShared
    <3>7. Base'
      BY <2>0, <2>2, <3>1, <3>2, <3>3, <3>4, <3>5, <3>6 DEF CreateRecycled, Base
    <3>. QED
      BY <2>0, <2>2, <3>7, IdleLoop DEF CreateRecycled, Ready, IInv
  <2>3. ASSUME NEW et \in Ids, Destroy(et) PROVE IInv'
    <3>1. et \in Live
      BY <2>0, <2>3, BaseFacts DEF Destroy
    <3>. QED
      BY <2>0, <2>3, <3>1, DestroyStep, IdleLoop DEF Destroy, Ready, IInv
  <2>4. ASSUME NEW types \in SUBSET ComponentTypes, StartDestroyAll(types) PROVE IInv'
    <3>1. Base'
      BY <2>0, <2>4
         DEF StartDestroyAll, Base, Live, Registered, IdsAccounted, FreeIdsUnused,
             HeadLost, IdsNotShared
    <3>. QED
      BY <2>0, <2>4, <3>1, StartLoop DEF IInv
  <2>5. CASE DestroyAllStep
    BY <2>0, <2>5, LoopStep DEF IInv
  <2>6. CASE DestroyAllEnd
    <3>1. Base'
      BY <2>0, <2>6
         DEF DestroyAllEnd, Base, Live, Registered, IdsAccounted, FreeIdsUnused,
             HeadLost, IdsNotShared
    <3>2. LoopOK' /\ LoopInv'
      BY <2>6, LimitAssumption DEF DestroyAllEnd, Idle, LoopOK, LoopInv, Value
    <3>. QED
      BY <3>1, <3>2 DEF IInv
  <2>7. ASSUME NEW c \in ComponentTypes, NEW et \in Ids, Assign(c, et) PROVE IInv'
    <3>1. /\ et \in Live /\ ub' = FALSE /\ ~ub
          /\ pools' = WithPool(c, PoolAssign(PoolOf(c), et, et))
      BY <2>0, <2>7, BaseFacts, PoolOfFits DEF Assign, Ready
    <3>. QED
      BY <2>0, <2>7, <3>1, AssignedFits, PoolStep, IdleLoop DEF Assign, Ready, IInv
  <2>8. ASSUME NEW c \in ComponentTypes, NEW et \in Ids, Replace(c, et) PROVE IInv'
    <3>1. et \in Live /\ ~ub /\ ub' \in BOOLEAN
      BY <2>0, <2>8, BaseFacts DEF Replace, Ready
    <3>2. CASE ub' = TRUE
      <4>1. Base'
        BY <2>0, <2>8, <3>1, <3>2
           DEF Replace, Base, Live, Registered, IdsAccounted, FreeIdsUnused,
               HeadLost, IdsNotShared
      <4>. QED
        BY <2>0, <2>8, <4>1, IdleLoop DEF Replace, Ready, IInv
    <3>3. CASE ub' = FALSE
      <4>1. c \in Registered /\ ~PoolReplaceOverruns(PoolOf(c), et)
        BY <2>8, <3>3 DEF Replace
      <4>2. pools' = WithPool(c, PoolReplace(PoolOf(c), et, et))
        BY <2>8, <3>3, <4>1 DEF Replace, PoolOf
      <4>. QED
        BY <2>0, <2>8, <3>1, <4>1, <4>2, ReplacedFits, PoolStep, IdleLoop
           DEF Replace, Ready, IInv
    <3>. QED
      BY <3>1, <3>2, <3>3
  <2>9. ASSUME NEW c \in ComponentTypes, NEW et \in Ids, AssignOrReplace(c, et) PROVE IInv'
    <3>1. /\ et \in Live /\ ub' = FALSE /\ ~ub
          /\ pools' = WithPool(c, PoolAssignOrReplace(PoolOf(c), et, et))
      BY <2>0, <2>9, BaseFacts, PoolOfFits DEF AssignOrReplace, Ready
    <3>2. PoolFits(PoolAssignOrReplace(PoolOf(c), et, et), Live)
      <4>1. CASE PoolHas(PoolOf(c), et)
        <5>1. et \in Owners(PoolOf(c)) /\ PoolFits(PoolOf(c), Live)
          BY <2>0, <4>1, PoolOfFits
        <5>2. /\ PoolWellFormed(PoolReplace(PoolOf(c), et, et))
              /\ PoolReplace(PoolOf(c), et, et).components \in Seq(Ids)
              /\ PoolReplace(PoolOf(c), et, et).set = PoolOf(c).set
          BY <5>1, PoolReplaceExact DEF PoolFits
        <5>. QED
          BY <4>1, <5>1, <5>2 DEF PoolAssignOrReplace, PoolFits, Owners
      <4>2. CASE ~PoolHas(PoolOf(c), et)
        BY <2>0, <3>1, <4>2, AssignedFits DEF PoolAssignOrReplace
      <4>. QED
        BY <4>1, <4>2
    <3>. QED
      BY <2>0, <2>9, <3>1, <3>2, PoolStep, IdleLoop DEF AssignOrReplace, Ready, IInv
  <2>10. ASSUME NEW c \in ComponentTypes, NEW et \in Ids, Delete(c, et) PROVE IInv'
    <3>1. PoolFits(PoolDelete(pools[c], et), Live)
      <4>1. c \in Registered /\ PoolFits(pools[c], Live) /\ et \in Value
        BY <2>0, <2>10, IdsAreValues DEF Delete, OwnsAll, Base
      <4>. QED
        BY <4>1, PoolDeleteExact DEF PoolFits
    <3>2. /\ ~ub /\ ub' \in BOOLEAN /\ ~loop.active /\ loop' = loop
          /\ UNCHANGED <<entities, deleted, ett, elsewhere>>
          /\ pools' = WithPool(c, PoolDelete(pools[c], et))
      BY <2>0, <2>10 DEF Delete, Ready, Base
    <3>3. Base'
      BY <2>0, <3>1, <3>2, PoolStep
    <3>. QED
      BY <2>0, <3>2, <3>3, IdleLoop DEF IInv
  <2>11. ASSUME NEW c \in ComponentTypes, ResetPool(c) PROVE IInv'
    <3>1. PoolFits(PoolReset(pools[c]), Live)
      <4>1. PoolFits(pools[c], Live)
        BY <2>0, <2>11 DEF ResetPool, Base
      <4>2. <<>> \in Seq(Ids)
        OBVIOUS
      <4>. QED
        BY <4>1, <4>2, PoolResetExact DEF PoolFits
    <3>2. /\ ~ub /\ ub' \in BOOLEAN /\ ~loop.active /\ loop' = loop
          /\ UNCHANGED <<entities, deleted, ett, elsewhere>>
          /\ pools' = WithPool(c, PoolReset(pools[c]))
      BY <2>0, <2>11 DEF ResetPool, Ready, Base
    <3>3. Base'
      BY <2>0, <3>1, <3>2, PoolStep
    <3>. QED
      BY <2>0, <3>2, <3>3, IdleLoop DEF IInv
  <2>12. ASSUME NEW c \in ComponentTypes, ReservePool(c) PROVE IInv'
    <3>1. /\ ~ub /\ ub' \in BOOLEAN /\ ~loop.active /\ loop' = loop
          /\ UNCHANGED <<entities, deleted, ett, elsewhere>>
          /\ pools' = WithPool(c, PoolOf(c))
      BY <2>0, <2>12 DEF ReservePool, Ready, Base
    <3>2. Base'
      BY <2>0, <3>1, PoolOfFits, PoolStep
    <3>. QED
      BY <2>0, <3>1, <3>2, IdleLoop DEF IInv
  <2>13. ASSUME NEW count \in Value, Reserve(count) PROVE IInv'
    <3>1. WellFormed(entities') /\ Live' = Live
      BY <2>0, <2>13, ReserveExact DEF Reserve, Base, Live
    <3>2. Base'
      BY <2>0, <2>13, <3>1
         DEF Reserve, Base, Registered, IdsAccounted, FreeIdsUnused, HeadLost,
             IdsNotShared
    <3>. QED
      BY <2>0, <2>13, <3>2, IdleLoop DEF Reserve, Ready, IInv
  <2>14. CASE UNCHANGED vars
    BY <2>0, <2>14
       DEF vars, IInv, Base, LoopOK, LoopInv, Live, Registered, IdsAccounted,
           FreeIdsUnused, HeadLost, IdsNotShared, OwnsAll, Ahead
  <2>15. CASE CreateElsewhere /\ ett # Limit - 1
    <3>0. /\ ett \in Ids /\ (ett + 1) % Limit = ett + 1 /\ ett + 1 \in 0 .. MaxEntities
          /\ ub' = FALSE
      BY <2>0, <2>15, CountOne DEF CreateElsewhere
    <3>1. /\ ett \in Nat /\ ett' = ett + 1 /\ ett' \in 0 .. MaxEntities
          /\ elsewhere' = elsewhere \cup {ett}
      BY <2>15, <3>0 DEF CreateElsewhere, Ids
    <3>2. 0 .. (ett' - 1) = 0 .. (ett - 1) \cup {ett} /\ ett \notin 0 .. (ett - 1)
      <4>1. \A n \in Nat : 0 .. n = 0 .. (n - 1) \cup {n} /\ n \notin 0 .. (n - 1)
        OBVIOUS
      <4>. QED
        BY <3>1, <4>1
    <3>3. Live' = Live /\ Registered' = Registered /\ Listed(deleted)' = Listed(deleted)
      BY <2>15 DEF CreateElsewhere, Live, Registered
    <3>4. IdsAccounted' /\ FreeIdsUnused' /\ IdsNotShared'
      BY <2>0, <2>15, <3>1, <3>2, <3>3
         DEF CreateElsewhere, Ready, Base, IdsAccounted, FreeIdsUnused, HeadLost, IdsNotShared
    <3>5. Base'
      BY <2>0, <2>15, <3>0, <3>1, <3>2, <3>3, <3>4 DEF CreateElsewhere, Base
    <3>. QED
      BY <2>0, <2>15, <3>5, IdleLoop DEF CreateElsewhere, Ready, IInv
  <2>. QED
    BY <2>b, <2>1, <2>2, <2>3, <2>4, <2>5, <2>6, <2>7, <2>8, <2>9, <2>10, <2>11,
       <2>12, <2>13, <2>14, <2>15 DEF Next, UsualNext
<1>. QED
  BY <1>1, <1>2

LEMMA Invariance == Spec => []IInv
BY Inductive, PTL DEF Spec

-----------------------------------------------------------------------------
(***************************************************************************)
(* What follows from the invariant.                                        *)
(***************************************************************************)

\* Every variable keeps its type: no call stores a number EntityType cannot
\* hold, no vector leaves its size, no pool holds a component of an entity that
\* was never created.
THEOREM TypeCorrect == Spec => []TypeOK
<1>1. IInv => TypeOK
  <2> SUFFICES ASSUME IInv PROVE TypeOK
    OBVIOUS
  <2>1. Base /\ LoopOK
    BY DEF IInv
  <2>2. /\ SparseTypeOK(entities) /\ Listed(deleted) \subseteq Ids
        /\ elsewhere \subseteq Ids
    BY <2>1, BaseFacts DEF Base
  <2>. QED
    BY <2>1, <2>2 DEF Base, TypeOK, PoolFits, PoolWellFormed
<1>. QED
  BY <1>1, Invariance, PTL

\* Owners are alive and have a component in their place.
LEMMA OwnersPlaced ==
  ASSUME IInv
  PROVE  OwnersLive
<1> SUFFICES ASSUME NEW c \in Registered
             PROVE  /\ Owners(pools[c]) \subseteq Live
                    /\ \A et \in Owners(pools[c]) :
                         Place(pools[c], et) \in 1 .. Len(pools[c].components)
  BY DEF OwnersLive
<1>1. PoolFits(pools[c], Live)
  BY DEF IInv, Base
<1>. QED
  BY <1>1, OwnerPlace DEF PoolFits

\* Destroy, Delete, both Resets and the iterations leave no component behind
\* without an entity, and no owner whose place is outside of its pool.
THEOREM OwnersExist == Spec => []OwnersLive
BY OwnersPlaced, Invariance, PTL

\* No id that Create has handed out is ever lost, and the list of free ids is
\* coherent and disjoint from the entities as long as its first id is not lost.
THEOREM FreeIds == Spec => [](IdsAccounted /\ FreeIdsUnused)
<1>1. IInv => IdsAccounted /\ FreeIdsUnused
  BY DEF IInv, Base
<1>. QED
  BY <1>1, Invariance, PTL

\* The static counter of Create keeps the ids of managers of one EntityType apart.
THEOREM ManagersApart == Spec => []IdsNotShared
<1>1. IInv => IdsNotShared
  BY DEF IInv, Base
<1>. QED
  BY <1>1, Invariance, PTL

\* The iterations of Reset() and Destroy<Components...>() visit every entity
\* exactly once although each visit may erase from the list they run over.
THEOREM IterationsAreExact == Spec => []DestroyAllExact
<1>1. IInv => DestroyAllExact
  <2> SUFFICES ASSUME IInv, loop.active PROVE Ahead \subseteq Live
    BY DEF IInv, LoopInv, DestroyAllExact
  <2>. QED
    BY DEF IInv, LoopInv, Ahead
<1>. QED
  BY <1>1, Invariance, PTL

\* What a call that destroys et does to the list of free ids.
LEMMA DestroyCalls ==
  ASSUME IInv,
         \/ \E et \in Ids : Destroy(et)
         \/ DestroyAllStep /\ OwnsAll(entities.dense[loop.next], loop.types)
  PROVE  \E et \in Live : DestroyEffect(et)
<1>1. CASE \E et \in Ids : Destroy(et)
  BY <1>1, BaseFacts DEF IInv, Destroy
<1>2. CASE DestroyAllStep /\ OwnsAll(entities.dense[loop.next], loop.types)
  <2>1. loop.next \in loop.next .. (loop.end - 1)
    BY <1>2, LimitAssumption DEF DestroyAllStep, IInv, LoopOK, Value
  <2>. QED
    BY <1>2, <2>1 DEF DestroyAllStep, IInv, LoopInv
<1>. QED
  BY <1>1, <1>2

\* Once the first free id is lost, no call of any kind repairs the list: every
\* later Create returns that same id.
THEOREM LostIsForGood == Spec => LostForGood
<1>1. ASSUME IInv, [Next]_vars, HeadLost
      PROVE  HeadLost' /\ deleted'.dense[0] = deleted.dense[0]
  <2>0. Base /\ SparseTypeOK(deleted) /\ Broken(deleted)
    BY <1>1 DEF IInv, Base, HeadLost, Broken
  <2>1. CASE UNCHANGED deleted
    BY <1>1, <2>1 DEF HeadLost
  <2>2. CASE CreateRecycled
    <3>1. Broken(deleted') /\ deleted'.dense[0] = deleted.dense[0]
      BY <2>0, <2>2, EraseFirst DEF CreateRecycled
    <3>. QED
      BY <3>1 DEF Broken, HeadLost
  <2>3. CASE \E et \in Live : DestroyEffect(et)
    <3>1. Broken(deleted') /\ deleted'.dense[0] = deleted.dense[0]
      BY <2>0, <2>3, DestroyExact
    <3>. QED
      BY <3>1 DEF Broken, HeadLost
  <2>. QED
    BY <1>1, <2>1, <2>2, <2>3, DestroyCalls
       DEF Next, UsualNext, vars, CreateFresh, CreateElsewhere, StartDestroyAll,
           DestroyAllStep,
           DestroyAllEnd, Assign, Replace, AssignOrReplace, Delete, ResetPool,
           Reserve, ReservePool
<1>2. IInv /\ [Next]_vars
        => (HeadLost => HeadLost' /\ deleted'.dense[0] = deleted.dense[0])
  BY <1>1
<1>. QED
  BY <1>2, Invariance, PTL DEF Spec, LostForGood

\* The three causes CausesOfUB allows.
UBCause ==
  \/ ett = Limit - 1 /\ (CreateFresh \/ CreateElsewhere)
  \/ ~Coherent(deleted) /\ entities'.size < entities.size
  \/ \E c \in ComponentTypes, et \in Ids : Replace(c, et) /\ ~OwnsAll(et, {c})

LEMMA UBHasACause ==
  ASSUME IInv, [Next]_vars, ub', ~ub
  PROVE  UBCause
<1>0. Base
  BY DEF IInv
<1>1. CASE UNCHANGED ub
  BY <1>1
<1>2. CASE CreateFresh \/ CreateElsewhere
  <2>1. SUFFICES ASSUME ett # Limit - 1 PROVE FALSE
    BY <1>2 DEF UBCause
  <2>2. ett \in Ids
    BY <1>0, <1>2, <2>1, CountOne DEF CreateFresh, CreateElsewhere
  <2>. QED
    BY <1>0, <1>2, <2>1, <2>2, BaseFacts DEF CreateFresh, CreateElsewhere
<1>3. CASE CreateRecycled
  <2>1. 0 \in Slots(deleted)
    BY <1>0, <1>3, LimitAssumption DEF CreateRecycled, Base, SparseTypeOK, Slots,
       Value
  <2>2. deleted.dense[0] \in Ids
    BY <1>0, <2>1, BaseFacts DEF Listed
  <2>. QED
    BY <1>0, <1>3, <2>2, BaseFacts DEF CreateRecycled
<1>4. CASE \E et \in Live : DestroyEffect(et)
  <2>1. entities.size \in Nat /\ entities'.size = entities.size - 1
    <3>1. entities'.size = entities.size - 1
      BY <1>0, <1>4, DestroyExact
    <3>. QED
      BY <1>0, <3>1, LimitAssumption DEF Base, WellFormed, SparseTypeOK, Value
  <2>2. ~Coherent(deleted)
    BY <1>0, <1>4, DestroyExact
  <2>. QED
    BY <2>1, <2>2 DEF UBCause
<1>5. ASSUME NEW c \in ComponentTypes, NEW et \in Ids,
             Assign(c, et) \/ AssignOrReplace(c, et)
      PROVE  FALSE
  BY <1>0, <1>5, PoolOfFits DEF Assign, AssignOrReplace
<1>6. ASSUME NEW c \in ComponentTypes, NEW et \in Ids, Replace(c, et)
      PROVE  UBCause
  <2>1. SUFFICES ASSUME OwnsAll(et, {c}) PROVE FALSE
    BY <1>6 DEF UBCause
  <2>. QED
    BY <1>0, <1>6, <2>1, OwnedIsReplaceable DEF Replace
<1>. QED
  BY <1>1, <1>2, <1>3, <1>4, <1>5, <1>6, DestroyCalls
     DEF Next, UsualNext, vars, CreateElsewhere, StartDestroyAll, DestroyAllStep,
         DestroyAllEnd, Delete, ResetPool, Reserve, ReservePool

\* Undefined behaviour has three causes only: creating with the counter at its
\* largest value, freeing an entity after the free ids have lost their coherence,
\* and replacing a component that is not owned.
THEOREM CausesOfUBAreThree == Spec => CausesOfUB
<1>1. IInv /\ [Next]_vars => (ub' /\ ~ub => UBCause)
  BY UBHasACause
<1>. QED
  BY <1>1, Invariance, PTL DEF Spec, CausesOfUB, UBCause

-----------------------------------------------------------------------------
(***************************************************************************)
(* What each call does to a pool whose owners all read their own.          *)
(***************************************************************************)
Reads(p) == \A et \in Owners(p) : PoolGet(p, et) = et

\* The first two causes of CausesOfMisreads, for a pool p that becomes q.
Moved(p, q) == \E et \in Owners(p) \ Owners(q) : Place(p, et) # p.set.size

Joined(p, q) == q.set.size > p.set.size /\ Len(p.components) > p.set.size

LEMMA WithPoolReads ==
  ASSUME ReadsOwn, NEW c, NEW q, pools' = WithPool(c, q), Reads(q)
  PROVE  ReadsOwn'
<1>1. /\ DOMAIN pools' = Registered \cup {c}
      /\ \A d \in Registered \cup {c} : pools'[d] = IF d = c THEN q ELSE pools[d]
  BY pools' = WithPool(c, q) DEF WithPool
<1>. QED
  BY <1>1, ReadsOwn, Reads(q) DEF ReadsOwn, Reads, Registered

\* The pool a call works on; a new one has no owner and no component.
LEMMA PoolOfReads ==
  ASSUME ReadsOwn, NEW c
  PROVE  /\ Reads(PoolOf(c))
         /\ c \in Registered => PoolOf(c) = pools[c]
         /\ c \notin Registered => \A q : ~Joined(PoolOf(c), q)
<1>1. CASE c \in Registered
  BY <1>1, ReadsOwn DEF PoolOf, ReadsOwn, Reads
<1>2. CASE c \notin Registered
  <2>1. PoolOf(c).set = EmptySparse /\ PoolOf(c).components = <<>>
    BY <1>2 DEF PoolOf, EmptyPool
  <2>2. EmptySparse.size = 0 /\ Len(<<>>) = 0
    BY DEF EmptySparse
  <2>3. Owners(PoolOf(c)) = {}
    BY <2>1, EmptyIsWellFormed DEF Owners
  <2>. QED
    BY <1>2, <2>1, <2>2, <2>3 DEF Reads, Joined
<1>. QED
  BY <1>1, <1>2

LEMMA AssignReads ==
  ASSUME NEW live, NEW p, PoolFits(p, live), Reads(p), NEW et \in Ids,
         PoolHas(p, et) <=> et \in Owners(p),
         ~PoolAssignOverruns(p, et), ~Joined(p, PoolAssign(p, et, et))
  PROVE  Reads(PoolAssign(p, et, et))
<1> DEFINE q == PoolAssign(p, et, et)
<1>1. /\ Owners(q) = Owners(p) \cup {et}
      /\ q.set.size = IF PoolHas(p, et) THEN p.set.size ELSE p.set.size + 1
      /\ \A w \in Owners(p) : PoolGet(q, w) = PoolGet(p, w)
      /\ ~PoolHas(p, et) /\ p.set.size = Len(p.components) => PoolGet(q, et) = et
  BY PoolAssignExact, IdsAreValues, PoolFits(p, live), ~PoolAssignOverruns(p, et)
     DEF PoolFits
<1>2. ~PoolHas(p, et) => p.set.size = Len(p.components)
  <2>1. /\ p.set.size \in Nat /\ Len(p.components) \in Nat
        /\ p.set.size <= Len(p.components)
    BY PoolFits(p, live), LimitAssumption DEF PoolFits, PoolWellFormed, SparseTypeOK, Value
  <2> HIDE DEF q
  <2>. QED
    BY <1>1, <2>1, ~Joined(p, PoolAssign(p, et, et)) DEF Joined, q
<1> HIDE DEF q
<1>3. Reads(q)
  BY <1>1, <1>2, Reads(p), PoolHas(p, et) <=> et \in Owners(p) DEF Reads
<1>. QED
  BY <1>3 DEF q

LEMMA ReplaceReads ==
  ASSUME NEW live, NEW p, PoolFits(p, live), Reads(p), NEW et \in Ids, et \in Owners(p)
  PROVE  Reads(PoolReplace(p, et, et))
<1> DEFINE q == PoolReplace(p, et, et)
<1>1. \A w \in Owners(p) : PoolGet(q, w) = IF w = et THEN et ELSE PoolGet(p, w)
  BY PoolReplaceExact, PoolFits(p, live), et \in Owners(p) DEF PoolFits
<1>2. Owners(q) = Owners(p)
  BY ReplaceKeepsOwners
<1> HIDE DEF q
<1>3. Reads(q)
  BY <1>1, <1>2, Reads(p) DEF Reads
<1>. QED
  BY <1>3 DEF q

LEMMA DeleteReads ==
  ASSUME NEW live, NEW p, PoolFits(p, live), Reads(p), NEW et \in Ids, et \in Owners(p),
         ~Moved(p, PoolDelete(p, et))
  PROVE  Reads(PoolDelete(p, et))
<1> DEFINE q == PoolDelete(p, et)
<1>1. /\ Owners(q) = Owners(p) \ {et}
      /\ et \in Owners(p) /\ Place(p, et) = p.set.size
           => \A w \in Owners(q) : PoolGet(q, w) = PoolGet(p, w)
  BY PoolDeleteExact, IdsAreValues, PoolFits(p, live) DEF PoolFits
<1> HIDE DEF q
<1>2. Place(p, et) = p.set.size
  BY <1>1, et \in Owners(p), ~Moved(p, PoolDelete(p, et)) DEF Moved, q
<1>3. Reads(q)
  BY <1>1, <1>2, et \in Owners(p), Reads(p) DEF Reads
<1>. QED
  BY <1>3 DEF q

\* An owner comes to read the component of another entity in three ways only: an
\* owner that is not the last of its pool leaves it, an entity joins a pool that
\* has more components than owners, or a component that is not owned is replaced.
THEOREM CausesOfMisreadsAreThree == Spec => CausesOfMisreads
<1> DEFINE Caused(c) ==
      \/ Moved(pools[c], pools'[c])
      \/ Joined(pools[c], pools'[c])
      \/ \E et \in Ids : Replace(c, et) /\ ~OwnsAll(et, {c})
<1>1. ASSUME IInv, [Next]_vars, ReadsOwn, \A c \in Registered : ~Caused(c)
      PROVE  ReadsOwn'
  <2>0. Base
    BY <1>1 DEF IInv
  <2>f. \A c \in Registered : PoolFits(pools[c], Live) /\ Reads(pools[c])
    BY <1>1, <2>0 DEF Base, ReadsOwn, Reads
  <2>1. CASE UNCHANGED pools
    BY <1>1, <2>1 DEF ReadsOwn, Registered
  <2>2. ASSUME NEW c \in ComponentTypes, NEW et \in Ids, NEW q,
               pools' = WithPool(c, q)
        PROVE  /\ pools'[c] = q
               /\ c \in Registered =>
                    ~Moved(PoolOf(c), q) /\ ~Joined(PoolOf(c), q)
    <3>1. pools'[c] = q
      BY <2>2 DEF WithPool
    <3>. QED
      BY <1>1, <3>1, PoolOfReads
  <2>3. ASSUME NEW c \in ComponentTypes, NEW et \in Ids, Assign(c, et) \/ AssignOrReplace(c, et)
        PROVE  ReadsOwn'
    <3> DEFINE p == PoolOf(c)
    <3>1. /\ PoolFits(p, Live) /\ Reads(p)
          /\ PoolHas(p, et) <=> et \in Owners(p)
          /\ ~PoolAssignOverruns(p, et)
      BY <1>1, <2>0, PoolOfFits, PoolOfReads
    <3>2. CASE pools' = WithPool(c, PoolAssign(p, et, et))
      <4>1. ~Joined(p, PoolAssign(p, et, et))
        BY <1>1, <2>2, <3>2, PoolOfReads
      <4>2. Reads(PoolAssign(p, et, et))
        BY <3>1, <4>1, AssignReads
      <4>. QED
        BY <1>1, <3>2, <4>2, WithPoolReads
    <3>3. CASE PoolHas(p, et) /\ pools' = WithPool(c, PoolReplace(p, et, et))
      <4>1. Reads(PoolReplace(p, et, et))
        BY <3>1, <3>3, ReplaceReads
      <4>. QED
        BY <1>1, <3>3, <4>1, WithPoolReads
    <3>. QED
      BY <2>3, <3>1, <3>2, <3>3 DEF Assign, AssignOrReplace, PoolAssignOrReplace
  <2>4. ASSUME NEW c \in ComponentTypes, NEW et \in Ids, Replace(c, et)
        PROVE  ReadsOwn'
    <3>1. CASE OwnsAll(et, {c})
      <4>1. /\ c \in Registered /\ PoolOf(c) = pools[c] /\ et \in Owners(pools[c])
            /\ pools' = WithPool(c, PoolReplace(pools[c], et, et))
        BY <2>0, <2>4, <3>1, OwnedIsReplaceable DEF Replace
      <4>2. Reads(PoolReplace(pools[c], et, et))
        BY <2>f, <4>1, ReplaceReads
      <4>. QED
        BY <1>1, <4>1, <4>2, WithPoolReads
    <3>2. CASE ~OwnsAll(et, {c})
      <4>1. c \notin Registered
        BY <1>1, <2>4, <3>2
      <4>2. UNCHANGED pools
        BY <2>4, <4>1 DEF Replace
      <4>. QED
        BY <2>1, <4>2
    <3>. QED
      BY <3>1, <3>2
  <2>5. ASSUME NEW c \in ComponentTypes, NEW et \in Ids, Delete(c, et)
        PROVE  ReadsOwn'
    <3>1. /\ c \in Registered /\ PoolOf(c) = pools[c] /\ et \in Owners(pools[c])
          /\ pools' = WithPool(c, PoolDelete(pools[c], et))
      BY <2>0, <2>5, OwnedIsReplaceable DEF Delete
    <3>2. Reads(PoolDelete(pools[c], et))
      BY <2>f, <2>2, <3>1, DeleteReads
    <3>. QED
      BY <1>1, <3>1, <3>2, WithPoolReads
  <2>6. ASSUME NEW c \in ComponentTypes, ResetPool(c)
        PROVE  ReadsOwn'
    <3>1. pools' = WithPool(c, PoolReset(pools[c])) /\ c \in Registered
      BY <2>6 DEF ResetPool
    <3>2. Reads(PoolReset(pools[c]))
      BY <2>f, <3>1, PoolResetExact DEF PoolFits, Reads
    <3>. QED
      BY <1>1, <3>1, <3>2, WithPoolReads
  <2>7. ASSUME NEW c \in ComponentTypes, ReservePool(c)
        PROVE  ReadsOwn'
    BY <1>1, <2>7, PoolOfReads, WithPoolReads DEF ReservePool
  <2>8. ASSUME NEW et \in Live, DestroyEffect(et)
        PROVE  ReadsOwn'
    <3>1. et \in Ids /\ Registered' = Registered
      BY <2>0, <2>8, BaseFacts, DestroyExact
    <3>2. ASSUME NEW c \in Registered PROVE Reads(pools'[c])
      <4>1. pools'[c] = IF PoolHas(pools[c], et) THEN PoolDelete(pools[c], et) ELSE pools[c]
        BY <2>8 DEF DestroyEffect
      <4>2. PoolHas(pools[c], et) <=> et \in Owners(pools[c])
        BY <2>0, <3>1, BaseFacts
      <4>3. CASE PoolHas(pools[c], et)
        <5>1. pools'[c] = PoolDelete(pools[c], et)
          BY <4>1, <4>3
        <5>2. ~Moved(pools[c], PoolDelete(pools[c], et))
          BY <1>1, <5>1
        <5>. QED
          BY <2>f, <3>1, <4>2, <4>3, <5>1, <5>2, DeleteReads
      <4>4. CASE ~PoolHas(pools[c], et)
        BY <2>f, <4>1, <4>4
      <4>. QED
        BY <4>3, <4>4
    <3>. QED
      BY <3>1, <3>2 DEF ReadsOwn, Reads
  <2> HIDE DEF Caused
  <2>. QED
    BY <1>1, <2>1, <2>3, <2>4, <2>5, <2>6, <2>7, <2>8, DestroyCalls
       DEF Next, UsualNext, vars, CreateFresh, CreateRecycled, CreateElsewhere,
           StartDestroyAll, DestroyAllStep, DestroyAllEnd, Reserve
<1>2. IInv /\ [Next]_vars => (ReadsOwn /\ ~ReadsOwn' => \E c \in Registered : Caused(c))
  BY <1>1
<1>. QED
  BY <1>2, Invariance, PTL DEF Spec, CausesOfMisreads, Moved, Joined
-----------------------------------------------------------------------------
(***************************************************************************)
(* The tidy caller.  For it the list of free ids stays coherent.           *)
(***************************************************************************)
TidyInv == IInv /\ Coherent(deleted) /\ ~ub

LEMMA TidyIsAllowed == ASSUME [TidyNext]_vars PROVE [Next]_vars
BY DEF TidyNext, Next

\* Under TidyInv the existing ids and the free ones are apart.
LEMMA TidyFacts ==
  ASSUME TidyInv
  PROVE  /\ IInv /\ Base /\ WellFormed(deleted)
         /\ Live \cap Listed(deleted) = {}
<1>1. ~HeadLost
  <2>1. deleted.size # 0 => 0 \in Slots(deleted)
    BY LimitAssumption DEF TidyInv, IInv, Base, SparseTypeOK, Slots, Value
  <2>. QED
    BY <2>1 DEF TidyInv, Coherent, HeadLost
<1>. QED
  BY <1>1 DEF TidyInv, IInv, Base, FreeIdsUnused, WellFormed

\* A Create of the tidy caller returns an id that did not exist.
LEMMA TidyCreate ==
  ASSUME TidyInv, (ett # Limit - 1 /\ CreateFresh) \/ CreateRecycled
  PROVE  /\ \E et \in Ids \ Live : Live' = Live \cup {et}
         /\ entities'.size = entities.size + 1
         /\ UNCHANGED pools
         /\ ub' = FALSE
         /\ deleted.size \in {0, 1} => deleted'.size = 0
<1>0. Base /\ ~ub
  BY TidyFacts DEF TidyInv
<1>1. CASE ett # Limit - 1 /\ CreateFresh
  <2>1. ett \in Ids /\ ett \notin 0 .. (ett - 1)
    BY <1>0, <1>1, CountOne DEF CreateFresh, Ids
  <2>2. ett \notin Live
    BY <1>0, <2>1 DEF Base
  <2>. QED
    BY <1>0, <1>1, <2>1, <2>2, CreateStep DEF CreateFresh
<1>2. CASE CreateRecycled
  <2>1. deleted.dense[0] \in Listed(deleted)
    <3>1. 0 \in Slots(deleted)
      BY <1>0, <1>2, LimitAssumption DEF CreateRecycled, Base, SparseTypeOK, Slots,
         Value
    <3>. QED
      BY <3>1 DEF Listed
  <2>2. deleted.dense[0] \in Ids /\ deleted.dense[0] \notin Live
    BY <1>0, <2>1, TidyFacts, BaseFacts
  <2>3. deleted.size \in {0, 1} => deleted'.size = 0
    BY <1>0, <1>2, EraseFirst DEF CreateRecycled, Base, TidyInv
  <2>. QED
    BY <1>0, <1>2, <2>2, <2>3, CreateStep DEF CreateRecycled
<1>. QED
  BY <1>1, <1>2

LEMMA TidyInductive ==
  /\ Init => TidyInv
  /\ TidyInv /\ [TidyNext]_vars => TidyInv'
<1>1. Init => TidyInv
  BY Inductive, EmptyIsWellFormed DEF Init, TidyInv, WellFormed
<1>2. ASSUME TidyInv, [TidyNext]_vars PROVE TidyInv'
  <2>0. IInv' /\ Base /\ IInv /\ Coherent(deleted) /\ ~ub
    BY <1>2, TidyIsAllowed, Inductive, TidyFacts DEF TidyInv
  <2>. SUFFICES Coherent(deleted)' /\ ~ub'
    BY <2>0 DEF TidyInv
  <2>1. CASE UNCHANGED deleted /\ ub' = ub
    BY <2>0, <2>1 DEF Coherent
  <2>2. CASE (ett # Limit - 1 /\ CreateFresh) \/ (deleted.size = 1 /\ CreateRecycled)
    <3>0. deleted.size \in {0, 1}
      BY <2>2 DEF CreateFresh
    <3>1. Slots(deleted') = {}
      <4>1. deleted'.size = 0
        BY <1>2, <2>2, <3>0, TidyCreate
      <4>. QED
        BY <4>1 DEF Slots
    <3>. QED
      BY <1>2, <2>2, <3>1, TidyCreate DEF Coherent
  <2>3. CASE \E et \in Live : DestroyEffect(et)
    BY <2>0, <2>3, DestroyExact
  <2>4. ASSUME NEW c \in ComponentTypes, NEW et \in Ids,
               Assign(c, et) \/ AssignOrReplace(c, et)
        PROVE  Coherent(deleted)' /\ ~ub'
    BY <2>0, <2>4, PoolOfFits DEF Assign, AssignOrReplace, Coherent
  <2>5. ASSUME NEW c \in ComponentTypes, NEW et \in Ids,
               OwnsAll(et, {c}), Replace(c, et)
        PROVE  Coherent(deleted)' /\ ~ub'
    BY <2>0, <2>5, OwnedIsReplaceable DEF Replace, Coherent
  <2>. QED
    BY <1>2, <2>1, <2>2, <2>3, <2>4, <2>5, <2>0, DestroyCalls
       DEF TidyNext, UsualNext, vars, CreateElsewhere, StartDestroyAll, DestroyAllStep,
           DestroyAllEnd, Delete, ResetPool, Reserve, ReservePool
<1>. QED
  BY <1>1, <1>2

\* The tidy caller never meets undefined behaviour.
THEOREM TidyIsSafe == TidySpec => []NoUB
<1>1. TidyInv => NoUB
  BY DEF TidyInv, NoUB
<1>. QED
  BY <1>1, TidyInductive, PTL DEF TidySpec

\* What the tidy caller gets from Create is always an entity that did not exist.
THEOREM TidyCreateIsNew == TidySpec => []CreateIsNew
<1>1. ASSUME TidyInv PROVE CreateIsNew
  <2>0. Base /\ WellFormed(deleted) /\ Live \cap Listed(deleted) = {}
    BY <1>1, TidyFacts
  <2>1. CASE deleted.size = 0
    <3>1. ett \notin 0 .. (ett - 1)
      BY <2>0, MaxEntitiesAssumption DEF Base
    <3>. QED
      BY <2>0, <2>1, <3>1 DEF Base, CreateIsNew, NextCreated
  <2>2. CASE deleted.size # 0
    <3>1. 0 \in Slots(deleted)
      BY <2>0, <2>2, LimitAssumption DEF WellFormed, SparseTypeOK, Slots, Value
    <3>. QED
      BY <2>0, <2>2, <3>1 DEF Listed, CreateIsNew, NextCreated
  <2>. QED
    BY <2>1, <2>2
<1>2. TidyInv => CreateIsNew
  BY <1>1
<1>. QED
  BY <1>2, TidyInductive, PTL DEF TidySpec

\* A call that puts pool p for type c changes the owners of that type only.
LEMMA OwningStep ==
  ASSUME NEW c \in ComponentTypes, NEW p, pools' = WithPool(c, p)
  PROVE  /\ Owning' = [Owning EXCEPT ![c] = Owners(p)]
         /\ Owning[c] = Owners(PoolOf(c))
<1>1. Registered' = Registered \cup {c} /\ pools'[c] = p
  BY pools' = WithPool(c, p) DEF WithPool, Registered
<1>2. \A d \in Registered \ {c} : pools'[d] = pools[d]
  BY pools' = WithPool(c, p) DEF WithPool
<1>3. Owners(EmptyPool) = {}
  BY EmptyIsWellFormed DEF Owners, EmptyPool
<1>. QED
  BY <1>1, <1>2, <1>3 DEF Owning, PoolOf

\* For the tidy caller the manager implements the registry: Create makes an
\* entity that did not exist, and what a call or an iteration does to the
\* entities and their components is one of the operations it promises.
THEOREM TidyRefinement == TidySpec => ImplementsRegistry
<1>1. Init => Abstract!Init
  BY EmptyIsWellFormed DEF Init, Abstract!Init, Live, Owning, Registered
<1>2. ASSUME TidyInv, [TidyNext]_vars
      PROVE  [Abstract!Next]_<<Live, Owning>>
  <2>0. Base /\ IInv
    BY <1>2, TidyFacts
  <2>1. CASE (ett # Limit - 1 /\ CreateFresh) \/ (deleted.size = 1 /\ CreateRecycled)
    <3>1. UNCHANGED Owning
      BY <1>2, <2>1, TidyCreate DEF Owning, Registered
    <3>. QED
      BY <1>2, <2>1, <3>1, TidyCreate DEF Abstract!Next, Abstract!Create
  <2>2. CASE \E et \in Live : DestroyEffect(et)
    <3>1. PICK et \in Live : DestroyEffect(et)
      BY <2>2
    <3>2. /\ Live' = Live \ {et} /\ et \in Ids
          /\ Owning' = [c \in ComponentTypes |-> Owning[c] \ {et}]
      BY <2>0, <3>1, DestroyExact, BaseFacts DEF Owning
    <3>. QED
      BY <3>1, <3>2 DEF Abstract!Next, Abstract!Destroy
  <2>3. CASE UNCHANGED <<entities, pools>>
    BY <2>3 DEF Live, Owning, Registered
  <2>4. ASSUME NEW c \in ComponentTypes, NEW et \in Ids, NEW p,
               et \in Live, pools' = WithPool(c, p), UNCHANGED entities,
               Owners(p) \in { Owners(PoolOf(c)), Owners(PoolOf(c)) \cup {et} }
        PROVE  [Abstract!Next]_<<Live, Owning>>
    <3>1. Live' = Live
      BY <2>4 DEF Live
    <3>2. CASE Owners(p) = Owners(PoolOf(c))
      <4>1. Owning' = Owning
        BY <2>4, <3>2, OwningStep, ZenonT(60) DEF Owning
      <4>. QED
        BY <3>1, <4>1
    <3>3. CASE Owners(p) = Owners(PoolOf(c)) \cup {et}
      <4>1. Owning' = [Owning EXCEPT ![c] = @ \cup {et}]
        BY <2>4, <3>3, OwningStep
      <4>. QED
        BY <2>4, <3>1, <4>1 DEF Abstract!Next, Abstract!Give
    <3>. QED
      BY <2>4, <3>2, <3>3
  <2>5. ASSUME NEW c \in ComponentTypes, NEW et \in Ids,
               Assign(c, et) \/ AssignOrReplace(c, et)
        PROVE  [Abstract!Next]_<<Live, Owning>>
    <3>1. /\ et \in Live /\ UNCHANGED entities
          /\ \/ pools' = WithPool(c, PoolAssign(PoolOf(c), et, et))
             \/ pools' = WithPool(c, PoolReplace(PoolOf(c), et, et))
      BY <2>0, <2>5, BaseFacts, PoolOfFits
         DEF Assign, AssignOrReplace, PoolAssignOrReplace
    <3>. QED
      BY <2>0, <2>4, <3>1, AssignedFits, ReplaceKeepsOwners
  <2>6. ASSUME NEW c \in ComponentTypes, NEW et \in Ids,
               OwnsAll(et, {c}), Replace(c, et)
        PROVE  [Abstract!Next]_<<Live, Owning>>
    <3>1. /\ et \in Live /\ UNCHANGED entities
          /\ pools' = WithPool(c, PoolReplace(PoolOf(c), et, et))
      BY <2>0, <2>6, BaseFacts, OwnedIsReplaceable DEF Replace
    <3>. QED
      BY <2>4, <3>1, ReplaceKeepsOwners
  <2>7. ASSUME NEW c \in ComponentTypes, NEW et \in Ids, Delete(c, et)
        PROVE  [Abstract!Next]_<<Live, Owning>>
    <3>1. /\ c \in Registered /\ et \in Owners(pools[c]) /\ PoolOf(c) = pools[c]
          /\ et \in Value /\ PoolFits(pools[c], Live) /\ Live' = Live
          /\ pools' = WithPool(c, PoolDelete(pools[c], et))
      BY <2>0, <2>7, OwnedIsReplaceable, IdsAreValues DEF Delete, Base, Live
    <3>2. Owners(PoolDelete(pools[c], et)) = Owners(pools[c]) \ {et}
      BY <3>1, PoolDeleteExact DEF PoolFits
    <3>3. Owning' = [Owning EXCEPT ![c] = @ \ {et}] /\ et \in Owning[c]
      BY <3>1, <3>2, OwningStep
    <3>. QED
      BY <3>1, <3>3 DEF Abstract!Next, Abstract!Take
  <2>8. ASSUME NEW c \in ComponentTypes, ResetPool(c)
        PROVE  [Abstract!Next]_<<Live, Owning>>
    <3>1. /\ c \in Registered /\ PoolFits(pools[c], Live) /\ Live' = Live
          /\ pools' = WithPool(c, PoolReset(pools[c]))
      BY <2>0, <2>8 DEF ResetPool, Base, Live
    <3>2. Owners(PoolReset(pools[c])) = {}
      BY <3>1, PoolResetExact DEF PoolFits
    <3>3. Owning' = [Owning EXCEPT ![c] = {}]
      BY <3>1, <3>2, OwningStep
    <3>. QED
      BY <3>1, <3>3 DEF Abstract!Next, Abstract!TakeAll
  <2>9. ASSUME NEW c \in ComponentTypes, ReservePool(c)
        PROVE  [Abstract!Next]_<<Live, Owning>>
    <3>1. Owning' = Owning
      BY <2>9, OwningStep, ZenonT(60) DEF ReservePool, Owning
    <3>. QED
      BY <2>9, <3>1 DEF ReservePool, Live
  <2>10. ASSUME NEW count \in Value, Reserve(count)
         PROVE  [Abstract!Next]_<<Live, Owning>>
    BY <2>0, <2>10, ReserveExact DEF Reserve, Base, Live, Owning, Registered
  <2>. QED
    BY <1>2, <2>1, <2>2, <2>3, <2>5, <2>6, <2>7, <2>8, <2>9, <2>10, <2>0, DestroyCalls
       DEF TidyNext, UsualNext, vars, CreateElsewhere, StartDestroyAll,
           DestroyAllStep, DestroyAllEnd
<1>3. TidyInv /\ [TidyNext]_vars => [Abstract!Next]_<<Live, Owning>>
  BY <1>2
<1>. QED
  BY <1>1, <1>3, TidyInductive, PTL DEF TidySpec, ImplementsRegistry, Abstract!Spec
=============================================================================
