------------------------- MODULE EntityForEachProofs -------------------------
(***************************************************************************)
(* EntityManager::ForEach<Components...>, for every width of EntityType,   *)
(* every set of component types and every bound.                           *)
(***************************************************************************)
EXTENDS EntityForEach, EntityManagerProofs, FiniteSetTheorems

\* The cells the iteration has yet to read.
Cells == walk.next .. (walk.end - 1)

(***************************************************************************)
(* What is true of a tame iteration.  CellsExact is what is true of        *)
(* DestroyAll's: the cells ahead name distinct entities that exist and are *)
(* not placed behind the cell.  The entity at hand is not ahead and, if it *)
(* exists, has its place among the cells that have been read, so that      *)
(* destroying it writes there; until then the list ends at or behind the   *)
(* end of the iteration, so that creating writes there.                    *)
(***************************************************************************)
CellsExact ==
  /\ walk.next <= walk.end
  /\ walk.end <= entities.capacity
  /\ ~walk.erased => walk.end <= entities.size
  /\ \A k \in Cells :
       /\ entities.dense[k] \in Live
       /\ entities.sparse[entities.dense[k]] <= k
  /\ \A k, m \in Cells : entities.dense[k] = entities.dense[m] => k = m

AtHand ==
  walk.inside =>
    /\ walk.at \in Ids
    /\ \A k \in Cells : entities.dense[k] # walk.at
    /\ walk.at \in Live => entities.sparse[walk.at] < walk.next
    /\ ~walk.erased => walk.at \in Live

IsAhead(et) == \E k \in Cells : entities.dense[k] = et

\* The owners that have stayed are met exactly once.
StayedMet ==
  /\ walk.stayed \subseteq Live
  /\ \A et \in walk.stayed :
       /\ \A c \in walk.types : PoolHas(pools[c], et)
       /\ walk.visits[et] = IF IsAhead(et) THEN 0 ELSE 1

WalkTypeOK ==
  /\ walk = [active |-> walk.active, inside |-> walk.inside, types |-> walk.types,
             next |-> walk.next, end |-> walk.end, at |-> walk.at,
             moved |-> walk.moved, over |-> walk.over, visits |-> walk.visits,
             stayed |-> walk.stayed, erased |-> walk.erased, tame |-> walk.tame,
             calls |-> walk.calls]
  /\ walk.next \in Nat /\ walk.end \in Nat
  /\ walk.visits \in [Ids -> Nat]
  /\ walk.active \in BOOLEAN /\ walk.inside \in BOOLEAN
  /\ walk.erased \in BOOLEAN /\ walk.tame \in BOOLEAN
  /\ walk.inside => walk.active

TameExact == CellsExact /\ AtHand /\ StayedMet

WalkInv ==
  /\ IInv
  /\ WalkTypeOK
  /\ walk.active /\ walk.tame /\ ~ub => TameExact

-----------------------------------------------------------------------------
\* The shape of the list of entities.
LEMMA ListFacts ==
  ASSUME Base
  PROVE  /\ WellFormed(entities)
         /\ entities.size \in Nat /\ entities.capacity \in Nat
         /\ entities.size <= entities.capacity
         /\ entities.dense \in [0 .. (entities.capacity - 1) -> Nat]
         /\ entities.sparse \in [0 .. (entities.capacity - 1) -> Nat]
         /\ Live \subseteq Ids /\ Live \subseteq 0 .. (entities.capacity - 1)
<1>1. WellFormed(entities) /\ Live \subseteq Ids
  BY BaseFacts DEF Base
<1>2. Live \subseteq 0 .. (entities.capacity - 1)
  BY DEF Live, Members
<1>. QED
  BY <1>1, <1>2, LimitAssumption DEF WellFormed, SparseTypeOK, Value

\* A step that leaves the list of entities and the iteration's cells as they are,
\* and takes from the owners that have stayed only.
LEMMA SameList ==
  ASSUME TameExact, entities' = entities,
         walk'.next = walk.next, walk'.end = walk.end, walk'.erased = walk.erased,
         walk'.visits = walk.visits, walk'.at = walk.at,
         walk'.inside => walk.inside,
         walk'.stayed \subseteq walk.stayed,
         \A et \in walk'.stayed : \A c \in walk'.types : PoolHas(pools'[c], et)
  PROVE  TameExact'
<1>1. Live' = Live /\ Cells' = Cells
  BY entities' = entities, walk'.next = walk.next, walk'.end = walk.end DEF Live, Cells
<1>2. CellsExact'
  BY <1>1, TameExact, entities' = entities, walk'.next = walk.next,
     walk'.end = walk.end, walk'.erased = walk.erased
     DEF TameExact, CellsExact
<1>3. AtHand'
  BY <1>1, TameExact, entities' = entities, walk'.next = walk.next, walk'.at = walk.at,
     walk'.erased = walk.erased, walk'.inside => walk.inside
     DEF TameExact, AtHand
<1>4. \A et : IsAhead(et)' <=> IsAhead(et)
  BY <1>1, entities' = entities DEF IsAhead
<1>5. StayedMet'
  BY <1>1, <1>4, TameExact, walk'.visits = walk.visits,
     walk'.stayed \subseteq walk.stayed,
     \A et \in walk'.stayed : \A c \in walk'.types : PoolHas(pools'[c], et)
     DEF TameExact, StayedMet
<1>. QED
  BY <1>2, <1>3, <1>5 DEF TameExact

\* What the calls of the callback record.
LEMMA TrackExact ==
  ASSUME WalkTypeOK, Track
  PROVE  /\ WalkTypeOK'
         /\ walk'.active = walk.active /\ walk'.inside = walk.inside
         /\ walk'.types = walk.types /\ walk'.next = walk.next /\ walk'.end = walk.end
         /\ walk'.at = walk.at /\ walk'.visits = walk.visits
         /\ walk'.erased = (walk.erased \/ entities'.size < entities.size)
         /\ walk'.tame => /\ walk.tame
                          /\ Live \ Live' \subseteq {walk.at}
                          /\ walk.erased => Live' \subseteq Live
         /\ walk'.stayed \subseteq walk.stayed
         /\ \A et \in walk'.stayed :
              /\ SparseHas(entities', et)
              /\ \A c \in walk'.types : PoolHas(pools'[c], et)
<1> DEFINE fewer == walk.erased \/ entities'.size < entities.size
           still == /\ walk.tame
                    /\ Live \ Live' \subseteq {walk.at}
                    /\ walk.erased => Live' \subseteq Live
           staying == { et \in walk.stayed :
                          /\ SparseHas(entities', et)
                          /\ \A c \in walk.types : c \in DOMAIN pools' /\ PoolHas(pools'[c], et) }
           count == IF loop.active THEN walk.calls ELSE walk.calls + 1
<1>1. PICK moved : walk' = [walk EXCEPT !.moved = moved, !.stayed = staying,
                                        !.erased = fewer, !.tame = still,
                                        !.calls = count]
  BY Track DEF Track
<1>2. fewer \in BOOLEAN /\ still \in BOOLEAN
  BY DEF WalkTypeOK
<1>3. /\ staying \subseteq walk.stayed
      /\ \A et \in staying :
           SparseHas(entities', et) /\ \A c \in walk.types : PoolHas(pools'[c], et)
  OBVIOUS
<1> HIDE DEF fewer, still, staying, count
<1>4. /\ walk'.active = walk.active /\ walk'.inside = walk.inside
      /\ walk'.types = walk.types /\ walk'.next = walk.next /\ walk'.end = walk.end
      /\ walk'.at = walk.at /\ walk'.visits = walk.visits
      /\ walk'.erased = fewer /\ walk'.tame = still /\ walk'.stayed = staying
      /\ walk' = [active |-> walk'.active, inside |-> walk'.inside,
                  types |-> walk'.types, next |-> walk'.next, end |-> walk'.end,
                  at |-> walk'.at, moved |-> walk'.moved, over |-> walk'.over,
                  visits |-> walk'.visits, stayed |-> walk'.stayed,
                  erased |-> walk'.erased, tame |-> walk'.tame, calls |-> walk'.calls]
  BY <1>1 DEF WalkTypeOK
<1>5. WalkTypeOK'
  BY <1>2, <1>4 DEF WalkTypeOK
<1>6. walk'.erased = (walk.erased \/ entities'.size < entities.size)
  BY <1>4 DEF fewer
<1>7. walk'.tame => /\ walk.tame
                    /\ Live \ Live' \subseteq {walk.at}
                    /\ walk.erased => Live' \subseteq Live
  BY <1>4 DEF still
<1>. QED
  BY <1>3, <1>4, <1>5, <1>6, <1>7, SMTT(30)

\* The owners that have stayed exist after a call of the callback.
LEMMA StayedLive ==
  ASSUME Base', walk'.stayed \subseteq Ids,
         \A et \in walk'.stayed : SparseHas(entities', et)
  PROVE  walk'.stayed \subseteq Live'
<1>1. SparseTypeOK(entities')
  BY Base' DEF Base, WellFormed
<1>2. \A et \in walk'.stayed : et \in Members(entities')
  BY <1>1, HasIsMember, IdsAreValues, walk'.stayed \subseteq Ids,
     \A et \in walk'.stayed : SparseHas(entities', et)
<1>. QED
  BY <1>2 DEF Live

\* ForEach starts with the whole list ahead.
LEMMA StartExact ==
  ASSUME Base, NEW types, StartForEach(types)
  PROVE  WalkTypeOK' /\ TameExact'
<1>1. /\ walk' = [active |-> TRUE, inside |-> FALSE, types |-> types, next |-> 0,
                  end |-> entities.size, at |-> 0, moved |-> FALSE, over |-> FALSE,
                  visits |-> [et \in Ids |-> 0],
                  stayed |-> { et \in Live : OwnsAll(et, types) },
                  erased |-> FALSE, tame |-> TRUE, calls |-> 0]
      /\ UNCHANGED vars
  BY StartForEach(types) DEF StartForEach, NotWalking
<1>2. /\ walk'.next = 0 /\ walk'.end = entities.size /\ ~walk'.inside
      /\ walk'.types = types /\ walk'.visits = [et \in Ids |-> 0]
      /\ walk'.stayed = { et \in Live : OwnsAll(et, types) }
      /\ entities' = entities /\ pools' = pools /\ Live' = Live
  BY <1>1 DEF vars, Live
<1>3. WalkTypeOK'
  BY <1>1, ListFacts DEF WalkTypeOK
<1>4. Cells' = Slots(entities)
  BY <1>2 DEF Cells, Slots
<1>5. /\ \A k \in Slots(entities) :
           entities.dense[k] \in Live /\ entities.sparse[entities.dense[k]] = k
      /\ \A et \in Live : \E k \in Slots(entities) : entities.dense[k] = et
      /\ \A k \in Slots(entities) : k \in Nat
  BY ListFacts, ListedIsMembers DEF WellFormed, Coherent, Listed, Live, Slots
<1>6. CellsExact'
  <2>1. walk'.next <= walk'.end /\ walk'.end <= entities'.capacity
        /\ walk'.end <= entities'.size
    BY <1>2, ListFacts
  <2>2. \A k \in Slots(entities) : entities.sparse[entities.dense[k]] <= k
    BY <1>5
  <2>3. \A k, m \in Slots(entities) : entities.dense[k] = entities.dense[m] => k = m
    BY <1>5
  <2>. QED
    BY <1>2, <1>4, <1>5, <2>1, <2>2, <2>3 DEF CellsExact
<1>7. AtHand'
  BY <1>2 DEF AtHand
<1>8. StayedMet'
  <2>1. ASSUME NEW et \in walk'.stayed
        PROVE  /\ \A c \in walk'.types : PoolHas(pools'[c], et)
               /\ walk'.visits[et] = 0 /\ IsAhead(et)'
    <3>1. et \in Live /\ OwnsAll(et, types) /\ et \in Ids
      BY <1>2, <2>1, ListFacts
    <3>. QED
      BY <1>2, <1>4, <1>5, <3>1 DEF OwnsAll, IsAhead
  <2>. QED
    BY <1>2, <2>1 DEF StayedMet
<1>. QED
  BY <1>3, <1>6, <1>7, <1>8 DEF TameExact

\* One turn of the range-for.
LEMMA VisitFields ==
  ASSUME WalkTypeOK, Visit
  PROVE  LET et == entities.dense[walk.next]
         IN  /\ WalkTypeOK'
             /\ walk'.next = walk.next + 1 /\ walk'.end = walk.end
             /\ walk'.active = walk.active /\ walk'.types = walk.types
             /\ walk'.erased = walk.erased /\ walk'.tame = walk.tame
             /\ walk'.stayed = walk.stayed
             /\ walk'.inside = Selected(et)
             /\ Selected(et) => walk'.at = et
             /\ \A w \in Ids :
                  walk'.visits[w] = IF Selected(et) /\ w = et THEN walk.visits[w] + 1
                                                             ELSE walk.visits[w]
<1> DEFINE et == entities.dense[walk.next]
           seen == [walk.visits EXCEPT ![et] = @ + 1]
<1>1. /\ walk.active /\ ~walk.inside
      /\ walk' = IF Selected(et)
                 THEN [walk EXCEPT !.next = @ + 1, !.inside = TRUE, !.at = et,
                                   !.visits = seen]
                 ELSE [walk EXCEPT !.next = @ + 1]
  BY Visit DEF Visit
<1>2. /\ walk.next \in Nat /\ walk.end \in Nat
      /\ walk.visits \in [Ids -> Nat] /\ walk.active \in BOOLEAN
      /\ walk.erased \in BOOLEAN /\ walk.tame \in BOOLEAN
  BY DEF WalkTypeOK
<1>3. /\ seen \in [Ids -> Nat]
      /\ \A w \in Ids : seen[w] = IF w = et THEN walk.visits[w] + 1 ELSE walk.visits[w]
  <2>1. \A w \in Ids : seen[w] = IF w = et THEN walk.visits[w] + 1 ELSE walk.visits[w]
    BY <1>2
  <2>2. \A w \in Ids : seen[w] \in Nat
    BY <1>2, <2>1
  <2> HIDE DEF et
  <2>. QED
    BY <1>2, <2>1, <2>2
<1> HIDE DEF seen
<1>4. /\ walk'.next = walk.next + 1 /\ walk'.end = walk.end
      /\ walk'.active = walk.active /\ walk'.types = walk.types
      /\ walk'.erased = walk.erased /\ walk'.tame = walk.tame
      /\ walk'.stayed = walk.stayed
      /\ walk'.inside = Selected(et)
      /\ Selected(et) => walk'.at = et
      /\ walk'.visits = IF Selected(et) THEN seen ELSE walk.visits
      /\ walk' = [active |-> walk'.active, inside |-> walk'.inside,
                  types |-> walk'.types, next |-> walk'.next, end |-> walk'.end,
                  at |-> walk'.at, moved |-> walk'.moved, over |-> walk'.over,
                  visits |-> walk'.visits, stayed |-> walk'.stayed,
                  erased |-> walk'.erased, tame |-> walk'.tame, calls |-> walk'.calls]
  BY <1>1 DEF WalkTypeOK, Selected
<1>5. WalkTypeOK'
  <2>1. walk.next + 1 \in Nat /\ Selected(et) \in BOOLEAN
    BY <1>2 DEF Selected
  <2>2. walk'.visits \in [Ids -> Nat]
    BY <1>2, <1>3, <1>4
  <2> HIDE DEF et
  <2>. QED
    BY <1>1, <1>2, <1>4, <2>1, <2>2 DEF WalkTypeOK
<1> HIDE DEF et
<1>6. \A w \in Ids :
        walk'.visits[w] = IF Selected(et) /\ w = et THEN walk.visits[w] + 1
                                                   ELSE walk.visits[w]
  BY <1>2, <1>3, <1>4
<1>. QED
  BY <1>4, <1>5, <1>6 DEF et

\* The same over a cell of a tame iteration.
LEMMA VisitExact ==
  ASSUME Base, WalkTypeOK, TameExact, Visit
  PROVE  TameExact'
<1> DEFINE et == entities.dense[walk.next]
<1>1. /\ walk.active /\ ~walk.inside /\ walk.next < walk.end
      /\ entities' = entities /\ pools' = pools /\ Live' = Live
  BY Visit DEF Visit, vars, Live
<1>2. /\ walk.next \in Nat /\ walk.end \in Nat /\ walk.next \in Cells
      /\ et \in Live /\ et \in Ids /\ entities.sparse[et] \in Nat
      /\ entities.sparse[et] <= walk.next
  <2>1. walk.next \in Nat /\ walk.end \in Nat /\ walk.next \in Cells
    BY <1>1 DEF WalkTypeOK, Cells
  <2>2. et \in Live /\ entities.sparse[et] <= walk.next
    BY <2>1, TameExact DEF TameExact, CellsExact
  <2>. QED
    BY <2>1, <2>2, ListFacts
<1>3. /\ walk'.next = walk.next + 1 /\ walk'.end = walk.end
      /\ walk'.types = walk.types
      /\ walk'.erased = walk.erased /\ walk'.stayed = walk.stayed
      /\ walk'.inside = Selected(et)
      /\ Selected(et) => walk'.at = et
      /\ \A w \in Ids :
           walk'.visits[w] = IF Selected(et) /\ w = et THEN walk.visits[w] + 1
                                                      ELSE walk.visits[w]
  BY VisitFields
<1>5. Cells' \subseteq Cells /\ walk.next \notin Cells' /\ Cells = Cells' \cup {walk.next}
  BY <1>1, <1>2, <1>3 DEF Cells
<1>6. \A k \in Cells' : entities.dense[k] # et
  BY <1>2, <1>5, TameExact DEF TameExact, CellsExact
<1>7. CellsExact'
  BY <1>1, <1>2, <1>3, <1>5, TameExact DEF TameExact, CellsExact
<1>8. AtHand'
  <2>1. entities.sparse[et] < walk.next + 1
    BY <1>2
  <2> HIDE DEF et
  <2>. QED
    BY <1>1, <1>2, <1>3, <1>6, <2>1 DEF AtHand
<1>9. \A w : w # et => (IsAhead(w)' <=> IsAhead(w))
  BY <1>1, <1>5 DEF IsAhead
<1>10. \A w : w = et => ~IsAhead(w)' /\ IsAhead(w)
  BY <1>1, <1>2, <1>6 DEF IsAhead
<1>11. StayedMet'
  <2> HIDE DEF et
  <2>1. ASSUME NEW w \in walk.stayed
        PROVE  walk'.visits[w] = IF IsAhead(w)' THEN 0 ELSE 1
    <3>1. w \in Ids /\ walk.visits[w] = IF IsAhead(w) THEN 0 ELSE 1
      BY TameExact, ListFacts DEF TameExact, StayedMet
    <3>2. CASE w = et
      <4>1. Selected(et)
        BY <3>2, TameExact DEF TameExact, StayedMet, Selected
      <4>2. walk.visits[w] = 0 /\ ~IsAhead(w)'
        BY <1>10, <3>1, <3>2
      <4>. QED
        BY <1>3, <3>1, <3>2, <4>1, <4>2
    <3>3. CASE w # et
      BY <1>3, <1>9, <3>1, <3>3
    <3>. QED
      BY <3>2, <3>3
  <2>. QED
    BY <1>1, <1>3, <2>1, TameExact DEF TameExact, StayedMet
<1>. QED
  BY <1>7, <1>8, <1>11 DEF TameExact

\* The cells of a list in which only a cell outside of the ones ahead is written.
LEMMA AheadKept ==
  ASSUME walk'.next = walk.next, walk'.end = walk.end,
         \A k \in Cells : entities'.dense[k] = entities.dense[k]
  PROVE  Cells' = Cells /\ \A et : IsAhead(et)' <=> IsAhead(et)
<1>1. Cells' = Cells
  BY walk'.next = walk.next, walk'.end = walk.end DEF Cells
<1>. QED
  BY <1>1, \A k \in Cells : entities'.dense[k] = entities.dense[k] DEF IsAhead

\* The owners that have stayed, after a call that keeps what is ahead.
LEMMA StayedKept ==
  ASSUME Base, Base', StayedMet, walk'.visits = walk.visits,
         walk'.stayed \subseteq walk.stayed,
         \A et \in walk'.stayed :
           /\ SparseHas(entities', et)
           /\ \A c \in walk'.types : PoolHas(pools'[c], et),
         \A et : IsAhead(et)' <=> IsAhead(et)
  PROVE  StayedMet'
<1>1. walk'.stayed \subseteq Ids
  BY StayedMet, ListFacts, walk'.stayed \subseteq walk.stayed DEF StayedMet
<1>2. walk'.stayed \subseteq Live'
  BY <1>1, StayedLive, Base', \A et \in walk'.stayed : SparseHas(entities', et)
<1>3. ASSUME NEW et \in walk'.stayed
      PROVE  walk'.visits[et] = IF IsAhead(et)' THEN 0 ELSE 1
  BY <1>3, StayedMet, walk'.visits = walk.visits, walk'.stayed \subseteq walk.stayed,
     \A w : IsAhead(w)' <=> IsAhead(w)
     DEF StayedMet
<1>. QED
  BY <1>2, <1>3,
     \A et \in walk'.stayed : \A c \in walk'.types : PoolHas(pools'[c], et)
     DEF StayedMet

\* The callback destroys the entity it was called for.
LEMMA DestroyKeepsExact ==
  ASSUME Base, Base', WalkTypeOK, TameExact, walk.inside,
         NEW et \in Live, DestroyEffect(et), Track, walk'.tame
  PROVE  TameExact'
<1>3. /\ Live' = Live \ {et} /\ entities'.capacity = entities.capacity
      /\ entities' = SparseErase(entities, et)
      /\ entities'.size = entities.size - 1
  BY DestroyExact
<1>1. /\ walk'.next = walk.next /\ walk'.end = walk.end /\ walk'.at = walk.at
      /\ walk'.visits = walk.visits /\ walk'.stayed \subseteq walk.stayed
      /\ walk'.erased = (walk.erased \/ entities'.size < entities.size)
      /\ \A w \in walk'.stayed :
           /\ SparseHas(entities', w)
           /\ \A c \in walk'.types : PoolHas(pools'[c], w)
      /\ et = walk.at
  BY <1>3, TrackExact
<1>2. et \in Live /\ et \in Ids
  BY ListFacts
<1>4. /\ entities.sparse[et] < walk.next /\ entities.sparse[et] \in Nat
      /\ walk.next \in Nat /\ walk.end \in Nat
      /\ walk.end <= entities.capacity
      /\ \A k \in Cells : entities.dense[k] # et
      /\ walk'.erased
  <2>1. /\ entities.sparse[et] < walk.next
        /\ \A k \in Cells : entities.dense[k] # et
    BY <1>1, <1>2, TameExact, walk.inside DEF TameExact, AtHand
  <2>2. entities.sparse[et] \in Nat /\ entities'.size < entities.size
    BY <1>2, <1>3, ListFacts
  <2>3. walk'.erased
    BY <1>1, <2>2
  <2>. QED
    BY <2>1, <2>2, <2>3, TameExact DEF TameExact, CellsExact, WalkTypeOK
<1>5. /\ WellFormed(entities) /\ et \in Members(entities) /\ SparseHas(entities, et)
      /\ entities.capacity \in Nat
  BY <1>2, ListFacts DEF Live, Members
<1>6. \A k \in Cells : k \in Nat /\ k >= walk.next /\ k \in 0 .. (entities.capacity - 1)
  BY <1>4, <1>5 DEF Cells
<1>7. ASSUME NEW k \in Cells
      PROVE  entities'.dense[k] = entities.dense[k]
  <2>1. entities'.dense = [entities.dense EXCEPT
                             ![entities.sparse[et]] = entities.dense[entities.size - 1]]
    BY <1>3, <1>5 DEF SparseErase
  <2>2. k # entities.sparse[et]
    BY <1>4, <1>6
  <2>. QED
    BY <1>6, <2>1, <2>2, ListFacts
<1>8. ASSUME NEW k \in Cells
      PROVE  entities'.dense[k] \in Live' /\ entities'.sparse[entities'.dense[k]] <= k
  <2> DEFINE w == entities.dense[k]
  <2>1. w \in Live /\ entities.sparse[w] <= k /\ w # et
    BY <1>4, TameExact DEF TameExact, CellsExact
  <2>2. entities'.sparse[w] = IF entities.sparse[w] = entities.size - 1
                              THEN entities.sparse[et] ELSE entities.sparse[w]
    BY <1>3, <1>5, <2>1, ErasePlaces DEF Live
  <2>3. entities'.sparse[w] <= k
    BY <1>4, <1>6, <2>1, <2>2
  <2>. QED
    BY <1>3, <1>7, <2>1, <2>3
<1>9. Cells' = Cells /\ \A w : IsAhead(w)' <=> IsAhead(w)
  BY <1>1, <1>7, AheadKept
<1>10. CellsExact'
  BY <1>1, <1>3, <1>4, <1>7, <1>8, <1>9, TameExact DEF TameExact, CellsExact
<1>11. AtHand'
  BY <1>1, <1>2, <1>3, <1>4, <1>7, <1>9 DEF AtHand
<1>12. StayedMet'
  BY <1>1, <1>9, StayedKept, TameExact DEF TameExact
<1>. QED
  BY <1>10, <1>11, <1>12 DEF TameExact

\* Create() of this manager.
Create == CreateFresh \/ CreateRecycled

\* A call of Create, of either branch, inserts an id, unless the counter is at its
\* largest value.
LEMMA CreateCalls ==
  ASSUME Base, Create, ~ (ett = Limit - 1 /\ CreateFresh)
  PROVE  \E et \in Ids :
           /\ ub' = InsertOverruns(entities, et)
           /\ entities' = IF ub' THEN entities ELSE SparseInsert(entities, et)
           /\ UNCHANGED pools /\ ~ub
<1>1. CASE CreateFresh
  <2>1. ett \in Ids
    BY <1>1, CountOne, ~ (ett = Limit - 1 /\ CreateFresh) DEF CreateFresh
  <2>. QED
    BY <1>1, <2>1 DEF CreateFresh, Ready
<1>2. CASE CreateRecycled
  <2>1. 0 \in Slots(deleted)
    BY <1>2, LimitAssumption DEF CreateRecycled, Base, SparseTypeOK, Slots, Value
  <2>2. deleted.dense[0] \in Ids
    BY <2>1, BaseFacts DEF Listed
  <2>. QED
    BY <1>2, <2>2 DEF CreateRecycled, Ready
<1>. QED
  BY <1>1, <1>2, Create DEF Create

\* What inserting does to the cells and the places of the list.
LEMMA InsertKeeps ==
  ASSUME NEW s, WellFormed(s), NEW v \in Value, ~InsertOverruns(s, v)
  PROVE  /\ SparseInsert(s, v).capacity >= s.capacity
         /\ \A k \in Nat : k < s.size => SparseInsert(s, v).dense[k] = s.dense[k]
         /\ \A w \in Members(s) : SparseInsert(s, v).sparse[w] = s.sparse[w]
<1> DEFINE r == RoomFor(s, v)
<1>1. s.capacity \in Nat /\ s.size \in 0 .. s.capacity /\ v \in Nat
  BY LimitAssumption, WellFormed(s) DEF WellFormed, SparseTypeOK, Value
<1>2. CASE SparseHas(s, v)
  BY <1>1, <1>2 DEF SparseInsert
<1>3. CASE ~SparseHas(s, v)
  <2>1. /\ SparseInsert(s, v).dense = [r.dense EXCEPT ![r.size] = v]
        /\ SparseInsert(s, v).capacity = r.capacity
    BY <1>3 DEF SparseInsert
  <2>2. /\ r.size = s.size /\ r.capacity >= s.capacity /\ SparseTypeOK(r)
        /\ r.capacity \in Nat
        /\ \A i \in 0 .. (s.capacity - 1) : r.dense[i] = s.dense[i]
    <3>1. r.capacity = IF v >= s.capacity /\ v # Limit - 1 THEN v + 1 ELSE s.capacity
      BY RoomForExact, WellFormed(s)
    <3>2. r.capacity >= s.capacity /\ r.capacity \in Nat
      BY <1>1, <3>1
    <3>. QED
      BY <3>2, RoomForCopies, WellFormed(s) DEF WellFormed
  <2>3. ASSUME NEW k \in Nat, k < s.size
        PROVE  SparseInsert(s, v).dense[k] = s.dense[k]
    <3>1. k \in 0 .. (s.capacity - 1) /\ k \in 0 .. (r.capacity - 1) /\ k # r.size
      BY <1>1, <2>2, <2>3
    <3>. QED
      BY <2>1, <2>2, <3>1 DEF SparseTypeOK
  <2>4. \A w \in Members(s) : SparseInsert(s, v).sparse[w] = s.sparse[w]
    BY <1>3, InsertPlaces, WellFormed(s), ~InsertOverruns(s, v)
  <2>. QED
    BY <2>1, <2>2, <2>3, <2>4
<1>. QED
  BY <1>2, <1>3

\* A call that leaves the list of entities as it is.
LEMMA SameListCall ==
  ASSUME Base, WalkTypeOK, TameExact, Track, entities' = entities
  PROVE  TameExact'
<1>1. ~(entities'.size < entities.size)
  BY ListFacts, entities' = entities
<1>2. /\ walk'.next = walk.next /\ walk'.end = walk.end /\ walk'.at = walk.at
      /\ walk'.visits = walk.visits /\ walk'.inside = walk.inside
      /\ walk'.erased = (walk.erased \/ entities'.size < entities.size)
      /\ walk'.stayed \subseteq walk.stayed
      /\ \A et \in walk'.stayed : \A c \in walk'.types : PoolHas(pools'[c], et)
  BY TrackExact
<1>. QED
  BY <1>1, <1>2, SameList, entities' = entities DEF WalkTypeOK

\* A call that makes the list longer or its storage larger, and leaves the cells
\* ahead and the places of the entities there are.
LEMMA GrowthKeepsExact ==
  ASSUME Base, Base', WalkTypeOK, TameExact, walk.inside, Track, walk'.tame,
         Live \subseteq Live', entities'.size >= entities.size,
         entities'.capacity >= entities.capacity,
         \A k \in Cells : entities'.dense[k] = entities.dense[k],
         \A w \in Live : entities'.sparse[w] = entities.sparse[w]
  PROVE  TameExact'
<1>1. /\ walk'.next = walk.next /\ walk'.end = walk.end /\ walk'.at = walk.at
      /\ walk'.visits = walk.visits /\ walk'.stayed \subseteq walk.stayed
      /\ walk'.erased = (walk.erased \/ entities'.size < entities.size)
      /\ \A w \in walk'.stayed :
           /\ SparseHas(entities', w)
           /\ \A c \in walk'.types : PoolHas(pools'[c], w)
      /\ walk.erased => Live' \subseteq Live
  BY TrackExact
<1>2. /\ walk.end \in Nat /\ entities.size \in Nat /\ entities.capacity \in Nat
      /\ entities'.size \in Nat /\ entities'.capacity \in Nat
      /\ walk.erased \in BOOLEAN
  BY ListFacts, LimitAssumption, Base'
     DEF WalkTypeOK, Base, WellFormed, SparseTypeOK, Value
<1>3. walk'.erased = walk.erased
  BY <1>1, <1>2, entities'.size >= entities.size
<1>4. Cells' = Cells /\ \A w : IsAhead(w)' <=> IsAhead(w)
  BY <1>1, AheadKept, \A k \in Cells : entities'.dense[k] = entities.dense[k]
<1>5. CellsExact'
  <2>1. walk.next <= walk.end /\ walk.end <= entities'.capacity
        /\ (~walk.erased => walk.end <= entities'.size)
    BY <1>2, TameExact, entities'.size >= entities.size,
       entities'.capacity >= entities.capacity DEF TameExact, CellsExact
  <2>2. \A k \in Cells :
          entities'.dense[k] \in Live' /\ entities'.sparse[entities'.dense[k]] <= k
    BY TameExact, Live \subseteq Live',
       \A k \in Cells : entities'.dense[k] = entities.dense[k],
       \A w \in Live : entities'.sparse[w] = entities.sparse[w]
       DEF TameExact, CellsExact
  <2>3. \A k, m \in Cells : entities'.dense[k] = entities'.dense[m] => k = m
    BY TameExact, \A k \in Cells : entities'.dense[k] = entities.dense[k]
       DEF TameExact, CellsExact
  <2>. QED
    BY <1>1, <1>3, <1>4, <2>1, <2>2, <2>3 DEF CellsExact
<1>6. AtHand'
  <2>1. /\ walk.at \in Ids
        /\ \A k \in Cells : entities'.dense[k] # walk.at
        /\ walk.at \in Live => entities.sparse[walk.at] < walk.next
        /\ ~walk.erased => walk.at \in Live
    BY TameExact, walk.inside, \A k \in Cells : entities'.dense[k] = entities.dense[k]
       DEF TameExact, AtHand
  <2>2. walk.at \in Live' => walk.at \in Live
    BY <1>1, <2>1
  <2>3. walk.at \in Live' => entities'.sparse[walk.at] < walk.next
    BY <2>1, <2>2, \A w \in Live : entities'.sparse[w] = entities.sparse[w]
  <2>4. ~walk.erased => walk.at \in Live'
    BY <2>1, Live \subseteq Live'
  <2>. QED
    BY <1>1, <1>3, <1>4, <2>1, <2>3, <2>4 DEF AtHand
<1>7. StayedMet'
  BY <1>1, <1>4, StayedKept, TameExact DEF TameExact
<1>. QED
  BY <1>5, <1>6, <1>7 DEF TameExact

\* The callback creates an entity, before anything was destroyed, or is given one
\* that exists.
LEMMA CreateKeepsExact ==
  ASSUME Base, Base', WalkTypeOK, TameExact, walk.inside, Track, walk'.tame, ~ub',
         NEW et \in Ids, ub' = InsertOverruns(entities, et),
         entities' = IF ub' THEN entities ELSE SparseInsert(entities, et),
         UNCHANGED pools, ~ub
  PROVE  TameExact'
<1>1. /\ Live' = Live \cup {et}
      /\ entities'.size = IF et \in Live THEN entities.size ELSE entities.size + 1
      /\ entities' = SparseInsert(entities, et) /\ ~InsertOverruns(entities, et)
      /\ et \in Value /\ WellFormed(entities)
  BY CreateStep, IdsAreValues, ListFacts, ~ub', ub' = InsertOverruns(entities, et),
     entities' = IF ub' THEN entities ELSE SparseInsert(entities, et)
<1>2. CASE et \in Live
  <2>1. SparseHas(entities, et)
    BY <1>2, BaseFacts DEF Exists
  <2>2. entities' = entities
    BY <1>1, <2>1 DEF SparseInsert
  <2>. QED
    BY <2>2, SameListCall
<1>3. CASE et \notin Live
  <2>1. /\ entities'.capacity >= entities.capacity
        /\ \A k \in Nat : k < entities.size => entities'.dense[k] = entities.dense[k]
        /\ \A w \in Live : entities'.sparse[w] = entities.sparse[w]
    BY <1>1, InsertKeeps DEF Live
  <2>2. ~walk.erased
    BY <1>1, <1>3, TrackExact
  <2>3. /\ walk.next \in Nat /\ walk.end \in Nat /\ walk.end <= entities.size
        /\ entities.size \in Nat
    BY <2>2, TameExact, ListFacts DEF TameExact, CellsExact, WalkTypeOK
  <2>4. \A k \in Cells : entities'.dense[k] = entities.dense[k]
    BY <2>1, <2>3 DEF Cells
  <2>5. entities'.size >= entities.size /\ Live \subseteq Live'
    BY <1>1, <2>3
  <2>. QED
    BY <2>1, <2>4, <2>5, GrowthKeepsExact
<1>. QED
  BY <1>2, <1>3

\* The callback reserves room for entities.
LEMMA ReserveKeepsExact ==
  ASSUME Base, Base', WalkTypeOK, TameExact, walk.inside, Track, walk'.tame,
         NEW count \in Value, Reserve(count)
  PROVE  TameExact'
<1> DEFINE r == SparseReserve(entities, count)
<1>1. entities' = r /\ WellFormed(entities) /\ count \in Nat
  BY ListFacts, LimitAssumption DEF Reserve, Value
<1>2. /\ r.size = entities.size /\ Members(r) = Live
      /\ r.capacity = IF count > entities.capacity THEN count ELSE entities.capacity
  BY <1>1, ReserveExact DEF Live
<1>3. \A i \in 0 .. (entities.capacity - 1) :
        r.dense[i] = entities.dense[i] /\ r.sparse[i] = entities.sparse[i]
  <2>1. /\ DOMAIN entities.dense = 0 .. (entities.capacity - 1)
        /\ DOMAIN entities.sparse = 0 .. (entities.capacity - 1)
        /\ entities.capacity \in Nat
    BY ListFacts
  <2>2. CASE count > entities.capacity
    <3>1. r = [dense |-> Resize(entities.dense, count),
               sparse |-> Resize(entities.sparse, count),
               size |-> entities.size, capacity |-> count]
      BY <2>2 DEF SparseReserve
    <3>2. \A i \in 0 .. (entities.capacity - 1) : i \in 0 .. (count - 1)
      BY <1>1, <2>1, <2>2
    <3>. QED
      BY <2>1, <3>1, <3>2 DEF Resize
  <2>3. CASE ~(count > entities.capacity)
    BY <2>3 DEF SparseReserve
  <2>. QED
    BY <2>2, <2>3
<1>4. /\ entities'.size >= entities.size /\ entities'.capacity >= entities.capacity
      /\ Live \subseteq Live'
  <2>1. entities.size \in Nat /\ entities.capacity \in Nat
    BY ListFacts
  <2> HIDE DEF r
  <2>2. entities'.size = entities.size /\ Live' = Live
    BY <1>1, <1>2 DEF Live
  <2>3. entities'.capacity >= entities.capacity
    BY <1>1, <1>2, <2>1
  <2>. QED
    BY <2>1, <2>2, <2>3
<1>5. \A k \in Cells : k \in 0 .. (entities.capacity - 1)
  BY TameExact, ListFacts DEF TameExact, CellsExact, Cells, WalkTypeOK
<1>6. \A k \in Cells : entities'.dense[k] = entities.dense[k]
  BY <1>1, <1>3, <1>5
<1>7. \A w \in Live : entities'.sparse[w] = entities.sparse[w]
  BY <1>1, <1>3, ListFacts
<1>. QED
  BY <1>4, <1>6, <1>7, GrowthKeepsExact

\* Any call of the callback, or step of one, that keeps the iteration tame.
LEMMA CallKeepsExact ==
  ASSUME IInv, IInv', WalkTypeOK, TameExact, walk.inside, Next, Track, walk'.tame,
         ~ub, ~ub'
  PROVE  TameExact'
<1>0. Base /\ Base'
  BY DEF IInv
<1>1. CASE entities' = entities
  BY <1>0, <1>1, SameListCall
<1>2. CASE \E et \in Live : DestroyEffect(et)
  BY <1>0, <1>2, DestroyKeepsExact
<1>3. CASE Create
  <2>1. ~ (ett = Limit - 1 /\ CreateFresh)
    BY <1>0, CountOne DEF CreateFresh
  <2>. QED
    BY <1>0, <1>3, <2>1, CreateCalls, CreateKeepsExact
<1>4. CASE \E count \in Value : Reserve(count)
  BY <1>0, <1>4, ReserveKeepsExact
<1>. QED
  BY <1>1, <1>2, <1>3, <1>4, DestroyCalls
     DEF Next, UsualNext, Create, CreateElsewhere, StartDestroyAll, DestroyAllStep,
         DestroyAllEnd, Assign, Replace, AssignOrReplace, Delete, ResetPool, ReservePool

-----------------------------------------------------------------------------
\* After undefined behaviour there is no call.
LEMMA BrokenIsOver == ub => ~Next
BY DEF Next, UsualNext, Ready, CreateFresh, CreateRecycled, CreateElsewhere, Destroy,
       StartDestroyAll, DestroyAllStep, DestroyAllEnd, Assign, Replace,
       AssignOrReplace, Delete, ResetPool, Reserve, ReservePool

\* Outside of ForEach the program makes calls of the manager too.
LEMMA OutsideIsNext == OutsideCall => Next
BY DEF OutsideCall, Next, UsualNext

LEMMA WalkInductive ==
  /\ WalkInit => WalkInv
  /\ WalkInv /\ [WalkNext]_walkVars => WalkInv'
<1>1. WalkInit => WalkInv
  BY Inductive DEF WalkInit, NotWalking, WalkInv, WalkTypeOK
<1>2. WalkInv /\ [WalkNext]_walkVars => WalkInv'
  <2> SUFFICES ASSUME WalkInv, [WalkNext]_walkVars PROVE WalkInv'
    OBVIOUS
  <2>0. /\ IInv /\ Base /\ WalkTypeOK
        /\ walk.active /\ walk.tame /\ ~ub => TameExact
    BY DEF WalkInv, IInv
  <2>a. ASSUME UNCHANGED vars
        PROVE  /\ IInv' /\ entities' = entities /\ pools' = pools /\ ub' = ub
               /\ Live' = Live
    BY <2>0, <2>a, Inductive DEF vars, Live
  <2>b. ASSUME Next PROVE IInv'
    BY <2>0, <2>b, Inductive, SMTT(30)
  <2>1. ASSUME NEW types, StartForEach(types) PROVE WalkInv'
    BY <2>0, <2>a, <2>1, StartExact DEF StartForEach, WalkInv
  <2>2. CASE Visit
    <3>1. IInv' /\ walk.active /\ ~ub /\ ub' = ub
      BY <2>2, <2>a DEF Visit
    <3>2. WalkTypeOK' /\ walk'.tame = walk.tame
      BY <2>0, <2>2, VisitFields
    <3>3. ASSUME TameExact PROVE TameExact'
      BY <2>0, <2>2, <3>3, VisitExact
    <3>. QED
      BY <2>0, <3>1, <3>2, <3>3 DEF WalkInv
  <2>3. CASE VisitMoved
    <3>1. /\ UNCHANGED <<entities, deleted, ett, pools, loop, elsewhere, walk>> /\ ub'
          /\ ub' = TRUE
      BY <2>3 DEF VisitMoved
    <3>2. Live' = Live /\ Registered' = Registered
      BY <3>1 DEF Live, Registered
    <3>3. IInv'
      BY <2>0, <3>1, <3>2
         DEF IInv, Base, IdsAccounted, FreeIdsUnused, HeadLost, IdsNotShared, LoopOK,
             LoopInv, Ahead, OwnsAll
    <3>. QED
      BY <2>0, <3>1, <3>3 DEF WalkInv, WalkTypeOK
  <2>4. CASE CallbackReturns
    <3>1. /\ IInv' /\ entities' = entities /\ pools' = pools /\ ub' = ub
          /\ walk' = [walk EXCEPT !.inside = FALSE]
      BY <2>4, <2>a DEF CallbackReturns
    <3>2. /\ walk'.next = walk.next /\ walk'.end = walk.end /\ ~walk'.inside
          /\ walk'.active = walk.active /\ walk'.types = walk.types
          /\ walk'.erased = walk.erased /\ walk'.tame = walk.tame
          /\ walk'.stayed = walk.stayed /\ walk'.at = walk.at
          /\ walk'.visits = walk.visits
      BY <2>0, <3>1 DEF WalkTypeOK
    <3>3. WalkTypeOK'
      BY <2>0, <3>1, <3>2 DEF WalkTypeOK
    <3>4. ASSUME TameExact PROVE TameExact'
      BY <3>1, <3>2, <3>4, SameList DEF TameExact, StayedMet
    <3>. QED
      BY <2>0, <3>1, <3>2, <3>3, <3>4 DEF WalkInv
  <2>5. CASE EndForEach
    <3>1. IInv' /\ walk' = [NotWalking EXCEPT !.over = TRUE]
      BY <2>5, <2>a DEF EndForEach
    <3>2. ~walk'.active /\ WalkTypeOK'
      BY <3>1 DEF NotWalking, WalkTypeOK
    <3>. QED
      BY <3>1, <3>2 DEF WalkInv
  <2>6. CASE OutsideCall
    <3>1. IInv' /\ walk' = walk /\ ~walk.active
      BY <2>6, <2>b, OutsideIsNext DEF OutsideCall
    <3>. QED
      BY <2>0, <3>1 DEF WalkInv, WalkTypeOK
  <2>7. CASE CallbackCall
    <3>1. /\ IInv' /\ Next /\ Track /\ walk.inside /\ walk.active
          /\ WalkTypeOK' /\ walk'.active = walk.active /\ (walk'.tame => walk.tame)
      BY <2>0, <2>7, <2>b, TrackExact DEF CallbackCall, WalkTypeOK
    <3>2. ~ub
      BY <3>1, BrokenIsOver
    <3>3. ASSUME walk'.tame, ~ub' PROVE TameExact'
      <4>1. ~ub /\ TameExact
        BY <2>0, <3>1, <3>2, <3>3
      <4>. QED
        BY <2>0, <3>1, <3>3, <4>1, CallKeepsExact
    <3>. QED
      BY <3>1, <3>3 DEF WalkInv
  <2>8. CASE UNCHANGED walkVars
    <3>1. UNCHANGED vars /\ walk' = walk
      BY <2>8 DEF walkVars, vars
    <3>2. ASSUME TameExact PROVE TameExact'
      BY <2>a, <3>1, <3>2, SameList DEF TameExact, StayedMet
    <3>. QED
      BY <2>0, <2>a, <3>1, <3>2 DEF WalkInv, WalkTypeOK
  <2>. QED
    BY <2>1, <2>2, <2>3, <2>4, <2>5, <2>6, <2>7, <2>8 DEF WalkNext
<1>. QED
  BY <1>1, <1>2

\* As long as callbacks destroy only their own entity and create nothing after a
\* destruction, ForEach calls them exactly once for each entity that owns the
\* components all along.
THEOREM StayingOwnersVisitedOnce == WalkSpec => []VisitedOnce
<1>1. WalkInv => VisitedOnce
  <2> SUFFICES ASSUME WalkInv, walk.active, walk.tame, ~ub, NEW et \in walk.stayed
               PROVE  Meetings(et) = 1
    BY DEF VisitedOnce
  <2> DEFINE at == { i \in Cells : entities.dense[i] = et }
  <2>1. TameExact
    BY DEF WalkInv
  <2>2. walk.visits[et] = IF IsAhead(et) THEN 0 ELSE 1
    BY <2>1 DEF TameExact, StayedMet
  <2>3. Meetings(et) = walk.visits[et] + Cardinality(at)
    BY DEF Meetings, Cells
  <2>4. CASE IsAhead(et)
    <3>1. PICK k \in Cells : at = {k}
      BY <2>1, <2>4 DEF TameExact, CellsExact, IsAhead
    <3>2. Cardinality(at) = 1
      BY <3>1, FS_Singleton
    <3> HIDE DEF at
    <3>. QED
      BY <2>2, <2>3, <2>4, <3>2
  <2>5. CASE ~IsAhead(et)
    <3>1. at = {}
      BY <2>5 DEF IsAhead
    <3>. QED
      BY <2>2, <2>3, <2>5, <3>1, FS_EmptySet
  <2>. QED
    BY <2>4, <2>5
<1>. QED
  BY <1>1, WalkInductive, PTL DEF WalkSpec

\* Whatever calls the callbacks make in the middle of an iteration, only live
\* entities own components, no id is lost or shared with another manager, and the
\* list of free ids is sound or has lost its head.
THEOREM CallbacksKeepManager ==
  WalkSpec => [](OwnersLive /\ IdsAccounted /\ IdsNotShared /\ FreeIdsUnused)
<1>1. WalkInv => OwnersLive
  BY OwnersPlaced DEF WalkInv
<1>2. WalkInv => IdsAccounted /\ IdsNotShared /\ FreeIdsUnused
  BY DEF WalkInv, IInv, Base
<1>. QED
  BY <1>1, <1>2, WalkInductive, PTL DEF WalkSpec

\* The program breaks the memory in four ways only: ForEach goes on over a list that
\* has moved, an entity is created with the counter at its largest value, one is
\* freed after the free ids have lost their coherence, or a component is replaced
\* that is not owned.
THEOREM CausesOfForEachUBAreFour == WalkSpec => CausesOfWalkUB
<1> DEFINE Cause == \/ walk.active /\ ~walk.inside /\ walk.moved
                    \/ UBCause
<1>1. ASSUME WalkInv, [WalkNext]_walkVars, ub', ~ub PROVE Cause
  <2>0. IInv
    BY <1>1 DEF WalkInv
  <2>1. CASE VisitMoved
    BY <2>1 DEF VisitMoved
  <2>2. CASE Next
    BY <1>1, <2>0, <2>2, UBHasACause
  <2>3. CASE UNCHANGED vars
    BY <1>1, <2>3 DEF vars
  <2>. QED
    BY <1>1, <2>1, <2>2, <2>3, OutsideIsNext
       DEF WalkNext, StartForEach, Visit, CallbackReturns, EndForEach, CallbackCall,
           walkVars, vars
<1>2. WalkInv /\ [WalkNext]_walkVars => (ub' /\ ~ub => Cause)
  BY <1>1
<1>3. Cause => \/ walk.active /\ ~walk.inside /\ walk.moved
               \/ ett = Limit - 1 /\ (CreateFresh \/ CreateElsewhere)
               \/ ~Coherent(deleted) /\ entities'.size < entities.size
               \/ \E c \in ComponentTypes, et \in Ids :
                    Replace(c, et) /\ ~OwnsAll(et, {c})
  BY DEF UBCause
<1> HIDE DEF Cause
<1>. QED
  BY <1>2, <1>3, WalkInductive, PTL DEF WalkSpec, CausesOfWalkUB
=============================================================================
