------------------------- MODULE SystemManagerProofs -------------------------
(***************************************************************************)
(* SystemManager and the game that drives it, for every finite set of      *)
(* system types and every number of systems.                               *)
(***************************************************************************)
EXTENDS Game, FiniteSetTheorems, SequenceTheorems, TLAPS

\* The ids in use are the first ones, as many as there are types in use.
IdsDense == DOMAIN systems = 0 .. (Cardinality(DOMAIN typeId) - 1)

\* No id ahead of the iteration has been updated in this pass, and the ids that were
\* registered and active all along are so still.
PassExact ==
  pass.running =>
    /\ \A id \in SystemIds :
         pass.updates[id] <= 1 /\ (id > pass.at => pass.updates[id] = 0)
    /\ \A id \in pass.steady :
         IsActive(id) /\ (id <= pass.at => pass.updates[id] = 1)

IInv == TypeOK /\ IdsDense /\ IdsApart /\ PassExact

-----------------------------------------------------------------------------
LEMMA Sizes ==
  ASSUME TypeOK
  PROVE  /\ Cardinality(Types) \in Nat /\ SystemIds \subseteq Nat
         /\ IsFiniteSet(DOMAIN typeId) /\ Cardinality(DOMAIN typeId) \in Nat
         /\ Cardinality(DOMAIN typeId) <= Cardinality(Types)
<1>1. DOMAIN typeId \in SUBSET Types
  BY DEF TypeOK
<1>2. IsFiniteSet(Types)
  BY TypesAssumption
<1>3. /\ IsFiniteSet(DOMAIN typeId)
      /\ Cardinality(DOMAIN typeId) <= Cardinality(Types)
  BY <1>1, <1>2, FS_Subset
<1>. QED
  BY <1>2, <1>3, FS_CardinalityType DEF SystemIds

\* The id that the first use of a type generates is in range and new.
LEMMA NewId ==
  ASSUME IInv, NEW T \in Types, T \notin DOMAIN typeId
  PROVE  /\ Cardinality(DOMAIN typeId) \in SystemIds
         /\ Cardinality(DOMAIN typeId) \notin DOMAIN systems
         /\ Cardinality(DOMAIN typeId \cup {T}) = Cardinality(DOMAIN typeId) + 1
<1>0. /\ IsFiniteSet(DOMAIN typeId) /\ Cardinality(DOMAIN typeId) \in Nat
      /\ Cardinality(DOMAIN typeId) <= Cardinality(Types) /\ Cardinality(Types) \in Nat
  BY Sizes DEF IInv
<1>1. Cardinality(DOMAIN typeId \cup {T}) = Cardinality(DOMAIN typeId) + 1
  BY <1>0, FS_AddElement
<1>2. Cardinality(DOMAIN typeId) # Cardinality(Types)
  <2>1. DOMAIN typeId \in SUBSET Types
    BY DEF IInv, TypeOK
  <2>. QED
    BY <2>1, FS_Subset, TypesAssumption
<1>. QED
  BY <1>0, <1>1, <1>2 DEF SystemIds, IInv, IdsDense

-----------------------------------------------------------------------------
\* What Add does: objects and registered systems stay, one object is added.
LEMMA AddStep ==
  ASSUME IInv, NEW T \in Types, Add(T)
  PROVE  IInv'
<1> DEFINE new == IF T \in DOMAIN typeId THEN typeId[T] ELSE Cardinality(DOMAIN typeId)
<1>1. /\ active' = Append(active, TRUE) /\ pass' = pass
      /\ active \in Seq(BOOLEAN) /\ Len(active) \in Nat
      /\ DOMAIN active = 1 .. Len(active)
      /\ typeId' = [U \in DOMAIN typeId \cup {T} |-> IF U = T THEN new ELSE typeId[U]]
      /\ systems' = [i \in DOMAIN systems \cup {new} |->
                       IF i \in DOMAIN systems THEN systems[i] ELSE Len(active) + 1]
  BY DEF Add, IInv, TypeOK
<1>2. /\ new \in SystemIds
      /\ T \in DOMAIN typeId <=> new \in DOMAIN systems
      /\ T \notin DOMAIN typeId => \A U \in DOMAIN typeId : typeId[U] # new
  BY NewId DEF IInv, TypeOK, IdsApart
<1>3. /\ active' \in Seq(BOOLEAN) /\ DOMAIN active' = 1 .. (Len(active) + 1)
      /\ \A i \in 1 .. Len(active) : active'[i] = active[i]
  BY <1>1, AppendProperties
<1>4. IdsDense'
  <2>1. CASE T \in DOMAIN typeId
    <3>1. DOMAIN typeId' = DOMAIN typeId /\ DOMAIN systems' = DOMAIN systems
      BY <1>1, <1>2, <2>1
    <3>. QED
      BY <3>1 DEF IInv, IdsDense
  <2>2. CASE T \notin DOMAIN typeId
    <3>1. /\ Cardinality(DOMAIN typeId') = Cardinality(DOMAIN typeId) + 1
          /\ DOMAIN systems' = DOMAIN systems \cup {Cardinality(DOMAIN typeId)}
          /\ Cardinality(DOMAIN typeId) \in Nat
      BY <1>1, <2>2, NewId, Sizes DEF IInv
    <3>. QED
      BY <3>1 DEF IInv, IdsDense
  <2>. QED
    BY <2>1, <2>2
<1> HIDE DEF new
<1>5. IdsApart'
  <2>1. /\ DOMAIN typeId' = DOMAIN typeId \cup {T} /\ typeId'[T] = new
        /\ \A U \in DOMAIN typeId : typeId'[U] = typeId[U]
        /\ DOMAIN systems' = DOMAIN systems \cup {new}
    BY <1>1 DEF new
  <2>2. \A U, V \in DOMAIN typeId' : typeId'[U] = typeId'[V] => U = V
    BY <1>2, <2>1 DEF IInv, IdsApart, new
  <2>3. { typeId'[U] : U \in DOMAIN typeId' } = { typeId[U] : U \in DOMAIN typeId } \cup {new}
    BY <2>1
  <2>. QED
    BY <2>1, <2>2, <2>3 DEF IInv, IdsApart
<1>6. TypeOK'
  <2>1. /\ DOMAIN typeId' \subseteq Types
        /\ typeId' \in [DOMAIN typeId' -> SystemIds]
    BY <1>1, <1>2 DEF IInv, TypeOK
  <2>2. /\ DOMAIN systems' \subseteq SystemIds
        /\ systems' \in [DOMAIN systems' -> Objects']
    BY <1>1, <1>2, <1>3 DEF IInv, TypeOK, Objects
  <2>. QED
    BY <1>1, <1>3, <2>1, <2>2 DEF IInv, TypeOK
<1>7. PassExact'
  <2>1. ASSUME NEW id, IsActive(id) PROVE IsActive(id)'
    BY <1>1, <1>3, <2>1 DEF IsActive, IInv, TypeOK, Objects
  <2>. QED
    BY <1>1, <2>1 DEF IInv, PassExact
<1>. QED
  BY <1>4, <1>5, <1>6, <1>7 DEF IInv

LEMMA VisitStep ==
  ASSUME IInv, Visit
  PROVE  IInv'
<1>1. PICK id \in Ahead :
        /\ \A other \in Ahead : id <= other
        /\ pass' = IF IsActive(id)
                   THEN [pass EXCEPT !.at = id, !.inside = TRUE, !.updates[id] = @ + 1]
                   ELSE [pass EXCEPT !.at = id]
  BY DEF Visit
<1>2. /\ id \in SystemIds /\ id \in DOMAIN systems /\ id > pass.at
      /\ pass.running /\ UNCHANGED <<typeId, systems, active>>
      /\ SystemIds \subseteq Nat
  BY Sizes DEF Visit, Ahead, IInv, TypeOK
<1>3. TypeOK'
  <2>1. pass.updates[id] + 1 \in Nat
    BY <1>2 DEF IInv, TypeOK
  <2>2. pass' \in [running : BOOLEAN, inside : BOOLEAN, at : {-1} \cup SystemIds,
                   updates : [SystemIds -> Nat], steady : SUBSET SystemIds]
    BY <1>1, <1>2, <2>1 DEF IInv, TypeOK
  <2>. QED
    BY <1>2, <2>2 DEF IInv, TypeOK, Objects
<1>4. /\ pass'.at = id /\ pass'.running = pass.running /\ pass'.steady = pass.steady
      /\ pass'.updates[id] = IF IsActive(id) THEN pass.updates[id] + 1 ELSE pass.updates[id]
      /\ \A other \in SystemIds : other # id => pass'.updates[other] = pass.updates[other]
  BY <1>1, <1>2 DEF IInv, TypeOK
<1>5. PassExact'
  <2>1. pass.updates[id] = 0
    BY <1>2 DEF IInv, PassExact
  <2>2. pass.at \in Int
    BY <1>2 DEF IInv, TypeOK
  <2>3. ASSUME NEW other \in SystemIds
        PROVE  pass'.updates[other] <= 1 /\ (other > pass'.at => pass'.updates[other] = 0)
    BY <1>2, <1>4, <2>1, <2>2 DEF IInv, PassExact
  <2>4. ASSUME NEW other \in pass.steady
        PROVE  IsActive(other)' /\ (other <= pass'.at => pass'.updates[other] = 1)
    <3>1. /\ IsActive(other) /\ other \in SystemIds /\ other \in DOMAIN systems
          /\ other <= pass.at => pass.updates[other] = 1
      BY <1>2 DEF IInv, PassExact, TypeOK, IsActive
    <3>2. IsActive(other)'
      BY <1>2, <3>1 DEF IsActive
    <3>3. other <= id /\ other # id => other <= pass.at
      BY <1>1, <1>2, <2>2, <3>1 DEF Ahead
    <3>. QED
      BY <1>4, <2>1, <3>1, <3>2, <3>3
  <2>. QED
    BY <1>4, <2>3, <2>4 DEF PassExact
<1>. QED
  BY <1>2, <1>3, <1>5 DEF IInv, IdsDense, IdsApart

LEMMA Inductive ==
  /\ Init => IInv
  /\ IInv /\ [Next]_vars => IInv'
<1>0. Resting \in [running : BOOLEAN, inside : BOOLEAN, at : {-1} \cup SystemIds,
                   updates : [SystemIds -> Nat], steady : SUBSET SystemIds]
  BY DEF Resting
<1>1. Init => IInv
  <2> SUFFICES ASSUME Init PROVE IInv
    OBVIOUS
  <2> USE DEF Init
  <2>1. DOMAIN typeId = {} /\ DOMAIN systems = {} /\ ~pass.running /\ active = <<>>
    BY DEF Resting
  <2>2. TypeOK
    BY <1>0, <2>1 DEF TypeOK, Objects
  <2>3. IdsDense /\ IdsApart
    BY <2>1, FS_EmptySet DEF IdsDense, IdsApart
  <2>. QED
    BY <2>1, <2>2, <2>3 DEF IInv, PassExact
<1>2. IInv /\ [Next]_vars => IInv'
  <2> SUFFICES ASSUME IInv, [Next]_vars PROVE IInv'
    OBVIOUS
  <2>1. ASSUME NEW object \in Objects, Activate(object) PROVE IInv'
    <3>1. /\ active' = [active EXCEPT ![object] = TRUE] /\ active' \in Seq(BOOLEAN)
          /\ DOMAIN active' = DOMAIN active /\ UNCHANGED <<typeId, systems, pass>>
      BY <2>1, ExceptSeq DEF Activate, IInv, TypeOK, Objects
    <3>2. ASSUME NEW id, IsActive(id) PROVE IsActive(id)'
      BY <3>1, <3>2 DEF IsActive, IInv, TypeOK, Objects
    <3>. QED
      BY <3>1, <3>2 DEF IInv, TypeOK, Objects, IdsDense, IdsApart, PassExact
  <2>2. ASSUME NEW object \in Objects, Deactivate(object) PROVE IInv'
    <3>1. /\ active' = [active EXCEPT ![object] = FALSE] /\ active' \in Seq(BOOLEAN)
          /\ DOMAIN active' = DOMAIN active /\ UNCHANGED <<typeId, systems>>
          /\ pass' = [pass EXCEPT !.steady = { id \in @ : systems[id] # object }]
      BY <2>2, ExceptSeq DEF Deactivate, IInv, TypeOK, Objects
    <3>2. /\ pass'.running = pass.running /\ pass'.at = pass.at
          /\ pass'.updates = pass.updates
          /\ pass'.steady = { id \in pass.steady : systems[id] # object }
          /\ pass' \in [running : BOOLEAN, inside : BOOLEAN, at : {-1} \cup SystemIds,
                        updates : [SystemIds -> Nat], steady : SUBSET SystemIds]
      BY <3>1 DEF IInv, TypeOK
    <3>3. ASSUME NEW id, IsActive(id), systems[id] # object PROVE IsActive(id)'
      BY <3>1, <3>3 DEF IsActive, IInv, TypeOK, Objects
    <3>4. PassExact'
      BY <3>2, <3>3 DEF IInv, PassExact
    <3>. QED
      BY <3>1, <3>2, <3>4, ZenonT(60) DEF IInv, TypeOK, Objects, IdsDense, IdsApart
  <2>3. CASE StartUpdate
    <3>1. /\ UNCHANGED <<typeId, systems, active>>
          /\ pass'.running /\ pass'.at = -1
          /\ pass'.updates = [id \in SystemIds |-> 0]
          /\ pass'.steady = { id \in DOMAIN systems : IsActive(id) }
          /\ pass' \in [running : BOOLEAN, inside : BOOLEAN, at : {-1} \cup SystemIds,
                        updates : [SystemIds -> Nat], steady : SUBSET SystemIds]
      BY <2>3, <1>0 DEF StartUpdate, Resting, IInv, TypeOK
    <3>2. PassExact'
      BY <3>1, Sizes DEF PassExact, IsActive, IInv, TypeOK
    <3>. QED
      BY <3>1, <3>2 DEF IInv, TypeOK, Objects, IdsDense, IdsApart
  <2>4. CASE SystemReturns
    <3>1. /\ UNCHANGED <<typeId, systems, active>>
          /\ pass'.running = pass.running /\ pass'.at = pass.at
          /\ pass'.updates = pass.updates /\ pass'.steady = pass.steady
          /\ pass' \in [running : BOOLEAN, inside : BOOLEAN, at : {-1} \cup SystemIds,
                        updates : [SystemIds -> Nat], steady : SUBSET SystemIds]
      BY <2>4 DEF SystemReturns, IInv, TypeOK
    <3>. QED
      BY <3>1 DEF IInv, TypeOK, Objects, IdsDense, IdsApart, PassExact, IsActive
  <2>5. CASE EndUpdate
    <3>1. pass' = Resting /\ ~Resting.running /\ UNCHANGED <<typeId, systems, active>>
      BY <2>5 DEF EndUpdate, Resting
    <3>. QED
      BY <1>0, <3>1 DEF IInv, TypeOK, Objects, IdsDense, IdsApart, PassExact
  <2>6. CASE UNCHANGED vars
    BY <2>6 DEF vars, IInv, TypeOK, Objects, IdsDense, IdsApart, PassExact, IsActive
  <2>. QED
    BY <2>1, <2>2, <2>3, <2>4, <2>5, <2>6, AddStep, VisitStep DEF Next
<1>. QED
  BY <1>1, <1>2

LEMMA Invariance == Spec => []IInv
BY Inductive, PTL DEF Spec

-----------------------------------------------------------------------------
\* Every variable keeps its type: ids stay below the number of types and each id
\* names an object that exists.
THEOREM TypeCorrect == Spec => []TypeOK
<1>1. IInv => TypeOK
  BY DEF IInv
<1>. QED
  BY <1>1, Invariance, PTL

\* Two types never share an id, whenever and in whatever order they are first used,
\* so that emplace never takes a system of one type for that of another.
THEOREM IdsAreApart == Spec => []IdsApart
<1>1. IInv => IdsApart
  BY DEF IInv
<1>. QED
  BY <1>1, Invariance, PTL

\* One Update() updates each system once, if it is active all along, and at most once
\* whatever systems do to the manager in between.
THEOREM PassIsExact == Spec => []OncePerUpdate
<1>1. IInv => OncePerUpdate
  <2> SUFFICES ASSUME IInv, pass.running
               PROVE  /\ \A id \in SystemIds : pass.updates[id] <= 1
                      /\ \A id \in pass.steady :
                           pass.updates[id] = IF id > pass.at THEN 0 ELSE 1
    BY DEF OncePerUpdate
  <2>1. SystemIds \subseteq Nat /\ pass.at \in Int /\ pass.steady \subseteq SystemIds
    BY Sizes DEF IInv, TypeOK
  <2>2. /\ \A id \in SystemIds :
             pass.updates[id] <= 1 /\ (id > pass.at => pass.updates[id] = 0)
        /\ \A id \in pass.steady : id <= pass.at => pass.updates[id] = 1
    BY DEF IInv, PassExact
  <2>3. ASSUME NEW id \in pass.steady
        PROVE  pass.updates[id] = IF id > pass.at THEN 0 ELSE 1
    <3>1. id \in Nat /\ id \in SystemIds
      BY <2>1
    <3>2. id > pass.at \/ id <= pass.at
      BY <2>1, <3>1
    <3>. QED
      BY <2>1, <2>2, <3>1, <3>2
  <2>. QED
    BY <2>2, <2>3
<1>. QED
  BY <1>1, Invariance, PTL

-----------------------------------------------------------------------------
\* The game is a program around one manager: whatever it does is a sequence of the
\* manager's calls.
LEMMA GameCallsManager ==
  ASSUME window \in Types
  PROVE  GameSpec => Spec
<1>1. GameInit => Init
  BY DEF GameInit
<1>2. [GameNext]_gameVars => [Next]_vars
  BY DEF GameNext, gameVars, vars, MakeWindow, MakeWindowFails, LoopBody, LoopEnds,
         UserCloses, Next
<1>. QED
  BY <1>1, <1>2, PTL DEF GameSpec, Spec

\* So all of the above is true of the game: in particular each Update() of its loop
\* is exact, and ids are apart.
THEOREM GameUpdatesExactly ==
  ASSUME window \in Types
  PROVE  GameSpec => [](OncePerUpdate /\ IdsApart)
BY GameCallsManager, PassIsExact, IdsAreApart, PTL

\* main() never gets to "Program exited correctly": with the window closed or not,
\* and whatever systems the game has, its loop goes on or there never was a window.
\* This is what the run of Game finds, for every set of systems.
THEOREM NeverExits == GameSpec => [](phase # "exited")
<1> DEFINE Looping == isRunning /\ phase # "exited"
<1>1. GameInit => Looping
  BY DEF GameInit
<1>2. Looping /\ [GameNext]_gameVars => Looping'
  BY DEF GameNext, gameVars, MakeWindow, MakeWindowFails, LoopBody, LoopEnds, UserCloses
<1>3. Looping => phase # "exited"
  OBVIOUS
<1>. QED
  BY <1>1, <1>2, <1>3, PTL DEF GameSpec
=============================================================================
