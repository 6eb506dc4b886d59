---------------------------- MODULE SystemManager ----------------------------
(***************************************************************************)
(* indie::ecs::System and SystemManager (ecs/include/indie/ecs/System.hpp),*)
(* and the loop that drives them: Update() called again and again by one   *)
(* thread.  Whatever a system's Update() does to the manager is a call     *)
(* made while the manager iterates over its map of systems.                *)
(*                                                                         *)
(* Remove, Activate<T>, Deactivate<T> and Has<T> of the manager call       *)
(* operator[] on a const map and cannot be instantiated; a program has     *)
(* Add, Update and the members of System itself.                           *)
(***************************************************************************)
EXTENDS Integers, Sequences, FiniteSets

CONSTANTS Types,       \* the types derived from System the program uses
          MaxSystems   \* bound of the model: system objects Add makes

ASSUME TypesAssumption == IsFiniteSet(Types)
ASSUME MaxSystemsAssumption == MaxSystems \in Nat

VARIABLES typeId,   \* GetSystemId<T>(): the ids handed out so far
          systems,  \* _systems: the system object registered for an id
          active,   \* _is_active of every object made, in the order of Add
          pass      \* the running Update()

vars == <<typeId, systems, active, pass>>

SystemIds == 0 .. (Cardinality(Types) - 1)
Objects   == DOMAIN active

\* at is the id of the system the iteration is at.  updates and steady are
\* history: how often each system was updated, and the ids that were registered
\* with an active system from the start of this Update() on.
Resting == [running |-> FALSE, inside |-> FALSE, at |-> -1,
            updates |-> [id \in SystemIds |-> 0], steady |-> {}]

Init ==
  /\ typeId = [T \in {} |-> 0]
  /\ systems = [id \in {} |-> 0]
  /\ active = <<>>
  /\ pass = Resting

\* The program runs, outside of Update() or in the Update() of a system.
Running == ~pass.running \/ pass.inside

IsActive(id) == id \in DOMAIN systems /\ active[systems[id]]

-----------------------------------------------------------------------------
\* Mutants: the counter of ids is advanced before it is read; every type gets the
\* same id.
AddUnderId(T, id) ==
  /\ Running
  /\ Len(active) < MaxSystems
  /\ typeId' = [U \in DOMAIN typeId \cup {T} |-> IF U = T THEN id ELSE typeId[U]]
  /\ active' = Append(active, TRUE)
  /\ systems' = [i \in DOMAIN systems \cup {id} |->
                   IF i \in DOMAIN systems THEN systems[i] ELSE Len(active) + 1]
  /\ UNCHANGED pass

AddFromOne(T) ==
  AddUnderId(T, IF T \in DOMAIN typeId THEN typeId[T]
                                       ELSE Cardinality(DOMAIN typeId) + 1)

AddSharing(T) == AddUnderId(T, 0)

\* Add<T>(): makes an object and emplaces it, which leaves the map alone if the
\* id is there.  The first use of a type generates its id.
Add(T) ==
  LET id == IF T \in DOMAIN typeId THEN typeId[T] ELSE Cardinality(DOMAIN typeId)
      object == Len(active) + 1
  IN  /\ Running
      /\ object <= MaxSystems
      /\ typeId' = [U \in DOMAIN typeId \cup {T} |-> IF U = T THEN id ELSE typeId[U]]
      /\ active' = Append(active, TRUE)
      /\ systems' = [i \in DOMAIN systems \cup {id} |->
                       IF i \in DOMAIN systems THEN systems[i] ELSE object]
      /\ UNCHANGED pass

\* System::Activate() and Deactivate(), through the pointer Add returned.
Activate(object) ==
  /\ Running
  /\ active' = [active EXCEPT ![object] = TRUE]
  /\ UNCHANGED <<typeId, systems, pass>>

Deactivate(object) ==
  /\ Running
  /\ active' = [active EXCEPT ![object] = FALSE]
  /\ pass' = [pass EXCEPT !.steady =
                { id \in @ : systems[id] # object }]
  /\ UNCHANGED <<typeId, systems>>

-----------------------------------------------------------------------------
StartUpdate ==
  /\ ~pass.running
  /\ pass' = [Resting EXCEPT !.running = TRUE,
                             !.steady = { id \in DOMAIN systems : IsActive(id) }]
  /\ UNCHANGED <<typeId, systems, active>>

\* Mutants: the iterator stays where it is; the first inactive system ends the
\* iteration.
AheadStaying == { id \in DOMAIN systems : id >= pass.at }

AheadUntilInactive ==
  { id \in DOMAIN systems :
      id > pass.at /\ \A other \in DOMAIN systems : other <= id => IsActive(other) }

\* The iterator is advanced after the body, so that what the body has inserted
\* behind it is met in the same Update().
Ahead == { id \in DOMAIN systems : id > pass.at }

Visit ==
  /\ pass.running /\ ~pass.inside
  /\ \E id \in Ahead :
       /\ \A other \in Ahead : id <= other
       /\ pass' = IF IsActive(id)
                  THEN [pass EXCEPT !.at = id, !.inside = TRUE, !.updates[id] = @ + 1]
                  ELSE [pass EXCEPT !.at = id]
  /\ UNCHANGED <<typeId, systems, active>>

\* The Update() of the system at hand returns.
SystemReturns ==
  /\ pass.inside
  /\ pass' = [pass EXCEPT !.inside = FALSE]
  /\ UNCHANGED <<typeId, systems, active>>

EndUpdate ==
  /\ pass.running /\ ~pass.inside
  /\ Ahead = {}
  /\ pass' = Resting
  /\ UNCHANGED <<typeId, systems, active>>

Next ==
  \/ \E T \in Types : Add(T)
  \/ \E object \in Objects : Activate(object) \/ Deactivate(object)
  \/ StartUpdate
  \/ Visit
  \/ SystemReturns
  \/ EndUpdate

Spec == Init /\ [][Next]_vars

\* The loop calls Update() whenever the last one has returned, and the
\* Update() of every system returns.
Fairness ==
  /\ WF_vars(StartUpdate)
  /\ WF_vars(Visit)
  /\ WF_vars(SystemReturns)
  /\ WF_vars(EndUpdate)

FairSpec == Spec /\ Fairness

-----------------------------------------------------------------------------
\* Ids and objects are in range: the map only refers to systems that were made.
TypeOK ==
  /\ DOMAIN typeId \subseteq Types
  /\ typeId \in [DOMAIN typeId -> SystemIds]
  /\ DOMAIN systems \subseteq SystemIds
  /\ active \in Seq(BOOLEAN)
  /\ systems \in [DOMAIN systems -> Objects]
  /\ pass \in [running : BOOLEAN, inside : BOOLEAN, at : {-1} \cup SystemIds,
               updates : [SystemIds -> Nat], steady : SUBSET SystemIds]

\* Two types never share an id, and every id handed out has its system.
IdsApart ==
  /\ \A T, U \in DOMAIN typeId : typeId[T] = typeId[U] => T = U
  /\ { typeId[T] : T \in DOMAIN typeId } = DOMAIN systems

\* Whatever systems add, activate and deactivate while they are updated, one
\* Update() updates no system twice and misses none that is registered and
\* active from its start to its end.
OncePerUpdate ==
  pass.running =>
    /\ \A id \in SystemIds : pass.updates[id] <= 1
    /\ \A id \in pass.steady : pass.updates[id] = IF id > pass.at THEN 0 ELSE 1

\* A system that is registered and stays active is updated again and again.
SteadyUpdated ==
  \A id \in SystemIds : <>[]IsActive(id) => []<>(pass.inside /\ pass.at = id)
=============================================================================
