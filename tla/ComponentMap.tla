----------------------------- MODULE ComponentMap -----------------------------
(***************************************************************************)
(* What a Pool promises its users: a partial map from entities to their    *)
(* components.                                                             *)
(***************************************************************************)
CONSTANTS Entities, Components

VARIABLE map  \* a function on the entities that own a component

Init == map = [et \in {} |-> {}]

Owning == DOMAIN map

Put(et, component) ==
  map' = [e \in Owning \cup {et} |-> IF e = et THEN component ELSE map[e]]

Remove(et) ==
  map' = [e \in Owning \ {et} |-> map[e]]

RemoveAll == map' = [et \in {} |-> {}]

Next ==
  \/ \E et \in Entities :
       \/ \E component \in Components : Put(et, component)
       \/ Remove(et)
  \/ RemoveAll

Spec == Init /\ [][Next]_map
=============================================================================
