------------------------------- MODULE Registry -------------------------------
(***************************************************************************)
(* What an EntityManager promises its users: a set of entities that exist  *)
(* and, for each component type, the set of entities that own a component. *)
(* Creating makes one entity that did not exist; only entities that exist  *)
(* own components.                                                         *)
(***************************************************************************)
CONSTANTS Ids, ComponentTypes

VARIABLES exists, owners

Init ==
  /\ exists = {}
  /\ owners = [c \in ComponentTypes |-> {}]

Create(et) ==
  /\ et \notin exists
  /\ exists' = exists \cup {et}
  /\ UNCHANGED owners

Destroy(et) ==
  /\ et \in exists
  /\ exists' = exists \ {et}
  /\ owners' = [c \in ComponentTypes |-> owners[c] \ {et}]

Give(c, et) ==
  /\ et \in exists
  /\ owners' = [owners EXCEPT ![c] = @ \cup {et}]
  /\ UNCHANGED exists

Take(c, et) ==
  /\ et \in owners[c]
  /\ owners' = [owners EXCEPT ![c] = @ \ {et}]
  /\ UNCHANGED exists

TakeAll(c) ==
  /\ owners' = [owners EXCEPT ![c] = {}]
  /\ UNCHANGED exists

Next ==
  \/ \E et \in Ids : Create(et) \/ Destroy(et)
  \/ \E c \in ComponentTypes, et \in Ids : Give(c, et) \/ Take(c, et)
  \/ \E c \in ComponentTypes : TakeAll(c)

Spec == Init /\ [][Next]_<<exists, owners>>
=============================================================================
