------------------------- MODULE MCHandoffRelations -------------------------
(***************************************************************************)
(* Handoffs for HandoffRelations: any parent, and in every way right or    *)
(* wrong as a parent or as a child.                                        *)
(***************************************************************************)
EXTENDS HandoffRelations

Accepted(parent) ==
  [previous |-> parent, type |-> "delegation", sender |-> "P", receiver |-> "P",
   created |-> 1, decided |-> 1, faults |-> {}]

\* Accepted, rejected, not a delegation, made before the parent was accepted,
\* or by somebody else.
AllHandoffs ==
  UNION {{ Accepted(p),
           [Accepted(p) EXCEPT !.faults = {"RECEIVER_REJECTED"}],
           [Accepted(p) EXCEPT !.type = "action_intent"],
           [Accepted(p) EXCEPT !.created = 0],
           [Accepted(p) EXCEPT !.sender = "Q"] } : p \in Interactions \cup {NoParent}}
=============================================================================
