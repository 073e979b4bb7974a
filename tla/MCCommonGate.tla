---------------------------- MODULE MCCommonGate ----------------------------
(***************************************************************************)
(* Inputs for CommonGate: the handoffs of a payment, and others that       *)
(* compete with those or break the chain.                                  *)
(***************************************************************************)
EXTENDS CommonGate, MCPayment

ChainViews ==
  { RootView, Middle, Intent, Direct,
    \* A second handoff under the root's interaction, by other parties.
    [RootView EXCEPT !.sender = Party("E"), !.scope = Scope(3, 2, 2)],
    \* The root names a parent, which closes a circle with Middle.
    [RootView EXCEPT !.previous = "i2"],
    \* The middle gives more than it was given, or as much.
    [Middle EXCEPT !.scope = Scope(4, 4, 1)],
    [Middle EXCEPT !.scope = Scope(2, 4, 2)],
    \* It was made before the root was accepted, or is not accepted yet.
    [Middle EXCEPT !.created = 0, !.decided = 3],
    [Middle EXCEPT !.faults = {"EQUIVOCATION"}],
    \* An intent in the middle, and one for another action.
    [Middle EXCEPT !.type = "action_intent"],
    \* The leaf comes from somebody else, under another version, without a
    \* parent, or for less than the action.
    [Intent EXCEPT !.sender = Party("B")],
    [Intent EXCEPT !.version = 2],
    [Intent EXCEPT !.previous = "none"],
    [Intent EXCEPT !.scope = Scope(0, 4, 0)] }

StatusViews ==
  { RootView, Intent, Direct, Middle,
    [RootView EXCEPT !.status = "s2", !.version = 2],
    [Direct EXCEPT !.status = "s2", !.version = 2, !.created = 2],
    \* A handoff from before the status it refers to.
    [RootView EXCEPT !.status = "s2 late", !.version = 2],
    [Direct EXCEPT !.status = "s2 late", !.version = 2, !.created = 2] }

ManyStatuses ==
  { MCStatus("s1", 1, "ACTIVE", 0, 3),
    MCStatus("s1 revoked", 1, "REVOKED", 1, 4),
    MCStatus("s2", 2, "ACTIVE", 0, 4),
    MCStatus("s2 late", 2, "ACTIVE", 2, 4),
    MCStatus("s2 revoked", 2, "REVOKED", 0, 4),
    MCStatus("s0", 0, "REVOKED", 0, 4),
    MCStatus("forged", 1, "ACTIVE", 0, 4),
    [MCStatus("other", 2, "REVOKED", 0, 4) EXCEPT !.lineage = Lineage("A", "C")] }
\* An intent of the issuer itself, with no delegation above it.
Alone == [RootView EXCEPT !.type = "action_intent", !.hash = "h"]

AllViews == ChainViews \cup StatusViews \cup {Alone}

Kind(V, S, n) ==
  [views |-> V, statuses |-> S, size |-> n, issues |-> {}, barriers |-> {"none"}]

\* Up to four handoffs under one statement, and up to three under any; and
\* what never comes to be looked at.
MCInputs ==
  { Kind(ChainViews, OneStatus, 4), Kind(StatusViews, ManyStatuses, 3),
    [Kind({RootView, Direct, Alone}, OneStatus, 2) EXCEPT !.issues = Issues, !.barriers = Barriers] }

GenuineStatuses == {s \in ManyStatuses : s.id # "forged"}
=============================================================================
