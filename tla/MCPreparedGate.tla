--------------------------- MODULE MCPreparedGate ---------------------------
(***************************************************************************)
(* The handoffs of MCPayment as candidates, with those that only a         *)
(* validator meets, and one that has nothing to do with the action.        *)
(***************************************************************************)
EXTENDS PreparedGate, MCPayment

\* i5 is a grant between others.
Unrelated == [RootView EXCEPT !.interaction = "i5", !.sender = Party("X"),
                !.receiver = Party("Y"), !.hash = "h5"]
Rejected == {"BILATERAL_AGREEMENT_MISSING", "RECEIVER_REJECTED"}

Candidates ==
  { RootView, Middle, Intent, Direct, Unrelated,
    [RootView EXCEPT !.previous = "i2"],
    [RootView EXCEPT !.type = "action_intent"],
    [Middle EXCEPT !.faults = Rejected],
    [Middle EXCEPT !.type = "action_intent"],
    [Middle EXCEPT !.sender = Party("E")],
    [Middle EXCEPT !.created = 0],
    [Intent EXCEPT !.faults = Rejected],
    [Intent EXCEPT !.previous = "none"],
    [Unrelated EXCEPT !.previous = "i3"] }
=============================================================================
