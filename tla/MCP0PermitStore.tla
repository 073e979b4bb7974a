-------------------------- MODULE MCP0PermitStore --------------------------
(***************************************************************************)
(* A small instance of P0PermitStore: a payment that B may ask for itself  *)
(* or through C, with receipts that compete with those of the chain or     *)
(* break it, and the status of the authority before and after it was       *)
(* renewed and after it was revoked.                                       *)
(***************************************************************************)
EXTENDS P0PermitStore, MCPayment, TLC

Pay == [hash |-> "h", nonce |-> "n1", target |-> "pay", amount |-> 1]
PayAgain == [hash |-> "h again", nonce |-> "n2", target |-> "pay", amount |-> 1]
MCActions == {Pay, PayAgain}

Owned(p, role) == [key |-> p, principal |-> p, public |-> p, roles |-> {role}]

MCFirstKeys ==
  {[Owned("A", "receipt") EXCEPT !.roles = Roles], Owned("B", "receipt"), Owned("D", "receipt")}

\* C is registered later, for receipts, or under a key of E.
MCKeys == MCFirstKeys \cup {Owned("C", "receipt"), [Owned("C", "receipt") EXCEPT !.public = "E"]}

Receipt(id, view) ==
  view @@ [id |-> id, answer |-> "ACCEPT", sentBy |-> view.sender.key,
           receivedBy |-> view.receiver.key]

Root == [RootView EXCEPT !.scope = Scope(3, 5, 2)]
Hop == [Middle EXCEPT !.scope = Scope(2, 5, 1), !.previous = "r root"]
Asked == [Intent EXCEPT !.scope = Scope(1, 4, 0), !.previous = "r middle"]
Leaf == [Asked EXCEPT !.sender = Party("B"), !.previous = "r root", !.decided = 1]

MCReceipts ==
  { Receipt("r root", Root), Receipt("r middle", Hop), Receipt("r intent", Asked),
    Receipt("r leaf", Leaf),
    \* The same request from after the renewal, and one for another payment.
    Receipt("r late", [Leaf EXCEPT !.interaction = "i5", !.sequence = 2, !.status = "s1 renewed"]),
    Receipt("r again", [Leaf EXCEPT !.hash = "h again"]),
    \* An intent in the interaction of the root, and one that C did not sign.
    Receipt("r clash", [Asked EXCEPT !.interaction = "i1"]),
    [Receipt("r signed", Asked) EXCEPT !.sentBy = "E"],
    \* A middle that hands on more than it has.
    Receipt("r more", [Hop EXCEPT !.scope = Scope(4, 5, 1)]),
    \* The payment under the next version of the authority.
    Receipt("r root v2", [Root EXCEPT !.interaction = "i6", !.sequence = 3, !.version = 2,
                                      !.status = "s2"]),
    Receipt("r leaf v2", [Leaf EXCEPT !.interaction = "i7", !.sequence = 3, !.version = 2,
                                      !.status = "s2", !.previous = "r root v2"]) }

Statement(id, version, state, issued, fresh) ==
  MCStatus(id, version, state, issued, fresh) @@ [key |-> "A", signedBy |-> "A", faults |-> {}]

MCStatuses ==
  {Statement("s1", 1, "ACTIVE", 0, 3), Statement("s1 renewed", 1, "ACTIVE", 1, 5),
   Statement("s1 revoked", 1, "REVOKED", 2, 5), Statement("s2", 2, "ACTIVE", 0, 5)}

Symmetry == Permutations(Adapters) \cup Permutations(PermitIds)
=============================================================================
