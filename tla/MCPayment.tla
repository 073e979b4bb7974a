------------------------------- MODULE MCPayment ----------------------------
(***************************************************************************)
(* A payment that A grants to B, B to C, and C asks D to make.             *)
(***************************************************************************)
EXTENDS Integers

Party(p) == [principal |-> p, key |-> p]
Scope(limit, until, hops) ==
  [targets |-> {"pay"}, limit |-> limit, from |-> 0, until |-> until, hops |-> hops]
Lineage(a, b) == [issuer |-> a, subject |-> b, key |-> b]

MCAction == [hash |-> "h", target |-> "pay", amount |-> 1]

RootView ==
  [interaction |-> "i1", sender |-> Party("A"), receiver |-> Party("B"),
   type |-> "delegation", sequence |-> 1, previous |-> "none",
   scope |-> Scope(3, 4, 2), lineage |-> Lineage("A", "B"), version |-> 1,
   status |-> "s1", created |-> 0, decided |-> 1, hash |-> "h1", faults |-> {}]

Middle == [RootView EXCEPT !.interaction = "i2", !.sender = Party("B"),
             !.receiver = Party("C"), !.previous = "i1", !.hash = "h2",
             !.scope = Scope(2, 4, 1), !.created = 1]

Intent == [RootView EXCEPT !.interaction = "i3", !.sender = Party("C"),
             !.receiver = Party("D"), !.previous = "i2", !.hash = "h",
             !.type = "action_intent", !.scope = Scope(1, 4, 0),
             !.created = 1, !.decided = 2]

Direct == [Intent EXCEPT !.interaction = "i4", !.sender = Party("B"),
             !.previous = "i1"]

MCStatus(id, version, state, issued, fresh) ==
  [id |-> id, lineage |-> Lineage("A", "B"), version |-> version, state |-> state,
   issued |-> issued, fresh |-> fresh]

OneStatus == {MCStatus("s1", 1, "ACTIVE", 0, 3)}
=============================================================================
