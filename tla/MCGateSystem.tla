---------------------------- MODULE MCGateSystem ----------------------------
(***************************************************************************)
(* Two verifiers and a payment that is asked for over several chains.      *)
(***************************************************************************)
EXTENDS GateSystem, MCPayment, TLC

CONSTANTS d1, d2, a1

Asked == [Direct EXCEPT !.created = 0, !.decided = 0]
Granted == [RootView EXCEPT !.decided = 0]

\* The action is asked for again, with a sequence number of its own or not.
Again == [Asked EXCEPT !.interaction = "i5", !.sequence = 2]
Fork == [Asked EXCEPT !.interaction = "i5"]

\* The grant is made again under version 2, and the action asked for under it.
Anew(v, interaction, previous) ==
  [v EXCEPT !.interaction = interaction, !.previous = previous, !.sequence = 3,
            !.version = 2, !.status = "s2"]

Granted2 == Anew(Granted, "i6", "none")
Asked2 == Anew(Asked, "i7", "i6")
Fork2 == [Asked2 EXCEPT !.sequence = Asked.sequence]

MCViews == {Granted, Asked, Again, Fork, Granted2, Asked2, Fork2}

S1 == MCStatus("s1", 1, "ACTIVE", 0, 4)
R1 == MCStatus("s1 revoked", 1, "REVOKED", 0, 4)
S2 == MCStatus("s2", 2, "ACTIVE", 0, 4)
MCStatuses == {S1, R1, S2}

Never == 9

Story(views, statuses) ==
  [x \in MCViews \cup MCStatuses |->
     IF x \in views THEN 0 ELSE IF x \in DOMAIN statuses THEN statuses[x] ELSE Never]

\* What the verifiers are told: one of the chains from the start, and
\* statements later on or not at all.
Stories ==
  << Story({Granted, Asked}, (S1 :> 0) @@ (R1 :> 1)),
     Story({Granted, Asked}, (S1 :> 0) @@ (S2 :> 1)),
     Story({Granted, Again}, (S1 :> 0) @@ (R1 :> 1)),
     Story({Granted2, Fork2}, S2 :> 0),
     Story({Granted2, Asked2}, S2 :> 0),
     Story({Granted, Asked, Fork}, S1 :> 0) >>

\* Two askings under a grant that is revoked, an equivocation, an old and a
\* new grant, and an equivocation that one of the two can see.
MCDeliveries ==
  {(d1 :> Stories[pair[1]]) @@ (d2 :> Stories[pair[2]]) :
     pair \in {<<1, 3>>, <<1, 4>>, <<2, 5>>, <<3, 6>>}}

MCRequests ==
  {RequestFor({Granted, leaf}, S1) : leaf \in {Asked, Fork, Again}}
  \cup {RequestFor({Granted2, leaf}, S2) : leaf \in {Asked2, Fork2}}

MCKeys == UNION {{o.key : o \in r.observations} : r \in MCRequests}

\* The gates are threads of one program, the adapter is another.
TwoPrograms == {{d1, d2}, {a1}}
OneStore == [g \in TwoPrograms |-> "store A"]
Symmetry == Permutations(PermitIds)
=============================================================================
