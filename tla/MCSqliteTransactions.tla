------------------------ MODULE MCSqliteTransactions ------------------------
(***************************************************************************)
(* Small instances of SqliteTransactions for TLC.  The two requests        *)
(* conflict in one binding; a request made twice has one replay key.       *)
(***************************************************************************)
EXTENDS SqliteTransactions, TLC

CONSTANTS d1, d2, a1, a2

Binding(k, h) == [key |-> k, handoff |-> h]

Payment ==
  [tool |-> "payments", scope |-> "v1", nonce |-> "n1", hash |-> "A",
   observations |-> {Binding("root", "h root"), Binding("sequence 2", "h leaf")},
   horizon |-> 2]
Fork ==
  [Payment EXCEPT !.nonce = "n2", !.hash = "B",
                  !.observations = {Binding("sequence 2", "h fork")}]

TwoRequests == {Payment, Fork}
OneRequest == {Payment}
MCKeys == {"root", "sequence 2"}
MCHandoffs == {"h root", "h leaf", "h fork"}

\* Two gates that only reserve, in a program each, and a program that was
\* set up for another store.
GatesAndStranger == {{d1}, {d2}, {a2}}
OtherStore == [g \in Programs |-> IF a2 \in g THEN "store B" ELSE "store A"]

\* A gate and an adapter share a store object, another adapter has its own.
GateAndAdapters == {{d1, a1}, {a2}}
SameStore == [g \in Programs |-> "store A"]

PermitSymmetry == Permutations(PermitIds)
=============================================================================
