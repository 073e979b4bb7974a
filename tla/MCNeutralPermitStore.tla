------------------------ MODULE MCNeutralPermitStore ------------------------
(***************************************************************************)
(* A small instance of NeutralPermitStore for TLC.                         *)
(*                                                                         *)
(* Three requests cover what reserve() tells apart: the first two are one  *)
(* action reached over two chains (one replay key, compatible bindings,    *)
(* the second with evidence that goes stale earlier), the third is another *)
(* action whose chain conflicts with the first (the same sender sequence   *)
(* names another handoff).                                                 *)
(***************************************************************************)
EXTENDS NeutralPermitStore, TLC

Binding(k, h) == [key |-> k, handoff |-> h]

Root == Binding("interaction root", "h root")

MCRequests ==
  { [tool |-> "payments", scope |-> "v1", nonce |-> "n1", hash |-> "A",
     observations |-> {Root, Binding("sequence 2", "h leaf")}, horizon |-> 3],
    [tool |-> "payments", scope |-> "v1", nonce |-> "n1", hash |-> "A",
     observations |-> {Root}, horizon |-> 2],
    [tool |-> "payments", scope |-> "v1", nonce |-> "n2", hash |-> "B",
     observations |-> {Root, Binding("sequence 2", "h fork")}, horizon |-> 3] }

MCKeys == {"interaction root", "sequence 2"}
MCHandoffs == {"h root", "h leaf", "h fork"}

\* Every process has a store object of its own.
Separate == {{p} : p \in Processes}

\* One decider is set up for another store than everybody else.
Stranger == CHOOSE d \in Deciders : TRUE
TwoStores ==
  [g \in Separate |-> IF g = {Stranger} THEN "store B" ELSE "store A"]
OneStore == [g \in Separate |-> "store A"]

\* With one store, processes of a kind and permit ids are interchangeable.
Symmetry == Permutations(Deciders) \cup Permutations(Adapters)
              \cup Permutations(PermitIds)

\* With a stranger, deciders are not.
SymmetryOfAdapters == Permutations(Adapters) \cup Permutations(PermitIds)
=============================================================================
