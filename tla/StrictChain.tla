----------------------------- MODULE StrictChain ----------------------------
(***************************************************************************)
(* assemble_strict_chain of Sprint 4: what the auditor makes of the policy *)
(* views of validated handoffs.  It looks for the one intent to do the     *)
(* action and goes from parent to parent, like the gate; unlike the gate   *)
(* it asks for neither authority, scope nor time, and it wants every view  *)
(* to be on the chain.                                                     *)
(***************************************************************************)
EXTENDS Authority, Sequences, FiniteSets

InteractionsOf(V) == {v.interaction : v \in V}

\* The views from a leaf to where its ancestors end, or come round again:
\* one more than there are views is enough to tell.
Ascent(leaf, V) ==
  LET step[n \in 0 .. Cardinality(V)] ==
        IF n = 0 THEN <<leaf>>
        ELSE LET path == step[n - 1]
                 next == Parents(V, path[Len(path)])
             IN  IF next = {} THEN path ELSE Append(path, CHOOSE p \in next : TRUE)
  IN  step[Cardinality(V)]

\* What is wrong with the path from the only leaf.
PathReason(path, V) ==
  LET root == path[Len(path)]
      on   == {path[i] : i \in DOMAIN path}
  IN  IF Len(path) > Cardinality(on) THEN "CHAIN_CYCLE"
      ELSE IF root.previous # NoParent THEN "PARENT_MISSING"
      ELSE IF root.type # "delegation" THEN "ROOT_INVALID"
      ELSE IF \E i \in 2 .. Len(path) : path[i].type # "delegation" THEN "INTERMEDIATE_INVALID"
      ELSE IF on # V THEN "EXTRA_OR_DISCONNECTED_HANDOFF"
      ELSE "OK"

Unresolved(reason) == [reason |-> reason, interactions |-> <<>>]

\* From the root to the leaf.
Resolved(path) ==
  [reason |-> "OK", interactions |-> [i \in DOMAIN path |-> path[Len(path) + 1 - i].interaction]]

StrictChain(V) ==
  LET leaves == {v \in V : IsLeaf(v)}
  IN  IF Cardinality(InteractionsOf(V)) # Cardinality(V) THEN Unresolved("DUPLICATE_INTERACTION")
      ELSE IF leaves = {} THEN Unresolved("LEAF_MISSING")
      ELSE IF Cardinality(leaves) > 1 THEN Unresolved("AMBIGUOUS_LEAF")
      ELSE LET path == Ascent(CHOOSE v \in leaves : TRUE, V)
           IN  IF PathReason(path, V) = "OK" THEN Resolved(path)
                                             ELSE Unresolved(PathReason(path, V))

Complete(chain) == chain.reason = "OK"
=============================================================================
