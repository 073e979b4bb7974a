----------------------------- MODULE Authority ------------------------------
(***************************************************************************)
(* What it takes for a set of accepted handoffs and a status statement to  *)
(* carry one exact action, said without walking from handoff to handoff.   *)
(* The gates of Sprint 3 and of the P0 prototype both build on these       *)
(* comparisons; how they get from their inputs to them differs.            *)
(*                                                                         *)
(* A target is an operation on a resource in a currency; a scope covers a  *)
(* set of them up to an amount and for a time.                             *)
(***************************************************************************)
EXTENDS Integers

CONSTANTS
  Action,      \* the exact action: its hash, target and amount
  NoParent,    \* previous_interaction_id of a root
  ClockSkew    \* max_clock_skew_seconds

IsLeaf(v) == v.type = "action_intent" /\ v.hash = Action.hash

Parents(V, v) == {p \in V : p.interaction = v.previous}

\* _scope_attenuated
Narrower(child, parent) ==
  /\ child.targets \subseteq parent.targets
  /\ child.limit <= parent.limit
  /\ parent.from <= child.from
  /\ child.until <= parent.until
  /\ child.hops < parent.hops

\* _action_within_scope
Covers(scope) == Action.target \in scope.targets /\ Action.amount <= scope.limit

HasRootAuthority(v) ==
  /\ v.lineage.issuer = v.sender.principal
  /\ v.lineage.subject = v.receiver.principal
  /\ v.lineage.key = v.receiver.key

Conflicting(S) == \E s, u \in S : s # u /\ s.version = u.version

Earliest(times) == CHOOSE t \in times : \A u \in times : t <= u

-----------------------------------------------------------------------------
(***************************************************************************)
(* Among the handoffs V there is a set that holds the only leaf and one    *)
(* root, in which every other handoff has its only parent and nothing is   *)
(* that is not a parent, and all of them are in order at time t and rest   *)
(* on the latest status in S.  An intent is no grant: one that names no    *)
(* parent is never both leaf and root.                                     *)
(***************************************************************************)
InOrder(v, t) ==
  /\ v.faults = {}
  /\ v.created <= t /\ v.created <= v.decided /\ v.decided <= t
  /\ v.scope.from <= t /\ t < v.scope.until
  /\ Covers(v.scope)

Handed(p, v) ==
  /\ p.receiver = v.sender
  /\ p.decided <= v.created + ClockSkew
  /\ Narrower(v.scope, p.scope)

ChainTo(leaf, root, C, V) ==
  /\ {leaf, root} \subseteq C /\ leaf # root
  /\ {v \in V : IsLeaf(v)} = {leaf}
  /\ {v \in C : v.previous = NoParent} = {root}
  /\ \A v \in C \ {leaf} : /\ v.type = "delegation"
                           /\ \E w \in C : w.previous = v.interaction
  /\ \A v \in C \ {root} : \E p \in C : Parents(V, v) = {p} /\ Handed(p, v)

GrantedBy(s, root, C, S, t) ==
  /\ HasRootAuthority(root)
  /\ s.lineage = root.lineage /\ s.version = root.version
  /\ s.state = "ACTIVE" /\ s.issued <= t /\ t < s.fresh
  /\ \A u \in S : u.lineage = s.lineage => u.version <= s.version
  /\ ~Conflicting({u \in S : u.lineage = s.lineage})
  /\ \A v \in C : /\ v.lineage = root.lineage /\ v.version = root.version
                  /\ v.status = s.id /\ s.issued <= v.created

Acceptable(V, S, t) ==
  \E C \in SUBSET V : \E leaf, root \in C, s \in S :
    /\ ChainTo(leaf, root, C, V)
    /\ GrantedBy(s, root, C, S, t)
    /\ \A v \in C : InOrder(v, t)
=============================================================================
