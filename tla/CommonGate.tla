----------------------------- MODULE CommonGate -----------------------------
(***************************************************************************)
(* How the Sprint 3 gate judges one exact action: prepare_common_gate_input *)
(* and CommonActionGate.evaluate.                                          *)
(*                                                                         *)
(* evaluate() looks for the one leaf that asks for the action, walks from  *)
(* parent to parent to the root, and then goes over the chain from the     *)
(* root to the leaf.  Nothing else runs meanwhile; the steps are those of  *)
(* its loops.                                                              *)
(*                                                                         *)
(* It takes nothing for granted of the views it is handed, and neither     *)
(* does this module: no chain for the action, several, a broken one or a   *)
(* circular one, and status statements of any version.  What the validator *)
(* of Sprint 2 leaves of these is another matter.                          *)
(*                                                                         *)
(* An input is a set: prepare sorts views and statuses by their ids, and   *)
(* two views with the same id are refused (CommonGateInput).               *)
(***************************************************************************)
EXTENDS Authority, Sequences, FiniteSets

CONSTANTS
  Views,       \* policy views of validated handoffs that may be in an input
  Statuses,    \* authority status statements that may be in an input
  Genuine,     \* those that are authentic and come from a store of the issuer
  Issues,      \* what preparation may have against the observation
  Inputs,      \* kinds of inputs: what may be in them, and how many views
  PermitTTL,   \* permit_ttl_seconds
  MaxTime      \* bound on the decision time

(***************************************************************************)
(* A target is an operation on a resource in a currency; a scope covers a  *)
(* set of them up to an amount and for a time.  The faults of a view are   *)
(* what evaluate_common_evidence_policy holds against it.                  *)
(***************************************************************************)
ViewFields == {"interaction", "sender", "receiver", "type", "sequence",
               "previous", "scope", "lineage", "version", "status", "created",
               "decided", "hash", "faults"}

PolicyFaults == {"SENDER_UNAUTHENTICATED", "RECEIVER_UNAUTHENTICATED",
                 "BILATERAL_AGREEMENT_MISSING", "RECEIVER_REJECTED",
                 "PARENT_RELATION_INVALID", "EQUIVOCATION"}

ASSUME ViewAssumption ==
  \A v \in Views :
    /\ DOMAIN v = ViewFields
    /\ v.interaction # NoParent
    /\ v.type \in {"delegation", "action_intent"}
    /\ v.version \in Nat /\ v.created \in Nat /\ v.decided \in Nat
    /\ DOMAIN v.scope = {"targets", "limit", "from", "until", "hops"}
    /\ v.scope.limit \in Nat /\ v.scope.hops \in Nat
    /\ v.scope.from \in Nat /\ v.scope.until \in Nat
    /\ v.faults \subseteq PolicyFaults

ASSUME StatusAssumption ==
  /\ Genuine \subseteq Statuses
  /\ \A s \in Statuses :
       /\ DOMAIN s = {"id", "lineage", "version", "state", "issued", "fresh"}
       /\ s.version \in Nat /\ s.issued \in Nat /\ s.fresh \in Nat
       /\ s.state \in {"ACTIVE", "REVOKED"}
  /\ \A s, u \in Statuses : s.id = u.id => s = u

ASSUME GateAssumption ==
  /\ PermitTTL \in Nat \ {0} /\ ClockSkew \in Nat
  /\ MaxTime \in Nat
  /\ Action.amount \in Nat

Barriers == {"none", "SCHEMA_INVALID", "VERIFIER_STORE_MISMATCH", "TOOL_UNAUTHORISED"}

ASSUME InputAssumption ==
  \A k \in Inputs :
    /\ k.views \subseteq Views /\ k.statuses \subseteq Statuses
    /\ k.issues \subseteq Issues /\ k.barriers \subseteq Barriers
    /\ k.size \in Nat

VARIABLES
  input,      \* what evaluate() is called with
  pc,         \* where evaluate() is
  current,    \* the view the walk has come to
  chain,      \* reverse_chain: the views walked over, the leaf first
  index,      \* the place in the chain the second loop has come to
  reasons,    \* reasons to pause so far
  decision    \* the evaluation

vars == <<input, pc, current, chain, index, reasons, decision>>

Undecided == [verdict |-> "NONE"]
Nowhere == [interaction |-> NoParent]

Init ==
  /\ \E k \in Inputs : \E V \in SUBSET k.views, S \in SUBSET k.statuses,
        f \in SUBSET k.issues, b \in k.barriers, t \in 0 .. MaxTime :
       /\ IsFiniteSet(V) /\ Cardinality(V) <= k.size
       /\ input = [views |-> V, statuses |-> S, now |-> t, barrier |-> b, issues |-> f]
  /\ pc = "admit"
  /\ current = Nowhere
  /\ chain = <<>>
  /\ index = 0
  /\ reasons = {}
  /\ decision = Undecided

Several(S) == \E x, y \in S : x # y

Because(condition, reason) == IF condition THEN {reason} ELSE {}

Pause(why) ==
  /\ reasons' = why
  /\ decision' = [verdict |-> "PAUSE"]
  /\ pc' = "done"

-----------------------------------------------------------------------------
(***************************************************************************)
(* Before the chain.                                                       *)
(***************************************************************************)

\* One status message that does not authenticate spoils the whole input.
PreparationReasons ==
  input.issues \cup Because(~(input.statuses \subseteq Genuine), "STATUS_INVALID")

Admit ==
  /\ pc = "admit"
  /\ \/ input.barrier # "none" /\ Pause({input.barrier})
     \/ /\ input.barrier = "none" /\ PreparationReasons # {}
        /\ Pause(PreparationReasons)
     \/ /\ input.barrier = "none" /\ PreparationReasons = {}
        /\ pc' = "leaf"
        /\ UNCHANGED <<reasons, decision>>
  /\ UNCHANGED <<input, current, chain, index>>

Leaves == {v \in input.views : IsLeaf(v)}

FindLeaf ==
  /\ pc = "leaf"
  /\ \/ /\ \E v \in Leaves : Leaves = {v} /\ current' = v
        /\ pc' = "walk"
        /\ UNCHANGED <<reasons, decision>>
     \/ Leaves = {} /\ Pause({"LEAF_MISSING"}) /\ UNCHANGED current
     \/ Several(Leaves) /\ Pause({"LEAF_AMBIGUOUS"}) /\ UNCHANGED current
  /\ UNCHANGED <<input, chain, index>>

-----------------------------------------------------------------------------
(***************************************************************************)
(* The walk.                                                               *)
(***************************************************************************)
Visited == {chain[i].interaction : i \in DOMAIN chain}

WalkIntoCycle ==
  /\ pc = "walk"
  /\ current.interaction \in Visited
  /\ Pause({"CHAIN_CYCLE"})
  /\ UNCHANGED <<input, current, chain, index>>

WalkToParent ==
  /\ pc = "walk"
  /\ current.interaction \notin Visited
  /\ current.previous # NoParent
  /\ chain' = Append(chain, current)
  /\ \E p \in input.views : Parents(input.views, current) = {p} /\ current' = p
  /\ UNCHANGED <<input, pc, index, reasons, decision>>

\* Mutant: a parent that was not delivered is not noticed.
WalkAstrayIfAmbiguous ==
  /\ pc = "walk"
  /\ current.interaction \notin Visited
  /\ current.previous # NoParent
  /\ Several(Parents(input.views, current))
  /\ chain' = Append(chain, current)
  /\ Pause({"CHAIN_AMBIGUOUS"})
  /\ UNCHANGED <<input, current, index>>

WalkAstray ==
  /\ pc = "walk"
  /\ current.interaction \notin Visited
  /\ current.previous # NoParent
  /\ chain' = Append(chain, current)
  /\ \/ Parents(input.views, current) = {} /\ Pause({"PARENT_MISSING"})
     \/ Several(Parents(input.views, current)) /\ Pause({"CHAIN_AMBIGUOUS"})
  /\ UNCHANGED <<input, current, index>>

WalkToRoot ==
  /\ pc = "walk"
  /\ current.interaction \notin Visited
  /\ current.previous = NoParent
  /\ chain' = Append(chain, current)
  /\ pc' = "ends"
  /\ UNCHANGED <<input, current, index, reasons, decision>>

-----------------------------------------------------------------------------
(***************************************************************************)
(* The chain.                                                              *)
(***************************************************************************)
Root == chain[Len(chain)]

\* Mutant: whatever has no parent is taken for a root.
ChainReasonsAnyRoot ==
  (UNION {chain[i].faults : i \in DOMAIN chain})
  \cup Because(\E i \in 2 .. Len(chain) - 1 : chain[i].type # "delegation",
               "INTERMEDIATE_NOT_DELEGATION")
  \cup Because(~HasRootAuthority(Root), "ROOT_AUTHORITY_MISMATCH")
  \cup Because(\E i \in DOMAIN chain : \/ chain[i].lineage # Root.lineage
                                       \/ chain[i].version # Root.version,
               "AUTHORITY_CHAIN_MISMATCH")

\* What is held against the chain as a whole.  That the leaf is an intent
\* with the hash of the action is how it was chosen.
ChainReasons ==
  (UNION {chain[i].faults : i \in DOMAIN chain})
  \cup Because(Root.previous # NoParent \/ Root.type # "delegation", "ROOT_NOT_DELEGATION")
  \cup Because(\E i \in 2 .. Len(chain) - 1 : chain[i].type # "delegation",
               "INTERMEDIATE_NOT_DELEGATION")
  \cup Because(~HasRootAuthority(Root), "ROOT_AUTHORITY_MISMATCH")
  \cup Because(\E i \in DOMAIN chain : \/ chain[i].lineage # Root.lineage
                                       \/ chain[i].version # Root.version,
               "AUTHORITY_CHAIN_MISMATCH")

JudgeChain ==
  /\ pc = "ends"
  /\ reasons' = ChainReasons
  /\ index' = Len(chain)
  /\ pc' = "handoffs"
  /\ UNCHANGED <<input, current, chain, decision>>

TimeReasons(v) ==
  Because(input.now < v.created \/ input.now < v.scope.from, "NOT_YET_VALID")
  \cup Because(v.decided < v.created \/ input.now < v.decided, "CAUSAL_TIME_INVALID")
  \cup Because(v.scope.until <= input.now, "EXPIRED")

\* Mutant: the scope of a handoff is not compared with its parent's.
LinkReasonsNoScope(parent, v) ==
  Because(parent.receiver # v.sender, "PARTY_CONTINUITY_BROKEN")
  \cup Because(v.created + ClockSkew < parent.decided, "CAUSAL_TIME_INVALID")

LinkReasons(parent, v) ==
  Because(parent.receiver # v.sender, "PARTY_CONTINUITY_BROKEN")
  \cup Because(v.created + ClockSkew < parent.decided, "CAUSAL_TIME_INVALID")
  \cup Because(~Narrower(v.scope, parent.scope), "SCOPE_EXPANSION")

\* One round of the loop that goes from the root to the leaf.
JudgeHandoff ==
  /\ pc = "handoffs"
  /\ reasons' = reasons \cup TimeReasons(chain[index])
       \cup (IF index < Len(chain) THEN LinkReasons(chain[index + 1], chain[index]) ELSE {})
  /\ index' = index - 1
  /\ pc' = IF index = 1 THEN "status" ELSE "handoffs"
  /\ UNCHANGED <<input, current, chain, decision>>

-----------------------------------------------------------------------------
(***************************************************************************)
(* The action, the status and the answer.                                  *)
(***************************************************************************)
ActionReasons ==
  Because(\E i \in DOMAIN chain : ~Covers(chain[i].scope), "ACTION_OUT_OF_SCOPE")

Relevant == {s \in input.statuses : s.lineage = Root.lineage}

\* Mutant: the status the leaf refers to controls, not the latest.
ControllingByReference == {s \in Relevant : s.id = chain[1].status}

\* The statements of the highest version.  If there are several, none controls.
Controlling == {s \in Relevant : \A u \in Relevant : u.version <= s.version}

ReasonsOf(s) ==
  Because(s.version > Root.version, "AUTHORITY_VERSION_STALE")
  \cup Because(s.version < Root.version, "STATUS_MISSING")
  \cup Because(\E i \in DOMAIN chain : chain[i].status # s.id, "REVOCATION_STATUS_STALE")
  \cup Because(s.state = "REVOKED", "AUTHORITY_REVOKED")
  \cup Because(input.now < s.issued, "STATUS_NOT_YET_VALID")
  \cup Because(s.fresh <= input.now, "STATUS_STALE")
  \cup Because(\E i \in DOMAIN chain : chain[i].status = s.id /\ chain[i].created < s.issued,
               "STATUS_CAUSAL_TIME_INVALID")

\* Mutant: two statements of one version are not noticed.
StatusReasonsNoConflict ==
  Because(Relevant = {}, "STATUS_MISSING")
  \cup (IF Several(Controlling) THEN {} ELSE UNION {ReasonsOf(s) : s \in Controlling})

StatusReasons ==
  Because(Relevant = {}, "STATUS_MISSING")
  \cup Because(Conflicting(Relevant), "STATUS_CONFLICT")
  \cup (IF Several(Controlling) THEN {} ELSE UNION {ReasonsOf(s) : s \in Controlling})

\* min(ttl_expiry, fresh_until, every not_after)
Expiry(s) ==
  Earliest({input.now + PermitTTL, s.fresh}
             \cup {chain[i].scope.until : i \in DOMAIN chain})

\* What the permit store is asked to bind to this chain.
BindingsOf(v) ==
  {[key |-> <<"INTERACTION", v.interaction>>, handoff |-> v],
   [key |-> <<"SENDER_SEQUENCE", v.sender.principal, v.sender.key, v.sequence>>,
    handoff |-> v]}

Observations == UNION {BindingsOf(chain[i]) : i \in DOMAIN chain}

Conclude ==
  /\ pc = "status"
  /\ LET why == reasons \cup ActionReasons \cup StatusReasons
     IN  \/ why # {} /\ Pause(why)
         \/ /\ why = {}
            /\ \E s \in Controlling :
                 decision' = [verdict |-> "ALLOW", status |-> s, expires |-> Expiry(s),
                              scope |-> <<Root.lineage, Root.version>>,
                              observations |-> Observations]
            /\ pc' = "done"
            /\ UNCHANGED reasons
  /\ UNCHANGED <<input, current, chain, index>>

Next ==
  \/ Admit \/ FindLeaf
  \/ WalkIntoCycle \/ WalkToParent \/ WalkAstray \/ WalkToRoot
  \/ JudgeChain \/ JudgeHandoff \/ Conclude

Spec == Init /\ [][Next]_vars

\* evaluate() is one call in one thread and waits for nothing.
FairSpec == Spec /\ WF_vars(Next)
-----------------------------------------------------------------------------
(***************************************************************************)
(* Properties.                                                             *)
(***************************************************************************)
\* The walk and the loop stay inside the input, and only a finished
\* evaluation has an answer.
TypeOK ==
  /\ pc \in {"admit", "leaf", "walk", "ends", "handoffs", "status", "done"}
  /\ input.views \subseteq Views /\ input.statuses \subseteq Statuses
  /\ input.now \in 0 .. MaxTime
  /\ chain \in Seq(input.views)
  /\ index \in 0 .. Len(chain)
  /\ pc = "walk" => current \in input.views
  /\ pc \in {"ends", "handoffs", "status"} => chain # <<>>
  /\ pc = "handoffs" => index \in DOMAIN chain
  /\ pc = "done" <=> decision.verdict \in {"ALLOW", "PAUSE"}
  /\ decision.verdict = "PAUSE" => reasons # {}
  /\ decision.verdict = "ALLOW" => reasons = {} /\ decision.status \in Genuine

\* The chain is a path without a choice in it: it begins at the only leaf,
\* every handoff is the only one in the input with the interaction its child
\* names, and none comes twice, so that the walk must end.
WalkIsPath ==
  /\ chain # <<>> => Leaves = {chain[1]}
  /\ \A i \in DOMAIN chain :
       /\ i > 1 => Parents(input.views, chain[i - 1]) = {chain[i]}
       /\ \A j \in DOMAIN chain : i # j => chain[i].interaction # chain[j].interaction

Allowed == decision.verdict = "ALLOW"

\* Every handoff that ALLOW rests on is a narrower grant than each of those
\* before it, not only than its parent, and they all cover the action now.
NoEscalation ==
  Allowed =>
    /\ \A i, j \in DOMAIN chain : i < j => Narrower(chain[i].scope, chain[j].scope)
    /\ \A i \in DOMAIN chain :
         /\ Covers(chain[i].scope)
         /\ chain[i].scope.from <= input.now /\ input.now < chain[i].scope.until

\* Nothing is allowed in the face of a revocation: not one of the version the
\* chain was granted under, nor a later one, whatever other statements are
\* there and whichever of them the handoffs refer to.
RevocationHeeded ==
  Allowed =>
    \A s \in input.statuses :
      s.lineage = Root.lineage /\ s.version >= Root.version => s.state = "ACTIVE"

\* What the permit for an action that is carried by C and s has to be.
AnswerFor(C, root, s) ==
  [verdict |-> "ALLOW", status |-> s, scope |-> <<root.lineage, root.version>>,
   expires |-> Earliest({input.now + PermitTTL, s.fresh} \cup {v.scope.until : v \in C}),
   observations |-> UNION {BindingsOf(v) : v \in C}]

\* The gate allows exactly what is acceptable: no cycle, fork or gap in the
\* evidence makes it allow more, and no evidence beside the chain makes it
\* pause except a second leaf, a second parent or another status.  What it
\* then asks the permit store for is determined by the evidence: the permit
\* binds and outlives nothing but the handoffs that carry the action.
AllowsExactlyTheAcceptable ==
  /\ decision.verdict # "NONE" =>
       (Allowed <=> /\ input.barrier = "none" /\ PreparationReasons = {}
                    /\ Acceptable(input.views, input.statuses, input.now))
  /\ Allowed =>
       \A C \in SUBSET input.views : \A leaf, root \in C, s \in input.statuses :
         /\ ChainTo(leaf, root, C, input.views)
         /\ GrantedBy(s, root, C, input.statuses, input.now)
         /\ \A v \in C : InOrder(v, input.now)
         => decision = AnswerFor(C, root, s)

Auditor == INSTANCE StrictChain

\* The auditor's code makes out the same chain with a walk of its own: what it
\* finds missing, double, circular or out of place the gate finds too, and the
\* gate allows nothing that the auditor cannot put in a chain, unless because
\* of a handoff beside it.
AuditorSeesTheChain ==
  LET audit == Auditor!StrictChain(input.views)
  IN  /\ decision.verdict # "NONE" /\ input.barrier = "none" /\ PreparationReasons = {}
      /\ audit.reason # "DUPLICATE_INTERACTION"
      => /\ Allowed => audit.reason \in {"OK", "EXTRA_OR_DISCONNECTED_HANDOFF"}
         /\ audit.reason = "OK" => {chain[i] : i \in DOMAIN chain} = input.views
         /\ \A why \in {"LEAF_MISSING", "CHAIN_CYCLE", "PARENT_MISSING"} :
              audit.reason = why <=> reasons = {why}
         /\ audit.reason = "AMBIGUOUS_LEAF" <=> reasons = {"LEAF_AMBIGUOUS"}
         /\ audit.reason = "ROOT_INVALID" => "ROOT_NOT_DELEGATION" \in reasons
         /\ audit.reason = "INTERMEDIATE_INVALID" => "INTERMEDIATE_NOT_DELEGATION" \in reasons

\* The most steps an evaluation can still take.  The walk appends every
\* handoff of the input at most once, and the loop over the chain is no longer.
StepsLeft ==
  LET n == Cardinality(input.views)
  IN  [admit |-> 2 * n + 5, leaf |-> 2 * n + 4, walk |-> 2 * n + 3 - Len(chain),
       ends |-> Len(chain) + 2, handoffs |-> index + 1, status |-> 1, done |-> 0][pc]

\* No loop of evaluate() can go on for ever, whatever it is called with: each
\* step leaves fewer steps to take.
ComesCloser == [][StepsLeft' \in 0 .. StepsLeft - 1]_vars

\* Every evaluation comes to a verdict, on circular evidence too.
Decides == <>(pc = "done")
=============================================================================
