------------------------------ MODULE Fixtures ------------------------------
(***************************************************************************)
(* The Sprint 4 fixtures and their encodings: what becomes of a case on    *)
(* its way to the verifier and to the auditor, in each representation.     *)
(*                                                                         *)
(* A buyer delegates to a broker, and the broker asks a payment agent to   *)
(* pay.  A case chooses what is delivered to the verifier, whether there   *)
(* is a later revocation, whether the payment is within the scope, how     *)
(* often it is attempted, and whether the broker asked twice under one     *)
(* number.  The repository's manifest has eight cases; here is every one   *)
(* the configuration admits.                                               *)
(*                                                                         *)
(* Times are seconds from 13:55:00.  Every principal has one agent and one *)
(* key, and a store.                                                       *)
(***************************************************************************)
EXTENDS Integers, FiniteSets, TLC

CONSTANT None   \* no parent, no record

Configs ==
  [delivery : {"COMPLETE", "WITHHOLD_LEAF_RECEIVER_LOCAL", "WITHHOLD_BOTH_LEAF_LOCAL",
               "DELAY_ACTIVE_STATUS_LOCAL"},
   authority : {"ACTIVE_ONLY", "ACTIVE_AND_HIGHER_REVOKED"},
   action : {"IN_SCOPE", "OUT_OF_SCOPE"},
   attempts : 1 .. 2,
   conflicting : BOOLEAN]

DecisionTime == 600
AuditTime == 660 + 600      \* EPISODE_END + AUDIT_DELTA
Delay == 900

Stores ==
  "buyer" :> [principal |-> "buyer", roles |-> {"SENDER"}]
    @@ "broker" :> [principal |-> "broker", roles |-> {"SENDER", "RECEIVER"}]
    @@ "payment" :> [principal |-> "payment", roles |-> {"RECEIVER"}]

Party(p) == [principal |-> p, key |-> p]
Lineage == [issuer |-> "buyer", subject |-> "broker", key |-> "broker"]

Status(id, version, state, issued) ==
  [id |-> id, lineage |-> Lineage, version |-> version, state |-> state,
   issued |-> issued, fresh |-> 2100]

Active == Status("status.1", 7, "ACTIVE", 0)
Revoked == Status("status.2", 8, "REVOKED", 480)

StatusesOf(config) ==
  {Active} \cup {s \in {Revoked} : config.authority = "ACTIVE_AND_HIGHER_REVOKED"}

Payment(amount) == [hash |-> "payment", target |-> "payment", amount |-> amount]

ActionOf(config) == Payment(IF config.action = "OUT_OF_SCOPE" THEN 1800000 ELSE 900000)
Actions == {ActionOf(c) : c \in Configs}

Handoff(i, sender, receiver, type, previous, scope, created, hash) ==
  [interaction |-> i, sender |-> sender, receiver |-> receiver, type |-> type,
   sequence |-> 1, previous |-> previous, scope |-> scope, lineage |-> Lineage,
   version |-> 7, status |-> Active.id, created |-> created, hash |-> hash]

Accepted(handoff) ==
  [handoff |-> handoff, decision |-> "ACCEPT", decided |-> handoff.created + 5]

RootScope ==
  [targets |-> {"order", "payment"}, limit |-> 2000000, from |-> 300, until |-> 7500, hops |-> 1]
LeafScope ==
  [targets |-> {"payment"}, limit |-> 950000, from |-> 300, until |-> 5700, hops |-> 0]

Root == Accepted(Handoff("root", "buyer", "broker", "delegation", None, RootScope, 300, "scope"))
LeafAt(i, created) ==
  Accepted(Handoff(i, "broker", "payment", "action_intent", "root", LeafScope, created, "payment"))
Leaf == LeafAt("leaf", 360)
Alternative == LeafAt("leaf alt", 420)

Handoffs == {Root, Leaf, Alternative}
HandoffsOf(config) == {Root, Leaf} \cup {f \in {Alternative} : config.conflicting}

-----------------------------------------------------------------------------
(***************************************************************************)
(* The validator at one cutoff, and the chain the auditor makes out.       *)
(***************************************************************************)
Validator(r, t, D) ==
  INSTANCE EvidenceValidation
    WITH Representations <- {"SL", "CR", "PR"}, Messages <- <<>>, Facts <- Handoffs,
         Interactions <- {f.handoff.interaction : f \in Handoffs}, Registry <- Stores,
         ClockSkew <- 0, MaxTime <- AuditTime, MaxDelivered <- 0,
         representation <- r, cutoff <- t, delivered <- D,
         phase <- "idle", unread <- {}, records <- {}, violations <- {}, conflicts <- {},
         left <- {}, selected <- {}, candidates <- <<>>, invalid <- {}, issues <- {},
         validated <- {}, last <- <<>>

Auditor(action) ==
  INSTANCE StrictChain WITH Action <- action, NoParent <- None, ClockSkew <- 0

-----------------------------------------------------------------------------
(***************************************************************************)
(* Encoding and delivery.                                                  *)
(***************************************************************************)
Roles == {"SENDER", "RECEIVER"}

\* Every party sends what it holds to the verifier and to the auditor, a second
\* after the receiver's decision.
Message(r, f, holder) ==
  [kind |-> Validator(r, 0, {})!PayloadKind[r], flaw |-> "SOUND", sent |-> f.decided + 1,
   store |-> IF holder = "SENDER" THEN f.handoff.sender ELSE f.handoff.receiver,
   record |-> Validator(r, 0, {})!Payload(r, f, holder)]

Withheld(config, f, holder) ==
  /\ f = Leaf
  /\ \/ config.delivery = "WITHHOLD_BOTH_LEAF_LOCAL"
     \/ config.delivery = "WITHHOLD_LEAF_RECEIVER_LOCAL" /\ holder = "RECEIVER"

LocalEvidence(config, r) ==
  {Message(r, slot[1], slot[2]) : slot \in
     {s \in HandoffsOf(config) \X Roles : /\ s[1].decided + 1 <= DecisionTime
                                          /\ ~Withheld(config, s[1], s[2])}}

\* Mutant: the auditor hears of the receivers only.
AuditEvidenceOfReceivers(config, r) ==
  {Message(r, slot[1], slot[2]) : slot \in HandoffsOf(config) \X {"RECEIVER"}}

AuditEvidence(config, r) ==
  {Message(r, slot[1], slot[2]) : slot \in HandoffsOf(config) \X Roles}

\* Mutant: a delay that was configured is not observed.
LocalStatusesUndelayed(config) == {s \in StatusesOf(config) : s.issued + 1 <= DecisionTime}

\* The statuses that have reached the verifier.
LocalStatuses(config) ==
  {s \in StatusesOf(config) :
     LET delay == IF s = Active /\ config.delivery = "DELAY_ACTIVE_STATUS_LOCAL" THEN Delay ELSE 0
     IN  s.issued + 1 + delay <= DecisionTime}

-----------------------------------------------------------------------------
(***************************************************************************)
(* Policy views, and validation_summary.                                   *)
(***************************************************************************)
\* What the validator makes of a handoff: what was agreed on is its candidate's.
View(f, candidate) ==
  [f.handoff EXCEPT !.sender = Party(candidate.sender), !.receiver = Party(candidate.receiver),
                    !.previous = candidate.previous, !.type = candidate.type,
                    !.created = candidate.created]
    @@ [decided |-> candidate.decided, faults |-> candidate.faults]

PolicyViews(r, t, D) ==
  LET agreed == Validator(r, t, D)!Agreed
  IN  {View(f, agreed[f.handoff.interaction]) : f \in
         {g \in Handoffs : g.handoff.interaction \in Validator(r, t, D)!Founded}}

Summary(config, r, t, D) ==
  [views |-> PolicyViews(r, t, D),
   clean |-> Validator(r, t, D)!NothingAmiss,
   chain |-> Auditor(ActionOf(config))!StrictChain(PolicyViews(r, t, D))]

LocalSummary(config, r) == Summary(config, r, DecisionTime, LocalEvidence(config, r))
AuditSummary(config, r) == Summary(config, r, AuditTime, AuditEvidence(config, r))
=============================================================================
