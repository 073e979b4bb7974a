------------------------------- MODULE Harness ------------------------------
(***************************************************************************)
(* The Sprint 4 harness: one case in six cells, each of the three          *)
(* representations once without and once with the gate.                    *)
(*                                                                         *)
(* A gated attempt goes through everything: the validated handoffs and the *)
(* statuses that have reached the verifier (Fixtures), the evaluation loop *)
(* by loop (CommonGate), reservation, consumption and outcome in a permit  *)
(* store of the cell's own (NeutralPermitStore), and the adapter.  The     *)
(* gate and the adapter are one thread.                                    *)
(***************************************************************************)
EXTENDS Fixtures, Sequences

Cells ==
  << <<"SL", "AUDIT">>, <<"SL", "GATE">>, <<"CR", "AUDIT">>, <<"CR", "GATE">>,
     <<"PR", "AUDIT">>, <<"PR", "GATE">> >>

VARIABLES
  config,    \* the case
  cell,      \* the number of the cell
  step,      \* where the harness is in the cell
  row,       \* what it has noted in the cell
  rows,      \* the rows of the cells that are done
  input, pc, current, chain, index, reasons, decision,
  clock, owner, revision, observations, permits, phase, snapshot, answer, held, acts

harnessVars == <<config, cell, step, row, rows>>
gateVars == <<input, pc, current, chain, index, reasons, decision>>
storeVars == <<clock, owner, revision, observations, permits, phase, snapshot, answer, held, acts>>
vars == <<harnessVars, gateVars, storeVars>>

Gate(action) ==
  INSTANCE CommonGate
    WITH Action <- action, Views <- {}, Statuses <- {Active, Revoked},
         Genuine <- {Active, Revoked}, Issues <- {"EVIDENCE"}, Inputs <- {},
         NoParent <- None, PermitTTL <- 60, ClockSkew <- 0, MaxTime <- DecisionTime

Thread == {"gate", "adapter"}
PermitIds == 1 .. 2

Store ==
  INSTANCE NeutralPermitStore
    WITH Deciders <- {"gate"}, Adapters <- {"adapter"}, Programs <- {Thread},
         PermitIds <- PermitIds, Requests <- {}, ObservationKeys <- {}, Handoffs <- {},
         StoreIds <- {"store.permits"}, StoreIdOf <- [g \in {Thread} |-> "store.permits"],
         NoStore <- "none", PermitTTL <- 60, MaxTime <- DecisionTime, MaxSkew <- 0

Representation == Cells[cell][1]
Gated == Cells[cell][2] = "GATE"

NoRow == [decisions |-> <<>>, attempts |-> <<>>, mutations |-> 0]

NoPermits == [p \in PermitIds |-> Store!NoPermit]
NoActs == [p \in PermitIds |-> 0]

Init ==
  /\ config \in Configs
  /\ cell = 1 /\ step = "validate" /\ row = NoRow /\ rows = <<>>
  /\ input = [views |-> {}] /\ pc = "none" /\ current = None /\ chain = <<>> /\ index = 0
  /\ reasons = {} /\ decision = [verdict |-> "NONE"]
  /\ clock = DecisionTime /\ owner = "none" /\ revision = 0 /\ observations = {}
  /\ permits = NoPermits
  /\ phase = [p \in Thread |-> "closed"]
  /\ snapshot = [d \in {"gate"} |-> Store!NoSnapshot]
  /\ answer = [d \in {"gate"} |-> Store!NoAnswer]
  /\ held = [a \in {"adapter"} |-> Store!NothingHeld]
  /\ acts = NoActs

-----------------------------------------------------------------------------
Go(to) == step' = to /\ UNCHANGED <<config, cell, row, rows>>

\* Both observations are validated, whatever happens then.
Validate ==
  /\ step = "validate"
  /\ row' = [local |-> LocalSummary(config, Representation),
             audit |-> AuditSummary(config, Representation)] @@ NoRow
  /\ step' = IF Gated THEN "open" ELSE "audit"
  /\ UNCHANGED <<config, cell, rows, gateVars, storeVars>>

\* _run_audit_branch: every attempt is submitted.
RunAuditBranch ==
  /\ step = "audit"
  /\ row' = [row EXCEPT !.attempts = [n \in 1 .. config.attempts |-> TRUE]]
  /\ step' = "done"
  /\ UNCHANGED <<config, cell, rows, gateVars, storeVars>>

OpenStore ==
  /\ step = "open"
  /\ Store!Open(Thread)
  /\ Go("present")
  /\ UNCHANGED gateVars

\* prepare_common_gate_input, with a snapshot of the permit store.
Prepare ==
  /\ step = "present"
  /\ Len(row.attempts) < config.attempts
  /\ Store!TakeSnapshot("gate", DecisionTime)
  /\ input' = [views |-> row.local.views, statuses |-> LocalStatuses(config),
               now |-> DecisionTime, barrier |-> "none",
               issues |-> {i \in {"EVIDENCE"} : ~row.local.clean}]
  /\ pc' = "admit"
  /\ current' = None /\ chain' = <<>> /\ index' = 0
  /\ reasons' = {} /\ decision' = [verdict |-> "NONE"]
  /\ Go("evaluate")

Evaluate ==
  /\ step = "evaluate"
  /\ \E action \in Actions : action = ActionOf(config) /\ Gate(action)!Next
  /\ UNCHANGED <<harnessVars, storeVars>>

\* The action is not submitted; the harness goes on with the next attempt.
Refused(why) ==
  /\ row' = [row EXCEPT !.decisions = Append(@, [verdict |-> "PAUSE", reasons |-> why]),
                        !.attempts = Append(@, FALSE)]
  /\ step' = "present"
  /\ UNCHANGED <<config, cell, rows, gateVars>>

PauseOnEvidence ==
  /\ step = "evaluate" /\ pc = "done"
  /\ decision.verdict = "PAUSE"
  /\ Store!Abandon("gate")
  /\ Refused(reasons)

\* What the gate asks the store for.
Request ==
  [tool |-> "simulated-payment-adapter", scope |-> decision.scope, nonce |-> "nonce",
   hash |-> "payment", observations |-> decision.observations, horizon |-> decision.expires]

\* _DeterministicPermitIdFactory; it is asked in every attempt that gets here.
NextPermit == Len(row.decisions) + 1

Authorise ==
  /\ step = "evaluate" /\ pc = "done"
  /\ decision.verdict = "ALLOW"
  /\ Store!Reserve("gate", Request, NextPermit)
  /\ row' = [row EXCEPT !.decisions = Append(@, [verdict |-> "ALLOW", reasons |-> {}])]
  /\ step' = "consume"
  /\ UNCHANGED <<config, cell, rows, gateVars>>

\* The store is the cell's own: it is always there.
RefuseToReserve ==
  /\ step = "evaluate" /\ pc = "done"
  /\ decision.verdict = "ALLOW"
  /\ Store!Pause("gate", Request, NextPermit)
  /\ answer'["gate"].reason # "STATE_UNAVAILABLE"
  /\ Refused({answer'["gate"].reason})

\* Nothing refuses the permit that has just been reserved.
Consume ==
  /\ step = "consume"
  /\ Store!Consume("adapter", Len(row.decisions), Request, DecisionTime)
  /\ Go("submit")
  /\ UNCHANGED gateVars

Submit ==
  /\ step = "submit"
  /\ Store!Act("adapter")
  /\ row' = [row EXCEPT !.attempts = Append(@, TRUE)]
  /\ step' = "finish"
  /\ UNCHANGED <<config, cell, rows, gateVars>>

Finish ==
  /\ step = "finish"
  /\ Store!Finish("adapter", "SUCCEEDED")
  /\ revision' = revision + 1
  /\ Go("present")
  /\ UNCHANGED gateVars

CloseStore ==
  /\ step = "present"
  /\ Len(row.attempts) = config.attempts
  /\ Store!Stop(Thread)
  /\ row' = [row EXCEPT !.mutations = revision]
  /\ step' = "done"
  /\ UNCHANGED <<config, cell, rows, gateVars>>

\* Every cell has a database of its own.
NextCell ==
  /\ step = "done"
  /\ rows' = Append(rows, row)
  /\ row' = NoRow
  /\ cell' = cell + 1
  /\ step' = IF cell = Len(Cells) THEN "summarise" ELSE "validate"
  /\ owner' = "none" /\ revision' = 0 /\ observations' = {} /\ permits' = NoPermits
  /\ acts' = NoActs
  /\ UNCHANGED <<config, gateVars, clock, phase, snapshot, answer, held>>

\* All rows are there.
Summarise == step = "summarise" /\ UNCHANGED vars

Next ==
  \/ Validate \/ RunAuditBranch
  \/ OpenStore \/ Prepare \/ Evaluate \/ PauseOnEvidence \/ Authorise \/ RefuseToReserve
  \/ Consume \/ Submit \/ Finish \/ CloseStore
  \/ NextCell \/ Summarise

Spec == Init /\ [][Next]_vars
-----------------------------------------------------------------------------
(***************************************************************************)
(* Properties.                                                             *)
(***************************************************************************)
Complete == step = "summarise"
Row(r, enforcement) == rows[CHOOSE i \in DOMAIN Cells : Cells[i] = <<r, enforcement>>]
GatedRows == {Row(r, "GATE") : r \in {"SL", "CR", "PR"}}

Allows(r) == Row(r, "GATE").decisions[1].verdict = "ALLOW"

\* The cross reference alone changes nothing in any row, and nothing does if
\* no copy was withheld.  A receipt is in two hands: with one of them the
\* verifier has what the auditor gets, and allows whatever it allows with
\* records, which take both.
RepresentationsCompare ==
  Complete =>
    /\ \A e \in {"AUDIT", "GATE"} :
         /\ Row("SL", e) = Row("CR", e)
         /\ (\A f \in HandoffsOf(config), h \in Roles : ~Withheld(config, f, h))
              => Row("PR", e) = Row("CR", e)
    /\ (\E h \in Roles : ~Withheld(config, Leaf, h))
         => Row("PR", "GATE").local = Row("PR", "GATE").audit
    /\ (\E h \in Roles : Withheld(config, Leaf, h)) /\ ~config.conflicting => ~Allows("CR")
    /\ Allows("CR") => Allows("PR")

\* An action that passed the gate is borne out by the audit: it makes out the
\* same complete chain, unless all that speaks against it was kept from the
\* verifier, and then the audit reports a conflict.
AuditConfirms ==
  Complete =>
    \A r \in GatedRows : (\E n \in DOMAIN r.attempts : r.attempts[n]) =>
      \/ r.audit.clean /\ r.audit.chain = r.local.chain /\ r.local.chain.reason = "OK"
      \/ /\ ~r.audit.clean /\ config.conflicting
         /\ \A h \in Roles : Withheld(config, Leaf, h)

\* Without the gate every attempt is made; with it, what it pauses never
\* reaches the adapter, a second attempt is refused as a replay if the first
\* was allowed and for the same reasons if it was not, and the database has
\* seen the three transitions of one permit or none.
GateLetsOneThrough ==
  Complete =>
    /\ \A r \in {"SL", "CR", "PR"} :
         /\ Row(r, "AUDIT").attempts = [n \in 1 .. config.attempts |-> TRUE]
         /\ Row(r, "AUDIT").mutations = 0
    /\ \A r \in GatedRows :
         /\ DOMAIN r.attempts = 1 .. config.attempts
         /\ \A n \in DOMAIN r.attempts :
              /\ r.attempts[n] <=> r.decisions[n].verdict = "ALLOW"
              /\ n > 1 => r.decisions[n] = IF r.attempts[1]
                   THEN [verdict |-> "PAUSE", reasons |-> {"REPLAY_DETECTED"}]
                   ELSE r.decisions[1]
         /\ r.mutations = IF r.attempts[1] THEN 3 ELSE 0

\* What the gate allows of what was configured: an action within the scope,
\* under a status that has arrived and is the latest, asked for once as far as
\* the verifier can know.
AllowsAsConfigured ==
  Complete =>
    \A r \in {"SL", "CR", "PR"} :
      Allows(r) <=>
        /\ config.action = "IN_SCOPE" /\ config.authority = "ACTIVE_ONLY"
        /\ CASE config.delivery = "COMPLETE" -> ~config.conflicting
             [] config.delivery = "WITHHOLD_LEAF_RECEIVER_LOCAL" -> r = "PR" /\ ~config.conflicting
             [] config.delivery = "WITHHOLD_BOTH_LEAF_LOCAL" -> config.conflicting
             [] config.delivery = "DELAY_ACTIVE_STATUS_LOCAL" -> FALSE
=============================================================================
