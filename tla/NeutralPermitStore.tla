------------------------- MODULE NeutralPermitStore -------------------------
(***************************************************************************)
(* The Sprint 3 permit database and the processes that share it.           *)
(*                                                                         *)
(* Deciders run the authorising half of a gate: take a snapshot of the     *)
(* store, prepare and evaluate a request against it (CommonActionGate,     *)
(* here the constants of a request), and reserve a permit if the store     *)
(* still has the snapshot's revision.  Adapters run the consuming half:    *)
(* consume a permit presented to them, act, and record the outcome.  The   *)
(* program lets one thread do both (harness.py); here they are separate    *)
(* processes, so that a permit may be presented late, twice, to two        *)
(* adapters or never.                                                      *)
(*                                                                         *)
(* Every operation of the store is one BEGIN IMMEDIATE transaction, and an *)
(* action here; SqliteTransactions takes the transactions apart.  A        *)
(* process may stop between any two of them and start again with nothing   *)
(* but the database file.                                                  *)
(***************************************************************************)
EXTENDS Integers, FiniteSets

CONSTANTS
  Deciders,        \* processes that snapshot, evaluate and reserve
  Adapters,        \* processes that consume, act and finish
  Programs,        \* the sets of processes that share one NeutralPermitStore
  PermitIds,       \* what permit_id_factory may return
  Requests,        \* evaluated requests, see RequestType
  ObservationKeys, \* INTERACTION and SENDER_SEQUENCE keys
  Handoffs,        \* neutral handoff identifiers
  StoreIds,        \* permit_store_id values
  StoreIdOf,       \* StoreIdOf[g]: the permit_store_id program g was given
  NoStore,         \* no metadata row yet
  PermitTTL,       \* permit_ttl_seconds
  MaxTime,         \* bound on declared times, which are whole seconds
  MaxSkew          \* how far a process's clock may run ahead of the slowest

Processes == Deciders \cup Adapters
Times == 0 .. MaxTime

Observation == [key : ObservationKeys, handoff : Handoffs]

(***************************************************************************)
(* A request is what evaluate() made of an action and its evidence: the    *)
(* replay key, the hash of the exact action, the bindings of the chain it  *)
(* rests on, and the first instant at which the controlling status or one  *)
(* of the chain's scopes is no longer good.                                *)
(***************************************************************************)
RequestFields == {"tool", "scope", "nonce", "hash", "observations", "horizon"}

ASSUME RequestAssumption ==
  \A r \in Requests :
    /\ DOMAIN r = RequestFields
    /\ r.observations \subseteq Observation
    /\ r.horizon \in Nat

ASSUME ParameterAssumption ==
  /\ PermitTTL \in Nat \ {0}
  /\ MaxTime \in Nat
  /\ MaxSkew \in Nat
  /\ StoreIdOf \in [Programs -> StoreIds]
  /\ UNION Programs = Processes
  /\ \A g, h \in Programs : g # h => g \cap h = {}
  /\ NoStore \notin StoreIds
  /\ Deciders \cap Adapters = {}

ReplayKey(r) == <<r.tool, r.scope, r.nonce>>

SameAction(r, s) == r.tool = s.tool /\ r.hash = s.hash /\ r.nonce = s.nonce

Lifecycle == {"RESERVED", "ATTEMPTED", "SUCCEEDED", "FAILED"}

Permit == [state : Lifecycle, request : Requests, issued : Times, expires : Nat]

NoPermit == [state |-> "ABSENT"]

Tables == [PermitIds -> Permit \cup {NoPermit}]

Snapshot == [revision : Nat, captured : Times, records : Tables,
             observations : SUBSET Observation]

NoSnapshot == [revision |-> -1]

\* What authorize() answered last, and about which request.
Answers == [reason : {"ALLOW", "EXPIRED", "STATE_CHANGED", "CONFLICTING_HANDOFF",
                      "REPLAY_DETECTED", "STATE_UNAVAILABLE"},
            request : Requests]

NoAnswer == [reason |-> "NONE"]

\* A permit in an adapter's hands after a consume() that returned ALLOW: the
\* action presented with it and the time declared to consume().
Holding == [permit : PermitIds, request : Requests, at : Times]

NothingHeld == [permit |-> "NONE"]

-----------------------------------------------------------------------------
VARIABLES
  clock,         \* the slowest clock among the processes
  owner,         \* neutral_store_metadata.permit_store_id
  revision,      \* neutral_store_metadata.revision
  observations,  \* table neutral_observations
  permits,       \* table neutral_permits
  phase,         \* where each process is between two calls
  snapshot,      \* the snapshot a decider has prepared its input from
  answer,        \* the decision a decider has been given
  held,          \* the permit an adapter has consumed
  acts           \* how often an adapter has acted on a permit (history)

tableVars == <<owner, revision, observations, permits>>
deciderVars == <<snapshot, answer>>
vars == <<clock, owner, revision, observations, permits,
          phase, snapshot, answer, held, acts>>

Phases == {"closed", "idle", "prepared", "consumed", "acted"}

TypeOK ==
  /\ clock \in Times
  /\ owner \in StoreIds \cup {NoStore}
  /\ revision \in Nat
  /\ observations \subseteq Observation
  /\ permits \in Tables
  /\ phase \in [Processes -> Phases]
  /\ snapshot \in [Deciders -> Snapshot \cup {NoSnapshot}]
  /\ answer \in [Deciders -> Answers \cup {NoAnswer}]
  /\ held \in [Adapters -> Holding \cup {NothingHeld}]
  /\ acts \in [PermitIds -> Nat]
  /\ \A d \in Deciders : phase[d] = "prepared" => snapshot[d] \in Snapshot
  /\ \A a \in Adapters : phase[a] \in {"consumed", "acted"} => held[a] \in Holding

Present(p) == permits[p].state # "ABSENT"

\* Readings a process may take: its clock is at most MaxSkew ahead.
Readings == {t \in Times : clock <= t /\ t <= clock + MaxSkew}

Init ==
  /\ clock = 0
  /\ owner = NoStore
  /\ revision = 0
  /\ observations = {}
  /\ permits = [p \in PermitIds |-> NoPermit]
  /\ phase = [p \in Processes |-> "closed"]
  /\ snapshot = [d \in Deciders |-> NoSnapshot]
  /\ answer = [d \in Deciders |-> NoAnswer]
  /\ held = [a \in Adapters |-> NothingHeld]
  /\ acts = [p \in PermitIds |-> 0]

-----------------------------------------------------------------------------
(***************************************************************************)
(* Opening and losing a program.  A program is one operating system        *)
(* process; its threads share the store object and live and die together.  *)
(***************************************************************************)

\* Mutant: the metadata row is INSERT OR REPLACEd on every start.
OpenReplacing(g) ==
  /\ \A p \in g : phase[p] = "closed"
  /\ owner \in {NoStore, StoreIdOf[g]}
  /\ owner' = StoreIdOf[g]
  /\ revision' = 0
  /\ phase' = [p \in Processes |-> IF p \in g THEN "idle" ELSE phase[p]]
  /\ UNCHANGED <<clock, observations, permits, deciderVars, held, acts>>

\* Mutant: a start makes interrupted attempts available again.
OpenRecovering(g) ==
  /\ \A p \in g : phase[p] = "closed"
  /\ owner \in {NoStore, StoreIdOf[g]}
  /\ owner' = StoreIdOf[g]
  /\ permits' = [i \in PermitIds |-> IF permits[i].state = "ATTEMPTED"
                                    THEN [permits[i] EXCEPT !.state = "RESERVED"]
                                    ELSE permits[i]]
  /\ phase' = [p \in Processes |-> IF p \in g THEN "idle" ELSE phase[p]]
  /\ UNCHANGED <<clock, revision, observations, deciderVars, held, acts>>

\* __init__: the tables are created when missing, the metadata row is
\* INSERT OR IGNOREd with revision 0, and a file that belongs to another
\* permit_store_id is refused.
Open(g) ==
  /\ \A p \in g : phase[p] = "closed"
  /\ owner \in {NoStore, StoreIdOf[g]}
  /\ owner' = StoreIdOf[g]
  /\ revision' = IF owner = NoStore THEN 0 ELSE revision
  /\ phase' = [p \in Processes |-> IF p \in g THEN "idle" ELSE phase[p]]
  /\ UNCHANGED <<clock, observations, permits, deciderVars, held, acts>>

\* A program stops, or closes its store, wherever its threads are between
\* two calls: only the database file survives.
Stop(g) ==
  /\ \A p \in g : phase[p] # "closed"
  /\ phase' = [p \in Processes |-> IF p \in g THEN "closed" ELSE phase[p]]
  /\ snapshot' = [d \in Deciders |-> IF d \in g THEN NoSnapshot ELSE snapshot[d]]
  /\ answer' = [d \in Deciders |-> IF d \in g THEN NoAnswer ELSE answer[d]]
  /\ held' = [a \in Adapters |-> IF a \in g THEN NothingHeld ELSE held[a]]
  /\ UNCHANGED <<clock, tableVars, acts>>

Tick ==
  /\ clock < MaxTime
  /\ clock' = clock + 1
  /\ UNCHANGED <<tableVars, phase, deciderVars, held, acts>>

-----------------------------------------------------------------------------
(***************************************************************************)
(* Deciders.                                                               *)
(***************************************************************************)

\* snapshot(): one read transaction.  A snapshot that would contain a permit
\* issued after the declared time raises GateError and yields nothing.
TakeSnapshot(d, t) ==
  /\ phase[d] = "idle"
  /\ t \in Readings
  /\ \A p \in PermitIds : Present(p) => permits[p].issued <= t
  /\ snapshot' = [snapshot EXCEPT ![d] =
                    [revision |-> revision, captured |-> t,
                     records |-> permits, observations |-> observations]]
  /\ phase' = [phase EXCEPT ![d] = "prepared"]
  /\ answer' = [answer EXCEPT ![d] = NoAnswer]
  /\ UNCHANGED <<clock, tableVars, held, acts>>

\* Mutant: the horizon of the evidence is left out of the minimum.
ExpiryTTLOnly(r, decided) == decided + PermitTTL

\* evaluate(): the permit lives for the configured seconds from the decision
\* time, but never past the status or a scope it rests on.
Expiry(r, decided) ==
  IF decided + PermitTTL < r.horizon THEN decided + PermitTTL ELSE r.horizon

\* A binding of the request names another handoff than the stored one, or
\* the chain itself binds one key twice.
Conflicts(r) ==
  \E o \in r.observations, s \in observations \cup r.observations :
    s.key = o.key /\ s.handoff # o.handoff

InsertOrIgnore(stored, new) ==
  stored \cup {o \in new : \A s \in stored : s.key # o.key}

\* Mutant: the table lacks UNIQUE (tool_id, replay_scope_id, action_nonce).
DuplicateIdOnly(r, id) == Present(id)

\* The INSERT fails on the primary key or on the unique replay key.
Duplicate(r, id) ==
  \/ Present(id)
  \/ \E p \in PermitIds : Present(p) /\ ReplayKey(permits[p].request) = ReplayKey(r)

\* Mutant: the expected revision is not compared.
ReserveReasonAnyRevision(d, r, id) ==
  IF Expiry(r, snapshot[d].captured) <= snapshot[d].captured THEN "EXPIRED"
  ELSE IF Conflicts(r) THEN "CONFLICTING_HANDOFF"
  ELSE IF Duplicate(r, id) THEN "REPLAY_DETECTED"
  ELSE "ALLOW"

\* What reserve() makes of request r with a permit id from the factory; the
\* checks are made in this order, and the first that fails rolls back.
ReserveReason(d, r, id) ==
  IF Expiry(r, snapshot[d].captured) <= snapshot[d].captured THEN "EXPIRED"
  ELSE IF revision # snapshot[d].revision THEN "STATE_CHANGED"
  ELSE IF Conflicts(r) THEN "CONFLICTING_HANDOFF"
  ELSE IF Duplicate(r, id) THEN "REPLAY_DETECTED"
  ELSE "ALLOW"

\* The caller gets its decision; the next attempt starts with a new snapshot.
Decide(d, reason, r) ==
  /\ answer' = [answer EXCEPT ![d] = [reason |-> reason, request |-> r]]
  /\ snapshot' = [snapshot EXCEPT ![d] = NoSnapshot]
  /\ phase' = [phase EXCEPT ![d] = "idle"]

\* authorize() that reserves: bindings, permit and revision in one commit.
Reserve(d, r, id) ==
  /\ phase[d] = "prepared"
  /\ ReserveReason(d, r, id) = "ALLOW"
  /\ observations' = InsertOrIgnore(observations, r.observations)
  /\ permits' = [permits EXCEPT ![id] =
                   [state |-> "RESERVED", request |-> r,
                    issued |-> snapshot[d].captured,
                    expires |-> Expiry(r, snapshot[d].captured)]]
  /\ revision' = revision + 1
  /\ Decide(d, "ALLOW", r)
  /\ UNCHANGED <<clock, owner, held, acts>>

\* Mutant: the bindings of a refused reservation are committed.
PauseWithoutRollback(d, r, id) ==
  /\ phase[d] = "prepared"
  /\ ReserveReason(d, r, id) # "ALLOW"
  /\ observations' = InsertOrIgnore(observations, r.observations)
  /\ Decide(d, ReserveReason(d, r, id), r)
  /\ UNCHANGED <<clock, owner, revision, permits, held, acts>>

\* authorize() that pauses: rolled back, or the database was unavailable.
Pause(d, r, id) ==
  /\ phase[d] = "prepared"
  /\ \/ /\ ReserveReason(d, r, id) # "ALLOW"
        /\ Decide(d, ReserveReason(d, r, id), r)
     \/ Decide(d, "STATE_UNAVAILABLE", r)
  /\ UNCHANGED <<clock, tableVars, held, acts>>

\* The caller drops the decision, or the input, that it has: the preparer
\* raised, evaluate() paused on the evidence, or the caller went no further.
Abandon(d) ==
  /\ phase[d] \in {"idle", "prepared"}
  /\ snapshot' = [snapshot EXCEPT ![d] = NoSnapshot]
  /\ answer' = [answer EXCEPT ![d] = NoAnswer]
  /\ phase' = [phase EXCEPT ![d] = "idle"]
  /\ UNCHANGED <<clock, tableVars, held, acts>>

-----------------------------------------------------------------------------
(***************************************************************************)
(* Adapters.                                                               *)
(***************************************************************************)

\* consume(): any permit id may be presented with any action; each refusal
\* of the code is a conjunct that fails, and changes nothing.
Consume(a, id, r, now) ==
  /\ phase[a] = "idle"
  /\ now \in Readings
  /\ Present(id)
  /\ SameAction(permits[id].request, r)
  /\ permits[id].state = "RESERVED"
  /\ permits[id].issued <= now
  /\ now < permits[id].expires
  /\ permits' = [permits EXCEPT ![id].state = "ATTEMPTED"]
  /\ revision' = revision + 1
  /\ phase' = [phase EXCEPT ![a] = "consumed"]
  /\ held' = [held EXCEPT ![a] = [permit |-> id, request |-> r, at |-> now]]
  /\ UNCHANGED <<clock, owner, observations, deciderVars, acts>>

\* adapter.submit(): the side effect itself.
Act(a) ==
  /\ phase[a] = "consumed"
  /\ acts' = [acts EXCEPT ![held[a].permit] = @ + 1]
  /\ phase' = [phase EXCEPT ![a] = "acted"]
  /\ UNCHANGED <<clock, tableVars, deciderVars, held>>

\* Mutant: the outcome does not advance the revision.
FinishSameRevision(a, outcome) ==
  /\ phase[a] = "acted"
  /\ permits[held[a].permit].state = "ATTEMPTED"
  /\ permits' = [permits EXCEPT ![held[a].permit].state = outcome]
  /\ phase' = [phase EXCEPT ![a] = "idle"]
  /\ held' = [held EXCEPT ![a] = NothingHeld]
  /\ UNCHANGED <<clock, owner, revision, observations, deciderVars, acts>>

\* finish(): the outcome, from ATTEMPTED only.  The gate turns a database
\* that is unavailable into FALSE, and the caller goes on either way.
Finish(a, outcome) ==
  /\ phase[a] = "acted"
  /\ \/ /\ permits[held[a].permit].state = "ATTEMPTED"
        /\ permits' = [permits EXCEPT ![held[a].permit].state = outcome]
        /\ revision' = revision + 1
     \/ UNCHANGED <<permits, revision>>
  /\ phase' = [phase EXCEPT ![a] = "idle"]
  /\ held' = [held EXCEPT ![a] = NothingHeld]
  /\ UNCHANGED <<clock, owner, observations, deciderVars, acts>>

-----------------------------------------------------------------------------
DeciderStep(d) ==
  \/ \E t \in Times : TakeSnapshot(d, t)
  \/ \E r \in Requests, id \in PermitIds : Reserve(d, r, id) \/ Pause(d, r, id)
  \/ Abandon(d)

AdapterStep(a) ==
  \/ \E id \in PermitIds, r \in Requests, now \in Times : Consume(a, id, r, now)
  \/ Act(a)
  \/ \E outcome \in {"SUCCEEDED", "FAILED"} : Finish(a, outcome)

Next ==
  \/ Tick
  \/ \E g \in Programs : Open(g) \/ Stop(g)
  \/ \E d \in Deciders : DeciderStep(d)
  \/ \E a \in Adapters : AdapterStep(a)

Spec == Init /\ [][Next]_vars

-----------------------------------------------------------------------------
(***************************************************************************)
(* Properties.                                                             *)
(***************************************************************************)

\* However permits are duplicated, presented late or to several adapters,
\* and wherever processes stop, at most one side effect happens for a replay
\* key: not two for one permit, and not one each for two permits.
AtMostOneEffect ==
  \A p, q \in PermitIds :
    /\ acts[p] <= 1
    /\ p # q /\ acts[p] > 0 /\ acts[q] > 0
         => ReplayKey(permits[p].request) # ReplayKey(permits[q].request)

Attempting(a) == phase[a] \in {"consumed", "acted"}

\* Why AtMostOneEffect holds, in a form every step preserves: replay keys are
\* unique; an adapter at work holds a permit nobody else holds, whose row is
\* ATTEMPTED; a permit has been acted on exactly when its holder has acted
\* or its outcome is recorded, and never while it is still RESERVED.
OneAttemptPerPermit ==
  /\ \A p, q \in PermitIds : p # q /\ Present(p) /\ Present(q)
       => ReplayKey(permits[p].request) # ReplayKey(permits[q].request)
  /\ \A a \in Adapters : Attempting(a) =>
       /\ permits[held[a].permit].state = "ATTEMPTED"
       /\ acts[held[a].permit] = IF phase[a] = "acted" THEN 1 ELSE 0
       /\ \A b \in Adapters : Attempting(b) /\ b # a
            => held[b].permit # held[a].permit
  /\ \A p \in PermitIds :
       /\ permits[p].state \in {"ABSENT", "RESERVED"} => acts[p] = 0
       /\ permits[p].state = "ATTEMPTED" => acts[p] \in {0, 1}
       /\ permits[p].state \in {"SUCCEEDED", "FAILED"} => acts[p] = 1

\* An adapter that may act, or has acted without recording the outcome, holds
\* a permit whose attempt is already durable, reserved for the very action it
\* presents, and consumed between the decision and the earliest of the time
\* to live and the horizon of the evidence.
ActingIsCovered ==
  \A a \in Adapters : Attempting(a) =>
    LET row == permits[held[a].permit]
    IN  /\ row.state = "ATTEMPTED"
        /\ SameAction(row.request, held[a].request)
        /\ row.issued <= held[a].at
        /\ held[a].at < row.issued + PermitTTL
        /\ held[a].at < row.request.horizon

\* The revision stands for the content: a decider whose snapshot has the
\* current revision knows the current tables exactly, across restarts and
\* whatever other processes did in between (no ABA).
RevisionNamesContent ==
  \A d \in Deciders : phase[d] = "prepared" =>
    /\ snapshot[d].revision <= revision
    /\ snapshot[d].revision = revision =>
         snapshot[d].records = permits /\ snapshot[d].observations = observations

\* Every reserved chain's bindings are in the store, every binding in the
\* store is one of a reserved chain, and a key has one handoff: so a
\* reservation that was rolled back leaves no binding behind, and no two
\* permits ever rest on conflicting chains.
BindingsAreThoseOfPermits ==
  /\ observations = UNION {permits[p].request.observations :
                             p \in {q \in PermitIds : Present(q)}}
  /\ \A o, s \in observations : o.key = s.key => o.handoff = s.handoff

\* Every committed transition, and nothing else, advances the revision: a
\* decider is told STATE_CHANGED only because another process got its
\* transition in, so refused reservations cannot keep each other out.
RevisionCountsTransitions ==
  LET In(states) == Cardinality({p \in PermitIds : permits[p].state \in states})
  IN  revision = In(Lifecycle) + In(Lifecycle \ {"RESERVED"})
                   + In({"SUCCEEDED", "FAILED"})

\* Of the deciders that compete for one replay key, at most one is allowed;
\* and one that was told REPLAY_DETECTED or CONFLICTING_HANDOFF was told of
\* something that is in the store for good.
AnswersAreTrue ==
  \A d, e \in Deciders :
    /\ answer[d].reason = "ALLOW" /\ answer[e].reason = "ALLOW" /\ d # e
         => ReplayKey(answer[d].request) # ReplayKey(answer[e].request)
    /\ answer[d].reason = "CONFLICTING_HANDOFF" => Conflicts(answer[d].request)
    /\ answer[d].reason = "REPLAY_DETECTED" =>
         \E p \in PermitIds : Duplicate(answer[d].request, p)

\* Everybody who works on the database was set up for the store it belongs to,
\* whoever came first and however often it was opened since.
OneOwner ==
  \A g \in Programs : \A p \in g : phase[p] # "closed" => StoreIdOf[g] = owner

\* Permits enter the store in the order of their decision times, although
\* deciders' clocks differ: no decision is backdated past a stored permit.
ReservedInTimeOrder ==
  [][\A p, q \in PermitIds : ~Present(p) /\ Present(p)' /\ Present(q)
       => permits[q].issued <= permits'[p].issued]_permits

-----------------------------------------------------------------------------
(***************************************************************************)
(* The store implements the ledger.                                        *)
(***************************************************************************)
Keys == {ReplayKey(r) : r \in Requests}

PermitsFor(k) ==
  {p \in PermitIds : Present(p) /\ ReplayKey(permits[p].request) = k}

LedgerEntry ==
  [k \in Keys |-> IF PermitsFor(k) = {} THEN "FREE"
                  ELSE permits[CHOOSE p \in PermitsFor(k) : TRUE].state]

LedgerPerformed == [k \in Keys |-> \E p \in PermitsFor(k) : acts[p] > 0]

Ledger == INSTANCE PermitLedger WITH
            ReplayKeys <- Keys, entry <- LedgerEntry, performed <- LedgerPerformed

\* Reservations, attempts, side effects and outcomes of this store are those
\* the one-attempt ledger allows.
ImplementsLedger == Ledger!Spec
=============================================================================
