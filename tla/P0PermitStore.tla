--------------------------- MODULE P0PermitStore ---------------------------
(***************************************************************************)
(* The P0 prototype at work: the key registry, ActionGate and its store    *)
(* (KeyRegistry, ActionGate, PermitStore), called by several processes.    *)
(*                                                                         *)
(* It differs from NeutralPermitStore in three ways.  There is no          *)
(* snapshot: authorize() judges the receipts it is handed and reserves in  *)
(* one BEGIN IMMEDIATE transaction, so there is no revision to compare and *)
(* no order between decision times.  consume() does not compare the time   *)
(* with issued_at.  And a permit is not cut short where the authority      *)
(* status goes stale.                                                      *)
(*                                                                         *)
(* Callers declare the time of each call, in any order.                    *)
(***************************************************************************)
EXTENDS P0Gate, FiniteSets

CONSTANTS
  Adapters,        \* processes that consume, act and finish
  PermitIds,       \* random permit ids
  Keys,            \* keys that may be registered
  FirstKeys,       \* those registered before the first call
  Receipts,        \* receipts that may be presented
  Statuses,        \* authority status statements that may be presented
  Actions,         \* exact actions
  Tools,           \* tool ids
  PermitTTL,       \* permit_ttl_seconds
  MaxTime          \* bound on declared times

Times == 0 .. MaxTime

\* The calls of authorize(): any receipts in any order, with any statement.
Requests ==
  [chain : UNION {[1 .. n -> Receipts] : n \in 0 .. 3}, status : Statuses,
   action : Actions, tool : Tools]

ASSUME P0KeyAssumption ==
  /\ \A k \in Keys : DOMAIN k = {"key", "principal", "public", "roles"} /\ k.roles \subseteq Roles
  /\ FirstKeys \subseteq Keys
  /\ \A k, l \in FirstKeys : k.key = l.key => k = l

(***************************************************************************)
(* Receipts and statements have the fields that the schema asks for, with  *)
(* whole seconds for times; what else may be wrong with one is its fault.  *)
(***************************************************************************)
ReceiptFields ==
  {"id", "interaction", "sender", "receiver", "type", "sequence", "previous", "scope",
   "lineage", "version", "status", "created", "decided", "hash", "faults", "answer",
   "sentBy", "receivedBy"}

ASSUME P0EvidenceAssumption ==
  /\ \A r \in Receipts :
       /\ DOMAIN r = ReceiptFields
       /\ r.interaction # NoParent
       /\ {r.created, r.decided, r.scope.from, r.scope.until} \subseteq Nat
  /\ \A s \in Statuses :
       /\ s.state \in {"ACTIVE", "REVOKED"}
       /\ {s.version, s.issued, s.fresh} \subseteq Nat
  /\ \A a, b \in Actions : a.hash = b.hash => a = b

ASSUME P0ParameterAssumption == PermitTTL \in Nat \ {0} /\ MaxTime \in Nat

Observation == UNION {Observations(r) : r \in Requests}
Lifecycle == {"RESERVED", "ATTEMPTED", "SUCCEEDED", "FAILED"}
Permit == [state : Lifecycle, request : Requests, issued : Times, expires : Nat]
NoPermit == [state |-> "ABSENT"]
Holding == [permit : PermitIds, tool : Tools, action : Actions, at : Times]
NothingHeld == [permit |-> "NONE"]

VARIABLES
  registry,      \* KeyRegistry._keys
  observations,  \* table observations
  permits,       \* table permits
  phase,         \* where an adapter is
  held,          \* the permit it has consumed
  acts           \* how often a permit has been acted on (history)

vars == <<registry, observations, permits, phase, held, acts>>

TypeOK ==
  /\ registry \subseteq Keys
  /\ observations \subseteq Observation
  /\ permits \in [PermitIds -> Permit \cup {NoPermit}]
  /\ phase \in [Adapters -> {"idle", "consumed", "acted"}]
  /\ held \in [Adapters -> Holding \cup {NothingHeld}]
  /\ acts \in [PermitIds -> Nat]
  /\ \A a \in Adapters : phase[a] # "idle" <=> held[a] \in Holding

Present(p) == permits[p].state # "ABSENT"

Init ==
  /\ registry = FirstKeys
  /\ observations = {}
  /\ permits = [p \in PermitIds |-> NoPermit]
  /\ phase = [a \in Adapters |-> "idle"]
  /\ held = [a \in Adapters |-> NothingHeld]
  /\ acts = [p \in PermitIds |-> 0]

\* Mutant: the latest registration of a key id counts.
AddKeyReplacing(k) ==
  /\ registry' = {e \in registry : e.key # k.key} \cup {k}
  /\ UNCHANGED <<observations, permits, phase, held, acts>>

\* KeyRegistry.add() refuses another owner, key or role for an id it knows.
AddKey(k) ==
  /\ \A e \in registry : e.key = k.key => e = k
  /\ registry' = registry \cup {k}
  /\ UNCHANGED <<observations, permits, phase, held, acts>>

\* Mutant: the permit may be used for the configured seconds in any case.
ExpiryTTLOnly(r, now) == now + PermitTTL

\* The permit ends with the earliest scope, but not with the status.
Expiry(r, now) == IF now + PermitTTL < ScopesEnd(r) THEN now + PermitTTL ELSE ScopesEnd(r)

\* Mutant: two handoffs of one chain may share an interaction.
ConflictsWithTable(r) ==
  \E o \in Observations(r), s \in observations : s.key = o.key /\ s.receipt # o.receipt

\* A receipt of the chain re-uses an interaction or a sender sequence that
\* the store, or the chain itself, has bound to another receipt.
Conflicts(r) ==
  \E o \in Observations(r), s \in observations \cup Observations(r) :
    s.key = o.key /\ s.receipt # o.receipt

Duplicate(r, id) ==
  \/ Present(id)
  \/ \E p \in PermitIds : Present(p) /\ ReplayKey(permits[p].request) = ReplayKey(r)

Reserved(r, now) ==
  [state |-> "RESERVED", request |-> r, issued |-> now, expires |-> Expiry(r, now)]

\* Mutant: the bindings are replaced instead of compared.
AuthorizeRebinding(r, id, now) ==
  /\ Reasons(registry, r, now) = {}
  /\ ~Duplicate(r, id)
  /\ observations' = Observations(r) \cup
       {s \in observations : \A o \in Observations(r) : o.key # s.key}
  /\ permits' = [permits EXCEPT ![id] = Reserved(r, now)]
  /\ UNCHANGED <<registry, phase, held, acts>>

\* authorize() that answers ALLOW.  Everything that makes it answer PAUSE is
\* rolled back and changes nothing.
Authorize(r, id, now) ==
  /\ Reasons(registry, r, now) = {}
  /\ ~Conflicts(r)
  /\ ~Duplicate(r, id)
  /\ observations' = observations \cup Observations(r)
  /\ permits' = [permits EXCEPT ![id] = Reserved(r, now)]
  /\ UNCHANGED <<registry, phase, held, acts>>

\* consume(): each refusal of the code is a conjunct that fails.
Consume(a, id, tool, action, now) ==
  /\ phase[a] = "idle"
  /\ Present(id)
  /\ permits[id].request.tool = tool
  /\ permits[id].request.action = action
  /\ permits[id].state = "RESERVED"
  /\ now < permits[id].expires
  /\ permits' = [permits EXCEPT ![id].state = "ATTEMPTED"]
  /\ phase' = [phase EXCEPT ![a] = "consumed"]
  /\ held' = [held EXCEPT ![a] = [permit |-> id, tool |-> tool, action |-> action, at |-> now]]
  /\ UNCHANGED <<registry, observations, acts>>

\* The side effect, by the caller of consume().
Act(a) ==
  /\ phase[a] = "consumed"
  /\ acts' = [acts EXCEPT ![held[a].permit] = @ + 1]
  /\ phase' = [phase EXCEPT ![a] = "acted"]
  /\ UNCHANGED <<registry, observations, permits, held>>

\* finish(): the update touches a row that is still ATTEMPTED, or raises.
Finish(a, outcome) ==
  /\ phase[a] = "acted"
  /\ \/ /\ permits[held[a].permit].state = "ATTEMPTED"
        /\ permits' = [permits EXCEPT ![held[a].permit].state = outcome]
     \/ UNCHANGED permits
  /\ phase' = [phase EXCEPT ![a] = "idle"]
  /\ held' = [held EXCEPT ![a] = NothingHeld]
  /\ UNCHANGED <<registry, observations, acts>>

\* Mutant: a permit whose adapter died is put back.
CrashReleasing(a) ==
  /\ phase[a] # "idle"
  /\ permits' = [permits EXCEPT ![held[a].permit].state = "RESERVED"]
  /\ phase' = [phase EXCEPT ![a] = "idle"]
  /\ held' = [held EXCEPT ![a] = NothingHeld]
  /\ UNCHANGED <<registry, observations, acts>>

\* The adapter's process dies after its consume() and starts again.
Crash(a) ==
  /\ phase[a] # "idle"
  /\ phase' = [phase EXCEPT ![a] = "idle"]
  /\ held' = [held EXCEPT ![a] = NothingHeld]
  /\ UNCHANGED <<registry, observations, permits, acts>>

\* The calls that pass if every key is registered.  The others are refused
\* whatever the registry holds, and need not be tried.
Presentable == {c \in Requests \X Times : Reasons(Keys, c[1], c[2]) = {}}

Next ==
  \/ \E k \in Keys : AddKey(k)
  \/ \E c \in Presentable, id \in PermitIds : Authorize(c[1], id, c[2])
  \/ \E a \in Adapters :
       \/ \E id \in PermitIds, tool \in Tools, action \in Actions, now \in Times :
            Consume(a, id, tool, action, now)
       \/ Act(a) \/ Crash(a)
       \/ \E outcome \in {"SUCCEEDED", "FAILED"} : Finish(a, outcome)

Spec == Init /\ [][Next]_vars

-----------------------------------------------------------------------------
\* An adapter at work has an attempt on record, for the action it presents,
\* begun before the earliest scope ended, and no later than the time to live
\* after the last instant at which the authority status was fresh: P0 permits
\* outlive the status, by less than that.
ActingIsCovered ==
  \A a \in Adapters : phase[a] # "idle" =>
    LET row == permits[held[a].permit]
    IN  /\ row.state = "ATTEMPTED"
        /\ row.request.tool = held[a].tool /\ row.request.action = held[a].action
        /\ \A i \in DOMAIN row.request.chain : held[a].at < row.request.chain[i].scope.until
        /\ held[a].at + 1 < row.request.status.fresh + PermitTTL

\* The store's bindings are those of its permits, one receipt to a key: no two
\* permits rest on conflicting chains.
BindingsAreThoseOfPermits ==
  /\ observations = UNION {Observations(permits[p].request) : p \in {q \in PermitIds : Present(q)}}
  /\ \A o, s \in observations : o.key = s.key => o.receipt = s.receipt

\* A permit never comes to rest on a key that is not trusted: whatever was
\* registered since, authorize() would judge the same call at the same time
\* as it did when the permit was issued.
PermitsStayJustified ==
  \A p \in PermitIds : Present(p) =>
    Reasons(registry, permits[p].request, permits[p].issued) = {}

(***************************************************************************)
(* The same chain as the gate of Sprint 3 would be given it: a set of      *)
(* handoffs that name their parent's interaction.                          *)
(***************************************************************************)
Sprint3(action) ==
  INSTANCE Authority WITH Action <- action, ClockSkew <- 0

ViewsOf(chain) ==
  {[chain[i] EXCEPT !.previous = IF i = 1 THEN NoParent ELSE chain[i - 1].interaction] :
     i \in DOMAIN chain}

\* The gates of P0 and of Sprint 3 allow alike: a chain that P0 has reserved
\* for, Sprint 3 accepts at the same time, if no handoff before the last asks
\* for an action and all of them refer to the status that was presented.
AllowsAsSprint3 ==
  \A p \in PermitIds : Present(p) =>
    LET call == permits[p].request
    IN  /\ \A i \in 1 .. Len(call.chain) - 1 : call.chain[i].type = "delegation"
        /\ \A i \in DOMAIN call.chain : call.chain[i].status = call.status.id
        => Sprint3(call.action)!Acceptable(ViewsOf(call.chain), {call.status}, permits[p].issued)

ReplayKeys ==
  Tools \X {<<r.lineage, r.version>> : r \in Receipts} \X {a.nonce : a \in Actions}

PermitsFor(k) ==
  {p \in PermitIds : Present(p) /\ ReplayKey(permits[p].request) = k}

LedgerEntry ==
  [k \in ReplayKeys |-> IF PermitsFor(k) = {} THEN "FREE"
                        ELSE permits[CHOOSE p \in PermitsFor(k) : TRUE].state]

LedgerPerformed == [k \in ReplayKeys |-> \E p \in PermitsFor(k) : acts[p] > 0]

Ledger == INSTANCE PermitLedger WITH entry <- LedgerEntry, performed <- LedgerPerformed

\* The P0 store, too, implements the one-attempt ledger.
ImplementsLedger == Ledger!Spec
=============================================================================
