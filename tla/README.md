# CrossTrace in TLA+

CrossTrace is a sketch of a protocol for delegated actions. Handoffs between
agents leave signed evidence; a local gate judges the evidence for one exact
action and, if everything is in order, reserves a short-lived permit in a local
SQLite database; an adapter consumes the permit, performs the action, and
records the outcome. This directory holds TLA+ modules of the parts of it that
are hard to test, the TLC configurations that check them on small instances,
and TLAPS proofs that hold for every instance.

Paths below are relative to the repository, under `src/`.

- [Inventory](#inventory)
- [Plan](#plan)
- [The modules](#the-modules)
- [What the runs check](#what-the-runs-check)
- [Bounds](#bounds)
- [Fairness](#fairness)
- [What is proved](#what-is-proved)
- [What is only model-checked, and what is not modelled](#what-is-only-model-checked-and-what-is-not-modelled)
- [Running it](#running-it)

## Inventory

### Parts that keep state or run concurrently

**Sprint 3 permit store** (`preaward/crosstrace_sprint3/permit.py`). State: one
SQLite file in WAL mode with the tables `neutral_store_metadata` (the
`permit_store_id` and a revision), `neutral_observations` (which handoff an
interaction, or a sender's sequence number, was bound to) and `neutral_permits`
(RESERVED, ATTEMPTED, SUCCEEDED, FAILED; unique by permit id and by tool,
replay scope and nonce). In each program that opens the file: one connection
and one `_lock` that its threads share. Operations: opening, `snapshot`,
`reserve`, `consume`, `finish`, `close`. Interaction: other programs may have
the same file open, and any of them may die between two statements.
*Hard:* snapshot and reserve are two transactions with an evaluation in between;
partial work must be rolled back on each of the early returns; a lock and a write
lock are nested; everything must survive a kill.
*Correct when:* one replay key is attempted at most once whatever is repeated or
dies; a reservation rests on the state it was judged against; a binding, once
made, is never contradicted; no call leaves a transaction or a lock behind; each
method is atomic.

**Sprint 3 gate** (`preaward/crosstrace_sprint3/gate.py`, `model.py`). State:
none but the store. Operations: `NeutralGateInputPreparer.prepare` (captures a
snapshot at a declared decision time and fixes the evidence), `evaluate` (pure),
`authorize` (evaluate, then reserve), `consume`, `finish`. Interaction: reads
validated handoffs of Sprint 2, calls the store.
*Hard:* the decision is as old as the snapshot; the chain is found among
duplicates, forks, cycles and missing parents; the highest status version must
decide whatever the order of arrival; a database error is turned into an answer.
*Correct when:* a permit that is acted on is covered by time to live, status and
scopes; the verdict does not depend on the order of the evidence; ALLOW is given
only to a chain from the leaf to the root that narrows at every step.

**P0 gate, key registry and permit store** (`src/crosstrace_sketch/protocol.py`,
`KeyRegistry`, `ActionGate`, `PermitStore`). State: the registered keys; tables
`observations` and `permits`. Operations: `KeyRegistry.add`; `authorize` (verify
receipts, chain, status, times and action, then reserve in one transaction),
`consume`, `finish`. Callers: `demo.py`, `pilot/baselines.py`.
*Hard:* the same as above without snapshots; keys are registered while permits are
about; the chain comes in order, so that the checks differ from those of Sprint 3.
*Correct when:* it too makes one attempt per replay key; what a permit was issued on
stays trusted; it allows what the later gate would allow.

**Sprint 1 delivery** (`preaward/crosstrace_sprint1/delivery.py`). State: none at
run time; it compiles a declared plan of messages, drops, duplicates, delays and
partitions into an immutable schedule, and projects it to what each endpoint
(`project_local`) or an auditor (`project_audit`) has received by a cutoff.
*Hard:* partition windows that push a release into the next window; copies;
ties. *Correct when:* no copy is released inside a partition that holds it, what
is projected at one cutoff is contained in what is projected at a later one, and
nothing is delivered that was not sent.

**Sprint 2 evidence validation** (`preaward/crosstrace_sprint2/validation.py`,
`model.py`). State: none; a pure function of the envelopes delivered by a
cutoff. It recognises the same handoff in three representations (endpoint
records, cross-referenced records, one receipt), attributes statements to
principals and emits validated handoffs.
Its last stage judges every candidate handoff by its parents: one loop
finds circles, another remembers verdicts on the way.
*Hard:* duplicates, equivocation, circular and missing parents; the loop that
judges has no test for circles of its own.
*Correct when:* the report is independent of arrival order and of the order of
the loops, validation ends, and a handoff is refused exactly if it is bad itself
or hangs on one that is.

**Sprint 4 harness** (`preaward/crosstrace_sprint4/harness.py`, `chain.py`,
`encoding.py`, `fixtures.py`, `model.py`). State: one store per gated cell, and the
rows of the cells that are done. For each of six cells (three representations, with
the gate or only observed) it plays one fixture: encode, deliver to verifier and
auditor, validate both, assemble the chain, and in the gated cells snapshot,
authorize, consume, submit, finish, as often as the fixture says.
*Hard:* the cells must see the same facts; a withheld copy means something
else in each representation; the audit judges with evidence that the gate did not have.
*Correct when:* the representations differ only where a copy was withheld, what the
gate allowed is borne out by the audit or reported as a conflict, and each gated cell
attempts the action once.

### Parts that are pure computation or input and output

**P0 receipts and signatures** (`protocol.py`): canonical JSON, Ed25519, field
validation. **Sprint 4 release and verifier** (`runner.py`, `verify.py`): files,
checksums, JSON schemas. **Pilot and demo**
(`src/crosstrace_sketch/pilot/`, `demo.py`): scenarios, scoring, reports.

`PROJECT.json` lists every part with its status, and under `hazards` each place
in the code where something can go wrong that a test would hardly reach, with
the property that covers it.

## Plan

In order of what matters most to the system:

1. **Permit store** (done). `PermitLedger` says what any permit store promises;
   `NeutralPermitStore` is the Sprint 3 store and its users with one step per
   transaction; `SqliteTransactions` takes the transactions apart and refines
   it; `P0PermitStore` is the older store, refining the same ledger.
   `NeutralPermitStoreProofs` and `SqliteTransactionsProofs` prove everything that
   is safety about them, refinements included.
2. **Judging a chain** (done). `CommonGate` is `evaluate`, checked
   against a definition that says what a good chain is without walking (`Authority`);
   `HandoffRelations` is the last stage of the validator, checked against a
   definition of well-founded handoffs; `PreparedGate` runs one on what the other
   leaves. `CommonGateProofs` and `HandoffRelationsProofs` prove what holds for
   chains and graphs of any size.
3. **Delivery** (done). `BufferingNetwork` says what observers are promised;
   `DeliverySchedule` is the compiler and the projections, shown to implement it.
   `DeliveryScheduleProofs` proves all of it.
4. **EvidenceValidation** (done). The stages that make candidates of endpoint
   records, cross-referenced records and receipts, checked against a definition of what
   the evidence agrees on, and against each other: the three representations of the same
   facts leave the same candidates. `EvidenceValidationProofs` proves both.
5. **Composition** (done). `GateSystem` has several verifiers, each with evidence
   that reaches it at times of its own, on one permit database; `GateSystemProofs` shows
   that they are users of NeutralPermitStore and proves what they come to together.
6. **P0 gate** (done). `P0Gate` has the checks, `P0PermitStore` the registry and
   the store; `P0PermitStoreProofs` proves its safety properties and its refinement.
7. **Harness** (done). `Fixtures` builds and encodes a case, `StrictChain` is the
   auditor's, and `Harness` drives all other modules through the six cells.

Theorems still worth proving: for EvidenceValidation, that the representations
agree; for CommonGate, that the auditor sees the gate's chain.

## The modules

| module | what it is | lines of the code |
| --- | --- | --- |
| `PermitLedger` | abstract: a replay key is free, reserved, attempted, closed; its effect happens once, after the attempt | `docs/PROTOCOL.md`, and the comments of both stores |
| `NeutralPermitStore` | Sprint 3 store, deciders and adapters; a method is a step | `permit.py` 60-431, `gate.py` 702-916 |
| `SqliteTransactions` | the same methods by statements, with locks, transactions, errors, kills | `permit.py` 60-431 |
| `P0Gate` | the checks of the P0 gate: receipts under registered keys, chain, status, times, action | `protocol.py` 585-595, 796-1143 |
| `P0PermitStore` | the P0 registry, gate and store at work, with adapters | `protocol.py` 566-583, 637-790, 1000-1199 |
| `Authority` | the comparisons a gate is built from, and what an acceptable chain is | `gate.py` 358-378, 506-516, 576-584, 642-652 |
| `CommonGate` | `evaluate`: leaf, walk to the root, judgement of chain, handoffs, status | `gate.py` 266-772 |
| `HandoffRelations` | the validator's circles and verdicts | `validation.py` 1010-1200 |
| `EvidenceValidation` | `validate_observation`: admission of messages, sequence numbers, judgement in each representation, parents of receipts, report; called again and again | `validation.py` 57-122, 298-1007, 1133-1275, `model.py` 325-513 |
| `GateSystem` | verifiers with evidence of their own on one permit database, and adapters | `gate.py` 449-862, `validation.py` 889-943, 1043-1093 |
| `StrictChain` | the auditor's chain | `chain.py` 43-101 |
| `Fixtures` | cases, their encoding and delivery, summaries of both observations | `fixtures.py`, `encoding.py`, `chain.py` 15-40 |
| `Harness` | the six cells, with gate and store in the gated ones | `harness.py` 46-289 |
| `PreparedGate` | validator, preparation and gate, one after the other | `validation.py` 1133-1200, `gate.py` 266-355 |
| `BufferingNetwork` | abstract: links that close and buffer, inboxes that grow at their ends | the comments of `delivery.py` |
| `DeliverySchedule` | compiling a schedule, projecting it, unique evidence | `delivery.py` 421-693, 1175-1182, 1332-1764 |
| `NeutralPermitStoreProofs`, `SqliteTransactionsProofs`, `P0PermitStoreProofs`, `CommonGateProofs`, `HandoffRelationsProofs`, `EvidenceValidationProofs`, `DeliveryScheduleProofs`, `GateSystemProofs` | theorems and proofs | |
| `MC...` | requests, handoffs, statuses, symmetry and program layouts for TLC | |

### NeutralPermitStore

A *program* is an operating system process with one store object; its threads
live and die together, and `Programs` partitions the processes. A *decider* is a
thread that authorises: it takes a snapshot (`TakeSnapshot`), evaluates and
reserves (`Reserve`, `Pause`), or goes no further (`Abandon`). An *adapter* is
handed any permit id with any action (`Consume`), performs it (`Act`) and records
the outcome (`Finish`). In the code one thread may do both; as two processes they
produce all of its runs, and those where the permit reaches the adapter
late, twice or never. `Open` is the constructor of the store, `Stop` both
`close()` and the death of the program: either way only the database survives.

`clock` is the slowest clock, and a process may read up to `MaxSkew` more.
Times are declared by callers in this code; the clock only keeps those of
one run in a sensible order. Three facts that the model relies on:

- What `evaluate` judged is a *request*: replay key, action hash, bindings, and
  the *horizon*, the first instant at which the controlling status is stale or a
  scope has ended (`gate.py` 718-731 takes the minimum of these and the time to
  live). How evaluate arrives at ALLOW is the subject of `CommonGate`.
- An input that is passed to `authorize` a second time adds nothing: after ALLOW
  the revision has moved and the answer is STATE_CHANGED; after a pause nothing
  has changed. A decider therefore drops its snapshot with the answer.
- A refusal by `consume` changes nothing and gives the caller nothing, so it is
  the absence of a step. Refusals of `reserve` are steps, because their reason is
  told and `AnswersAreTrue` speaks about it.

`held`, `answer`, and `acts` record what callers know and have done; `acts` is a
history variable that no guard reads.

### SqliteTransactions

Every statement between `with self._lock` and its end is an action. SQLite is
external and is modelled from how the store uses it: `BEGIN IMMEDIATE` takes the
single write lock or raises after the busy timeout (`Busy`), a deferred `BEGIN`
pins the state its first SELECT reads, COMMIT replaces the committed state, a
connection that goes away loses what it had not committed. `DatabaseError` is
possible at any statement, `Kill` anywhere. The branches that test `rowcount`
after an UPDATE (`permit.py` 303, 371, 377) cannot be taken under the write lock
and are left out. A COMMIT that raises although it became durable is not
modelled: for SQLite this needs an I/O error between the two.

The refinement mapping makes each method happen at one instant: a snapshot when
its transaction pins the state, unless it is going to be refused; everything
else at its COMMIT, or at the rollback. `MaxSkew <- MaxTime, clock <- 0`: here
times are in any order at all.

### P0Gate and P0PermitStore

`P0Gate` has no state: `Reasons` is everything `authorize()` has against a call
before it turns to the store, in the order of the code only where an early return
makes the order matter. A signature is the public key under which it verifies, and a
content id is a name. What is wrong with a receipt in itself is in its faults; what
depends on the keys that are registered at the time is not.

In `P0PermitStore`, `Authorize` is `ActionGate.authorize` when it answers ALLOW, with
the order of `PermitStore.reserve`; all else rolls back. There is no revision because
the gate has no snapshot. An authorisation is one transaction and the process
that asked keeps nothing but the permit id, so only adapters have a state. `AddKey` may
happen at any time. A call is any sequence of up to three receipts, any statement
and any action; `Presentable` leaves out those that no registry would let pass.

### PermitLedger

Both stores implement it under the same mapping: the entry of a key is the state
of the one permit that carries it.

### CommonGate

`evaluate` is one call, so its steps are the rounds of its loops, and only what
survives from round to round is a variable: `current` and `chain` of the walk (the
leaf first, as `reverse_chain` in the code), `index` of the loop over the chain,
`reasons`. A *view* is a handoff with what the gate looks at: parties, type,
parent, scope, authority lineage and version, the status it refers to, three
times, and the faults that `evaluate_common_evidence_policy` (Sprint 2
`model.py`) finds in it. A scope's targets are a set of (operation, resource,
currency), its limit an amount. A *status* is one revocation statement of a
lineage with a version. The input is a set, because `prepare` sorts views and
statuses by their ids and the constructor refuses duplicates; so nothing
can depend on the order of arrival past this point.

`evaluate` does not rely on its input having been validated, and neither does
the module: circles, forks and gaps are inputs although the validator leaves none
of the first two (`PreparedGate` shows which). Three checks in the code cannot
fail and are left out: LEAF_NOT_ACTION_INTENT and REQUEST_HASH_MISMATCH repeat how
the leaf was chosen, and an end of the permit at or before the decision time is
excluded by EXPIRED and STATUS_STALE before it is computed. So is the overflow of
a date (INTERNAL_ERROR). Because of `input.barrier` the model also
answers for the wrong store, a tool that is not authorised, and an action that
does not parse.

### GateSystem

NeutralPermitStore lets a decider ask for anything; here it asks for what it has
judged. `delivery` says when each handoff and statement reaches each verifier, and
`Reached` is what is there at the time of the snapshot, which `prepare` requires to be
the decision time. `Rests` is the definition in `Authority` that the run `gate` shows
`evaluate` to agree with. A verifier that sees an equivocation or a
handoff without its parent pauses, since either is an issue of its observation;
one that sees half of it does not. Deliveries are chosen at the start and
fixed, which is any network. That all gates put the same question, one action, is no
loss: different actions have different nonces and do not meet.

### StrictChain, Fixtures and Harness

A fixture is a record of five choices, and `Configs` has all sixty-four, of which the
manifest of the repository names eight. `Fixtures` makes of it handoffs,
statements and messages, delivers them to the verifier and the auditor, and gives
each delivered set to the definitions of EvidenceValidation that say what the validator
makes of it (run `evidence` shows that its loops do). `Harness` then goes from cell to
cell as `run_matrix` does; in a gated cell its steps are those of CommonGate and
NeutralPermitStore, whose variables it shares (`INSTANCE`). Permit ids come from a
counter, as in the harness. Times are seconds and are all fixed by the fixture.
Rows hold what the properties compare; hashes and sizes are left out, and what
`compute_invariance` compares by them is stated by `RepresentationsCompare` and
`GateLetsOneThrough` about the rows themselves.

### HandoffRelations

A candidate is a view again, under its interaction. Candidates are any
function from interactions to handoffs, so the parent relation is any graph in
which everything has at most one parent. `Walk` and `EndWalk` are `_cycle_nodes`;
`Ask`, `JudgeAlone`, `Descend`, `Ascend` and `Answer` are `relation_failure` and
the loop that calls it, with `path` for `chain` and `memo` for `relation_memo`.
The code goes through sorted interactions; the model starts anywhere, and what it
shows holds for any order. `invalid` are the interactions of which evidence
arrived that made no candidate.

### EvidenceValidation

The three representations differ in what they sign and so in how the code judges them:
`EndpointVerdict` serves endpoint records and cross-referenced ones, `ReceiptVerdict`
receipts, whose parents are named by receipt and are resolved in a loop of their own
(`Resolve`, `Orphan`). A message is read in one step, `Admit` or `Refuse`; its *flaw*
is what parsing it or the key registry has against it, and of several reasons the first
counts, as in the code. An interaction of which a record was admitted is judged in one
step. Messages and interactions come in any order, where the code sorts both.
The last stages, circles and verdicts, are HandoffRelations: `Emit` takes both loops in
one step. Three theorems justify that: `LoopsGetAGraph`, that the loops are given what
HandoffRelations starts from; `RelationsEnd`, that they end; and `OneReport`, that
then they have validated and reported what `Emit` does.

Identifiers of records and receipts are hashes of all they contain, so a record is its
own identifier. In issues the ids of source messages are left out.

Calls share nothing. An observer makes them nevertheless one after the other, with
more messages (`Deliver`) and later cutoffs (`Wait`), since the interesting question is
what a later report may say that an earlier one did not. `last` remembers the
previous report for that; no guard reads it.

Three facts about the code that the model shows:

- FUTURE_DECISION (`validation.py` 450, 863) is never reported: a message
  decided later than its sending is TEMPORAL_INCONSISTENCY before, and nothing is
  delivered by the cutoff that was sent after it.
- ENDPOINT_MISSING, PARENT_MISSING and PARENT_INVALID are provisional. Equivocation,
  a violation of the profile, a mismatch and a wrong cross reference are final: no
  further evidence mends them.
- A receipt whose sender is also its receiver passes `_parse_p0_receipt`, but
  `NeutralHandoff.from_dict` raises on it (`validation.py` 970), so that one such
  receipt, signed by a registered party, leaves the observer without any report
  (`Raise`). Endpoint records of that kind are refused when they are parsed.

### PreparedGate

The validator's candidates are the gate's views. `Prepare` hands over exactly the
validated handoffs and every issue; `gate.py` 310 turns each into a reason to
pause. The validator has refused evidence that was decided after its cutoff
before there are candidates, which is the one fact about earlier stages that
`Prepare` uses.

### DeliverySchedule

The compiler is deterministic: what it draws is a hash of the seed, the slot, the
copy and a label. Over all seeds every outcome that the rates admit is possible,
so a draw is a choice, and a policy holds the *possible outcomes* of its two rates.
A message is its slot, its link and the time it was sent; slots are numbered as
their identifiers sort. The transmission id is a hash, so it sorts copies in an
order that has nothing to do with slots or copies: the constant `Rank`.
`readyAt`, the time of departure, is kept in each scheduled copy for the properties.

One turn of each loop is an action: `NextMessage`; `Withhold`, `FollowOverride` and
`DrawLoss` for a copy; `Hold` and `Release` for a partition that holds it back or
none that does. `Compiled` includes the constructor of DeliverySchedule, which
computes the transmissions again and compares: they are the same, because all
draws are. The `raise` at the end of `_partition_release` is no action; the theorem
`Settles` shows that nothing leads to it. Overflowing dates are left out.

`Project` lets the cutoff of `project_local` and `project_audit` run through all
seconds. The code has no clock here, and the refinement makes one of the cutoff: what
is projected at a cutoff is the inbox of a network whose clock shows that time.

## What the runs check

All runs end without an error. Sizes are distinct states.

| run | configuration | states | what it shows |
| --- | --- | --- | --- |
| `neutral_reservations` | two deciders, one adapter, two permit ids, three requests, skew 1 | 667,451 | what the revision comparison, the rollback and the unique keys buy the deciders: `RevisionNamesContent`, `BindingsAreThoseOfPermits`, `AnswersAreTrue`, `ReservedInTimeOrder` |
| `neutral_attempts` | two deciders, one of them configured for another store, two adapters, two permit ids | 108,632 | no effect is doubled, uncovered or retried: `AtMostOneEffect`, `ActingIsCovered`, `RevisionCountsTransitions`, `ImplementsLedger` |
| `sqlite_reservations` | two gates in two programs, a third program set up for another store; two conflicting requests, two permit ids, times 0 and 1 in any order | 68,251 | `ImplementsAtomicStore`: snapshot and reserve are atomic, refused ones included |
| `sqlite_attempts` | a gate and an adapter on one store object, an adapter in a second program; one request, times 0 and 1 | 34,935 | `ImplementsAtomicStore`: so are consume and finish, with permits presented too early, too late or again; `NothingLeftOpen`; `LocksComeFree` under fairness |
| `p0_attempts` | two adapters, two permit ids; up to three of eleven receipts, four statements, two actions, keys that are registered later, times 0 to 4 | 12,962 | the P0 gate and store: `ActingIsCovered`, `BindingsAreThoseOfPermits`, `PermitsStayJustified`, `AllowsAsSprint3`, and by `ImplementsLedger` one effect per replay key |
| `gate` | up to four of fifteen handoffs under one statement, and up to three of eight with any set of eight statements; issues and barriers; decision times 0 to 4 | 475,390 | `NoEscalation`, `RevocationHeeded`, `AllowsExactlyTheAcceptable`, `AuditorSeesTheChain`; `Decides` under fairness |
| `gate_system` | two verifiers as threads of one program, an adapter in another, two permit ids, four pairs of stories, times 0 to 2, skew 1 | 152,650 | `RevocationTakesEffect`, `OneStory`, `OncePerGrant` |
| `relations` | every graph of up to three candidates out of five kinds each | 500,899 | `ReportsTheUnfounded`: the report is a function of the graph; `Ends` under fairness |
| `evidence` | each representation with twelve or thirteen messages about two handoffs, of which up to five are delivered, cutoffs 0 to 2 | 708,964 | `ReportsTheEvidence`, `OnlyConflictsUnmake`, `RepresentationsAgree` |
| `delivery` | one message, or two on one link or on two; any of six partitions, three delays, losses, duplicates and withholding; four sets of overrides | 50,368 | `EveryCopyOnce`, `EarlierIsPrefix`, `FirstCopyCounts`, `ImplementsNetwork` |
| `gate_prepared` | up to five candidates out of fourteen, one status, decision times 0 to 3 | 170,078 | `GateFindsNoBrokenChain`, `OneBadHandoffPauses` |
| `harness` | all sixty-four configurations, six cells each | 3,190 | `RepresentationsCompare`, `AuditConfirms`, `GateLetsOneThrough`, `AllowsAsConfigured` |

Notes on what they say:

- `RevisionNamesContent` is the reason a decision may be taken outside any
  transaction: the same revision means the same tables, also across restarts. It
  fails if a start resets the revision row.
- `ReservedInTimeOrder` is not written anywhere in the code. It follows from the
  snapshot refusing to contain a permit from the future (`model.py` 365) together
  with the revision comparison.
- A gate that is told STATE_CHANGED must begin again, and one that is always
  slower than the others may do so for ever; no fairness in the code excludes it.
  What holds is that somebody got through: `RevisionCountsTransitions` says that
  the revision moves exactly with a committed transition.
- One effect per replay key is a part of `ImplementsLedger`: a ledger entry acts
  once. For P0 no other property states it.
- `ActingIsCovered` for P0 is weaker than for Sprint 3, and tight: the permit is
  cut at the end of the scope but not when the authority status goes stale, so an
  action may be taken almost `permit_ttl_seconds` later than that. `docs/`
  promises no more for P0.
- Adapters that die leave ATTEMPTED rows for ever. That is the documented choice
  ("A crash after ATTEMPTED is not retried automatically").
- `PermitsStayJustified` is about keys that are registered while permits are about. A
  registry only grows, and a key id is never given another key, so that no
  registration takes away what a permit rests on.
- `AllowsAsSprint3` compares two gates that were written separately. The gate of
  Sprint 3 allows no less than P0, with two exceptions that the property names: P0
  takes a chain with more than one request for an action, and one whose handoffs
  refer to a status other than the one that is presented.
- `AllowsExactlyTheAcceptable` is in both directions. That the gate allows no more
  is what it is for; that it allows no less says which evidence can hold up an
  action: that of the chain, a second leaf, a second candidate for a parent,
  and statements of the same lineage. Its second part is about the answer: wherever
  handoffs carry the action, each but the leaf being the parent of another, and a
  statement grants it, these are what the permit binds, its replay scope and its end.
- `AuditorSeesTheChain` relates the two walks that the repository has, `evaluate`
  and `assemble_strict_chain`. They differ in what they make of handoffs beside the
  chain: the auditor refuses them, the gate does not mind.
- `RevocationHeeded` is about all statements in the input. A revocation of an
  *older* version does not count, because a later one replaces it.
- `RevocationTakesEffect`: the decision time is fixed when the input is captured, so a
  revocation that arrives later does not stop the permit. It does stop every permit of a
  later judgment, so that it is late by at most one permit life after the slowest
  verifier knows of it.
- `OneStory`: no verifier can see an equivocation of which it was told one half. The
  bindings in the shared database do, and the second gate is told
  CONFLICTING_HANDOFF.
- `OncePerGrant` is what the replay key means: it contains the authority lineage and
  version, as `preaward/crosstrace_sprint3/README.md` documents, so a grant that is
  renewed under a new version lets the same action through again.
- `GateFindsNoBrokenChain` says that the gate's own tests for circles, forks, gaps
  and strangers are a second line: on a report without issues they never
  fire. The gate's test of times is not among them, as its clock skew is its own.
- `EarlierIsPrefix` is what makes an audit comparable to a decision: it sees all that
  the verifier saw, in the same order, and then what came later, also when two
  copies arrive in one second on either side of the cutoff.
- `FirstCopyCounts`: with duplicates on, and with overrides that add more copies,
  evidence counts once, with the arrival time of its first copy.
- `ReportsTheEvidence` is the normaliser's contract in both directions: a candidate is
  exactly an interaction about which all statements agree, whatever the order in which
  they are read; and no message about a handoff that is not validated goes unreported.
- `OnlyConflictsUnmake` is about two reports of one observer. A handoff that was
  validated may be withdrawn later, but only because somebody contradicted himself (or
  the parent's sender did); a party who was caught cannot repair it by saying more.
- `RepresentationsAgree` quantifies over sets of facts, and the three representations
  are compared with the facts and so with each other. Noise is allowed: foreign
  stores, forged and premature messages. Facts under one sender number are left out:
  an honest sender counts, and two of his handoffs with the same number are an
  equivocation (`CompareSequences`).
- `OneBadHandoffPauses` holds although the validator drops bad handoffs, because
  their issues are handed on. An issue about a handoff that has nothing to do with
  the action stops the action too.
- `RepresentationsCompare` is the question of the repository's experiment. Where no copy
  is withheld the representations do the same; of a receipt one copy is enough, of
  endpoint records both are needed; and the cross reference makes no difference in any
  of these fixtures.
- `AuditConfirms`: the action was right as far as the evidence goes, or all that says
  otherwise was kept from the verifier, and then the audit says so.
- `GateLetsOneThrough`: with two attempts the second is refused by the database, not by
  `evaluate`, and nothing but the first writes to it.
- `AllowsAsConfigured` fixes what is allowed for each fixture and so keeps the others
  from being true because nothing ever is.

CHECK_DEADLOCK FALSE is set where something ends: in `p0_attempts` when every
permit is closed, in `gate`, `relations` and `gate_prepared` when the call returns, and
in `delivery` at the last cutoff.
`Decides` and `Ends` exclude that these calls of the gate and of the validator
stop elsewhere; theorems `EvaluationEnds` and `RelationsEnd` add how many steps they
take at most. All others check for deadlock; for `evidence` this shows that
every call of the validator ends, since every loop has one turn less to go with each of
its steps, and for `harness` that every cell runs to its end, since only `Summarise` can
be repeated.

`TypeOK` of NeutralPermitStore, P0PermitStore, CommonGate, HandoffRelations and
DeliverySchedule is proved and not repeated by a run. Each property
of each run has a mutant: a variant of one mapped definition with
a plausible bug, defined next to it, under which TLC finds the property violated.

## Bounds

- *Permit ids*: two suffice for two permits to compete for a replay key, and for
  a permit id to be drawn twice.
- *Requests*: three for the Sprint 3 store. Two have one replay key over
  different chains and horizons, the third conflicts with the first in one
  binding and shares another, so ALLOW, CONFLICTING_HANDOFF and REPLAY_DETECTED
  all happen, and with a permit id drawn twice also by primary key.
- *MaxTime, PermitTTL, horizon*: with a time to live of 2 and horizons of 2 and 3,
  the end of a permit is the time to live for some decision times and the
  horizon for others; the declared times reach both ends of the half-open
  interval. `MaxTime` bounds `clock` and every declared time.
- *MaxSkew* 1 of 2 or 3: clocks may disagree in either direction.
- *Processes*: two deciders compete, two adapters hold one permit; the proofs
  need no bound here. In `sqlite_attempts` one program has two
  threads, so that `_lock` and the write lock each have two claimants.
- *Calls of the P0 gate*: receipts for the payment by B itself, through C, after a
  renewal of the status and under the next version of the authority; one for another
  payment, one that shares an interaction with another, one that C did not sign, one that
  hands on more than it has. C has a key of its own or one of E, registered at
  any time. A time to live of 2 and statuses that end at 3 and 5 let permits end by
  their age or by a scope, and after the status.
- *Stories of two verifiers*: four pairs are told to them, from six stories: two
  askings under a grant that is revoked at 1; the grant with and without a newer one;
  two askings under a new grant, one of them with a sequence number that was used; and
  an equivocation that one verifier can see. All handoffs are there at time 0, since
  a later handoff is an earlier one for a verifier that asks later. The proofs are for
  all deliveries.
- *Fixtures*: two actions, two sets of authority statements, four kinds of delivery,
  with and without a conflicting leaf, one or two attempts: every configuration
  that the constructor admits.
- *Handoffs of a gate* (sizes in `Inputs`): four make a chain of three hops' worth of
  scopes, so that a scope is compared with one that is not its parent's, and leave
  room for a competitor of any of its members. Circles need two, forks one more than
  the chain, and a chain with a fork and a gap four.
- *Statuses*: below, at and above the chain's version, two of the same version with
  the same and with different states, one issued late, one forged, one of another
  lineage.
- *Candidates*: three, each right or wrong in every way. A circle of two with a
  tail is there, and three handoffs are enough for a verdict that is remembered from
  a question about a grandchild. Larger graphs, where walks meet tails and circles
  of several others, are left to the proofs.
- *Messages of an observer*: in each representation, what honest parties sign for a
  root and its child; for the root another body under the same interaction, the same
  number for another interaction, a rejection, a record out of the profile, a cross
  reference to the wrong record or a child that names the wrong parent; and copies from
  a stranger's store, sent too early, forged or malformed, and in another
  representation. Five of them make both handoffs complete and leave room for one that
  conflicts; for receipts, which need two, for three.
- *Partitions*: any subset of six, five on a message's link and one on the other
  direction. With times up to 4 that includes some that follow on each other,
  nested and overlapping ones, and ones that begin with or after the departure.
- *Copies*: an override for copy 2 makes three where the draws give at most two.
  The sets of overrides include one that names a second message, which is refused
  when there is only one, and one with two for the same copy, which always is; so is
  a policy that withholds a message that is not there.
- *Horizon* 4: no copy of this run arrives later.
- The revision is not bounded: every permit moves at most three times.
- Symmetry: permit ids, deciders and adapters are interchangeable where all
  belong to one store and the properties are not temporal with fairness.
  With the stranger of `neutral_attempts` that leaves permit ids and adapters.
  `sqlite_attempts` uses none, `sqlite_reservations` and `gate_system` that of
  permit ids, `p0_attempts` that of permit ids and adapters.

## Fairness

`gate` and `relations` assume WF of their next-state relation: `evaluate` and
`validate_observation` are single calls without locks, waits or input and output,
and a call that can take a step takes it.

Of the stores only `sqlite_attempts` assumes any: a thread inside a method is eventually run, and
so is a program inside its constructor. `sqlite3.connect(..., timeout=...)`
makes a waiting BEGIN IMMEDIATE either succeed or raise, so the step is
`BeginImmediate` or `Busy` and it is always enabled. Nothing is assumed about
callers, about which waiting thread gets `_lock` (Python promises none), or about
stopped programs being started again.

## What is proved

Every invariant and action property of the runs is proved for every value of the
constants, but for those listed in the next section; so are the four refinements.
A theorem rests on nothing but the named assumptions of its module, which say what
the code's types and constructors guarantee.

`NeutralPermitStoreProofs` assumes `RequestAssumption` (a request has its fields, and
a finite horizon) and `ParameterAssumption` (programs partition the processes, no
process is both decider and adapter, the time to live is positive, the bounds are
naturals):

| theorem | statement | argument |
| --- | --- | --- |
| `TypeCorrect` | `Spec => []TypeOK` | inductive as it stands, because it says what a process between two calls holds |
| `OneAttempt` | `Spec => []OneAttemptPerPermit` | inductive with `TypeOK`. Unique replay keys come from `Duplicate`; a permit has one holder because consuming needs RESERVED and leaves ATTEMPTED; the last conjunct counts effects by the state of the row. No run checks it by itself; AtMostOneEffect, which follows, is checked |
| `OneEffect` | `Spec => []AtMostOneEffect` | follows from OneAttempt: effects alone are not inductive, since nothing in them says that an adapter about to act has not acted |
| `OwnerAgrees` | `Spec => []OneOwner` | with `OwnerInit` and `ProgramsCover`: the owner never changes once it is set |
| `RevisionIsContent` | `Spec => []RevisionNamesContent` | needs that revision and tables change together, and that an absent owner means empty tables, since opening then writes revision 0 |
| `TimeOrder` | `Spec => ReservedInTimeOrder` | from RevisionNamesContent, and that no snapshot contains a permit issued after its time |
| `BindingsAgree` | `Spec => []BindingsAreThoseOfPermits` | inductive: a reservation adds exactly its bindings, since without a conflict INSERT OR IGNORE ignores only what is there |
| `ActingCovered` | `Spec => []ActingIsCovered` | with an invariant on stored rows: expires is the minimum computed by `Expiry` |
| `AnswersTrue` | `Spec => []AnswersAreTrue` | with `AllowedIsStored`: a decider that was told ALLOW has its row, under its key, and rows and bindings only become more; so what a refused one was told of stays |
| `RevisionCounts` | `Spec => []RevisionCountsTransitions` | a permit has been through as many transitions as it is in one of `Lifecycle`'s parts; each transaction adds one permit to one of these parts or none, and they are finite |
| `StoreImplementsLedger` | `Spec => ImplementsLedger` | the row of a replay key, if it has one, is unique (OneAttempt), so each method changes at most one ledger entry, by the ledger's rules |

`SqliteTransactionsProofs` assumes `StatementAssumption` and `ThreadAssumption`, the
same facts for statements and threads. What makes a method atomic is the lock of the
store object, the write lock of the file and the rollback together: `LockInv` says who
has which, `ThreadInv` what a thread at each statement has read and written, compared
with the committed state. A step of one thread changes only what is its own
(`StepIsOwn`) and nothing that the invariant says of another (`Undisturbed`), so the
invariant is shown thread by thread. It is far from `NothingLeftOpen`, its simplest
consequence: without the content of open transactions no COMMIT could be compared with
its method.

| theorem | statement | argument |
| --- | --- | --- |
| `StatementsInvariant` | `Spec => []StatementInv` | types, `LockInv`, `ThreadInv` and an owner that never changes, statement by statement |
| `NothingLeft` | `Spec => []NothingLeftOpen` | a transaction is open only if the thread in the lock is inside a method |
| `StatementsImplementMethods` | `Spec => ImplementsAtomicStore` | each COMMIT and each rollback is the method's step, the first SELECT of a snapshot that will be given is the snapshot; every other statement, error and timeout is a stutter; a kill is `Stop` |
| `OneEffectByStatements`, `CoveredByStatements`, `BindingsByStatements`, `AnswersByStatements` | `Spec => []Atomic!AtMostOneEffect` and so on for `ActingIsCovered`, `BindingsAreThoseOfPermits`, `AnswersAreTrue` | by the refinement (`SameSpec`) and the theorems of NeutralPermitStoreProofs, instanced under the same mapping (`MethodsHold`), whose assumptions follow from those of the statements (`MethodAssumptions`) |
| `StatementsImplementLedger` | `Spec => Atomic!ImplementsLedger` | the two refinements one after the other: from the SQL statements to one attempt per replay key |

`P0PermitStoreProofs` assumes `P0KeyAssumption` (a key id is not given twice),
`P0EvidenceAssumption` (receipts and statements have their fields) and
`P0ParameterAssumption`:

| theorem | statement | argument |
| --- | --- | --- |
| `TypeCorrect` | `Spec => []TypeOK` | a permit ends at a time because the least of finitely many is one of them |
| `Justified` | `Spec => []PermitsStayJustified` | `Reasons` can only shrink when a key is registered: signatures that verified go on doing so, and nothing else depends on the registry |
| `BindingsAgree` | `Spec => []BindingsAreThoseOfPermits` | inductive: a reservation that meets no conflict adds its bindings |
| `ActingCovered` | `Spec => []ActingIsCovered` | with `OneHolder`: a row that is attempted is held by one adapter, whose action it names |
| `StoreImplementsLedger` | `Spec => ImplementsLedger` | as for the Sprint 3 store, from `OneHolder` and unique replay keys |
| `GatesAllowAlike` | `Spec => []AllowsAsSprint3` | calls without reasons are chains in order, so the receipts' parents are the ones before them; each condition of an acceptable chain follows from the reason the P0 gate would have had |

`CommonGateProofs` assumes `ViewAssumption`, `StatusAssumption`, `GateAssumption` and
`InputAssumption`: views and statements have their fields and no interaction is named
like the absent parent. An input is a finite set of views (a tuple in the code), so
chains are of any length. For PreparedGate, `PreparedAssumption` adds that
interactions are finitely many and that a parent is named by one.

| theorem | statement | argument |
| --- | --- | --- |
| `TypeCorrect` | `Spec => []TypeOK` | with the fact that an index in the loop is a place in the chain |
| `WalkPath` | `Spec => []WalkIsPath` | the invariant adds that `current` is the only parent of the last view walked over, or the only leaf; a new view's interaction was not visited |
| `Narrowing` | `Spec => []NoEscalation` | while the loop runs without a reason, every link behind `index` is narrower; being narrower is transitive, so with every link every pair is. The induction over the length of a chain is an induction over the loop |
| `Revocation` | `Spec => []RevocationHeeded` | the controlling statement is the only one of the highest version and is active; any other of at least the chain's version would be in conflict or newer |
| `AllowsExactly` | `Spec => []AllowsExactlyTheAcceptable` | two invariants. `SoundInv`: as long as there is no reason, all that was passed satisfies its part of the definition, so at the end the walk is the chain that an acceptable input has. `CompleteInv`: if the input is acceptable, the walk stays on its chain, so that no check finds a reason. What carries the action is unique (`OnlyTheChain`: such handoffs begin at the same leaf and go on to the same parent as the walk), so the answer, which is computed from the walk, is theirs (`AnswerInv`) |
| `AuditorAgrees` | `Spec => []AuditorSeesTheChain` | `OutcomeInv`: what the gate pauses for tells how its walk ended, at a root, at a gap or on a circle. The auditor's walk is a recursive function, which exists (`RoundsExist`) and does each round what its definition says (`AscentByRounds`). Where the path ends it is the gate's chain (`AscentEnds`, which needs that a chain is no longer than there are views, `NoLonger`); on a circle it takes one round more than there are views, so that two of them are the same (`AscentCircles`). What the auditor then answers is compared with the gate's reasons case by case |
| `EvaluationEnds` | `Init => StepsLeft = 2n + 5`, `Spec => ComesCloser`, n being the number of handoffs | the walk takes no interaction twice (`WalkPath`), so its chain has at most n handoffs, and the second loop is no longer than the chain |
| `NoBrokenChain` | `PreparedSpec => []GateFindsNoBrokenChain` | `PreparedInv` keeps theorem `Verdicts` of the validator's loops: what reaches the gate without an issue is well founded, so a walk towards the root meets no circle and ends at a root; the graph is finite |
| `OneBadPauses` | `PreparedSpec => []OneBadHandoffPauses` | a handoff that is not validated has an issue (`Verdicts`), every issue is a reason, and a gate with a reason pauses |

`HandoffRelationsProofs` proves, for any finite set of interactions and
`HandoffAssumption`:

| theorem | statement | argument |
| --- | --- | --- |
| `TypeCorrect` | `Spec => []TypeOK` | with `PathBegins`: the path of a descent begins at the interaction asked for, so that its verdict is there when the path is empty again |
| `NoneTwice` | `Spec => []NeverTwice` | a path goes from child to parent over handoffs without a verdict; were it to meet itself, its end would be a circle, and circles have their verdicts before |
| `Circles` | `Spec => []MarksTheCircles` | nothing else is marked: the path from where it was met to its end is its own set of parents. No circle is missed: it is a set mapped onto itself, hence one to one (it is finite), so neither its finished part nor the part on the path leads into the other; if the path meets the circle, the least place at which it does is where the walk ended |
| `Verdicts` | `Spec => []ReportsTheUnfounded` | every remembered verdict is the right one: being well founded is equivalent to not being on a circle and hanging on a well-founded parent (`Foundation`) |
| `OneReport` | `Spec => []` (when done, `validated` and `issues` are the well-founded candidates and one `Blame` for each other) | from `Verdicts`, and that at the end every candidate is judged. With no order in it, the formula says that the order of the loops does not matter |
| `RelationsEnd` | `Init => StepsLeft = 7n + 2`, `Spec => ComesCloser`, n being the number of candidates | each candidate is walked over once, asked for once and given one verdict, since no path meets itself (`NoneTwice`) and a verdict is remembered; a walk or a descent that is under way has its own steps left to go |

`EvidenceValidationProofs` assumes `EvidenceAssumption`: messages that can be parsed
have the fields that parsing demands, in the values it admits; none is named like the
absent one. Evidence is any set of messages, finite or not, and observations are any
number. Of the handoffs that the parties made it assumes that they came one after
another: each has its own interaction, its parent is among them, and of some of them
one was the first. There may be any number of them.

| theorem | statement | argument |
| --- | --- | --- |
| `EvidenceReported` | `Spec => []ReportsTheEvidence` | the inductive invariant says in each phase (`ReadInv`, `JudgeInv`, `ResolveInv`, `ReportInv`) what the messages and interactions taken so far have come to, as a function of the evidence; a report is then a function of the evidence too, whatever the order was |
| `ReportDetermined` | `Spec => []TheReport` | the same invariant, with `InvalidInv` for the set of rejected interactions: those of which something was heard and of which no candidate has come, `set(grouped) - set(candidates)` included. So not only the validated handoffs but all that is reported, and who is blamed, is fixed by messages and cutoff |
| `LoopsGetAGraph` | `Spec => []HandsOverAGraph` | from `InvalidInv`; a receipt's parent is resolved to the interaction of a selected receipt (`OneReceipt`), a record names an interaction or none |
| `ConflictsUnmake` | `Spec => []OnlyConflictsUnmake` | `LastInv` keeps from one call to the next that the last report was right about less evidence: what it convicted is convicted by statements that no later evidence takes back, and what it validated can be lost only to such a statement |
| `SameInEach` | `Spec => []RepresentationsAgree` | a receipt contains its parent's, so receipts are a recursive function over the ancestors. Receipts of some handoffs that contain all their ancestors are unique (`ReceiptsUnique`) and can be had for one handoff more (`ReceiptsOneMore`), hence for each (`ReceiptOfEach`: otherwise take the first without one) and together for all (`ReceiptsExist`). In each representation what was heard of an interaction is then what was signed for its only handoff (`EncodingIs`, `OnOneHandoff`), so it is undisputed (`HonestUndisputed`) and agreed on (`HonestAgreed`); the rest is what `EvidenceReported` says of a report |

`DeliveryScheduleProofs` proves, for any batches, policies and overrides that
satisfy `DeliveryAssumption`, which includes that no two copies have one id (a schedule
in which two have is refused, `delivery.py` 1368):

| theorem | statement | argument |
| --- | --- | --- |
| `TypeCorrect` | `Spec => []TypeOK` | inductive as it stands; the copy count is one of the numbers up to eight |
| `Settles` | `Spec => []SettlesInTime` | a round goes to the end of a partition that had not ended, so there are never more rounds than partitions that have ended |
| `FirstFreeInstant` | `Spec => []ArrivesAtFirstFreeInstant` | while the search runs, everything from the departure to the candidate is closed: the partition that is waited for covers what a round passes over |
| `OneOutcomeEach` | `Spec => []EveryCopyOnce` | `OutcomeInv`: the messages before the present one are done, of the present one the copies before the present one are; a copy that is waiting for partitions is not withheld and follows its override |
| `LaterOnlyAdds` | `Spec => []EarlierIsPrefix` | what arrives by t comes before what arrives later, so it has the same places among both (`InOrderBegins`); the loop of `unique_evidence` does the same on the same beginning and then only appends (`UniqueBegins`) |
| `FirstCopyAlways` | `Spec => []FirstCopyCounts` | an invariant of that loop (`Keeps`): each copy read so far has a copy of its message in the list that was read no later |
| `ScheduleIsNetwork` | `Spec => ImplementsNetwork` | `Release` puts a copy into transit; a copy leaves it when the cutoff is its first free instant (`FirstFreeInstant`), which is when the network delivers it; what a second adds to a projection is one of the orders of the copies that arrive in it (`InboxGrows`). All else stutters |

Three lemmas there take the place of an induction over data: members of a finite
ordered set have places from 1 to its size, each taken once (`PlacesAreTaken`, by
counting); a property of the naturals up to N that is passed on holds for all
(`FirstFailure`, since subset is well founded on finite sets); and the function that
`unique_evidence` computes by recursion exists (`TurnsExist`). The second serves
`CommonGateProofs` for the rounds of the auditor's walk as well.

`GateSystemProofs` proves, for any stories, in addition under `DeliveryAssumption`:

| theorem | statement | argument |
| --- | --- | --- |
| `SystemIsStore` | `SystemSpec => Spec` | a decider that asks for what it judged is a decider; so everything proved of NeutralPermitStore holds here |
| `RevocationInTime` | `SystemSpec => []RevocationTakesEffect` | by `PermitsAreJudgments` some verifier accepted the chain at the time of issue; had the revocation reached it, the controlling statement would be another; the permit ends within its time to live (`ActingCovered`) |
| `PermitsTellOneStory` | `SystemSpec => []OneStory` | an equivocation is two handoffs under one key, which `BindingsAgree` excludes |
| `OncePerGrantAlways` | `SystemSpec => []OncePerGrant` | two effects have two replay keys (`OneEffect`), so lineage or version differ; the chain under the old version was accepted by a verifier whose latest statement was the old one |

Each is Init, preservation by each action, and the conclusion, in that order;
lemmas about data come first.

## What is only model-checked, and what is not modelled

Only checked by TLC:

- The properties of Harness, which has no constants to prove anything about: its run
  covers every fixture there is.
- `LocksComeFree`, `Decides` and `Ends`, which are liveness properties: fairness and
  ENABLED are beyond the prover. Of the last two the part that could fail for a large
  input is proved, that there is a bound on the steps (`EvaluationEnds`,
  `RelationsEnd`); what TLC adds is that the call never has no step to take
  before it is done.

`OneOwner`, `WalkIsPath`, `SettlesInTime`, `ArrivesAtFirstFreeInstant`,
`NeverTwice`, `MarksTheCircles`, both `ComesCloser`, `TheReport` and `HandsOverAGraph`
are the other way round: they are proved for every instance, and no run repeats them.

Not modelled:

- Signatures, hashing, canonical JSON, field validation and the serialisation of
  records (most of `protocol.py` before the registry, of the `model.py` files and of
  `delivery.py` before the compiler), where correctness is a matter of bytes and
  cryptography. What they decide is a fault of a message or a receipt in the models.
- The release of Sprint 4 and its verifier (`runner.py`, `verify.py`): files,
  checksums, schemas, in one pass, without state.
- The pilot's scenarios and scoring, the demo, and the identities of Sprint 1: input
  and reports. The P0 gate they call is modelled.
- Integer widths (Python's integers have none), and the schema creation statements of
  SQLite other than the metadata row.
- Gates with separate database files. They can allow two conflicting chains; the
  repository documents this as a limit, and the model, which has one database, does
  not speak about it.

No disagreement between the code and what the repository says of it was found
in the parts modelled. What a reader of the code may not expect is noted above: the
receipt on which the validator raises.

## Running it

    tlc -config NeutralReservations.cfg MCNeutralPermitStore
    tlapm NeutralPermitStoreProofs.tla

and so on for the other rows; `PROJECT.json` names the module and the
configuration of every run, the source lines behind every definition (`map`),
and the mutants.
