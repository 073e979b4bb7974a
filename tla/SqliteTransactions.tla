------------------------- MODULE SqliteTransactions -------------------------
(***************************************************************************)
(* NeutralPermitStore, statement by statement.                             *)
(*                                                                         *)
(* A program is an operating system process with one store object: one     *)
(* SQLite connection and one `_lock`, which its threads share.  Several    *)
(* programs work on one database file in WAL mode.  A statement of a       *)
(* method is an action here; another thread or program may run between any *)
(* two of them, any statement may raise sqlite3.Error, and a program may   *)
(* be killed anywhere.                                                     *)
(*                                                                         *)
(* SQLite itself is modelled from how the store uses it: BEGIN IMMEDIATE   *)
(* takes the file's write lock or, after the busy timeout, raises; a       *)
(* deferred BEGIN pins the committed state at its first SELECT; COMMIT     *)
(* replaces the committed state; whatever was not committed when the       *)
(* connection goes away is lost.                                           *)
(*                                                                         *)
(* The module is shown to implement NeutralPermitStore, where a method is  *)
(* one step.                                                               *)
(***************************************************************************)
EXTENDS Integers, FiniteSets

CONSTANTS
  Deciders, Adapters, Programs, PermitIds, Requests, ObservationKeys,
  Handoffs, StoreIds, StoreIdOf, NoStore, PermitTTL,
  MaxTime,         \* declared times are 0 .. MaxTime, in any order
  Nobody           \* no thread holds a lock

Processes == Deciders \cup Adapters

Observation == [key : ObservationKeys, handoff : Handoffs]

RequestFields == {"tool", "scope", "nonce", "hash", "observations", "horizon"}

ASSUME StatementAssumption ==
  /\ \A r \in Requests : /\ DOMAIN r = RequestFields
                          /\ r.observations \subseteq Observation
                          /\ r.horizon \in Nat
  /\ PermitTTL \in Nat \ {0} /\ MaxTime \in Nat
  /\ StoreIdOf \in [Programs -> StoreIds] /\ NoStore \notin StoreIds
  /\ Nobody \notin Processes

\* A thread belongs to one program, and a program has a thread.
ASSUME ThreadAssumption ==
  /\ UNION Programs = Processes /\ {} \notin Programs
  /\ \A g, h \in Programs : g # h => g \cap h = {}
  /\ Deciders \cap Adapters = {}

Program == [p \in Processes |-> CHOOSE g \in Programs : p \in g]

VARIABLES
  disk,      \* the committed content of the database file
  txn,       \* txn[g]: the transaction that is open on the connection of g
  lock,      \* lock[g]: the thread in `with self._lock` of g's store object
  pc,        \* the statement a thread is at
  call,      \* the arguments of the call it is in
  read,      \* what the call has read or has yet to do
  snapshot, answer, held, acts    \* as in NeutralPermitStore

callVars == <<call, read>>
callerVars == <<snapshot, answer, held, acts>>
vars == <<disk, txn, lock, pc, call, read, snapshot, answer, held, acts>>

NoTxn == [mode |-> "none"]
NoCall == [op |-> "none"]
NothingRead == [todo |-> {}]
NoPermit == [state |-> "ABSENT"]
NoSnapshot == [revision |-> -1]
NoAnswer == [reason |-> "NONE"]
NothingHeld == [permit |-> "NONE"]

Present(rows, p) == rows[p].state # "ABSENT"
ReplayKey(r) == <<r.tool, r.scope, r.nonce>>
SameAction(r, s) == r.tool = s.tool /\ r.hash = s.hash /\ r.nonce = s.nonce
Expiry(r, decided) ==
  IF decided + PermitTTL < r.horizon THEN decided + PermitTTL ELSE r.horizon

\* What NeutralPermitStateSnapshot checks when it is constructed.
NoneFromTheFuture(rows, t) ==
  \A p \in PermitIds : Present(rows, p) => rows[p].issued <= t

\* What a SELECT of g's connection sees.
View(g) == IF txn[g].mode \in {"read", "write"} THEN txn[g].view ELSE disk

Init ==
  /\ disk = [owner |-> NoStore, revision |-> 0, observations |-> {},
             permits |-> [p \in PermitIds |-> NoPermit]]
  /\ txn = [g \in Programs |-> NoTxn]
  /\ lock = [g \in Programs |-> Nobody]
  /\ pc = [p \in Processes |-> "closed"]
  /\ call = [p \in Processes |-> NoCall]
  /\ read = [p \in Processes |-> NothingRead]
  /\ snapshot = [d \in Deciders |-> NoSnapshot]
  /\ answer = [d \in Deciders |-> NoAnswer]
  /\ held = [a \in Adapters |-> NothingHeld]
  /\ acts = [p \in PermitIds |-> 0]

-----------------------------------------------------------------------------
(***************************************************************************)
(* __init__, on a connection nobody else can use yet.                      *)
(***************************************************************************)
NobodyWrites == \A g \in Programs : txn[g].mode # "write"

All(g, label) == \A p \in g : pc[p] = label
Go(g, label) == pc' = [p \in Processes |-> IF p \in g THEN label ELSE pc[p]]

OpenBegin(g) ==
  /\ All(g, "closed")
  /\ NobodyWrites
  /\ txn' = [txn EXCEPT ![g] = [mode |-> "write", view |-> disk]]
  /\ Go(g, "opening")
  /\ UNCHANGED <<disk, lock, callVars, callerVars>>

\* INSERT OR IGNORE INTO neutral_store_metadata.
OpenInsert(g) ==
  /\ All(g, "opening")
  /\ txn' = [txn EXCEPT ![g].view.owner = IF @ = NoStore THEN StoreIdOf[g] ELSE @]
  /\ Go(g, "checking")
  /\ UNCHANGED <<disk, lock, callVars, callerVars>>

\* The stored identifier is ours: commit.  It is not: roll back and close.
OpenCheck(g) ==
  /\ All(g, "checking")
  /\ txn' = [txn EXCEPT ![g] = NoTxn]
  /\ \/ txn[g].view.owner = StoreIdOf[g] /\ disk' = txn[g].view /\ Go(g, "idle")
     \/ txn[g].view.owner # StoreIdOf[g] /\ Go(g, "closed") /\ UNCHANGED disk
  /\ UNCHANGED <<lock, callVars, callerVars>>

\* The program is killed, or every thread is between two calls and it closes
\* the store: the connection goes, and with it what it had not committed.
Kill(g) ==
  /\ \A p \in g : pc[p] # "closed"
  /\ txn' = [txn EXCEPT ![g] = NoTxn]
  /\ lock' = [lock EXCEPT ![g] = Nobody]
  /\ Go(g, "closed")
  /\ call' = [p \in Processes |-> IF p \in g THEN NoCall ELSE call[p]]
  /\ read' = [p \in Processes |-> IF p \in g THEN NothingRead ELSE read[p]]
  /\ snapshot' = [d \in Deciders |-> IF d \in g THEN NoSnapshot ELSE snapshot[d]]
  /\ answer' = [d \in Deciders |-> IF d \in g THEN NoAnswer ELSE answer[d]]
  /\ held' = [a \in Adapters |-> IF a \in g THEN NothingHeld ELSE held[a]]
  /\ UNCHANGED <<disk, acts>>

-----------------------------------------------------------------------------
(***************************************************************************)
(* What the methods have in common.                                        *)
(***************************************************************************)
At(p, op, label) == call[p].op = op /\ pc[p] = label
Jump(p, label) == pc' = [pc EXCEPT ![p] = label]

Enter(p, arguments) ==
  /\ call' = [call EXCEPT ![p] = arguments]
  /\ Jump(p, "entering")

\* with self._lock
Acquire(p) ==
  /\ pc[p] = "entering"
  /\ lock[Program[p]] = Nobody
  /\ lock' = [lock EXCEPT ![Program[p]] = p]
  /\ Jump(p, "begin")
  /\ UNCHANGED <<disk, txn, callVars, callerVars>>

FirstStatement ==
  [reserve |-> "revision", consume |-> "select", finish |-> "update"]

BeginImmediate(p) ==
  /\ pc[p] = "begin" /\ call[p].op \in DOMAIN FirstStatement
  /\ NobodyWrites
  /\ txn' = [txn EXCEPT ![Program[p]] = [mode |-> "write", view |-> disk]]
  /\ Jump(p, FirstStatement[call[p].op])
  /\ UNCHANGED <<disk, lock, callVars, callerVars>>

\* Mutant: the lock is taken and released by hand, and an error skips the
\* release.
GiveUpLocked(p, reason) ==
  /\ txn' = [txn EXCEPT ![Program[p]] = NoTxn]
  /\ read' = [read EXCEPT ![p] = NothingRead]
  /\ call' = [call EXCEPT ![p] = NoCall]
  /\ Jump(p, "idle")
  /\ snapshot' = [d \in Deciders |-> IF d = p THEN NoSnapshot ELSE snapshot[d]]
  /\ answer' = [d \in Deciders |-> IF d = p /\ call[p].op = "reserve"
                  THEN [reason |-> reason, request |-> call[p].request]
                  ELSE answer[d]]
  /\ held' = [a \in Adapters |-> IF a = p THEN NothingHeld ELSE held[a]]
  /\ UNCHANGED <<disk, lock, acts>>

\* An exception, or an early return, in the body of a method: the transaction
\* is rolled back and the caller gets no permit.
GiveUp(p, reason) ==
  /\ txn' = [txn EXCEPT ![Program[p]] = NoTxn]
  /\ read' = [read EXCEPT ![p] = NothingRead]
  /\ call' = [call EXCEPT ![p] = NoCall]
  /\ Jump(p, "leaving")
  /\ snapshot' = [d \in Deciders |-> IF d = p THEN NoSnapshot ELSE snapshot[d]]
  /\ answer' = [d \in Deciders |-> IF d = p /\ call[p].op = "reserve"
                  THEN [reason |-> reason, request |-> call[p].request]
                  ELSE answer[d]]
  /\ held' = [a \in Adapters |-> IF a = p THEN NothingHeld ELSE held[a]]
  /\ UNCHANGED <<disk, lock, acts>>

InBody(p) == lock[Program[p]] = p /\ pc[p] # "leaving"

\* BEGIN IMMEDIATE waited for the busy timeout.
Busy(p) ==
  /\ pc[p] = "begin" /\ call[p].op \in DOMAIN FirstStatement
  /\ ~NobodyWrites
  /\ GiveUp(p, "STATE_UNAVAILABLE")

\* Any other sqlite3.Error.
DatabaseError(p) == InBody(p) /\ GiveUp(p, "STATE_UNAVAILABLE")

\* UPDATE neutral_store_metadata SET revision = revision + 1.  Under the
\* write lock the revision is still the one that was read.
CountRevision(p) ==
  /\ pc[p] = "count"
  /\ txn' = [txn EXCEPT ![Program[p]].view.revision = @ + 1]
  /\ Jump(p, "commit")
  /\ UNCHANGED <<disk, lock, callVars, callerVars>>

Commit(p) ==
  /\ disk' = txn[Program[p]].view
  /\ txn' = [txn EXCEPT ![Program[p]] = NoTxn]
  /\ call' = [call EXCEPT ![p] = NoCall]
  /\ read' = [read EXCEPT ![p] = NothingRead]
  /\ Jump(p, "leaving")

\* The end of the `with` block; the caller goes on with what it was given.
Leave(p) ==
  /\ pc[p] = "leaving"
  /\ lock' = [lock EXCEPT ![Program[p]] = Nobody]
  /\ Jump(p, CASE p \in Deciders /\ snapshot[p] # NoSnapshot -> "prepared"
               [] p \in Adapters /\ held[p] # NothingHeld -> "consumed"
               [] OTHER -> "idle")
  /\ UNCHANGED <<disk, txn, callVars, callerVars>>

-----------------------------------------------------------------------------
(***************************************************************************)
(* snapshot()                                                              *)
(***************************************************************************)
CallSnapshot(d, t) ==
  /\ pc[d] = "idle"
  /\ Enter(d, [op |-> "snapshot", captured |-> t])
  /\ answer' = [answer EXCEPT ![d] = NoAnswer]
  /\ UNCHANGED <<disk, txn, lock, read, snapshot, held, acts>>

\* Mutant: the three SELECTs run without a transaction.
SnapshotNoBegin(d) ==
  /\ At(d, "snapshot", "begin")
  /\ Jump(d, "revision")
  /\ UNCHANGED <<disk, txn, lock, callVars, callerVars>>

SnapshotBegin(d) ==
  /\ At(d, "snapshot", "begin")
  /\ txn' = [txn EXCEPT ![Program[d]] = [mode |-> "deferred"]]
  /\ Jump(d, "revision")
  /\ UNCHANGED <<disk, lock, callVars, callerVars>>

\* The first SELECT of a deferred transaction pins what it reads.
Pinned(t) == IF t.mode = "deferred" THEN [mode |-> "read", view |-> disk] ELSE t

SnapshotRevision(d) ==
  /\ At(d, "snapshot", "revision")
  /\ txn' = [txn EXCEPT ![Program[d]] = Pinned(@)]
  /\ read' = [read EXCEPT ![d] = [revision |-> View(Program[d]).revision,
                                  captured |-> call[d].captured]]
  /\ Jump(d, "permits")
  /\ UNCHANGED <<disk, lock, call, callerVars>>

SnapshotPermits(d) ==
  /\ At(d, "snapshot", "permits")
  /\ read' = [read EXCEPT ![d] = [revision |-> @.revision, captured |-> @.captured,
                                      records |-> View(Program[d]).permits]]
  /\ Jump(d, "observations")
  /\ UNCHANGED <<disk, txn, lock, call, callerVars>>

SnapshotObservations(d) ==
  /\ At(d, "snapshot", "observations")
  /\ read' = [read EXCEPT ![d] = [revision |-> @.revision, captured |-> @.captured,
                                      records |-> @.records,
                                      observations |-> View(Program[d]).observations]]
  /\ Jump(d, "commit")
  /\ UNCHANGED <<disk, txn, lock, call, callerVars>>

\* Mutant: a permit issued after the declared time is let through.
SnapshotCommitUnchecked(d) ==
  /\ At(d, "snapshot", "commit")
  /\ txn' = [txn EXCEPT ![Program[d]] = NoTxn]
  /\ snapshot' = [snapshot EXCEPT ![d] = read[d]]
  /\ call' = [call EXCEPT ![d] = NoCall]
  /\ read' = [read EXCEPT ![d] = NothingRead]
  /\ Jump(d, "leaving")
  /\ UNCHANGED <<disk, lock, answer, held, acts>>

\* COMMIT, and the construction of the snapshot, which raises GateError when
\* a permit was issued after the declared time.
SnapshotCommit(d) ==
  /\ At(d, "snapshot", "commit")
  /\ txn' = [txn EXCEPT ![Program[d]] = NoTxn]
  /\ snapshot' = [snapshot EXCEPT ![d] =
                    IF NoneFromTheFuture(read[d].records, call[d].captured)
                    THEN read[d] ELSE NoSnapshot]
  /\ call' = [call EXCEPT ![d] = NoCall]
  /\ read' = [read EXCEPT ![d] = NothingRead]
  /\ Jump(d, "leaving")
  /\ UNCHANGED <<disk, lock, answer, held, acts>>

-----------------------------------------------------------------------------
(***************************************************************************)
(* reserve()                                                               *)
(***************************************************************************)
\* authorize() calls reserve() with what evaluate() allowed.
CallReserve(d, r, id) ==
  /\ pc[d] = "prepared"
  /\ Expiry(r, snapshot[d].captured) > snapshot[d].captured
  /\ Enter(d, [op |-> "reserve", request |-> r, permit |-> id])
  /\ UNCHANGED <<disk, txn, lock, read, callerVars>>

ReserveRevision(d) ==
  /\ At(d, "reserve", "revision")
  /\ \/ /\ View(Program[d]).revision = snapshot[d].revision
        /\ read' = [read EXCEPT ![d].todo = call[d].request.observations]
        /\ Jump(d, "bindings")
        /\ UNCHANGED <<disk, txn, lock, call, callerVars>>
     \/ /\ View(Program[d]).revision # snapshot[d].revision
        /\ GiveUp(d, "STATE_CHANGED")

\* One round of the loop over the chain's bindings.
ReserveBinding(d) ==
  /\ At(d, "reserve", "bindings")
  /\ \E o \in read[d].todo :
       LET stored == {s \in View(Program[d]).observations : s.key = o.key}
       IN  \/ /\ \A s \in stored : s.handoff = o.handoff
              /\ txn' = [txn EXCEPT ![Program[d]].view.observations = @ \cup {o}]
              /\ read' = [read EXCEPT ![d].todo = @ \ {o}]
              /\ Jump(d, IF read[d].todo = {o} THEN "insert" ELSE "bindings")
              /\ UNCHANGED <<disk, lock, call, callerVars>>
           \/ /\ \E s \in stored : s.handoff # o.handoff
              /\ GiveUp(d, "CONFLICTING_HANDOFF")

\* INSERT INTO neutral_permits, with its primary key and its UNIQUE key.
ReserveInsert(d) ==
  /\ At(d, "reserve", "insert")
  /\ LET rows == View(Program[d]).permits
         r    == call[d].request
         id   == call[d].permit
         duplicate == \E p \in PermitIds :
                        /\ Present(rows, p)
                        /\ p = id \/ ReplayKey(rows[p].request) = ReplayKey(r)
     IN  \/ /\ ~duplicate
            /\ txn' = [txn EXCEPT ![Program[d]].view.permits[id] =
                         [state |-> "RESERVED", request |-> r,
                          issued |-> snapshot[d].captured,
                          expires |-> Expiry(r, snapshot[d].captured)]]
            /\ Jump(d, "count")
            /\ UNCHANGED <<disk, lock, callVars, callerVars>>
         \/ duplicate /\ GiveUp(d, "REPLAY_DETECTED")

ReserveCommit(d) ==
  /\ At(d, "reserve", "commit")
  /\ Commit(d)
  /\ answer' = [answer EXCEPT ![d] = [reason |-> "ALLOW", request |-> call[d].request]]
  /\ snapshot' = [snapshot EXCEPT ![d] = NoSnapshot]
  /\ UNCHANGED <<lock, held, acts>>

-----------------------------------------------------------------------------
(***************************************************************************)
(* consume() and finish()                                                  *)
(***************************************************************************)
CallConsume(a, id, r, now) ==
  /\ pc[a] = "idle"
  /\ Enter(a, [op |-> "consume", permit |-> id, request |-> r, at |-> now])
  /\ UNCHANGED <<disk, txn, lock, read, callerVars>>

Consumable(row, arguments) ==
  /\ row.state = "RESERVED"
  /\ SameAction(row.request, arguments.request)
  /\ row.issued <= arguments.at
  /\ arguments.at < row.expires

\* Mutant: a refusal returns without rolling back.
ConsumeSelectNoRollback(a) ==
  /\ At(a, "consume", "select")
  /\ LET row == View(Program[a]).permits[call[a].permit]
     IN  Jump(a, IF Consumable(row, call[a]) THEN "update" ELSE "leaving")
  /\ UNCHANGED <<disk, txn, lock, callVars, callerVars>>

\* The row is selected and checked; every refusal rolls back and returns.
ConsumeSelect(a) ==
  /\ At(a, "consume", "select")
  /\ LET row == View(Program[a]).permits[call[a].permit]
     IN  \/ /\ Consumable(row, call[a])
            /\ Jump(a, "update")
            /\ UNCHANGED <<disk, txn, lock, callVars, callerVars>>
         \/ ~Consumable(row, call[a]) /\ GiveUp(a, "PAUSE")

ConsumeUpdate(a) ==
  /\ At(a, "consume", "update")
  /\ txn' = [txn EXCEPT ![Program[a]].view.permits[call[a].permit].state = "ATTEMPTED"]
  /\ Jump(a, "count")
  /\ UNCHANGED <<disk, lock, callVars, callerVars>>

ConsumeCommit(a) ==
  /\ At(a, "consume", "commit")
  /\ Commit(a)
  /\ held' = [held EXCEPT ![a] = [permit |-> call[a].permit,
                                  request |-> call[a].request, at |-> call[a].at]]
  /\ UNCHANGED <<lock, snapshot, answer, acts>>

Act(a) ==
  /\ pc[a] = "consumed"
  /\ acts' = [acts EXCEPT ![held[a].permit] = @ + 1]
  /\ Jump(a, "acted")
  /\ UNCHANGED <<disk, txn, lock, callVars, snapshot, answer, held>>

CallFinish(a, outcome) ==
  /\ pc[a] = "acted"
  /\ Enter(a, [op |-> "finish", outcome |-> outcome])
  /\ UNCHANGED <<disk, txn, lock, read, callerVars>>

\* The caller holds the permit, so the row is still ATTEMPTED.
FinishUpdate(a) ==
  /\ At(a, "finish", "update")
  /\ View(Program[a]).permits[held[a].permit].state = "ATTEMPTED"
  /\ txn' = [txn EXCEPT ![Program[a]].view.permits[held[a].permit].state = call[a].outcome]
  /\ Jump(a, "count")
  /\ UNCHANGED <<disk, lock, callVars, callerVars>>

FinishCommit(a) ==
  /\ At(a, "finish", "commit")
  /\ Commit(a)
  /\ held' = [held EXCEPT ![a] = NothingHeld]
  /\ UNCHANGED <<lock, snapshot, answer, acts>>

-----------------------------------------------------------------------------
Times == 0 .. MaxTime

SnapshotStatement(d) ==
  \/ SnapshotBegin(d) \/ SnapshotRevision(d) \/ SnapshotPermits(d)
  \/ SnapshotObservations(d) \/ SnapshotCommit(d)

ReserveStatement(d) ==
  ReserveRevision(d) \/ ReserveBinding(d) \/ ReserveInsert(d) \/ ReserveCommit(d)

AdapterStatement(a) ==
  \/ ConsumeSelect(a) \/ ConsumeUpdate(a) \/ ConsumeCommit(a)
  \/ FinishUpdate(a) \/ FinishCommit(a)

\* A thread that is inside a method goes on.
Proceed(p) ==
  \/ BeginImmediate(p) \/ Busy(p) \/ CountRevision(p) \/ Leave(p)
  \/ p \in Deciders /\ (SnapshotStatement(p) \/ ReserveStatement(p))
  \/ p \in Adapters /\ AdapterStatement(p)

CallOf(p) ==
  \/ p \in Deciders /\ \/ \E t \in Times : CallSnapshot(p, t)
                       \/ \E r \in Requests, id \in PermitIds : CallReserve(p, r, id)
  \/ p \in Adapters /\ \/ \E id \in PermitIds, r \in Requests, now \in Times :
                            CallConsume(p, id, r, now)
                       \/ \E outcome \in {"SUCCEEDED", "FAILED"} : CallFinish(p, outcome)

Opening(g) == OpenBegin(g) \/ OpenInsert(g) \/ OpenCheck(g)

Next ==
  \/ \E g \in Programs : Opening(g) \/ Kill(g)
  \/ \E p \in Processes : CallOf(p) \/ Acquire(p) \/ Proceed(p) \/ DatabaseError(p)
  \/ \E a \in Adapters : Act(a)

Spec == Init /\ [][Next]_vars

\* A thread inside a method is not stopped for ever: the operating system
\* runs it, and SQLite answers a BEGIN IMMEDIATE within the busy timeout.
\* Nothing is assumed of callers, of who gets `_lock`, or of a start.
FairSpec == Spec /\ \A p \in Processes : WF_vars(Proceed(p))
                 /\ \A g \in Programs : WF_vars(OpenInsert(g) \/ OpenCheck(g))

-----------------------------------------------------------------------------
(***************************************************************************)
(* Properties.                                                             *)
(***************************************************************************)
\* Whichever way a method ends (a commit, one of its early returns, an
\* exception at any statement, a timeout), it leaves no transaction behind
\* for the next thread, and what is open belongs to the thread in the lock.
NothingLeftOpen ==
  \A g \in Programs :
    txn[g] # NoTxn =>
      \/ \E p \in g : lock[g] = p /\ pc[p] \notin {"begin", "leaving"}
      \/ \A p \in g : pc[p] \in {"opening", "checking"}

\* The store lock and the write lock of the file are always given back: no
\* chain of calls, refusals, errors and kills leaves the other threads or
\* programs shut out for ever.
LocksComeFree ==
  \A g \in Programs : /\ (lock[g] # Nobody) ~> (lock[g] = Nobody)
                      /\ (txn[g].mode = "write") ~> (txn[g].mode # "write")

-----------------------------------------------------------------------------
(***************************************************************************)
(* The statements implement the methods.  A snapshot happens when its      *)
(* transaction pins what it reads, unless it will be refused; everything   *)
(* else happens at its commit or rollback.                                 *)
(***************************************************************************)
Reading(d) ==
  /\ call[d].op = "snapshot"
  /\ pc[d] \in {"permits", "observations", "commit"}
  /\ NoneFromTheFuture(View(Program[d]).permits, call[d].captured)

AtomicSnapshot ==
  [d \in Deciders |->
     IF Reading(d)
     THEN [revision |-> View(Program[d]).revision, captured |-> call[d].captured,
           records |-> View(Program[d]).permits,
           observations |-> View(Program[d]).observations]
     ELSE snapshot[d]]

AtomicPhase ==
  [p \in Processes |->
     IF pc[p] \in {"closed", "opening", "checking"} THEN "closed"
     ELSE IF p \in Deciders
     THEN IF AtomicSnapshot[p] # NoSnapshot THEN "prepared" ELSE "idle"
     ELSE IF held[p] = NothingHeld THEN "idle"
     ELSE IF pc[p] = "acted" \/ call[p].op = "finish" THEN "acted" ELSE "consumed"]

Atomic == INSTANCE NeutralPermitStore WITH
  MaxSkew <- MaxTime, clock <- 0,
  owner <- disk.owner, revision <- disk.revision,
  observations <- disk.observations, permits <- disk.permits,
  phase <- AtomicPhase, snapshot <- AtomicSnapshot

\* However the statements of concurrent calls interleave, and wherever they
\* fail or are cut off, snapshots are of one committed state, and calls take
\* effect completely, once, or not at all.
ImplementsAtomicStore == Atomic!Spec
=============================================================================
