---------------------- MODULE SqliteTransactionsProofs ----------------------
(***************************************************************************)
(* Proofs about SqliteTransactions, for any number of programs and threads.*)
(*                                                                         *)
(* What makes a method atomic is the store lock, the write lock of the     *)
(* file and the rollback, and none of them alone: LockInv says who has     *)
(* them, ThreadInv what a thread has read and written so far, compared     *)
(* with the committed state.  A step of a thread changes only what is its  *)
(* own (StepIsOwn), and nothing that another thread relies on              *)
(* (Undisturbed); so ThreadInv has to be looked at for one thread at a     *)
(* time.  From it each COMMIT, rollback and first SELECT is the step of    *)
(* NeutralPermitStore that AtomicPhase and AtomicSnapshot make of it, and  *)
(* every other statement is a stuttering step.                             *)
(***************************************************************************)
EXTENDS SqliteTransactions, TLAPS

-----------------------------------------------------------------------------
(***************************************************************************)
(* Type correctness.                                                       *)
(***************************************************************************)
Permit ==
  [state : {"RESERVED", "ATTEMPTED", "SUCCEEDED", "FAILED"}, request : Requests,
   issued : Times, expires : Nat]
Tables == [PermitIds -> Permit \cup {NoPermit}]

Database ==
  [owner : StoreIds \cup {NoStore}, revision : Nat, observations : SUBSET Observation,
   permits : Tables]

Deferred == [mode |-> "deferred"]
Transaction == {NoTxn, Deferred} \cup [mode : {"read", "write"}, view : Database]

InLock == {"begin", "revision", "permits", "observations", "bindings", "insert",
           "select", "update", "count", "commit", "leaving"}
Between == {"idle", "prepared", "consumed", "acted"}
Down == {"closed", "opening", "checking"}

SnapshotCall == [op : {"snapshot"}, captured : Times]
ReserveCall == [op : {"reserve"}, request : Requests, permit : PermitIds]
ConsumeCall == [op : {"consume"}, permit : PermitIds, request : Requests, at : Times]
FinishCall == [op : {"finish"}, outcome : {"SUCCEEDED", "FAILED"}]

\* The labels of a method are those of its statements.
Labelled(c, label) ==
  \/ c = NoCall /\ label \in Down \cup Between \cup {"leaving"}
  \/ c \in SnapshotCall
       /\ label \in {"entering", "begin", "revision", "permits", "observations", "commit"}
  \/ c \in ReserveCall
       /\ label \in {"entering", "begin", "revision", "bindings", "insert", "count", "commit"}
  \/ c \in ConsumeCall /\ label \in {"entering", "begin", "select", "update", "count", "commit"}
  \/ c \in FinishCall /\ label \in {"entering", "begin", "update", "count", "commit"}

Snapshot == [revision : Nat, captured : Times, records : Tables,
             observations : SUBSET Observation]
Read == [todo : SUBSET Observation] \cup [revision : Nat, captured : Times]
          \cup [revision : Nat, captured : Times, records : Tables] \cup Snapshot
Holding == [permit : PermitIds, request : Requests, at : Times]
Reasons == {"ALLOW", "STATE_CHANGED", "CONFLICTING_HANDOFF", "REPLAY_DETECTED",
            "STATE_UNAVAILABLE"}
Answer == [reason : Reasons, request : Requests]

TypeOK ==
  /\ disk \in Database
  /\ txn \in [Programs -> Transaction]
  /\ lock \in [Programs -> Processes \cup {Nobody}]
  /\ pc \in [Processes -> Down \cup Between \cup {"entering"} \cup InLock]
  /\ call \in [Processes -> {NoCall} \cup SnapshotCall \cup ReserveCall
                                     \cup ConsumeCall \cup FinishCall]
  /\ read \in [Processes -> Read]
  /\ snapshot \in [Deciders -> Snapshot \cup {NoSnapshot}]
  /\ held \in [Adapters -> Holding \cup {NothingHeld}]
  /\ answer \in [Deciders -> Answer \cup {NoAnswer}]
  /\ acts \in [PermitIds -> Nat]

-----------------------------------------------------------------------------
(***************************************************************************)
(* Locks and transactions.  Whoever is in `_lock` has the transaction that *)
(* its statement needs, and nobody else has one, unless the program opens  *)
(* its database.                                                           *)
(***************************************************************************)
\* The transaction a thread in the lock works in.
Mode(p) ==
  IF pc[p] \in {"begin", "leaving"} THEN "none"
  ELSE IF call[p].op # "snapshot" THEN "write"
  ELSE IF pc[p] = "revision" THEN "deferred" ELSE "read"

ThreadLock(p) ==
  /\ Labelled(call[p], pc[p])
  /\ p \in Deciders => call[p].op \notin {"consume", "finish"}
  /\ p \in Adapters => call[p].op \notin {"snapshot", "reserve"}
  /\ pc[p] \in InLock <=> lock[Program[p]] = p
  /\ pc[p] \in InLock => txn[Program[p]].mode = Mode(p)

ProgramLock(g) ==
  /\ lock[g] \in g \cup {Nobody}
  /\ All(g, "closed") \/ All(g, "opening") \/ All(g, "checking")
       \/ \A p \in g : pc[p] \notin Down
  /\ lock[g] = Nobody =>
       txn[g].mode = IF All(g, "opening") \/ All(g, "checking") THEN "write" ELSE "none"

OneWriter ==
  \A g, h \in Programs : txn[g].mode = "write" /\ txn[h].mode = "write" => g = h

LockInv ==
  /\ \A p \in Processes : ThreadLock(p)
  /\ \A g \in Programs : ProgramLock(g)
  /\ OneWriter

-----------------------------------------------------------------------------
(***************************************************************************)
(* What the statements have done so far.                                   *)
(***************************************************************************)
\* What a caller has in hand.
DeciderHand(d) ==
  /\ snapshot[d] # NoSnapshot => pc[d] \in {"prepared", "leaving"} \/ call[d].op = "reserve"
  /\ pc[d] = "prepared" \/ call[d].op = "reserve" => snapshot[d] # NoSnapshot
  /\ call[d].op = "reserve" =>
       Expiry(call[d].request, snapshot[d].captured) > snapshot[d].captured
  /\ pc[d] \in Down \/ call[d].op = "snapshot" => answer[d] = NoAnswer

AdapterHand(a) ==
  /\ held[a] # NothingHeld => \/ pc[a] \in {"consumed", "acted", "leaving"}
                              \/ call[a].op = "finish"
  /\ pc[a] \in {"consumed", "acted"} \/ call[a].op = "finish" => held[a] # NothingHeld

\* What a call has read.
ReadSoFar(p) ==
  LET view == txn[Program[p]].view
      t    == call[p].captured
  IN  /\ call[p] = NoCall \/ pc[p] \in {"entering", "begin"} => read[p] = NothingRead
      /\ call[p].op = "snapshot" =>
           /\ pc[p] = "permits" => read[p] = [revision |-> view.revision, captured |-> t]
           /\ pc[p] = "observations" =>
                read[p] = [revision |-> view.revision, captured |-> t, records |-> view.permits]
           /\ pc[p] = "commit" =>
                read[p] = [revision |-> view.revision, captured |-> t,
                           records |-> view.permits, observations |-> view.observations]

\* What its transaction has written: the committed state, as it was and will
\* be until the commit, with the changes of the statements so far.
Done(d) == call[d].request.observations \ read[d].todo

Reserved(d) ==
  [state |-> "RESERVED", request |-> call[d].request, issued |-> snapshot[d].captured,
   expires |-> Expiry(call[d].request, snapshot[d].captured)]

ReserveWritten(d) ==
  LET view == txn[Program[d]].view
      r    == call[d].request
  IN  /\ pc[d] = "revision" => view = disk
      /\ IF pc[d] = "bindings" THEN read[d] \in [todo : SUBSET r.observations]
                                ELSE read[d] = NothingRead
      /\ pc[d] \in {"bindings", "insert", "count", "commit"} =>
           /\ disk.revision = snapshot[d].revision
           /\ view.owner = disk.owner
           /\ view.observations = disk.observations \cup Done(d)
           /\ \A o \in Done(d), s \in disk.observations \cup Done(d) :
                s.key = o.key => s.handoff = o.handoff
      /\ pc[d] \in {"bindings", "insert"} => view.permits = disk.permits
      /\ pc[d] \in {"count", "commit"} =>
           /\ view.permits = [disk.permits EXCEPT ![call[d].permit] = Reserved(d)]
           /\ \A p \in PermitIds : Present(disk.permits, p) =>
                p # call[d].permit /\ ReplayKey(disk.permits[p].request) # ReplayKey(r)
      /\ pc[d] \in {"bindings", "insert", "count"} => view.revision = disk.revision
      /\ pc[d] = "commit" => view.revision = disk.revision + 1

\* A method of an adapter changes the state of one row.
Moved(a, id, state) ==
  LET view == txn[Program[a]].view
  IN  /\ pc[a] \in {"select", "update"} => view = disk
      /\ pc[a] \in {"count", "commit"} =>
           /\ view.owner = disk.owner /\ view.observations = disk.observations
           /\ view.permits = [disk.permits EXCEPT ![id].state = state]
      /\ pc[a] = "count" => view.revision = disk.revision
      /\ pc[a] = "commit" => view.revision = disk.revision + 1

ConsumeWritten(a) ==
  /\ Moved(a, call[a].permit, "ATTEMPTED")
  /\ pc[a] \in {"update", "count", "commit"} =>
       Consumable(disk.permits[call[a].permit], call[a])

FinishWritten(a) ==
  /\ Moved(a, held[a].permit, call[a].outcome)
  /\ pc[a] \in {"count", "commit"} => disk.permits[held[a].permit].state = "ATTEMPTED"

\* All that is known of one thread.
ThreadInv(p) ==
  /\ p \in Deciders => DeciderHand(p)
  /\ p \in Adapters => AdapterHand(p)
  /\ ReadSoFar(p)
  /\ call[p].op = "reserve" => ReserveWritten(p)
  /\ call[p].op = "consume" => ConsumeWritten(p)
  /\ call[p].op = "finish" => FinishWritten(p)

\* A program that opens its database; nothing is in the file before.
Opened(g) ==
  LET view == txn[g].view
  IN  /\ All(g, "opening") => view = disk
      /\ All(g, "checking") =>
           view = [disk EXCEPT !.owner = IF @ = NoStore THEN StoreIdOf[g] ELSE @]

OwnerInv ==
  /\ disk.owner = NoStore => disk.revision = 0
  /\ (\E p \in Processes : pc[p] \notin Down) => disk.owner # NoStore

StatementInv ==
  /\ TypeOK
  /\ LockInv
  /\ \A p \in Processes : ThreadInv(p)
  /\ \A g \in Programs : Opened(g)
  /\ OwnerInv

LEMMA ProgramOf ==
  ASSUME NEW p \in Processes
  PROVE  /\ Program[p] \in Programs /\ p \in Program[p]
         /\ \A g \in Programs : p \in g => g = Program[p]
<1>1. PICK g \in Programs : p \in g
  BY ThreadAssumption
<1>2. \A h \in Programs : p \in h => h = g
  BY <1>1, ThreadAssumption
<1>3. Program[p] = CHOOSE h \in Programs : p \in h
  BY DEF Program
<1> QED BY <1>1, <1>2, <1>3

LEMMA ExpiryType ==
  ASSUME NEW r \in Requests, NEW t \in Times PROVE Expiry(r, t) \in Nat
BY StatementAssumption DEF Expiry, Times

LEMMA ViewType ==
  ASSUME TypeOK, NEW g \in Programs, txn[g].mode \in {"read", "write"}
  PROVE  /\ txn[g].view \in Database /\ View(g) = txn[g].view
         /\ txn[g] = [mode |-> txn[g].mode, view |-> txn[g].view]
<1>1. txn[g] \in [mode : {"read", "write"}, view : Database]
  BY DEF TypeOK, Transaction, NoTxn, Deferred
<1> QED BY <1>1 DEF View

\* A statement of a transaction changes a field of what it sees.
LEMMA StatementType ==
  ASSUME TypeOK, NEW g \in Programs, txn[g].mode = "write", NEW view \in Database,
         txn' = [txn EXCEPT ![g].view = view]
  PROVE  txn' \in [Programs -> Transaction]
<1>1. txn[g] = [mode |-> "write", view |-> txn[g].view]
  BY ViewType
<1>2. [txn[g] EXCEPT !.view = view] = [mode |-> "write", view |-> view]
  BY <1>1
<1>3. txn' = [txn EXCEPT ![g] = [mode |-> "write", view |-> view]]
  BY <1>2
<1> QED BY <1>3 DEF TypeOK, Transaction

\* A program that is down, or opens its database.
LEMMA DownMode ==
  ASSUME TypeOK, LockInv, NEW g \in Programs, \A p \in g : pc[p] \in Down
  PROVE  /\ lock[g] = Nobody
         /\ \A p \in g : p \in Processes /\ call[p] = NoCall
         /\ All(g, "opening") \/ All(g, "checking") => txn[g].mode = "write"
<1>1. \A p \in g : p \in Processes /\ Program[p] = g /\ ThreadLock(p)
  BY ThreadAssumption, ProgramOf DEF LockInv
<1>2. \A p \in g : lock[g] # p
  BY <1>1 DEF ThreadLock, InLock, Down
<1>3. lock[g] = Nobody
  BY <1>2 DEF LockInv, ProgramLock
<1>4. \A p \in g : call[p] = NoCall
  BY <1>1 DEF ThreadLock, Labelled, Down
<1> QED BY <1>1, <1>3, <1>4 DEF LockInv, ProgramLock

LEMMA LockMode ==
  ASSUME TypeOK, LockInv, NEW p \in Processes, pc[p] \in InLock
  PROVE  /\ lock[Program[p]] = p /\ txn[Program[p]].mode = Mode(p)
         /\ pc[p] \notin {"begin", "leaving"} /\ call[p].op # "snapshot" =>
              txn[Program[p]].mode = "write"
         /\ call[p].op = "snapshot" => call[p] \in SnapshotCall
         /\ call[p].op = "reserve" => call[p] \in ReserveCall
         /\ call[p].op = "consume" => call[p] \in ConsumeCall
         /\ call[p].op = "finish" => call[p] \in FinishCall
<1>1. lock[Program[p]] = p /\ txn[Program[p]].mode = Mode(p)
  BY DEF LockInv, ThreadLock
<1>2. call[p] \in {NoCall} \cup SnapshotCall \cup ReserveCall \cup ConsumeCall \cup FinishCall
  BY DEF TypeOK
<1> QED BY <1>1, <1>2 DEF Mode, NoCall, SnapshotCall, ReserveCall, ConsumeCall, FinishCall

LEMMA TodoType ==
  ASSUME NEW r \in Read, NEW todo \in SUBSET Observation
  PROVE  [r EXCEPT !.todo = todo] \in Read
<1>1. CASE r \in [todo : SUBSET Observation]
  BY <1>1 DEF Read
<1>2. CASE r \in [revision : Nat, captured : Times]
  BY <1>2 DEF Read
<1>3. CASE r \in [revision : Nat, captured : Times, records : Tables]
  BY <1>3 DEF Read
<1>4. CASE r \in Snapshot
  BY <1>4 DEF Read, Snapshot
<1> QED BY <1>1, <1>2, <1>3, <1>4 DEF Read

LEMMA TypeInit == Init => TypeOK
<1> SUFFICES ASSUME Init PROVE TypeOK
  OBVIOUS
<1>1. disk \in Database
  BY DEF Init, Database, Tables
<1>2. txn \in [Programs -> Transaction] /\ lock \in [Programs -> Processes \cup {Nobody}]
  BY DEF Init, Transaction
<1>3. pc \in [Processes -> Down \cup Between \cup {"entering"} \cup InLock]
  BY DEF Init, Down
<1>4. read \in [Processes -> Read]
  BY DEF Init, Read, NothingRead
<1>5. call \in [Processes -> {NoCall} \cup SnapshotCall \cup ReserveCall
                                      \cup ConsumeCall \cup FinishCall]
  BY DEF Init
<1> QED BY <1>1, <1>2, <1>3, <1>4, <1>5 DEF Init, TypeOK

LEMMA GiveUpType ==
  ASSUME TypeOK, NEW p \in Processes, NEW reason, GiveUp(p, reason),
         call[p].op = "reserve" => reason \in Reasons /\ call[p] \in ReserveCall
  PROVE  TypeOK'
<1>1. Program[p] \in Programs
  BY ProgramOf
<1>2. answer' \in [Deciders -> Answer \cup {NoAnswer}]
  BY DEF GiveUp, TypeOK, Answer, ReserveCall
<1> QED BY <1>1, <1>2 DEF GiveUp, Jump, TypeOK, Transaction, Read, NothingRead, InLock

LEMMA TypeNext == StatementInv /\ [Next]_vars => TypeOK'
<1> SUFFICES ASSUME TypeOK, LockInv, \A p \in Processes : ThreadInv(p), [Next]_vars
             PROVE  TypeOK'
  BY DEF StatementInv
<1>1. ASSUME NEW g \in Programs, OpenBegin(g) PROVE TypeOK'
  BY <1>1 DEF OpenBegin, TypeOK, Go, Transaction, Down, callVars, callerVars
<1>2. ASSUME NEW g \in Programs, OpenInsert(g) PROVE TypeOK'
  <2> DEFINE owner == IF txn[g].view.owner = NoStore THEN StoreIdOf[g] ELSE txn[g].view.owner
             view  == [txn[g].view EXCEPT !.owner = owner]
  <2>1. txn[g].mode = "write"
    BY <1>2, DownMode DEF OpenInsert, All, Down
  <2>2. txn[g].view \in Database
    BY <2>1, ViewType
  <2>3. owner \in StoreIds \cup {NoStore}
    BY <2>2, StatementAssumption DEF Database
  <2>4. view \in Database
    BY <2>2, <2>3 DEF Database
  <2>5. txn' = [txn EXCEPT ![g].view = view]
    BY <1>2 DEF OpenInsert
  <2>6. txn' \in [Programs -> Transaction]
    <3> HIDE DEF view
    <3> QED BY <2>1, <2>4, <2>5, StatementType
  <2> QED BY <1>2, <2>6 DEF OpenInsert, TypeOK, Go, Down, callVars, callerVars
<1>3. ASSUME NEW g \in Programs, OpenCheck(g) PROVE TypeOK'
  <2>1. txn[g].mode = "write"
    BY <1>3, DownMode DEF OpenCheck, All, Down
  <2>2. txn[g].view \in Database
    BY <2>1, ViewType
  <2>3. disk' \in Database
    BY <1>3, <2>2 DEF OpenCheck, TypeOK
  <2>4. txn' \in [Programs -> Transaction]
    BY <1>3 DEF OpenCheck, TypeOK, Transaction
  <2>5. pc' \in [Processes -> Down \cup Between \cup {"entering"} \cup InLock]
    BY <1>3 DEF OpenCheck, TypeOK, Go, Down, Between
  <2> QED BY <1>3, <2>3, <2>4, <2>5 DEF OpenCheck, TypeOK, callVars, callerVars
<1>4. ASSUME NEW g \in Programs, Kill(g) PROVE TypeOK'
  BY <1>4 DEF Kill, TypeOK, Go, Transaction, Down, Read, NothingRead
<1>5. ASSUME NEW d \in Deciders, NEW t \in Times, CallSnapshot(d, t) PROVE TypeOK'
  BY <1>5 DEF CallSnapshot, Enter, Jump, TypeOK, SnapshotCall, Processes
<1>6. ASSUME NEW d \in Deciders, NEW r \in Requests, NEW id \in PermitIds, CallReserve(d, r, id)
      PROVE  TypeOK'
  BY <1>6 DEF CallReserve, Enter, Jump, TypeOK, ReserveCall, Processes, callerVars
<1>7. ASSUME NEW a \in Adapters, NEW id \in PermitIds, NEW r \in Requests, NEW now \in Times,
             CallConsume(a, id, r, now)
      PROVE  TypeOK'
  BY <1>7 DEF CallConsume, Enter, Jump, TypeOK, ConsumeCall, Processes, callerVars
<1>8. ASSUME NEW a \in Adapters, NEW outcome \in {"SUCCEEDED", "FAILED"}, CallFinish(a, outcome)
      PROVE  TypeOK'
  BY <1>8 DEF CallFinish, Enter, Jump, TypeOK, FinishCall, Processes, callerVars
<1>9. ASSUME NEW p \in Processes, Acquire(p) PROVE TypeOK'
  BY <1>9, ProgramOf DEF Acquire, Jump, TypeOK, InLock, callVars, callerVars
<1>10. ASSUME NEW p \in Processes, BeginImmediate(p) PROVE TypeOK'
  BY <1>10, ProgramOf DEF BeginImmediate, FirstStatement, Jump, TypeOK, InLock, Transaction, callVars, callerVars
<1>11. ASSUME NEW p \in Processes, Busy(p) \/ DatabaseError(p) PROVE TypeOK'
  <2>1. pc[p] \in InLock
    BY <1>11 DEF Busy, DatabaseError, InBody, InLock, LockInv, ThreadLock
  <2> QED BY <1>11, <2>1, GiveUpType, LockMode DEF Busy, DatabaseError, Reasons
<1>12. ASSUME NEW p \in Processes, CountRevision(p) PROVE TypeOK'
  <2> DEFINE view == [txn[Program[p]].view EXCEPT !.revision = @ + 1]
  <2>1. Program[p] \in Programs /\ txn[Program[p]].mode = "write"
    BY <1>12, LockMode, ProgramOf DEF CountRevision, InLock, LockInv, ThreadLock, Labelled, NoCall,
       SnapshotCall, ReserveCall, ConsumeCall, FinishCall, Down, Between
  <2>2. txn[Program[p]].view \in Database
    BY <2>1, ViewType
  <2>3. view \in Database
    BY <2>2 DEF Database
  <2>4. txn' = [txn EXCEPT ![Program[p]].view = view]
    BY <1>12 DEF CountRevision
  <2>5. txn' \in [Programs -> Transaction]
    <3> HIDE DEF view
    <3> QED BY <2>1, <2>3, <2>4, StatementType
  <2> QED BY <1>12, <2>5 DEF CountRevision, Jump, TypeOK, InLock, callVars, callerVars
<1>13. ASSUME NEW p \in Processes, Leave(p) PROVE TypeOK'
  BY <1>13, ProgramOf DEF Leave, Jump, TypeOK, Between, callVars, callerVars
<1>14. ASSUME NEW d \in Deciders, SnapshotBegin(d) PROVE TypeOK'
  BY <1>14, ProgramOf DEF SnapshotBegin, Jump, TypeOK, InLock, Transaction, Deferred, Processes,
     callVars, callerVars
<1>15. ASSUME NEW d \in Deciders, SnapshotRevision(d) PROVE TypeOK'
  <2>1. d \in Processes /\ Program[d] \in Programs /\ txn[Program[d]].mode = "deferred"
    BY <1>15, LockMode, ProgramOf DEF SnapshotRevision, At, InLock, Mode, Processes
  <2>2. call[d].captured \in Times /\ View(Program[d]) = disk
    BY <1>15, <2>1, LockMode DEF SnapshotRevision, At, InLock, SnapshotCall, View
  <2>3. disk.revision \in Nat /\ disk \in Database
    BY DEF TypeOK, Database
  <2>4. txn' \in [Programs -> Transaction]
    BY <1>15, <2>1, <2>3 DEF SnapshotRevision, Pinned, TypeOK, Transaction
  <2>5. read' \in [Processes -> Read]
    BY <1>15, <2>1, <2>2, <2>3 DEF SnapshotRevision, TypeOK, Read
  <2> QED BY <1>15, <2>1, <2>4, <2>5 DEF SnapshotRevision, Jump, TypeOK, InLock, callerVars
<1>16. ASSUME NEW d \in Deciders, SnapshotPermits(d) PROVE TypeOK'
  <2>1. d \in Processes /\ Program[d] \in Programs /\ txn[Program[d]].mode = "read"
    BY <1>16, LockMode, ProgramOf DEF SnapshotPermits, At, InLock, Mode, Processes
  <2>2. View(Program[d]) \in Database
    BY <2>1, ViewType
  <2>3. read[d].revision \in Nat /\ read[d].captured \in Times
    <3>1. call[d] \in SnapshotCall
      BY <1>16, <2>1, LockMode DEF SnapshotPermits, At, InLock
    <3>2. read[d] = [revision |-> txn[Program[d]].view.revision, captured |-> call[d].captured]
      BY <1>16, <2>1, <3>1 DEF ThreadInv, ReadSoFar, SnapshotPermits, At, SnapshotCall
    <3>3. txn[Program[d]].view \in Database
      BY <2>1, ViewType
    <3> QED BY <3>1, <3>2, <3>3 DEF Database, SnapshotCall
  <2>4. read' \in [Processes -> Read]
    BY <1>16, <2>1, <2>2, <2>3 DEF SnapshotPermits, TypeOK, Read, Database
  <2> QED BY <1>16, <2>1, <2>4 DEF SnapshotPermits, Jump, TypeOK, InLock, callerVars
<1>17. ASSUME NEW d \in Deciders, SnapshotObservations(d) PROVE TypeOK'
  <2>1. d \in Processes /\ Program[d] \in Programs /\ txn[Program[d]].mode = "read"
    BY <1>17, LockMode, ProgramOf DEF SnapshotObservations, At, InLock, Mode, Processes
  <2>2. View(Program[d]) \in Database
    BY <2>1, ViewType
  <2>3. read[d].revision \in Nat /\ read[d].captured \in Times /\ read[d].records \in Tables
    <3>1. call[d] \in SnapshotCall
      BY <1>17, <2>1, LockMode DEF SnapshotObservations, At, InLock
    <3>2. read[d] = [revision |-> txn[Program[d]].view.revision, captured |-> call[d].captured,
                     records |-> txn[Program[d]].view.permits]
      BY <1>17, <2>1, <3>1 DEF ThreadInv, ReadSoFar, SnapshotObservations, At, SnapshotCall
    <3>3. txn[Program[d]].view \in Database
      BY <2>1, ViewType
    <3> QED BY <3>1, <3>2, <3>3 DEF Database, SnapshotCall
  <2>4. read' \in [Processes -> Read]
    BY <1>17, <2>1, <2>2, <2>3 DEF SnapshotObservations, TypeOK, Read, Snapshot, Database
  <2> QED BY <1>17, <2>1, <2>4 DEF SnapshotObservations, Jump, TypeOK, InLock, callerVars
<1>18. ASSUME NEW d \in Deciders, SnapshotCommit(d) PROVE TypeOK'
  <2>1. d \in Processes /\ Program[d] \in Programs /\ txn[Program[d]].mode = "read"
    BY <1>18, LockMode, ProgramOf DEF SnapshotCommit, At, InLock, Mode, Processes
  <2>2. txn[Program[d]].view \in Database
    BY <2>1, ViewType
  <2>3. read[d] \in Snapshot
    <3>1. call[d] \in SnapshotCall
      BY <1>18, <2>1, LockMode DEF SnapshotCommit, At, InLock
    <3>2. read[d] = [revision |-> txn[Program[d]].view.revision, captured |-> call[d].captured,
                     records |-> txn[Program[d]].view.permits,
                     observations |-> txn[Program[d]].view.observations]
      BY <1>18, <2>1, <3>1 DEF ThreadInv, ReadSoFar, SnapshotCommit, At, SnapshotCall
    <3>3. txn[Program[d]].view \in Database
      BY <2>1, ViewType
    <3> QED BY <3>1, <3>2, <3>3 DEF Database, SnapshotCall, Snapshot
  <2>4. snapshot' \in [Deciders -> Snapshot \cup {NoSnapshot}]
    BY <1>18, <2>3 DEF SnapshotCommit, TypeOK
  <2>5. txn' \in [Programs -> Transaction] /\ read' \in [Processes -> Read]
    BY <1>18, <2>1 DEF SnapshotCommit, TypeOK, Transaction, Read, NothingRead
  <2> QED BY <1>18, <2>1, <2>4, <2>5 DEF SnapshotCommit, Jump, TypeOK, InLock
<1>19. ASSUME NEW d \in Deciders, ReserveRevision(d) PROVE TypeOK'
  <2>1. d \in Processes /\ call[d] \in ReserveCall
    BY <1>19, LockMode DEF ReserveRevision, At, InLock, Processes
  <2>2. CASE GiveUp(d, "STATE_CHANGED")
    BY <2>1, <2>2, GiveUpType DEF Reasons
  <2>3. CASE ~GiveUp(d, "STATE_CHANGED")
    <3>1. call[d].request.observations \in SUBSET Observation
      BY <2>1, StatementAssumption DEF ReserveCall
    <3>2. [read[d] EXCEPT !.todo = call[d].request.observations] \in Read
      BY <2>1, <3>1, TodoType DEF TypeOK
    <3>3. read' = [read EXCEPT ![d] = [read[d] EXCEPT !.todo = call[d].request.observations]]
          /\ Jump(d, "bindings") /\ UNCHANGED <<disk, txn, lock, call, callerVars>>
      BY <1>19, <2>3 DEF ReserveRevision
    <3>4. read' \in [Processes -> Read]
      BY <3>2, <3>3 DEF TypeOK
    <3> QED BY <2>1, <3>3, <3>4 DEF Jump, TypeOK, InLock, callerVars
  <2> QED BY <1>19, <2>2, <2>3 DEF ReserveRevision
<1>20. ASSUME NEW d \in Deciders, ReserveInsert(d) PROVE TypeOK'
  <2>1. /\ d \in Processes /\ Program[d] \in Programs /\ call[d] \in ReserveCall
        /\ txn[Program[d]].mode = "write"
    BY <1>20, LockMode, ProgramOf DEF ReserveInsert, At, InLock, Processes
  <2>2. CASE GiveUp(d, "REPLAY_DETECTED")
    BY <2>1, <2>2, GiveUpType DEF Reasons
  <2>3. CASE ~GiveUp(d, "REPLAY_DETECTED")
    <3> DEFINE row == [state |-> "RESERVED", request |-> call[d].request,
                       issued |-> snapshot[d].captured,
                       expires |-> Expiry(call[d].request, snapshot[d].captured)]
               view == [txn[Program[d]].view EXCEPT !.permits[call[d].permit] = row]
    <3>1. /\ txn' = [txn EXCEPT ![Program[d]].view = view] /\ Jump(d, "count")
          /\ UNCHANGED <<disk, lock, callVars, callerVars>>
      BY <1>20, <2>3 DEF ReserveInsert
    <3>2. snapshot[d] \in Snapshot
      BY <1>20, <2>1 DEF ThreadInv, DeciderHand, TypeOK, ReserveInsert, At
    <3>3. row \in Permit
      BY <2>1, <3>2, ExpiryType DEF Snapshot, Permit, ReserveCall
    <3>4. txn[Program[d]].view \in Database
      BY <2>1, ViewType
    <3>5. [txn[Program[d]].view.permits EXCEPT ![call[d].permit] = row] \in Tables
      <4> HIDE DEF row
      <4> QED BY <3>3, <3>4 DEF Database, Tables
    <3>6. view \in Database
      <4> HIDE DEF row
      <4> QED BY <3>4, <3>5 DEF Database
    <3>7. txn' \in [Programs -> Transaction]
      <4> HIDE DEF view
      <4> QED BY <2>1, <3>1, <3>6, StatementType
    <3> QED BY <2>1, <3>1, <3>7 DEF Jump, TypeOK, InLock, callVars, callerVars
  <2> QED BY <2>2, <2>3
<1>21. ASSUME NEW d \in Deciders, ReserveCommit(d) PROVE TypeOK'
  <2>1. /\ d \in Processes /\ Program[d] \in Programs /\ call[d] \in ReserveCall
        /\ txn[Program[d]].mode = "write"
    BY <1>21, LockMode, ProgramOf DEF ReserveCommit, At, InLock, Processes
  <2>2. disk' \in Database
    BY <1>21, <2>1, ViewType DEF ReserveCommit, Commit
  <2>3. answer' \in [Deciders -> Answer \cup {NoAnswer}]
    BY <1>21, <2>1 DEF ReserveCommit, TypeOK, Answer, Reasons, ReserveCall
  <2>4. Commit(d) /\ UNCHANGED <<lock, held, acts>> /\ snapshot' = [snapshot EXCEPT ![d] = NoSnapshot]
    BY <1>21 DEF ReserveCommit
  <2>5. txn' \in [Programs -> Transaction] /\ read' \in [Processes -> Read]
    BY <2>1, <2>4 DEF Commit, TypeOK, Transaction, Read, NothingRead
  <2>6. pc' \in [Processes -> Down \cup Between \cup {"entering"} \cup InLock]
    BY <2>1, <2>4 DEF Commit, Jump, TypeOK, InLock
  <2> QED BY <2>1, <2>2, <2>3, <2>4, <2>5, <2>6 DEF Commit, TypeOK
<1>22. ASSUME NEW a \in Adapters, ConsumeSelect(a) PROVE TypeOK'
  <2>1. a \in Processes
    BY DEF Processes
  <2>2. CASE GiveUp(a, "PAUSE")
    BY <1>22, <2>1, <2>2, GiveUpType DEF ConsumeSelect, At
  <2>3. CASE Jump(a, "update") /\ UNCHANGED <<disk, txn, lock, callVars, callerVars>>
    BY <2>1, <2>3 DEF Jump, TypeOK, InLock, callVars, callerVars
  <2> QED BY <1>22, <2>2, <2>3 DEF ConsumeSelect
<1>23. ASSUME NEW a \in Adapters, ConsumeUpdate(a) \/ FinishUpdate(a) PROVE TypeOK'
  <2>1. /\ a \in Processes /\ Program[a] \in Programs /\ txn[Program[a]].mode = "write"
        /\ ConsumeUpdate(a) => call[a] \in ConsumeCall
        /\ FinishUpdate(a) => call[a] \in FinishCall
    BY <1>23, LockMode, ProgramOf DEF ConsumeUpdate, FinishUpdate, At, InLock, Processes
  <2>2. PICK id \in PermitIds, state \in {"ATTEMPTED", "SUCCEEDED", "FAILED"} :
          /\ Present(txn[Program[a]].view.permits, id)
          /\ txn' = [txn EXCEPT ![Program[a]].view =
                       [txn[Program[a]].view EXCEPT !.permits[id].state = state]]
    <3>1. CASE ConsumeUpdate(a)
      BY <2>1, <3>1 DEF ConsumeUpdate, ConsumeCall, At, ThreadInv, ConsumeWritten, Moved, Consumable,
         Present
    <3>2. CASE FinishUpdate(a)
      <4>1. held[a] \in Holding
        BY <2>1, <3>2 DEF FinishUpdate, At, ThreadInv, AdapterHand, TypeOK
      <4>2. View(Program[a]) = txn[Program[a]].view
        BY <2>1, ViewType
      <4> QED BY <2>1, <3>2, <4>1, <4>2 DEF FinishUpdate, FinishCall, Holding, Present
    <3> QED BY <1>23, <3>1, <3>2
  <2> DEFINE rows == txn[Program[a]].view.permits
             view == [txn[Program[a]].view EXCEPT !.permits[id].state = state]
  <2>3. txn[Program[a]].view \in Database /\ rows[id] \in Permit
    <3>1. txn[Program[a]].view \in Database
      BY <2>1, ViewType
    <3>2. rows \in Tables
      BY <3>1 DEF Database
    <3>3. rows[id] \in Permit \cup {NoPermit}
      BY <3>2 DEF Tables
    <3> QED BY <2>2, <3>1, <3>3 DEF Present, NoPermit
  <2>4. [rows[id] EXCEPT !.state = state] \in Permit
    BY <2>3 DEF Permit
  <2>5. [rows EXCEPT ![id].state = state] \in Tables
    <3>1. rows \in Tables
      BY <2>3 DEF Database
    <3> HIDE DEF rows
    <3> QED BY <2>4, <3>1 DEF Tables
  <2>6. view \in Database
    BY <2>3, <2>5 DEF Database
  <2>7. txn' \in [Programs -> Transaction]
    <3>1. txn' = [txn EXCEPT ![Program[a]].view = view]
      BY <2>2
    <3> HIDE DEF view
    <3> QED BY <2>1, <2>6, <3>1, StatementType
  <2> QED BY <1>23, <2>1, <2>7 DEF ConsumeUpdate, FinishUpdate, Jump, TypeOK, InLock,
          callVars, callerVars
<1>24. ASSUME NEW a \in Adapters, ConsumeCommit(a) \/ FinishCommit(a) PROVE TypeOK'
  <2>1. /\ a \in Processes /\ Program[a] \in Programs /\ txn[Program[a]].mode = "write"
        /\ ConsumeCommit(a) => call[a] \in ConsumeCall
    BY <1>24, LockMode, ProgramOf DEF ConsumeCommit, FinishCommit, At, InLock, Processes
  <2>2. disk' \in Database
    BY <1>24, <2>1, ViewType DEF ConsumeCommit, FinishCommit, Commit
  <2>3. held' \in [Adapters -> Holding \cup {NothingHeld}]
    BY <1>24, <2>1 DEF ConsumeCommit, FinishCommit, TypeOK, Holding, ConsumeCall
  <2>4. Commit(a) /\ UNCHANGED <<lock, snapshot, answer, acts>>
    BY <1>24 DEF ConsumeCommit, FinishCommit
  <2>5. txn' \in [Programs -> Transaction] /\ read' \in [Processes -> Read]
    BY <2>1, <2>4 DEF Commit, TypeOK, Transaction, Read, NothingRead
  <2>6. pc' \in [Processes -> Down \cup Between \cup {"entering"} \cup InLock]
    BY <2>1, <2>4 DEF Commit, Jump, TypeOK, InLock
  <2> QED BY <2>1, <2>2, <2>3, <2>4, <2>5, <2>6 DEF Commit, TypeOK
<1>25. ASSUME NEW a \in Adapters, Act(a) PROVE TypeOK'
  <2>1. acts' \in [PermitIds -> Nat]
    <3>1. held[a] \in Holding
      BY <1>25 DEF Act, ThreadInv, AdapterHand, TypeOK, Processes
    <3>2. held[a].permit \in PermitIds /\ acts' = [acts EXCEPT ![held[a].permit] = @ + 1]
      BY <1>25, <3>1 DEF Act, Holding
    <3> QED BY <3>2 DEF TypeOK
  <2> QED BY <1>25, <2>1 DEF Act, Jump, TypeOK, Between, Processes, callVars
<1>26. ASSUME NEW d \in Deciders, ReserveBinding(d) PROVE TypeOK'
  <2>1. /\ d \in Processes /\ Program[d] \in Programs /\ call[d] \in ReserveCall
        /\ txn[Program[d]].mode = "write"
    BY <1>26, LockMode, ProgramOf DEF ReserveBinding, At, InLock, Processes
  <2>2. CASE GiveUp(d, "CONFLICTING_HANDOFF")
    BY <2>1, <2>2, GiveUpType DEF Reasons
  <2>3. CASE ~GiveUp(d, "CONFLICTING_HANDOFF")
    <3>1. PICK o \in read[d].todo :
            /\ txn' = [txn EXCEPT ![Program[d]].view.observations = @ \cup {o}]
            /\ read' = [read EXCEPT ![d].todo = @ \ {o}]
            /\ Jump(d, IF read[d].todo = {o} THEN "insert" ELSE "bindings")
            /\ UNCHANGED <<disk, lock, call, callerVars>>
      BY <1>26, <2>3 DEF ReserveBinding
    <3>2. read[d].todo \in SUBSET Observation
      BY <1>26, <2>1, StatementAssumption DEF ReserveBinding, At, ThreadInv, ReserveWritten, ReserveCall
    <3> DEFINE view == [txn[Program[d]].view EXCEPT !.observations = @ \cup {o}]
    <3>3. txn[Program[d]].view \in Database
      BY <2>1, ViewType
    <3>4. view \in Database
      BY <3>2, <3>3 DEF Database
    <3>5. txn' \in [Programs -> Transaction]
      <4>1. txn' = [txn EXCEPT ![Program[d]].view = view]
        BY <3>1
      <4> HIDE DEF view
      <4> QED BY <2>1, <3>4, <4>1, StatementType
    <3>6. [read[d] EXCEPT !.todo = read[d].todo \ {o}] \in Read
      BY <2>1, <3>2, TodoType DEF TypeOK
    <3>7. read' \in [Processes -> Read]
      BY <3>1, <3>6 DEF TypeOK
    <3>8. pc' \in [Processes -> Down \cup Between \cup {"entering"} \cup InLock]
      BY <3>1 DEF Jump, TypeOK, InLock
    <3> QED BY <3>1, <3>5, <3>7, <3>8 DEF TypeOK, callerVars
  <2> QED BY <2>2, <2>3
<1>27. CASE UNCHANGED vars
  BY <1>27 DEF vars, TypeOK
<1> QED
  BY <1>1, <1>2, <1>3, <1>4, <1>5, <1>6, <1>7, <1>8, <1>9, <1>10, <1>11, <1>12, <1>13, <1>14,
     <1>15, <1>16, <1>17, <1>18, <1>19, <1>20, <1>21, <1>22, <1>23, <1>24, <1>25, <1>26, <1>27
  DEF Next, Opening, CallOf, Proceed, SnapshotStatement, ReserveStatement, AdapterStatement

-----------------------------------------------------------------------------
\* A step of one thread leaves the others, and what they know, alone.
Local(p) ==
  /\ \A q \in Processes \ {p} : pc'[q] = pc[q] /\ call'[q] = call[q]
  /\ \A g \in Programs \ {Program[p]} : lock'[g] = lock[g] /\ txn'[g].mode = txn[g].mode

\* A thread that was not down and is not, in a step of its own.
LEMMA LocalLock ==
  ASSUME TypeOK, LockInv, NEW p \in Processes, Local(p),
         pc[p] \notin Down, pc'[p] \notin Down, ThreadLock(p)',
         \/ lock[Program[p]] \in {p, Nobody} /\ lock'[Program[p]] \in {p, Nobody}
         \/ lock'[Program[p]] = lock[Program[p]] /\ txn'[Program[p]].mode = txn[Program[p]].mode,
         lock'[Program[p]] = Nobody => txn'[Program[p]].mode = "none",
         txn'[Program[p]].mode = "write" => txn[Program[p]].mode = "write" \/ NobodyWrites
  PROVE  LockInv'
<1> DEFINE g0 == Program[p]
<1>0. g0 \in Programs /\ p \in g0 /\ \A g \in Programs : p \in g => g = g0
  BY ProgramOf
<1>1. ASSUME NEW q \in Processes PROVE ThreadLock(q)'
  <2>1. CASE q = p
    BY <2>1
  <2>2. CASE q # p /\ Program[q] # g0
    <3>1. Program[q] \in Programs
      BY ProgramOf
    <3>2. ThreadLock(q)
      BY DEF LockInv
    <3> QED BY <2>2, <3>1, <3>2 DEF Local, ThreadLock, Mode
  <2>3. CASE q # p /\ Program[q] = g0
    <3>1. ThreadLock(q) /\ q # Nobody /\ p # Nobody
      BY StatementAssumption DEF LockInv
    <3>2. pc'[q] = pc[q] /\ call'[q] = call[q]
      BY <2>3 DEF Local
    <3>3. \/ lock[g0] # q /\ lock'[g0] # q
          \/ lock'[g0] = lock[g0] /\ txn'[g0].mode = txn[g0].mode
      BY <2>3, <3>1
    <3> QED BY <2>3, <3>1, <3>2, <3>3 DEF ThreadLock, Mode
  <2> QED BY <2>1, <2>2, <2>3
<1>2. ASSUME NEW g \in Programs PROVE ProgramLock(g)'
  <2>0. ProgramLock(g)
    BY DEF LockInv
  <2>1. CASE g # g0
    <3>1. \A q \in g : q # p /\ q \in Processes
      BY <1>0, <2>1, ThreadAssumption
    <3>2. \A q \in g : pc'[q] = pc[q]
      BY <3>1 DEF Local
    <3> QED BY <2>0, <2>1, <3>2 DEF ProgramLock, All, Local
  <2>2. CASE g = g0
    <3>1. \A q \in g : pc[q] \notin Down
      BY <1>0, <2>0, <2>2 DEF ProgramLock, All, Down
    <3>2. \A q \in g : pc'[q] \notin Down
      BY <1>0, <2>2, <3>1, ThreadAssumption DEF Local
    <3>3. ~All(g, "opening")' /\ ~All(g, "checking")'
      BY <1>0, <2>2, <3>2 DEF All, Down
    <3> QED BY <1>0, <2>0, <2>2, <3>2, <3>3 DEF ProgramLock
  <2> QED BY <2>1, <2>2
<1>3. OneWriter'
  <2>1. \A g \in Programs \ {g0} : txn'[g].mode = txn[g].mode
    BY DEF Local
  <2>2. OneWriter
    BY DEF LockInv
  <2> QED BY <1>0, <2>1, <2>2 DEF OneWriter, NobodyWrites
<1> QED BY <1>1, <1>2, <1>3 DEF LockInv

\* A step that all the threads of a program make together.
LEMMA TogetherLock ==
  ASSUME TypeOK, LockInv, NEW g \in Programs, NEW label \in Down \cup {"idle"},
         Go(g, label), \A p \in g : call'[p] = NoCall,
         \A p \in Processes \ g : call'[p] = call[p],
         lock'[g] = Nobody,
         \A h \in Programs \ {g} : lock'[h] = lock[h] /\ txn'[h].mode = txn[h].mode,
         txn'[g].mode = IF label \in {"opening", "checking"} THEN "write" ELSE "none",
         txn'[g].mode = "write" => txn[g].mode = "write" \/ NobodyWrites
  PROVE  LockInv'
<1>1. ASSUME NEW p \in Processes PROVE ThreadLock(p)'
  <2>1. CASE p \in g
    <3>1. Program[p] = g /\ p # Nobody
      BY <2>1, ProgramOf, StatementAssumption
    <3> QED BY <2>1, <3>1 DEF ThreadLock, Labelled, Go, Down, Between, InLock, NoCall
  <2>2. CASE p \notin g
    <3>1. Program[p] \in Programs \ {g}
      BY <2>2, ProgramOf
    <3>2. ThreadLock(p)
      BY DEF LockInv
    <3> QED BY <2>2, <3>1, <3>2 DEF ThreadLock, Go, Mode
  <2> QED BY <2>1, <2>2
<1>2. ASSUME NEW h \in Programs PROVE ProgramLock(h)'
  <2>1. ProgramLock(h) /\ \E p \in h : p \in Processes
    BY ThreadAssumption DEF LockInv
  <2>2. CASE h # g
    <3>1. \A p \in h : pc'[p] = pc[p]
      BY <2>2, ThreadAssumption DEF Go
    <3> QED BY <2>1, <2>2, <3>1 DEF ProgramLock, All
  <2>3. CASE h = g
    <3>1. \A p \in g : pc'[p] = label
      BY ThreadAssumption DEF Go
    <3> QED BY <2>1, <2>3, <3>1 DEF ProgramLock, All, Down
  <2> QED BY <2>2, <2>3
<1>3. OneWriter'
  BY DEF LockInv, OneWriter, NobodyWrites
<1> QED BY <1>1, <1>2, <1>3 DEF LockInv

\* A thread that is in no method.
LEMMA OutsideLock ==
  ASSUME TypeOK, LockInv, NEW p \in Processes, pc[p] \in Between,
         NEW label \in Between \cup {"entering"}, Jump(p, label), UNCHANGED <<lock, txn>>,
         \A q \in Processes \ {p} : call'[q] = call[q],
         Labelled(call'[p], label),
         p \in Deciders => call'[p].op \notin {"consume", "finish"},
         p \in Adapters => call'[p].op \notin {"snapshot", "reserve"}
  PROVE  LockInv'
<1>1. Program[p] \in Programs /\ p \in Program[p] /\ pc'[p] = label
  BY ProgramOf DEF TypeOK, Jump
<1>2. ThreadLock(p) /\ ProgramLock(Program[p])
  BY <1>1 DEF LockInv
<1>3. Local(p)
  BY DEF Local, Jump, TypeOK
<1>4. ThreadLock(p)'
  BY <1>1, <1>2 DEF ThreadLock, Between, InLock
<1>5. lock'[Program[p]] = Nobody => txn'[Program[p]].mode = "none"
  BY <1>1, <1>2 DEF ProgramLock, All, Between
<1>6. pc[p] \notin Down /\ pc'[p] \notin Down
  BY <1>1 DEF Between, Down
<1> QED BY <1>3, <1>4, <1>5, <1>6, LocalLock

\* A statement of the thread in the lock.
LEMMA InsideLock ==
  ASSUME TypeOK, LockInv, NEW p \in Processes, pc[p] \in InLock,
         NEW label \in InLock, Jump(p, label), UNCHANGED lock,
         \A q \in Processes \ {p} : call'[q] = call[q],
         call'[p] = call[p] \/ call'[p] = NoCall,
         Labelled(call'[p], label),
         \A g \in Programs \ {Program[p]} : txn'[g].mode = txn[g].mode,
         txn'[Program[p]].mode = Mode(p)',
         txn'[Program[p]].mode = "write" => txn[Program[p]].mode = "write" \/ NobodyWrites
  PROVE  LockInv'
<1>1. Program[p] \in Programs /\ pc'[p] = label /\ p # Nobody
  BY ProgramOf, StatementAssumption DEF TypeOK, Jump
<1>2. ThreadLock(p) /\ lock[Program[p]] = p
  BY LockMode DEF LockInv
<1>3. Local(p)
  BY DEF Local, Jump, TypeOK
<1>4. ThreadLock(p)'
  BY <1>1, <1>2 DEF ThreadLock, NoCall
<1>6. pc[p] \notin Down /\ pc'[p] \notin Down
  BY <1>1 DEF InLock, Down
<1> QED BY <1>1, <1>2, <1>3, <1>4, <1>6, LocalLock

LEMMA GiveUpLock ==
  ASSUME TypeOK, LockInv, NEW p \in Processes, pc[p] \in InLock, NEW reason, GiveUp(p, reason)
  PROVE  LockInv'
<1>1. Program[p] \in Programs /\ pc'[p] = "leaving" /\ call'[p] = NoCall
  BY ProgramOf DEF TypeOK, GiveUp, Jump
<1>2. Labelled(call'[p], "leaving")
  BY <1>1 DEF Labelled
<1>3. /\ txn'[Program[p]].mode = Mode(p)' /\ txn'[Program[p]].mode # "write"
      /\ \A g \in Programs \ {Program[p]} : txn'[g].mode = txn[g].mode
  BY <1>1 DEF GiveUp, TypeOK, NoTxn, Mode
<1>4. \A q \in Processes \ {p} : call'[q] = call[q]
  BY DEF GiveUp, TypeOK
<1>5. Jump(p, "leaving") /\ UNCHANGED lock
  BY DEF GiveUp
<1> QED BY <1>1, <1>2, <1>3, <1>4, <1>5, InsideLock DEF InLock

LEMMA CommitLock ==
  ASSUME TypeOK, LockInv, NEW p \in Processes, pc[p] \in InLock, Commit(p), UNCHANGED lock
  PROVE  LockInv'
<1>1. Program[p] \in Programs /\ pc'[p] = "leaving" /\ call'[p] = NoCall
  BY ProgramOf DEF TypeOK, Commit, Jump
<1>2. Labelled(call'[p], "leaving")
  BY <1>1 DEF Labelled
<1>3. /\ txn'[Program[p]].mode = Mode(p)' /\ txn'[Program[p]].mode # "write"
      /\ \A g \in Programs \ {Program[p]} : txn'[g].mode = txn[g].mode
  BY <1>1 DEF Commit, TypeOK, NoTxn, Mode
<1>4. \A q \in Processes \ {p} : call'[q] = call[q]
  BY DEF Commit, TypeOK
<1>5. Jump(p, "leaving")
  BY DEF Commit
<1> QED BY <1>1, <1>2, <1>3, <1>4, <1>5, InsideLock DEF InLock

\* A statement that goes on to another one, in the transaction it is in.
LEMMA GoOnLock ==
  ASSUME TypeOK, LockInv, NEW p \in Processes, pc[p] \in InLock \ {"begin", "leaving"},
         NEW label \in InLock \ {"begin", "leaving"}, Jump(p, label), UNCHANGED <<lock, call>>,
         Labelled(call[p], label),
         call[p].op # "snapshot" \/ (pc[p] # "revision" /\ label # "revision"),
         \A g \in Programs : txn'[g].mode = txn[g].mode
  PROVE  LockInv'
<1>1. Program[p] \in Programs /\ pc'[p] = label
  BY ProgramOf DEF TypeOK, Jump
<1>2. txn'[Program[p]].mode = Mode(p)'
  BY <1>1, LockMode DEF Mode
<1> QED BY <1>1, <1>2, InsideLock

LEMMA ViewMode ==
  ASSUME TypeOK, NEW g \in Programs, NEW view, txn' = [txn EXCEPT ![g].view = view]
  PROVE  \A h \in Programs : txn'[h].mode = txn[h].mode
<1>1. txn[g] \in Transaction
  BY DEF TypeOK
<1>2. [txn[g] EXCEPT !.view = view].mode = txn[g].mode
  BY <1>1 DEF Transaction, NoTxn, Deferred
<1>3. txn' = [txn EXCEPT ![g] = [txn[g] EXCEPT !.view = view]]
  OBVIOUS
<1> HIDE DEF Transaction
<1> QED BY <1>2, <1>3 DEF TypeOK

\* What the labels of a call are.
LEMMA Labels ==
  ASSUME TypeOK, LockInv, NEW p \in Processes
  PROVE  /\ Labelled(call[p], pc[p])
         /\ pc[p] \in Between \/ pc[p] = "leaving" => call[p] = NoCall
         /\ call[p].op = "snapshot" => call[p] \in SnapshotCall
         /\ call[p].op = "reserve" => call[p] \in ReserveCall
         /\ call[p].op = "consume" => call[p] \in ConsumeCall
         /\ call[p].op = "finish" => call[p] \in FinishCall
<1>1. Labelled(call[p], pc[p])
  BY DEF LockInv, ThreadLock
<1>2. call[p] \in {NoCall} \cup SnapshotCall \cup ReserveCall \cup ConsumeCall \cup FinishCall
  BY DEF TypeOK
<1> QED BY <1>1, <1>2 DEF Labelled, Between, NoCall, SnapshotCall, ReserveCall, ConsumeCall,
        FinishCall

LEMMA LockInit == Init => LockInv
<1> SUFFICES ASSUME Init PROVE LockInv
  OBVIOUS
<1>1. ASSUME NEW p \in Processes PROVE ThreadLock(p)
  BY ProgramOf, StatementAssumption DEF Init, ThreadLock, Labelled, Down, NoCall, InLock
<1>2. ASSUME NEW g \in Programs PROVE ProgramLock(g)
  BY ThreadAssumption DEF Init, ProgramLock, All, NoTxn
<1> QED BY <1>1, <1>2 DEF Init, LockInv, OneWriter, NoTxn

LEMMA LockNext == TypeOK /\ LockInv /\ [Next]_vars => LockInv'
<1> SUFFICES ASSUME TypeOK, LockInv, [Next]_vars PROVE LockInv'
  OBVIOUS
<1>1. ASSUME NEW g \in Programs, OpenBegin(g) PROVE LockInv'
  <2>1. lock[g] = Nobody /\ \A p \in g : call[p] = NoCall
    BY <1>1, DownMode DEF OpenBegin, All, Down
  <2>2. txn'[g].mode = "write" /\ \A h \in Programs \ {g} : txn'[h] = txn[h]
    BY <1>1 DEF OpenBegin, TypeOK
  <2> QED BY <1>1, <2>1, <2>2, TogetherLock, ThreadAssumption DEF OpenBegin, Down, callVars
<1>2. ASSUME NEW g \in Programs, OpenInsert(g) PROVE LockInv'
  <2>1. lock[g] = Nobody /\ txn[g].mode = "write" /\ \A p \in g : call[p] = NoCall
    BY <1>2, DownMode DEF OpenInsert, All, Down
  <2>2. \A h \in Programs : txn'[h].mode = txn[h].mode
    BY <1>2, ViewMode DEF OpenInsert
  <2> QED BY <1>2, <2>1, <2>2, TogetherLock DEF OpenInsert, Down, callVars
<1>3. ASSUME NEW g \in Programs, OpenCheck(g) PROVE LockInv'
  <2>1. lock[g] = Nobody /\ \A p \in g : call[p] = NoCall
    BY <1>3, DownMode DEF OpenCheck, All, Down
  <2>2. txn'[g].mode = "none" /\ \A h \in Programs \ {g} : txn'[h] = txn[h]
    BY <1>3 DEF OpenCheck, TypeOK, NoTxn
  <2>3. UNCHANGED <<lock, call>>
    BY <1>3 DEF OpenCheck, callVars
  <2>4. CASE Go(g, "idle")
    BY <2>1, <2>2, <2>3, <2>4, TogetherLock DEF Down
  <2>5. CASE Go(g, "closed")
    BY <2>1, <2>2, <2>3, <2>5, TogetherLock DEF Down
  <2> QED BY <1>3, <2>4, <2>5 DEF OpenCheck
<1>4. ASSUME NEW g \in Programs, Kill(g) PROVE LockInv'
  <2>1. \A p \in g : call'[p] = NoCall
    BY <1>4, ThreadAssumption DEF Kill
  <2>2. \A p \in Processes \ g : call'[p] = call[p]
    BY <1>4 DEF Kill
  <2>3. txn'[g].mode = "none" /\ lock'[g] = Nobody
    BY <1>4 DEF Kill, TypeOK, NoTxn
  <2>4. \A h \in Programs \ {g} : lock'[h] = lock[h] /\ txn'[h] = txn[h]
    BY <1>4 DEF Kill, TypeOK
  <2>5. Go(g, "closed")
    BY <1>4 DEF Kill
  <2> QED BY <2>1, <2>2, <2>3, <2>4, <2>5, TogetherLock DEF Down
<1>5. ASSUME NEW d \in Deciders, NEW t \in Times, CallSnapshot(d, t) PROVE LockInv'
  <2>1. d \in Processes /\ d \notin Adapters
    BY ThreadAssumption DEF Processes
  <2>2. call' = [call EXCEPT ![d] = [op |-> "snapshot", captured |-> t]] /\ Jump(d, "entering")
    BY <1>5 DEF CallSnapshot, Enter
  <2>3. call'[d] \in SnapshotCall
    BY <2>1, <2>2 DEF TypeOK, SnapshotCall
  <2>4. Labelled(call'[d], "entering") /\ call'[d].op = "snapshot"
    BY <2>3 DEF Labelled, SnapshotCall
  <2>5. \A q \in Processes \ {d} : call'[q] = call[q]
    BY <2>2 DEF TypeOK
  <2> QED BY <1>5, <2>1, <2>2, <2>4, <2>5, OutsideLock DEF CallSnapshot, Between
<1>6. ASSUME NEW d \in Deciders, NEW r \in Requests, NEW id \in PermitIds, CallReserve(d, r, id)
      PROVE  LockInv'
  <2>1. d \in Processes /\ d \notin Adapters
    BY ThreadAssumption DEF Processes
  <2>2. /\ call' = [call EXCEPT ![d] = [op |-> "reserve", request |-> r, permit |-> id]]
        /\ Jump(d, "entering")
    BY <1>6 DEF CallReserve, Enter
  <2>3. call'[d] \in ReserveCall
    BY <2>1, <2>2 DEF TypeOK, ReserveCall
  <2>4. Labelled(call'[d], "entering") /\ call'[d].op = "reserve"
    BY <2>3 DEF Labelled, ReserveCall
  <2>5. \A q \in Processes \ {d} : call'[q] = call[q]
    BY <2>2 DEF TypeOK
  <2> QED BY <1>6, <2>1, <2>2, <2>4, <2>5, OutsideLock DEF CallReserve, Between
<1>7. ASSUME NEW a \in Adapters, NEW id \in PermitIds, NEW r \in Requests, NEW now \in Times,
             CallConsume(a, id, r, now)
      PROVE  LockInv'
  <2>1. a \in Processes /\ a \notin Deciders
    BY ThreadAssumption DEF Processes
  <2>2. /\ call' = [call EXCEPT ![a] = [op |-> "consume", permit |-> id, request |-> r, at |-> now]]
        /\ Jump(a, "entering")
    BY <1>7 DEF CallConsume, Enter
  <2>3. call'[a] \in ConsumeCall
    BY <2>1, <2>2 DEF TypeOK, ConsumeCall
  <2>4. Labelled(call'[a], "entering") /\ call'[a].op = "consume"
    BY <2>3 DEF Labelled, ConsumeCall
  <2>5. \A q \in Processes \ {a} : call'[q] = call[q]
    BY <2>2 DEF TypeOK
  <2> QED BY <1>7, <2>1, <2>2, <2>4, <2>5, OutsideLock DEF CallConsume, Between
<1>8. ASSUME NEW a \in Adapters, NEW outcome \in {"SUCCEEDED", "FAILED"}, CallFinish(a, outcome)
      PROVE  LockInv'
  <2>1. a \in Processes /\ a \notin Deciders
    BY ThreadAssumption DEF Processes
  <2>2. /\ call' = [call EXCEPT ![a] = [op |-> "finish", outcome |-> outcome]]
        /\ Jump(a, "entering")
    BY <1>8 DEF CallFinish, Enter
  <2>3. call'[a] \in FinishCall
    BY <2>1, <2>2 DEF TypeOK, FinishCall
  <2>4. Labelled(call'[a], "entering") /\ call'[a].op = "finish"
    BY <2>3 DEF Labelled, FinishCall
  <2>5. \A q \in Processes \ {a} : call'[q] = call[q]
    BY <2>2 DEF TypeOK
  <2> QED BY <1>8, <2>1, <2>2, <2>4, <2>5, OutsideLock DEF CallFinish, Between
<1>9. ASSUME NEW p \in Processes, Acquire(p) PROVE LockInv'
  <2>1. Program[p] \in Programs /\ p \in Program[p] /\ p # Nobody
    BY ProgramOf, StatementAssumption
  <2>2. ThreadLock(p) /\ ProgramLock(Program[p])
    BY <2>1 DEF LockInv
  <2>3. pc'[p] = "begin" /\ lock'[Program[p]] = p /\ UNCHANGED <<txn, call>>
    BY <1>9, <2>1 DEF Acquire, Jump, TypeOK, callVars
  <2>4. Local(p)
    BY <1>9, <2>1 DEF Local, Acquire, Jump, TypeOK, callVars
  <2>5. txn[Program[p]].mode = "none"
    BY <1>9, <2>1, <2>2 DEF Acquire, ProgramLock, All
  <2>6. ThreadLock(p)'
    <3>1. Labelled(call[p], "begin")
      BY <1>9, <2>2 DEF Acquire, ThreadLock, Labelled, Down, Between
    <3> QED BY <2>2, <2>3, <2>5, <3>1 DEF ThreadLock, Mode, InLock
  <2>7. pc[p] \notin Down /\ pc'[p] \notin Down
    BY <1>9, <2>3 DEF Acquire, Down
  <2> QED BY <1>9, <2>1, <2>3, <2>4, <2>5, <2>6, <2>7, LocalLock DEF Acquire
<1>10. ASSUME NEW p \in Processes, BeginImmediate(p) PROVE LockInv'
  <2>1. Program[p] \in Programs /\ pc[p] = "begin" /\ NobodyWrites /\ UNCHANGED <<lock, call>>
    BY <1>10, ProgramOf DEF BeginImmediate, callVars
  <2>2. PICK label \in {"revision", "select", "update"} :
          /\ Jump(p, label)
          /\ \/ call[p].op = "reserve" /\ label = "revision"
             \/ call[p].op = "consume" /\ label = "select"
             \/ call[p].op = "finish" /\ label = "update"
    BY <1>10 DEF BeginImmediate, FirstStatement
  <2>3. Labelled(call[p], label)
    BY <2>2, Labels DEF Labelled
  <2>4. pc'[p] = label
    BY <2>2 DEF Jump, TypeOK
  <2>5. /\ txn'[Program[p]].mode = Mode(p)'
        /\ \A h \in Programs \ {Program[p]} : txn'[h] = txn[h]
    BY <1>10, <2>1, <2>2, <2>4 DEF BeginImmediate, Mode, TypeOK
  <2> QED BY <2>1, <2>2, <2>3, <2>4, <2>5, InsideLock DEF InLock
<1>11. ASSUME NEW p \in Processes, Busy(p) \/ DatabaseError(p) PROVE LockInv'
  <2>1. pc[p] \in InLock
    BY <1>11 DEF Busy, DatabaseError, InBody, InLock, LockInv, ThreadLock
  <2> QED BY <1>11, <2>1, GiveUpLock DEF Busy, DatabaseError
<1>12. ASSUME NEW p \in Processes, CountRevision(p) PROVE LockInv'
  <2>1. Program[p] \in Programs
    BY ProgramOf
  <2>2. \A h \in Programs : txn'[h].mode = txn[h].mode
    BY <1>12, <2>1, ViewMode DEF CountRevision
  <2>3. Labelled(call[p], "commit") /\ call[p].op # "snapshot"
    BY <1>12, Labels DEF CountRevision, Labelled, SnapshotCall, ReserveCall, ConsumeCall,
       FinishCall, NoCall, Down, Between
  <2> QED BY <1>12, <2>2, <2>3, GoOnLock DEF CountRevision, InLock, callVars
<1>13. ASSUME NEW p \in Processes, Leave(p) PROVE LockInv'
  <2>1. Program[p] \in Programs /\ p \in Program[p] /\ p # Nobody /\ pc[p] = "leaving"
    BY <1>13, ProgramOf, StatementAssumption DEF Leave
  <2>2. ThreadLock(p) /\ call[p] = NoCall
    BY <2>1, Labels DEF LockInv
  <2>3. lock[Program[p]] = p /\ txn[Program[p]].mode = "none"
    BY <2>1, LockMode DEF InLock, Mode
  <2>4. pc'[p] \in Between /\ lock'[Program[p]] = Nobody /\ UNCHANGED <<txn, call>>
    BY <1>13, <2>1 DEF Leave, Jump, TypeOK, callVars, Between
  <2>5. Local(p)
    BY <1>13, <2>1 DEF Local, Leave, Jump, TypeOK, callVars
  <2>6. ThreadLock(p)'
    BY <2>1, <2>2, <2>4 DEF ThreadLock, Labelled, Between, InLock
  <2>7. pc[p] \notin Down /\ pc'[p] \notin Down
    BY <2>1, <2>4 DEF Down, Between
  <2> QED BY <2>1, <2>3, <2>4, <2>5, <2>6, <2>7, LocalLock
<1>14. ASSUME NEW d \in Deciders, SnapshotBegin(d) PROVE LockInv'
  <2>1. d \in Processes /\ Program[d] \in Programs
    BY ProgramOf DEF Processes
  <2>2. /\ pc[d] = "begin" /\ call[d].op = "snapshot" /\ Jump(d, "revision")
        /\ UNCHANGED <<lock, call>>
    BY <1>14 DEF SnapshotBegin, At, callVars
  <2>3. Labelled(call[d], "revision")
    BY <2>1, <2>2, Labels DEF Labelled
  <2>4. /\ txn'[Program[d]].mode = Mode(d)' /\ txn'[Program[d]].mode # "write"
        /\ \A h \in Programs \ {Program[d]} : txn'[h] = txn[h]
    BY <1>14, <2>1, <2>2 DEF SnapshotBegin, Mode, Jump, TypeOK
  <2> QED BY <2>1, <2>2, <2>3, <2>4, InsideLock DEF InLock
<1>15. ASSUME NEW d \in Deciders, SnapshotRevision(d) PROVE LockInv'
  <2>1. d \in Processes /\ Program[d] \in Programs
    BY ProgramOf DEF Processes
  <2>2. /\ pc[d] = "revision" /\ call[d].op = "snapshot" /\ Jump(d, "permits")
        /\ UNCHANGED <<lock, call>>
    BY <1>15 DEF SnapshotRevision, At
  <2>3. Labelled(call[d], "permits")
    BY <2>1, <2>2, Labels DEF Labelled
  <2>4. txn[Program[d]].mode = "deferred"
    BY <2>1, <2>2, LockMode DEF InLock, Mode
  <2>5. /\ txn'[Program[d]].mode = "read"
        /\ \A h \in Programs \ {Program[d]} : txn'[h] = txn[h]
    BY <1>15, <2>1, <2>4 DEF SnapshotRevision, Pinned, TypeOK
  <2>6. Mode(d)' = "read"
    BY <2>1, <2>2 DEF Mode, Jump, TypeOK
  <2> QED BY <2>1, <2>2, <2>3, <2>5, <2>6, InsideLock DEF InLock
<1>16. ASSUME NEW d \in Deciders, SnapshotPermits(d) \/ SnapshotObservations(d) PROVE LockInv'
  <2>1. d \in Processes
    BY DEF Processes
  <2>2. PICK label \in {"observations", "commit"} :
          /\ pc[d] \in {"permits", "observations"} /\ call[d].op = "snapshot" /\ Jump(d, label)
          /\ UNCHANGED <<lock, call, txn>>
    BY <1>16 DEF SnapshotPermits, SnapshotObservations, At
  <2>3. Labelled(call[d], label)
    BY <2>1, <2>2, Labels DEF Labelled
  <2> QED BY <2>1, <2>2, <2>3, GoOnLock DEF InLock
<1>17. ASSUME NEW d \in Deciders, SnapshotCommit(d) PROVE LockInv'
  <2>1. d \in Processes /\ Program[d] \in Programs
    BY ProgramOf DEF Processes
  <2>2. /\ pc[d] = "commit" /\ Jump(d, "leaving") /\ UNCHANGED lock
        /\ call' = [call EXCEPT ![d] = NoCall] /\ txn' = [txn EXCEPT ![Program[d]] = NoTxn]
    BY <1>17 DEF SnapshotCommit, At
  <2>3. call'[d] = NoCall /\ Labelled(call'[d], "leaving")
    BY <2>1, <2>2 DEF TypeOK, Labelled
  <2>4. /\ txn'[Program[d]].mode = Mode(d)' /\ txn'[Program[d]].mode # "write"
        /\ \A h \in Programs \ {Program[d]} : txn'[h] = txn[h]
    BY <2>1, <2>2 DEF Mode, Jump, TypeOK, NoTxn
  <2>5. \A q \in Processes \ {d} : call'[q] = call[q]
    BY <2>2 DEF TypeOK
  <2> QED BY <2>1, <2>2, <2>3, <2>4, <2>5, InsideLock DEF InLock
<1>18. ASSUME NEW d \in Deciders, ReserveRevision(d) PROVE LockInv'
  <2>1. d \in Processes
    BY DEF Processes
  <2>2. pc[d] = "revision" /\ call[d].op = "reserve"
    BY <1>18 DEF ReserveRevision, At
  <2>3. CASE GiveUp(d, "STATE_CHANGED")
    BY <2>1, <2>2, <2>3, GiveUpLock DEF InLock
  <2>4. CASE Jump(d, "bindings") /\ UNCHANGED <<disk, txn, lock, call, callerVars>>
    <3>1. Labelled(call[d], "bindings")
      BY <2>1, <2>2, Labels DEF Labelled
    <3> QED BY <2>1, <2>2, <2>4, <3>1, GoOnLock DEF InLock
  <2> QED BY <1>18, <2>3, <2>4 DEF ReserveRevision
<1>19. ASSUME NEW d \in Deciders, ReserveBinding(d) PROVE LockInv'
  <2>1. d \in Processes /\ Program[d] \in Programs
    BY ProgramOf DEF Processes
  <2>2. pc[d] = "bindings" /\ call[d].op = "reserve"
    BY <1>19 DEF ReserveBinding, At
  <2>3. CASE GiveUp(d, "CONFLICTING_HANDOFF")
    BY <2>1, <2>2, <2>3, GiveUpLock DEF InLock
  <2>4. CASE ~GiveUp(d, "CONFLICTING_HANDOFF")
    <3>1. PICK o \in read[d].todo, label \in {"insert", "bindings"} :
            /\ txn' = [txn EXCEPT ![Program[d]].view.observations = @ \cup {o}]
            /\ Jump(d, label) /\ UNCHANGED <<lock, call>>
      BY <1>19, <2>4 DEF ReserveBinding
    <3>2. Labelled(call[d], label)
      BY <2>1, <2>2, Labels DEF Labelled
    <3>3. \A h \in Programs : txn'[h].mode = txn[h].mode
      BY <2>1, <3>1, ViewMode
    <3> QED BY <2>1, <2>2, <3>1, <3>2, <3>3, GoOnLock DEF InLock
  <2> QED BY <2>3, <2>4
<1>20. ASSUME NEW d \in Deciders, ReserveInsert(d) PROVE LockInv'
  <2>1. d \in Processes /\ Program[d] \in Programs
    BY ProgramOf DEF Processes
  <2>2. pc[d] = "insert" /\ call[d].op = "reserve"
    BY <1>20 DEF ReserveInsert, At
  <2>3. CASE GiveUp(d, "REPLAY_DETECTED")
    BY <2>1, <2>2, <2>3, GiveUpLock DEF InLock
  <2>4. CASE ~GiveUp(d, "REPLAY_DETECTED")
    <3>1. /\ Jump(d, "count") /\ UNCHANGED <<lock, call>>
          /\ txn' = [txn EXCEPT ![Program[d]].view =
                       [txn[Program[d]].view EXCEPT !.permits[call[d].permit] =
                          [state |-> "RESERVED", request |-> call[d].request,
                           issued |-> snapshot[d].captured,
                           expires |-> Expiry(call[d].request, snapshot[d].captured)]]]
      BY <1>20, <2>4 DEF ReserveInsert, callVars
    <3>2. Labelled(call[d], "count")
      BY <2>1, <2>2, Labels DEF Labelled
    <3>3. \A h \in Programs : txn'[h].mode = txn[h].mode
      BY <2>1, <3>1, ViewMode
    <3> QED BY <2>1, <2>2, <3>1, <3>2, <3>3, GoOnLock DEF InLock
  <2> QED BY <2>3, <2>4
<1>21. ASSUME NEW d \in Deciders, ReserveCommit(d) PROVE LockInv'
  BY <1>21, CommitLock DEF ReserveCommit, At, InLock, Processes
<1>22. ASSUME NEW a \in Adapters, ConsumeSelect(a) PROVE LockInv'
  <2>1. a \in Processes
    BY DEF Processes
  <2>2. pc[a] = "select" /\ call[a].op = "consume"
    BY <1>22 DEF ConsumeSelect, At
  <2>3. CASE GiveUp(a, "PAUSE")
    BY <2>1, <2>2, <2>3, GiveUpLock DEF InLock
  <2>4. CASE Jump(a, "update") /\ UNCHANGED <<disk, txn, lock, callVars, callerVars>>
    <3>1. Labelled(call[a], "update")
      BY <2>1, <2>2, Labels DEF Labelled
    <3> QED BY <2>1, <2>2, <2>4, <3>1, GoOnLock DEF InLock, callVars
  <2> QED BY <1>22, <2>3, <2>4 DEF ConsumeSelect
<1>23. ASSUME NEW a \in Adapters, ConsumeUpdate(a) \/ FinishUpdate(a) PROVE LockInv'
  <2>1. a \in Processes /\ Program[a] \in Programs
    BY ProgramOf DEF Processes
  <2>2. /\ pc[a] = "update" /\ call[a].op \in {"consume", "finish"} /\ Jump(a, "count")
        /\ UNCHANGED <<lock, call>>
    BY <1>23 DEF ConsumeUpdate, FinishUpdate, At, callVars
  <2>3. Labelled(call[a], "count")
    BY <2>1, <2>2, Labels DEF Labelled
  <2>4. CASE ConsumeUpdate(a)
    <3>1. \A h \in Programs : txn'[h].mode = txn[h].mode
      BY <2>1, <2>4, ViewMode DEF ConsumeUpdate
    <3> QED BY <2>1, <2>2, <2>3, <3>1, GoOnLock DEF InLock
  <2>5. CASE FinishUpdate(a)
    <3>1. \A h \in Programs : txn'[h].mode = txn[h].mode
      BY <2>1, <2>5, ViewMode DEF FinishUpdate
    <3> QED BY <2>1, <2>2, <2>3, <3>1, GoOnLock DEF InLock
  <2> QED BY <1>23, <2>4, <2>5
<1>24. ASSUME NEW a \in Adapters, ConsumeCommit(a) \/ FinishCommit(a) PROVE LockInv'
  BY <1>24, CommitLock DEF ConsumeCommit, FinishCommit, At, InLock, Processes
<1>25. ASSUME NEW a \in Adapters, Act(a) PROVE LockInv'
  <2>1. a \in Processes /\ pc[a] = "consumed"
    BY <1>25 DEF Processes, Act
  <2>2. Labelled(call[a], "acted") /\ call[a] = NoCall
    BY <2>1, Labels DEF Labelled, Between
  <2> QED BY <1>25, <2>1, <2>2, OutsideLock DEF Act, Between, callVars, NoCall
<1>26. CASE UNCHANGED vars
  BY <1>26 DEF vars, LockInv, ThreadLock, ProgramLock, OneWriter, All, Mode
<1> QED
  BY <1>1, <1>2, <1>3, <1>4, <1>5, <1>6, <1>7, <1>8, <1>9, <1>10, <1>11, <1>12, <1>13, <1>14,
     <1>15, <1>16, <1>17, <1>18, <1>19, <1>20, <1>21, <1>22, <1>23, <1>24, <1>25, <1>26
  DEF Next, Opening, CallOf, Proceed, SnapshotStatement, ReserveStatement, AdapterStatement

LEMMA NothingOpen == TypeOK /\ LockInv => NothingLeftOpen
<1> SUFFICES ASSUME TypeOK, LockInv, NEW g \in Programs, txn[g] # NoTxn,
                    ~ \A p \in g : pc[p] \in {"opening", "checking"}
             PROVE  \E p \in g : lock[g] = p /\ pc[p] \notin {"begin", "leaving"}
  BY DEF NothingLeftOpen
<1>1. txn[g].mode # "none"
  BY DEF TypeOK, Transaction, NoTxn, Deferred
<1>2. lock[g] # Nobody
  BY <1>1 DEF LockInv, ProgramLock, All
<1>3. lock[g] \in g
  BY <1>2 DEF LockInv, ProgramLock
<1>4. PICK p \in g : lock[g] = p
  BY <1>3
<1>5. p \in Processes /\ Program[p] = g
  BY ThreadAssumption, ProgramOf
<1>6. txn[g].mode = Mode(p)
  BY <1>4, <1>5 DEF LockInv, ThreadLock
<1> QED BY <1>1, <1>4, <1>6 DEF Mode

-----------------------------------------------------------------------------
\* A step of a thread is its own: of the others it changes nothing.
StepOf(p) ==
  \/ CallOf(p) \/ Acquire(p) \/ Proceed(p) \/ DatabaseError(p)
  \/ p \in Adapters /\ Act(p)

Own(p) ==
  /\ \A q \in Processes \ {p} : pc'[q] = pc[q] /\ call'[q] = call[q] /\ read'[q] = read[q]
  /\ \A d \in Deciders \ {p} : snapshot'[d] = snapshot[d] /\ answer'[d] = answer[d]
  /\ \A a \in Adapters \ {p} : held'[a] = held[a]
  /\ \A g \in Programs \ {Program[p]} : txn'[g] = txn[g]
  /\ txn' # txn => pc[p] \in InLock
  /\ disk' # disk => pc[p] = "commit" /\ call[p].op # "snapshot" /\ disk' = txn[Program[p]].view

LEMMA GiveUpOwn ==
  ASSUME TypeOK, NEW p \in Processes, pc[p] \in InLock, NEW reason, GiveUp(p, reason)
  PROVE  Own(p)
BY DEF GiveUp, Jump, TypeOK, Own

LEMMA CommitOwn ==
  ASSUME TypeOK, NEW p \in Processes, pc[p] = "commit", call[p].op # "snapshot", Commit(p),
         \A d \in Deciders \ {p} : snapshot'[d] = snapshot[d] /\ answer'[d] = answer[d],
         \A a \in Adapters \ {p} : held'[a] = held[a]
  PROVE  Own(p)
BY DEF Commit, Jump, TypeOK, Own, InLock

LEMMA ViewOwn ==
  ASSUME TypeOK, NEW p \in Processes, pc[p] \in InLock, NEW view, NEW label,
         txn' = [txn EXCEPT ![Program[p]].view = view], Jump(p, label),
         UNCHANGED <<disk, call, snapshot, answer, held>>,
         \A q \in Processes \ {p} : read'[q] = read[q]
  PROVE  Own(p)
BY DEF Jump, TypeOK, Own

\* A step that changes neither the file nor a transaction.
LEMMA QuietOwn ==
  ASSUME TypeOK, NEW p \in Processes, NEW label, Jump(p, label), UNCHANGED <<disk, txn>>,
         \A q \in Processes \ {p} : call'[q] = call[q] /\ read'[q] = read[q],
         \A d \in Deciders \ {p} : snapshot'[d] = snapshot[d] /\ answer'[d] = answer[d],
         \A a \in Adapters \ {p} : held'[a] = held[a]
  PROVE  Own(p)
BY DEF Jump, TypeOK, Own

LEMMA StepIsOwn ==
  ASSUME TypeOK, LockInv, NEW p \in Processes, StepOf(p) PROVE Own(p)
<1>1. CASE CallOf(p)
  BY <1>1 DEF CallOf, CallSnapshot, CallReserve, CallConsume, CallFinish, Enter, Jump, TypeOK, Own,
     callerVars
<1>2. CASE Acquire(p) \/ Leave(p) \/ (p \in Adapters /\ Act(p))
  BY <1>2, QuietOwn DEF Acquire, Leave, Act, callVars, callerVars
<1>3. CASE DatabaseError(p) \/ Busy(p)
  <2>1. pc[p] \in InLock
    BY <1>3 DEF Busy, DatabaseError, InBody, InLock, LockInv, ThreadLock
  <2> QED BY <1>3, <2>1, GiveUpOwn DEF DatabaseError, Busy
<1>4. CASE BeginImmediate(p)
  BY <1>4 DEF BeginImmediate, Jump, TypeOK, Own, InLock, callVars, callerVars
<1>5. CASE CountRevision(p)
  BY <1>5, ViewOwn DEF CountRevision, InLock, callVars, callerVars
<1>6. ASSUME p \in Deciders, SnapshotStatement(p) PROVE Own(p)
  <2>1. CASE SnapshotBegin(p)
    BY <2>1 DEF SnapshotBegin, At, Jump, TypeOK, Own, InLock, callVars, callerVars
  <2>2. CASE SnapshotRevision(p)
    BY <2>2 DEF SnapshotRevision, At, Jump, TypeOK, Own, InLock, callerVars
  <2>3. CASE SnapshotPermits(p) \/ SnapshotObservations(p)
    BY <2>3 DEF SnapshotPermits, SnapshotObservations, Jump, TypeOK, Own, callerVars
  <2>4. CASE SnapshotCommit(p)
    BY <2>4 DEF SnapshotCommit, At, Jump, TypeOK, Own, InLock
  <2> QED BY <1>6, <2>1, <2>2, <2>3, <2>4 DEF SnapshotStatement
<1>7. ASSUME p \in Deciders, ReserveStatement(p) PROVE Own(p)
  <2>1. CASE ReserveRevision(p)
    <3>1. CASE GiveUp(p, "STATE_CHANGED")
      BY <2>1, <3>1, GiveUpOwn DEF ReserveRevision, At, InLock
    <3>2. CASE ~GiveUp(p, "STATE_CHANGED")
      BY <2>1, <3>2 DEF ReserveRevision, Jump, TypeOK, Own, callerVars
    <3> QED BY <3>1, <3>2
  <2>2. CASE ReserveBinding(p)
    <3>1. CASE GiveUp(p, "CONFLICTING_HANDOFF")
      BY <2>2, <3>1, GiveUpOwn DEF ReserveBinding, At, InLock
    <3>2. CASE ~GiveUp(p, "CONFLICTING_HANDOFF")
      <4>1. PICK o \in read[p].todo, label \in {"insert", "bindings"} :
              /\ txn' = [txn EXCEPT ![Program[p]].view.observations = @ \cup {o}]
              /\ read' = [read EXCEPT ![p].todo = @ \ {o}]
              /\ Jump(p, label) /\ UNCHANGED <<disk, lock, call, callerVars>>
        BY <2>2, <3>2 DEF ReserveBinding
      <4>2. \A q \in Processes \ {p} : read'[q] = read[q]
        BY <4>1 DEF TypeOK
      <4> QED BY <2>2, <4>1, <4>2, ViewOwn DEF ReserveBinding, At, InLock, callerVars
    <3> QED BY <3>1, <3>2
  <2>3. CASE ReserveInsert(p)
    <3>1. CASE GiveUp(p, "REPLAY_DETECTED")
      BY <2>3, <3>1, GiveUpOwn DEF ReserveInsert, At, InLock
    <3>2. CASE ~GiveUp(p, "REPLAY_DETECTED")
      <4>1. /\ txn' = [txn EXCEPT ![Program[p]].view =
                         [txn[Program[p]].view EXCEPT !.permits[call[p].permit] = Reserved(p)]]
            /\ Jump(p, "count") /\ UNCHANGED <<disk, lock, callVars, callerVars>>
        BY <2>3, <3>2 DEF ReserveInsert, Reserved
      <4> QED BY <2>3, <4>1, ViewOwn DEF ReserveInsert, At, InLock, callVars, callerVars
    <3> QED BY <3>1, <3>2
  <2>4. CASE ReserveCommit(p)
    <3>1. \A d \in Deciders \ {p} : snapshot'[d] = snapshot[d] /\ answer'[d] = answer[d]
      BY <2>4 DEF ReserveCommit, TypeOK
    <3> QED BY <2>4, <3>1, CommitOwn DEF ReserveCommit, At
  <2> QED BY <1>7, <2>1, <2>2, <2>3, <2>4 DEF ReserveStatement
<1>8. ASSUME p \in Adapters, AdapterStatement(p) PROVE Own(p)
  <2>1. CASE ConsumeSelect(p)
    <3>1. CASE GiveUp(p, "PAUSE")
      BY <2>1, <3>1, GiveUpOwn DEF ConsumeSelect, At, InLock
    <3>2. CASE ~GiveUp(p, "PAUSE")
      BY <2>1, <3>2, QuietOwn DEF ConsumeSelect, callVars, callerVars
    <3> QED BY <3>1, <3>2
  <2>2. CASE ConsumeUpdate(p)
    BY <2>2, ViewOwn DEF ConsumeUpdate, At, InLock, callVars, callerVars
  <2>3. CASE FinishUpdate(p)
    BY <2>3, ViewOwn DEF FinishUpdate, At, InLock, callVars, callerVars
  <2>4. CASE ConsumeCommit(p)
    <3>1. \A a \in Adapters \ {p} : held'[a] = held[a]
      BY <2>4 DEF ConsumeCommit, TypeOK
    <3> QED BY <2>4, <3>1, CommitOwn DEF ConsumeCommit, At
  <2>5. CASE FinishCommit(p)
    <3>1. \A a \in Adapters \ {p} : held'[a] = held[a]
      BY <2>5 DEF FinishCommit, TypeOK
    <3> QED BY <2>5, <3>1, CommitOwn DEF FinishCommit, At
  <2> QED BY <1>8, <2>1, <2>2, <2>3, <2>4, <2>5 DEF AdapterStatement
<1> QED BY <1>1, <1>2, <1>3, <1>4, <1>5, <1>6, <1>7, <1>8 DEF StepOf, Proceed

LEMMA GiveUpLabel ==
  ASSUME TypeOK, NEW p \in Processes, NEW reason, GiveUp(p, reason) PROVE pc'[p] = "leaving"
BY DEF GiveUp, Jump, TypeOK

LEMMA JumpLabel ==
  ASSUME TypeOK, NEW p \in Processes, NEW label, Jump(p, label) PROVE pc'[p] = label
BY DEF Jump, TypeOK

LEMMA StepIsUp ==
  ASSUME TypeOK, LockInv, NEW p \in Processes, StepOf(p)
  PROVE  pc[p] \notin Down /\ pc'[p] \notin Down
<1>1. CASE CallOf(p)
  BY <1>1, JumpLabel DEF CallOf, CallSnapshot, CallReserve, CallConsume, CallFinish, Enter, Down
<1>2. CASE Acquire(p) \/ Leave(p) \/ (p \in Adapters /\ Act(p))
  BY <1>2, JumpLabel DEF Acquire, Leave, Act, Down
<1>3. CASE DatabaseError(p) \/ Busy(p)
  <2>1. pc[p] \in InLock
    BY <1>3 DEF Busy, DatabaseError, InBody, InLock, LockInv, ThreadLock
  <2> QED BY <1>3, <2>1, GiveUpLabel DEF DatabaseError, Busy, Down, InLock
<1>4. CASE BeginImmediate(p) \/ CountRevision(p)
  BY <1>4, JumpLabel DEF BeginImmediate, CountRevision, FirstStatement, Down
<1>5. CASE SnapshotStatement(p)
  BY <1>5, JumpLabel DEF SnapshotStatement, SnapshotBegin, SnapshotRevision, SnapshotPermits,
     SnapshotObservations, SnapshotCommit, At, Down
<1>6. CASE ReserveStatement(p)
  BY <1>6, JumpLabel, GiveUpLabel DEF ReserveStatement, ReserveRevision, ReserveBinding,
     ReserveInsert, ReserveCommit, Commit, At, Down
<1>7. CASE AdapterStatement(p)
  BY <1>7, JumpLabel, GiveUpLabel DEF AdapterStatement, ConsumeSelect, ConsumeUpdate,
     ConsumeCommit, FinishUpdate, FinishCommit, Commit, At, Down
<1> QED BY <1>1, <1>2, <1>3, <1>4, <1>5, <1>6, <1>7 DEF StepOf, Proceed

\* What a thread knows, and what it relies on.
Undisturbed(q) ==
  /\ pc'[q] = pc[q] /\ call'[q] = call[q] /\ read'[q] = read[q]
  /\ q \in Deciders => snapshot'[q] = snapshot[q] /\ answer'[q] = answer[q]
  /\ q \in Adapters => held'[q] = held[q]
  /\ pc[q] \in InLock => txn'[Program[q]] = txn[Program[q]]
  /\ pc[q] \in InLock /\ txn[Program[q]].mode = "write" => disk' = disk

LEMMA OthersOfThread ==
  ASSUME TypeOK, LockInv, NEW p \in Processes, StepOf(p), NEW q \in Processes \ {p}
  PROVE  Undisturbed(q)
<1>1. Own(p)
  BY StepIsOwn
<1>2. Program[p] \in Programs /\ Program[q] \in Programs
  BY ProgramOf
<1>3. pc[p] \in InLock /\ pc[q] \in InLock => Program[p] # Program[q]
  BY LockMode
<1>4. pc[q] \in InLock => txn'[Program[q]] = txn[Program[q]]
  BY <1>1, <1>2, <1>3 DEF Own
<1>5. disk' # disk => pc[p] \in InLock /\ txn[Program[p]].mode = "write"
  BY <1>1, LockMode DEF Own, InLock
<1>6. pc[q] \in InLock /\ txn[Program[q]].mode = "write" => disk' = disk
  BY <1>2, <1>3, <1>5 DEF LockInv, OneWriter
<1> QED BY <1>1, <1>4, <1>6 DEF Own, Undisturbed

LEMMA OthersOfProgram ==
  ASSUME TypeOK, LockInv, NEW g \in Programs, Opening(g) \/ Kill(g), NEW q \in Processes \ g
  PROVE  Undisturbed(q)
<1>1. Program[q] \in Programs \ {g}
  BY ProgramOf
<1>2. CASE OpenBegin(g) \/ OpenInsert(g)
  BY <1>1, <1>2 DEF OpenBegin, OpenInsert, Go, Undisturbed, TypeOK, callVars, callerVars
<1>3. CASE OpenCheck(g)
  <2>1. txn[g].mode = "write"
    BY <1>3, DownMode DEF OpenCheck, All, Down
  <2>2. txn[Program[q]].mode # "write"
    BY <1>1, <2>1 DEF LockInv, OneWriter
  <2> QED BY <1>1, <1>3, <2>2 DEF OpenCheck, Go, Undisturbed, TypeOK, callVars, callerVars
<1>4. CASE Kill(g)
  BY <1>1, <1>4 DEF Kill, Go, Undisturbed, TypeOK
<1> QED BY <1>2, <1>3, <1>4 DEF Opening

LEMMA UndisturbedInv ==
  ASSUME TypeOK, LockInv, NEW q \in Processes, ThreadInv(q), Undisturbed(q)
  PROVE  ThreadInv(q)'
<1>2. q \in Deciders => DeciderHand(q)'
  BY DEF ThreadInv, Undisturbed, DeciderHand
<1>3. q \in Adapters => AdapterHand(q)'
  BY DEF ThreadInv, Undisturbed, AdapterHand
<1>4. ReadSoFar(q)'
  BY DEF ThreadInv, Undisturbed, ReadSoFar, InLock
<1>5. pc[q] \in InLock \ {"begin", "leaving"} /\ call[q].op # "snapshot"
        => disk' = disk /\ txn'[Program[q]] = txn[Program[q]]
  BY LockMode DEF Undisturbed
<1>6. call[q].op = "reserve" => ReserveWritten(q)'
  <2> SUFFICES ASSUME call[q].op = "reserve" PROVE ReserveWritten(q)'
    OBVIOUS
  <2>1. q \in Deciders
    BY DEF LockInv, ThreadLock, Processes
  <2>2. ReserveWritten(q)
    BY DEF ThreadInv
  <2>3. CASE pc[q] \in {"revision", "bindings", "insert", "count", "commit"}
    BY <1>5, <2>1, <2>2, <2>3 DEF Undisturbed, ReserveWritten, Done, Reserved, InLock
  <2>4. CASE pc[q] \notin {"revision", "bindings", "insert", "count", "commit"}
    BY <2>2, <2>4 DEF Undisturbed, ReserveWritten
  <2> QED BY <2>3, <2>4
<1>7. call[q].op = "consume" => ConsumeWritten(q)'
  BY <1>5 DEF ThreadInv, Undisturbed, ConsumeWritten, Moved, InLock
<1>8. call[q].op = "finish" => FinishWritten(q)'
  <2> SUFFICES ASSUME call[q].op = "finish" PROVE FinishWritten(q)'
    OBVIOUS
  <2>1. q \in Adapters
    BY DEF LockInv, ThreadLock, Processes
  <2> QED BY <1>5, <2>1 DEF ThreadInv, Undisturbed, FinishWritten, Moved, InLock
<1> QED BY <1>2, <1>3, <1>4, <1>6, <1>7, <1>8 DEF ThreadInv, Undisturbed

\* Nobody of a program that is down has anything in hand.
LEMMA DownHand ==
  ASSUME TypeOK, LockInv, NEW g \in Programs, \A p \in g : pc[p] \in Down,
         \A p \in Processes : ThreadInv(p), NEW p \in g
  PROVE  /\ p \in Processes /\ call[p] = NoCall /\ read[p] = NothingRead
         /\ p \in Deciders => snapshot[p] = NoSnapshot /\ answer[p] = NoAnswer
         /\ p \in Adapters => held[p] = NothingHeld
<1>1. p \in Processes /\ call[p] = NoCall /\ pc[p] \in Down
  BY DownMode
<1>2. ThreadInv(p)
  BY <1>1
<1>3. p \in Deciders => snapshot[p] = NoSnapshot /\ answer[p] = NoAnswer
  BY <1>1, <1>2 DEF ThreadInv, DeciderHand, Down, NoCall
<1>4. p \in Adapters => held[p] = NothingHeld
  BY <1>1, <1>2 DEF ThreadInv, AdapterHand, Down, NoCall
<1> QED BY <1>1, <1>2, <1>3, <1>4 DEF ThreadInv, ReadSoFar

LEMMA TogetherInv ==
  ASSUME TypeOK, LockInv, \A p \in Processes : ThreadInv(p), NEW g \in Programs,
         Opening(g) \/ Kill(g), NEW p \in g
  PROVE  ThreadInv(p)'
<1>1. p \in Processes
  BY ThreadAssumption
<1>2. /\ pc'[p] \in Down \cup {"idle"} /\ call'[p] = NoCall /\ read'[p] = NothingRead
      /\ p \in Deciders => snapshot'[p] = NoSnapshot /\ answer'[p] = NoAnswer
      /\ p \in Adapters => held'[p] = NothingHeld
  <2>1. CASE Opening(g)
    <3>1. \A q \in g : pc[q] \in Down
      BY <2>1 DEF Opening, OpenBegin, OpenInsert, OpenCheck, All, Down
    <3>2. UNCHANGED <<callVars, callerVars>>
      BY <2>1 DEF Opening, OpenBegin, OpenInsert, OpenCheck
    <3>3. pc'[p] \in Down \cup {"idle"}
      BY <1>1, <2>1 DEF Opening, OpenBegin, OpenInsert, OpenCheck, Go, Down
    <3> QED BY <3>1, <3>2, <3>3, DownHand DEF callVars, callerVars
  <2>2. CASE Kill(g)
    BY <1>1, <2>2 DEF Kill, Go, Down
  <2> QED BY <2>1, <2>2
<1>3. (p \in Deciders => DeciderHand(p)) '
  BY <1>2 DEF DeciderHand, Down, NoCall
<1>4. (p \in Adapters => AdapterHand(p))'
  BY <1>2 DEF AdapterHand, Down, NoCall
<1> QED BY <1>2, <1>3, <1>4 DEF ThreadInv, ReadSoFar, NoCall

LEMMA OpenedNext ==
  ASSUME TypeOK, LockInv, \A h \in Programs : Opened(h), [Next]_vars, NEW g \in Programs
  PROVE  Opened(g)'
<1>0. Opened(g) /\ g # {} /\ \A p \in g : p \in Processes /\ Program[p] = g
  BY ThreadAssumption, ProgramOf
<1>1. ASSUME NEW p \in Processes, StepOf(p) PROVE Opened(g)'
  <2>1. CASE p \in g
    BY <1>1, <2>1, StepIsUp DEF Opened, All, Down
  <2>2. CASE p \notin g
    <3>1. Own(p) /\ Program[p] \in Programs \ {g}
      BY <1>1, <2>2, StepIsOwn, ProgramOf
    <3>2. \A q \in g : pc'[q] = pc[q]
      BY <1>0, <2>2, <3>1 DEF Own
    <3>3. All(g, "opening") \/ All(g, "checking") => disk' = disk
      <4> SUFFICES ASSUME All(g, "opening") \/ All(g, "checking"), disk' # disk PROVE FALSE
        OBVIOUS
      <4>1. txn[g].mode = "write"
        BY DownMode DEF All, Down
      <4>2. txn[Program[p]].mode = "write"
        BY <3>1, LockMode DEF Own, InLock
      <4> QED BY <3>1, <4>1, <4>2 DEF LockInv, OneWriter
    <3>4. txn'[g] = txn[g]
      BY <3>1 DEF Own
    <3> QED BY <1>0, <3>2, <3>3, <3>4 DEF Opened, All
  <2> QED BY <2>1, <2>2
<1>2. ASSUME NEW h \in Programs \ {g}, Opening(h) \/ Kill(h) PROVE Opened(g)'
  <2>1. \A q \in g : pc'[q] = pc[q]
    BY <1>0, <1>2, ThreadAssumption DEF Opening, OpenBegin, OpenInsert, OpenCheck, Kill, Go
  <2>2. txn'[g] = txn[g]
    BY <1>2 DEF Opening, OpenBegin, OpenInsert, OpenCheck, Kill, TypeOK
  <2>3. All(g, "opening") \/ All(g, "checking") => disk' = disk
    <3> SUFFICES ASSUME All(g, "opening") \/ All(g, "checking"), disk' # disk PROVE FALSE
      OBVIOUS
    <3>1. txn[g].mode = "write"
      BY DownMode DEF All, Down
    <3>2. OpenCheck(h)
      BY <1>2 DEF Opening, OpenBegin, OpenInsert, Kill
    <3>3. txn[h].mode = "write"
      BY <3>2, DownMode DEF OpenCheck, All, Down
    <3> QED BY <3>1, <3>3 DEF LockInv, OneWriter
  <2> QED BY <1>0, <2>1, <2>2, <2>3 DEF Opened, All
<1>3. CASE Opening(g) \/ Kill(g)
  <2>1. CASE OpenBegin(g)
    BY <1>0, <2>1 DEF OpenBegin, Opened, Go, All, TypeOK
  <2>2. CASE OpenInsert(g)
    <3>1. txn[g].view = disk /\ txn[g].mode = "write"
      BY <1>0, <2>2, DownMode DEF OpenInsert, Opened, All, Down
    <3>2. txn[g] = [mode |-> "write", view |-> disk]
      BY <3>1, ViewType
    <3>3. txn'[g].view = [disk EXCEPT !.owner = IF @ = NoStore THEN StoreIdOf[g] ELSE @]
      BY <2>2, <3>2 DEF OpenInsert, TypeOK
    <3>4. disk' = disk /\ \A q \in g : pc'[q] = "checking"
      BY <1>0, <2>2 DEF OpenInsert, Go
    <3> QED BY <1>0, <3>3, <3>4 DEF Opened, All
  <2>3. CASE OpenCheck(g) \/ Kill(g)
    <3>1. \A q \in g : pc'[q] \in {"idle", "closed"}
      BY <1>0, <2>3 DEF OpenCheck, Kill, Go
    <3> QED BY <1>0, <3>1 DEF Opened, All
  <2> QED BY <1>3, <2>1, <2>2, <2>3 DEF Opening
<1>4. CASE UNCHANGED vars
  BY <1>0, <1>4 DEF vars, Opened, All
<1> QED BY <1>1, <1>2, <1>3, <1>4 DEF Next, StepOf, Processes

LEMMA Roles ==
  /\ \A d \in Deciders : d \in Processes /\ d \notin Adapters /\ Program[d] \in Programs
  /\ \A a \in Adapters : a \in Processes /\ a \notin Deciders /\ Program[a] \in Programs
BY ThreadAssumption, ProgramOf DEF Processes

LEMMA GiveUpInv ==
  ASSUME TypeOK, NEW p \in Processes, NEW reason, GiveUp(p, reason) PROVE ThreadInv(p)'
<1>1. pc'[p] = "leaving" /\ call'[p] = NoCall /\ read'[p] = NothingRead
  BY DEF GiveUp, Jump, TypeOK
<1>2. (p \in Deciders => DeciderHand(p))'
  BY <1>1 DEF GiveUp, DeciderHand, Down, NoCall
<1>3. (p \in Adapters => AdapterHand(p))'
  BY <1>1 DEF GiveUp, AdapterHand, NoCall
<1> QED BY <1>1, <1>2, <1>3 DEF ThreadInv, ReadSoFar, NoCall

LEMMA CallInv ==
  ASSUME TypeOK, LockInv, NEW p \in Processes, ThreadInv(p), CallOf(p) PROVE ThreadInv(p)'
<1>1. ASSUME p \in Deciders, NEW t \in Times, CallSnapshot(p, t) PROVE ThreadInv(p)'
  <2>1. /\ pc[p] = "idle" /\ pc'[p] = "entering" /\ call[p] = NoCall
        /\ call'[p].op = "snapshot" /\ read'[p] = NothingRead
        /\ snapshot'[p] = NoSnapshot /\ answer'[p] = NoAnswer
    BY <1>1, Labels DEF CallSnapshot, Enter, Jump, TypeOK, Between, ThreadInv, ReadSoFar,
       DeciderHand, NoCall
  <2> QED BY <1>1, <2>1, Roles DEF ThreadInv, DeciderHand, ReadSoFar, Down, NoCall
<1>2. ASSUME p \in Deciders, NEW r \in Requests, NEW id \in PermitIds, CallReserve(p, r, id)
      PROVE  ThreadInv(p)'
  <2>1. /\ pc[p] = "prepared" /\ pc'[p] = "entering" /\ call[p] = NoCall
        /\ call'[p] = [op |-> "reserve", request |-> r, permit |-> id]
        /\ read'[p] = NothingRead /\ snapshot'[p] = snapshot[p] /\ snapshot[p] # NoSnapshot
        /\ Expiry(r, snapshot[p].captured) > snapshot[p].captured
    BY <1>2, Labels DEF CallReserve, Enter, Jump, TypeOK, Between, ThreadInv, ReadSoFar,
       DeciderHand, NoCall, callerVars
  <2>2. DeciderHand(p)'
    BY <2>1 DEF DeciderHand, Down
  <2>3. ReserveWritten(p)'
    BY <2>1 DEF ReserveWritten
  <2> QED BY <1>2, <2>1, <2>2, <2>3, Roles DEF ThreadInv, ReadSoFar
<1>3. ASSUME p \in Adapters, NEW id \in PermitIds, NEW r \in Requests, NEW now \in Times,
             CallConsume(p, id, r, now)
      PROVE  ThreadInv(p)'
  <2>1. /\ pc[p] = "idle" /\ pc'[p] = "entering" /\ call[p] = NoCall
        /\ call'[p].op = "consume" /\ read'[p] = NothingRead /\ held'[p] = NothingHeld
    BY <1>3, Labels DEF CallConsume, Enter, Jump, TypeOK, Between, ThreadInv, ReadSoFar,
       AdapterHand, NoCall, callerVars
  <2> QED BY <1>3, <2>1, Roles DEF ThreadInv, AdapterHand, ReadSoFar, ConsumeWritten, Moved
<1>4. ASSUME p \in Adapters, NEW outcome \in {"SUCCEEDED", "FAILED"}, CallFinish(p, outcome)
      PROVE  ThreadInv(p)'
  <2>1. /\ pc[p] = "acted" /\ pc'[p] = "entering" /\ call[p] = NoCall
        /\ call'[p].op = "finish" /\ read'[p] = NothingRead /\ held'[p] # NothingHeld
    BY <1>4, Labels DEF CallFinish, Enter, Jump, TypeOK, Between, ThreadInv, ReadSoFar,
       AdapterHand, NoCall, callerVars
  <2> QED BY <1>4, <2>1, Roles DEF ThreadInv, AdapterHand, ReadSoFar, FinishWritten, Moved
<1> QED BY <1>1, <1>2, <1>3, <1>4 DEF CallOf

LEMMA AcquireInv ==
  ASSUME TypeOK, NEW p \in Processes, ThreadInv(p), Acquire(p) PROVE ThreadInv(p)'
<1>1. pc[p] = "entering" /\ pc'[p] = "begin" /\ UNCHANGED <<disk, txn, callVars, callerVars>>
  BY JumpLabel DEF Acquire
<1>2. (p \in Deciders => DeciderHand(p))'
  BY <1>1 DEF ThreadInv, DeciderHand, Down, callVars, callerVars
<1>3. (p \in Adapters => AdapterHand(p))'
  BY <1>1 DEF ThreadInv, AdapterHand, callVars, callerVars
<1> QED BY <1>1, <1>2, <1>3 DEF ThreadInv, ReadSoFar, ReserveWritten, ConsumeWritten,
        FinishWritten, Moved, callVars, callerVars

LEMMA LeaveInv ==
  ASSUME TypeOK, LockInv, NEW p \in Processes, ThreadInv(p), Leave(p) PROVE ThreadInv(p)'
<1>1. /\ pc[p] = "leaving" /\ call'[p] = NoCall /\ read'[p] = NothingRead
      /\ UNCHANGED <<disk, txn, callVars, callerVars>>
  BY Labels DEF Leave, ThreadInv, ReadSoFar, callVars
<1>2. /\ pc'[p] \in Between
      /\ p \in Deciders => (pc'[p] = "prepared" <=> snapshot[p] # NoSnapshot)
      /\ p \in Adapters => /\ pc'[p] \in {"consumed", "idle"}
                           /\ pc'[p] = "consumed" <=> held[p] # NothingHeld
  BY Roles DEF Leave, Jump, TypeOK, Between
<1>3. (p \in Deciders => DeciderHand(p))'
  BY <1>1, <1>2 DEF DeciderHand, Down, Between, NoCall, callerVars
<1>4. (p \in Adapters => AdapterHand(p))'
  BY <1>1, <1>2 DEF AdapterHand, NoCall, callerVars
<1> QED BY <1>1, <1>3, <1>4 DEF ThreadInv, ReadSoFar, NoCall

LEMMA ActInv ==
  ASSUME TypeOK, LockInv, NEW a \in Adapters, ThreadInv(a), Act(a) PROVE ThreadInv(a)'
<1>1. /\ pc[a] = "consumed" /\ call[a] = NoCall /\ pc'[a] = "acted"
      /\ UNCHANGED <<callVars, snapshot, answer, held>>
  BY Roles, Labels, JumpLabel DEF Act, Between
<1> QED BY <1>1, Roles DEF ThreadInv, AdapterHand, ReadSoFar, NoCall, callVars

LEMMA BeginInv ==
  ASSUME TypeOK, LockInv, NEW p \in Processes, ThreadInv(p), BeginImmediate(p)
  PROVE  ThreadInv(p)'
<1>1. /\ pc[p] = "begin" /\ txn'[Program[p]].view = disk
      /\ UNCHANGED <<disk, lock, callVars, callerVars>>
  BY ProgramOf DEF BeginImmediate, TypeOK
<1>2. \/ call[p].op = "reserve" /\ pc'[p] = "revision"
      \/ call[p].op = "consume" /\ pc'[p] = "select"
      \/ call[p].op = "finish" /\ pc'[p] = "update"
  BY JumpLabel DEF BeginImmediate, FirstStatement
<1>3. (p \in Deciders => DeciderHand(p))'
  BY <1>1, <1>2 DEF ThreadInv, DeciderHand, Down, callVars, callerVars
<1>4. (p \in Adapters => AdapterHand(p))'
  BY <1>1, <1>2 DEF ThreadInv, AdapterHand, callVars, callerVars
<1>5. ReadSoFar(p)'
  BY <1>1, <1>2 DEF ThreadInv, ReadSoFar, NoCall, callVars
<1>6. (call[p].op = "reserve" => ReserveWritten(p))'
  BY <1>1, <1>2 DEF ThreadInv, ReadSoFar, ReserveWritten, callVars, callerVars
<1>7. (call[p].op = "consume" => ConsumeWritten(p))'
  BY <1>1, <1>2 DEF ConsumeWritten, Moved, callVars, callerVars
<1>8. (call[p].op = "finish" => FinishWritten(p))'
  BY <1>1, <1>2 DEF FinishWritten, Moved, callVars, callerVars
<1> QED BY <1>3, <1>4, <1>5, <1>6, <1>7, <1>8 DEF ThreadInv

LEMMA CountInv ==
  ASSUME TypeOK, LockInv, NEW p \in Processes, ThreadInv(p), CountRevision(p)
  PROVE  ThreadInv(p)'
<1> DEFINE g == Program[p]
<1>1. /\ pc[p] = "count" /\ pc'[p] = "commit" /\ g \in Programs
      /\ UNCHANGED <<disk, lock, callVars, callerVars>>
  BY ProgramOf, JumpLabel DEF CountRevision
<1>2. call[p].op \in {"reserve", "consume", "finish"}
  BY <1>1, Labels DEF Labelled, SnapshotCall, ReserveCall, ConsumeCall, FinishCall, Down, Between
<1>3. txn[g].mode = "write" /\ txn[g].view \in Database
  BY <1>1, <1>2, LockMode, ViewType DEF InLock
<1>4. /\ txn'[g].view.revision = txn[g].view.revision + 1
      /\ txn'[g].view.owner = txn[g].view.owner
      /\ txn'[g].view.observations = txn[g].view.observations
      /\ txn'[g].view.permits = txn[g].view.permits
  <2>1. txn[g] = [mode |-> "write", view |-> txn[g].view]
    BY <1>1, <1>3, ViewType
  <2>2. txn' = [txn EXCEPT ![g].view = [txn[g].view EXCEPT !.revision = @ + 1]]
    BY DEF CountRevision
  <2>3. txn'[g].view = [txn[g].view EXCEPT !.revision = @ + 1]
    BY <1>1, <2>1, <2>2 DEF TypeOK
  <2> QED BY <1>3, <2>3 DEF Database
<1>5. (p \in Deciders => DeciderHand(p))'
  BY <1>1 DEF ThreadInv, DeciderHand, Down, callVars, callerVars
<1>6. (p \in Adapters => AdapterHand(p))'
  BY <1>1 DEF ThreadInv, AdapterHand, callVars, callerVars
<1>7. ReadSoFar(p)'
  BY <1>1, <1>2 DEF ThreadInv, ReadSoFar, NoCall, callVars
<1>8. (call[p].op = "reserve" => ReserveWritten(p))'
  BY <1>1, <1>4 DEF ThreadInv, ReserveWritten, Reserved, Done, callVars, callerVars
<1>9. (call[p].op = "consume" => ConsumeWritten(p))'
  BY <1>1, <1>4 DEF ThreadInv, ConsumeWritten, Moved, callVars, callerVars
<1>10. (call[p].op = "finish" => FinishWritten(p))'
  BY <1>1, <1>4 DEF ThreadInv, FinishWritten, Moved, callVars, callerVars
<1> QED BY <1>5, <1>6, <1>7, <1>8, <1>9, <1>10 DEF ThreadInv

LEMMA SnapshotInv ==
  ASSUME TypeOK, LockInv, NEW d \in Deciders, ThreadInv(d), SnapshotStatement(d)
  PROVE  ThreadInv(d)'
<1> DEFINE g == Program[d]
<1>0. d \in Processes /\ d \notin Adapters /\ g \in Programs
  BY Roles
<1>1. CASE SnapshotBegin(d)
  <2>1. /\ pc[d] = "begin" /\ pc'[d] = "revision" /\ call[d].op = "snapshot"
        /\ UNCHANGED <<callVars, callerVars>>
    BY <1>0, <1>1, JumpLabel DEF SnapshotBegin, At
  <2> QED BY <1>0, <2>1 DEF ThreadInv, DeciderHand, ReadSoFar, Down, NoCall, callVars, callerVars
<1>2. CASE SnapshotRevision(d)
  <2>1. /\ pc[d] = "revision" /\ pc'[d] = "permits" /\ call[d].op = "snapshot"
        /\ UNCHANGED <<call, callerVars>>
    BY <1>0, <1>2, JumpLabel DEF SnapshotRevision, At
  <2>2. txn[g].mode = "deferred"
    BY <1>0, <2>1, LockMode DEF InLock, Mode
  <2>3. read'[d] = [revision |-> disk.revision, captured |-> call[d].captured]
    BY <1>0, <1>2, <2>2 DEF SnapshotRevision, View, TypeOK
  <2>4. txn'[g].view = disk
    BY <1>0, <1>2, <2>2 DEF SnapshotRevision, Pinned, TypeOK
  <2> QED BY <1>0, <2>1, <2>3, <2>4 DEF ThreadInv, DeciderHand, ReadSoFar, Down, NoCall, callerVars
<1>3. CASE SnapshotPermits(d)
  <2>1. /\ pc[d] = "permits" /\ pc'[d] = "observations" /\ call[d].op = "snapshot"
        /\ UNCHANGED <<txn, call, callerVars>>
    BY <1>0, <1>3, JumpLabel DEF SnapshotPermits, At
  <2>2. View(g) = txn[g].view
    BY <1>0, <2>1, LockMode DEF InLock, Mode, View
  <2>3. read[d] = [revision |-> txn[g].view.revision, captured |-> call[d].captured]
    BY <2>1 DEF ThreadInv, ReadSoFar
  <2>4. read'[d] = [revision |-> txn[g].view.revision, captured |-> call[d].captured,
                    records |-> txn[g].view.permits]
    BY <1>0, <1>3, <2>2, <2>3 DEF SnapshotPermits, TypeOK
  <2> QED BY <1>0, <2>1, <2>4 DEF ThreadInv, DeciderHand, ReadSoFar, Down, NoCall, callerVars
<1>4. CASE SnapshotObservations(d)
  <2>1. /\ pc[d] = "observations" /\ pc'[d] = "commit" /\ call[d].op = "snapshot"
        /\ UNCHANGED <<txn, call, callerVars>>
    BY <1>0, <1>4, JumpLabel DEF SnapshotObservations, At
  <2>2. View(g) = txn[g].view
    BY <1>0, <2>1, LockMode DEF InLock, Mode, View
  <2>3. read[d] = [revision |-> txn[g].view.revision, captured |-> call[d].captured,
                   records |-> txn[g].view.permits]
    BY <2>1 DEF ThreadInv, ReadSoFar
  <2>4. read'[d] = [revision |-> txn[g].view.revision, captured |-> call[d].captured,
                    records |-> txn[g].view.permits, observations |-> txn[g].view.observations]
    BY <1>0, <1>4, <2>2, <2>3 DEF SnapshotObservations, TypeOK
  <2> QED BY <1>0, <2>1, <2>4 DEF ThreadInv, DeciderHand, ReadSoFar, Down, NoCall, callerVars
<1>5. CASE SnapshotCommit(d)
  <2>1. pc'[d] = "leaving" /\ call'[d] = NoCall /\ read'[d] = NothingRead /\ UNCHANGED answer
    BY <1>0, <1>5, JumpLabel DEF SnapshotCommit, TypeOK
  <2> QED BY <1>0, <2>1 DEF ThreadInv, DeciderHand, ReadSoFar, Down, NoCall
<1> QED BY <1>1, <1>2, <1>3, <1>4, <1>5 DEF SnapshotStatement

\* What a thread that writes sees, and what an UPDATE or INSERT makes of it.
LEMMA Seen ==
  ASSUME TypeOK, LockInv, NEW p \in Processes, pc[p] \in InLock \ {"begin", "leaving"},
         call[p].op # "snapshot"
  PROVE  /\ Program[p] \in Programs /\ txn[Program[p]].mode = "write"
         /\ txn[Program[p]].view \in Database /\ View(Program[p]) = txn[Program[p]].view
         /\ \A view : txn' = [txn EXCEPT ![Program[p]].view = view] =>
              txn'[Program[p]].view = view
<1>1. Program[p] \in Programs /\ txn[Program[p]].mode = "write"
  BY LockMode, ProgramOf DEF InLock
<1>2. /\ txn[Program[p]].view \in Database /\ View(Program[p]) = txn[Program[p]].view
      /\ txn[Program[p]] = [mode |-> "write", view |-> txn[Program[p]].view]
  BY <1>1, ViewType
<1>3. ASSUME NEW view, txn' = [txn EXCEPT ![Program[p]].view = view]
      PROVE  txn'[Program[p]].view = view
  BY <1>1, <1>2, <1>3 DEF TypeOK
<1> QED BY <1>1, <1>2, <1>3

LEMMA ReserveInv ==
  ASSUME TypeOK, LockInv, NEW d \in Deciders, ThreadInv(d), ReserveStatement(d)
  PROVE  ThreadInv(d)'
<1> DEFINE g == Program[d]
           view == txn[g].view
           r == call[d].request
<1>0. d \in Processes /\ d \notin Adapters /\ g \in Programs
  BY Roles
<1>1. ASSUME \E reason : GiveUp(d, reason) PROVE ThreadInv(d)'
  BY <1>0, <1>1, GiveUpInv
<1>2. ASSUME call[d].op = "reserve", UNCHANGED <<call, callerVars>>,
             pc'[d] \in InLock \ {"begin", "leaving"}, ReserveWritten(d)'
      PROVE  ThreadInv(d)'
  BY <1>0, <1>2 DEF ThreadInv, DeciderHand, ReadSoFar, InLock, Down, NoCall, callerVars
<1>3. CASE ReserveRevision(d)
  <2>1. pc[d] = "revision" /\ call[d].op = "reserve"
    BY <1>3 DEF ReserveRevision, At
  <2>2. ReserveWritten(d) /\ view = disk /\ View(g) = view /\ read[d] = NothingRead
    BY <1>0, <2>1, Seen DEF ThreadInv, ReserveWritten, InLock
  <2>3. CASE ~GiveUp(d, "STATE_CHANGED")
    <3>1. /\ view.revision = snapshot[d].revision
          /\ read' = [read EXCEPT ![d].todo = r.observations]
          /\ pc'[d] = "bindings" /\ UNCHANGED <<disk, txn, lock, call, callerVars>>
      BY <1>0, <1>3, <2>2, <2>3, JumpLabel DEF ReserveRevision
    <3>2. read'[d] = [todo |-> r.observations]
      BY <1>0, <2>2, <3>1 DEF TypeOK, NothingRead
    <3>3. Done(d)' = {}
      BY <3>1, <3>2 DEF Done
    <3>4. disk.observations \cup {} = disk.observations
      OBVIOUS
    <3>5. ReserveWritten(d)'
      BY <2>2, <3>1, <3>2, <3>3, <3>4 DEF ReserveWritten, callerVars
    <3> QED BY <1>2, <2>1, <3>1, <3>5 DEF InLock
  <2> QED BY <1>1, <2>3
<1>4. CASE ReserveBinding(d)
  <2>1. pc[d] = "bindings" /\ call[d].op = "reserve"
    BY <1>4 DEF ReserveBinding, At
  <2>2. ReserveWritten(d) /\ View(g) = view /\ view \in Database
    BY <1>0, <2>1, Seen DEF ThreadInv, InLock
  <2>3. CASE ~GiveUp(d, "CONFLICTING_HANDOFF")
    <3>1. PICK o \in read[d].todo :
            /\ \A s \in view.observations : s.key = o.key => s.handoff = o.handoff
            /\ txn' = [txn EXCEPT ![g].view = [view EXCEPT !.observations = @ \cup {o}]]
            /\ read' = [read EXCEPT ![d].todo = @ \ {o}]
            /\ Jump(d, IF read[d].todo = {o} THEN "insert" ELSE "bindings")
            /\ UNCHANGED <<disk, lock, call, callerVars>>
      BY <1>4, <2>2, <2>3 DEF ReserveBinding
    <3>2. read[d] \in [todo : SUBSET r.observations]
      BY <2>1, <2>2 DEF ReserveWritten
    <3>3. read'[d] = [todo |-> read[d].todo \ {o}]
      BY <1>0, <3>1, <3>2 DEF TypeOK
    <3>4. txn'[g].view = [view EXCEPT !.observations = @ \cup {o}]
      BY <1>0, <2>1, <3>1, Seen DEF InLock
    <3>5. /\ txn'[g].view.observations = view.observations \cup {o}
          /\ txn'[g].view.owner = view.owner /\ txn'[g].view.revision = view.revision
          /\ txn'[g].view.permits = view.permits
      BY <2>2, <3>4 DEF Database
    <3>6. Done(d)' = Done(d) \cup {o}
      BY <3>1, <3>2, <3>3 DEF Done
    <3>7. \/ pc'[d] = "bindings"
          \/ pc'[d] = "insert" /\ read'[d] = NothingRead
      BY <1>0, <3>1, <3>3, JumpLabel DEF NothingRead
    <3>8. view.observations = disk.observations \cup Done(d)
      BY <2>1, <2>2 DEF ReserveWritten
    <3>9. \A b \in Done(d) \cup {o}, s \in disk.observations \cup (Done(d) \cup {o}) :
            s.key = b.key => s.handoff = b.handoff
      BY <2>1, <2>2, <3>1, <3>8 DEF ReserveWritten
    <3>10. ReserveWritten(d)'
      BY <2>1, <2>2, <3>1, <3>2, <3>3, <3>5, <3>6, <3>7, <3>8, <3>9
      DEF ReserveWritten, callerVars, NothingRead
    <3> QED BY <1>2, <2>1, <3>1, <3>7, <3>10 DEF InLock
  <2> QED BY <1>1, <2>3
<1>5. CASE ReserveInsert(d)
  <2>1. pc[d] = "insert" /\ call[d].op = "reserve"
    BY <1>5 DEF ReserveInsert, At
  <2>2. ReserveWritten(d) /\ View(g) = view /\ view \in Database
    BY <1>0, <2>1, Seen DEF ThreadInv, InLock
  <2>3. CASE ~GiveUp(d, "REPLAY_DETECTED")
    <3>1. /\ \A p \in PermitIds : Present(view.permits, p) =>
               p # call[d].permit /\ ReplayKey(view.permits[p].request) # ReplayKey(r)
          /\ txn' = [txn EXCEPT ![g].view =
                      [view EXCEPT !.permits = [@ EXCEPT ![call[d].permit] = Reserved(d)]]]
          /\ pc'[d] = "count" /\ UNCHANGED <<disk, lock, callVars, callerVars>>
      BY <1>0, <1>5, <2>2, <2>3, JumpLabel DEF ReserveInsert, Reserved
    <3>2. txn'[g].view = [view EXCEPT !.permits = [@ EXCEPT ![call[d].permit] = Reserved(d)]]
      BY <1>0, <2>1, <3>1, Seen DEF InLock
    <3>3. /\ txn'[g].view.permits = [view.permits EXCEPT ![call[d].permit] = Reserved(d)]
          /\ txn'[g].view.owner = view.owner /\ txn'[g].view.revision = view.revision
          /\ txn'[g].view.observations = view.observations
      BY <2>2, <3>2 DEF Database
    <3>4. Reserved(d)' = Reserved(d) /\ Done(d)' = Done(d)
      BY <3>1 DEF Reserved, Done, callVars, callerVars
    <3>5. ReserveWritten(d)'
      BY <2>1, <2>2, <3>1, <3>3, <3>4 DEF ReserveWritten, callVars, callerVars
    <3> QED BY <1>2, <2>1, <3>1, <3>5 DEF InLock, callVars
  <2> QED BY <1>1, <2>3
<1>6. CASE ReserveCommit(d)
  <2>1. pc'[d] = "leaving" /\ call'[d] = NoCall /\ read'[d] = NothingRead
        /\ snapshot'[d] = NoSnapshot
    BY <1>0, <1>6, JumpLabel DEF ReserveCommit, Commit, TypeOK
  <2> QED BY <1>0, <2>1 DEF ThreadInv, DeciderHand, ReadSoFar, Down, NoCall
<1> QED BY <1>3, <1>4, <1>5, <1>6 DEF ReserveStatement

LEMMA AdapterInv ==
  ASSUME TypeOK, LockInv, NEW a \in Adapters, ThreadInv(a), AdapterStatement(a)
  PROVE  ThreadInv(a)'
<1> DEFINE g == Program[a]
           view == txn[g].view
<1>0. a \in Processes /\ a \notin Deciders /\ g \in Programs
  BY Roles
<1>1. ASSUME call[a].op \in {"consume", "finish"}, UNCHANGED <<call, read, held>>,
             pc[a] \in InLock \ {"begin", "leaving"}, pc'[a] \in InLock \ {"begin", "leaving"},
             (call[a].op = "consume" => ConsumeWritten(a))',
             (call[a].op = "finish" => FinishWritten(a))'
      PROVE  ThreadInv(a)'
  BY <1>0, <1>1 DEF ThreadInv, AdapterHand, ReadSoFar, InLock, NoCall
<1>2. CASE ConsumeSelect(a)
  <2>1. pc[a] = "select" /\ call[a].op = "consume"
    BY <1>2 DEF ConsumeSelect, At
  <2>2. View(g) = disk /\ view = disk
    BY <1>0, <2>1, Seen DEF ThreadInv, ConsumeWritten, Moved, InLock
  <2>3. CASE GiveUp(a, "PAUSE")
    BY <1>0, <2>3, GiveUpInv
  <2>4. CASE ~GiveUp(a, "PAUSE")
    <3>1. /\ Consumable(disk.permits[call[a].permit], call[a])
          /\ pc'[a] = "update" /\ UNCHANGED <<disk, txn, callVars, callerVars>>
      BY <1>0, <1>2, <2>2, <2>4, JumpLabel DEF ConsumeSelect
    <3>2. ConsumeWritten(a)'
      BY <2>2, <3>1 DEF ConsumeWritten, Moved, callVars
    <3> QED BY <1>1, <2>1, <3>1, <3>2 DEF InLock, callVars, callerVars
  <2> QED BY <2>3, <2>4
<1>3. ASSUME NEW id, NEW state, pc[a] = "update", call[a].op \in {"consume", "finish"}, view = disk,
             txn' = [txn EXCEPT ![g].view.permits[id].state = state],
             Jump(a, "count"), UNCHANGED <<disk, lock, callVars, callerVars>>
      PROVE  /\ pc'[a] = "count" /\ txn'[g].view.permits = [disk.permits EXCEPT ![id].state = state]
             /\ txn'[g].view.owner = disk.owner /\ txn'[g].view.observations = disk.observations
             /\ txn'[g].view.revision = disk.revision
  <2>1. txn' = [txn EXCEPT ![g].view = [disk EXCEPT !.permits = [@ EXCEPT ![id].state = state]]]
    BY <1>3
  <2>2. txn'[g].view = [disk EXCEPT !.permits = [@ EXCEPT ![id].state = state]]
    BY <1>0, <1>3, <2>1, Seen DEF InLock
  <2> QED BY <1>0, <1>3, <2>2, JumpLabel DEF TypeOK, Database
<1>4. CASE ConsumeUpdate(a)
  <2>1. pc[a] = "update" /\ call[a].op = "consume"
    BY <1>4 DEF ConsumeUpdate, At
  <2>2. view = disk /\ Consumable(disk.permits[call[a].permit], call[a])
    BY <2>1 DEF ThreadInv, ConsumeWritten, Moved
  <2>3. /\ pc'[a] = "count"
        /\ txn'[g].view.permits = [disk.permits EXCEPT ![call[a].permit].state = "ATTEMPTED"]
        /\ txn'[g].view.owner = disk.owner /\ txn'[g].view.observations = disk.observations
        /\ txn'[g].view.revision = disk.revision /\ UNCHANGED <<disk, callVars, callerVars>>
    <3>1. /\ txn' = [txn EXCEPT ![g].view.permits[call[a].permit].state = "ATTEMPTED"]
          /\ Jump(a, "count") /\ UNCHANGED <<disk, lock, callVars, callerVars>>
      BY <1>4 DEF ConsumeUpdate
    <3>2. UNCHANGED <<disk, callVars, callerVars>>
      BY <3>1
    <3> HIDE DEF view
    <3> QED BY <1>3, <2>1, <2>2, <3>1, <3>2
  <2>4. ConsumeWritten(a)'
    BY <2>2, <2>3 DEF ConsumeWritten, Moved, callVars
  <2> QED BY <1>1, <2>1, <2>3, <2>4 DEF InLock, callVars, callerVars
<1>5. CASE FinishUpdate(a)
  <2>1. pc[a] = "update" /\ call[a].op = "finish"
    BY <1>5 DEF FinishUpdate, At
  <2>2. view = disk /\ disk.permits[held[a].permit].state = "ATTEMPTED"
    BY <1>0, <1>5, <2>1, Seen DEF ThreadInv, FinishWritten, Moved, FinishUpdate, InLock
  <2>3. /\ pc'[a] = "count"
        /\ txn'[g].view.permits = [disk.permits EXCEPT ![held[a].permit].state = call[a].outcome]
        /\ txn'[g].view.owner = disk.owner /\ txn'[g].view.observations = disk.observations
        /\ txn'[g].view.revision = disk.revision /\ UNCHANGED <<disk, callVars, callerVars>>
    <3>1. /\ txn' = [txn EXCEPT ![g].view.permits[held[a].permit].state = call[a].outcome]
          /\ Jump(a, "count") /\ UNCHANGED <<disk, lock, callVars, callerVars>>
      BY <1>5 DEF FinishUpdate
    <3>2. UNCHANGED <<disk, callVars, callerVars>>
      BY <3>1
    <3> HIDE DEF view
    <3> QED BY <1>3, <2>1, <2>2, <3>1, <3>2
  <2>4. FinishWritten(a)'
    BY <2>2, <2>3 DEF FinishWritten, Moved, callVars, callerVars
  <2> QED BY <1>1, <2>1, <2>3, <2>4 DEF InLock, callVars, callerVars
<1>6. CASE ConsumeCommit(a)
  <2>1. pc'[a] = "leaving" /\ call'[a] = NoCall /\ read'[a] = NothingRead
    BY <1>0, <1>6, JumpLabel DEF ConsumeCommit, Commit, TypeOK
  <2> QED BY <1>0, <2>1 DEF ThreadInv, AdapterHand, ReadSoFar, NoCall
<1>7. CASE FinishCommit(a)
  <2>1. pc'[a] = "leaving" /\ call'[a] = NoCall /\ read'[a] = NothingRead
    BY <1>0, <1>7, JumpLabel DEF FinishCommit, Commit, TypeOK
  <2> QED BY <1>0, <2>1 DEF ThreadInv, AdapterHand, ReadSoFar, NoCall
<1> QED BY <1>2, <1>4, <1>5, <1>6, <1>7 DEF AdapterStatement

LEMMA StepInv ==
  ASSUME TypeOK, LockInv, NEW p \in Processes, ThreadInv(p), StepOf(p) PROVE ThreadInv(p)'
<1>1. CASE DatabaseError(p) \/ Busy(p)
  BY <1>1, GiveUpInv DEF DatabaseError, Busy
<1>2. CASE p \in Deciders /\ (SnapshotStatement(p) \/ ReserveStatement(p))
  BY <1>2, SnapshotInv, ReserveInv
<1>3. CASE p \in Adapters /\ (AdapterStatement(p) \/ Act(p))
  BY <1>3, AdapterInv, ActInv
<1> QED BY <1>1, <1>2, <1>3, CallInv, AcquireInv, LeaveInv, BeginInv, CountInv DEF StepOf, Proceed

\* The file belongs to a store before anybody works on it.
LEMMA OwnerNext ==
  ASSUME TypeOK, LockInv, \A p \in Processes : ThreadInv(p), \A g \in Programs : Opened(g),
         OwnerInv, [Next]_vars
  PROVE  OwnerInv'
<1>1. ASSUME NEW p \in Processes, StepOf(p) PROVE OwnerInv'
  <2>1. Own(p) /\ pc[p] \notin Down
    BY <1>1, StepIsOwn, StepIsUp
  <2>2. disk.owner # NoStore
    BY <2>1 DEF OwnerInv
  <2>3. CASE disk' = disk
    BY <2>2, <2>3 DEF OwnerInv
  <2>4. CASE disk' # disk
    <3>1. pc[p] = "commit" /\ call[p].op # "snapshot" /\ disk' = txn[Program[p]].view
      BY <2>1, <2>4 DEF Own
    <3>2. call[p].op \in {"reserve", "consume", "finish"}
      BY <3>1, Labels DEF Labelled, SnapshotCall, ReserveCall, ConsumeCall, FinishCall, Down, Between
    <3>3. txn[Program[p]].view.owner = disk.owner
      BY <3>1, <3>2 DEF ThreadInv, ReserveWritten, ConsumeWritten, FinishWritten, Moved
    <3> QED BY <2>2, <3>1, <3>3 DEF OwnerInv
  <2> QED BY <2>3, <2>4
<1>2. ASSUME NEW g \in Programs, OpenBegin(g) \/ OpenInsert(g) \/ Kill(g) PROVE OwnerInv'
  <2>1. disk' = disk /\ \A p \in Processes : pc'[p] \notin Down => pc[p] \notin Down
    BY <1>2 DEF OpenBegin, OpenInsert, Kill, Go, Down
  <2> QED BY <2>1 DEF OwnerInv
<1>3. ASSUME NEW g \in Programs, OpenCheck(g) PROVE OwnerInv'
  <2>1. txn[g].view = [disk EXCEPT !.owner = IF @ = NoStore THEN StoreIdOf[g] ELSE @]
    BY <1>3 DEF Opened, OpenCheck
  <2>2. CASE txn[g].view.owner = StoreIdOf[g]
    <3>1. disk' = txn[g].view
      BY <1>3, <2>2 DEF OpenCheck
    <3>2. disk'.owner # NoStore
      BY <2>2, <3>1, StatementAssumption
    <3> QED BY <3>2 DEF OwnerInv
  <2>3. CASE txn[g].view.owner # StoreIdOf[g]
    <3>1. disk' = disk /\ Go(g, "closed")
      BY <1>3, <2>3 DEF OpenCheck
    <3>2. \A p \in Processes : pc'[p] \notin Down => pc[p] \notin Down
      BY <3>1 DEF Go, Down
    <3> QED BY <3>1, <3>2 DEF OwnerInv
  <2> QED BY <2>2, <2>3
<1>4. CASE UNCHANGED vars
  BY <1>4 DEF vars, OwnerInv
<1> QED BY <1>1, <1>2, <1>3, <1>4 DEF Next, Opening, StepOf, Processes

LEMMA StatementInit == Init => StatementInv
<1> SUFFICES ASSUME Init PROVE StatementInv
  OBVIOUS
<1>1. \A p \in Processes : ThreadInv(p)
  BY DEF Init, ThreadInv, DeciderHand, AdapterHand, ReadSoFar, NoCall, Down
<1>2. ASSUME NEW g \in Programs PROVE Opened(g)
  <2>1. PICK p \in g : p \in Processes
    BY ThreadAssumption
  <2>2. pc[p] = "closed"
    BY <2>1 DEF Init
  <2> QED BY <2>2 DEF Opened, All
<1>3. OwnerInv
  BY DEF Init, OwnerInv, Down
<1> QED BY <1>1, <1>2, <1>3, TypeInit, LockInit DEF StatementInv

LEMMA StatementNext == StatementInv /\ [Next]_vars => StatementInv'
<1> SUFFICES ASSUME StatementInv, [Next]_vars PROVE StatementInv'
  OBVIOUS
<1>1. TypeOK /\ LockInv /\ TypeOK' /\ LockInv'
  BY TypeNext, LockNext DEF StatementInv
<1>2. ASSUME NEW p \in Processes PROVE ThreadInv(p)'
  <2>1. ThreadInv(p)
    BY DEF StatementInv
  <2>2. ASSUME NEW q \in Processes, StepOf(q) PROVE ThreadInv(p)'
    BY <1>1, <2>1, <2>2, StepInv, OthersOfThread, UndisturbedInv
  <2>3. ASSUME NEW g \in Programs, Opening(g) \/ Kill(g) PROVE ThreadInv(p)'
    <3>1. CASE p \in g
      BY <1>1, <2>3, <3>1, TogetherInv DEF StatementInv
    <3>2. CASE p \notin g
      BY <1>1, <2>1, <2>3, <3>2, OthersOfProgram, UndisturbedInv
    <3> QED BY <3>1, <3>2
  <2>4. CASE UNCHANGED vars
    <3>1. Undisturbed(p)
      BY <2>4 DEF vars, Undisturbed
    <3> QED BY <1>1, <2>1, <3>1, UndisturbedInv
  <2> QED BY <2>2, <2>3, <2>4 DEF Next, StepOf, Processes
<1>3. \A g \in Programs : Opened(g)'
  BY <1>1, OpenedNext DEF StatementInv
<1>4. OwnerInv'
  BY <1>1, OwnerNext DEF StatementInv
<1> QED BY <1>1, <1>2, <1>3, <1>4 DEF StatementInv

\* Every statement of every thread keeps what has been said of locks,
\* transactions and threads.
THEOREM StatementsInvariant == Spec => []StatementInv
BY StatementInit, StatementNext, PTL DEF Spec

\* However a method ends, it leaves no transaction open for the next thread.
THEOREM NothingLeft == Spec => []NothingLeftOpen
<1>1. StatementInv => NothingLeftOpen
  BY NothingOpen DEF StatementInv
<1> QED BY <1>1, StatementsInvariant, PTL

-----------------------------------------------------------------------------
(***************************************************************************)
(* The refinement.                                                         *)
(***************************************************************************)
SnapshotOf(d) ==
  IF Reading(d)
  THEN [revision |-> View(Program[d]).revision, captured |-> call[d].captured,
        records |-> View(Program[d]).permits,
        observations |-> View(Program[d]).observations]
  ELSE snapshot[d]

PhaseOf(p) ==
  IF pc[p] \in {"closed", "opening", "checking"} THEN "closed"
  ELSE IF p \in Deciders
  THEN IF AtomicSnapshot[p] # NoSnapshot THEN "prepared" ELSE "idle"
  ELSE IF held[p] = NothingHeld THEN "idle"
  ELSE IF pc[p] = "acted" \/ call[p].op = "finish" THEN "acted" ELSE "consumed"

LEMMA AtomicAt ==
  /\ AtomicSnapshot = [d \in Deciders |-> SnapshotOf(d)]
  /\ AtomicPhase = [p \in Processes |-> PhaseOf(p)]
<1>1. AtomicSnapshot = [d \in Deciders |-> SnapshotOf(d)]
  BY DEF AtomicSnapshot, SnapshotOf
<1>2. AtomicPhase = [p \in Processes |-> PhaseOf(p)]
  BY DEF AtomicPhase, PhaseOf
<1> QED BY <1>1, <1>2

LEMMA AtomicAtNext ==
  /\ AtomicSnapshot' = [d \in Deciders |-> SnapshotOf(d)']
  /\ AtomicPhase' = [p \in Processes |-> PhaseOf(p)']
<1>1. AtomicSnapshot' = [d \in Deciders |-> SnapshotOf(d)']
  BY DEF AtomicSnapshot, SnapshotOf
<1>2. AtomicPhase' = [p \in Processes |-> PhaseOf(p)']
  BY DEF AtomicPhase, PhaseOf
<1> QED BY <1>1, <1>2

\* The phase of a thread, from its label and what it has in hand.
LEMMA Phases ==
  /\ \A d \in Deciders : PhaseOf(d) = IF pc[d] \in Down THEN "closed"
                                      ELSE IF SnapshotOf(d) # NoSnapshot THEN "prepared"
                                      ELSE "idle"
  /\ \A a \in Adapters : PhaseOf(a) = IF pc[a] \in Down THEN "closed"
                                      ELSE IF held[a] = NothingHeld THEN "idle"
                                      ELSE IF pc[a] = "acted" \/ call[a].op = "finish" THEN "acted"
                                      ELSE "consumed"
BY AtomicAt, Roles DEF PhaseOf, Down

LEMMA PhasesNext ==
  /\ \A d \in Deciders : PhaseOf(d)' = IF pc'[d] \in Down THEN "closed"
                                       ELSE IF SnapshotOf(d)' # NoSnapshot THEN "prepared"
                                       ELSE "idle"
  /\ \A a \in Adapters : PhaseOf(a)' = IF pc'[a] \in Down THEN "closed"
                                       ELSE IF held'[a] = NothingHeld THEN "idle"
                                       ELSE IF pc'[a] = "acted" \/ call'[a].op = "finish" THEN "acted"
                                       ELSE "consumed"
BY AtomicAtNext, Roles DEF PhaseOf, Down

\* What a snapshot in the making is.
LEMMA Made ==
  ASSUME TypeOK, LockInv, NEW d \in Deciders
  PROVE  /\ call[d].op # "snapshot" => SnapshotOf(d) = snapshot[d]
         /\ pc[d] \notin {"permits", "observations", "commit"} => SnapshotOf(d) = snapshot[d]
         /\ SnapshotOf(d) # snapshot[d] =>
              /\ call[d] \in SnapshotCall /\ pc[d] \in InLock
              /\ SnapshotOf(d) # NoSnapshot
<1>1. Reading(d) => call[d].op = "snapshot" /\ pc[d] \in {"permits", "observations", "commit"}
  BY DEF Reading
<1>2. Reading(d) => call[d] \in SnapshotCall /\ pc[d] \in InLock
  BY <1>1, Labels, Roles DEF InLock
<1>3. Reading(d) => SnapshotOf(d) # NoSnapshot
  BY DEF SnapshotOf, NoSnapshot
<1> QED BY <1>1, <1>2, <1>3 DEF SnapshotOf

LEMMA MadeNext ==
  ASSUME TypeOK', LockInv', NEW d \in Deciders
  PROVE  /\ call'[d].op # "snapshot" => SnapshotOf(d)' = snapshot'[d]
         /\ pc'[d] \notin {"permits", "observations", "commit"} => SnapshotOf(d)' = snapshot'[d]
BY DEF SnapshotOf, Reading

LEMMA UndisturbedSnapshot ==
  ASSUME TypeOK, LockInv, NEW d \in Deciders, Undisturbed(d)
  PROVE  SnapshotOf(d)' = SnapshotOf(d)
<1>1. d \in Processes
  BY Roles
<1>2. CASE call[d].op = "snapshot" /\ pc[d] \in {"permits", "observations", "commit"}
  <2>1. txn[Program[d]].mode = "read" /\ txn'[Program[d]] = txn[Program[d]]
    BY <1>1, <1>2, LockMode DEF Undisturbed, InLock, Mode
  <2>2. View(Program[d])' = View(Program[d])
    BY <2>1 DEF View
  <2> QED BY <2>2 DEF SnapshotOf, Reading, Undisturbed
<1>3. CASE ~ (call[d].op = "snapshot" /\ pc[d] \in {"permits", "observations", "commit"})
  BY <1>3 DEF SnapshotOf, Reading, Undisturbed
<1> QED BY <1>2, <1>3

LEMMA UndisturbedPhase ==
  ASSUME TypeOK, LockInv, NEW p \in Processes, Undisturbed(p)
  PROVE  PhaseOf(p)' = PhaseOf(p)
<1>1. CASE p \in Deciders
  BY <1>1, UndisturbedSnapshot, Phases, PhasesNext DEF Undisturbed
<1>2. CASE p \in Adapters
  BY <1>2, Phases, PhasesNext DEF Undisturbed
<1> QED BY <1>1, <1>2 DEF Processes

\* Of the abstract processes too, a step of a thread moves only its own.
LEMMA Moves ==
  ASSUME TypeOK, LockInv, NEW p \in Processes, StepOf(p)
  PROVE  /\ AtomicPhase' = [AtomicPhase EXCEPT ![p] = PhaseOf(p)']
         /\ p \in Deciders => AtomicSnapshot' = [AtomicSnapshot EXCEPT ![p] = SnapshotOf(p)']
         /\ p \in Adapters => AtomicSnapshot' = AtomicSnapshot
<1>1. \A q \in Processes \ {p} : Undisturbed(q)
  BY OthersOfThread
<1>2. \A q \in Processes \ {p} : PhaseOf(q)' = PhaseOf(q)
  BY <1>1, UndisturbedPhase
<1>3. \A d \in Deciders \ {p} : SnapshotOf(d)' = SnapshotOf(d)
  BY <1>1, UndisturbedSnapshot, Roles
<1>4. AtomicPhase' = [AtomicPhase EXCEPT ![p] = PhaseOf(p)']
  BY <1>2, AtomicAt, AtomicAtNext
<1>5. p \in Deciders => AtomicSnapshot' = [AtomicSnapshot EXCEPT ![p] = SnapshotOf(p)']
  BY <1>3, AtomicAt, AtomicAtNext
<1>6. p \in Adapters => AtomicSnapshot' = AtomicSnapshot
  BY <1>3, AtomicAt, AtomicAtNext, Roles
<1> QED BY <1>4, <1>5, <1>6

LEMMA Stutter ==
  ASSUME TypeOK, LockInv, NEW p \in Processes, StepOf(p), UNCHANGED <<disk, answer, held, acts>>,
         PhaseOf(p)' = PhaseOf(p), p \in Deciders => SnapshotOf(p)' = SnapshotOf(p)
  PROVE  UNCHANGED Atomic!vars
<1>1. AtomicPhase' = AtomicPhase
  BY Moves, AtomicAt
<1>2. AtomicSnapshot' = AtomicSnapshot
  BY Moves, AtomicAt DEF Processes
<1> QED BY <1>1, <1>2 DEF Atomic!vars

LEMMA AtomicInit == Init => Atomic!Init
<1> SUFFICES ASSUME Init PROVE Atomic!Init
  OBVIOUS
<1>1. AtomicSnapshot = [d \in Deciders |-> NoSnapshot]
  <2>1. \A d \in Deciders : SnapshotOf(d) = NoSnapshot
    BY Roles DEF Init, SnapshotOf, Reading, NoCall
  <2> QED BY <2>1, AtomicAt
<1>2. AtomicPhase = [p \in Processes |-> "closed"]
  <2>1. \A p \in Processes : PhaseOf(p) = "closed"
    BY DEF Init, PhaseOf
  <2> QED BY <2>1, AtomicAt
<1> QED BY <1>1, <1>2 DEF Init, Atomic!Init, Atomic!NoSnapshot, Atomic!NoAnswer,
        Atomic!NothingHeld, Atomic!NoPermit, Atomic!Processes, NoSnapshot, NoAnswer,
        NothingHeld, NoPermit, Processes

\* What is said twice, here and in NeutralPermitStore, is the same.
LEMMA SameWords ==
  /\ Atomic!NoSnapshot = NoSnapshot /\ Atomic!NoAnswer = NoAnswer
  /\ Atomic!NothingHeld = NothingHeld /\ Atomic!Processes = Processes
  /\ Atomic!Readings = Times /\ Atomic!Times = Times
  /\ \A r, t : Atomic!Expiry(r, t) = Expiry(r, t)
  /\ \A r, s : Atomic!SameAction(r, s) <=> SameAction(r, s)
  /\ \A r : Atomic!ReplayKey(r) = ReplayKey(r)
  /\ \A p : Atomic!Present(p) <=> Present(disk.permits, p)
  /\ Atomic!vars = <<0, disk.owner, disk.revision, disk.observations, disk.permits,
                     AtomicPhase, AtomicSnapshot, answer, held, acts>>
<1>1. Atomic!Readings = Times
  BY StatementAssumption DEF Atomic!Readings, Atomic!Times, Times
<1> QED BY <1>1 DEF Atomic!NoSnapshot, NoSnapshot, Atomic!NoAnswer, NoAnswer, Atomic!NothingHeld,
        NothingHeld, Atomic!Processes, Processes, Atomic!Times, Times, Atomic!Expiry, Expiry,
        Atomic!SameAction, SameAction, Atomic!ReplayKey, ReplayKey, Atomic!Present, Present,
        Atomic!vars

\* What a step of a decider or of an adapter has to do to be one of the
\* abstract ones.
LEMMA AbandonStep ==
  ASSUME TypeOK, LockInv, NEW d \in Deciders, StepOf(d), pc[d] \notin Down, pc'[d] \notin Down,
         UNCHANGED <<disk, held, acts>>, SnapshotOf(d)' = NoSnapshot,
         answer' = [answer EXCEPT ![d] = NoAnswer]
  PROVE  Atomic!Abandon(d)
<1>1. d \in Processes /\ PhaseOf(d) \in {"idle", "prepared"} /\ PhaseOf(d)' = "idle"
  BY Roles, Phases, PhasesNext
<1>2. AtomicPhase[d] \in {"idle", "prepared"}
  BY <1>1, AtomicAt
<1>3. AtomicPhase' = [AtomicPhase EXCEPT ![d] = "idle"]
  BY <1>1, Moves
<1>4. AtomicSnapshot' = [AtomicSnapshot EXCEPT ![d] = NoSnapshot]
  BY <1>1, Moves
<1> QED BY <1>2, <1>3, <1>4, SameWords DEF Atomic!Abandon, Atomic!tableVars

LEMMA PauseStep ==
  ASSUME TypeOK, LockInv, NEW d \in Deciders, StepOf(d), pc[d] \notin Down, pc'[d] \notin Down,
         UNCHANGED <<disk, held, acts>>, SnapshotOf(d) # NoSnapshot, SnapshotOf(d)' = NoSnapshot,
         NEW reason, call[d] \in ReserveCall,
         answer' = [answer EXCEPT ![d] = [reason |-> reason, request |-> call[d].request]],
         \/ reason = "STATE_UNAVAILABLE"
         \/ reason # "ALLOW"
            /\ reason = Atomic!ReserveReason(d, call[d].request, call[d].permit)
  PROVE  \E r \in Requests, id \in PermitIds : Atomic!Pause(d, r, id)
<1>1. d \in Processes /\ PhaseOf(d) = "prepared" /\ PhaseOf(d)' = "idle"
  BY Roles, Phases, PhasesNext
<1>2. AtomicPhase[d] = "prepared"
  BY <1>1, AtomicAt
<1>3. AtomicPhase' = [AtomicPhase EXCEPT ![d] = "idle"]
  BY <1>1, Moves
<1>4. AtomicSnapshot' = [AtomicSnapshot EXCEPT ![d] = NoSnapshot]
  BY <1>1, Moves
<1>5. call[d].request \in Requests /\ call[d].permit \in PermitIds
  BY DEF ReserveCall
<1>6. Atomic!Decide(d, reason, call[d].request)
  BY <1>3, <1>4, SameWords DEF Atomic!Decide
<1>7. Atomic!Pause(d, call[d].request, call[d].permit)
  BY <1>2, <1>6 DEF Atomic!Pause, Atomic!tableVars
<1> QED BY <1>5, <1>7

LEMMA InMethod ==
  ASSUME TypeOK, LockInv, NEW p \in Processes, pc[p] \in InLock \ {"leaving"}
  PROVE  /\ p \in Deciders => call[p].op \in {"snapshot", "reserve"}
         /\ p \in Adapters => call[p].op \in {"consume", "finish"}
<1>1. Labelled(call[p], pc[p])
  BY Labels
<1>2. call[p].op \in {"snapshot", "reserve", "consume", "finish"}
  BY <1>1 DEF Labelled, InLock, Between, Down, SnapshotCall, ReserveCall, ConsumeCall, FinishCall
<1> QED BY <1>2 DEF LockInv, ThreadLock

\* A method that is given up.
LEMMA GiveUpStep ==
  ASSUME TypeOK, LockInv, TypeOK', LockInv', NEW p \in Processes, ThreadInv(p), StepOf(p),
         pc[p] \in InLock \ {"leaving"}, NEW reason, GiveUp(p, reason),
         call[p].op = "reserve" => \/ reason = "STATE_UNAVAILABLE"
                                   \/ reason # "ALLOW"
                                      /\ reason = Atomic!ReserveReason(p, call[p].request, call[p].permit)
  PROVE  Atomic!Next \/ UNCHANGED Atomic!vars
<1>1. /\ pc'[p] = "leaving" /\ call'[p] = NoCall /\ UNCHANGED <<disk, acts>>
      /\ pc[p] \notin Down /\ pc'[p] \notin Down
  BY GiveUpLabel DEF GiveUp, TypeOK, Down, InLock
<1>3. CASE p \in Deciders
  <2>1. /\ call[p].op \in {"snapshot", "reserve"} /\ p \notin Adapters
        /\ held' = held
    <3>1. held' = held
      BY <1>3, Roles DEF GiveUp, TypeOK
    <3> QED BY <1>3, <3>1, Roles, InMethod
  <2>2. SnapshotOf(p)' = NoSnapshot
    BY <1>1, <1>3, MadeNext DEF GiveUp
  <2>3. CASE call[p].op = "snapshot"
    <3>1. answer' = answer /\ answer[p] = NoAnswer
      BY <1>3, <2>3 DEF GiveUp, TypeOK, ThreadInv, DeciderHand
    <3>2. answer' = [answer EXCEPT ![p] = NoAnswer]
      BY <3>1 DEF TypeOK
    <3>3. Atomic!Abandon(p)
      BY <1>1, <1>3, <2>1, <2>2, <3>2, AbandonStep
    <3> QED BY <1>3, <3>3 DEF Atomic!Next, Atomic!DeciderStep
  <2>4. CASE call[p].op = "reserve"
    <3>1. answer' = [answer EXCEPT ![p] = [reason |-> reason, request |-> call[p].request]]
      BY <1>3, <2>4 DEF GiveUp, TypeOK
    <3>2. SnapshotOf(p) # NoSnapshot /\ call[p] \in ReserveCall
      BY <1>3, <2>4, Made, Labels DEF ThreadInv, DeciderHand
    <3>3. \E r \in Requests, id \in PermitIds : Atomic!Pause(p, r, id)
      BY <1>1, <1>3, <2>1, <2>2, <2>4, <3>1, <3>2, PauseStep
    <3> QED BY <1>3, <3>3 DEF Atomic!Next, Atomic!DeciderStep
  <2> QED BY <2>1, <2>3, <2>4
<1>4. CASE p \in Adapters
  <2>1. /\ call[p].op \in {"consume", "finish"} /\ p \notin Deciders
        /\ UNCHANGED <<snapshot, answer>> /\ held' = [held EXCEPT ![p] = NothingHeld]
    <3>1. p \notin Deciders
      BY <1>4, Roles
    <3>2. snapshot' = snapshot
      BY <3>1 DEF GiveUp, TypeOK
    <3>3. answer' = answer
      BY <3>1 DEF GiveUp, TypeOK
    <3>4. held' = [held EXCEPT ![p] = NothingHeld]
      BY <1>4 DEF GiveUp, TypeOK
    <3> QED BY <1>4, <3>1, <3>2, <3>3, <3>4, InMethod
  <2>2. PhaseOf(p)' = "idle"
    BY <1>1, <1>4, <2>1, PhasesNext DEF TypeOK
  <2>3. CASE call[p].op = "consume"
    <3>1. held[p] = NothingHeld
      BY <1>4, <2>3 DEF ThreadInv, AdapterHand, InLock
    <3>2. held' = held /\ PhaseOf(p) = "idle"
      BY <1>1, <1>4, <2>1, <3>1, Phases DEF TypeOK
    <3> QED BY <1>1, <2>1, <2>2, <3>2, Stutter
  <2>4. CASE call[p].op = "finish"
    <3>1. held[p] # NothingHeld /\ call[p] \in FinishCall
      BY <1>4, <2>4, Labels DEF ThreadInv, AdapterHand
    <3>2. AtomicPhase[p] = "acted"
      BY <1>1, <1>4, <2>4, <3>1, Phases, AtomicAt
    <3>3. AtomicPhase' = [AtomicPhase EXCEPT ![p] = "idle"] /\ AtomicSnapshot' = AtomicSnapshot
      BY <1>4, <2>2, Moves
    <3>4. Atomic!Finish(p, call[p].outcome)
      BY <1>1, <2>1, <3>2, <3>3, SameWords DEF Atomic!Finish, Atomic!deciderVars
    <3> QED BY <1>4, <3>1, <3>4 DEF Atomic!Next, Atomic!AdapterStep, FinishCall
  <2> QED BY <2>1, <2>3, <2>4
<1> QED BY <1>3, <1>4 DEF Processes

LEMMA QuietDecider ==
  ASSUME TypeOK, LockInv, NEW d \in Deciders, StepOf(d), UNCHANGED <<disk, answer, held, acts>>,
         SnapshotOf(d)' = SnapshotOf(d)
  PROVE  UNCHANGED Atomic!vars
<1>1. d \in Processes /\ pc[d] \notin Down /\ pc'[d] \notin Down
  BY Roles, StepIsUp
<1>2. PhaseOf(d)' = PhaseOf(d)
  BY <1>1, Phases, PhasesNext
<1> QED BY <1>1, <1>2, Stutter

LEMMA QuietAdapter ==
  ASSUME TypeOK, LockInv, NEW a \in Adapters, StepOf(a), UNCHANGED <<disk, answer, held, acts>>,
         (pc'[a] = "acted" \/ call'[a].op = "finish") <=> (pc[a] = "acted" \/ call[a].op = "finish")
  PROVE  UNCHANGED Atomic!vars
<1>1. a \in Processes /\ a \notin Deciders /\ pc[a] \notin Down /\ pc'[a] \notin Down
  BY Roles, StepIsUp
<1>2. PhaseOf(a)' = PhaseOf(a)
  BY <1>1, Phases, PhasesNext
<1> QED BY <1>1, <1>2, Stutter

LEMMA CallStep ==
  ASSUME TypeOK, LockInv, TypeOK', LockInv', NEW p \in Processes, ThreadInv(p), CallOf(p)
  PROVE  Atomic!Next \/ UNCHANGED Atomic!vars
<1>0. StepOf(p) /\ pc[p] \notin Down /\ pc'[p] \notin Down
  BY StepIsUp DEF StepOf
<1>1. ASSUME p \in Deciders, NEW t \in Times, CallSnapshot(p, t) PROVE Atomic!Next
  <2>1. /\ pc[p] = "idle" /\ pc'[p] = "entering" /\ snapshot[p] = NoSnapshot
        /\ UNCHANGED <<disk, snapshot, held, acts>> /\ answer' = [answer EXCEPT ![p] = NoAnswer]
    BY <1>1, Labels, JumpLabel DEF CallSnapshot, Enter, Between, ThreadInv, DeciderHand, NoCall
  <2>2. SnapshotOf(p)' = NoSnapshot
    BY <1>1, <2>1, MadeNext
  <2>3. Atomic!Abandon(p)
    BY <1>0, <1>1, <2>1, <2>2, AbandonStep
  <2> QED BY <1>1, <2>3 DEF Atomic!Next, Atomic!DeciderStep
<1>2. ASSUME p \in Deciders, NEW r \in Requests, NEW id \in PermitIds, CallReserve(p, r, id)
      PROVE  UNCHANGED Atomic!vars
  <2>1. pc[p] = "prepared" /\ pc'[p] = "entering" /\ UNCHANGED <<disk, callerVars>>
    BY <1>2, JumpLabel DEF CallReserve, Enter
  <2>2. SnapshotOf(p)' = SnapshotOf(p)
    BY <1>2, <2>1, Made, MadeNext DEF callerVars
  <2> QED BY <1>0, <1>2, <2>1, <2>2, QuietDecider DEF callerVars
<1>3. ASSUME p \in Adapters, NEW id \in PermitIds, NEW r \in Requests, NEW now \in Times,
             CallConsume(p, id, r, now)
      PROVE  UNCHANGED Atomic!vars
  <2>1. /\ pc[p] = "idle" /\ pc'[p] = "entering" /\ UNCHANGED <<disk, callerVars>>
        /\ call[p] = NoCall /\ call'[p].op = "consume"
    BY <1>3, Labels, JumpLabel DEF CallConsume, Enter, Between, TypeOK
  <2> QED BY <1>0, <1>3, <2>1, QuietAdapter DEF callerVars, NoCall
<1>4. ASSUME p \in Adapters, NEW outcome \in {"SUCCEEDED", "FAILED"}, CallFinish(p, outcome)
      PROVE  UNCHANGED Atomic!vars
  <2>1. /\ pc[p] = "acted" /\ UNCHANGED <<disk, callerVars>> /\ call'[p].op = "finish"
    BY <1>4 DEF CallFinish, Enter, TypeOK
  <2> QED BY <1>0, <1>4, <2>1, QuietAdapter DEF callerVars
<1> QED BY <1>1, <1>2, <1>3, <1>4 DEF CallOf

\* What has no effect outside the thread.
LEMMA QuietStep ==
  ASSUME TypeOK, LockInv, TypeOK', LockInv', NEW p \in Processes,
         Acquire(p) \/ BeginImmediate(p) \/ CountRevision(p) \/ Leave(p)
  PROVE  UNCHANGED Atomic!vars
<1>1. StepOf(p)
  BY DEF StepOf, Proceed
<1>2. UNCHANGED <<disk, callVars, callerVars>>
  BY DEF Acquire, BeginImmediate, CountRevision, Leave
<1>3. \/ pc[p] = "entering" /\ pc'[p] = "begin"
      \/ call[p].op # "snapshot" /\ {pc[p], pc'[p]} \cap {"acted"} = {}
  <2>1. CASE Acquire(p)
    BY <2>1, JumpLabel DEF Acquire
  <2>2. CASE BeginImmediate(p)
    BY <2>2, JumpLabel DEF BeginImmediate, FirstStatement
  <2>3. CASE CountRevision(p)
    BY <2>3, Labels, JumpLabel DEF CountRevision, Labelled, SnapshotCall, ReserveCall, ConsumeCall,
       FinishCall, NoCall, Down, Between
  <2>4. CASE Leave(p)
    BY <2>4, Labels, JumpLabel DEF Leave, NoCall
  <2> QED BY <2>1, <2>2, <2>3, <2>4
<1>4. CASE p \in Deciders
  <2>1. SnapshotOf(p)' = SnapshotOf(p)
    BY <1>2, <1>3, <1>4, Made, MadeNext DEF callVars, callerVars
  <2> QED BY <1>1, <1>2, <1>4, <2>1, QuietDecider DEF callerVars
<1>5. CASE p \in Adapters
  BY <1>1, <1>2, <1>3, <1>5, QuietAdapter DEF callVars, callerVars
<1> QED BY <1>4, <1>5 DEF Processes

LEMMA ActStep ==
  ASSUME TypeOK, LockInv, TypeOK', LockInv', NEW a \in Adapters, ThreadInv(a), Act(a)
  PROVE  Atomic!Act(a)
<1>0. StepOf(a) /\ a \in Processes
  BY Roles DEF StepOf
<1>1. /\ pc[a] = "consumed" /\ pc'[a] = "acted" /\ call[a] = NoCall /\ held[a] # NothingHeld
      /\ UNCHANGED <<disk, snapshot, answer, held>>
      /\ acts' = [acts EXCEPT ![held[a].permit] = @ + 1]
  BY <1>0, Labels, JumpLabel DEF Act, ThreadInv, AdapterHand, Between
<1>2. PhaseOf(a) = "consumed" /\ PhaseOf(a)' = "acted"
  BY <1>1, Phases, PhasesNext DEF Down, NoCall
<1>3. AtomicPhase[a] = "consumed" /\ AtomicPhase' = [AtomicPhase EXCEPT ![a] = "acted"]
  BY <1>0, <1>2, AtomicAt, Moves
<1>4. AtomicSnapshot' = AtomicSnapshot
  BY <1>0, Moves
<1> QED BY <1>1, <1>3, <1>4 DEF Atomic!Act, Atomic!tableVars, Atomic!deciderVars

\* A snapshot is taken when its transaction pins what it reads.
LEMMA SnapshotStep ==
  ASSUME TypeOK, LockInv, TypeOK', LockInv', NEW d \in Deciders, ThreadInv(d), ThreadInv(d)',
         SnapshotStatement(d)
  PROVE  Atomic!Next \/ UNCHANGED Atomic!vars
<1> DEFINE g == Program[d]
<1>0. d \in Processes /\ g \in Programs /\ StepOf(d) /\ pc[d] \notin Down /\ pc'[d] \notin Down
  BY Roles, StepIsUp DEF StepOf, Proceed
<1>1. CASE SnapshotBegin(d)
  <2>1. pc[d] = "begin" /\ pc'[d] = "revision" /\ UNCHANGED <<disk, callVars, callerVars>>
    BY <1>0, <1>1, JumpLabel DEF SnapshotBegin, At
  <2>2. SnapshotOf(d)' = SnapshotOf(d)
    BY <2>1, Made, MadeNext DEF callerVars
  <2> QED BY <1>0, <2>1, <2>2, QuietDecider DEF callerVars
<1>2. CASE SnapshotRevision(d)
  <2>1. /\ pc[d] = "revision" /\ pc'[d] = "permits" /\ call[d] \in SnapshotCall
        /\ call[d].op = "snapshot" /\ UNCHANGED <<disk, call, callerVars>>
    BY <1>0, <1>2, Labels, JumpLabel DEF SnapshotRevision, At
  <2>2. txn[g].mode = "deferred" /\ snapshot[d] = NoSnapshot /\ answer[d] = NoAnswer
    BY <1>0, <2>1, LockMode DEF InLock, Mode, ThreadInv, DeciderHand
  <2>3. txn'[g] = [mode |-> "read", view |-> disk]
    BY <1>0, <1>2, <2>2 DEF SnapshotRevision, Pinned, TypeOK
  <2>4. SnapshotOf(d) = NoSnapshot
    BY <2>1, <2>2, Made
  <2>5. View(g)' = disk
    BY <2>3 DEF View
  <2>6. CASE NoneFromTheFuture(disk.permits, call[d].captured)
    <3>1. Reading(d)'
      BY <2>1, <2>5, <2>6 DEF Reading, NoneFromTheFuture
    <3>2. SnapshotOf(d)' = [revision |-> disk.revision, captured |-> call[d].captured,
                            records |-> disk.permits, observations |-> disk.observations]
      BY <2>1, <2>5, <3>1 DEF SnapshotOf
    <3>3. PhaseOf(d) = "idle" /\ PhaseOf(d)' = "prepared"
      BY <1>0, <2>4, <3>2, Phases, PhasesNext DEF NoSnapshot
    <3>4. AtomicPhase[d] = "idle" /\ AtomicPhase' = [AtomicPhase EXCEPT ![d] = "prepared"]
      BY <1>0, <3>3, AtomicAt, Moves
    <3>5. AtomicSnapshot' = [AtomicSnapshot EXCEPT ![d] =
                               [revision |-> disk.revision, captured |-> call[d].captured,
                                records |-> disk.permits, observations |-> disk.observations]]
      BY <1>0, <3>2, Moves
    <3>6. answer' = [answer EXCEPT ![d] = NoAnswer]
      BY <2>1, <2>2 DEF callerVars, TypeOK
    <3>7. call[d].captured \in Times
      BY <2>1 DEF SnapshotCall
    <3>8. \A p \in PermitIds : Atomic!Present(p) => disk.permits[p].issued <= call[d].captured
      BY <2>6, SameWords DEF NoneFromTheFuture
    <3>9. Atomic!TakeSnapshot(d, call[d].captured)
      BY <2>1, <3>4, <3>5, <3>6, <3>7, <3>8, SameWords
      DEF Atomic!TakeSnapshot, Atomic!tableVars, callerVars
    <3> QED BY <3>7, <3>9, SameWords DEF Atomic!Next, Atomic!DeciderStep
  <2>7. CASE ~NoneFromTheFuture(disk.permits, call[d].captured)
    <3>1. ~Reading(d)'
      BY <2>1, <2>5, <2>7 DEF Reading, NoneFromTheFuture
    <3>2. SnapshotOf(d)' = NoSnapshot
      BY <2>1, <2>2, <3>1 DEF SnapshotOf, callerVars
    <3> QED BY <1>0, <2>1, <2>4, <3>2, QuietDecider DEF callerVars
  <2> QED BY <2>6, <2>7
<1>3. CASE SnapshotPermits(d) \/ SnapshotObservations(d)
  <2>1. /\ pc[d] \in {"permits", "observations"} /\ pc'[d] \in {"observations", "commit"}
        /\ UNCHANGED <<disk, txn, call, callerVars>>
    BY <1>0, <1>3, JumpLabel DEF SnapshotPermits, SnapshotObservations, At
  <2>2. SnapshotOf(d)' = SnapshotOf(d)
    BY <2>1 DEF SnapshotOf, Reading, View, NoneFromTheFuture, callerVars
  <2> QED BY <1>0, <2>1, <2>2, QuietDecider DEF callerVars
<1>4. CASE SnapshotCommit(d)
  <2>1. /\ pc[d] = "commit" /\ call[d].op = "snapshot" /\ pc'[d] = "leaving"
        /\ UNCHANGED <<disk, answer, held, acts>>
        /\ snapshot' = [snapshot EXCEPT ![d] =
             IF NoneFromTheFuture(read[d].records, call[d].captured) THEN read[d] ELSE NoSnapshot]
    BY <1>0, <1>4, JumpLabel DEF SnapshotCommit, At
  <2>2. View(g) = txn[g].view
    BY <1>0, <2>1, LockMode DEF InLock, Mode, View
  <2>3. read[d] = [revision |-> View(g).revision, captured |-> call[d].captured,
                   records |-> View(g).permits, observations |-> View(g).observations]
    BY <2>1, <2>2 DEF ThreadInv, ReadSoFar
  <2>4. snapshot[d] = NoSnapshot
    BY <2>1 DEF ThreadInv, DeciderHand
  <2>5. snapshot'[d] = SnapshotOf(d)
    BY <2>1, <2>3, <2>4 DEF SnapshotOf, Reading, TypeOK
  <2>6. SnapshotOf(d)' = SnapshotOf(d)
    BY <2>1, <2>5, MadeNext
  <2> QED BY <1>0, <2>1, <2>6, QuietDecider
<1> QED BY <1>1, <1>2, <1>3, <1>4 DEF SnapshotStatement

\* What a reservation has to do to be the abstract one.
LEMMA ReserveStarted ==
  ASSUME TypeOK, LockInv, NEW d \in Deciders, ThreadInv(d), call[d].op = "reserve"
  PROVE  /\ call[d] \in ReserveCall /\ d \in Processes /\ ReserveWritten(d)
         /\ SnapshotOf(d) = snapshot[d] /\ AtomicSnapshot[d] = snapshot[d]
         /\ snapshot[d] \in Snapshot /\ snapshot[d] # NoSnapshot
         /\ ~(Expiry(call[d].request, snapshot[d].captured) <= snapshot[d].captured)
<1>1. call[d] \in ReserveCall /\ d \in Processes
  BY Labels, Roles
<1>2. SnapshotOf(d) = snapshot[d]
  BY Made
<1>3. AtomicSnapshot[d] = snapshot[d]
  BY <1>2, AtomicAt
<1>4. snapshot[d] # NoSnapshot /\ Expiry(call[d].request, snapshot[d].captured) > snapshot[d].captured
  BY DEF ThreadInv, DeciderHand
<1>5. snapshot[d] \in Snapshot /\ snapshot[d].captured \in Nat
  BY <1>4 DEF TypeOK, Snapshot, Times
<1>6. Expiry(call[d].request, snapshot[d].captured) \in Nat
  BY <1>1, <1>5, ExpiryType DEF ReserveCall, Snapshot
<1>7. ~(Expiry(call[d].request, snapshot[d].captured) <= snapshot[d].captured)
  BY <1>4, <1>5, <1>6
<1> QED BY <1>1, <1>2, <1>3, <1>4, <1>5, <1>7 DEF ThreadInv

LEMMA ReserveStep ==
  ASSUME TypeOK, LockInv, TypeOK', LockInv', NEW d \in Deciders, ThreadInv(d), ReserveStatement(d)
  PROVE  Atomic!Next \/ UNCHANGED Atomic!vars
<1> DEFINE g == Program[d]
           view == txn[g].view
           r == call[d].request
           id == call[d].permit
<1>0. d \in Processes /\ g \in Programs /\ StepOf(d) /\ pc[d] \notin Down /\ pc'[d] \notin Down
  BY Roles, StepIsUp DEF StepOf, Proceed
<1>1. call[d].op = "reserve" /\ pc[d] \in InLock \ {"begin", "leaving"}
  BY DEF ReserveStatement, ReserveRevision, ReserveBinding, ReserveInsert, ReserveCommit, At, InLock
<1>2. /\ call[d] \in ReserveCall /\ ReserveWritten(d) /\ SnapshotOf(d) = snapshot[d]
      /\ AtomicSnapshot[d] = snapshot[d] /\ snapshot[d] \in Snapshot /\ snapshot[d] # NoSnapshot
      /\ ~(Expiry(r, snapshot[d].captured) <= snapshot[d].captured)
  BY <1>1, ReserveStarted
<1>3. View(g) = view /\ view \in Database
  BY <1>0, <1>1, Seen
<1>4. ASSUME UNCHANGED <<disk, call, callerVars>> PROVE UNCHANGED Atomic!vars
  <2>1. SnapshotOf(d)' = SnapshotOf(d)
    BY <1>1, <1>2, <1>4, MadeNext DEF callerVars
  <2> QED BY <1>0, <1>4, <2>1, QuietDecider DEF callerVars
<1>5. ASSUME NEW reason, GiveUp(d, reason), reason # "ALLOW", reason = Atomic!ReserveReason(d, r, id)
      PROVE  Atomic!Next \/ UNCHANGED Atomic!vars
  BY <1>0, <1>1, <1>5, GiveUpStep
<1>6. r \in Requests /\ id \in PermitIds
  BY <1>2 DEF ReserveCall
<1>7. CASE ReserveRevision(d)
  <2>1. view = disk
    BY <1>2, <1>7 DEF ReserveWritten, ReserveRevision, At
  <2>2. CASE view.revision = snapshot[d].revision
    BY <1>3, <1>4, <1>7, <2>2 DEF ReserveRevision
  <2>3. CASE view.revision # snapshot[d].revision
    <3>1. GiveUp(d, "STATE_CHANGED")
      BY <1>3, <1>7, <2>3 DEF ReserveRevision
    <3>2. Atomic!ReserveReason(d, r, id) = "STATE_CHANGED"
      BY <1>2, <2>1, <2>3, SameWords DEF Atomic!ReserveReason
    <3> QED BY <1>5, <3>1, <3>2
  <2> QED BY <2>2, <2>3
<1>8. CASE ReserveBinding(d)
  <2>1. pc[d] = "bindings"
    BY <1>8 DEF ReserveBinding, At
  <2>2. /\ disk.revision = snapshot[d].revision
        /\ view.observations = disk.observations \cup Done(d)
        /\ read[d] \in [todo : SUBSET r.observations]
    BY <1>2, <2>1 DEF ReserveWritten
  <2>3. CASE ~GiveUp(d, "CONFLICTING_HANDOFF")
    BY <1>4, <1>8, <2>3 DEF ReserveBinding
  <2>4. CASE GiveUp(d, "CONFLICTING_HANDOFF")
    <3>1. \/ pc'[d] \in {"insert", "bindings"}
          \/ \E b \in read[d].todo, s \in view.observations : s.key = b.key /\ s.handoff # b.handoff
      BY <1>0, <1>3, <1>8, JumpLabel DEF ReserveBinding
    <3>2. pc'[d] = "leaving"
      BY <1>0, <2>4, GiveUpLabel
    <3>3. PICK b \in read[d].todo, s \in view.observations : s.key = b.key /\ s.handoff # b.handoff
      BY <3>1, <3>2
    <3>4. b \in r.observations /\ s \in disk.observations \cup r.observations
      BY <2>2, <3>3 DEF Done
    <3>5. Atomic!Conflicts(r)
      BY <3>3, <3>4 DEF Atomic!Conflicts
    <3>6. Atomic!ReserveReason(d, r, id) = "CONFLICTING_HANDOFF"
      BY <1>2, <2>2, <3>5, SameWords DEF Atomic!ReserveReason
    <3> QED BY <1>5, <2>4, <3>6
  <2> QED BY <2>3, <2>4
\* After the loop every binding has been compared.
<1>9. ASSUME pc[d] \in {"insert", "count", "commit"}
      PROVE  /\ disk.revision = snapshot[d].revision
             /\ view.observations = disk.observations \cup r.observations
             /\ \A o \in r.observations, s \in disk.observations \cup r.observations :
                  s.key = o.key => s.handoff = o.handoff
  <2>1. Done(d) = r.observations
    BY <1>2, <1>9 DEF Done, ReserveWritten, NothingRead
  <2> QED BY <1>2, <1>9, <2>1 DEF ReserveWritten
<1>10. pc[d] \in {"insert", "count", "commit"} => ~Atomic!Conflicts(r)
  BY <1>9 DEF Atomic!Conflicts
<1>11. CASE ReserveInsert(d)
  <2>1. pc[d] = "insert"
    BY <1>11 DEF ReserveInsert, At
  <2>2. view.permits = disk.permits
    BY <1>2, <2>1 DEF ReserveWritten
  <2>3. CASE ~Atomic!Duplicate(r, id)
    <3>1. ~ \E p \in PermitIds : /\ Present(view.permits, p)
                                 /\ p = id \/ ReplayKey(view.permits[p].request) = ReplayKey(r)
      BY <1>6, <2>2, <2>3, SameWords DEF Atomic!Duplicate
    <3> QED BY <1>3, <1>4, <1>11, <3>1 DEF ReserveInsert, callVars
  <2>4. CASE Atomic!Duplicate(r, id)
    <3>1. \E p \in PermitIds : /\ Present(view.permits, p)
                               /\ p = id \/ ReplayKey(view.permits[p].request) = ReplayKey(r)
      BY <1>6, <2>2, <2>4, SameWords DEF Atomic!Duplicate
    <3>2. GiveUp(d, "REPLAY_DETECTED")
      BY <1>3, <1>11, <3>1 DEF ReserveInsert
    <3>3. Atomic!ReserveReason(d, r, id) = "REPLAY_DETECTED"
      BY <1>2, <1>9, <1>10, <2>1, <2>4, SameWords DEF Atomic!ReserveReason
    <3> QED BY <1>5, <3>2, <3>3
  <2> QED BY <2>3, <2>4
<1>12. CASE ReserveCommit(d)
  <2>1. /\ pc[d] = "commit" /\ pc'[d] = "leaving" /\ disk' = view
        /\ answer' = [answer EXCEPT ![d] = [reason |-> "ALLOW", request |-> r]]
        /\ snapshot' = [snapshot EXCEPT ![d] = NoSnapshot] /\ UNCHANGED <<held, acts>>
    BY <1>0, <1>12, JumpLabel DEF ReserveCommit, Commit, At
  <2>2. /\ view.owner = disk.owner /\ view.revision = disk.revision + 1
        /\ view.permits = [disk.permits EXCEPT ![id] = Reserved(d)]
        /\ \A p \in PermitIds : Present(disk.permits, p) =>
             p # id /\ ReplayKey(disk.permits[p].request) # ReplayKey(r)
    BY <1>2, <2>1 DEF ReserveWritten
  <2>3. ~Atomic!Duplicate(r, id)
    BY <1>6, <2>2, SameWords DEF Atomic!Duplicate
  <2>4. Atomic!ReserveReason(d, r, id) = "ALLOW"
    BY <1>2, <1>9, <1>10, <2>1, <2>3, SameWords DEF Atomic!ReserveReason
  <2>5. disk.observations \cup r.observations = Atomic!InsertOrIgnore(disk.observations, r.observations)
    <3>1. disk.observations \subseteq Observation /\ r.observations \subseteq Observation
      BY <1>6, StatementAssumption DEF TypeOK, Database
    <3>2. ASSUME NEW o \in r.observations, NEW s \in disk.observations, s.key = o.key PROVE o = s
      <4>1. s.handoff = o.handoff
        BY <1>9, <2>1, <3>2
      <4>2. o \in Observation /\ s \in Observation
        BY <3>1
      <4> QED BY <3>2, <4>1, <4>2 DEF Observation
    <3> QED BY <3>2 DEF Atomic!InsertOrIgnore
  <2>6. SnapshotOf(d)' = NoSnapshot
    BY <2>1, MadeNext DEF TypeOK
  <2>7. PhaseOf(d) = "prepared" /\ PhaseOf(d)' = "idle"
    BY <1>0, <1>2, <2>6, Phases, PhasesNext
  <2>8. /\ AtomicPhase[d] = "prepared" /\ AtomicPhase' = [AtomicPhase EXCEPT ![d] = "idle"]
        /\ AtomicSnapshot' = [AtomicSnapshot EXCEPT ![d] = NoSnapshot]
    BY <1>0, <2>6, <2>7, AtomicAt, Moves
  <2>9. Atomic!Decide(d, "ALLOW", r)
    BY <2>1, <2>8, SameWords DEF Atomic!Decide
  <2>10. disk'.observations = Atomic!InsertOrIgnore(disk.observations, r.observations)
    BY <1>9, <2>1, <2>5
  <2>11. disk'.permits = [disk.permits EXCEPT ![id] =
                            [state |-> "RESERVED", request |-> r,
                             issued |-> AtomicSnapshot[d].captured,
                             expires |-> Atomic!Expiry(r, AtomicSnapshot[d].captured)]]
    BY <1>2, <2>1, <2>2, SameWords DEF Reserved
  <2>12. Atomic!Reserve(d, r, id)
    BY <2>1, <2>2, <2>4, <2>8, <2>9, <2>10, <2>11 DEF Atomic!Reserve
  <2> QED BY <1>6, <2>12 DEF Atomic!Next, Atomic!DeciderStep
<1> QED BY <1>7, <1>8, <1>11, <1>12 DEF ReserveStatement

LEMMA AdapterStep ==
  ASSUME TypeOK, LockInv, TypeOK', LockInv', NEW a \in Adapters, ThreadInv(a), AdapterStatement(a)
  PROVE  Atomic!Next \/ UNCHANGED Atomic!vars
<1> DEFINE g == Program[a]
           view == txn[g].view
<1>0. a \in Processes /\ g \in Programs /\ StepOf(a) /\ pc[a] \notin Down /\ pc'[a] \notin Down
  BY Roles, StepIsUp DEF StepOf, Proceed
<1>1. call[a].op \in {"consume", "finish"} /\ pc[a] \in InLock \ {"begin", "leaving"}
  BY DEF AdapterStatement, ConsumeSelect, ConsumeUpdate, ConsumeCommit, FinishUpdate, FinishCommit,
     At, InLock
<1>2. ASSUME UNCHANGED <<disk, call, callerVars>>, pc[a] # "acted", pc'[a] # "acted"
      PROVE  UNCHANGED Atomic!vars
  BY <1>0, <1>2, QuietAdapter DEF callerVars
<1>3. CASE ConsumeSelect(a)
  <2>1. CASE GiveUp(a, "PAUSE")
    BY <1>0, <1>1, <2>1, GiveUpStep
  <2>2. CASE ~GiveUp(a, "PAUSE")
    <3>1. pc[a] = "select" /\ pc'[a] = "update" /\ UNCHANGED <<disk, call, callerVars>>
      BY <1>0, <1>3, <2>2, JumpLabel DEF ConsumeSelect, At, callVars
    <3> QED BY <1>2, <3>1
  <2> QED BY <2>1, <2>2
<1>4. CASE ConsumeUpdate(a) \/ FinishUpdate(a)
  <2>1. pc[a] = "update" /\ pc'[a] = "count" /\ UNCHANGED <<disk, call, callerVars>>
    BY <1>0, <1>4, JumpLabel DEF ConsumeUpdate, FinishUpdate, At, callVars
  <2> QED BY <1>2, <2>1
<1>5. CASE ConsumeCommit(a)
  <2>1. /\ pc[a] = "commit" /\ pc'[a] = "leaving" /\ disk' = view /\ call[a].op = "consume"
        /\ call'[a] = NoCall
        /\ held' = [held EXCEPT ![a] = [permit |-> call[a].permit, request |-> call[a].request,
                                        at |-> call[a].at]]
        /\ UNCHANGED <<snapshot, answer, acts>>
    BY <1>0, <1>5, JumpLabel DEF ConsumeCommit, Commit, At, TypeOK
  <2>2. call[a] \in ConsumeCall /\ held[a] = NothingHeld /\ ConsumeWritten(a)
    BY <1>0, <2>1, Labels DEF ThreadInv, AdapterHand, InLock
  <2>3. /\ view.owner = disk.owner /\ view.observations = disk.observations
        /\ view.revision = disk.revision + 1
        /\ view.permits = [disk.permits EXCEPT ![call[a].permit].state = "ATTEMPTED"]
        /\ Consumable(disk.permits[call[a].permit], call[a])
    BY <2>1, <2>2 DEF ConsumeWritten, Moved
  <2>4. call[a].permit \in PermitIds /\ call[a].request \in Requests /\ call[a].at \in Times
    BY <2>2 DEF ConsumeCall
  <2>5. held'[a] # NothingHeld
    BY <2>1, <2>4 DEF TypeOK, NothingHeld
  <2>6. PhaseOf(a) = "idle" /\ PhaseOf(a)' = "consumed"
    BY <1>0, <2>1, <2>2, <2>5, Phases, PhasesNext DEF NoCall
  <2>7. /\ AtomicPhase[a] = "idle" /\ AtomicPhase' = [AtomicPhase EXCEPT ![a] = "consumed"]
        /\ AtomicSnapshot' = AtomicSnapshot
    BY <1>0, <2>6, AtomicAt, Moves
  <2>8. Atomic!Present(call[a].permit)
    BY <2>3, SameWords DEF Consumable, Present
  <2>9. Atomic!Consume(a, call[a].permit, call[a].request, call[a].at)
    BY <2>1, <2>3, <2>4, <2>7, <2>8, SameWords DEF Atomic!Consume, Consumable, Atomic!deciderVars
  <2> QED BY <2>4, <2>9, SameWords DEF Atomic!Next, Atomic!AdapterStep
<1>6. CASE FinishCommit(a)
  <2>1. /\ pc[a] = "commit" /\ pc'[a] = "leaving" /\ disk' = view /\ call[a].op = "finish"
        /\ held' = [held EXCEPT ![a] = NothingHeld] /\ UNCHANGED <<snapshot, answer, acts>>
    BY <1>0, <1>6, JumpLabel DEF FinishCommit, Commit, At
  <2>2. call[a] \in FinishCall /\ held[a] # NothingHeld /\ FinishWritten(a)
    BY <1>0, <2>1, Labels DEF ThreadInv, AdapterHand
  <2>3. /\ view.owner = disk.owner /\ view.observations = disk.observations
        /\ view.revision = disk.revision + 1
        /\ view.permits = [disk.permits EXCEPT ![held[a].permit].state = call[a].outcome]
        /\ disk.permits[held[a].permit].state = "ATTEMPTED"
    BY <2>1, <2>2 DEF FinishWritten, Moved
  <2>4. held'[a] = NothingHeld
    BY <2>1 DEF TypeOK
  <2>5. PhaseOf(a) = "acted" /\ PhaseOf(a)' = "idle"
    BY <1>0, <2>1, <2>2, <2>4, Phases, PhasesNext
  <2>6. /\ AtomicPhase[a] = "acted" /\ AtomicPhase' = [AtomicPhase EXCEPT ![a] = "idle"]
        /\ AtomicSnapshot' = AtomicSnapshot
    BY <1>0, <2>5, AtomicAt, Moves
  <2>7. Atomic!Finish(a, call[a].outcome)
    BY <2>1, <2>3, <2>6, SameWords DEF Atomic!Finish, Atomic!deciderVars
  <2> QED BY <2>2, <2>7 DEF Atomic!Next, Atomic!AdapterStep, FinishCall
<1> QED BY <1>3, <1>4, <1>5, <1>6 DEF AdapterStatement

\* The threads of a program that opens its database or goes away move
\* together.
LEMMA TogetherMoves ==
  ASSUME TypeOK, LockInv, NEW g \in Programs, Opening(g) \/ Kill(g)
  PROVE  /\ AtomicPhase' = [p \in Processes |-> IF p \in g THEN PhaseOf(p)' ELSE AtomicPhase[p]]
         /\ AtomicSnapshot' =
              [d \in Deciders |-> IF d \in g THEN SnapshotOf(d)' ELSE AtomicSnapshot[d]]
<1>1. \A q \in Processes \ g : Undisturbed(q)
  BY OthersOfProgram
<1>2. \A q \in Processes \ g : PhaseOf(q)' = PhaseOf(q)
  BY <1>1, UndisturbedPhase
<1>3. \A d \in Deciders \ g : SnapshotOf(d)' = SnapshotOf(d)
  BY <1>1, UndisturbedSnapshot, Roles
<1> QED BY <1>2, <1>3, AtomicAt, AtomicAtNext

LEMMA TogetherStutter ==
  ASSUME TypeOK, LockInv, NEW g \in Programs, Opening(g) \/ Kill(g),
         UNCHANGED <<disk, answer, held, acts>>,
         \A p \in g : PhaseOf(p)' = PhaseOf(p),
         \A d \in Deciders : d \in g => SnapshotOf(d)' = SnapshotOf(d)
  PROVE  UNCHANGED Atomic!vars
<1>1. AtomicPhase' = AtomicPhase
  BY TogetherMoves, AtomicAt
<1>2. AtomicSnapshot' = AtomicSnapshot
  BY TogetherMoves, AtomicAt
<1> QED BY <1>1, <1>2 DEF Atomic!vars

\* What the abstract store sees of a program that is down.
LEMMA DownAtomic ==
  ASSUME TypeOK, LockInv, \A p \in Processes : ThreadInv(p), NEW g \in Programs,
         \A p \in g : pc[p] \in Down, NEW p \in g
  PROVE  /\ p \in Processes /\ PhaseOf(p) = "closed"
         /\ p \in Deciders => SnapshotOf(p) = NoSnapshot /\ answer[p] = NoAnswer
         /\ p \in Adapters => held[p] = NothingHeld
<1>1. p \in Processes /\ call[p] = NoCall
  BY DownHand
<1>2. PhaseOf(p) = "closed"
  BY <1>1, Phases DEF Processes
<1>3. p \in Deciders => SnapshotOf(p) = snapshot[p]
  BY <1>1, Made DEF NoCall
<1> QED BY <1>1, <1>2, <1>3, DownHand

LEMMA OpeningStep ==
  ASSUME StatementInv, TypeOK', LockInv', NEW g \in Programs, Opening(g)
  PROVE  Atomic!Next \/ UNCHANGED Atomic!vars
<1>0. TypeOK /\ LockInv /\ (\A p \in Processes : ThreadInv(p)) /\ Opened(g) /\ OwnerInv
  BY DEF StatementInv
<1>1. (\A p \in g : pc[p] \in Down) /\ UNCHANGED <<call, snapshot, answer, held, acts>>
  BY DEF Opening, OpenBegin, OpenInsert, OpenCheck, All, Down, callVars, callerVars
<1>2. ASSUME NEW p \in g
      PROVE  /\ p \in Processes /\ PhaseOf(p) = "closed"
             /\ p \in Deciders => SnapshotOf(p) = NoSnapshot /\ SnapshotOf(p)' = NoSnapshot
             /\ p \in Adapters => held'[p] = NothingHeld
             /\ PhaseOf(p)' = IF pc'[p] \in Down THEN "closed" ELSE "idle"
  <2>1. /\ p \in Processes /\ PhaseOf(p) = "closed" /\ call[p] = NoCall
        /\ p \in Deciders => SnapshotOf(p) = NoSnapshot /\ snapshot[p] = NoSnapshot
        /\ p \in Adapters => held[p] = NothingHeld
    BY <1>0, <1>1, DownAtomic, DownHand
  <2>2. p \in Deciders => SnapshotOf(p)' = NoSnapshot
    BY <1>1, <2>1, MadeNext DEF NoCall
  <2>3. p \in Adapters => held'[p] = NothingHeld /\ call'[p].op # "finish"
    BY <1>1, <2>1 DEF NoCall
  <2>4. pc'[p] \in Down \cup {"idle"}
    BY <2>1 DEF Opening, OpenBegin, OpenInsert, OpenCheck, Go, Down
  <2>5. PhaseOf(p)' = IF pc'[p] \in Down THEN "closed" ELSE "idle"
    BY <2>1, <2>2, <2>3, <2>4, PhasesNext DEF Processes
  <2> QED BY <2>1, <2>2, <2>3, <2>5
<1>3. ASSUME disk' = disk, \A p \in g : pc'[p] \in Down PROVE UNCHANGED Atomic!vars
  BY <1>0, <1>1, <1>2, <1>3, TogetherStutter
<1>4. CASE OpenBegin(g) \/ OpenInsert(g)
  BY <1>2, <1>3, <1>4 DEF OpenBegin, OpenInsert, Go, Down
<1>5. CASE OpenCheck(g)
  <2>1. txn[g].view = [disk EXCEPT !.owner = IF @ = NoStore THEN StoreIdOf[g] ELSE @]
    BY <1>0, <1>5 DEF Opened, OpenCheck
  <2>2. CASE txn[g].view.owner # StoreIdOf[g]
    BY <1>2, <1>3, <1>5, <2>2 DEF OpenCheck, Go, Down
  <2>3. CASE txn[g].view.owner = StoreIdOf[g]
    <3>1. disk' = txn[g].view /\ \A p \in g : pc'[p] = "idle"
      BY <1>2, <1>5, <2>3 DEF OpenCheck, Go
    <3>2. /\ disk'.owner = StoreIdOf[g] /\ disk'.revision = disk.revision
          /\ disk'.observations = disk.observations /\ disk'.permits = disk.permits
          /\ disk.owner \in {NoStore, StoreIdOf[g]}
      BY <1>0, <2>1, <2>3, <3>1 DEF TypeOK, Database
    <3>3. disk'.revision = IF disk.owner = NoStore THEN 0 ELSE disk.revision
      BY <1>0, <3>2 DEF OwnerInv
    <3>4. AtomicPhase' = [p \in Processes |-> IF p \in g THEN "idle" ELSE AtomicPhase[p]]
      <4>1. \A p \in g : PhaseOf(p)' = "idle"
        BY <1>2, <3>1 DEF Down
      <4> QED BY <1>0, <4>1, TogetherMoves
    <3>5. AtomicSnapshot' = AtomicSnapshot
      BY <1>0, <1>2, TogetherMoves, AtomicAt
    <3>6. \A p \in g : AtomicPhase[p] = "closed"
      BY <1>2, AtomicAt
    <3>7. Atomic!Open(g)
      BY <1>1, <3>2, <3>3, <3>4, <3>5, <3>6, SameWords DEF Atomic!Open, Atomic!deciderVars
    <3> QED BY <3>7 DEF Atomic!Next
  <2> QED BY <2>2, <2>3
<1> QED BY <1>4, <1>5 DEF Opening

LEMMA KillStep ==
  ASSUME StatementInv, TypeOK', LockInv', NEW g \in Programs, Kill(g)
  PROVE  Atomic!Next \/ UNCHANGED Atomic!vars
<1>0. TypeOK /\ LockInv /\ \A p \in Processes : ThreadInv(p)
  BY DEF StatementInv
<1>1. \A p \in g : p \in Processes /\ pc'[p] = "closed" /\ call'[p] = NoCall
  BY ThreadAssumption DEF Kill, Go
<1>2. /\ snapshot' = [d \in Deciders |-> IF d \in g THEN NoSnapshot ELSE snapshot[d]]
      /\ answer' = [d \in Deciders |-> IF d \in g THEN NoAnswer ELSE answer[d]]
      /\ held' = [a \in Adapters |-> IF a \in g THEN NothingHeld ELSE held[a]]
      /\ UNCHANGED <<disk, acts>>
  BY DEF Kill
<1>3. \A p \in g : PhaseOf(p)' = "closed"
  BY <1>1, PhasesNext DEF Processes, Down
<1>4. \A d \in Deciders : d \in g => SnapshotOf(d)' = NoSnapshot
  BY <1>1, <1>2, MadeNext DEF NoCall
<1>5. CASE \A p \in g : pc[p] \in Down
  <2>1. \A p \in g : PhaseOf(p) = "closed"
    BY <1>0, <1>5, DownAtomic
  <2>2. \A d \in Deciders : d \in g =>
          SnapshotOf(d) = NoSnapshot /\ answer[d] = NoAnswer
    BY <1>0, <1>5, DownAtomic
  <2>3. answer' = answer
    BY <1>0, <1>2, <2>2 DEF TypeOK
  <2>4. held' = held
    <3>1. \A a \in Adapters : a \in g => held[a] = NothingHeld
      BY <1>0, <1>5, DownAtomic
    <3> QED BY <1>0, <1>2, <3>1 DEF TypeOK
  <2> QED BY <1>0, <1>2, <1>3, <1>4, <2>1, <2>2, <2>3, <2>4, TogetherStutter
<1>6. CASE ~ \A p \in g : pc[p] \in Down
  <2>1. \A p \in g : pc[p] \notin Down
    BY <1>0, <1>6 DEF LockInv, ProgramLock, All, Down
  <2>2. \A p \in g : AtomicPhase[p] # "closed"
    BY <1>1, <2>1, Phases, AtomicAt DEF Processes
  <2>3. AtomicPhase' = [p \in Processes |-> IF p \in g THEN "closed" ELSE AtomicPhase[p]]
    BY <1>0, <1>3, TogetherMoves
  <2>4. AtomicSnapshot' = [d \in Deciders |-> IF d \in g THEN NoSnapshot ELSE AtomicSnapshot[d]]
    BY <1>0, <1>4, TogetherMoves
  <2>5. Atomic!Stop(g)
    BY <1>2, <2>2, <2>3, <2>4, SameWords DEF Atomic!Stop, Atomic!tableVars
  <2> QED BY <2>5 DEF Atomic!Next
<1> QED BY <1>5, <1>6

LEMMA AtomicNext ==
  StatementInv /\ StatementInv' /\ [Next]_vars => [Atomic!Next]_Atomic!vars
<1> SUFFICES ASSUME StatementInv, StatementInv', [Next]_vars
             PROVE  Atomic!Next \/ UNCHANGED Atomic!vars
  OBVIOUS
<1>0. TypeOK /\ LockInv /\ TypeOK' /\ LockInv'
  BY DEF StatementInv
<1>00. \A p \in Processes : ThreadInv(p) /\ ThreadInv(p)'
  BY DEF StatementInv
<1>1. ASSUME NEW g \in Programs, Opening(g) \/ Kill(g) PROVE Atomic!Next \/ UNCHANGED Atomic!vars
  BY <1>0, <1>1, OpeningStep, KillStep
<1>2. ASSUME NEW p \in Processes, CallOf(p) \/ Acquire(p)
      PROVE  Atomic!Next \/ UNCHANGED Atomic!vars
  BY <1>0, <1>00, <1>2, CallStep, QuietStep
<1>3. ASSUME NEW p \in Processes, Busy(p) \/ DatabaseError(p)
      PROVE  Atomic!Next \/ UNCHANGED Atomic!vars
  <2>1. pc[p] \in InLock \ {"leaving"} /\ StepOf(p)
    BY <1>0, <1>3 DEF Busy, DatabaseError, InBody, InLock, LockInv, ThreadLock, StepOf, Proceed
  <2>2. GiveUp(p, "STATE_UNAVAILABLE")
    BY <1>3 DEF Busy, DatabaseError
  <2> QED BY <1>0, <1>00, <2>1, <2>2, GiveUpStep
<1>4. ASSUME NEW p \in Processes, BeginImmediate(p) \/ CountRevision(p) \/ Leave(p)
      PROVE  UNCHANGED Atomic!vars
  BY <1>0, <1>4, QuietStep
<1>5. ASSUME NEW d \in Deciders, SnapshotStatement(d) \/ ReserveStatement(d)
      PROVE  Atomic!Next \/ UNCHANGED Atomic!vars
  BY <1>0, <1>00, <1>5, SnapshotStep, ReserveStep, Roles
<1>6. ASSUME NEW a \in Adapters, AdapterStatement(a) PROVE Atomic!Next \/ UNCHANGED Atomic!vars
  BY <1>0, <1>00, <1>6, AdapterStep, Roles
<1>7. ASSUME NEW a \in Adapters, Act(a) PROVE Atomic!Next
  <2>1. Atomic!Act(a)
    BY <1>0, <1>00, <1>7, ActStep, Roles
  <2> QED BY <2>1 DEF Atomic!Next, Atomic!AdapterStep
<1>8. CASE UNCHANGED vars
  <2>1. AtomicSnapshot' = AtomicSnapshot /\ AtomicPhase' = AtomicPhase
    <3>1. AtomicSnapshot' = AtomicSnapshot
      BY <1>8 DEF vars, callVars, callerVars, AtomicSnapshot, Reading, View, NoneFromTheFuture
    <3> QED BY <1>8, <3>1 DEF vars, callVars, callerVars, AtomicPhase
  <2> QED BY <1>8, <2>1 DEF vars, Atomic!vars
<1>9. CASE Next
  <2>1. ASSUME NEW p \in Processes, Proceed(p) PROVE Atomic!Next \/ UNCHANGED Atomic!vars
    BY <1>3, <1>4, <1>5, <1>6, <2>1 DEF Proceed
  <2> QED BY <1>1, <1>2, <1>3, <1>7, <1>9, <2>1 DEF Next
<1> QED BY <1>8, <1>9

\* However the statements of concurrent calls interleave, and wherever they
\* fail or are cut off, the store does what NeutralPermitStore does.
THEOREM StatementsImplementMethods == Spec => ImplementsAtomicStore
BY AtomicInit, AtomicNext, StatementsInvariant, PTL DEF Spec, ImplementsAtomicStore, Atomic!Spec

-----------------------------------------------------------------------------
(***************************************************************************)
(* What is proved of the methods holds of their statements.  Method is     *)
(* Atomic together with the theorems of NeutralPermitStoreProofs; their    *)
(* hypotheses, the assumptions of NeutralPermitStore, follow from those of *)
(* SqliteTransactions.                                                     *)
(***************************************************************************)
Method == INSTANCE NeutralPermitStoreProofs WITH
  MaxSkew <- MaxTime, clock <- 0,
  owner <- disk.owner, revision <- disk.revision,
  observations <- disk.observations, permits <- disk.permits,
  phase <- AtomicPhase, snapshot <- AtomicSnapshot

LEMMA MethodAssumptions == Method!RequestAssumption /\ Method!ParameterAssumption
<1>1. Method!RequestAssumption
  BY StatementAssumption
  DEF Method!RequestAssumption, Method!RequestFields, RequestFields, Method!Observation, Observation
<1>2. Method!ParameterAssumption
  BY StatementAssumption, ThreadAssumption
  DEF Method!ParameterAssumption, Method!Processes, Processes
<1> QED BY <1>1, <1>2

\* The two instances are the same specification.
LEMMA SameSpec == ImplementsAtomicStore => Method!Spec
<1>1. Atomic!Init => Method!Init
  BY DEF
    Atomic!Init, Method!Init, Atomic!NoPermit, Method!NoPermit, Atomic!Processes,
    Method!Processes, Atomic!NoSnapshot, Method!NoSnapshot, Atomic!NoAnswer,
    Method!NoAnswer, Atomic!NothingHeld, Method!NothingHeld
<1>2. Atomic!Next => Method!Next
  BY DEF
    Atomic!Next, Method!Next, Atomic!Tick, Method!Tick, Atomic!Open, Method!Open,
    Atomic!Stop, Method!Stop, Atomic!DeciderStep, Method!DeciderStep,
    Atomic!AdapterStep, Method!AdapterStep, Atomic!tableVars, Method!tableVars,
    Atomic!deciderVars, Method!deciderVars, Atomic!Processes, Method!Processes,
    Atomic!NoSnapshot, Method!NoSnapshot, Atomic!NoAnswer, Method!NoAnswer,
    Atomic!NothingHeld, Method!NothingHeld, Atomic!Times, Method!Times,
    Atomic!TakeSnapshot, Method!TakeSnapshot, Atomic!Reserve, Method!Reserve,
    Atomic!Pause, Method!Pause, Atomic!Abandon, Method!Abandon, Atomic!Consume,
    Method!Consume, Atomic!Act, Method!Act, Atomic!Finish, Method!Finish,
    Atomic!Readings, Method!Readings, Atomic!Present, Method!Present,
    Atomic!ReserveReason, Method!ReserveReason, Atomic!InsertOrIgnore,
    Method!InsertOrIgnore, Atomic!Expiry, Method!Expiry, Atomic!Decide, Method!Decide,
    Atomic!SameAction, Method!SameAction, Atomic!Conflicts, Method!Conflicts,
    Atomic!Duplicate, Method!Duplicate, Atomic!ReplayKey, Method!ReplayKey
<1>3. [Atomic!Next]_Atomic!vars => [Method!Next]_Method!vars
  BY <1>2 DEF Atomic!vars, Method!vars
<1> QED BY <1>1, <1>3, PTL DEF ImplementsAtomicStore, Atomic!Spec, Method!Spec

LEMMA MethodsHold == Spec => Method!Spec
BY StatementsImplementMethods, SameSpec, PTL

\* However the statements of threads and programs interleave, whichever of
\* them raises and wherever a program is killed, a replay key has at most one
\* side effect.
THEOREM OneEffectByStatements == Spec => []Atomic!AtMostOneEffect
<1>1. Method!AtMostOneEffect <=> Atomic!AtMostOneEffect
  BY DEF Method!AtMostOneEffect, Atomic!AtMostOneEffect, Method!ReplayKey, Atomic!ReplayKey
<1>2. Method!Spec => []Method!AtMostOneEffect
  BY Method!OneEffect, MethodAssumptions
<1> QED BY <1>1, <1>2, MethodsHold, PTL

\* An adapter that may act holds a permit whose attempt is committed, for the
\* action it presents, and unexpired when it was consumed: a COMMIT that fails
\* hands out nothing to act on.
THEOREM CoveredByStatements == Spec => []Atomic!ActingIsCovered
<1>1. Method!ActingIsCovered <=> Atomic!ActingIsCovered
  BY DEF Method!ActingIsCovered, Atomic!ActingIsCovered, Method!Attempting,
         Atomic!Attempting, Method!SameAction, Atomic!SameAction
<1>2. Method!Spec => []Method!ActingIsCovered
  BY Method!ActingCovered, MethodAssumptions
<1> QED BY <1>1, <1>2, MethodsHold, PTL

\* The committed bindings are at every moment those of the committed permits:
\* a reservation that fails or is killed after some of its INSERTs leaves
\* none behind, and no two permits rest on conflicting chains.
THEOREM BindingsByStatements == Spec => []Atomic!BindingsAreThoseOfPermits
<1>1. Method!BindingsAreThoseOfPermits <=> Atomic!BindingsAreThoseOfPermits
  BY DEF Method!BindingsAreThoseOfPermits, Atomic!BindingsAreThoseOfPermits,
         Method!Present, Atomic!Present
<1>2. Method!Spec => []Method!BindingsAreThoseOfPermits
  BY Method!BindingsAgree, MethodAssumptions
<1> QED BY <1>1, <1>2, MethodsHold, PTL

\* At most one of the deciders that compete for a replay key is allowed, and
\* a refusal for a replay or a conflict names something that is committed.
THEOREM AnswersByStatements == Spec => []Atomic!AnswersAreTrue
<1>1. Method!AnswersAreTrue <=> Atomic!AnswersAreTrue
  BY DEF Method!AnswersAreTrue, Atomic!AnswersAreTrue, Method!ReplayKey, Atomic!ReplayKey,
         Method!Conflicts, Atomic!Conflicts, Method!Duplicate, Atomic!Duplicate,
         Method!Present, Atomic!Present
<1>2. Method!Spec => []Method!AnswersAreTrue
  BY Method!AnswersTrue, MethodAssumptions
<1> QED BY <1>1, <1>2, MethodsHold, PTL

\* Statement by statement, the store is still the one-attempt ledger.
THEOREM StatementsImplementLedger == Spec => Atomic!ImplementsLedger
<1>1. Method!Ledger!Init => Atomic!Ledger!Init
  BY DEF Method!Ledger!Init, Atomic!Ledger!Init, Method!LedgerEntry, Atomic!LedgerEntry,
         Method!LedgerPerformed, Atomic!LedgerPerformed, Method!PermitsFor,
         Atomic!PermitsFor, Method!Keys, Atomic!Keys, Method!ReplayKey, Atomic!ReplayKey,
         Method!Present, Atomic!Present
<1>2. [Method!Ledger!Next]_Method!Ledger!ledgerVars
        => [Atomic!Ledger!Next]_Atomic!Ledger!ledgerVars
  BY DEF Method!Ledger!Next, Atomic!Ledger!Next, Method!Ledger!ledgerVars,
         Atomic!Ledger!ledgerVars, Method!Ledger!Reserve, Atomic!Ledger!Reserve,
         Method!Ledger!Attempt, Atomic!Ledger!Attempt, Method!Ledger!Perform,
         Atomic!Ledger!Perform, Method!Ledger!Close, Atomic!Ledger!Close,
         Method!LedgerEntry, Atomic!LedgerEntry, Method!LedgerPerformed,
         Atomic!LedgerPerformed, Method!PermitsFor, Atomic!PermitsFor, Method!Keys,
         Atomic!Keys, Method!ReplayKey, Atomic!ReplayKey, Method!Present, Atomic!Present
<1>3. Method!Spec => Method!ImplementsLedger
  BY Method!StoreImplementsLedger, MethodAssumptions
<1> QED BY <1>1, <1>2, <1>3, MethodsHold, PTL
           DEF Method!ImplementsLedger, Atomic!ImplementsLedger, Method!Ledger!Spec,
               Atomic!Ledger!Spec
=============================================================================
