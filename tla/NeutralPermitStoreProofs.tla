---------------------- MODULE NeutralPermitStoreProofs ----------------------
(***************************************************************************)
(* Theorems about NeutralPermitStore, for any number of processes, permit  *)
(* ids and requests and any bounds.                                        *)
(***************************************************************************)
EXTENDS NeutralPermitStore, FiniteSetTheorems, TLAPS

LEMMA ExpiryType ==
  ASSUME NEW r \in Requests, NEW t \in Times
  PROVE  Expiry(r, t) \in Nat
BY RequestAssumption, ParameterAssumption DEF Expiry, Times

\* A row is present exactly when it is a permit.
LEMMA PresentIsPermit ==
  ASSUME TypeOK, NEW p \in PermitIds
  PROVE  /\ Present(p) <=> permits[p] \in Permit
         /\ ~Present(p) => permits[p] = NoPermit
BY DEF TypeOK, Tables, Permit, NoPermit, Present, Lifecycle

-----------------------------------------------------------------------------
(***************************************************************************)
(* Type correctness.                                                       *)
(***************************************************************************)
LEMMA TypeInit == Init => TypeOK
BY ParameterAssumption
   DEF Init, TypeOK, Times, Tables, Processes, Phases

LEMMA TypeNext == TypeOK /\ [Next]_vars => TypeOK'
<1> SUFFICES ASSUME TypeOK, [Next]_vars PROVE TypeOK'
  OBVIOUS
<1>1. CASE Tick
  BY <1>1, ParameterAssumption DEF Tick, TypeOK, Times, tableVars, deciderVars
<1>2. ASSUME NEW g \in Programs, Open(g) PROVE TypeOK'
  BY <1>2, ParameterAssumption DEF Open, TypeOK, Phases, Processes, deciderVars
<1>3. ASSUME NEW g \in Programs, Stop(g) PROVE TypeOK'
  BY <1>3, ParameterAssumption DEF Stop, TypeOK, Phases, tableVars, Processes
<1>4. ASSUME NEW d \in Deciders, NEW t \in Times, TakeSnapshot(d, t) PROVE TypeOK'
  <2>1. snapshot' \in [Deciders -> Snapshot \cup {NoSnapshot}]
    BY <1>4 DEF TakeSnapshot, TypeOK, Snapshot
  <2>2. phase' \in [Processes -> Phases] /\ answer' \in [Deciders -> Answers \cup {NoAnswer}]
    BY <1>4 DEF TakeSnapshot, TypeOK, Phases
  <2>3. \A e \in Deciders : phase'[e] = "prepared" => snapshot'[e] \in Snapshot
    BY <1>4 DEF TakeSnapshot, TypeOK, Snapshot, Processes
  <2>4. \A a \in Adapters : phase'[a] \in {"consumed", "acted"} => held'[a] \in Holding
    BY <1>4 DEF TakeSnapshot, TypeOK, Processes
  <2> QED BY <1>4, <2>1, <2>2, <2>3, <2>4 DEF TakeSnapshot, TypeOK, tableVars
<1>5. ASSUME NEW d \in Deciders, NEW r \in Requests, NEW id \in PermitIds,
             Reserve(d, r, id)
      PROVE  TypeOK'
  <2>1. snapshot[d] \in Snapshot /\ snapshot[d].captured \in Times
    BY <1>5 DEF Reserve, TypeOK, Snapshot
  <2>2. Expiry(r, snapshot[d].captured) \in Nat
    BY <2>1, ExpiryType
  <2>3. permits' \in Tables
    BY <1>5, <2>1, <2>2 DEF Reserve, TypeOK, Tables, Permit, Lifecycle
  <2>4. observations' \subseteq Observation
    BY <1>5, RequestAssumption DEF Reserve, TypeOK, InsertOrIgnore
  <2>5. answer' \in [Deciders -> Answers \cup {NoAnswer}]
    BY <1>5 DEF Reserve, Decide, TypeOK, Answers
  <2>6. /\ snapshot' \in [Deciders -> Snapshot \cup {NoSnapshot}]
        /\ phase' \in [Processes -> Phases]
        /\ \A e \in Deciders : phase'[e] = "prepared" => snapshot'[e] \in Snapshot
        /\ \A a \in Adapters : phase'[a] \in {"consumed", "acted"} => held'[a] \in Holding
    BY <1>5 DEF Reserve, Decide, TypeOK, Processes, Phases
  <2> QED BY <1>5, <2>3, <2>4, <2>5, <2>6 DEF Reserve, TypeOK
<1>6. ASSUME NEW d \in Deciders, NEW r \in Requests, NEW id \in PermitIds,
             Pause(d, r, id)
      PROVE  TypeOK'
  <2>1. PICK reason \in {"EXPIRED", "STATE_CHANGED", "CONFLICTING_HANDOFF",
                         "REPLAY_DETECTED", "STATE_UNAVAILABLE"} : Decide(d, reason, r)
    BY <1>6 DEF Pause, ReserveReason
  <2>2. answer' \in [Deciders -> Answers \cup {NoAnswer}]
    BY <2>1 DEF Decide, TypeOK, Answers
  <2>3. /\ snapshot' \in [Deciders -> Snapshot \cup {NoSnapshot}]
        /\ phase' \in [Processes -> Phases]
        /\ \A e \in Deciders : phase'[e] = "prepared" => snapshot'[e] \in Snapshot
        /\ \A a \in Adapters : phase'[a] \in {"consumed", "acted"} => held'[a] \in Holding
    BY <1>6, <2>1 DEF Pause, Decide, TypeOK, Processes, Phases
  <2> QED BY <1>6, <2>2, <2>3 DEF Pause, TypeOK, tableVars
<1>7. ASSUME NEW a \in Adapters, NEW id \in PermitIds, NEW r \in Requests,
             NEW now \in Times, Consume(a, id, r, now)
      PROVE  TypeOK'
  <2>1. permits' \in Tables
    BY <1>7, PresentIsPermit DEF Consume, TypeOK, Tables, Permit, Lifecycle
  <2>2. held' \in [Adapters -> Holding \cup {NothingHeld}]
    BY <1>7 DEF Consume, TypeOK, Holding
  <2>3. /\ phase' \in [Processes -> Phases]
        /\ \A d \in Deciders : phase'[d] = "prepared" => snapshot'[d] \in Snapshot
        /\ \A b \in Adapters : phase'[b] \in {"consumed", "acted"} => held'[b] \in Holding
    BY <1>7 DEF Consume, TypeOK, Holding, Processes, Phases, deciderVars
  <2> QED BY <1>7, <2>1, <2>2, <2>3 DEF Consume, TypeOK, deciderVars
<1>8. ASSUME NEW a \in Adapters, Act(a) PROVE TypeOK'
  <2>1. held[a] \in Holding /\ held[a].permit \in PermitIds
    BY <1>8 DEF Act, TypeOK, Holding
  <2>2. acts' \in [PermitIds -> Nat]
    BY <1>8, <2>1 DEF Act, TypeOK
  <2>3. /\ phase' \in [Processes -> Phases]
        /\ \A d \in Deciders : phase'[d] = "prepared" => snapshot'[d] \in Snapshot
        /\ \A b \in Adapters : phase'[b] \in {"consumed", "acted"} => held'[b] \in Holding
    BY <1>8 DEF Act, TypeOK, Processes, Phases, deciderVars
  <2> QED BY <1>8, <2>2, <2>3 DEF Act, TypeOK, tableVars, deciderVars
<1>9. ASSUME NEW a \in Adapters, NEW outcome \in {"SUCCEEDED", "FAILED"},
             Finish(a, outcome)
      PROVE  TypeOK'
  <2>1. held[a] \in Holding /\ held[a].permit \in PermitIds
    BY <1>9 DEF Finish, TypeOK, Holding
  <2>2. permits' \in Tables
    <3>1. CASE UNCHANGED permits
      BY <3>1 DEF TypeOK
    <3>2. CASE /\ permits[held[a].permit].state = "ATTEMPTED"
               /\ permits' = [permits EXCEPT ![held[a].permit].state = outcome]
      BY <2>1, <3>2, PresentIsPermit DEF Present, TypeOK, Tables, Permit, Lifecycle
    <3> QED BY <1>9, <3>1, <3>2 DEF Finish
  <2>3. revision' \in Nat
    BY <1>9 DEF Finish, TypeOK
  <2>4. /\ phase' \in [Processes -> Phases]
        /\ held' \in [Adapters -> Holding \cup {NothingHeld}]
        /\ \A d \in Deciders : phase'[d] = "prepared" => snapshot'[d] \in Snapshot
        /\ \A b \in Adapters : phase'[b] \in {"consumed", "acted"} => held'[b] \in Holding
    BY <1>9 DEF Finish, TypeOK, Processes, Phases, deciderVars
  <2> QED BY <1>9, <2>2, <2>3, <2>4 DEF Finish, TypeOK, deciderVars
<1>10. ASSUME NEW d \in Deciders, Abandon(d) PROVE TypeOK'
  BY <1>10 DEF Abandon, TypeOK, Processes, Phases, tableVars
<1>11. CASE UNCHANGED vars
  BY <1>11 DEF vars, TypeOK
<1> QED
  BY <1>1, <1>2, <1>3, <1>4, <1>5, <1>6, <1>7, <1>8, <1>9, <1>10, <1>11
     DEF Next, DeciderStep, AdapterStep

\* The tables, the snapshots, decisions and permits in the hands of the
\* processes keep their shape: permits carry one of the four lifecycle
\* states, and a prepared decider or an acting adapter has what it works on.
THEOREM TypeCorrect == Spec => []TypeOK
BY TypeInit, TypeNext, PTL DEF Spec

-----------------------------------------------------------------------------
(***************************************************************************)
(* One side effect per replay key.  The invariant AtMostOneEffect is not   *)
(* inductive by itself: it says nothing of an adapter that is about to     *)
(* act.  OneAttemptPerPermit is, given the type invariant.                 *)
(***************************************************************************)
LEMMA AttemptInit == Init => OneAttemptPerPermit
BY DEF Init, OneAttemptPerPermit, Present, NoPermit, Attempting, Processes

\* Steps that touch neither the tables nor what the adapters hold.
LEMMA AttemptUnchanged ==
  ASSUME OneAttemptPerPermit, UNCHANGED <<permits, acts>>,
         \A a \in Adapters : Attempting(a)' =>
            Attempting(a) /\ phase'[a] = phase[a] /\ held'[a] = held[a]
  PROVE  OneAttemptPerPermit'
BY DEF OneAttemptPerPermit, Present

LEMMA AttemptReserve ==
  ASSUME TypeOK, OneAttemptPerPermit,
         NEW d \in Deciders, NEW r \in Requests, NEW id \in PermitIds,
         Reserve(d, r, id)
  PROVE  OneAttemptPerPermit'
<1>1. /\ ~Present(id)
      /\ \A p \in PermitIds : Present(p) => ReplayKey(permits[p].request) # ReplayKey(r)
  BY DEF Reserve, ReserveReason, Duplicate
<1>2. /\ permits'[id].state = "RESERVED" /\ permits'[id].request = r
      /\ \A p \in PermitIds : p # id => permits'[p] = permits[p]
  BY DEF Reserve, TypeOK, Tables
<1>3. \A a \in Adapters : /\ Attempting(a)' <=> Attempting(a)
                          /\ phase'[a] = phase[a] /\ held'[a] = held[a]
  BY ParameterAssumption DEF Reserve, Decide, Attempting, TypeOK, Processes
<1>4. \A p, q \in PermitIds : p # q /\ Present(p)' /\ Present(q)'
        => ReplayKey(permits'[p].request) # ReplayKey(permits'[q].request)
  BY <1>1, <1>2 DEF Present, OneAttemptPerPermit
<1>5. \A a \in Adapters : Attempting(a) => held[a].permit \in PermitIds /\ held[a].permit # id
  BY <1>1 DEF OneAttemptPerPermit, Attempting, Present, TypeOK, Holding
<1>6. acts' = acts
  BY DEF Reserve
<1>7. \A a \in Adapters : Attempting(a)' =>
        /\ permits'[held'[a].permit].state = "ATTEMPTED"
        /\ acts'[held'[a].permit] = IF phase'[a] = "acted" THEN 1 ELSE 0
        /\ \A b \in Adapters : Attempting(b)' /\ b # a
             => held'[b].permit # held'[a].permit
  BY <1>2, <1>3, <1>5, <1>6 DEF OneAttemptPerPermit
<1>8. \A p \in PermitIds :
        /\ permits'[p].state \in {"ABSENT", "RESERVED"} => acts'[p] = 0
        /\ permits'[p].state = "ATTEMPTED" => acts'[p] \in {0, 1}
        /\ permits'[p].state \in {"SUCCEEDED", "FAILED"} => acts'[p] = 1
  BY <1>1, <1>2, <1>6 DEF OneAttemptPerPermit, Present
<1> QED BY <1>4, <1>7, <1>8 DEF OneAttemptPerPermit

LEMMA AttemptConsume ==
  ASSUME TypeOK, OneAttemptPerPermit,
         NEW a \in Adapters, NEW id \in PermitIds, NEW r \in Requests,
         NEW now \in Times, Consume(a, id, r, now)
  PROVE  OneAttemptPerPermit'
<1>1. permits[id].state = "RESERVED" /\ acts[id] = 0 /\ acts' = acts
  BY DEF Consume, OneAttemptPerPermit
<1>2. /\ permits'[id].state = "ATTEMPTED"
      /\ permits'[id].request = permits[id].request
      /\ \A p \in PermitIds : p # id => permits'[p] = permits[p]
  BY PresentIsPermit DEF Consume, TypeOK, Tables, Permit
<1>3. /\ phase'[a] = "consumed" /\ held'[a].permit = id
      /\ \A b \in Adapters : b # a => phase'[b] = phase[b] /\ held'[b] = held[b]
  BY DEF Consume, TypeOK, Processes
<1>4. \A b \in Adapters : Attempting(b) =>
        held[b].permit \in PermitIds /\ held[b].permit # id
  BY <1>1 DEF OneAttemptPerPermit, Attempting, TypeOK, Holding
<1>5. \A p \in PermitIds : /\ Present(p)' <=> Present(p)
                           /\ Present(p) => permits'[p].request = permits[p].request
  BY <1>1, <1>2 DEF Present
<1>6. \A b \in Adapters : b # a => (Attempting(b)' <=> Attempting(b))
  BY <1>3 DEF Attempting
<1>7. \A b \in Adapters : Attempting(b)' =>
        /\ permits'[held'[b].permit].state = "ATTEMPTED"
        /\ acts'[held'[b].permit] = IF phase'[b] = "acted" THEN 1 ELSE 0
        /\ \A c \in Adapters : Attempting(c)' /\ c # b
             => held'[c].permit # held'[b].permit
  BY <1>1, <1>2, <1>3, <1>4, <1>6 DEF OneAttemptPerPermit
<1>8. \A p \in PermitIds :
        /\ permits'[p].state \in {"ABSENT", "RESERVED"} => acts'[p] = 0
        /\ permits'[p].state = "ATTEMPTED" => acts'[p] \in {0, 1}
        /\ permits'[p].state \in {"SUCCEEDED", "FAILED"} => acts'[p] = 1
  BY <1>1, <1>2 DEF OneAttemptPerPermit
<1>9. \A p, q \in PermitIds : p # q /\ Present(p)' /\ Present(q)'
        => ReplayKey(permits'[p].request) # ReplayKey(permits'[q].request)
  BY <1>5 DEF OneAttemptPerPermit, Present
<1> QED BY <1>7, <1>8, <1>9 DEF OneAttemptPerPermit

LEMMA AttemptAct ==
  ASSUME TypeOK, OneAttemptPerPermit, NEW a \in Adapters, Act(a)
  PROVE  OneAttemptPerPermit'
<1> DEFINE id == held[a].permit
<1>1. /\ Attempting(a) /\ id \in PermitIds
      /\ permits[id].state = "ATTEMPTED" /\ acts[id] = 0
  BY DEF Act, Attempting, OneAttemptPerPermit, TypeOK, Holding
<1>2. /\ permits' = permits /\ held' = held
      /\ acts'[id] = 1 /\ \A p \in PermitIds : p # id => acts'[p] = acts[p]
  BY <1>1 DEF Act, TypeOK, tableVars
<1>3. /\ phase'[a] = "acted"
      /\ \A b \in Adapters : b # a => phase'[b] = phase[b]
  BY DEF Act, TypeOK, Processes
<1>4. \A b \in Adapters : Attempting(b) => held[b].permit \in PermitIds
  BY DEF Attempting, TypeOK, Holding
<1>5. \A b \in Adapters : Attempting(b)' <=> Attempting(b)
  BY <1>1, <1>3 DEF Attempting
<1>6. \A b \in Adapters : Attempting(b)' =>
        /\ permits'[held'[b].permit].state = "ATTEMPTED"
        /\ acts'[held'[b].permit] = IF phase'[b] = "acted" THEN 1 ELSE 0
        /\ \A c \in Adapters : Attempting(c)' /\ c # b
             => held'[c].permit # held'[b].permit
  BY <1>1, <1>2, <1>3, <1>4, <1>5 DEF OneAttemptPerPermit
<1>7. \A p \in PermitIds :
        /\ permits'[p].state \in {"ABSENT", "RESERVED"} => acts'[p] = 0
        /\ permits'[p].state = "ATTEMPTED" => acts'[p] \in {0, 1}
        /\ permits'[p].state \in {"SUCCEEDED", "FAILED"} => acts'[p] = 1
  BY <1>1, <1>2 DEF OneAttemptPerPermit
<1> QED BY <1>2, <1>6, <1>7 DEF OneAttemptPerPermit, Present

LEMMA AttemptFinish ==
  ASSUME TypeOK, OneAttemptPerPermit, NEW a \in Adapters,
         NEW outcome \in {"SUCCEEDED", "FAILED"}, Finish(a, outcome)
  PROVE  OneAttemptPerPermit'
<1> DEFINE id == held[a].permit
<1>1. /\ Attempting(a) /\ id \in PermitIds
      /\ permits[id].state = "ATTEMPTED" /\ acts[id] = 1 /\ acts' = acts
  BY DEF Finish, Attempting, OneAttemptPerPermit, TypeOK, Holding
<1>2. /\ ~Attempting(a)'
      /\ \A b \in Adapters : b # a =>
            /\ phase'[b] = phase[b] /\ held'[b] = held[b]
            /\ Attempting(b)' <=> Attempting(b)
  BY DEF Finish, Attempting, TypeOK, Processes
<1>3. CASE UNCHANGED permits
  BY <1>1, <1>2, <1>3, AttemptUnchanged
<1>4. CASE permits' = [permits EXCEPT ![id].state = outcome]
  <2>1. /\ permits'[id].state = outcome
        /\ permits'[id].request = permits[id].request
        /\ \A p \in PermitIds : p # id => permits'[p] = permits[p]
    BY <1>1, <1>4, PresentIsPermit DEF Present, TypeOK, Tables, Permit
  <2>2. \A b \in Adapters : Attempting(b) /\ b # a =>
          held[b].permit \in PermitIds /\ held[b].permit # id
    BY <1>1 DEF OneAttemptPerPermit, Attempting, TypeOK, Holding
  <2>3. \A p \in PermitIds : /\ Present(p)' <=> Present(p)
                             /\ permits'[p].request = permits[p].request
    BY <1>1, <2>1 DEF Present
  <2>4. \A b \in Adapters : Attempting(b)' =>
          /\ permits'[held'[b].permit].state = "ATTEMPTED"
          /\ acts'[held'[b].permit] = IF phase'[b] = "acted" THEN 1 ELSE 0
          /\ \A c \in Adapters : Attempting(c)' /\ c # b
               => held'[c].permit # held'[b].permit
    BY <1>1, <1>2, <2>1, <2>2 DEF OneAttemptPerPermit
  <2>5. \A p \in PermitIds :
          /\ permits'[p].state \in {"ABSENT", "RESERVED"} => acts'[p] = 0
          /\ permits'[p].state = "ATTEMPTED" => acts'[p] \in {0, 1}
          /\ permits'[p].state \in {"SUCCEEDED", "FAILED"} => acts'[p] = 1
    BY <1>1, <2>1 DEF OneAttemptPerPermit
  <2> QED BY <2>3, <2>4, <2>5 DEF OneAttemptPerPermit
<1> QED BY <1>3, <1>4 DEF Finish

LEMMA AttemptNext ==
  TypeOK /\ OneAttemptPerPermit /\ [Next]_vars => OneAttemptPerPermit'
<1> SUFFICES ASSUME TypeOK, OneAttemptPerPermit, [Next]_vars
             PROVE  OneAttemptPerPermit'
  OBVIOUS
<1>1. CASE Tick
  BY <1>1, AttemptUnchanged DEF Tick, tableVars, Attempting
<1>2. ASSUME NEW g \in Programs, Open(g) PROVE OneAttemptPerPermit'
  BY <1>2, AttemptUnchanged DEF Open, Attempting, TypeOK, Processes
<1>3. ASSUME NEW g \in Programs, Stop(g) PROVE OneAttemptPerPermit'
  BY <1>3, AttemptUnchanged DEF Stop, Attempting, TypeOK, Processes, tableVars
<1>4. ASSUME NEW d \in Deciders, NEW t \in Times, TakeSnapshot(d, t)
      PROVE  OneAttemptPerPermit'
  BY <1>4, ParameterAssumption, AttemptUnchanged
     DEF TakeSnapshot, Attempting, TypeOK, Processes, tableVars
<1>5. ASSUME NEW d \in Deciders, NEW r \in Requests, NEW id \in PermitIds,
             Pause(d, r, id)
      PROVE  OneAttemptPerPermit'
  BY <1>5, ParameterAssumption, AttemptUnchanged
     DEF Pause, Decide, Attempting, TypeOK, Processes, tableVars
<1>6. ASSUME NEW d \in Deciders, Abandon(d) PROVE OneAttemptPerPermit'
  BY <1>6, ParameterAssumption, AttemptUnchanged
     DEF Abandon, Attempting, TypeOK, Processes, tableVars
<1>7. CASE UNCHANGED vars
  BY <1>7, AttemptUnchanged DEF vars, Attempting
<1> QED
  BY <1>1, <1>2, <1>3, <1>4, <1>5, <1>6, <1>7,
     AttemptReserve, AttemptConsume, AttemptAct, AttemptFinish
     DEF Next, DeciderStep, AdapterStep

\* Whatever the number of adapters and duplicates, a permit has one holder
\* and at most one act, and no permit shares its replay key.
THEOREM OneAttempt == Spec => []OneAttemptPerPermit
<1>1. Spec => []TypeOK
  BY TypeCorrect
<1> QED BY <1>1, AttemptInit, AttemptNext, PTL DEF Spec

\* The side effect of a replay key happens at most once.
THEOREM OneEffect == Spec => []AtMostOneEffect
<1>1. TypeOK /\ OneAttemptPerPermit => AtMostOneEffect
  <2> SUFFICES ASSUME TypeOK, OneAttemptPerPermit,
                      NEW p \in PermitIds, NEW q \in PermitIds
               PROVE  /\ acts[p] <= 1
                      /\ p # q /\ acts[p] > 0 /\ acts[q] > 0
                           => ReplayKey(permits[p].request) # ReplayKey(permits[q].request)
    BY DEF AtMostOneEffect
  <2>1. \A i \in PermitIds : permits[i].state \in {"ABSENT"} \cup Lifecycle
    BY DEF TypeOK, Tables, Permit, NoPermit
  <2>2. acts[p] \in {0, 1} /\ (acts[p] > 0 => Present(p)) /\ (acts[q] > 0 => Present(q))
    BY <2>1 DEF OneAttemptPerPermit, Present, Lifecycle
  <2> QED BY <2>2 DEF OneAttemptPerPermit
<1> QED BY <1>1, TypeCorrect, OneAttempt, PTL

-----------------------------------------------------------------------------
(***************************************************************************)
(* The revision names the content.  A store nobody has opened yet is at    *)
(* revision 0 with nobody at work on it, which is what makes the first     *)
(* Open harmless; every other change of the tables advances the revision   *)
(* past every snapshot taken before it.                                    *)
(***************************************************************************)
FreshStore == owner = NoStore => revision = 0

OwnerInv == OneOwner /\ FreshStore

LEMMA ProgramsCover ==
  /\ \A p \in Processes : \E g \in Programs : p \in g
  /\ \A g \in Programs : \A p \in g : p \in Processes
  /\ \A g, h \in Programs : g # h => \A p \in g : p \notin h
BY ParameterAssumption

LEMMA NobodyBeforeOpen ==
  ASSUME TypeOK, OneOwner, owner = NoStore, NEW p \in Processes
  PROVE  phase[p] = "closed"
BY ParameterAssumption, ProgramsCover DEF OneOwner

LEMMA OwnerInit == Init => OwnerInv
BY ProgramsCover DEF Init, OwnerInv, OneOwner, FreshStore

LEMMA OwnerNext == TypeOK /\ OwnerInv /\ [Next]_vars => OwnerInv'
<1> SUFFICES ASSUME TypeOK, OwnerInv, [Next]_vars PROVE OwnerInv'
  OBVIOUS
<1> USE DEF OwnerInv
<1>1. CASE Tick
  BY <1>1 DEF Tick, tableVars, OneOwner, FreshStore
<1>2. ASSUME NEW g \in Programs, Open(g) PROVE OwnerInv'
  <2>1. owner' \in StoreIds /\ owner' # NoStore
    BY <1>2, ParameterAssumption DEF Open
  <2>2. OneOwner'
    <3> SUFFICES ASSUME NEW h \in Programs, NEW p \in h, phase'[p] # "closed"
                 PROVE  StoreIdOf[h] = owner'
      BY DEF OneOwner
    <3>1. CASE h = g
      BY <1>2, <3>1 DEF Open
    <3>2. CASE h # g
      <4>1. phase[p] # "closed"
        BY <1>2, <3>2, ProgramsCover DEF Open
      <4>2. owner # NoStore /\ StoreIdOf[h] = owner
        BY <4>1, NobodyBeforeOpen, ProgramsCover DEF OneOwner
      <4> QED BY <1>2, <4>2 DEF Open
    <3> QED BY <3>1, <3>2
  <2> QED BY <2>1, <2>2 DEF FreshStore
<1>3. ASSUME NEW g \in Programs, Stop(g) PROVE OwnerInv'
  BY <1>3, ProgramsCover DEF Stop, tableVars, OneOwner, FreshStore, TypeOK
<1>4. ASSUME NEW p \in Processes, phase[p] # "closed", UNCHANGED owner,
             \A q \in Processes : q # p => phase'[q] = phase[q]
      PROVE  OwnerInv'
  <2>1. \A q \in Processes : phase'[q] # "closed" => phase[q] # "closed"
    BY <1>4
  <2>2. owner # NoStore
    BY <1>4, NobodyBeforeOpen
  <2> QED BY <1>4, <2>1, <2>2, ProgramsCover DEF OneOwner, FreshStore
<1>5. ASSUME NEW d \in Deciders, DeciderStep(d) PROVE OwnerInv'
  <2>1. /\ phase[d] # "closed" /\ UNCHANGED owner
        /\ \A q \in Processes : q # d => phase'[q] = phase[q]
    BY <1>5 DEF DeciderStep, TakeSnapshot, Reserve, Pause, Decide, Abandon, tableVars, TypeOK
  <2> QED BY <2>1, <1>4 DEF Processes
<1>6. ASSUME NEW a \in Adapters, AdapterStep(a) PROVE OwnerInv'
  <2>1. /\ phase[a] # "closed" /\ UNCHANGED owner
        /\ \A q \in Processes : q # a => phase'[q] = phase[q]
    BY <1>6 DEF AdapterStep, Consume, Act, Finish, tableVars, TypeOK
  <2> QED BY <2>1, <1>4 DEF Processes
<1>7. CASE UNCHANGED vars
  BY <1>7 DEF vars, OneOwner, FreshStore
<1> QED BY <1>1, <1>2, <1>3, <1>5, <1>6, <1>7 DEF Next

\* Everybody at work on the database was set up for the store it belongs to.
THEOREM OwnerAgrees == Spec => []OneOwner
<1>1. Init => OwnerInv
  BY OwnerInit
<1>2. OwnerInv => OneOwner
  BY DEF OwnerInv
<1> QED BY <1>1, <1>2, OwnerNext, TypeCorrect, PTL DEF Spec

LEMMA OwnerAlways == Spec => []OwnerInv
<1>1. Init => OwnerInv
  BY OwnerInit
<1> QED BY <1>1, OwnerNext, TypeCorrect, PTL DEF Spec

\* A change of the tables that advances the revision leaves every snapshot
\* of the processes that are still prepared behind.
LEMMA RevisionAdvances ==
  ASSUME TypeOK, RevisionNamesContent, revision' = revision + 1,
         \A d \in Deciders : phase'[d] = "prepared" =>
            phase[d] = "prepared" /\ snapshot'[d] = snapshot[d]
  PROVE  RevisionNamesContent'
<1>1. \A d \in Deciders : phase[d] = "prepared" => snapshot[d].revision \in Nat
  BY DEF TypeOK, Snapshot
<1> QED BY <1>1 DEF RevisionNamesContent, TypeOK

LEMMA RevisionStays ==
  ASSUME RevisionNamesContent, UNCHANGED <<revision, permits, observations>>,
         \A d \in Deciders : phase'[d] = "prepared" =>
            phase[d] = "prepared" /\ snapshot'[d] = snapshot[d]
  PROVE  RevisionNamesContent'
BY DEF RevisionNamesContent

LEMMA RevisionNext ==
  TypeOK /\ OwnerInv /\ RevisionNamesContent /\ [Next]_vars => RevisionNamesContent'
<1> SUFFICES ASSUME TypeOK, OwnerInv, RevisionNamesContent, [Next]_vars
             PROVE  RevisionNamesContent'
  OBVIOUS
<1>1. CASE Tick
  BY <1>1, RevisionStays DEF Tick, tableVars, deciderVars
<1>2. ASSUME NEW g \in Programs, Open(g) PROVE RevisionNamesContent'
  <2>1. revision' = revision
    BY <1>2 DEF Open, OwnerInv, FreshStore
  <2> QED BY <1>2, <2>1, RevisionStays DEF Open, TypeOK, deciderVars, Processes
<1>3. ASSUME NEW g \in Programs, Stop(g) PROVE RevisionNamesContent'
  BY <1>3, RevisionStays DEF Stop, TypeOK, tableVars, Processes
<1>4. ASSUME NEW d \in Deciders, NEW t \in Times, TakeSnapshot(d, t)
      PROVE  RevisionNamesContent'
  BY <1>4 DEF TakeSnapshot, RevisionNamesContent, TypeOK, tableVars, Processes
<1>5. ASSUME NEW d \in Deciders, NEW r \in Requests, NEW id \in PermitIds,
             Reserve(d, r, id)
      PROVE  RevisionNamesContent'
  BY <1>5, RevisionAdvances DEF Reserve, Decide, TypeOK, Processes
<1>6. ASSUME NEW d \in Deciders, NEW r \in Requests, NEW id \in PermitIds,
             Pause(d, r, id)
      PROVE  RevisionNamesContent'
  BY <1>6, RevisionStays DEF Pause, Decide, TypeOK, tableVars, Processes
<1>7. ASSUME NEW a \in Adapters, NEW id \in PermitIds, NEW r \in Requests,
             NEW now \in Times, Consume(a, id, r, now)
      PROVE  RevisionNamesContent'
  BY <1>7, ParameterAssumption, RevisionAdvances
     DEF Consume, TypeOK, deciderVars, Processes
<1>8. ASSUME NEW a \in Adapters, Act(a) PROVE RevisionNamesContent'
  BY <1>8, ParameterAssumption, RevisionStays
     DEF Act, TypeOK, tableVars, deciderVars, Processes
<1>9. ASSUME NEW a \in Adapters, NEW outcome \in {"SUCCEEDED", "FAILED"},
             Finish(a, outcome)
      PROVE  RevisionNamesContent'
  <2>1. \A d \in Deciders : phase'[d] = "prepared" =>
          phase[d] = "prepared" /\ snapshot'[d] = snapshot[d]
    BY <1>9, ParameterAssumption DEF Finish, TypeOK, deciderVars, Processes
  <2>2. observations' = observations
    BY <1>9 DEF Finish
  <2> QED BY <1>9, <2>1, <2>2, RevisionAdvances, RevisionStays DEF Finish
<1>10. ASSUME NEW d \in Deciders, Abandon(d) PROVE RevisionNamesContent'
  BY <1>10, RevisionStays DEF Abandon, TypeOK, tableVars, Processes
<1>11. CASE UNCHANGED vars
  BY <1>11, RevisionStays DEF vars
<1> QED
  BY <1>1, <1>2, <1>3, <1>4, <1>5, <1>6, <1>7, <1>8, <1>9, <1>10, <1>11
     DEF Next, DeciderStep, AdapterStep

\* A decider whose snapshot has the store's revision has the store's tables,
\* across any number of other processes, stops and restarts.
THEOREM RevisionIsContent == Spec => []RevisionNamesContent
<1>1. Init => RevisionNamesContent
  BY DEF Init, RevisionNamesContent, Processes
<1> QED BY <1>1, RevisionNext, TypeCorrect, OwnerAlways, PTL DEF Spec

-----------------------------------------------------------------------------
(***************************************************************************)
(* Reservations are in time order: a snapshot holds no permit issued after *)
(* its declared time, and a reservation is made against the tables of its  *)
(* snapshot.                                                               *)
(***************************************************************************)
SnapshotsLookBack ==
  \A d \in Deciders : phase[d] = "prepared" =>
    \A p \in PermitIds : snapshot[d].records[p].state # "ABSENT"
      => snapshot[d].records[p].issued <= snapshot[d].captured

LEMMA LookBackNext == TypeOK /\ SnapshotsLookBack /\ [Next]_vars => SnapshotsLookBack'
<1> SUFFICES ASSUME TypeOK, SnapshotsLookBack, [Next]_vars
             PROVE  SnapshotsLookBack'
  OBVIOUS
<1>1. ASSUME NEW d \in Deciders, NEW t \in Times, TakeSnapshot(d, t)
      PROVE  SnapshotsLookBack'
  BY <1>1 DEF TakeSnapshot, SnapshotsLookBack, TypeOK, Processes, Present
<1>2. ASSUME \A d \in Deciders : phase'[d] = "prepared" =>
               phase[d] = "prepared" /\ snapshot'[d] = snapshot[d]
      PROVE  SnapshotsLookBack'
  BY <1>2 DEF SnapshotsLookBack
<1>3. CASE Tick \/ UNCHANGED vars
  BY <1>2, <1>3 DEF Tick, vars, deciderVars
<1>4. ASSUME NEW g \in Programs, Open(g) \/ Stop(g) PROVE SnapshotsLookBack'
  BY <1>2, <1>4 DEF Open, Stop, TypeOK, deciderVars, Processes
<1>5. ASSUME NEW d \in Deciders, NEW r \in Requests, NEW id \in PermitIds,
             Reserve(d, r, id) \/ Pause(d, r, id)
      PROVE  SnapshotsLookBack'
  BY <1>2, <1>5 DEF Reserve, Pause, Decide, TypeOK, Processes
<1>6. ASSUME NEW a \in Adapters, AdapterStep(a) PROVE SnapshotsLookBack'
  BY <1>2, <1>6, ParameterAssumption
     DEF AdapterStep, Consume, Act, Finish, TypeOK, deciderVars, Processes
<1>7. ASSUME NEW d \in Deciders, Abandon(d) PROVE SnapshotsLookBack'
  BY <1>2, <1>7 DEF Abandon, TypeOK, Processes
<1> QED BY <1>1, <1>3, <1>4, <1>5, <1>6, <1>7 DEF Next, DeciderStep

\* Permits enter the store in the order of their decision times, whatever the
\* skew between the clocks of the processes.
THEOREM TimeOrder == Spec => ReservedInTimeOrder
<1>1. Init => SnapshotsLookBack
  BY DEF Init, SnapshotsLookBack, Processes
<1>2. ASSUME TypeOK, RevisionNamesContent, SnapshotsLookBack, [Next]_vars
      PROVE  [\A p, q \in PermitIds : ~Present(p) /\ Present(p)' /\ Present(q)
                => permits[q].issued <= permits'[p].issued]_permits
  <2> SUFFICES ASSUME NEW p \in PermitIds, NEW q \in PermitIds,
                      ~Present(p), Present(p)', Present(q)
               PROVE  permits[q].issued <= permits'[p].issued
    OBVIOUS
  <2>1. CASE Tick \/ UNCHANGED vars \/ \E g \in Programs : Open(g) \/ Stop(g)
    BY <2>1 DEF Tick, vars, Open, Stop, tableVars, Present
  <2>2. ASSUME NEW d \in Deciders, NEW t \in Times, TakeSnapshot(d, t) PROVE FALSE
    BY <2>2 DEF TakeSnapshot, tableVars, Present
  <2>3. /\ \A d \in Deciders, r \in Requests, id \in PermitIds : ~Pause(d, r, id)
        /\ \A d \in Deciders : ~Abandon(d)
    BY DEF Pause, Abandon, tableVars, Present
  <2>4. ASSUME NEW d \in Deciders, NEW r \in Requests, NEW id \in PermitIds,
               Reserve(d, r, id)
        PROVE  permits[q].issued <= permits'[p].issued
    <3>1. phase[d] = "prepared" /\ revision = snapshot[d].revision
      BY <2>4 DEF Reserve, ReserveReason
    <3>2. permits[q].issued <= snapshot[d].captured
      <4>1. snapshot[d].records = permits
        BY <1>2, <3>1 DEF RevisionNamesContent
      <4> QED BY <1>2, <3>1, <4>1 DEF SnapshotsLookBack, Present
    <3>3. p = id /\ permits'[p].issued = snapshot[d].captured
      BY <1>2, <2>4 DEF Reserve, TypeOK, Tables, Present
    <3> QED BY <3>2, <3>3
  <2>5. ASSUME NEW a \in Adapters, AdapterStep(a) PROVE FALSE
    <3>1. ASSUME NEW id \in PermitIds, NEW r \in Requests, NEW now \in Times,
                 Consume(a, id, r, now)
          PROVE  FALSE
      BY <1>2, <3>1 DEF Consume, TypeOK, Tables, Present
    <3>2. CASE Act(a)
      BY <3>2 DEF Act, tableVars, Present
    <3>3. ASSUME NEW outcome \in {"SUCCEEDED", "FAILED"}, Finish(a, outcome)
          PROVE  FALSE
      <4>1. CASE UNCHANGED permits
        BY <4>1 DEF Present
      <4>2. CASE /\ permits[held[a].permit].state = "ATTEMPTED"
                 /\ permits' = [permits EXCEPT ![held[a].permit].state = outcome]
        BY <1>2, <4>2 DEF TypeOK, Tables, Present
      <4> QED BY <3>3, <4>1, <4>2 DEF Finish
    <3> QED BY <2>5, <3>1, <3>2, <3>3 DEF AdapterStep
  <2> QED BY <1>2, <2>1, <2>2, <2>3, <2>4, <2>5 DEF Next, DeciderStep
<1> QED
  BY <1>1, <1>2, LookBackNext, TypeCorrect, RevisionIsContent, PTL
     DEF Spec, ReservedInTimeOrder

-----------------------------------------------------------------------------
(***************************************************************************)
(* The stored bindings are those of the permits.                           *)
(***************************************************************************)
Bound(o) == \E p \in PermitIds : Present(p) /\ o \in permits[p].request.observations

LEMMA BindingsByElement ==
  BindingsAreThoseOfPermits <=>
    /\ \A o : o \in observations <=> Bound(o)
    /\ \A o, s \in observations : o.key = s.key => o.handoff = s.handoff
BY DEF BindingsAreThoseOfPermits, Bound

\* A transition of one row keeps its presence and its request.
LEMMA BindingsKept ==
  ASSUME BindingsAreThoseOfPermits, observations' = observations,
         \A p \in PermitIds :
           /\ (permits'[p].state # "ABSENT") <=> Present(p)
           /\ Present(p) => permits'[p].request = permits[p].request
  PROVE  BindingsAreThoseOfPermits'
<1>1. {q \in PermitIds : permits'[q].state # "ABSENT"} = {q \in PermitIds : Present(q)}
  OBVIOUS
<1>2. {permits'[p].request.observations : p \in {q \in PermitIds : Present(q)}}
        = {permits[p].request.observations : p \in {q \in PermitIds : Present(q)}}
  OBVIOUS
<1> QED BY <1>1, <1>2 DEF BindingsAreThoseOfPermits, Present

LEMMA BindingsReserve ==
  ASSUME TypeOK, BindingsAreThoseOfPermits,
         NEW d \in Deciders, NEW r \in Requests, NEW id \in PermitIds,
         Reserve(d, r, id)
  PROVE  BindingsAreThoseOfPermits'
<1>1. ~Conflicts(r) /\ ~Present(id)
  BY DEF Reserve, ReserveReason, Duplicate
<1>2. r.observations \subseteq Observation /\ observations \subseteq Observation
  BY RequestAssumption DEF TypeOK
<1>3. ASSUME NEW o \in r.observations, NEW s \in observations \cup r.observations,
             s.key = o.key
      PROVE  s = o
  <2>1. s.handoff = o.handoff
    BY <1>1, <1>3 DEF Conflicts
  <2> QED BY <1>2, <1>3, <2>1 DEF Observation
<1>4. observations' = observations \cup r.observations
  <2>1. observations' = InsertOrIgnore(observations, r.observations)
    BY DEF Reserve
  <2>2. ASSUME NEW o \in r.observations, NEW s \in observations, s.key = o.key
        PROVE  o \in observations
    BY <1>3, <2>2
  <2> QED BY <2>1, <2>2 DEF InsertOrIgnore
<1>5. /\ permits'[id].state = "RESERVED" /\ permits'[id].request = r
      /\ \A p \in PermitIds : p # id => permits'[p] = permits[p]
  BY DEF Reserve, TypeOK, Tables
<1>6. \A o : o \in observations <=> Bound(o)
  BY BindingsByElement
<1>7. \A o : o \in observations' <=>
        \E p \in PermitIds : /\ permits'[p].state # "ABSENT"
                             /\ o \in permits'[p].request.observations
  BY <1>1, <1>4, <1>5, <1>6 DEF Bound, Present
<1>8. \A o, s \in observations' : o.key = s.key => o.handoff = s.handoff
  <2> TAKE o, s \in observations'
  <2> HAVE o.key = s.key
  <2>1. CASE o \in observations /\ s \in observations
    BY <2>1 DEF BindingsAreThoseOfPermits
  <2>2. CASE o \in r.observations \/ s \in r.observations
    BY <1>3, <1>4, <2>2
  <2> QED BY <1>4, <2>1, <2>2
<1>9. observations' = UNION {permits'[p].request.observations :
                              p \in {q \in PermitIds : permits'[q].state # "ABSENT"}}
  BY <1>7
<1> QED BY <1>8, <1>9 DEF BindingsAreThoseOfPermits, Present

LEMMA BindingsNext ==
  TypeOK /\ BindingsAreThoseOfPermits /\ [Next]_vars => BindingsAreThoseOfPermits'
<1> SUFFICES ASSUME TypeOK, BindingsAreThoseOfPermits, [Next]_vars
             PROVE  BindingsAreThoseOfPermits'
  OBVIOUS
<1>1. ASSUME UNCHANGED <<permits, observations>> PROVE BindingsAreThoseOfPermits'
  BY <1>1, BindingsKept DEF Present
<1>2. CASE Tick \/ UNCHANGED vars \/ \E g \in Programs : Open(g) \/ Stop(g)
  BY <1>1, <1>2 DEF Tick, vars, Open, Stop, tableVars
<1>3. ASSUME NEW d \in Deciders, NEW t \in Times, TakeSnapshot(d, t)
      PROVE  BindingsAreThoseOfPermits'
  BY <1>1, <1>3 DEF TakeSnapshot, tableVars
<1>4. ASSUME NEW d \in Deciders, NEW r \in Requests, NEW id \in PermitIds,
             Pause(d, r, id)
      PROVE  BindingsAreThoseOfPermits'
  BY <1>1, <1>4 DEF Pause, tableVars
<1>8. ASSUME NEW d \in Deciders, Abandon(d) PROVE BindingsAreThoseOfPermits'
  BY <1>1, <1>8 DEF Abandon, tableVars
<1>5. ASSUME NEW a \in Adapters, NEW id \in PermitIds, NEW r \in Requests,
             NEW now \in Times, Consume(a, id, r, now)
      PROVE  BindingsAreThoseOfPermits'
  BY <1>5, PresentIsPermit, BindingsKept DEF Consume, TypeOK, Tables, Present, Permit
<1>6. ASSUME NEW a \in Adapters, Act(a) PROVE BindingsAreThoseOfPermits'
  BY <1>1, <1>6 DEF Act, tableVars
<1>7. ASSUME NEW a \in Adapters, NEW outcome \in {"SUCCEEDED", "FAILED"},
             Finish(a, outcome)
      PROVE  BindingsAreThoseOfPermits'
  <2>1. CASE UNCHANGED permits
    BY <1>1, <1>7, <2>1 DEF Finish
  <2>2. CASE /\ permits[held[a].permit].state = "ATTEMPTED"
             /\ permits' = [permits EXCEPT ![held[a].permit].state = outcome]
    <3>1. held[a].permit \in PermitIds
      BY <1>7 DEF Finish, TypeOK, Holding
    <3> QED BY <1>7, <2>2, <3>1, PresentIsPermit, BindingsKept
            DEF Finish, TypeOK, Tables, Present, Permit
  <2> QED BY <1>7, <2>1, <2>2 DEF Finish
<1> QED
  BY <1>2, <1>3, <1>4, <1>5, <1>6, <1>7, <1>8, BindingsReserve
     DEF Next, DeciderStep, AdapterStep

\* A refused reservation leaves no binding behind, a binding is never
\* rewritten, and no two permits rest on conflicting chains.
THEOREM BindingsAgree == Spec => []BindingsAreThoseOfPermits
<1>1. Init => BindingsAreThoseOfPermits
  BY DEF Init, BindingsAreThoseOfPermits, Present, NoPermit
<1> QED BY <1>1, BindingsNext, TypeCorrect, PTL DEF Spec

-----------------------------------------------------------------------------
(***************************************************************************)
(* What an acting adapter holds is covered by the decision.                *)
(***************************************************************************)
ExpiriesAreBounded ==
  \A p \in PermitIds : Present(p) =>
    /\ permits[p].expires <= permits[p].issued + PermitTTL
    /\ permits[p].expires <= permits[p].request.horizon

HoldingsAreValid ==
  \A a \in Adapters : Attempting(a) =>
    LET row == permits[held[a].permit]
    IN  /\ SameAction(row.request, held[a].request)
        /\ row.issued <= held[a].at
        /\ held[a].at < row.expires

CoverInv == ExpiriesAreBounded /\ HoldingsAreValid

\* Rows keep everything but their state, holders keep what they hold.
LEMMA CoverKept ==
  ASSUME TypeOK, CoverInv,
         \A p \in PermitIds :
           /\ (permits'[p].state # "ABSENT") => Present(p)
           /\ Present(p) => /\ permits'[p].request = permits[p].request
                            /\ permits'[p].issued = permits[p].issued
                            /\ permits'[p].expires = permits[p].expires,
         \A a \in Adapters : phase'[a] \in {"consumed", "acted"} =>
            /\ Attempting(a) /\ held'[a] = held[a]
            /\ Present(held[a].permit)
  PROVE  CoverInv'
<1>1. ExpiriesAreBounded'
  BY DEF CoverInv, ExpiriesAreBounded, Present
<1>2. \A a \in Adapters : Attempting(a) => held[a].permit \in PermitIds
  BY DEF Attempting, TypeOK, Holding
<1>3. HoldingsAreValid'
  BY <1>2 DEF CoverInv, HoldingsAreValid, Attempting, SameAction
<1> QED BY <1>1, <1>3 DEF CoverInv

LEMMA CoverNext ==
  TypeOK /\ OneAttemptPerPermit /\ CoverInv /\ [Next]_vars => CoverInv'
<1> SUFFICES ASSUME TypeOK, OneAttemptPerPermit, CoverInv, [Next]_vars
             PROVE  CoverInv'
  OBVIOUS
<1>0. \A a \in Adapters : Attempting(a) =>
        held[a].permit \in PermitIds /\ Present(held[a].permit)
  BY DEF Attempting, TypeOK, Holding, OneAttemptPerPermit, Present
<1>1. ASSUME permits' = permits,
             \A a \in Adapters : phase'[a] \in {"consumed", "acted"} =>
               Attempting(a) /\ held'[a] = held[a]
      PROVE  CoverInv'
  BY <1>0, <1>1, CoverKept DEF Present
<1>2. CASE Tick \/ UNCHANGED vars
  BY <1>1, <1>2 DEF Tick, vars, tableVars, Attempting
<1>3. ASSUME NEW g \in Programs, Open(g) \/ Stop(g) PROVE CoverInv'
  BY <1>1, <1>3 DEF Open, Stop, tableVars, TypeOK, Processes, Attempting
<1>4. ASSUME NEW d \in Deciders, NEW t \in Times, TakeSnapshot(d, t) PROVE CoverInv'
  BY <1>1, <1>4, ParameterAssumption
     DEF TakeSnapshot, tableVars, TypeOK, Processes, Attempting
<1>5. ASSUME NEW d \in Deciders, NEW r \in Requests, NEW id \in PermitIds,
             Pause(d, r, id)
      PROVE  CoverInv'
  BY <1>1, <1>5, ParameterAssumption
     DEF Pause, Decide, tableVars, TypeOK, Processes, Attempting
<1>10. ASSUME NEW d \in Deciders, Abandon(d) PROVE CoverInv'
  BY <1>1, <1>10, ParameterAssumption
     DEF Abandon, tableVars, TypeOK, Processes, Attempting
<1>6. ASSUME NEW d \in Deciders, NEW r \in Requests, NEW id \in PermitIds,
             Reserve(d, r, id)
      PROVE  CoverInv'
  <2>1. snapshot[d].captured \in Times /\ Expiry(r, snapshot[d].captured) \in Nat
    BY <1>6, ExpiryType DEF Reserve, TypeOK, Snapshot
  <2>2. /\ Expiry(r, snapshot[d].captured) <= snapshot[d].captured + PermitTTL
        /\ Expiry(r, snapshot[d].captured) <= r.horizon
    BY <2>1, RequestAssumption, ParameterAssumption DEF Expiry, Times
  <2>3. /\ ~Present(id)
        /\ permits'[id] = [state |-> "RESERVED", request |-> r,
                           issued |-> snapshot[d].captured,
                           expires |-> Expiry(r, snapshot[d].captured)]
        /\ \A p \in PermitIds : p # id => permits'[p] = permits[p]
    BY <1>6 DEF Reserve, ReserveReason, Duplicate, TypeOK, Tables
  <2>4. ExpiriesAreBounded'
    BY <2>2, <2>3 DEF CoverInv, ExpiriesAreBounded, Present
  <2>5. \A a \in Adapters : phase'[a] = phase[a] /\ held'[a] = held[a]
    BY <1>6, ParameterAssumption DEF Reserve, Decide, TypeOK, Processes
  <2>6. \A a \in Adapters : Attempting(a) => permits'[held[a].permit] = permits[held[a].permit]
    BY <1>0, <2>3
  <2>7. HoldingsAreValid'
    BY <2>5, <2>6 DEF CoverInv, HoldingsAreValid, Attempting, SameAction
  <2> QED BY <2>4, <2>7 DEF CoverInv
<1>7. ASSUME NEW a \in Adapters, NEW id \in PermitIds, NEW r \in Requests,
             NEW now \in Times, Consume(a, id, r, now)
      PROVE  CoverInv'
  <2>1. /\ permits[id].state = "RESERVED" /\ permits[id] \in Permit
        /\ SameAction(permits[id].request, r)
        /\ permits[id].issued <= now /\ now < permits[id].expires
    BY <1>7, PresentIsPermit DEF Consume
  <2>2. /\ permits'[id] = [permits[id] EXCEPT !.state = "ATTEMPTED"]
        /\ \A p \in PermitIds : p # id => permits'[p] = permits[p]
    BY <1>7 DEF Consume, TypeOK, Tables
  <2>3. /\ permits'[id].request = permits[id].request
        /\ permits'[id].issued = permits[id].issued
        /\ permits'[id].expires = permits[id].expires
    BY <2>1, <2>2 DEF Permit
  <2>4. ExpiriesAreBounded'
    BY <2>1, <2>2, <2>3 DEF CoverInv, ExpiriesAreBounded, Present
  <2>5. /\ held'[a] = [permit |-> id, request |-> r, at |-> now]
        /\ \A b \in Adapters : b # a => phase'[b] = phase[b] /\ held'[b] = held[b]
    BY <1>7 DEF Consume, TypeOK, Processes
  <2>6. \A b \in Adapters : Attempting(b) => held[b].permit # id
    BY <2>1 DEF OneAttemptPerPermit
  <2>7. \A b \in Adapters : Attempting(b) => permits'[held[b].permit] = permits[held[b].permit]
    BY <1>0, <2>2, <2>6
  <2>8. HoldingsAreValid'
    <3> SUFFICES ASSUME NEW b \in Adapters, phase'[b] \in {"consumed", "acted"}
                 PROVE  /\ SameAction(permits'[held'[b].permit].request, held'[b].request)
                        /\ permits'[held'[b].permit].issued <= held'[b].at
                        /\ held'[b].at < permits'[held'[b].permit].expires
      BY DEF HoldingsAreValid, Attempting, SameAction
    <3>1. CASE b = a
      BY <2>1, <2>3, <2>5, <3>1
    <3>2. CASE b # a
      BY <2>5, <2>7, <3>2 DEF CoverInv, HoldingsAreValid, Attempting
    <3> QED BY <3>1, <3>2
  <2> QED BY <2>4, <2>8 DEF CoverInv
<1>8. ASSUME NEW a \in Adapters, Act(a) PROVE CoverInv'
  BY <1>1, <1>8 DEF Act, tableVars, TypeOK, Processes, Attempting
<1>9. ASSUME NEW a \in Adapters, NEW outcome \in {"SUCCEEDED", "FAILED"},
             Finish(a, outcome)
      PROVE  CoverInv'
  <2>1. \A b \in Adapters : phase'[b] \in {"consumed", "acted"} =>
          Attempting(b) /\ held'[b] = held[b]
    BY <1>9 DEF Finish, TypeOK, Processes, Attempting
  <2>2. CASE UNCHANGED permits
    BY <1>1, <2>1, <2>2
  <2>3. CASE /\ permits[held[a].permit].state = "ATTEMPTED"
             /\ permits' = [permits EXCEPT ![held[a].permit].state = outcome]
    <3>1. Attempting(a) /\ held[a].permit \in PermitIds
      BY <1>9 DEF Finish, Attempting, TypeOK, Holding
    <3>2. \A p \in PermitIds :
           /\ (permits'[p].state # "ABSENT") => Present(p)
           /\ Present(p) => /\ permits'[p].request = permits[p].request
                            /\ permits'[p].issued = permits[p].issued
                            /\ permits'[p].expires = permits[p].expires
      BY <2>3, <3>1, PresentIsPermit DEF TypeOK, Tables, Present, Permit
    <3> QED BY <1>0, <2>1, <3>2, CoverKept
  <2> QED BY <1>9, <2>2, <2>3 DEF Finish
<1> QED
  BY <1>2, <1>3, <1>4, <1>5, <1>6, <1>7, <1>8, <1>9, <1>10
     DEF Next, DeciderStep, AdapterStep

\* An adapter acts only on a durable attempt, on the action that was reserved,
\* consumed within the time to live and before the evidence went stale.
THEOREM ActingCovered == Spec => []ActingIsCovered
<1>1. Init => CoverInv
  BY DEF Init, CoverInv, ExpiriesAreBounded, HoldingsAreValid, Present, NoPermit,
         Attempting, Processes
<1>2. TypeOK /\ OneAttemptPerPermit /\ CoverInv => ActingIsCovered
  <2> SUFFICES ASSUME TypeOK, OneAttemptPerPermit, CoverInv,
                      NEW a \in Adapters, Attempting(a)
               PROVE  LET row == permits[held[a].permit]
                      IN  /\ row.state = "ATTEMPTED"
                          /\ SameAction(row.request, held[a].request)
                          /\ row.issued <= held[a].at
                          /\ held[a].at < row.issued + PermitTTL
                          /\ held[a].at < row.request.horizon
    BY DEF ActingIsCovered
  <2> DEFINE row == permits[held[a].permit]
  <2>1. held[a] \in Holding /\ held[a].permit \in PermitIds /\ held[a].at \in Nat
    BY ParameterAssumption DEF Attempting, TypeOK, Holding, Times
  <2>2. row.state = "ATTEMPTED" /\ Present(held[a].permit)
    BY <2>1 DEF OneAttemptPerPermit, Present
  <2>3. row \in Permit /\ row.issued \in Nat /\ row.expires \in Nat /\ row.request.horizon \in Nat
    BY <2>1, <2>2, PresentIsPermit, ParameterAssumption, RequestAssumption DEF Permit, Times
  <2>4. /\ SameAction(row.request, held[a].request)
        /\ row.issued <= held[a].at /\ held[a].at < row.expires
    BY DEF CoverInv, HoldingsAreValid
  <2>5. row.expires <= row.issued + PermitTTL /\ row.expires <= row.request.horizon
    BY <2>1, <2>2 DEF CoverInv, ExpiriesAreBounded
  <2> QED BY <2>1, <2>2, <2>3, <2>4, <2>5, ParameterAssumption
<1> QED BY <1>1, <1>2, CoverNext, TypeCorrect, OneAttempt, PTL DEF Spec

-----------------------------------------------------------------------------
(***************************************************************************)
(* Answers stay true, because nothing is ever taken out of the tables.     *)
(***************************************************************************)
LEMMA TablesGrow ==
  ASSUME TypeOK, [Next]_vars
  PROVE  /\ observations \subseteq observations'
         /\ \A p \in PermitIds : Present(p) =>
              Present(p)' /\ permits'[p].request = permits[p].request
<1> USE DEF Present
<1>1. CASE UNCHANGED <<permits, observations>>
  BY <1>1
<1>2. CASE Tick \/ UNCHANGED vars \/ \E g \in Programs : Open(g) \/ Stop(g)
  BY <1>1, <1>2 DEF Tick, vars, Open, Stop, tableVars
<1>3. ASSUME NEW d \in Deciders, NEW t \in Times, TakeSnapshot(d, t) PROVE UNCHANGED <<permits, observations>>
  BY <1>3 DEF TakeSnapshot, tableVars
<1>4. ASSUME NEW d \in Deciders, NEW r \in Requests, NEW id \in PermitIds, Pause(d, r, id)
      PROVE  UNCHANGED <<permits, observations>>
  BY <1>4 DEF Pause, tableVars
<1>5. ASSUME NEW d \in Deciders, Abandon(d) PROVE UNCHANGED <<permits, observations>>
  BY <1>5 DEF Abandon, tableVars
<1>6. ASSUME NEW d \in Deciders, NEW r \in Requests, NEW id \in PermitIds, Reserve(d, r, id)
      PROVE  /\ observations \subseteq observations'
             /\ \A p \in PermitIds : Present(p) => permits'[p] = permits[p]
  BY <1>6 DEF Reserve, ReserveReason, Duplicate, InsertOrIgnore, TypeOK, Tables
<1>7. ASSUME NEW a \in Adapters, NEW id \in PermitIds, NEW r \in Requests,
             NEW now \in Times, Consume(a, id, r, now)
      PROVE  /\ observations' = observations
             /\ \A p \in PermitIds : Present(p) =>
                  Present(p)' /\ permits'[p].request = permits[p].request
  <2>1. permits[id] \in Permit
    BY <1>7, PresentIsPermit DEF Consume
  <2>2. /\ permits'[id].state = "ATTEMPTED" /\ permits'[id].request = permits[id].request
        /\ \A p \in PermitIds : p # id => permits'[p] = permits[p]
    BY <1>7, <2>1 DEF Consume, TypeOK, Tables, Permit
  <2> QED BY <1>7, <2>2 DEF Consume
<1>8. ASSUME NEW a \in Adapters, Act(a) PROVE UNCHANGED <<permits, observations>>
  BY <1>8 DEF Act, tableVars
<1>9. ASSUME NEW a \in Adapters, NEW outcome \in {"SUCCEEDED", "FAILED"}, Finish(a, outcome)
      PROVE  /\ observations' = observations
             /\ \A p \in PermitIds : Present(p) =>
                  Present(p)' /\ permits'[p].request = permits[p].request
  <2>1. CASE UNCHANGED permits
    BY <1>9, <2>1 DEF Finish
  <2>2. CASE permits' = [permits EXCEPT ![held[a].permit].state = outcome]
    <3>1. \A p \in PermitIds : Present(p) =>
            \/ permits'[p] = permits[p]
            \/ permits'[p] = [permits[p] EXCEPT !.state = outcome]
      BY <2>2 DEF TypeOK, Tables
    <3>2. \A p \in PermitIds : Present(p) => permits[p] \in Permit
      BY PresentIsPermit
    <3> QED BY <1>9, <3>1, <3>2 DEF Finish, Permit
  <2> QED BY <1>9, <2>1, <2>2 DEF Finish
<1> QED BY <1>1, <1>2, <1>3, <1>4, <1>5, <1>6, <1>7, <1>8, <1>9 DEF Next, DeciderStep, AdapterStep

\* Who was allowed has its permit in the store.
AllowedIsStored ==
  \A d \in Deciders : answer[d].reason = "ALLOW" =>
    \E p \in PermitIds : Present(p) /\ permits[p].request = answer[d].request

AnswersInv == AllowedIsStored /\ AnswersAreTrue

\* What is true of an answer stays true of it.
LEMMA AnswersAge ==
  ASSUME TypeOK, [Next]_vars, NEW r \in Requests
  PROVE  /\ Conflicts(r) =>
              \E o \in r.observations, s \in observations' \cup r.observations :
                s.key = o.key /\ s.handoff # o.handoff
         /\ \A p \in PermitIds : Duplicate(r, p) =>
              \/ Present(p)'
              \/ \E q \in PermitIds : Present(q)' /\ ReplayKey(permits'[q].request) = ReplayKey(r)
BY TablesGrow DEF Conflicts, Duplicate

\* Everybody else's answers, when one decider is told something new.
LEMMA AnswersOfOthers ==
  ASSUME TypeOK, AnswersInv, [Next]_vars, NEW d \in Deciders,
         answer'[d] = answer[d] \/ answer'[d] = NoAnswer
  PROVE  /\ answer'[d].reason = "ALLOW" =>
              \E p \in PermitIds : Present(p)' /\ permits'[p].request = answer'[d].request
         /\ answer'[d].reason = "CONFLICTING_HANDOFF" =>
              \E o \in answer'[d].request.observations,
                 s \in observations' \cup answer'[d].request.observations :
                s.key = o.key /\ s.handoff # o.handoff
         /\ answer'[d].reason = "REPLAY_DETECTED" =>
              \E p \in PermitIds :
                \/ Present(p)'
                \/ \E q \in PermitIds : /\ Present(q)'
                                        /\ ReplayKey(permits'[q].request) = ReplayKey(answer'[d].request)
<1>1. CASE answer'[d] = NoAnswer
  BY <1>1 DEF NoAnswer
<1>2. CASE answer'[d] = answer[d] /\ answer[d] # NoAnswer
  <2>1. answer[d].request \in Requests
    BY <1>2 DEF TypeOK, Answers
  <2>2. answer[d].reason = "ALLOW" =>
          \E p \in PermitIds : Present(p) /\ permits[p].request = answer[d].request
    BY DEF AnswersInv, AllowedIsStored
  <2>3. /\ answer[d].reason = "CONFLICTING_HANDOFF" => Conflicts(answer[d].request)
        /\ answer[d].reason = "REPLAY_DETECTED" =>
             \E p \in PermitIds : Duplicate(answer[d].request, p)
    BY DEF AnswersInv, AnswersAreTrue
  <2>4. answer'[d] = answer[d]
    BY <1>2
  <2>5. answer'[d].reason = "ALLOW" =>
          \E p \in PermitIds : Present(p)' /\ permits'[p].request = answer'[d].request
    BY <2>2, <2>4, TablesGrow
  <2> QED BY <2>1, <2>3, <2>4, <2>5, AnswersAge
<1> QED BY <1>1, <1>2

LEMMA AnswersNext == TypeOK /\ AnswersInv /\ [Next]_vars => AnswersInv'
<1> SUFFICES ASSUME TypeOK, AnswersInv, [Next]_vars PROVE AnswersInv'
  OBVIOUS
<1> DEFINE Fine(d) ==
      /\ answer'[d].reason = "ALLOW" =>
           \E p \in PermitIds : Present(p)' /\ permits'[p].request = answer'[d].request
      /\ answer'[d].reason = "CONFLICTING_HANDOFF" =>
           \E o \in answer'[d].request.observations,
              s \in observations' \cup answer'[d].request.observations :
             s.key = o.key /\ s.handoff # o.handoff
      /\ answer'[d].reason = "REPLAY_DETECTED" =>
           \E p \in PermitIds :
             \/ Present(p)'
             \/ \E q \in PermitIds : /\ Present(q)'
                                     /\ ReplayKey(permits'[q].request) = ReplayKey(answer'[d].request)
      Apart(d, e) ==
        answer'[d].reason = "ALLOW" /\ answer'[e].reason = "ALLOW" /\ d # e
          => ReplayKey(answer'[d].request) # ReplayKey(answer'[e].request)
<1>1. ASSUME NEW d \in Deciders, answer'[d] = answer[d] \/ answer'[d] = NoAnswer
      PROVE  Fine(d)
  BY <1>1, AnswersOfOthers
<1>2. ASSUME \A d \in Deciders : Fine(d), \A d, e \in Deciders : Apart(d, e)
      PROVE  AnswersInv'
  BY <1>2 DEF AnswersInv, AllowedIsStored, AnswersAreTrue, Conflicts, Duplicate, ReplayKey
<1>3. ASSUME NEW d \in Deciders, NEW e \in Deciders,
             answer'[d] = answer[d] \/ answer'[d] = NoAnswer,
             answer'[e] = answer[e] \/ answer'[e] = NoAnswer
      PROVE  Apart(d, e)
  BY <1>3 DEF AnswersInv, AnswersAreTrue, NoAnswer
<1>4. ASSUME \A d \in Deciders : answer'[d] = answer[d] \/ answer'[d] = NoAnswer
      PROVE  AnswersInv'
  BY <1>1, <1>2, <1>3, <1>4
<1>5. CASE Tick \/ UNCHANGED vars \/ \E g \in Programs : Open(g) \/ Stop(g)
  BY <1>4, <1>5 DEF Tick, vars, Open, Stop, deciderVars
<1>6. ASSUME NEW d \in Deciders, NEW t \in Times, TakeSnapshot(d, t) PROVE AnswersInv'
  BY <1>4, <1>6 DEF TakeSnapshot, TypeOK
<1>7. ASSUME NEW d \in Deciders, Abandon(d) PROVE AnswersInv'
  BY <1>4, <1>7 DEF Abandon, TypeOK
<1>8. ASSUME NEW a \in Adapters, AdapterStep(a) PROVE AnswersInv'
  BY <1>4, <1>8 DEF AdapterStep, Consume, Act, Finish, deciderVars
<1>9. ASSUME NEW d \in Deciders, NEW r \in Requests, NEW id \in PermitIds, Pause(d, r, id)
      PROVE  AnswersInv'
  <2>1. PICK reason \in {"EXPIRED", "STATE_CHANGED", "CONFLICTING_HANDOFF",
                         "REPLAY_DETECTED", "STATE_UNAVAILABLE"} :
          /\ Decide(d, reason, r)
          /\ reason = "CONFLICTING_HANDOFF" => Conflicts(r)
          /\ reason = "REPLAY_DETECTED" => Duplicate(r, id)
    BY <1>9 DEF Pause, ReserveReason
  <2>2. /\ answer'[d] = [reason |-> reason, request |-> r]
        /\ \A e \in Deciders : e # d => answer'[e] = answer[e]
    BY <2>1 DEF Decide, TypeOK
  <2>3. Fine(d)
    BY <2>1, <2>2, AnswersAge
  <2>4. \A e \in Deciders : Fine(e)
    BY <1>1, <2>2, <2>3
  <2>5. \A e, f \in Deciders : Apart(e, f)
    BY <1>3, <2>2
  <2> QED BY <1>2, <2>4, <2>5
<1>10. ASSUME NEW d \in Deciders, NEW r \in Requests, NEW id \in PermitIds, Reserve(d, r, id)
       PROVE  AnswersInv'
  <2>1. /\ answer'[d] = [reason |-> "ALLOW", request |-> r]
        /\ \A e \in Deciders : e # d => answer'[e] = answer[e]
    BY <1>10 DEF Reserve, Decide, TypeOK
  <2>2. permits'[id].state = "RESERVED" /\ permits'[id].request = r
    BY <1>10 DEF Reserve, TypeOK, Tables
  <2>3. Fine(d)
    BY <2>1, <2>2 DEF Present
  <2>4. \A e \in Deciders : Fine(e)
    BY <1>1, <2>1, <2>3
  <2>5. \A p \in PermitIds : Present(p) => ReplayKey(permits[p].request) # ReplayKey(r)
    BY <1>10 DEF Reserve, ReserveReason, Duplicate
  <2>6. \A e \in Deciders : answer[e].reason = "ALLOW" =>
          ReplayKey(answer[e].request) # ReplayKey(r)
    BY <2>5 DEF AnswersInv, AllowedIsStored
  <2>7. \A e, f \in Deciders : Apart(e, f)
    BY <1>3, <2>1, <2>6
  <2> QED BY <1>2, <2>4, <2>7
<1> QED BY <1>5, <1>6, <1>7, <1>8, <1>9, <1>10 DEF Next, DeciderStep

\* Of the deciders that compete for one replay key at most one is allowed, and
\* whoever is told of a replay or of a conflicting handoff is told of something
\* that is in the store for good.
THEOREM AnswersTrue == Spec => []AnswersAreTrue
<1>1. Init => AnswersInv
  BY DEF Init, AnswersInv, AllowedIsStored, AnswersAreTrue, NoAnswer
<1>2. AnswersInv => AnswersAreTrue
  BY DEF AnswersInv
<1> QED BY <1>1, <1>2, AnswersNext, TypeCorrect, PTL DEF Spec

-----------------------------------------------------------------------------
(***************************************************************************)
(* The revision counts the transitions.  A row's place in its lifecycle    *)
(* says how many transitions it has made, and the revision is their sum:   *)
(* one for every row, one more for every row that was attempted, one more  *)
(* for every outcome.  Permit ids need not be finitely many, the rows are. *)
(***************************************************************************)
InStates(states) == {p \in PermitIds : permits[p].state \in states}

Tried == Lifecycle \ {"RESERVED"}
Closed == {"SUCCEEDED", "FAILED"}

CountInv == IsFiniteSet(InStates(Lifecycle)) /\ RevisionCountsTransitions

LEMMA CountByStates ==
  RevisionCountsTransitions <=>
    revision = Cardinality(InStates(Lifecycle)) + Cardinality(InStates(Tried))
                 + Cardinality(InStates(Closed))
BY DEF RevisionCountsTransitions, InStates, Tried, Closed

LEMMA StatesFinite ==
  ASSUME CountInv
  PROVE  /\ IsFiniteSet(InStates(Lifecycle)) /\ Cardinality(InStates(Lifecycle)) \in Nat
         /\ IsFiniteSet(InStates(Tried)) /\ Cardinality(InStates(Tried)) \in Nat
         /\ IsFiniteSet(InStates(Closed)) /\ Cardinality(InStates(Closed)) \in Nat
<1>1. InStates(Tried) \subseteq InStates(Lifecycle) /\ InStates(Closed) \subseteq InStates(Lifecycle)
  BY DEF InStates, Tried, Closed, Lifecycle
<1>2. IsFiniteSet(InStates(Tried)) /\ IsFiniteSet(InStates(Closed))
  BY <1>1, FS_Subset DEF CountInv
<1> QED BY <1>2, FS_CardinalityType DEF CountInv

\* A row that enters one of the three sets and leaves none makes the sum one
\* larger.
LEMMA OneMoreRow ==
  ASSUME NEW S, IsFiniteSet(S), NEW x, x \notin S
  PROVE  IsFiniteSet(S \cup {x}) /\ Cardinality(S \cup {x}) = Cardinality(S) + 1
BY FS_AddElement

LEMMA CountKept ==
  ASSUME CountInv, revision' = revision, permits' = permits
  PROVE  CountInv'
BY DEF CountInv, RevisionCountsTransitions, InStates

LEMMA CountNext == TypeOK /\ OwnerInv /\ CountInv /\ [Next]_vars => CountInv'
<1> SUFFICES ASSUME TypeOK, OwnerInv, CountInv, [Next]_vars PROVE CountInv'
  OBVIOUS
<1>0. revision = Cardinality(InStates(Lifecycle)) + Cardinality(InStates(Tried))
                   + Cardinality(InStates(Closed))
  BY CountByStates DEF CountInv
<1> DEFINE After(states) == {p \in PermitIds : permits'[p].state \in states}
<1>1. ASSUME IsFiniteSet(After(Lifecycle)),
             revision' = Cardinality(After(Lifecycle)) + Cardinality(After(Tried))
                           + Cardinality(After(Closed))
      PROVE  CountInv'
  BY <1>1 DEF CountInv, RevisionCountsTransitions, InStates, Tried, Closed
<1> HIDE DEF After
<1>2. CASE Tick \/ UNCHANGED vars \/ \E g \in Programs : Stop(g)
  BY <1>2, CountKept DEF Tick, vars, Stop, tableVars
<1>3. ASSUME NEW g \in Programs, Open(g) PROVE CountInv'
  BY <1>3, CountKept DEF Open, OwnerInv, FreshStore
<1>4. ASSUME NEW d \in Deciders, NEW t \in Times, TakeSnapshot(d, t) PROVE CountInv'
  BY <1>4, CountKept DEF TakeSnapshot, tableVars
<1>5. ASSUME NEW d \in Deciders, NEW r \in Requests, NEW id \in PermitIds, Pause(d, r, id)
      PROVE  CountInv'
  BY <1>5, CountKept DEF Pause, tableVars
<1>6. ASSUME NEW d \in Deciders, Abandon(d) PROVE CountInv'
  BY <1>6, CountKept DEF Abandon, tableVars
<1>7. ASSUME NEW d \in Deciders, NEW r \in Requests, NEW id \in PermitIds, Reserve(d, r, id)
      PROVE  CountInv'
  <2>1. /\ permits[id].state = "ABSENT" /\ permits'[id].state = "RESERVED"
        /\ \A p \in PermitIds : p # id => permits'[p] = permits[p]
        /\ revision' = revision + 1
    BY <1>7 DEF Reserve, ReserveReason, Duplicate, Present, TypeOK, Tables
  <2>2. /\ After(Lifecycle) = InStates(Lifecycle) \cup {id} /\ id \notin InStates(Lifecycle)
        /\ After(Tried) = InStates(Tried)
        /\ After(Closed) = InStates(Closed)
    BY <2>1 DEF After, InStates, Lifecycle, Tried, Closed
  <2>3. /\ IsFiniteSet(After(Lifecycle))
        /\ Cardinality(After(Lifecycle)) = Cardinality(InStates(Lifecycle)) + 1
    BY <2>2, StatesFinite, OneMoreRow
  <2> QED BY <1>0, <1>1, <2>1, <2>2, <2>3, StatesFinite
<1>8. ASSUME NEW a \in Adapters, NEW id \in PermitIds, NEW r \in Requests,
             NEW now \in Times, Consume(a, id, r, now)
      PROVE  CountInv'
  <2>1. /\ permits[id].state = "RESERVED" /\ permits'[id].state = "ATTEMPTED"
        /\ \A p \in PermitIds : p # id => permits'[p] = permits[p]
        /\ revision' = revision + 1
    BY <1>8, PresentIsPermit DEF Consume, TypeOK, Tables, Permit
  <2>2. /\ After(Lifecycle) = InStates(Lifecycle)
        /\ After(Tried) = InStates(Tried) \cup {id} /\ id \notin InStates(Tried)
        /\ After(Closed) = InStates(Closed)
    BY <2>1 DEF After, InStates, Lifecycle, Tried, Closed
  <2> QED BY <1>0, <1>1, <2>1, <2>2, StatesFinite, OneMoreRow
<1>9. ASSUME NEW a \in Adapters, Act(a) PROVE CountInv'
  BY <1>9, CountKept DEF Act, tableVars
<1>10. ASSUME NEW a \in Adapters, NEW outcome \in {"SUCCEEDED", "FAILED"}, Finish(a, outcome)
       PROVE  CountInv'
  <2>1. CASE UNCHANGED <<permits, revision>>
    BY <2>1, CountKept
  <2>2. CASE /\ permits[held[a].permit].state = "ATTEMPTED"
             /\ permits' = [permits EXCEPT ![held[a].permit].state = outcome]
             /\ revision' = revision + 1
    <3> DEFINE id == held[a].permit
    <3>1. id \in PermitIds
      BY <1>10 DEF Finish, TypeOK, Holding
    <3>2. /\ permits[id].state = "ATTEMPTED" /\ permits'[id].state = outcome
          /\ \A p \in PermitIds : p # id => permits'[p] = permits[p]
      BY <2>2, <3>1, PresentIsPermit DEF TypeOK, Tables, Permit, Present
    <3>3. /\ After(Lifecycle) = InStates(Lifecycle)
          /\ After(Tried) = InStates(Tried)
          /\ After(Closed) = InStates(Closed) \cup {id} /\ id \notin InStates(Closed)
      BY <3>1, <3>2 DEF After, InStates, Lifecycle, Tried, Closed
    <3> QED BY <1>0, <1>1, <2>2, <3>3, StatesFinite, OneMoreRow
  <2> QED BY <1>10, <2>1, <2>2 DEF Finish
<1> QED
  BY <1>2, <1>3, <1>4, <1>5, <1>6, <1>7, <1>8, <1>9, <1>10
     DEF Next, DeciderStep, AdapterStep

\* Every committed transition advances the revision by one and nothing else
\* does: a stale revision always means that somebody got a transition in.
THEOREM RevisionCounts == Spec => []RevisionCountsTransitions
<1>1. Init => CountInv
  <2> SUFFICES ASSUME Init PROVE CountInv
    OBVIOUS
  <2>1. InStates(Lifecycle) = {} /\ InStates(Tried) = {} /\ InStates(Closed) = {}
    BY DEF Init, NoPermit, InStates, Lifecycle, Tried, Closed
  <2>2. revision = 0
    BY DEF Init
  <2> QED BY <2>1, <2>2, CountByStates, FS_EmptySet DEF CountInv
<1>2. CountInv => RevisionCountsTransitions
  BY DEF CountInv
<1> QED BY <1>1, <1>2, CountNext, TypeCorrect, OwnerAlways, PTL DEF Spec

-----------------------------------------------------------------------------
(***************************************************************************)
(* The store implements the ledger.  The refinement mapping reads a key's  *)
(* entry off the one row that carries the key.                             *)
(***************************************************************************)
KeyOf(p) == ReplayKey(permits[p].request)

EntriesAreRows ==
  /\ \A p \in PermitIds : Present(p) =>
       /\ KeyOf(p) \in Keys
       /\ LedgerEntry[KeyOf(p)] = permits[p].state
       /\ LedgerPerformed[KeyOf(p)] <=> acts[p] > 0
  /\ \A k \in Keys : (\A p \in PermitIds : Present(p) => KeyOf(p) # k) =>
       LedgerEntry[k] = "FREE" /\ ~LedgerPerformed[k]

LEMMA EntryOfRow == TypeOK /\ OneAttemptPerPermit => EntriesAreRows
<1> SUFFICES ASSUME TypeOK, OneAttemptPerPermit PROVE EntriesAreRows
  OBVIOUS
<1>1. ASSUME NEW p \in PermitIds, Present(p)
      PROVE  /\ KeyOf(p) \in Keys
             /\ LedgerEntry[KeyOf(p)] = permits[p].state
             /\ LedgerPerformed[KeyOf(p)] <=> acts[p] > 0
  <2>1. KeyOf(p) \in Keys
    BY <1>1, PresentIsPermit DEF KeyOf, Keys, Permit
  <2>2. PermitsFor(KeyOf(p)) = {p}
    BY <1>1 DEF PermitsFor, KeyOf, OneAttemptPerPermit
  <2>3. (CHOOSE q \in PermitsFor(KeyOf(p)) : TRUE) = p
    BY <2>2
  <2>4. LedgerEntry[KeyOf(p)] = permits[p].state
    BY <2>1, <2>2, <2>3 DEF LedgerEntry
  <2>5. LedgerPerformed[KeyOf(p)] <=> \E q \in PermitsFor(KeyOf(p)) : acts[q] > 0
    BY <2>1 DEF LedgerPerformed
  <2> QED BY <2>1, <2>2, <2>4, <2>5
<1>2. ASSUME NEW k \in Keys, \A p \in PermitIds : Present(p) => KeyOf(p) # k
      PROVE  LedgerEntry[k] = "FREE" /\ ~LedgerPerformed[k]
  <2>1. PermitsFor(k) = {}
    BY <1>2 DEF PermitsFor, KeyOf
  <2> QED BY <2>1 DEF LedgerEntry, LedgerPerformed
<1> QED BY <1>1, <1>2 DEF EntriesAreRows

\* The same after a step.
LEMMA EntryOfRowNext == TypeOK' /\ OneAttemptPerPermit' => EntriesAreRows'
BY EntryOfRow, PTL

\* A step on the row of one permit is a step on the entry of its key.
LEMMA EntryMoves ==
  ASSUME EntriesAreRows, EntriesAreRows',
         NEW id \in PermitIds, NEW k \in Keys,
         Present(id)', KeyOf(id)' = k, Present(id) => KeyOf(id) = k,
         \A p \in PermitIds : p # id =>
            permits'[p] = permits[p] /\ acts'[p] = acts[p] /\ (Present(p) => KeyOf(p) # k)
  PROVE  /\ LedgerEntry' = [LedgerEntry EXCEPT ![k] = permits'[id].state]
         /\ (LedgerPerformed[k] <=> acts'[id] > 0) => LedgerPerformed' = LedgerPerformed
         /\ acts'[id] > 0 => LedgerPerformed' = [LedgerPerformed EXCEPT ![k] = TRUE]
<1>1. LedgerEntry'[k] = permits'[id].state /\ (LedgerPerformed'[k] <=> acts'[id] > 0)
  BY DEF EntriesAreRows
<1>2. ASSUME NEW j \in Keys, j # k
      PROVE  LedgerEntry'[j] = LedgerEntry[j] /\ (LedgerPerformed'[j] <=> LedgerPerformed[j])
  <2>1. CASE \A p \in PermitIds : Present(p) => KeyOf(p) # j
    <3>1. \A p \in PermitIds : Present(p)' => KeyOf(p)' # j
      BY <1>2, <2>1 DEF KeyOf, Present
    <3> QED BY <2>1, <3>1 DEF EntriesAreRows
  <2>2. ASSUME NEW p \in PermitIds, Present(p), KeyOf(p) = j
        PROVE  LedgerEntry'[j] = LedgerEntry[j] /\ (LedgerPerformed'[j] <=> LedgerPerformed[j])
    <3>1. p # id /\ permits'[p] = permits[p] /\ acts'[p] = acts[p]
      BY <1>2, <2>2
    <3>2. Present(p)' /\ KeyOf(p)' = j
      BY <2>2, <3>1 DEF Present, KeyOf
    <3> QED BY <2>2, <3>1, <3>2 DEF EntriesAreRows
  <2> QED BY <2>1, <2>2
<1>3. LedgerEntry' = [LedgerEntry EXCEPT ![k] = permits'[id].state]
  <2>1. /\ LedgerEntry = [j \in Keys |-> LedgerEntry[j]]
        /\ LedgerEntry' = [j \in Keys |-> LedgerEntry'[j]]
    BY DEF LedgerEntry
  <2> QED BY <1>1, <1>2, <2>1
<1>4. LedgerPerformed \in [Keys -> BOOLEAN] /\ LedgerPerformed' \in [Keys -> BOOLEAN]
  BY DEF LedgerPerformed
<1>5. ASSUME LedgerPerformed[k] <=> acts'[id] > 0 PROVE LedgerPerformed' = LedgerPerformed
  <2>1. \A j \in Keys : LedgerPerformed'[j] = LedgerPerformed[j]
    BY <1>1, <1>2, <1>4, <1>5
  <2> QED BY <1>4, <2>1
<1>6. ASSUME acts'[id] > 0 PROVE LedgerPerformed' = [LedgerPerformed EXCEPT ![k] = TRUE]
  <2>1. \A j \in Keys : LedgerPerformed'[j] = [LedgerPerformed EXCEPT ![k] = TRUE][j]
    <3> TAKE j \in Keys
    <3>1. CASE j = k
      <4>1. LedgerPerformed'[k] = TRUE
        BY <1>1, <1>4, <1>6
      <4> QED BY <1>4, <3>1, <4>1
    <3>2. CASE j # k
      <4>1. LedgerPerformed'[j] = LedgerPerformed[j]
        BY <1>2, <1>4, <3>2
      <4> QED BY <1>4, <3>2, <4>1
    <3> QED BY <3>1, <3>2
  <2>2. [LedgerPerformed EXCEPT ![k] = TRUE] \in [Keys -> BOOLEAN]
    BY <1>4
  <2> QED BY <1>4, <2>1, <2>2
<1> QED BY <1>3, <1>5, <1>6

LEMMA LedgerInit == Init => Ledger!Init
<1> SUFFICES ASSUME Init PROVE Ledger!Init
  OBVIOUS
<1>1. \A k \in Keys : PermitsFor(k) = {}
  BY DEF Init, PermitsFor, Present, NoPermit
<1>2. LedgerEntry = [k \in Keys |-> "FREE"]
  BY <1>1 DEF LedgerEntry
<1>3. LedgerPerformed = [k \in Keys |-> FALSE]
  BY <1>1 DEF LedgerPerformed
<1> QED BY <1>2, <1>3 DEF Ledger!Init

LEMMA LedgerNext ==
  TypeOK /\ OneAttemptPerPermit /\ [Next]_vars => [Ledger!Next]_(Ledger!ledgerVars)
<1> SUFFICES ASSUME TypeOK, OneAttemptPerPermit, [Next]_vars
             PROVE  [Ledger!Next]_(Ledger!ledgerVars)
  OBVIOUS
<1>1. EntriesAreRows /\ EntriesAreRows'
  BY EntryOfRow, EntryOfRowNext, TypeNext, AttemptNext
<1>2. ASSUME UNCHANGED <<permits, acts>> PROVE [Ledger!Next]_(Ledger!ledgerVars)
  BY <1>2 DEF Ledger!ledgerVars, LedgerEntry, LedgerPerformed, PermitsFor, Present
<1>3. CASE Tick \/ UNCHANGED vars \/ \E g \in Programs : Open(g) \/ Stop(g)
  BY <1>2, <1>3 DEF Tick, vars, Open, Stop, tableVars
<1>4. ASSUME NEW d \in Deciders, NEW t \in Times, TakeSnapshot(d, t)
      PROVE  [Ledger!Next]_(Ledger!ledgerVars)
  BY <1>2, <1>4 DEF TakeSnapshot, tableVars
<1>5. ASSUME NEW d \in Deciders, NEW r \in Requests, NEW id \in PermitIds, Pause(d, r, id)
      PROVE  [Ledger!Next]_(Ledger!ledgerVars)
  BY <1>2, <1>5 DEF Pause, tableVars
<1>6. ASSUME NEW d \in Deciders, Abandon(d) PROVE [Ledger!Next]_(Ledger!ledgerVars)
  BY <1>2, <1>6 DEF Abandon, tableVars
<1>7. ASSUME NEW d \in Deciders, NEW r \in Requests, NEW id \in PermitIds, Reserve(d, r, id)
      PROVE  [Ledger!Next]_(Ledger!ledgerVars)
  <2> DEFINE k == ReplayKey(r)
  <2>1. /\ ~Present(id) /\ acts[id] = 0 /\ acts' = acts /\ k \in Keys
        /\ \A p \in PermitIds : Present(p) => KeyOf(p) # k
    BY <1>7 DEF Reserve, ReserveReason, Duplicate, OneAttemptPerPermit, Present, KeyOf, Keys
  <2>2. /\ permits'[id].state = "RESERVED" /\ permits'[id].request = r
        /\ \A p \in PermitIds : p # id => permits'[p] = permits[p]
    BY <1>7 DEF Reserve, TypeOK, Tables
  <2>3. LedgerEntry[k] = "FREE" /\ ~LedgerPerformed[k]
    BY <1>1, <2>1 DEF EntriesAreRows
  <2>4. Present(id)' /\ KeyOf(id)' = k
    BY <2>2 DEF Present, KeyOf
  <2> HIDE DEF k
  <2>5. /\ LedgerEntry' = [LedgerEntry EXCEPT ![k] = "RESERVED"]
        /\ LedgerPerformed' = LedgerPerformed
    BY <1>1, <2>1, <2>2, <2>3, <2>4, EntryMoves
  <2> QED BY <2>1, <2>3, <2>5 DEF Ledger!Next, Ledger!Reserve
<1>8. ASSUME NEW a \in Adapters, NEW id \in PermitIds, NEW r \in Requests,
             NEW now \in Times, Consume(a, id, r, now)
      PROVE  [Ledger!Next]_(Ledger!ledgerVars)
  <2> DEFINE k == KeyOf(id)
  <2>1. /\ permits[id].state = "RESERVED" /\ permits[id] \in Permit
        /\ Present(id) /\ acts[id] = 0 /\ acts' = acts
    BY <1>8, PresentIsPermit DEF Consume, OneAttemptPerPermit
  <2>2. /\ permits'[id].state = "ATTEMPTED" /\ permits'[id].request = permits[id].request
        /\ \A p \in PermitIds : p # id => permits'[p] = permits[p]
    BY <1>8, <2>1 DEF Consume, TypeOK, Tables, Permit
  <2>3. k \in Keys /\ LedgerEntry[k] = "RESERVED" /\ ~LedgerPerformed[k]
    BY <1>1, <2>1 DEF EntriesAreRows
  <2>4. Present(id)' /\ KeyOf(id)' = k /\ KeyOf(id) = k
    BY <2>2 DEF Present, KeyOf
  <2>5. \A p \in PermitIds : p # id /\ Present(p) => KeyOf(p) # k
    BY <2>1 DEF OneAttemptPerPermit, KeyOf
  <2> HIDE DEF k
  <2>6. /\ LedgerEntry' = [LedgerEntry EXCEPT ![k] = "ATTEMPTED"]
        /\ LedgerPerformed' = LedgerPerformed
    BY <1>1, <2>1, <2>2, <2>3, <2>4, <2>5, EntryMoves
  <2> QED BY <2>3, <2>6 DEF Ledger!Next, Ledger!Attempt
<1>9. ASSUME NEW a \in Adapters, Act(a) PROVE [Ledger!Next]_(Ledger!ledgerVars)
  <2>1. PICK id \in PermitIds : id = held[a].permit
    BY <1>9 DEF Act, TypeOK, Holding
  <2> DEFINE k == KeyOf(id)
  <2>2. permits[id].state = "ATTEMPTED" /\ acts[id] = 0 /\ Present(id)
    BY <1>9, <2>1 DEF Act, Attempting, OneAttemptPerPermit, Present
  <2>3. /\ permits' = permits /\ acts'[id] = 1
        /\ \A p \in PermitIds : p # id => acts'[p] = acts[p]
    BY <1>9, <2>1, <2>2 DEF Act, TypeOK, tableVars
  <2>4. k \in Keys /\ LedgerEntry[k] = "ATTEMPTED" /\ ~LedgerPerformed[k]
    BY <1>1, <2>1, <2>2 DEF EntriesAreRows
  <2>5. Present(id)' /\ KeyOf(id)' = k /\ KeyOf(id) = k
    BY <2>2, <2>3 DEF Present, KeyOf
  <2>6. \A p \in PermitIds : p # id /\ Present(p) => KeyOf(p) # k
    BY <2>1, <2>2 DEF OneAttemptPerPermit, KeyOf
  <2> HIDE DEF k
  <2>7. /\ LedgerEntry' = [LedgerEntry EXCEPT ![k] = "ATTEMPTED"]
        /\ LedgerPerformed' = [LedgerPerformed EXCEPT ![k] = TRUE]
    BY <1>1, <2>1, <2>2, <2>3, <2>4, <2>5, <2>6, EntryMoves
  <2>8. LedgerEntry' = LedgerEntry
    BY <2>4, <2>7 DEF LedgerEntry
  <2> QED BY <2>4, <2>7, <2>8 DEF Ledger!Next, Ledger!Perform
<1>10. ASSUME NEW a \in Adapters, NEW outcome \in {"SUCCEEDED", "FAILED"}, Finish(a, outcome)
       PROVE  [Ledger!Next]_(Ledger!ledgerVars)
  <2>1. CASE UNCHANGED permits
    BY <1>2, <1>10, <2>1 DEF Finish
  <2>2. CASE permits' = [permits EXCEPT ![held[a].permit].state = outcome]
    <3>1. PICK id \in PermitIds : id = held[a].permit
      BY <1>10 DEF Finish, TypeOK, Holding
    <3> DEFINE k == KeyOf(id)
    <3>2. /\ permits[id].state = "ATTEMPTED" /\ acts[id] = 1 /\ acts' = acts
          /\ Present(id) /\ permits[id] \in Permit
      BY <1>10, <3>1, PresentIsPermit DEF Finish, Attempting, OneAttemptPerPermit, Present
    <3>3. /\ permits'[id].state = outcome /\ permits'[id].request = permits[id].request
          /\ \A p \in PermitIds : p # id => permits'[p] = permits[p]
      BY <2>2, <3>1, <3>2 DEF TypeOK, Tables, Permit
    <3>4. k \in Keys /\ LedgerEntry[k] = "ATTEMPTED" /\ LedgerPerformed[k]
      BY <1>1, <3>2 DEF EntriesAreRows
    <3>5. Present(id)' /\ KeyOf(id)' = k /\ KeyOf(id) = k
      BY <3>3 DEF Present, KeyOf
    <3>6. \A p \in PermitIds : p # id /\ Present(p) => KeyOf(p) # k
      BY <3>2 DEF OneAttemptPerPermit, KeyOf
    <3> HIDE DEF k
    <3>7. /\ LedgerEntry' = [LedgerEntry EXCEPT ![k] = outcome]
          /\ LedgerPerformed' = LedgerPerformed
      BY <1>1, <3>2, <3>3, <3>4, <3>5, <3>6, EntryMoves
    <3> QED BY <3>4, <3>7 DEF Ledger!Next, Ledger!Close
  <2> QED BY <1>10, <2>1, <2>2 DEF Finish
<1> QED
  BY <1>3, <1>4, <1>5, <1>6, <1>7, <1>8, <1>9, <1>10 DEF Next, DeciderStep, AdapterStep

\* However many programs, deciders and adapters work on the database, stop
\* and come back, what happens to a replay key is what the one-attempt ledger
\* allows: reserved once, attempted once, performed at most once and only
\* after the recorded attempt, closed with one outcome and never freed.
THEOREM StoreImplementsLedger == Spec => ImplementsLedger
<1>1. Spec => [](TypeOK /\ OneAttemptPerPermit)
  BY TypeCorrect, OneAttempt, PTL
<1> QED BY <1>1, LedgerInit, LedgerNext, PTL DEF Spec, ImplementsLedger, Ledger!Spec
=============================================================================
