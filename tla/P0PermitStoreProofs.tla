------------------------- MODULE P0PermitStoreProofs ------------------------
(***************************************************************************)
(* Theorems about P0PermitStore, for any keys, receipts, statements and    *)
(* processes and any times declared in any order.                          *)
(***************************************************************************)
EXTENDS P0PermitStore, TLAPS

-----------------------------------------------------------------------------
(***************************************************************************)
(* What it takes for a call to pass.                                       *)
(***************************************************************************)

LEMMA EarliestExists ==
  ASSUME NEW n \in 1 .. 3, NEW u \in [1 .. n -> Nat]
  PROVE  \E i \in 1 .. n : \A j \in 1 .. n : u[i] <= u[j]
<1>1. CASE n = 1
  BY <1>1
<1>2. CASE n = 2
  <2>1. 1 .. n = {1, 2} /\ u[1] \in Nat /\ u[2] \in Nat
    BY <1>2
  <2>2. \E i \in {1, 2} : u[i] <= u[1] /\ u[i] <= u[2]
    BY <2>1
  <2> QED BY <2>1, <2>2
<1>3. CASE n = 3
  <2>1. 1 .. n = {1, 2, 3} /\ u[1] \in Nat /\ u[2] \in Nat /\ u[3] \in Nat
    BY <1>3
  <2>2. \E i \in {1, 2, 3} : u[i] <= u[1] /\ u[i] <= u[2] /\ u[i] <= u[3]
    BY <2>1
  <2> QED BY <2>1, <2>2
<1> QED BY <1>1, <1>2, <1>3

\* A call that passes has a chain, and its scopes have an end: the earliest.
LEMMA ScopesHaveEnd ==
  ASSUME NEW r \in Requests, r.chain # <<>>
  PROVE  /\ ScopesEnd(r) \in Nat
         /\ \A i \in DOMAIN r.chain : ScopesEnd(r) <= r.chain[i].scope.until
<1>1. PICK n \in 0 .. 3 : r.chain \in [1 .. n -> Receipts]
  BY DEF Requests
<1>2. n \in 1 .. 3
  <2>1. n = 0 => r.chain = <<>>
    BY <1>1
  <2> QED BY <2>1
<1> DEFINE until(i) == r.chain[i].scope.until
<1>3. DOMAIN r.chain = 1 .. n /\ \A i \in 1 .. n : until(i) \in Nat
  BY <1>1, P0EvidenceAssumption
<1>4. \E i \in 1 .. n : \A j \in 1 .. n : until(i) <= until(j)
  <2> DEFINE u == [i \in 1 .. n |-> until(i)]
  <2>1. \E i \in 1 .. n : \A j \in 1 .. n : u[i] <= u[j]
    <3>1. u \in [1 .. n -> Nat]
      BY <1>3
    <3> HIDE DEF u
    <3> QED BY <1>2, <3>1, EarliestExists
  <2> QED BY <2>1
<1>5. \E t \in {until(i) : i \in DOMAIN r.chain} : \A i \in DOMAIN r.chain : t <= until(i)
  BY <1>3, <1>4
<1>6. /\ ScopesEnd(r) \in {until(i) : i \in DOMAIN r.chain}
      /\ \A i \in DOMAIN r.chain : ScopesEnd(r) <= until(i)
  BY <1>5 DEF ScopesEnd
<1> QED BY <1>3, <1>6

\* A call that passes has no reason against it in any part.
LEMMA NoReasonInAnyPart ==
  ASSUME NEW known, NEW r, NEW t, Reasons(known, r, t) = {}
  PROVE  /\ r.chain # <<>>
         /\ \A i \in DOMAIN r.chain :
              ReceiptReasons(known, r.chain[i]) = {} /\ TimeReasons(r.chain[i], t) = {}
         /\ ChainReasons(r.chain) = {}
         /\ StatusReasons(known, r.status, r.chain, t) = {}
         /\ ActionReasons(r.action, r.chain) = {}
<1>1. r.chain # <<>>
  BY DEF Reasons
<1>2. UNION {ReceiptReasons(known, r.chain[i]) : i \in DOMAIN r.chain} = {}
  BY <1>1 DEF Reasons
<1> DEFINE A == ChainReasons(r.chain)
           B == StatusReasons(known, r.status, r.chain, t)
           C == UNION {TimeReasons(r.chain[i], t) : i \in DOMAIN r.chain}
           D == ActionReasons(r.action, r.chain)
<1>3. A \cup B \cup C \cup D = {}
  BY <1>1, <1>2, Zenon DEF Reasons
<1>4. C = {} => \A i \in DOMAIN r.chain : TimeReasons(r.chain[i], t) = {}
  OBVIOUS
<1> HIDE DEF A, B, C, D
<1>5. A = {} /\ B = {} /\ C = {} /\ D = {}
  BY <1>3
<1> QED BY <1>1, <1>2, <1>4, <1>5 DEF A, B, D

\* What authorize() has against a call can only be fewer when more keys are
\* registered: no check asks that a key be unknown.
LEMMA KeysOnlyHelp ==
  ASSUME NEW known, NEW more, known \subseteq more,
         NEW principal, NEW key, NEW role, NEW signature, NEW untrusted, NEW invalid,
         KeyReasons(Resolve(known, principal, key, role), signature, untrusted, invalid) = {}
  PROVE  KeyReasons(Resolve(more, principal, key, role), signature, untrusted, invalid) = {}
<1>1. Resolve(known, principal, key, role) \subseteq Resolve(more, principal, key, role)
  BY DEF Resolve
<1>2. signature \in Resolve(known, principal, key, role)
  BY DEF KeyReasons, Because
<1> QED BY <1>1, <1>2 DEF KeyReasons, Because

LEMMA ReasonsOnlyShrink ==
  ASSUME NEW known, NEW more, known \subseteq more, NEW r, NEW t, Reasons(known, r, t) = {}
  PROVE  Reasons(more, r, t) = {}
<1>1. r.chain # <<>>
  BY NoReasonInAnyPart
<1>3. ASSUME NEW i \in DOMAIN r.chain
      PROVE  ReceiptReasons(more, r.chain[i]) = {}
  <2>1. ReceiptReasons(known, r.chain[i]) = {}
    BY NoReasonInAnyPart
  <2> QED BY <2>1, KeysOnlyHelp DEF ReceiptReasons
<1>4. UNION {ReceiptReasons(more, r.chain[i]) : i \in DOMAIN r.chain} = {}
  BY <1>3
<1>5. /\ ChainReasons(r.chain) = {} /\ ActionReasons(r.action, r.chain) = {}
      /\ StatusReasons(known, r.status, r.chain, t) = {}
      /\ \A i \in DOMAIN r.chain : TimeReasons(r.chain[i], t) = {}
  BY NoReasonInAnyPart
<1>6. StatusReasons(more, r.status, r.chain, t) = {}
  <2>1. "STATUS_INVALID" \notin r.status.faults
    BY <1>5 DEF StatusReasons
  <2>2. StatementReasons(known, r.status) = {}
    BY <1>5, <2>1 DEF StatusReasons
  <2>3. StatementReasons(more, r.status) = {}
    BY <2>2, KeysOnlyHelp DEF StatementReasons
  <2> QED BY <1>5, <2>1, <2>2, <2>3 DEF StatusReasons
<1>7. UNION {TimeReasons(r.chain[i], t) : i \in DOMAIN r.chain} = {}
  BY <1>5
<1> QED BY <1>1, <1>4, <1>5, <1>6, <1>7 DEF Reasons

\* A call that passes rests on a status that is still fresh.
LEMMA StatusIsFresh ==
  ASSUME NEW known, NEW r \in Requests, NEW t \in Times, Reasons(known, r, t) = {}
  PROVE  r.chain # <<>> /\ t < r.status.fresh /\ r.status.fresh \in Nat
<1>1. r.chain # <<>>
  BY DEF Reasons
<1>2. StatusReasons(known, r.status, r.chain, t) = {}
  BY <1>1 DEF Reasons
<1>3. Because(r.status.fresh <= t, "STATUS_STALE") = {}
  BY <1>2 DEF StatusReasons
<1>4. ~(r.status.fresh <= t)
  BY <1>3 DEF Because
<1>5. r.status.fresh \in Nat
  BY P0EvidenceAssumption DEF Requests
<1> QED BY <1>1, <1>4, <1>5 DEF Times

LEMMA ExpiryBounds ==
  ASSUME NEW r \in Requests, NEW t \in Times, r.chain # <<>>
  PROVE  /\ Expiry(r, t) \in Nat
         /\ Expiry(r, t) <= t + PermitTTL
         /\ \A i \in DOMAIN r.chain : Expiry(r, t) <= r.chain[i].scope.until
<1>1. t + PermitTTL \in Nat
  BY P0ParameterAssumption DEF Times
<1>2. \A i \in DOMAIN r.chain : r.chain[i].scope.until \in Nat
  BY P0EvidenceAssumption DEF Requests
<1> QED BY <1>1, <1>2, ScopesHaveEnd DEF Expiry

LEMMA PresentIsPermit ==
  ASSUME TypeOK, NEW p \in PermitIds
  PROVE  /\ Present(p) <=> permits[p] \in Permit
         /\ ~Present(p) => permits[p] = NoPermit
BY DEF TypeOK, Permit, NoPermit, Present, Lifecycle

-----------------------------------------------------------------------------
(***************************************************************************)
(* Type correctness.                                                       *)
(***************************************************************************)
LEMMA TypeInit == Init => TypeOK
BY P0KeyAssumption DEF Init, TypeOK, Holding, NothingHeld

LEMMA TypeAuthorize ==
  ASSUME TypeOK, NEW r \in Requests, NEW id \in PermitIds, NEW t \in Times, Authorize(r, id, t)
  PROVE  TypeOK'
<1>1. Reserved(r, t) \in Permit
  <2>1. Expiry(r, t) \in Nat
    BY StatusIsFresh, ExpiryBounds DEF Authorize
  <2> QED BY <2>1 DEF Reserved, Permit, Lifecycle
<1>2. permits' \in [PermitIds -> Permit \cup {NoPermit}]
  BY <1>1 DEF Authorize, TypeOK
<1>3. observations' \subseteq Observation
  BY DEF Authorize, TypeOK, Observation
<1> QED BY <1>2, <1>3 DEF Authorize, TypeOK

LEMMA TypeAdapter ==
  ASSUME TypeOK, NEW a \in Adapters,
         \/ \E id \in PermitIds, tool \in Tools, action \in Actions, now \in Times :
              Consume(a, id, tool, action, now)
         \/ Act(a) \/ Crash(a)
         \/ \E outcome \in {"SUCCEEDED", "FAILED"} : Finish(a, outcome)
  PROVE  TypeOK'
<1>0. NothingHeld \notin Holding
  BY DEF NothingHeld, Holding
<1>1. ASSUME NEW id \in PermitIds, NEW tool \in Tools, NEW action \in Actions, NEW now \in Times,
             Consume(a, id, tool, action, now)
      PROVE  TypeOK'
  <2>1. permits' \in [PermitIds -> Permit \cup {NoPermit}]
    BY <1>1, PresentIsPermit DEF Consume, TypeOK, Permit, Lifecycle
  <2>2. [permit |-> id, tool |-> tool, action |-> action, at |-> now] \in Holding
    BY DEF Holding
  <2>3. /\ phase' \in [Adapters -> {"idle", "consumed", "acted"}]
        /\ held' \in [Adapters -> Holding \cup {NothingHeld}]
        /\ \A b \in Adapters : phase'[b] # "idle" <=> held'[b] \in Holding
    BY <1>1, <2>2 DEF Consume, TypeOK
  <2> QED BY <1>1, <2>1, <2>3 DEF Consume, TypeOK
<1>2. CASE Act(a)
  <2>1. held[a].permit \in PermitIds
    BY <1>2 DEF Act, TypeOK, Holding
  <2>2. acts' \in [PermitIds -> Nat]
    BY <1>2, <2>1 DEF Act, TypeOK
  <2> QED BY <1>2, <2>2 DEF Act, TypeOK
<1>3. CASE Crash(a)
  BY <1>0, <1>3 DEF Crash, TypeOK
<1>4. ASSUME NEW outcome \in {"SUCCEEDED", "FAILED"}, Finish(a, outcome)
      PROVE  TypeOK'
  <2>1. held[a].permit \in PermitIds
    BY <1>4 DEF Finish, TypeOK, Holding
  <2>2. permits' \in [PermitIds -> Permit \cup {NoPermit}]
    <3>1. CASE /\ permits[held[a].permit].state = "ATTEMPTED"
               /\ permits' = [permits EXCEPT ![held[a].permit].state = outcome]
      BY <2>1, <3>1, PresentIsPermit DEF Present, TypeOK, Permit, Lifecycle
    <3>2. CASE UNCHANGED permits
      BY <3>2 DEF TypeOK
    <3> QED BY <1>4, <3>1, <3>2 DEF Finish
  <2> QED BY <1>0, <1>4, <2>2 DEF Finish, TypeOK
<1> QED BY <1>1, <1>2, <1>3, <1>4

LEMMA TypeNext == TypeOK /\ [Next]_vars => TypeOK'
<1> SUFFICES ASSUME TypeOK, [Next]_vars PROVE TypeOK'
  OBVIOUS
<1>1. ASSUME NEW k \in Keys, AddKey(k) PROVE TypeOK'
  BY <1>1 DEF AddKey, TypeOK
<1>2. ASSUME NEW c \in Presentable, NEW id \in PermitIds, Authorize(c[1], id, c[2])
      PROVE  TypeOK'
  BY <1>2, TypeAuthorize DEF Presentable
<1>3. CASE UNCHANGED vars
  BY <1>3 DEF vars, TypeOK
<1> QED BY <1>1, <1>2, <1>3, TypeAdapter DEF Next

\* Registry, tables and what the adapters hold keep their shape; in particular
\* every permit ends at a time, however the scopes of its chain lie.
THEOREM TypeCorrect == Spec => []TypeOK
BY TypeInit, TypeNext, PTL DEF Spec

-----------------------------------------------------------------------------
(***************************************************************************)
(* Permits stay justified.                                                 *)
(***************************************************************************)
\* What a step does to the rows: a new one is reserved for a call that passes
\* now, the others keep their call and their times.
RowsKept ==
  \A p \in PermitIds : Present(p)' =>
    /\ Present(p)
    /\ permits'[p].request = permits[p].request
    /\ permits'[p].issued = permits[p].issued
    /\ permits'[p].expires = permits[p].expires

LEMMA AdapterKeepsRows ==
  ASSUME TypeOK, NEW a \in Adapters,
         \/ \E id \in PermitIds, tool \in Tools, action \in Actions, now \in Times :
              Consume(a, id, tool, action, now)
         \/ Act(a) \/ Crash(a)
         \/ \E outcome \in {"SUCCEEDED", "FAILED"} : Finish(a, outcome)
  PROVE  RowsKept /\ registry' = registry /\ observations' = observations
             /\ \A p \in PermitIds : Present(p) => Present(p)'
<1>0. permits \in [PermitIds -> Permit \cup {NoPermit}]
  BY DEF TypeOK
<1>1. ASSUME NEW id \in PermitIds, NEW state \in Lifecycle, Present(id),
             permits' = [permits EXCEPT ![id].state = state]
      PROVE  RowsKept /\ \A p \in PermitIds : Present(p) => Present(p)'
  <2>1. permits[id] \in Permit
    BY <1>1, PresentIsPermit
  <2>2. /\ permits'[id] = [permits[id] EXCEPT !.state = state]
        /\ \A p \in PermitIds \ {id} : permits'[p] = permits[p]
    BY <1>0, <1>1
  <2>3. permits'[id].state = state /\ state # "ABSENT"
    BY <2>1, <2>2 DEF Permit, Lifecycle
  <2>4. /\ permits'[id].request = permits[id].request
        /\ permits'[id].issued = permits[id].issued
        /\ permits'[id].expires = permits[id].expires
    BY <2>1, <2>2 DEF Permit
  <2>5. \A p \in PermitIds \ {id} : Present(p)' <=> Present(p)
    BY <2>2 DEF Present
  <2>6. Present(id)'
    BY <2>3 DEF Present
  <2> QED BY <1>1, <2>2, <2>4, <2>5, <2>6 DEF RowsKept
<1>2. ASSUME permits' = permits
      PROVE  RowsKept /\ \A p \in PermitIds : Present(p) => Present(p)'
  BY <1>2 DEF RowsKept, Present
<1>3. ASSUME NEW id \in PermitIds, NEW tool \in Tools, NEW action \in Actions, NEW now \in Times,
             Consume(a, id, tool, action, now)
      PROVE  RowsKept /\ \A p \in PermitIds : Present(p) => Present(p)'
  BY <1>1, <1>3 DEF Consume, Lifecycle
<1>4. ASSUME NEW outcome \in {"SUCCEEDED", "FAILED"}, Finish(a, outcome)
      PROVE  RowsKept /\ \A p \in PermitIds : Present(p) => Present(p)'
  <2>1. held[a].permit \in PermitIds
    BY <1>4 DEF Finish, TypeOK, Holding
  <2> QED BY <1>1, <1>2, <1>4, <2>1 DEF Finish, Present, Lifecycle
<1>5. RowsKept /\ \A p \in PermitIds : Present(p) => Present(p)'
  BY <1>2, <1>3, <1>4 DEF Act, Crash
<1>6. registry' = registry /\ observations' = observations
  BY DEF Consume, Act, Crash, Finish
<1> QED BY <1>5, <1>6

LEMMA AuthorizeKeepsRows ==
  ASSUME TypeOK, NEW r, NEW id \in PermitIds, NEW t, Authorize(r, id, t)
  PROVE  /\ ~Present(id) /\ permits'[id] = Reserved(r, t) /\ Present(id)'
         /\ \A p \in PermitIds \ {id} : permits'[p] = permits[p] /\ (Present(p)' <=> Present(p))
BY DEF TypeOK, Authorize, Duplicate, Present, Reserved

LEMMA JustifiedNext == TypeOK /\ PermitsStayJustified /\ [Next]_vars => PermitsStayJustified'
<1> SUFFICES ASSUME TypeOK, PermitsStayJustified, [Next]_vars,
                    NEW p \in PermitIds, Present(p)'
             PROVE  Reasons(registry', permits'[p].request, permits'[p].issued) = {}
  BY DEF PermitsStayJustified
<1>1. CASE RowsKept /\ registry \subseteq registry'
  BY <1>1, ReasonsOnlyShrink DEF RowsKept, PermitsStayJustified
<1>2. ASSUME NEW k \in Keys, AddKey(k)
      PROVE  RowsKept /\ registry \subseteq registry'
  BY <1>2 DEF AddKey, RowsKept, Present
<1>3. ASSUME NEW c \in Presentable, NEW id \in PermitIds, Authorize(c[1], id, c[2])
      PROVE  Reasons(registry', permits'[p].request, permits'[p].issued) = {}
  <2>1. registry' = registry /\ Reasons(registry, c[1], c[2]) = {}
    BY <1>3 DEF Authorize
  <2>2. CASE p = id
    <3>1. permits'[id] = Reserved(c[1], c[2])
      BY <1>3, AuthorizeKeepsRows
    <3> QED BY <2>1, <2>2, <3>1 DEF Reserved
  <2>3. CASE p # id
    BY <1>3, <2>1, <2>3, AuthorizeKeepsRows DEF PermitsStayJustified
  <2> QED BY <2>2, <2>3
<1>4. CASE UNCHANGED vars
  BY <1>1, <1>4 DEF vars, RowsKept, Present
<1> QED BY <1>1, <1>2, <1>3, <1>4, AdapterKeepsRows DEF Next

\* A permit is as good under the keys that are registered now as it was under
\* those of the time it was issued.
THEOREM Justified == Spec => []PermitsStayJustified
<1>1. Init => PermitsStayJustified
  BY DEF Init, PermitsStayJustified, Present, NoPermit
<1> QED BY <1>1, JustifiedNext, TypeCorrect, PTL DEF Spec

-----------------------------------------------------------------------------
(***************************************************************************)
(* One receipt to a key.                                                   *)
(***************************************************************************)
LEMMA BindingsNext ==
  TypeOK /\ BindingsAreThoseOfPermits /\ [Next]_vars => BindingsAreThoseOfPermits'
<1> SUFFICES ASSUME TypeOK, BindingsAreThoseOfPermits, [Next]_vars
             PROVE  BindingsAreThoseOfPermits'
  OBVIOUS
<1>1. CASE /\ RowsKept /\ observations' = observations
           /\ \A p \in PermitIds : Present(p) => Present(p)'
  <2>1. {q \in PermitIds : Present(q)'} = {q \in PermitIds : Present(q)}
    BY <1>1 DEF RowsKept
  <2>2. \A p \in {q \in PermitIds : Present(q)} : permits'[p].request = permits[p].request
    BY <1>1 DEF RowsKept
  <2>3. {Observations(permits'[p].request) : p \in {q \in PermitIds : Present(q)'}}
          = {Observations(permits[p].request) : p \in {q \in PermitIds : Present(q)}}
    BY <2>1, <2>2
  <2> QED BY <1>1, <2>3 DEF BindingsAreThoseOfPermits
<1>2. ASSUME NEW k \in Keys, AddKey(k)
      PROVE  BindingsAreThoseOfPermits'
  BY <1>1, <1>2 DEF AddKey, RowsKept, Present
<1>3. ASSUME NEW c \in Presentable, NEW id \in PermitIds, Authorize(c[1], id, c[2])
      PROVE  BindingsAreThoseOfPermits'
  <2> DEFINE r == c[1]
             O == {Observations(permits[p].request) : p \in {q \in PermitIds : Present(q)}}
             P == {Observations(permits'[p].request) : p \in {q \in PermitIds : Present(q)'}}
  <2>1. observations' = observations \cup Observations(r) /\ ~Conflicts(r)
    BY <1>3 DEF Authorize
  <2>2. {q \in PermitIds : Present(q)'} = {q \in PermitIds : Present(q)} \cup {id}
    BY <1>3, AuthorizeKeepsRows
  <2>3. permits'[id].request = r
    <3>1. permits'[id] = Reserved(c[1], c[2])
      BY <1>3, AuthorizeKeepsRows
    <3> QED BY <3>1 DEF Reserved
  <2>4. \A p \in {q \in PermitIds : Present(q)} : permits'[p].request = permits[p].request
    BY <1>3, AuthorizeKeepsRows
  <2>5. P = O \cup {Observations(r)}
    BY <2>2, <2>3, <2>4
  <2>6. observations' = UNION P
    BY <2>1, <2>5 DEF BindingsAreThoseOfPermits
  <2>7. \A o, s \in observations' : o.key = s.key => o.receipt = s.receipt
    BY <2>1 DEF Conflicts, BindingsAreThoseOfPermits
  <2> QED BY <2>6, <2>7 DEF BindingsAreThoseOfPermits
<1>4. CASE UNCHANGED vars
  BY <1>1, <1>4 DEF vars, RowsKept, Present
<1> QED BY <1>1, <1>2, <1>3, <1>4, AdapterKeepsRows DEF Next

\* No two permits rest on conflicting chains, and nothing else is bound.
THEOREM BindingsAgree == Spec => []BindingsAreThoseOfPermits
<1>1. Init => BindingsAreThoseOfPermits
  BY DEF Init, BindingsAreThoseOfPermits, Present, NoPermit
<1> QED BY <1>1, BindingsNext, TypeCorrect, PTL DEF Spec

-----------------------------------------------------------------------------
(***************************************************************************)
(* Acting is covered.  The property speaks of the adapters; that it lasts  *)
(* rests on how permits were cut short when they were issued, and on no    *)
(* two adapters having the same permit in hand.                            *)
(***************************************************************************)
EndsInTime ==
  \A p \in PermitIds : Present(p) =>
    /\ permits[p].expires <= permits[p].issued + PermitTTL
    /\ permits[p].issued < permits[p].request.status.fresh
    /\ \A i \in DOMAIN permits[p].request.chain :
         permits[p].expires <= permits[p].request.chain[i].scope.until

OneHolder ==
  \A a \in Adapters : phase[a] # "idle" =>
    /\ permits[held[a].permit].state = "ATTEMPTED"
    /\ permits[held[a].permit].request.tool = held[a].tool
    /\ permits[held[a].permit].request.action = held[a].action
    /\ held[a].at < permits[held[a].permit].expires
    /\ \A b \in Adapters \ {a} : phase[b] # "idle" => held[b].permit # held[a].permit

LEMMA EndsNext == TypeOK /\ EndsInTime /\ [Next]_vars => EndsInTime'
<1> SUFFICES ASSUME TypeOK, EndsInTime, [Next]_vars PROVE EndsInTime'
  OBVIOUS
<1>1. ASSUME RowsKept PROVE EndsInTime'
  BY <1>1 DEF EndsInTime, RowsKept
<1>2. ASSUME NEW c \in Presentable, NEW id \in PermitIds, Authorize(c[1], id, c[2])
      PROVE  EndsInTime'
  <2> DEFINE r == c[1]
             t == c[2]
  <2>1. r \in Requests /\ t \in Times /\ Reasons(registry, r, t) = {}
    BY <1>2 DEF Presentable, Authorize
  <2>2. permits'[id] = Reserved(r, t)
    BY <1>2, AuthorizeKeepsRows
  <2>3. r.chain # <<>> /\ t < r.status.fresh
    BY <2>1, StatusIsFresh
  <2>4. /\ Expiry(r, t) <= t + PermitTTL
        /\ \A i \in DOMAIN r.chain : Expiry(r, t) <= r.chain[i].scope.until
    BY <2>1, <2>3, ExpiryBounds
  <2>5. /\ permits'[id].expires = Expiry(r, t) /\ permits'[id].issued = t
        /\ permits'[id].request = r
    BY <2>2 DEF Reserved
  <2>6. \A p \in PermitIds \ {id} : permits'[p] = permits[p] /\ (Present(p)' <=> Present(p))
    BY <1>2, AuthorizeKeepsRows
  <2> QED BY <2>3, <2>4, <2>5, <2>6 DEF EndsInTime
<1>3. ASSUME NEW k \in Keys, AddKey(k) PROVE EndsInTime'
  BY <1>1, <1>3 DEF AddKey, RowsKept, Present
<1>4. CASE UNCHANGED vars
  BY <1>1, <1>4 DEF vars, RowsKept, Present
<1> QED BY <1>1, <1>2, <1>3, <1>4, AdapterKeepsRows DEF Next

LEMMA HolderNext == TypeOK /\ OneHolder /\ [Next]_vars => OneHolder'
<1> SUFFICES ASSUME TypeOK, OneHolder, [Next]_vars PROVE OneHolder'
  OBVIOUS
<1>0. /\ permits \in [PermitIds -> Permit \cup {NoPermit}]
      /\ phase \in [Adapters -> {"idle", "consumed", "acted"}]
      /\ held \in [Adapters -> Holding \cup {NothingHeld}]
      /\ \A a \in Adapters : phase[a] # "idle" => held[a].permit \in PermitIds
  BY DEF TypeOK, Holding
<1>1. CASE UNCHANGED <<permits, phase, held>>
  BY <1>1 DEF OneHolder
<1>2. ASSUME NEW c \in Presentable, NEW id \in PermitIds, Authorize(c[1], id, c[2])
      PROVE  OneHolder'
  <2>1. \A p \in PermitIds \ {id} : permits'[p] = permits[p]
    BY <1>2, AuthorizeKeepsRows
  <2>2. ASSUME NEW a \in Adapters, phase[a] # "idle" PROVE held[a].permit # id
    BY <1>2, <2>2, AuthorizeKeepsRows DEF OneHolder, Present
  <2>3. phase' = phase /\ held' = held
    BY <1>2 DEF Authorize
  <2> QED BY <1>0, <2>1, <2>2, <2>3 DEF OneHolder
<1>3. ASSUME NEW a \in Adapters, NEW id \in PermitIds, NEW tool \in Tools,
             NEW action \in Actions, NEW now \in Times, Consume(a, id, tool, action, now)
      PROVE  OneHolder'
  <2>1. permits[id] \in Permit
    BY <1>3, PresentIsPermit DEF Consume
  <2>2. /\ permits'[id] = [permits[id] EXCEPT !.state = "ATTEMPTED"]
        /\ \A p \in PermitIds \ {id} : permits'[p] = permits[p]
    BY <1>0, <1>3 DEF Consume
  <2>3. /\ permits'[id].state = "ATTEMPTED" /\ permits'[id].request = permits[id].request
        /\ permits'[id].expires = permits[id].expires
    BY <2>1, <2>2 DEF Permit
  <2>4. /\ held'[a] = [permit |-> id, tool |-> tool, action |-> action, at |-> now]
        /\ phase'[a] = "consumed"
        /\ \A b \in Adapters \ {a} : held'[b] = held[b] /\ phase'[b] = phase[b]
    BY <1>0, <1>3 DEF Consume
  <2>5. \A b \in Adapters : phase[b] # "idle" => held[b].permit # id
    BY <1>3 DEF Consume, OneHolder
  <2>6. /\ permits[id].request.tool = tool /\ permits[id].request.action = action
        /\ now < permits[id].expires
    BY <1>3 DEF Consume
  <2>7. ASSUME NEW b \in Adapters, phase'[b] # "idle"
        PROVE  /\ permits'[held'[b].permit].state = "ATTEMPTED"
               /\ permits'[held'[b].permit].request.tool = held'[b].tool
               /\ permits'[held'[b].permit].request.action = held'[b].action
               /\ held'[b].at < permits'[held'[b].permit].expires
    <3>1. CASE b = a
      BY <2>3, <2>4, <2>6, <3>1
    <3>2. CASE b # a
      BY <1>0, <2>2, <2>4, <2>5, <2>7, <3>2 DEF OneHolder
    <3> QED BY <3>1, <3>2
  <2>8. ASSUME NEW b \in Adapters, NEW e \in Adapters \ {b}, phase'[b] # "idle", phase'[e] # "idle"
        PROVE  held'[e].permit # held'[b].permit
    <3>1. CASE b = a \/ e = a
      BY <2>4, <2>5, <2>8, <3>1
    <3>2. CASE b # a /\ e # a
      BY <2>4, <2>8, <3>2 DEF OneHolder
    <3> QED BY <3>1, <3>2
  <2> QED BY <2>7, <2>8 DEF OneHolder
<1>4. ASSUME NEW a \in Adapters, Act(a) PROVE OneHolder'
  BY <1>0, <1>4 DEF Act, OneHolder
<1>5. ASSUME NEW a \in Adapters, Crash(a) PROVE OneHolder'
  BY <1>0, <1>5 DEF Crash, OneHolder
<1>6. ASSUME NEW a \in Adapters, NEW outcome \in {"SUCCEEDED", "FAILED"}, Finish(a, outcome)
      PROVE  OneHolder'
  <2>1. /\ \A b \in Adapters \ {a} : held'[b] = held[b] /\ phase'[b] = phase[b]
        /\ phase'[a] = "idle"
    BY <1>0, <1>6 DEF Finish
  <2>2. \A p \in PermitIds : p # held[a].permit => permits'[p] = permits[p]
    BY <1>0, <1>6 DEF Finish
  <2>3. \A b \in Adapters \ {a} : phase[b] # "idle" => held[b].permit # held[a].permit
    BY <1>6 DEF Finish, OneHolder
  <2> QED BY <1>0, <2>1, <2>2, <2>3 DEF OneHolder
<1>7. CASE UNCHANGED vars
  BY <1>1, <1>7 DEF vars
<1>8. ASSUME NEW k \in Keys, AddKey(k) PROVE OneHolder'
  BY <1>1, <1>8 DEF AddKey
<1> QED BY <1>2, <1>3, <1>4, <1>5, <1>6, <1>7, <1>8 DEF Next

\* Whoever acts has an attempt on record for the very action, from before the
\* scopes ended and less than a time to live after the status was fresh.
THEOREM ActingCovered == Spec => []ActingIsCovered
<1>1. Init => EndsInTime /\ OneHolder
  BY DEF Init, EndsInTime, OneHolder, Present, NoPermit
<1>2. ASSUME TypeOK, EndsInTime, OneHolder
      PROVE  ActingIsCovered
  <2> SUFFICES ASSUME NEW a \in Adapters, phase[a] # "idle"
               PROVE  LET row == permits[held[a].permit]
                      IN  /\ row.state = "ATTEMPTED"
                          /\ row.request.tool = held[a].tool /\ row.request.action = held[a].action
                          /\ \A i \in DOMAIN row.request.chain :
                               held[a].at < row.request.chain[i].scope.until
                          /\ held[a].at + 1 < row.request.status.fresh + PermitTTL
    BY DEF ActingIsCovered
  <2> DEFINE row == permits[held[a].permit]
  <2>1. held[a].permit \in PermitIds /\ held[a].at \in Nat
    BY <1>2 DEF TypeOK, Holding, Times
  <2>2. row.state = "ATTEMPTED" /\ held[a].at < row.expires
    BY <1>2 DEF OneHolder
  <2>3. row \in Permit /\ Present(held[a].permit)
    BY <1>2, <2>1, <2>2, PresentIsPermit DEF Present
  <2>4. /\ row.issued \in Nat /\ row.expires \in Nat /\ row.request.status.fresh \in Nat
        /\ \A i \in DOMAIN row.request.chain : row.request.chain[i].scope.until \in Nat
    <3>1. /\ row.issued \in Nat /\ row.expires \in Nat /\ row.request.status \in Statuses
          /\ \A i \in DOMAIN row.request.chain : row.request.chain[i] \in Receipts
      BY <2>3 DEF Permit, Times, Requests
    <3> QED BY <3>1, P0EvidenceAssumption
  <2>5. /\ row.expires <= row.issued + PermitTTL /\ row.issued < row.request.status.fresh
        /\ \A i \in DOMAIN row.request.chain : row.expires <= row.request.chain[i].scope.until
    BY <1>2, <2>1, <2>3 DEF EndsInTime
  <2>6. held[a].at + 1 < row.request.status.fresh + PermitTTL
    BY <2>1, <2>2, <2>4, <2>5, P0ParameterAssumption
  <2>7. \A i \in DOMAIN row.request.chain : held[a].at < row.request.chain[i].scope.until
    BY <2>1, <2>2, <2>4, <2>5
  <2>8. row.request.tool = held[a].tool /\ row.request.action = held[a].action
    BY <1>2 DEF OneHolder
  <2> QED BY <2>2, <2>6, <2>7, <2>8
<1> QED BY <1>1, <1>2, EndsNext, HolderNext, TypeCorrect, PTL DEF Spec

-----------------------------------------------------------------------------
(***************************************************************************)
(* The store implements the ledger.  On top of OneHolder: no two permits   *)
(* have a replay key in common, and how often a permit has been acted on   *)
(* follows from where it and its holder are.                               *)
(***************************************************************************)
KeyOf(p) == ReplayKey(permits[p].request)

KeysDiffer ==
  \A p, q \in PermitIds : p # q /\ Present(p) /\ Present(q) => KeyOf(p) # KeyOf(q)

ActsCounted ==
  /\ \A a \in Adapters : phase[a] # "idle" =>
       acts[held[a].permit] = IF phase[a] = "acted" THEN 1 ELSE 0
  /\ \A p \in PermitIds :
       /\ permits[p].state \in {"ABSENT", "RESERVED"} => acts[p] = 0
       /\ permits[p].state = "ATTEMPTED" => acts[p] \in {0, 1}
       /\ permits[p].state \in {"SUCCEEDED", "FAILED"} => acts[p] = 1

LEMMA KeysDifferNext == TypeOK /\ KeysDiffer /\ [Next]_vars => KeysDiffer'
<1> SUFFICES ASSUME TypeOK, KeysDiffer, [Next]_vars PROVE KeysDiffer'
  OBVIOUS
<1>1. CASE RowsKept
  BY <1>1 DEF KeysDiffer, RowsKept, KeyOf
<1>2. ASSUME NEW c \in Presentable, NEW id \in PermitIds, Authorize(c[1], id, c[2])
      PROVE  KeysDiffer'
  <2>1. \A p \in PermitIds : Present(p) => KeyOf(p) # ReplayKey(c[1])
    BY <1>2 DEF Authorize, Duplicate, KeyOf
  <2>2. KeyOf(id)' = ReplayKey(c[1])
    <3>1. permits'[id] = Reserved(c[1], c[2])
      BY <1>2, AuthorizeKeepsRows
    <3> QED BY <3>1 DEF KeyOf, Reserved
  <2>3. \A p \in PermitIds \ {id} : (Present(p)' <=> Present(p)) /\ KeyOf(p)' = KeyOf(p)
    BY <1>2, AuthorizeKeepsRows DEF KeyOf
  <2> QED BY <2>1, <2>2, <2>3 DEF KeysDiffer
<1>3. ASSUME NEW k \in Keys, AddKey(k) PROVE RowsKept
  BY <1>3 DEF AddKey, RowsKept, Present
<1>4. CASE UNCHANGED vars
  BY <1>1, <1>4 DEF vars, RowsKept, Present
<1> QED BY <1>1, <1>2, <1>3, <1>4, AdapterKeepsRows DEF Next

LEMMA ActsNext == TypeOK /\ OneHolder /\ ActsCounted /\ [Next]_vars => ActsCounted'
<1> SUFFICES ASSUME TypeOK, OneHolder, ActsCounted, [Next]_vars PROVE ActsCounted'
  OBVIOUS
<1>0. /\ permits \in [PermitIds -> Permit \cup {NoPermit}]
      /\ phase \in [Adapters -> {"idle", "consumed", "acted"}]
      /\ held \in [Adapters -> Holding \cup {NothingHeld}]
      /\ acts \in [PermitIds -> Nat]
      /\ \A a \in Adapters : phase[a] # "idle" => held[a].permit \in PermitIds
  BY DEF TypeOK, Holding
<1>1. CASE UNCHANGED <<permits, phase, held, acts>>
  BY <1>1 DEF ActsCounted
<1>2. ASSUME NEW c \in Presentable, NEW id \in PermitIds, Authorize(c[1], id, c[2])
      PROVE  ActsCounted'
  <2>1. /\ ~Present(id) /\ permits'[id].state = "RESERVED"
        /\ \A p \in PermitIds \ {id} : permits'[p] = permits[p]
    <3>1. permits'[id] = Reserved(c[1], c[2])
      BY <1>2, AuthorizeKeepsRows
    <3> QED BY <1>2, <3>1, AuthorizeKeepsRows DEF Reserved
  <2>2. phase' = phase /\ held' = held /\ acts' = acts
    BY <1>2 DEF Authorize
  <2> QED BY <2>1, <2>2 DEF ActsCounted, Present
<1>3. ASSUME NEW a \in Adapters, NEW id \in PermitIds, NEW tool \in Tools,
             NEW action \in Actions, NEW now \in Times, Consume(a, id, tool, action, now)
      PROVE  ActsCounted'
  <2>1. permits[id].state = "RESERVED" /\ permits[id] \in Permit /\ acts[id] = 0 /\ acts' = acts
    BY <1>3, PresentIsPermit DEF Consume, ActsCounted
  <2>2. /\ permits'[id].state = "ATTEMPTED"
        /\ \A p \in PermitIds \ {id} : permits'[p] = permits[p]
    BY <1>0, <1>3, <2>1 DEF Consume, Permit
  <2>3. /\ held'[a].permit = id /\ phase'[a] = "consumed"
        /\ \A b \in Adapters \ {a} : held'[b] = held[b] /\ phase'[b] = phase[b]
    BY <1>0, <1>3 DEF Consume
  <2> QED BY <2>1, <2>2, <2>3 DEF ActsCounted
<1>4. ASSUME NEW a \in Adapters, Act(a) PROVE ActsCounted'
  <2>1. PICK id \in PermitIds : id = held[a].permit
    BY <1>0, <1>4 DEF Act
  <2>2. permits[id].state = "ATTEMPTED" /\ acts[id] = 0
    BY <1>4, <2>1 DEF Act, ActsCounted, OneHolder
  <2>3. /\ permits' = permits /\ held' = held /\ acts'[id] = 1
        /\ \A p \in PermitIds \ {id} : acts'[p] = acts[p]
    BY <1>0, <1>4, <2>1, <2>2 DEF Act
  <2>4. phase'[a] = "acted" /\ \A b \in Adapters \ {a} : phase'[b] = phase[b]
    BY <1>0, <1>4 DEF Act
  <2>5. \A b \in Adapters \ {a} : phase[b] # "idle" =>
          held[b].permit \in PermitIds \ {id}
    BY <1>0, <1>4, <2>1 DEF Act, OneHolder
  <2> QED BY <2>1, <2>2, <2>3, <2>4, <2>5 DEF ActsCounted
<1>5. ASSUME NEW a \in Adapters, Crash(a) PROVE ActsCounted'
  BY <1>0, <1>5 DEF Crash, ActsCounted
<1>6. ASSUME NEW a \in Adapters, NEW outcome \in {"SUCCEEDED", "FAILED"}, Finish(a, outcome)
      PROVE  ActsCounted'
  <2>1. PICK id \in PermitIds : id = held[a].permit
    BY <1>0, <1>6 DEF Finish
  <2>2. permits[id].state = "ATTEMPTED" /\ acts[id] = 1 /\ acts' = acts
    BY <1>6, <2>1 DEF Finish, ActsCounted, OneHolder
  <2>3. permits[id] \in Permit
    BY <2>2, PresentIsPermit DEF Present
  <2>4. /\ permits'[id].state \in {"ATTEMPTED", outcome}
        /\ \A p \in PermitIds \ {id} : permits'[p] = permits[p]
    BY <1>0, <1>6, <2>1, <2>2, <2>3 DEF Finish, Permit
  <2>5. /\ phase'[a] = "idle"
        /\ \A b \in Adapters \ {a} : held'[b] = held[b] /\ phase'[b] = phase[b]
    BY <1>0, <1>6 DEF Finish
  <2> QED BY <2>2, <2>4, <2>5 DEF ActsCounted
<1>7. CASE UNCHANGED vars
  BY <1>1, <1>7 DEF vars
<1>8. ASSUME NEW k \in Keys, AddKey(k) PROVE ActsCounted'
  BY <1>1, <1>8 DEF AddKey
<1> QED BY <1>2, <1>3, <1>4, <1>5, <1>6, <1>7, <1>8 DEF Next

\* What the refinement mapping makes of a key.
EntriesAreRows ==
  /\ \A p \in PermitIds : Present(p) =>
       /\ KeyOf(p) \in ReplayKeys
       /\ LedgerEntry[KeyOf(p)] = permits[p].state
       /\ LedgerPerformed[KeyOf(p)] <=> acts[p] > 0
  /\ \A k \in ReplayKeys : (\A p \in PermitIds : Present(p) => KeyOf(p) # k) =>
       LedgerEntry[k] = "FREE" /\ ~LedgerPerformed[k]

\* A call that passes has a replay key, because its chain has a root.
LEMMA CallHasKey ==
  ASSUME NEW known, NEW r \in Requests, NEW t \in Times, Reasons(known, r, t) = {}
  PROVE  ReplayKey(r) \in ReplayKeys
<1>1. PICK n \in 0 .. 3 : r.chain \in [1 .. n -> Receipts]
  BY DEF Requests
<1>2. n # 0
  BY <1>1, StatusIsFresh
<1>3. r.chain[1] \in Receipts
  BY <1>1, <1>2
<1>4. r.tool \in Tools /\ r.action \in Actions
  BY DEF Requests
<1> QED BY <1>3, <1>4 DEF ReplayKey, ReplayKeys

LEMMA EntryOfRow == TypeOK /\ KeysDiffer /\ PermitsStayJustified => EntriesAreRows
<1> SUFFICES ASSUME TypeOK, KeysDiffer, PermitsStayJustified PROVE EntriesAreRows
  OBVIOUS
<1>1. ASSUME NEW p \in PermitIds, Present(p)
      PROVE  /\ KeyOf(p) \in ReplayKeys
             /\ LedgerEntry[KeyOf(p)] = permits[p].state
             /\ LedgerPerformed[KeyOf(p)] <=> acts[p] > 0
  <2>1. KeyOf(p) \in ReplayKeys
    BY <1>1, PresentIsPermit, CallHasKey DEF KeyOf, Permit, PermitsStayJustified
  <2>2. PermitsFor(KeyOf(p)) = {p}
    BY <1>1 DEF PermitsFor, KeyOf, KeysDiffer
  <2>3. (CHOOSE q \in PermitsFor(KeyOf(p)) : TRUE) = p
    BY <2>2
  <2>4. LedgerEntry[KeyOf(p)] = permits[p].state
    BY <2>1, <2>2, <2>3 DEF LedgerEntry
  <2>5. LedgerPerformed[KeyOf(p)] <=> \E q \in PermitsFor(KeyOf(p)) : acts[q] > 0
    BY <2>1 DEF LedgerPerformed
  <2> QED BY <2>1, <2>2, <2>4, <2>5
<1>2. ASSUME NEW k \in ReplayKeys, \A p \in PermitIds : Present(p) => KeyOf(p) # k
      PROVE  LedgerEntry[k] = "FREE" /\ ~LedgerPerformed[k]
  <2>1. PermitsFor(k) = {}
    BY <1>2 DEF PermitsFor, KeyOf
  <2> QED BY <2>1 DEF LedgerEntry, LedgerPerformed
<1> QED BY <1>1, <1>2 DEF EntriesAreRows

LEMMA EntryOfRowNext ==
  TypeOK' /\ KeysDiffer' /\ PermitsStayJustified' => EntriesAreRows'
BY EntryOfRow, PTL

\* A step on the row of one permit is a step on the entry of its key.
LEMMA EntryMoves ==
  ASSUME EntriesAreRows, EntriesAreRows',
         NEW id \in PermitIds, NEW k \in ReplayKeys,
         Present(id)', KeyOf(id)' = k, Present(id) => KeyOf(id) = k,
         \A p \in PermitIds : p # id =>
            permits'[p] = permits[p] /\ acts'[p] = acts[p] /\ (Present(p) => KeyOf(p) # k)
  PROVE  /\ LedgerEntry' = [LedgerEntry EXCEPT ![k] = permits'[id].state]
         /\ (LedgerPerformed[k] <=> acts'[id] > 0) => LedgerPerformed' = LedgerPerformed
         /\ acts'[id] > 0 => LedgerPerformed' = [LedgerPerformed EXCEPT ![k] = TRUE]
<1>1. LedgerEntry'[k] = permits'[id].state /\ (LedgerPerformed'[k] <=> acts'[id] > 0)
  BY DEF EntriesAreRows
<1>2. ASSUME NEW j \in ReplayKeys, j # k
      PROVE  LedgerEntry'[j] = LedgerEntry[j] /\ (LedgerPerformed'[j] <=> LedgerPerformed[j])
  <2>1. CASE \A p \in PermitIds : Present(p) => KeyOf(p) # j
    <3>1. \A p \in PermitIds : Present(p)' => KeyOf(p)' # j
      BY <1>2, <2>1 DEF KeyOf, Present
    <3> QED BY <2>1, <3>1 DEF EntriesAreRows
  <2>2. ASSUME NEW p \in PermitIds, Present(p), KeyOf(p) = j
        PROVE  LedgerEntry'[j] = LedgerEntry[j] /\ (LedgerPerformed'[j] <=> LedgerPerformed[j])
    <3>1. p # id /\ permits'[p] = permits[p] /\ acts'[p] = acts[p]
      BY <1>2, <2>2
    <3>2. Present(p)' /\ KeyOf(p)' = j
      BY <2>2, <3>1 DEF Present, KeyOf
    <3> QED BY <2>2, <3>1, <3>2 DEF EntriesAreRows
  <2> QED BY <2>1, <2>2
<1>3. LedgerEntry' = [LedgerEntry EXCEPT ![k] = permits'[id].state]
  <2>1. /\ LedgerEntry = [j \in ReplayKeys |-> LedgerEntry[j]]
        /\ LedgerEntry' = [j \in ReplayKeys |-> LedgerEntry'[j]]
    BY DEF LedgerEntry
  <2> QED BY <1>1, <1>2, <2>1
<1>4. LedgerPerformed \in [ReplayKeys -> BOOLEAN] /\ LedgerPerformed' \in [ReplayKeys -> BOOLEAN]
  BY DEF LedgerPerformed
<1>5. ASSUME LedgerPerformed[k] <=> acts'[id] > 0 PROVE LedgerPerformed' = LedgerPerformed
  <2>1. \A j \in ReplayKeys : LedgerPerformed'[j] = LedgerPerformed[j]
    BY <1>1, <1>2, <1>4, <1>5
  <2> QED BY <1>4, <2>1
<1>6. ASSUME acts'[id] > 0 PROVE LedgerPerformed' = [LedgerPerformed EXCEPT ![k] = TRUE]
  <2>1. \A j \in ReplayKeys : LedgerPerformed'[j] = [LedgerPerformed EXCEPT ![k] = TRUE][j]
    <3> TAKE j \in ReplayKeys
    <3>1. CASE j = k
      <4>1. LedgerPerformed'[k] = TRUE
        BY <1>1, <1>4, <1>6
      <4> QED BY <1>4, <3>1, <4>1
    <3>2. CASE j # k
      <4>1. LedgerPerformed'[j] = LedgerPerformed[j]
        BY <1>2, <1>4, <3>2
      <4> QED BY <1>4, <3>2, <4>1
    <3> QED BY <3>1, <3>2
  <2>2. [LedgerPerformed EXCEPT ![k] = TRUE] \in [ReplayKeys -> BOOLEAN]
    BY <1>4
  <2> QED BY <1>4, <2>1, <2>2
<1> QED BY <1>3, <1>5, <1>6

LEMMA LedgerInit == Init => Ledger!Init
<1> SUFFICES ASSUME Init PROVE Ledger!Init
  OBVIOUS
<1>1. \A k \in ReplayKeys : PermitsFor(k) = {}
  BY DEF Init, PermitsFor, Present, NoPermit
<1>2. LedgerEntry = [k \in ReplayKeys |-> "FREE"]
  BY <1>1 DEF LedgerEntry
<1>3. LedgerPerformed = [k \in ReplayKeys |-> FALSE]
  BY <1>1 DEF LedgerPerformed
<1> QED BY <1>2, <1>3 DEF Ledger!Init

LEMMA LedgerNext ==
  TypeOK /\ OneHolder /\ KeysDiffer /\ ActsCounted /\ PermitsStayJustified /\ [Next]_vars
    => [Ledger!Next]_(Ledger!ledgerVars)
<1> SUFFICES ASSUME TypeOK, OneHolder, KeysDiffer, ActsCounted, PermitsStayJustified, [Next]_vars
             PROVE  [Ledger!Next]_(Ledger!ledgerVars)
  OBVIOUS
<1>0. permits \in [PermitIds -> Permit \cup {NoPermit}]
  BY DEF TypeOK
<1>1. EntriesAreRows /\ EntriesAreRows'
  BY EntryOfRow, EntryOfRowNext, TypeNext, KeysDifferNext, JustifiedNext
<1>2. ASSUME UNCHANGED <<permits, acts>> PROVE [Ledger!Next]_(Ledger!ledgerVars)
  BY <1>2 DEF Ledger!ledgerVars, LedgerEntry, LedgerPerformed, PermitsFor, Present
<1>3. CASE UNCHANGED vars \/ \E k \in Keys : AddKey(k)
  BY <1>2, <1>3 DEF AddKey, vars
<1>4. ASSUME NEW c \in Presentable, NEW id \in PermitIds, Authorize(c[1], id, c[2])
      PROVE  [Ledger!Next]_(Ledger!ledgerVars)
  <2> DEFINE k == ReplayKey(c[1])
  <2>1. k \in ReplayKeys
    BY <1>4, CallHasKey DEF Presentable, Authorize
  <2>2. /\ ~Present(id) /\ acts[id] = 0 /\ acts' = acts
        /\ \A p \in PermitIds : Present(p) => KeyOf(p) # k
    BY <1>4 DEF Authorize, Duplicate, ActsCounted, Present, KeyOf
  <2>3. /\ permits'[id].state = "RESERVED" /\ permits'[id].request = c[1]
        /\ \A p \in PermitIds : p # id => permits'[p] = permits[p]
    <3>1. permits'[id] = Reserved(c[1], c[2])
      BY <1>4, AuthorizeKeepsRows
    <3> QED BY <1>4, <3>1, AuthorizeKeepsRows DEF Reserved
  <2>4. LedgerEntry[k] = "FREE" /\ ~LedgerPerformed[k]
    BY <1>1, <2>1, <2>2 DEF EntriesAreRows
  <2>5. Present(id)' /\ KeyOf(id)' = k
    BY <2>3 DEF Present, KeyOf
  <2> HIDE DEF k
  <2>6. /\ LedgerEntry' = [LedgerEntry EXCEPT ![k] = "RESERVED"]
        /\ LedgerPerformed' = LedgerPerformed
    BY <1>1, <2>1, <2>2, <2>3, <2>4, <2>5, EntryMoves
  <2> QED BY <2>1, <2>4, <2>6 DEF Ledger!Next, Ledger!Reserve
<1>5. ASSUME NEW a \in Adapters, NEW id \in PermitIds, NEW tool \in Tools,
             NEW action \in Actions, NEW now \in Times, Consume(a, id, tool, action, now)
      PROVE  [Ledger!Next]_(Ledger!ledgerVars)
  <2> DEFINE k == KeyOf(id)
  <2>1. /\ permits[id].state = "RESERVED" /\ permits[id] \in Permit
        /\ Present(id) /\ acts[id] = 0 /\ acts' = acts
    BY <1>5, PresentIsPermit DEF Consume, ActsCounted
  <2>2. /\ permits'[id].state = "ATTEMPTED" /\ permits'[id].request = permits[id].request
        /\ \A p \in PermitIds : p # id => permits'[p] = permits[p]
    BY <1>0, <1>5, <2>1 DEF Consume, Permit
  <2>3. k \in ReplayKeys /\ LedgerEntry[k] = "RESERVED" /\ ~LedgerPerformed[k]
    BY <1>1, <2>1 DEF EntriesAreRows
  <2>4. Present(id)' /\ KeyOf(id)' = k /\ KeyOf(id) = k
    BY <2>2 DEF Present, KeyOf
  <2>5. \A p \in PermitIds : p # id /\ Present(p) => KeyOf(p) # k
    BY <2>1 DEF KeysDiffer
  <2> HIDE DEF k
  <2>6. /\ LedgerEntry' = [LedgerEntry EXCEPT ![k] = "ATTEMPTED"]
        /\ LedgerPerformed' = LedgerPerformed
    BY <1>1, <2>1, <2>2, <2>3, <2>4, <2>5, EntryMoves
  <2> QED BY <2>3, <2>6 DEF Ledger!Next, Ledger!Attempt
<1>6. ASSUME NEW a \in Adapters, Act(a) PROVE [Ledger!Next]_(Ledger!ledgerVars)
  <2>1. PICK id \in PermitIds : id = held[a].permit
    BY <1>6 DEF Act, TypeOK, Holding
  <2> DEFINE k == KeyOf(id)
  <2>2. permits[id].state = "ATTEMPTED" /\ acts[id] = 0 /\ Present(id)
    BY <1>6, <2>1 DEF Act, ActsCounted, OneHolder, Present
  <2>3. /\ permits' = permits /\ acts'[id] = 1
        /\ \A p \in PermitIds : p # id => acts'[p] = acts[p]
    BY <1>6, <2>1, <2>2 DEF Act, TypeOK
  <2>4. k \in ReplayKeys /\ LedgerEntry[k] = "ATTEMPTED" /\ ~LedgerPerformed[k]
    BY <1>1, <2>2 DEF EntriesAreRows
  <2>5. Present(id)' /\ KeyOf(id)' = k /\ KeyOf(id) = k
    BY <2>2, <2>3 DEF Present, KeyOf
  <2>6. \A p \in PermitIds : p # id /\ Present(p) => KeyOf(p) # k
    BY <2>2 DEF KeysDiffer
  <2> HIDE DEF k
  <2>7. /\ LedgerEntry' = [LedgerEntry EXCEPT ![k] = "ATTEMPTED"]
        /\ LedgerPerformed' = [LedgerPerformed EXCEPT ![k] = TRUE]
    BY <1>1, <2>2, <2>3, <2>4, <2>5, <2>6, EntryMoves
  <2>8. LedgerEntry' = LedgerEntry
    BY <2>4, <2>7 DEF LedgerEntry
  <2> QED BY <2>4, <2>7, <2>8 DEF Ledger!Next, Ledger!Perform
<1>7. ASSUME NEW a \in Adapters, NEW outcome \in {"SUCCEEDED", "FAILED"}, Finish(a, outcome)
      PROVE  [Ledger!Next]_(Ledger!ledgerVars)
  <2>1. CASE UNCHANGED permits
    BY <1>2, <1>7, <2>1 DEF Finish
  <2>2. CASE permits' = [permits EXCEPT ![held[a].permit].state = outcome]
    <3>1. PICK id \in PermitIds : id = held[a].permit
      BY <1>7 DEF Finish, TypeOK, Holding
    <3> DEFINE k == KeyOf(id)
    <3>2. permits[id].state = "ATTEMPTED" /\ acts[id] = 1 /\ acts' = acts /\ Present(id)
      BY <1>7, <3>1 DEF Finish, ActsCounted, OneHolder, Present
    <3>3. permits[id] \in Permit
      BY <3>2, PresentIsPermit
    <3>4. /\ permits'[id].state = outcome /\ permits'[id].request = permits[id].request
          /\ \A p \in PermitIds : p # id => permits'[p] = permits[p]
      BY <1>0, <2>2, <3>1, <3>3 DEF Permit
    <3>5. k \in ReplayKeys /\ LedgerEntry[k] = "ATTEMPTED" /\ LedgerPerformed[k]
      BY <1>1, <3>2 DEF EntriesAreRows
    <3>6. Present(id)' /\ KeyOf(id)' = k /\ KeyOf(id) = k
      BY <3>4 DEF Present, KeyOf
    <3>7. \A p \in PermitIds : p # id /\ Present(p) => KeyOf(p) # k
      BY <3>2 DEF KeysDiffer
    <3> HIDE DEF k
    <3>8. /\ LedgerEntry' = [LedgerEntry EXCEPT ![k] = outcome]
          /\ LedgerPerformed' = LedgerPerformed
      BY <1>1, <3>2, <3>4, <3>5, <3>6, <3>7, EntryMoves
    <3> QED BY <3>5, <3>8 DEF Ledger!Next, Ledger!Close
  <2> QED BY <1>7, <2>1, <2>2 DEF Finish
<1>8. ASSUME NEW a \in Adapters, Crash(a) PROVE [Ledger!Next]_(Ledger!ledgerVars)
  BY <1>2, <1>8 DEF Crash
<1> QED BY <1>3, <1>4, <1>5, <1>6, <1>7, <1>8 DEF Next

\* Whatever is declared, presented and lost, a replay key of the P0 store goes
\* the way the one-attempt ledger allows: the same abstract specification that
\* the Sprint 3 store implements.
THEOREM StoreImplementsLedger == Spec => ImplementsLedger
<1>1. Init => OneHolder /\ KeysDiffer /\ ActsCounted
  BY DEF Init, OneHolder, KeysDiffer, ActsCounted, Present, NoPermit
<1>2. Spec => [](TypeOK /\ OneHolder /\ KeysDiffer /\ ActsCounted /\ PermitsStayJustified)
  BY <1>1, HolderNext, KeysDifferNext, ActsNext, TypeCorrect, Justified, PTL DEF Spec
<1> QED BY <1>2, LedgerInit, LedgerNext, PTL DEF Spec, ImplementsLedger, Ledger!Spec

-----------------------------------------------------------------------------
(***************************************************************************)
(* P0 and Sprint 3 allow alike.  What a call that passes has shown, as     *)
(* facts about its chain, is what Sprint 3 asks of the set of its views.   *)
(***************************************************************************)
\* The empty set of reasons, condition by condition.
LEMMA NothingAgainst ==
  ASSUME NEW known, NEW r, NEW t, Reasons(known, r, t) = {}
  PROVE  /\ r.chain # <<>>
         /\ \A i \in DOMAIN r.chain :
              ReceiptReasons(known, r.chain[i]) = {} /\ TimeReasons(r.chain[i], t) = {}
         /\ RootReasons(r.chain[1]) = {}
         /\ \A i \in 2 .. Len(r.chain) : LinkReasons(r.chain[1], r.chain[i - 1], r.chain[i]) = {}
         /\ r.chain[Len(r.chain)].type = "action_intent"
         /\ ~\E i, j \in DOMAIN r.chain : i # j /\ r.chain[i].id = r.chain[j].id
         /\ StatusReasons(known, r.status, r.chain, t) = {}
         /\ ActionReasons(r.action, r.chain) = {}
<1>1. ChainReasons(r.chain) = {}
  BY NoReasonInAnyPart
<1> DEFINE A == RootReasons(r.chain[1])
           B == Because(\E i, j \in DOMAIN r.chain : i # j /\ r.chain[i].id = r.chain[j].id,
                        "CHAIN_CYCLE")
           C == Because(r.chain[Len(r.chain)].type # "action_intent", "LEAF_NOT_ACTION_INTENT")
           D == UNION {LinkReasons(r.chain[1], r.chain[i - 1], r.chain[i]) : i \in 2 .. Len(r.chain)}
<1>2. A \cup B \cup C \cup D = {}
  BY <1>1, Zenon DEF ChainReasons
<1>3. B = {} => ~\E i, j \in DOMAIN r.chain : i # j /\ r.chain[i].id = r.chain[j].id
  BY DEF Because
<1>4. C = {} => r.chain[Len(r.chain)].type = "action_intent"
  BY DEF Because
<1>5. D = {} => \A i \in 2 .. Len(r.chain) : LinkReasons(r.chain[1], r.chain[i - 1], r.chain[i]) = {}
  OBVIOUS
<1> HIDE DEF A, B, C, D
<1>6. A = {} /\ B = {} /\ C = {} /\ D = {}
  BY <1>2
<1> QED BY <1>3, <1>4, <1>5, <1>6, NoReasonInAnyPart DEF A

LEMMA ReceiptInOrder ==
  ASSUME NEW known, NEW v \in Receipts, NEW t \in Times,
         ReceiptReasons(known, v) = {}, TimeReasons(v, t) = {}
  PROVE  /\ v.faults = {}
         /\ v.created <= t /\ v.created <= v.decided /\ v.decided <= t
         /\ v.scope.from <= t /\ t < v.scope.until
<1>1. v.faults = {}
  BY DEF ReceiptReasons
<1>2. /\ ~(t < v.created) /\ ~(t < v.scope.from)
      /\ ~(v.decided < v.created) /\ ~(t < v.decided)
      /\ ~(v.scope.until <= t)
  BY DEF TimeReasons, Because
<1> QED BY <1>1, <1>2, P0EvidenceAssumption DEF Times

LEMMA LinkHolds ==
  ASSUME NEW root, NEW p \in Receipts, NEW v \in Receipts, LinkReasons(root, p, v) = {}
  PROVE  /\ p.receiver = v.sender /\ p.decided <= v.created
         /\ v.lineage = root.lineage /\ v.version = root.version
         /\ Attenuated(p.scope, v.scope)
<1>1. /\ p.receiver = v.sender /\ ~(v.created < p.decided)
      /\ <<v.lineage, v.version>> = <<root.lineage, root.version>>
      /\ Attenuated(p.scope, v.scope)
  BY DEF LinkReasons, Because
<1> QED BY <1>1, P0EvidenceAssumption

LEMMA RootHolds ==
  ASSUME NEW root, RootReasons(root) = {}
  PROVE  /\ root.previous = NoParent /\ root.type = "delegation"
         /\ root.lineage.issuer = root.sender.principal
         /\ root.lineage.subject = root.receiver.principal
         /\ root.lineage.key = root.receiver.key
BY DEF RootReasons, Because

LEMMA StatusHolds ==
  ASSUME NEW known, NEW s \in Statuses, NEW chain, NEW t \in Times,
         StatusReasons(known, s, chain, t) = {}
  PROVE  /\ s.lineage = chain[1].lineage /\ s.version = chain[1].version
         /\ s.state = "ACTIVE" /\ s.issued <= t /\ t < s.fresh
         /\ \A i \in DOMAIN chain : chain[i].status = s.id => ~(chain[i].created < s.issued)
<1>1. /\ s.lineage = chain[1].lineage /\ s.version = chain[1].version
      /\ s.state # "REVOKED" /\ ~(t < s.issued) /\ ~(s.fresh <= t)
      /\ ~\E i \in DOMAIN chain : chain[i].status = s.id /\ chain[i].created < s.issued
  BY DEF StatusReasons, Because
<1> QED BY <1>1, P0EvidenceAssumption DEF Times

LEMMA ActionHolds ==
  ASSUME NEW action, NEW chain, ActionReasons(action, chain) = {}
  PROVE  /\ chain[Len(chain)].hash = action.hash
         /\ \A i \in DOMAIN chain : WithinScope(action, chain[i].scope)
BY DEF ActionReasons, Because

\* A view is the receipt with its parent named the other way.
LEMMA ViewKeeps ==
  ASSUME NEW r \in Receipts, NEW q
  PROVE  LET v == [r EXCEPT !.previous = q]
         IN  /\ v.previous = q /\ v.id = r.id /\ v.interaction = r.interaction
             /\ v.sender = r.sender /\ v.receiver = r.receiver /\ v.type = r.type
             /\ v.scope = r.scope /\ v.lineage = r.lineage /\ v.version = r.version
             /\ v.status = r.status /\ v.created = r.created /\ v.decided = r.decided
             /\ v.hash = r.hash /\ v.faults = r.faults
BY P0EvidenceAssumption DEF ReceiptFields

View(chain, i) ==
  [chain[i] EXCEPT !.previous = IF i = 1 THEN NoParent ELSE chain[i - 1].interaction]

LEMMA SameViews ==
  ASSUME NEW known, NEW r \in Requests, NEW t \in Times, Reasons(known, r, t) = {},
         \A i, j \in DOMAIN r.chain : r.chain[i].interaction = r.chain[j].interaction => i = j,
         \A i \in 1 .. Len(r.chain) - 1 : r.chain[i].type = "delegation",
         \A i \in DOMAIN r.chain : r.chain[i].status = r.status.id
  PROVE  Sprint3(r.action)!Acceptable(ViewsOf(r.chain), {r.status}, t)
<1> DEFINE c == r.chain
           n == Len(c)
           v(i) == View(c, i)
           V == ViewsOf(c)
           s == r.status
<1>1. /\ n \in 1 .. 3 /\ DOMAIN c = 1 .. n
      /\ \A i \in 1 .. n : c[i] \in Receipts
      /\ s \in Statuses /\ r.action \in Actions
  <2>1. PICK m \in 0 .. 3 : c \in [1 .. m -> Receipts]
    BY DEF Requests
  <2>2. m # 0
    BY <2>1, NothingAgainst
  <2>3. n = m
    BY <2>1
  <2> QED BY <2>1, <2>2, <2>3 DEF Requests
<1>2. n # 1
  <2>1. c[1].type = "delegation"
    BY NothingAgainst, RootHolds
  <2> QED BY <2>1, NothingAgainst
<1>3. V = {v(i) : i \in 1 .. n}
  BY <1>1 DEF ViewsOf, View
<1>4. \A i \in 1 .. n :
        /\ v(i).previous = IF i = 1 THEN NoParent ELSE c[i - 1].interaction
        /\ v(i).id = c[i].id /\ v(i).interaction = c[i].interaction
        /\ v(i).sender = c[i].sender /\ v(i).receiver = c[i].receiver /\ v(i).type = c[i].type
        /\ v(i).scope = c[i].scope /\ v(i).lineage = c[i].lineage
        /\ v(i).version = c[i].version /\ v(i).status = c[i].status
        /\ v(i).created = c[i].created /\ v(i).decided = c[i].decided
        /\ v(i).hash = c[i].hash /\ v(i).faults = c[i].faults
  BY <1>1, ViewKeeps DEF View
<1> HIDE DEF c, n, v, V, s
<1>5. \A i, j \in 1 .. n : v(i) = v(j) => i = j
  BY <1>1, <1>4 DEF c
<1>6. c[n].type = "action_intent" /\ c[n].hash = r.action.hash
  BY NothingAgainst, ActionHolds DEF c, n
<1>7. \A i \in 1 .. n : i # n => c[i].type = "delegation"
  BY <1>1 DEF c, n
<1>8. /\ c[1].previous = NoParent
      /\ c[1].lineage.issuer = c[1].sender.principal
      /\ c[1].lineage.subject = c[1].receiver.principal
      /\ c[1].lineage.key = c[1].receiver.key
  BY NothingAgainst, RootHolds DEF c
<1>9. ASSUME NEW i \in 2 .. n
      PROVE  /\ c[i - 1].receiver = c[i].sender /\ c[i - 1].decided <= c[i].created
             /\ c[i].lineage = c[1].lineage /\ c[i].version = c[1].version
             /\ Attenuated(c[i - 1].scope, c[i].scope)
  <2>1. c[i - 1] \in Receipts /\ c[i] \in Receipts
    BY <1>1
  <2>2. LinkReasons(c[1], c[i - 1], c[i]) = {}
    BY NothingAgainst DEF c, n
  <2> QED BY <2>1, <2>2, LinkHolds
<1>10. /\ s.lineage = c[1].lineage /\ s.version = c[1].version
       /\ s.state = "ACTIVE" /\ s.issued <= t /\ t < s.fresh
       /\ \A i \in 1 .. n : c[i].status = s.id /\ s.issued <= c[i].created
  <2>1. StatusReasons(known, s, c, t) = {}
    BY NothingAgainst DEF c, s
  <2>2. \A i \in 1 .. n : c[i].status = s.id
    BY <1>1 DEF c, s
  <2>3. \A i \in 1 .. n : ~(c[i].created < s.issued)
    BY <1>1, <2>1, <2>2, StatusHolds
  <2>4. \A i \in 1 .. n : s.issued <= c[i].created
    BY <1>1, <2>3, P0EvidenceAssumption
  <2> QED BY <1>1, <2>1, <2>2, <2>4, StatusHolds
<1>11. \A i \in 1 .. n : Sprint3(r.action)!InOrder(v(i), t)
  <2> TAKE i \in 1 .. n
  <2>1. ReceiptReasons(known, c[i]) = {} /\ TimeReasons(c[i], t) = {}
    BY <1>1, NothingAgainst DEF c
  <2>2. WithinScope(r.action, c[i].scope)
    <3>1. ActionReasons(r.action, c) = {}
      BY NothingAgainst DEF c
    <3> QED BY <1>1, <3>1, ActionHolds
  <2>3. /\ c[i].faults = {}
        /\ c[i].created <= t /\ c[i].created <= c[i].decided /\ c[i].decided <= t
        /\ c[i].scope.from <= t /\ t < c[i].scope.until
    BY <1>1, <2>1, ReceiptInOrder
  <2> QED BY <1>4, <2>2, <2>3 DEF Sprint3!InOrder, Sprint3!Covers, WithinScope
<1>12. Sprint3(r.action)!ChainTo(v(n), v(1), V, V)
  <2>1. {v(n), v(1)} \subseteq V /\ v(n) # v(1)
    <3>1. n \in 1 .. n /\ 1 \in 1 .. n
      BY <1>1
    <3>2. v(n) # v(1)
      BY <1>2, <1>5, <3>1
    <3> QED BY <1>3, <3>1, <3>2
  <2>2. {w \in V : Sprint3(r.action)!IsLeaf(w)} = {v(n)}
    <3>1. \A i \in 1 .. n : Sprint3(r.action)!IsLeaf(v(i)) <=> i = n
      BY <1>1, <1>4, <1>6, <1>7 DEF Sprint3!IsLeaf
    <3> QED BY <1>1, <1>3, <3>1
  <2>3. {w \in V : w.previous = NoParent} = {v(1)}
    <3>1. \A i \in 1 .. n : v(i).previous = NoParent <=> i = 1
      BY <1>1, <1>4, P0EvidenceAssumption
    <3> QED BY <1>1, <1>3, <3>1
  <2>4. \A w \in V \ {v(n)} : w.type = "delegation"
    BY <1>3, <1>4, <1>7
  <2>5. ASSUME NEW w \in V \ {v(1)}
        PROVE  \E p \in V : Sprint3(r.action)!Parents(V, w) = {p} /\ Sprint3(r.action)!Handed(p, w)
    <3>1. PICK i \in 1 .. n : w = v(i)
      BY <1>3
    <3>2. i \in 2 .. n /\ i - 1 \in 1 .. n
      BY <1>1, <3>1
    <3>3. v(i - 1) \in V
      BY <1>3, <3>2
    <3>4. \A j \in 1 .. n : v(j).interaction = v(i).previous <=> j = i - 1
      BY <1>1, <1>4, <3>2 DEF c
    <3>5. Sprint3(r.action)!Parents(V, w) = {v(i - 1)}
      BY <1>3, <3>1, <3>2, <3>4 DEF Sprint3!Parents
    <3>6. Sprint3(r.action)!Handed(v(i - 1), v(i))
      <4>1. c[i].created \in Nat
        BY <1>1, P0EvidenceAssumption
      <4> QED BY <1>4, <1>9, <3>2, <4>1 DEF Sprint3!Handed, Sprint3!Narrower, Attenuated
    <3> QED BY <3>1, <3>3, <3>5, <3>6
  <2>6. ASSUME NEW w \in V \ {v(n)} PROVE \E u \in V : u.previous = w.interaction
    <3>1. PICK i \in 1 .. n : w = v(i)
      BY <1>3
    <3>2. i # n /\ i + 1 \in 2 .. n /\ i + 1 \in 1 .. n /\ (i + 1) - 1 = i
      BY <1>1, <2>6, <3>1
    <3>3. v(i + 1).previous = v(i).interaction /\ v(i + 1) \in V
      BY <1>3, <1>4, <3>2
    <3> QED BY <3>1, <3>3
  <2> QED BY <2>1, <2>2, <2>3, <2>4, <2>5, <2>6 DEF Sprint3!ChainTo
<1>13. Sprint3(r.action)!GrantedBy(s, v(1), V, {s}, t)
  <2>1. s.version \in Nat
    BY <1>1, P0EvidenceAssumption
  <2>2. \A i \in 1 .. n : c[i].lineage = c[1].lineage /\ c[i].version = c[1].version
    BY <1>1, <1>9
  <2>3. ~Sprint3(r.action)!Conflicting({u \in {s} : u.lineage = s.lineage})
    BY DEF Sprint3!Conflicting
  <2>4. Sprint3(r.action)!HasRootAuthority(v(1))
    BY <1>1, <1>4, <1>8 DEF Sprint3!HasRootAuthority
  <2>5. \A w \in V : /\ w.lineage = v(1).lineage /\ w.version = v(1).version
                    /\ w.status = s.id /\ s.issued <= w.created
    BY <1>1, <1>3, <1>4, <1>10, <2>2
  <2> QED BY <1>1, <1>4, <1>10, <2>1, <2>3, <2>4, <2>5 DEF Sprint3!GrantedBy
<1>14. v(1) \in V /\ v(n) \in V
  BY <1>1, <1>3
<1>15. \A w \in V : Sprint3(r.action)!InOrder(w, t)
  BY <1>3, <1>11
<1>16. Sprint3(r.action)!Acceptable(V, {s}, t)
  BY <1>12, <1>13, <1>14, <1>15 DEF Sprint3!Acceptable
<1> QED BY <1>16 DEF V, c, s

\* What P0 has reserved a permit for, Sprint 3 accepts at the time of issue:
\* the two gates were written apart and judge a chain alike.
THEOREM GatesAllowAlike == Spec => []AllowsAsSprint3
<1>1. ASSUME TypeOK, PermitsStayJustified, BindingsAreThoseOfPermits
      PROVE  AllowsAsSprint3
  <2> SUFFICES ASSUME NEW p \in PermitIds, Present(p),
                 \A i \in 1 .. Len(permits[p].request.chain) - 1 :
                   permits[p].request.chain[i].type = "delegation",
                 \A i \in DOMAIN permits[p].request.chain :
                   permits[p].request.chain[i].status = permits[p].request.status.id
               PROVE  Sprint3(permits[p].request.action)!Acceptable(
                        ViewsOf(permits[p].request.chain), {permits[p].request.status},
                        permits[p].issued)
    BY DEF AllowsAsSprint3
  <2> DEFINE r == permits[p].request
             t == permits[p].issued
  <2>1. r \in Requests /\ t \in Times /\ Reasons(registry, r, t) = {}
    BY <1>1, PresentIsPermit DEF Permit, PermitsStayJustified
  <2>2. Observations(r) \subseteq observations
    BY <1>1 DEF BindingsAreThoseOfPermits
  <2>3. ASSUME NEW i \in DOMAIN r.chain, NEW j \in DOMAIN r.chain,
               r.chain[i].interaction = r.chain[j].interaction
        PROVE  i = j
    <3> DEFINE o(k) == [key |-> <<"interaction", r.chain[k].interaction>>,
                        receipt |-> r.chain[k].id]
    <3>1. o(i) \in observations /\ o(j) \in observations
      BY <2>2 DEF Observations
    <3>2. r.chain[i].id = r.chain[j].id
      BY <1>1, <2>3, <3>1 DEF BindingsAreThoseOfPermits
    <3> QED BY <2>1, <3>2, NothingAgainst
  <2> QED BY <2>1, <2>3, SameViews
<1> QED BY <1>1, TypeCorrect, Justified, BindingsAgree, PTL
=============================================================================
