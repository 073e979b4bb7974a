-------------------------- MODULE GateSystemProofs --------------------------
(***************************************************************************)
(* Theorems about GateSystem, for any number of verifiers and adapters,    *)
(* any handoffs and statements and any times at which they arrive.         *)
(*                                                                         *)
(* The system is the permit store with deciders that ask for less, so      *)
(* everything proved of the store holds in it.  What it adds is that       *)
(* permits are judgments; the properties follow from both.                 *)
(***************************************************************************)
EXTENDS GateSystem, NeutralPermitStoreProofs

\* Every step of the system is one of the store.
LEMMA SystemStep == TypeOK /\ [SystemNext]_systemVars => [Next]_vars
<1> SUFFICES ASSUME TypeOK, [SystemNext]_systemVars PROVE [Next]_vars
  OBVIOUS
<1>1. CASE SystemNext
  <2>1. CASE Tick
    BY <2>1 DEF Next
  <2>2. CASE \E g \in Programs : Open(g) \/ Stop(g)
    BY <2>2 DEF Next
  <2>3. ASSUME NEW d \in Deciders, (\E t \in Times : TakeSnapshot(d, t)) \/ Abandon(d)
        PROVE  Next
    BY <2>3 DEF Next, DeciderStep
  <2>4. ASSUME NEW d \in Deciders, Authorize(d)
        PROVE  Next
    BY <2>4 DEF Next, DeciderStep, Authorize
  <2>5. ASSUME NEW a \in Adapters, Attempt(a)
        PROVE  Next
    <3>1. CASE Act(a) \/ \E outcome \in {"SUCCEEDED", "FAILED"} : Finish(a, outcome)
      BY <3>1 DEF Next, AdapterStep
    <3>2. ASSUME NEW id \in PermitIds, NEW now \in Times, Present(id),
                 Consume(a, id, permits[id].request, now)
          PROVE  Next
      <4>1. PICK r \in Requests : permits[id].request = r /\ Consume(a, id, r, now)
        <5>1. permits[id].request \in Requests
          BY <3>2, PresentIsPermit DEF Permit
        <5> QED BY <3>2, <5>1
      <4> QED BY <4>1 DEF Next, AdapterStep
    <3> QED BY <2>5, <3>1, <3>2 DEF Attempt
  <2> QED BY <1>1, <2>1, <2>2, <2>3, <2>4, <2>5 DEF SystemNext
<1>2. CASE UNCHANGED systemVars
  BY <1>2 DEF systemVars
<1> QED BY <1>1, <1>2

LEMMA SystemTypeCorrect == SystemSpec => []TypeOK
<1>1. SystemInit => TypeOK
  BY TypeInit DEF SystemInit
<1>2. TypeOK /\ [SystemNext]_systemVars => TypeOK'
  BY SystemStep, TypeNext
<1> QED BY <1>1, <1>2, PTL DEF SystemSpec

\* Whatever the verifiers judge, the system is a permit store: what is proved
\* of NeutralPermitStore holds in it.
THEOREM SystemIsStore == SystemSpec => Spec
<1>1. SystemInit => Init
  BY DEF SystemInit
<1> QED BY <1>1, SystemStep, SystemTypeCorrect, PTL DEF SystemSpec, Spec

-----------------------------------------------------------------------------
DeliveryOK == delivery \in Deliveries

LEMMA DeliveryAlways == SystemSpec => []DeliveryOK
<1>1. SystemInit => DeliveryOK
  BY DEF SystemInit, DeliveryOK
<1>2. DeliveryOK /\ [SystemNext]_systemVars => DeliveryOK'
  BY DEF DeliveryOK, SystemNext, systemVars
<1> QED BY <1>1, <1>2, PTL DEF SystemSpec

LEMMA DeliveryTimes ==
  ASSUME DeliveryOK, NEW d \in Deciders, NEW x \in Views \cup Statuses
  PROVE  delivery[d][x] \in Nat
BY DeliveryAssumption DEF DeliveryOK

\* A step that leaves what is there as it is, states apart, keeps it justified.
LEMMA JudgmentsKept ==
  ASSUME PermitsAreJudgments, delivery' = delivery,
         \A p \in PermitIds : Present(p)' =>
           /\ Present(p)
           /\ permits'[p].request = permits[p].request
           /\ permits'[p].issued = permits[p].issued
  PROVE  PermitsAreJudgments'
<1> SUFFICES ASSUME NEW p \in PermitIds, Present(p)'
             PROVE  \E d \in Deciders : Judged(d, permits[p].request, permits[p].issued)'
  BY DEF PermitsAreJudgments
<1>1. PICK d \in Deciders : Judged(d, permits[p].request, permits[p].issued)
  BY DEF PermitsAreJudgments
<1>2. Judged(d, permits'[p].request, permits'[p].issued)
  BY <1>1
<1> QED BY <1>2 DEF Judged, Reached

LEMMA JudgmentsReserve ==
  ASSUME TypeOK, PermitsAreJudgments, delivery' = delivery,
         NEW d \in Deciders, NEW r \in Requests, NEW id \in PermitIds,
         Judged(d, r, snapshot[d].captured), Reserve(d, r, id)
  PROVE  PermitsAreJudgments'
<1> SUFFICES ASSUME NEW p \in PermitIds, Present(p)'
             PROVE  \E e \in Deciders : Judged(e, permits[p].request, permits[p].issued)'
  BY DEF PermitsAreJudgments
<1>0. permits \in [PermitIds -> Permit \cup {NoPermit}]
  BY DEF TypeOK, Tables
<1>1. CASE p = id
  <2>1. permits'[p].request = r /\ permits'[p].issued = snapshot[d].captured
    BY <1>0, <1>1 DEF Reserve
  <2>2. Judged(d, permits'[p].request, permits'[p].issued)
    BY <2>1
  <2> QED BY <2>2 DEF Judged, Reached
<1>2. CASE p # id
  <2>1. permits'[p] = permits[p]
    BY <1>0, <1>2 DEF Reserve
  <2>2. Present(p)
    BY <2>1 DEF Present
  <2>3. PICK e \in Deciders : Judged(e, permits[p].request, permits[p].issued)
    BY <2>2 DEF PermitsAreJudgments
  <2> QED BY <2>1, <2>3 DEF Judged, Reached
<1> QED BY <1>1, <1>2

LEMMA JudgmentsNext ==
  TypeOK /\ OneAttemptPerPermit /\ PermitsAreJudgments /\ [SystemNext]_systemVars
    => PermitsAreJudgments'
<1> SUFFICES ASSUME TypeOK, OneAttemptPerPermit, PermitsAreJudgments, [SystemNext]_systemVars
             PROVE  PermitsAreJudgments'
  OBVIOUS
<1>0. permits \in [PermitIds -> Permit \cup {NoPermit}] /\ delivery' = delivery
  BY DEF TypeOK, Tables, SystemNext, systemVars
<1>1. CASE permits' = permits
  BY <1>0, <1>1, JudgmentsKept DEF Present
<1>2. ASSUME NEW d \in Deciders, Authorize(d)
      PROVE  PermitsAreJudgments'
  <2>1. PICK r \in Requests, id \in PermitIds :
          Judged(d, r, snapshot[d].captured) /\ (Reserve(d, r, id) \/ Pause(d, r, id))
    BY <1>2 DEF Authorize
  <2>2. CASE Reserve(d, r, id)
    BY <1>0, <2>1, <2>2, JudgmentsReserve
  <2>3. CASE Pause(d, r, id)
    BY <1>1, <2>3 DEF Pause, tableVars
  <2> QED BY <2>1, <2>2, <2>3
<1>3. ASSUME NEW a \in Adapters, Attempt(a)
      PROVE  PermitsAreJudgments'
  <2>1. ASSUME NEW id \in PermitIds, NEW now \in Times, Present(id),
               Consume(a, id, permits[id].request, now)
        PROVE  PermitsAreJudgments'
    <3>1. permits' = [permits EXCEPT ![id].state = "ATTEMPTED"] /\ permits[id] \in Permit
      BY <2>1, PresentIsPermit DEF Consume
    <3> QED BY <1>0, <2>1, <3>1, JudgmentsKept DEF Present, Permit
  <2>2. CASE Act(a)
    BY <1>1, <2>2 DEF Act, tableVars
  <2>3. ASSUME NEW outcome \in {"SUCCEEDED", "FAILED"}, Finish(a, outcome)
        PROVE  PermitsAreJudgments'
    <3>1. CASE /\ permits[held[a].permit].state = "ATTEMPTED"
               /\ permits' = [permits EXCEPT ![held[a].permit].state = outcome]
      <4>1. held[a].permit \in PermitIds
        BY <2>3 DEF Finish, TypeOK, Holding
      <4>2. Present(held[a].permit) /\ permits[held[a].permit] \in Permit
        BY <3>1, <4>1, PresentIsPermit DEF Present
      <4> QED BY <1>0, <3>1, <4>1, <4>2, JudgmentsKept DEF Present, Permit
    <3>2. CASE permits' = permits
      BY <1>1, <3>2
    <3> QED BY <2>3, <3>1, <3>2 DEF Finish
  <2> QED BY <1>3, <2>1, <2>2, <2>3 DEF Attempt
<1>4. CASE Tick
  BY <1>1, <1>4 DEF Tick, tableVars
<1>5. ASSUME NEW g \in Programs, Open(g) \/ Stop(g)
      PROVE  PermitsAreJudgments'
  BY <1>1, <1>5 DEF Open, Stop, tableVars
<1>6. ASSUME NEW d \in Deciders, (\E t \in Times : TakeSnapshot(d, t)) \/ Abandon(d)
      PROVE  PermitsAreJudgments'
  BY <1>1, <1>6 DEF TakeSnapshot, Abandon, tableVars
<1>7. CASE UNCHANGED systemVars
  BY <1>1, <1>7 DEF systemVars, vars
<1> QED BY <1>2, <1>3, <1>4, <1>5, <1>6, <1>7 DEF SystemNext

LEMMA JudgmentsAlways == SystemSpec => []PermitsAreJudgments
<1>1. SystemInit => PermitsAreJudgments
  BY DEF SystemInit, Init, PermitsAreJudgments, Present, NoPermit
<1> QED BY <1>1, JudgmentsNext, SystemTypeCorrect, SystemIsStore, OneAttempt, PTL
        DEF SystemSpec

-----------------------------------------------------------------------------
(***************************************************************************)
(* What a permit that stands for a judgment says of the statements.        *)
(***************************************************************************)

\* The handoffs behind a permit are those of the chain that was judged.
LEMMA BehindIsChain ==
  ASSUME NEW C, NEW s, NEW p \in PermitIds, permits[p].request = RequestFor(C, s)
  PROVE  /\ Behind(p) = C
         /\ permits[p].request.observations = Bindings(C)
         /\ permits[p].request.scope = <<s.lineage, s.version>>
<1>1. permits[p].request.observations = Bindings(C)
  BY DEF RequestFor
<1>2. {o.handoff : o \in Bindings(C)} = C
  <2>1. ASSUME NEW o \in Bindings(C) PROVE o.handoff \in C
    BY DEF Bindings
  <2>2. ASSUME NEW v \in C PROVE \E o \in Bindings(C) : o.handoff = v
    <3>1. [key |-> <<"INTERACTION", v.interaction>>, handoff |-> v] \in Bindings(C)
      BY DEF Bindings
    <3> QED BY <3>1
  <2> QED BY <2>1, <2>2
<1>3. permits[p].request.scope = <<s.lineage, s.version>>
  BY DEF RequestFor, ReplayScope
<1> QED BY <1>1, <1>2, <1>3 DEF Behind

\* A statement about the lineage of a handoff behind a permit, of its version
\* or a later one, was the permit's own or had not reached the verifier.
LEMMA LatestAsFarAsKnown ==
  ASSUME DeliveryOK, PermitsAreJudgments, NEW p \in PermitIds, Present(p), NEW v \in Behind(p),
         permits[p].issued \in Nat
  PROVE  \E s \in Statuses, d \in Deciders :
           /\ s.lineage = v.lineage /\ s.version = v.version /\ s.state = "ACTIVE"
           /\ permits[p].request.scope = <<v.lineage, v.version>>
           /\ \A u \in Statuses : u.lineage = v.lineage /\ u.version >= v.version /\ u # s
                => delivery[d][u] > permits[p].issued
<1> DEFINE t == permits[p].issued
<1>1. PICK d \in Deciders : Judged(d, permits[p].request, t)
  BY DEF PermitsAreJudgments
<1> DEFINE V == Reached(d, Views, t)
           S == Reached(d, Statuses, t)
<1>2. PICK C \in SUBSET V, s \in S : Rests(C, s, V, S, t) /\ permits[p].request = RequestFor(C, s)
  BY <1>1 DEF Judged
<1>3. PICK root \in C : GrantedBy(s, root, C, S, t)
  BY <1>2 DEF Rests
<1>4. Behind(p) = C /\ permits[p].request.scope = <<s.lineage, s.version>>
  BY <1>2, BehindIsChain
<1>5. s.lineage = v.lineage /\ s.version = v.version /\ s.state = "ACTIVE"
  BY <1>3, <1>4 DEF GrantedBy
<1>6. S = {u \in Statuses : delivery[d][u] <= t}
  BY DEF Reached
<1>7. ASSUME NEW u \in Statuses, u.lineage = v.lineage, u.version >= v.version, u # s
      PROVE  delivery[d][u] > t
  <2>1. u \notin S
    <3> SUFFICES ASSUME u \in S PROVE FALSE
      OBVIOUS
    <3>1. u.version <= s.version /\ ~Conflicting({w \in S : w.lineage = s.lineage})
      BY <1>3, <1>5, <1>7 DEF GrantedBy
    <3>2. u.version \in Nat /\ s.version \in Nat
      BY <1>6, DeliveryAssumption
    <3>3. u.version = s.version
      BY <1>5, <1>7, <3>1, <3>2
    <3> QED BY <1>5, <1>7, <3>1, <3>3 DEF Conflicting
  <2> QED BY <1>6, <2>1, DeliveryTimes
<1> QED BY <1>4, <1>5, <1>6, <1>7

\* A revocation is late by no more than the life of a permit.
THEOREM RevocationInTime == SystemSpec => []RevocationTakesEffect
<1>1. ASSUME TypeOK, DeliveryOK, PermitsAreJudgments, ActingIsCovered
      PROVE  RevocationTakesEffect
  <2> SUFFICES ASSUME NEW a \in Adapters, NEW u \in Statuses, Attempting(a),
                      NEW v \in Behind(held[a].permit), Revokes(u, v)
               PROVE  \E d \in Deciders : held[a].at < delivery[d][u] + PermitTTL
    BY DEF RevocationTakesEffect
  <2> DEFINE p == held[a].permit
  <2>1. held[a] \in Holding
    BY <1>1 DEF TypeOK, Attempting
  <2>2. p \in PermitIds /\ held[a].at \in Nat
    BY <2>1 DEF Holding, Times
  <2>3. permits[p].state = "ATTEMPTED" /\ held[a].at < permits[p].issued + PermitTTL
    BY <1>1 DEF ActingIsCovered
  <2>4. Present(p) /\ permits[p].issued \in Nat
    BY <1>1, <2>2, <2>3, PresentIsPermit DEF Present, Permit, Times
  <2>5. PICK s \in Statuses, d \in Deciders :
          /\ s.state = "ACTIVE"
          /\ \A w \in Statuses : w.lineage = v.lineage /\ w.version >= v.version /\ w # s
               => delivery[d][w] > permits[p].issued
    BY <1>1, <2>2, <2>4, LatestAsFarAsKnown
  <2>6. delivery[d][u] > permits[p].issued
    BY <2>5 DEF Revokes
  <2>7. delivery[d][u] \in Nat /\ PermitTTL \in Nat
    BY <1>1, DeliveryTimes, ParameterAssumption
  <2> QED BY <2>2, <2>3, <2>4, <2>6, <2>7
<1> QED BY <1>1, SystemTypeCorrect, DeliveryAlways, JudgmentsAlways, SystemIsStore,
           ActingCovered, PTL

\* The handoffs that all permits rest on are free of equivocations.
THEOREM PermitsTellOneStory == SystemSpec => []OneStory
<1>1. ASSUME TypeOK, PermitsAreJudgments, BindingsAreThoseOfPermits
      PROVE  OneStory
  <2> SUFFICES ASSUME NEW p \in PermitIds, NEW q \in PermitIds, Present(p), Present(q),
                      NEW v \in Behind(p), NEW w \in Behind(q), Clash(v, w)
               PROVE  FALSE
    BY DEF OneStory
  <2>1. ASSUME NEW x \in PermitIds, Present(x), NEW y \in Behind(x)
        PROVE  \E o, s \in observations :
                 /\ o = [key |-> <<"INTERACTION", y.interaction>>, handoff |-> y]
                 /\ s = [key |-> <<"SENDER_SEQUENCE", y.sender, y.sequence>>, handoff |-> y]
    <3>1. PICK C, s : permits[x].request = RequestFor(C, s)
      BY <1>1, <2>1 DEF PermitsAreJudgments, Judged
    <3>2. Behind(x) = C /\ permits[x].request.observations = Bindings(C)
      BY <3>1, BehindIsChain
    <3>3. permits[x].request.observations \subseteq observations
      BY <1>1, <2>1 DEF BindingsAreThoseOfPermits
    <3> QED BY <2>1, <3>2, <3>3 DEF Bindings
  <2>2. \A o, s \in observations : o.key = s.key => o.handoff = s.handoff
    BY <1>1 DEF BindingsAreThoseOfPermits
  <2>3. v # w
    BY DEF Clash
  <2>4. CASE v.interaction = w.interaction
    BY <2>1, <2>2, <2>3, <2>4
  <2>5. CASE v.sender = w.sender /\ v.sequence = w.sequence
    BY <2>1, <2>2, <2>3, <2>5
  <2> QED BY <2>4, <2>5 DEF Clash
<1> QED BY <1>1, SystemTypeCorrect, JudgmentsAlways, SystemIsStore, BindingsAgree, PTL

\* The action is performed once for a grant, and under an old version only by
\* a verifier that does not know of the new one.
THEOREM OncePerGrantAlways == SystemSpec => []OncePerGrant
<1>1. ASSUME TypeOK, DeliveryOK, OneAttemptPerPermit, PermitsAreJudgments, AtMostOneEffect
      PROVE  OncePerGrant
  <2> SUFFICES ASSUME NEW p \in PermitIds, NEW q \in PermitIds,
                      p # q, acts[p] > 0, acts[q] > 0,
                      NEW v \in Behind(p), NEW w \in Behind(q), v.lineage = w.lineage
               PROVE  /\ v.version # w.version
                      /\ v.version < w.version =>
                           \E s \in Statuses, d \in Deciders :
                             /\ s.lineage = w.lineage /\ s.version = w.version
                             /\ delivery[d][s] > permits[p].issued
    BY DEF OncePerGrant
  <2>1. ASSUME NEW x \in PermitIds, acts[x] > 0
        PROVE  Present(x) /\ permits[x].issued \in Nat
    <3>1. Present(x)
      BY <1>1, <2>1 DEF OneAttemptPerPermit, Present
    <3> QED BY <1>1, <3>1, PresentIsPermit DEF Permit, Times
  <2>2. PICK s \in Statuses, d \in Deciders :
          /\ s.lineage = v.lineage /\ s.version = v.version
          /\ permits[p].request.scope = <<v.lineage, v.version>>
          /\ \A u \in Statuses : u.lineage = v.lineage /\ u.version >= v.version /\ u # s
               => delivery[d][u] > permits[p].issued
    BY <1>1, <2>1, LatestAsFarAsKnown
  <2>3. PICK new \in Statuses :
          /\ new.lineage = w.lineage /\ new.version = w.version
          /\ permits[q].request.scope = <<w.lineage, w.version>>
    BY <1>1, <2>1, LatestAsFarAsKnown
  <2>4. v.version # w.version
    <3>1. ReplayKey(permits[p].request) # ReplayKey(permits[q].request)
      BY <1>1 DEF AtMostOneEffect
    <3>2. /\ permits[p].request.tool = permits[q].request.tool
          /\ permits[p].request.nonce = permits[q].request.nonce
      <4>1. ASSUME NEW x \in PermitIds, Present(x)
            PROVE  permits[x].request.tool = "payments" /\ permits[x].request.nonce = "nonce"
        <5>1. PICK C, s1 : permits[x].request = RequestFor(C, s1)
          BY <1>1, <4>1 DEF PermitsAreJudgments, Judged
        <5> QED BY <5>1 DEF RequestFor
      <4> QED BY <2>1, <4>1
    <3> QED BY <2>2, <2>3, <3>1, <3>2 DEF ReplayKey
  <2>5. ASSUME v.version < w.version
        PROVE  delivery[d][new] > permits[p].issued
    <3>1. new.version \in Nat /\ s.version \in Nat
      BY DeliveryAssumption
    <3>2. new.version >= v.version /\ new # s
      BY <2>2, <2>3, <2>5, <3>1
    <3> QED BY <2>2, <2>3, <3>2
  <2> QED BY <2>3, <2>4, <2>5
<1> QED BY <1>1, SystemTypeCorrect, DeliveryAlways, JudgmentsAlways, SystemIsStore,
           OneAttempt, OneEffect, PTL
=============================================================================
