------------------------------ MODULE GateSystem ----------------------------
(***************************************************************************)
(* Several verifiers, each with its own evidence, one permit database and  *)
(* the adapters: what the parts of Sprint 3 come to together.              *)
(*                                                                         *)
(* A verifier judges the action by what has reached it at the time of its  *)
(* snapshot (CommonActionGate.authorize: snapshot, prepare, evaluate,      *)
(* reserve), and learns nothing more before the permit is used.  What two  *)
(* verifiers know of each other is in the database.  NeutralPermitStore    *)
(* has the database; it lets a decider ask for anything, and here it asks  *)
(* for what it has judged.                                                 *)
(***************************************************************************)
EXTENDS NeutralPermitStore, Authority

CONSTANTS
  Views,       \* handoffs that are made for the action
  Statuses,    \* status statements the issuers make
  Deliveries   \* when each of these may reach each verifier, if at all

VARIABLE delivery

systemVars == <<vars, delivery>>

ASSUME DeliveryAssumption ==
  /\ Deliveries \subseteq [Deciders -> [Views \cup Statuses -> Nat]]
  /\ Views \cap Statuses = {}
  /\ \A s \in Statuses : s.version \in Nat

\* What has arrived when the input is prepared.  Mutant: when the verifier was
\* started.
ReachedAtStart(d, things, t) == {x \in things : delivery[d][x] = 0}

Reached(d, things, t) == {x \in things : delivery[d][x] <= t}

\* An equivocation, or a handoff without its parent, is an issue of the
\* observation, and an observation with an issue pauses.
Clash(v, w) ==
  /\ v # w
  /\ \/ v.interaction = w.interaction
     \/ v.sender = w.sender /\ v.sequence = w.sequence

Consistent(V) ==
  /\ ~ \E v, w \in V : Clash(v, w)
  /\ \A v \in V : v.previous = NoParent \/ \E p \in Parents(V, v) : Handed(p, v)

\* The chain an action is allowed on and the statement that controls it.
Rests(C, s, V, S, t) ==
  \E leaf, root \in C :
    ChainTo(leaf, root, C, V) /\ GrantedBy(s, root, C, S, t) /\ \A v \in C : InOrder(v, t)

\* Mutant: a sender may use a sequence number again.
BindingsOfInteractions(C) ==
  {[key |-> <<"INTERACTION", v.interaction>>, handoff |-> v] : v \in C}

Bindings(C) ==
  {[key |-> <<"INTERACTION", v.interaction>>, handoff |-> v] : v \in C}
  \cup {[key |-> <<"SENDER_SEQUENCE", v.sender, v.sequence>>, handoff |-> v] : v \in C}

\* Mutant: an action is new if it is asked for over another chain.
ReplayScopeOfChain(C, s) == <<C, s.version>>

\* All handoffs of the chain have the lineage and version of the statement.
ReplayScope(C, s) == <<s.lineage, s.version>>

RequestFor(C, s) ==
  [tool |-> "payments", scope |-> ReplayScope(C, s), nonce |-> "nonce",
   hash |-> Action.hash, observations |-> Bindings(C),
   horizon |-> Earliest({s.fresh} \cup {v.scope.until : v \in C})]

Judged(d, r, t) ==
  LET V == Reached(d, Views, t)
      S == Reached(d, Statuses, t)
  IN  /\ Consistent(V)
      /\ \E C \in SUBSET V, s \in S : Rests(C, s, V, S, t) /\ r = RequestFor(C, s)

-----------------------------------------------------------------------------
SystemInit == Init /\ delivery \in Deliveries

\* authorize(), from the snapshot on.
Authorize(d) ==
  /\ phase[d] = "prepared"
  /\ \E r \in Requests :
       /\ Judged(d, r, snapshot[d].captured)
       /\ \E id \in PermitIds : Reserve(d, r, id) \/ Pause(d, r, id)

\* The adapter presents the action, which is that of every permit.
Attempt(a) ==
  \/ \E id \in PermitIds, now \in Times :
       Present(id) /\ Consume(a, id, permits[id].request, now)
  \/ Act(a)
  \/ \E outcome \in {"SUCCEEDED", "FAILED"} : Finish(a, outcome)

SystemNext ==
  /\ \/ Tick
     \/ \E g \in Programs : Open(g) \/ Stop(g)
     \/ \E d \in Deciders :
          (\E t \in Times : TakeSnapshot(d, t)) \/ Authorize(d) \/ Abandon(d)
     \/ \E a \in Adapters : Attempt(a)
  /\ UNCHANGED delivery

SystemSpec == SystemInit /\ [][SystemNext]_systemVars

-----------------------------------------------------------------------------
(***************************************************************************)
(* Properties.                                                             *)
(***************************************************************************)
\* Every permit stands for a judgment that some verifier made on what had
\* reached it at the time the permit was issued.
PermitsAreJudgments ==
  \A p \in PermitIds : Present(p) =>
    \E d \in Deciders : Judged(d, permits[p].request, permits[p].issued)

\* The handoffs a permit rests on.
Behind(p) == {o.handoff : o \in permits[p].request.observations}

\* u takes back what v was made under.
Revokes(u, v) == u.state = "REVOKED" /\ u.lineage = v.lineage /\ u.version >= v.version

\* A revocation is late by no more than the life of a permit: when it has
\* reached every verifier, whatever permits are still about, nobody acts on
\* one that is consumed PermitTTL after that.
RevocationTakesEffect ==
  \A a \in Adapters, u \in Statuses : Attempting(a) =>
    \A v \in Behind(held[a].permit) :
      Revokes(u, v) => \E d \in Deciders : held[a].at < delivery[d][u] + PermitTTL

\* Verifiers that were told different stories do not both act on them: the
\* handoffs all permits rest on are free of equivocations.
OneStory ==
  \A p, q \in PermitIds : Present(p) /\ Present(q) =>
    \A v \in Behind(p), w \in Behind(q) : ~Clash(v, w)

\* The action is performed once for a grant.  It can be performed again if the
\* issuer grants it anew under another version, and then only because a
\* verifier allowed it under the old one that the new status had not reached.
OncePerGrant ==
  \A p, q \in PermitIds :
    p # q /\ acts[p] > 0 /\ acts[q] > 0 =>
      \A v \in Behind(p), w \in Behind(q) : v.lineage = w.lineage =>
        /\ v.version # w.version
        /\ v.version < w.version =>
             \E s \in Statuses, d \in Deciders :
               /\ s.lineage = w.lineage /\ s.version = w.version
               /\ delivery[d][s] > permits[p].issued
=============================================================================
