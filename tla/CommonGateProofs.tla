-------------------------- MODULE CommonGateProofs --------------------------
(***************************************************************************)
(* Theorems about CommonGate, for any set of handoffs and statuses and any *)
(* length of the chain: what it allows, and that the auditor's own walk    *)
(* (StrictChain) agrees with it.  And about PreparedGate, which puts the   *)
(* validator before it.                                                    *)
(***************************************************************************)
EXTENDS PreparedGate, FiniteSetTheorems, WellFoundedInduction, TLAPS

\* Narrowing a narrower scope narrows.
LEMMA NarrowerTransitive ==
  ASSUME NEW u \in Views, NEW v \in Views, NEW w \in Views,
         Narrower(u.scope, v.scope), Narrower(v.scope, w.scope)
  PROVE  Narrower(u.scope, w.scope)
<1>1. /\ u.scope.limit \in Nat /\ v.scope.limit \in Nat /\ w.scope.limit \in Nat
      /\ u.scope.from \in Nat /\ v.scope.from \in Nat /\ w.scope.from \in Nat
      /\ u.scope.until \in Nat /\ v.scope.until \in Nat /\ w.scope.until \in Nat
      /\ u.scope.hops \in Nat /\ v.scope.hops \in Nat /\ w.scope.hops \in Nat
  BY ViewAssumption
<1> QED BY <1>1 DEF Narrower

\* What Append does to a chain.
LEMMA Appended ==
  ASSUME NEW S, NEW c \in Seq(S), NEW v \in S
  PROVE  /\ Append(c, v) \in Seq(S)
         /\ Append(c, v) # <<>>
         /\ Len(Append(c, v)) = Len(c) + 1
         /\ DOMAIN c = 1 .. Len(c)
         /\ DOMAIN Append(c, v) = 1 .. Len(c) + 1
         /\ \A i \in 1 .. Len(c) : Append(c, v)[i] = c[i]
         /\ Append(c, v)[Len(c) + 1] = v
         /\ Len(c) \in Nat
OBVIOUS

-----------------------------------------------------------------------------
(***************************************************************************)
(* Type correctness.  What is admitted was prepared without a reason, and  *)
(* until the end there is no decision.                                     *)
(***************************************************************************)
Admitted ==
  /\ pc \notin {"admit", "done"} => PreparationReasons = {}
  /\ pc # "done" => decision = Undecided

GateType == TypeOK /\ Admitted

LEMMA GateTypeInit == Init => GateType
<1> SUFFICES ASSUME Init PROVE GateType
  OBVIOUS
<1>1. PICK k \in Inputs, V \in SUBSET Views, S \in SUBSET Statuses, t \in 0 .. MaxTime,
           b \in Barriers, f \in SUBSET Issues :
        input = [views |-> V, statuses |-> S, now |-> t, barrier |-> b, issues |-> f]
  BY InputAssumption DEF Init
<1>2. chain = <<>> /\ chain \in Seq(input.views) /\ Len(chain) = 0
  BY DEF Init
<1> QED BY <1>1, <1>2 DEF Init, GateType, TypeOK, Admitted, Undecided

\* A pause for some reason keeps the types, whatever the walk has appended.
LEMMA PauseType ==
  ASSUME GateType, NEW why, Pause(why), why # {}, input' = input,
         chain' \in Seq(input.views), index' \in 0 .. Len(chain')
  PROVE  GateType'
<1>1. pc' = "done" /\ decision' = [verdict |-> "PAUSE"] /\ reasons' # {}
  BY DEF Pause
<1> QED BY <1>1 DEF GateType, TypeOK, Admitted

LEMMA GateTypeNext == GateType /\ [Next]_vars => GateType'
<1> SUFFICES ASSUME GateType, [Next]_vars PROVE GateType'
  OBVIOUS
<1>0. /\ chain \in Seq(input.views) /\ index \in 0 .. Len(chain)
      /\ input.views \subseteq Views
  BY DEF GateType, TypeOK
<1>1. CASE Admit
  <2>1. CASE input.barrier # "none" /\ Pause({input.barrier})
    BY <1>0, <1>1, <2>1, PauseType DEF Admit
  <2>2. CASE PreparationReasons # {} /\ Pause(PreparationReasons)
    BY <1>0, <1>1, <2>2, PauseType DEF Admit
  <2>3. CASE /\ PreparationReasons = {} /\ pc' = "leaf"
             /\ UNCHANGED <<reasons, decision>>
    BY <1>1, <2>3 DEF Admit, GateType, TypeOK, Admitted, PreparationReasons, Undecided
  <2> QED BY <1>1, <2>1, <2>2, <2>3 DEF Admit
<1>2. CASE FindLeaf
  <2>1. CASE Leaves = {} /\ Pause({"LEAF_MISSING"})
    BY <1>0, <1>2, <2>1, PauseType DEF FindLeaf
  <2>2. CASE Several(Leaves) /\ Pause({"LEAF_AMBIGUOUS"})
    BY <1>0, <1>2, <2>2, PauseType DEF FindLeaf
  <2>3. CASE /\ \E v \in Leaves : Leaves = {v} /\ current' = v
             /\ pc' = "walk" /\ UNCHANGED <<reasons, decision>>
    BY <1>2, <2>3 DEF FindLeaf, Leaves, GateType, TypeOK, Admitted, PreparationReasons, Undecided
  <2> QED BY <1>2, <2>1, <2>2, <2>3 DEF FindLeaf
<1>3. CASE WalkIntoCycle
  BY <1>0, <1>3, PauseType DEF WalkIntoCycle
<1>4. CASE WalkToParent
  <2>1. chain' \in Seq(input.views) /\ Len(chain') = Len(chain) + 1 /\ chain' # <<>>
    BY <1>0, <1>4, Appended DEF WalkToParent, GateType, TypeOK
  <2>2. index' \in 0 .. Len(chain') /\ current' \in input.views
    BY <1>0, <1>4, <2>1 DEF WalkToParent
  <2> QED BY <1>4, <2>1, <2>2
          DEF WalkToParent, GateType, TypeOK, Admitted, PreparationReasons, Undecided
<1>5. CASE WalkAstray
  <2>1. chain' \in Seq(input.views) /\ index' \in 0 .. Len(chain')
    BY <1>0, <1>5, Appended DEF WalkAstray, GateType, TypeOK
  <2>2. \E why : why # {} /\ Pause(why)
    BY <1>5 DEF WalkAstray
  <2> QED BY <1>5, <2>1, <2>2, PauseType DEF WalkAstray
<1>6. CASE WalkToRoot
  <2>1. chain' \in Seq(input.views) /\ Len(chain') = Len(chain) + 1 /\ chain' # <<>>
    BY <1>0, <1>6, Appended DEF WalkToRoot, GateType, TypeOK
  <2>2. index' \in 0 .. Len(chain')
    BY <1>0, <1>6, <2>1 DEF WalkToRoot
  <2> QED BY <1>6, <2>1, <2>2
          DEF WalkToRoot, GateType, TypeOK, Admitted, PreparationReasons, Undecided
<1>7. CASE JudgeChain
  <2>1. index' \in DOMAIN chain /\ index' \in 0 .. Len(chain)
    BY <1>0, <1>7 DEF JudgeChain, GateType, TypeOK
  <2> QED BY <1>7, <2>1
          DEF JudgeChain, GateType, TypeOK, Admitted, PreparationReasons, Undecided
<1>8. CASE JudgeHandoff
  <2>1. index \in 1 .. Len(chain) /\ index' = index - 1
    BY <1>0, <1>8 DEF JudgeHandoff, GateType, TypeOK
  <2>2. index' \in 0 .. Len(chain) /\ (index # 1 => index' \in DOMAIN chain)
    BY <1>0, <2>1
  <2> QED BY <1>8, <2>1, <2>2
          DEF JudgeHandoff, GateType, TypeOK, Admitted, PreparationReasons, Undecided
<1>9. CASE Conclude
  <2>1. ASSUME NEW why, why # {}, Pause(why) PROVE GateType'
    BY <1>0, <1>9, <2>1, PauseType DEF Conclude
  <2>2. ASSUME NEW s \in Controlling, reasons \cup ActionReasons \cup StatusReasons = {},
               decision' = [verdict |-> "ALLOW", status |-> s, expires |-> Expiry(s),
                            scope |-> <<Root.lineage, Root.version>>,
                            observations |-> Observations],
               pc' = "done", UNCHANGED reasons
        PROVE  GateType'
    <3>1. s \in Genuine
      BY <1>9, <2>2 DEF Conclude, Controlling, Relevant, GateType, Admitted,
                        PreparationReasons, Because
    <3>2. decision'.verdict = "ALLOW" /\ decision'.status = s
      BY <2>2
    <3> QED BY <1>9, <2>2, <3>1, <3>2 DEF Conclude, GateType, TypeOK, Admitted
  <2> QED BY <1>9, <2>1, <2>2 DEF Conclude
<1>10. CASE UNCHANGED vars
  BY <1>10 DEF vars, GateType, TypeOK, Admitted, PreparationReasons, Undecided
<1> QED BY <1>1, <1>2, <1>3, <1>4, <1>5, <1>6, <1>7, <1>8, <1>9, <1>10 DEF Next

LEMMA GateTypeAlways == Spec => []GateType
BY GateTypeInit, GateTypeNext, PTL DEF Spec

\* The walk and the loop stay within the input, and nothing is decided
\* without a reason or a genuine status.
THEOREM TypeCorrect == Spec => []TypeOK
<1>1. GateType => TypeOK
  BY DEF GateType
<1> QED BY <1>1, GateTypeAlways, PTL
-----------------------------------------------------------------------------
(***************************************************************************)
(* The walk.  WalkIsPath says nothing of the view the walk has come to and *)
(* not yet appended; WalkAhead adds that it is where the path goes on.     *)
(***************************************************************************)
WalkAhead ==
  /\ pc \in {"admit", "leaf"} => chain = <<>>
  /\ pc = "walk" =>
       IF chain = <<>> THEN Leaves = {current}
                       ELSE Parents(input.views, chain[Len(chain)]) = {current}

PathInv == WalkIsPath /\ WalkAhead

\* A chain stays a path when the view ahead is appended to it.
LEMMA AppendToPath ==
  ASSUME GateType, PathInv, pc = "walk", current.interaction \notin Visited,
         input' = input, chain' = Append(chain, current)
  PROVE  WalkIsPath'
<1>1. /\ chain \in Seq(input.views) /\ current \in input.views
      /\ Leaves' = Leaves
  BY DEF GateType, TypeOK, Leaves
<1>2. /\ Len(chain) \in Nat /\ DOMAIN chain = 1 .. Len(chain)
      /\ DOMAIN chain' = 1 .. Len(chain) + 1
      /\ \A i \in 1 .. Len(chain) : chain'[i] = chain[i]
      /\ chain'[Len(chain) + 1] = current
      /\ chain' # <<>>
  BY <1>1, Appended
<1>3. Leaves = {chain'[1]}
  <2>1. CASE chain = <<>>
    BY <1>2, <2>1 DEF PathInv, WalkAhead
  <2>2. CASE chain # <<>>
    <3>1. Len(chain) >= 1
      BY <1>1, <2>2
    <3> QED BY <1>2, <2>2, <3>1 DEF PathInv, WalkIsPath
  <2> QED BY <2>1, <2>2
<1>4. ASSUME NEW i \in DOMAIN chain', i > 1
      PROVE  Parents(input.views, chain'[i - 1]) = {chain'[i]}
  <2>1. CASE i = Len(chain) + 1
    <3>1. Len(chain) \in 1 .. Len(chain) /\ chain # <<>> /\ i - 1 = Len(chain)
      BY <1>2, <1>4, <2>1
    <3> QED BY <1>2, <2>1, <3>1 DEF PathInv, WalkAhead
  <2>2. CASE i # Len(chain) + 1
    <3>1. i \in 1 .. Len(chain) /\ i - 1 \in 1 .. Len(chain)
      BY <1>2, <1>4, <2>2
    <3> QED BY <1>2, <1>4, <3>1 DEF PathInv, WalkIsPath
  <2> QED BY <2>1, <2>2
<1>5. ASSUME NEW i \in DOMAIN chain', NEW j \in DOMAIN chain', i # j
      PROVE  chain'[i].interaction # chain'[j].interaction
  <2>1. \A k \in 1 .. Len(chain) : chain[k].interaction # current.interaction
    BY <1>2 DEF Visited
  <2>2. CASE i = Len(chain) + 1
    <3>1. j \in 1 .. Len(chain)
      BY <1>2, <1>5, <2>2
    <3> QED BY <1>2, <2>1, <2>2, <3>1
  <2>3. CASE j = Len(chain) + 1
    <3>1. i \in 1 .. Len(chain)
      BY <1>2, <1>5, <2>3
    <3> QED BY <1>2, <2>1, <2>3, <3>1
  <2>4. CASE i # Len(chain) + 1 /\ j # Len(chain) + 1
    <3>1. i \in 1 .. Len(chain) /\ j \in 1 .. Len(chain)
      BY <1>2, <1>5, <2>4
    <3> QED BY <1>2, <1>5, <3>1 DEF PathInv, WalkIsPath
  <2> QED BY <2>2, <2>3, <2>4
<1> QED BY <1>1, <1>3, <1>4, <1>5 DEF WalkIsPath

LEMMA PathInit == Init => PathInv
<1> SUFFICES ASSUME Init PROVE PathInv
  OBVIOUS
<1>1. chain = <<>> /\ DOMAIN chain = {} /\ pc = "admit"
  BY DEF Init
<1> QED BY <1>1 DEF PathInv, WalkIsPath, WalkAhead

LEMMA PathNext == GateType /\ PathInv /\ [Next]_vars => PathInv'
<1> SUFFICES ASSUME GateType, PathInv, [Next]_vars PROVE PathInv'
  OBVIOUS
<1>0. UNCHANGED <<input, chain>> => WalkIsPath'
  BY DEF PathInv, WalkIsPath, Leaves
<1>1. CASE Admit
  BY <1>0, <1>1 DEF Admit, Pause, PathInv, WalkAhead
<1>2. CASE FindLeaf
  BY <1>0, <1>2 DEF FindLeaf, Pause, PathInv, WalkAhead, Leaves
<1>3. CASE WalkIntoCycle
  BY <1>0, <1>3 DEF WalkIntoCycle, Pause, PathInv, WalkAhead
<1>4. CASE WalkToParent
  <2>1. WalkIsPath'
    BY <1>4, AppendToPath DEF WalkToParent
  <2>2. chain' # <<>> /\ chain'[Len(chain')] = current
    BY <1>4, Appended DEF WalkToParent, GateType, TypeOK
  <2>3. Parents(input.views, current) = {current'} /\ pc' = "walk" /\ input' = input
    BY <1>4 DEF WalkToParent
  <2> QED BY <2>1, <2>2, <2>3 DEF PathInv, WalkAhead
<1>5. CASE WalkAstray
  <2>1. WalkIsPath'
    BY <1>5, AppendToPath DEF WalkAstray
  <2> QED BY <1>5, <2>1 DEF WalkAstray, Pause, PathInv, WalkAhead
<1>6. CASE WalkToRoot
  <2>1. WalkIsPath'
    BY <1>6, AppendToPath DEF WalkToRoot
  <2> QED BY <1>6, <2>1 DEF WalkToRoot, PathInv, WalkAhead
<1>7. CASE JudgeChain
  BY <1>0, <1>7 DEF JudgeChain, PathInv, WalkAhead
<1>8. CASE JudgeHandoff
  BY <1>0, <1>8 DEF JudgeHandoff, PathInv, WalkAhead
<1>9. CASE Conclude
  BY <1>0, <1>9 DEF Conclude, Pause, PathInv, WalkAhead
<1>10. CASE UNCHANGED vars
  BY <1>0, <1>10 DEF vars, PathInv, WalkAhead, Leaves
<1> QED BY <1>1, <1>2, <1>3, <1>4, <1>5, <1>6, <1>7, <1>8, <1>9, <1>10 DEF Next

\* The chain is the only path from the only leaf, without a repetition.
THEOREM WalkPath == Spec => []WalkIsPath
<1>1. PathInv => WalkIsPath
  BY DEF PathInv
<1> QED BY <1>1, PathInit, PathNext, GateTypeAlways, PTL DEF Spec

-----------------------------------------------------------------------------
(***************************************************************************)
(* Escalation.  The loop compares each handoff with its parent only; that  *)
(* it is narrower than all before it is carried along from round to round. *)
(***************************************************************************)
JudgedFrom(k) ==
  /\ \A i \in DOMAIN chain : i > k =>
       chain[i].scope.from <= input.now /\ input.now < chain[i].scope.until
  /\ \A i, j \in DOMAIN chain : i > k /\ i < j => Narrower(chain[i].scope, chain[j].scope)

Judged ==
  /\ pc = "handoffs" /\ reasons = {} => JudgedFrom(index)
  /\ pc = "status" /\ reasons = {} => JudgedFrom(0)
  /\ NoEscalation

LEMMA JudgedInit == Init => Judged
BY DEF Init, Judged, NoEscalation, Allowed, Undecided

\* One round without a reason extends what is judged by one handoff.
LEMMA JudgeOne ==
  ASSUME GateType, Judged, JudgeHandoff, reasons' = {}
  PROVE  JudgedFrom(index - 1)
<1>1. /\ index \in 1 .. Len(chain) /\ DOMAIN chain = 1 .. Len(chain) /\ Len(chain) \in Nat
      /\ \A i \in DOMAIN chain : chain[i] \in Views
      /\ input.now \in Nat
  BY GateAssumption DEF GateType, TypeOK, JudgeHandoff
<1>2. reasons = {} /\ TimeReasons(chain[index]) = {}
  BY DEF JudgeHandoff
<1>3. JudgedFrom(index)
  BY <1>2 DEF Judged, JudgeHandoff
<1>4. chain[index].scope.from <= input.now /\ input.now < chain[index].scope.until
  <2>1. chain[index].scope.from \in Nat /\ chain[index].scope.until \in Nat
    BY <1>1, ViewAssumption
  <2>2. /\ ~(input.now < chain[index].created \/ input.now < chain[index].scope.from)
        /\ ~(chain[index].scope.until <= input.now)
    BY <1>2 DEF TimeReasons, Because
  <2> QED BY <1>1, <2>1, <2>2
<1>5. index < Len(chain) => Narrower(chain[index].scope, chain[index + 1].scope)
  BY DEF JudgeHandoff, LinkReasons, Because
<1>6. ASSUME NEW j \in DOMAIN chain, index < j
      PROVE  Narrower(chain[index].scope, chain[j].scope)
  <2>1. index + 1 \in DOMAIN chain /\ index < Len(chain)
    BY <1>1, <1>6
  <2>2. CASE j = index + 1
    BY <1>5, <2>1, <2>2
  <2>3. CASE j # index + 1
    <3>1. index + 1 > index /\ index + 1 < j
      BY <1>1, <1>6, <2>3
    <3>2. Narrower(chain[index + 1].scope, chain[j].scope)
      BY <1>3, <2>1, <3>1 DEF JudgedFrom
    <3> QED BY <1>1, <1>5, <2>1, <3>2, NarrowerTransitive
  <2> QED BY <2>2, <2>3
<1>7. ASSUME NEW i \in DOMAIN chain, i > index - 1
      PROVE  i = index \/ i > index
  BY <1>1, <1>7
<1> QED BY <1>3, <1>4, <1>6, <1>7 DEF JudgedFrom

LEMMA JudgedNext == GateType /\ Judged /\ [Next]_vars => Judged'
<1> SUFFICES ASSUME GateType, Judged, [Next]_vars PROVE Judged'
  OBVIOUS
<1>1. ASSUME pc' \notin {"handoffs", "status"}, decision'.verdict # "ALLOW"
      PROVE  Judged'
  BY <1>1 DEF Judged, NoEscalation, Allowed
<1>2. pc # "done" => decision.verdict # "ALLOW"
  BY DEF GateType, TypeOK
<1>3. ASSUME NEW why, Pause(why) PROVE Judged'
  BY <1>1, <1>3 DEF Pause
<1>4. CASE Admit
  BY <1>1, <1>2, <1>3, <1>4 DEF Admit
<1>5. CASE FindLeaf
  BY <1>1, <1>2, <1>3, <1>5 DEF FindLeaf
<1>6. CASE WalkIntoCycle
  BY <1>3, <1>6 DEF WalkIntoCycle
<1>7. CASE WalkToParent
  BY <1>1, <1>2, <1>7 DEF WalkToParent
<1>8. CASE WalkAstray
  BY <1>3, <1>8 DEF WalkAstray
<1>9. CASE WalkToRoot
  BY <1>1, <1>2, <1>9 DEF WalkToRoot
<1>10. CASE JudgeChain
  <2>1. DOMAIN chain = 1 .. Len(chain) /\ Len(chain) \in Nat
    BY DEF GateType, TypeOK
  <2>2. JudgedFrom(Len(chain))
    BY <2>1 DEF JudgedFrom
  <2>3. JudgedFrom(index)'
    BY <1>10, <2>2 DEF JudgeChain, JudgedFrom
  <2> QED BY <1>2, <1>10, <2>3 DEF JudgeChain, Judged, NoEscalation, Allowed
<1>11. CASE JudgeHandoff
  <2>1. reasons' = {} => JudgedFrom(index - 1)
    BY <1>11, JudgeOne
  <2>2. reasons' = {} => JudgedFrom(index)'
    BY <1>11, <2>1 DEF JudgeHandoff, JudgedFrom
  <2>3. reasons' = {} /\ pc' = "status" => JudgedFrom(0)'
    <3>1. pc' = "status" => index = 1 /\ index - 1 = 0
      BY <1>11 DEF JudgeHandoff
    <3> QED BY <1>11, <2>1, <3>1 DEF JudgeHandoff, JudgedFrom
  <2> QED BY <1>2, <1>11, <2>2, <2>3 DEF JudgeHandoff, Judged, NoEscalation, Allowed
<1>12. CASE Conclude
  <2>1. ASSUME reasons \cup ActionReasons \cup StatusReasons = {}, pc' = "done",
               UNCHANGED <<input, chain>>
        PROVE  Judged'
    <3>1. JudgedFrom(0)
      BY <1>12, <2>1 DEF Judged, Conclude
    <3>2. \A i \in DOMAIN chain : Covers(chain[i].scope)
      BY <2>1 DEF ActionReasons, Because
    <3>3. \A i \in DOMAIN chain : i > 0
      BY DEF GateType, TypeOK
    <3> QED BY <2>1, <3>1, <3>2, <3>3 DEF JudgedFrom, Judged, NoEscalation, Allowed
  <2> QED BY <1>3, <1>12, <2>1 DEF Conclude
<1>13. CASE UNCHANGED vars
  BY <1>13 DEF vars, Judged, JudgedFrom, NoEscalation, Allowed
<1> QED BY <1>4, <1>5, <1>6, <1>7, <1>8, <1>9, <1>10, <1>11, <1>12, <1>13 DEF Next

\* Whatever the length of the chain, its leaf has at most the rights of every
\* handoff it descends from.
THEOREM Narrowing == Spec => []NoEscalation
<1>1. Judged => NoEscalation
  BY DEF Judged
<1> QED BY <1>1, JudgedInit, JudgedNext, GateTypeAlways, PTL DEF Spec

-----------------------------------------------------------------------------
(***************************************************************************)
(* Revocation.                                                             *)
(***************************************************************************)
LEMMA RevocationInit == Init => RevocationHeeded
BY DEF Init, RevocationHeeded, Allowed, Undecided

\* If the statuses give no reason to pause, the controlling one is the only
\* one of the highest version, and that is not later than the chain's.
LEMMA NoReasonNoRevocation ==
  ASSUME GateType, pc = "status", NEW s \in Controlling, StatusReasons = {},
         NEW u \in input.statuses, u.lineage = Root.lineage, u.version >= Root.version
  PROVE  u.state = "ACTIVE"
<1>1. /\ Relevant \subseteq Statuses /\ Controlling \subseteq Relevant
      /\ u \in Relevant /\ s \in Relevant
  BY DEF Relevant, Controlling, GateType, TypeOK
<1>2. \A x \in Relevant : x.version \in Nat /\ x.state \in {"ACTIVE", "REVOKED"}
  BY <1>1, StatusAssumption
<1>3. Root.version \in Nat
  <2>1. Root \in Views
    BY DEF Root, GateType, TypeOK
  <2> QED BY <2>1, ViewAssumption
<1>4. ~Conflicting(Relevant)
  BY DEF StatusReasons, Because
<1>5. ~Several(Controlling)
  <2>1. ASSUME NEW x \in Controlling, NEW y \in Controlling, x # y PROVE FALSE
    <3>1. x.version = y.version
      BY <1>1, <1>2, <2>1 DEF Controlling
    <3> QED BY <1>1, <1>4, <2>1, <3>1 DEF Conflicting
  <2> QED BY <2>1 DEF Several
<1>6. ReasonsOf(s) = {}
  BY <1>5 DEF StatusReasons
<1>7. ~(s.version > Root.version) /\ s.state # "REVOKED"
  BY <1>6 DEF ReasonsOf, Because
<1>8. u.version <= s.version
  BY <1>1 DEF Controlling
<1>9. u.version = s.version
  BY <1>1, <1>2, <1>3, <1>7, <1>8
<1>10. u = s
  BY <1>1, <1>4, <1>9 DEF Conflicting
<1> QED BY <1>1, <1>2, <1>7, <1>10

LEMMA RevocationNext ==
  GateType /\ RevocationHeeded /\ [Next]_vars => RevocationHeeded'
<1> SUFFICES ASSUME GateType, RevocationHeeded, [Next]_vars PROVE RevocationHeeded'
  OBVIOUS
<1>1. decision'.verdict # "ALLOW" => RevocationHeeded'
  BY DEF RevocationHeeded, Allowed
<1>2. pc # "done" => decision.verdict # "ALLOW"
  BY DEF GateType, TypeOK
<1>3. ASSUME NEW why, Pause(why) PROVE RevocationHeeded'
  BY <1>1, <1>3 DEF Pause
<1>4. ASSUME UNCHANGED decision, pc # "done" PROVE RevocationHeeded'
  BY <1>1, <1>2, <1>4
<1>5. CASE Admit
  BY <1>3, <1>4, <1>5 DEF Admit
<1>6. CASE FindLeaf
  BY <1>3, <1>4, <1>6 DEF FindLeaf
<1>7. CASE WalkIntoCycle \/ WalkToParent \/ WalkAstray \/ WalkToRoot
  BY <1>3, <1>4, <1>7 DEF WalkIntoCycle, WalkToParent, WalkAstray, WalkToRoot
<1>8. CASE JudgeChain \/ JudgeHandoff
  BY <1>4, <1>8 DEF JudgeChain, JudgeHandoff
<1>9. CASE Conclude
  <2>1. ASSUME NEW s \in Controlling, StatusReasons = {}, UNCHANGED <<input, chain>>
        PROVE  RevocationHeeded'
    BY <1>9, <2>1, NoReasonNoRevocation DEF Conclude, RevocationHeeded, Root
  <2>2. ASSUME reasons \cup ActionReasons \cup StatusReasons = {} PROVE StatusReasons = {}
    BY <2>2
  <2> QED BY <1>3, <1>9, <2>1, <2>2 DEF Conclude
<1>10. CASE UNCHANGED vars
  BY <1>10 DEF vars, RevocationHeeded, Allowed, Root
<1> QED BY <1>5, <1>6, <1>7, <1>8, <1>9, <1>10 DEF Next

\* A revocation of the chain's version or of a later one, if it is in the
\* input, keeps the gate from allowing, whatever else is in there.
THEOREM Revocation == Spec => []RevocationHeeded
BY RevocationInit, RevocationNext, GateTypeAlways, PTL DEF Spec

-----------------------------------------------------------------------------
(***************************************************************************)
(* Exactly the acceptable.  One direction follows the loops: whatever has  *)
(* been judged without a reason is in order.  In the other, a chain that   *)
(* is in order guides the walk: the gate cannot leave it, and goes up in   *)
(* it, for the hops of the scopes increase.                                *)
(***************************************************************************)
Ended == pc \in {"ends", "handoffs", "status"}

ClearFrom(k) ==
  /\ ChainReasons = {}
  /\ \A i \in DOMAIN chain : i > k =>
       /\ TimeReasons(chain[i]) = {}
       /\ i < Len(chain) => LinkReasons(chain[i + 1], chain[i]) = {}

Accepting == /\ input.barrier = "none" /\ PreparationReasons = {}
             /\ Acceptable(input.views, input.statuses, input.now)

SoundInv ==
  /\ pc \notin {"admit", "done"} => input.barrier = "none"
  /\ pc \in {"leaf", "walk"} => \A i \in DOMAIN chain : chain[i].previous # NoParent
  /\ Ended => \A i \in DOMAIN chain : chain[i].previous = NoParent <=> i = Len(chain)
  /\ pc = "handoffs" /\ reasons = {} => ClearFrom(index)
  /\ pc = "status" /\ reasons = {} => ClearFrom(0)
  /\ Allowed => Accepting

Basis(C, leaf, root, s) ==
  /\ input.barrier = "none" /\ PreparationReasons = {}
  /\ ChainTo(leaf, root, C, input.views)
  /\ GrantedBy(s, root, C, input.statuses, input.now)
  /\ \A v \in C : InOrder(v, input.now)

Guided(C, root) ==
  /\ reasons = {}
  /\ pc = "done" => Allowed
  /\ \A i \in DOMAIN chain : chain[i] \in C
  /\ pc = "walk" => /\ current \in C
                    /\ \A i \in DOMAIN chain : chain[i].scope.hops < current.scope.hops
  /\ Ended => Root = root

CompleteInv ==
  \A C \in SUBSET input.views : \A leaf, root \in C, s \in input.statuses :
    Basis(C, leaf, root, s) => Guided(C, root)

\* The chain is a sequence of views of the input.
LEMMA InViews ==
  ASSUME GateType
  PROVE  /\ Len(chain) \in Nat /\ DOMAIN chain = 1 .. Len(chain)
         /\ \A i \in DOMAIN chain : chain[i] \in input.views /\ chain[i] \in Views
         /\ input.now \in Nat
         /\ Ended => Len(chain) \in DOMAIN chain /\ 1 \in DOMAIN chain
         /\ Ended => Root \in input.views /\ Root \in Views
<1>1. chain \in Seq(input.views) /\ input.views \subseteq Views /\ input.now \in Nat
  BY GateAssumption DEF GateType, TypeOK
<1>2. Ended => Len(chain) \in DOMAIN chain /\ 1 \in DOMAIN chain
  BY <1>1 DEF GateType, TypeOK, Ended
<1> QED BY <1>1, <1>2 DEF Root

\* A view no reason is found against at the time of the decision is in order.
LEMMA NoTimeReason ==
  ASSUME GateType, NEW v \in Views
  PROVE  TimeReasons(v) = {} <=>
           /\ v.created <= input.now /\ v.created <= v.decided /\ v.decided <= input.now
           /\ v.scope.from <= input.now /\ input.now < v.scope.until
<1>1. /\ v.created \in Nat /\ v.decided \in Nat
      /\ v.scope.from \in Nat /\ v.scope.until \in Nat /\ input.now \in Nat
  BY ViewAssumption, InViews
<1>2. TimeReasons(v) = {} <=>
        /\ ~(input.now < v.created \/ input.now < v.scope.from)
        /\ ~(v.decided < v.created \/ input.now < v.decided)
        /\ ~(v.scope.until <= input.now)
  BY DEF TimeReasons, Because
<1> QED BY <1>1, <1>2

\* A link no reason is found against was handed on.
LEMMA NoLinkReason ==
  ASSUME NEW p \in Views, NEW v \in Views
  PROVE  LinkReasons(p, v) = {} <=> Handed(p, v)
<1>1. p.decided \in Nat /\ v.created \in Nat /\ ClockSkew \in Nat
  BY ViewAssumption, GateAssumption
<1>2. LinkReasons(p, v) = {} <=>
        /\ p.receiver = v.sender /\ ~(v.created + ClockSkew < p.decided)
        /\ Narrower(v.scope, p.scope)
  BY DEF LinkReasons, Because
<1> QED BY <1>1, <1>2 DEF Handed

\* What it takes for the chain as a whole and for the action to give none.
LEMMA NoChainReason ==
  ChainReasons = {} <=>
    /\ \A i \in DOMAIN chain : chain[i].faults = {}
    /\ Root.previous = NoParent /\ Root.type = "delegation"
    /\ \A i \in 2 .. Len(chain) - 1 : chain[i].type = "delegation"
    /\ HasRootAuthority(Root)
    /\ \A i \in DOMAIN chain : chain[i].lineage = Root.lineage /\ chain[i].version = Root.version
<1>1. UNION {chain[i].faults : i \in DOMAIN chain} = {} <=>
        \A i \in DOMAIN chain : chain[i].faults = {}
  BY Zenon
<1> QED BY <1>1 DEF ChainReasons, Because

LEMMA NoActionReason ==
  ActionReasons = {} <=> \A i \in DOMAIN chain : Covers(chain[i].scope)
BY DEF ActionReasons, Because

\* The statuses give no reason, and one controls, exactly if one of them grants
\* the chain.  (Of infinitely many statuses none need be the latest.)
LEMMA NoStatusReason ==
  ASSUME GateType, pc = "status", HasRootAuthority(Root),
         NEW C, C = {chain[i] : i \in DOMAIN chain},
         \A v \in C : v.lineage = Root.lineage /\ v.version = Root.version
  PROVE  StatusReasons = {} /\ Controlling # {} <=>
           \E s \in input.statuses : GrantedBy(s, Root, C, input.statuses, input.now)
<1>1. /\ Relevant \subseteq Statuses /\ Relevant \subseteq input.statuses
      /\ \A x \in Relevant : /\ x.version \in Nat /\ x.issued \in Nat /\ x.fresh \in Nat
                             /\ x.state \in {"ACTIVE", "REVOKED"} /\ x.lineage = Root.lineage
  BY StatusAssumption DEF Relevant, GateType, TypeOK
<1>2. /\ Root \in Views /\ Root.version \in Nat /\ input.now \in Nat
      /\ \A i \in DOMAIN chain : chain[i].created \in Nat
  BY InViews, ViewAssumption DEF Ended
<1>3. \A s \in Relevant :
        ReasonsOf(s) = {} <=>
          /\ s.version = Root.version /\ s.state = "ACTIVE"
          /\ s.issued <= input.now /\ input.now < s.fresh
          /\ \A i \in DOMAIN chain : chain[i].status = s.id /\ s.issued <= chain[i].created
  <2> TAKE s \in Relevant
  <2>1. ReasonsOf(s) = {} <=>
          /\ ~(s.version > Root.version) /\ ~(s.version < Root.version)
          /\ s.state # "REVOKED" /\ ~(input.now < s.issued) /\ ~(s.fresh <= input.now)
          /\ \A i \in DOMAIN chain : chain[i].status = s.id /\ ~(chain[i].created < s.issued)
    BY DEF ReasonsOf, Because
  <2> QED BY <1>1, <1>2, <2>1
<1>4. \A s \in Relevant : {u \in input.statuses : u.lineage = s.lineage} = Relevant
  BY <1>1 DEF Relevant
<1>5. ASSUME StatusReasons = {}, Controlling # {}
      PROVE  \E s \in input.statuses : GrantedBy(s, Root, C, input.statuses, input.now)
  <2>1. Relevant # {} /\ ~Conflicting(Relevant)
    BY <1>5 DEF StatusReasons, Because
  <2>2. ~Several(Controlling)
    <3>1. \A x, y \in Controlling : x.version = y.version
      BY <1>1 DEF Controlling
    <3> QED BY <1>1, <2>1, <3>1 DEF Several, Conflicting, Controlling
  <2>3. PICK s \in Controlling : ReasonsOf(s) = {}
    BY <1>5, <2>2 DEF StatusReasons
  <2>4. s \in Relevant /\ \A u \in Relevant : u.version <= s.version
    BY DEF Controlling
  <2>5. \A v \in C : v.status = s.id /\ s.issued <= v.created
    BY <1>3, <2>3, <2>4
  <2>6. ~Conflicting({u \in input.statuses : u.lineage = s.lineage})
    BY <1>4, <2>1, <2>4
  <2>7. \A u \in input.statuses : u.lineage = s.lineage => u.version <= s.version
    BY <1>4, <2>4
  <2>8. s.lineage = Root.lineage
    BY <1>1, <2>4
  <2> QED BY <1>1, <1>3, <2>3, <2>4, <2>5, <2>6, <2>7, <2>8 DEF GrantedBy
<1>6. ASSUME NEW s \in input.statuses, GrantedBy(s, Root, C, input.statuses, input.now)
      PROVE  StatusReasons = {} /\ Controlling # {}
  <2>1. s \in Relevant
    BY <1>6 DEF GrantedBy, Relevant
  <2>2. ~Conflicting(Relevant) /\ \A u \in Relevant : u.version <= s.version
    BY <1>4, <1>6, <2>1 DEF GrantedBy, Relevant
  <2>3. Controlling = {s}
    <3>1. \A u \in Controlling : u \in Relevant /\ u.version = s.version
      BY <1>1, <2>1, <2>2 DEF Controlling
    <3> QED BY <2>1, <2>2, <3>1 DEF Controlling, Conflicting
  <2>4. ReasonsOf(s) = {}
    BY <1>3, <1>6, <2>1 DEF GrantedBy
  <2> QED BY <2>1, <2>2, <2>3, <2>4 DEF StatusReasons, Because
<1> QED BY <1>5, <1>6

LEMMA SoundInit == Init => SoundInv
BY DEF Init, SoundInv, Ended, Allowed, Undecided

\* One round without a reason extends what is clear by one handoff.
LEMMA ClearOne ==
  ASSUME GateType, SoundInv, JudgeHandoff, reasons' = {}
  PROVE  ClearFrom(index - 1)
<1>1. ClearFrom(index)
  BY DEF SoundInv, JudgeHandoff
<1>2. index \in DOMAIN chain /\ \A i \in DOMAIN chain : i > index - 1 => i = index \/ i > index
  BY InViews DEF JudgeHandoff, GateType, TypeOK
<1>3. /\ TimeReasons(chain[index]) = {}
      /\ index < Len(chain) => LinkReasons(chain[index + 1], chain[index]) = {}
  BY DEF JudgeHandoff
<1> QED BY <1>1, <1>2, <1>3 DEF ClearFrom

\* What the gate concludes ALLOW from is acceptable.
LEMMA ConcludeSound ==
  ASSUME GateType, PathInv, SoundInv, pc = "status", Controlling # {},
         reasons \cup ActionReasons \cup StatusReasons = {}
  PROVE  Accepting
<1> DEFINE C == {chain[i] : i \in DOMAIN chain}
           leaf == chain[1]
<1>1. reasons = {} /\ ActionReasons = {} /\ StatusReasons = {}
  OBVIOUS
<1>2. /\ Len(chain) \in Nat /\ DOMAIN chain = 1 .. Len(chain)
      /\ \A i \in DOMAIN chain : chain[i] \in input.views /\ chain[i] \in Views
      /\ Len(chain) \in DOMAIN chain /\ 1 \in DOMAIN chain /\ chain # <<>>
  BY InViews DEF Ended, GateType, TypeOK
<1>3. ClearFrom(0)
  BY <1>1 DEF SoundInv
<1>4. /\ \A i \in DOMAIN chain : chain[i].faults = {}
      /\ Root.previous = NoParent /\ Root.type = "delegation"
      /\ \A i \in 2 .. Len(chain) - 1 : chain[i].type = "delegation"
      /\ HasRootAuthority(Root)
      /\ \A i \in DOMAIN chain : chain[i].lineage = Root.lineage /\ chain[i].version = Root.version
  BY <1>3, NoChainReason DEF ClearFrom
<1>5. leaf \in C /\ Root \in C /\ C \subseteq input.views
  BY <1>2 DEF Root
<1>6. PICK s \in input.statuses : GrantedBy(s, Root, C, input.statuses, input.now)
  <2>1. \A v \in C : v.lineage = Root.lineage /\ v.version = Root.version
    BY <1>4
  <2> QED BY <1>1, <1>4, <2>1, NoStatusReason
<1>7. \A v \in C : InOrder(v, input.now)
  <2> TAKE v \in C
  <2>1. PICK i \in DOMAIN chain : v = chain[i]
    OBVIOUS
  <2>2. TimeReasons(v) = {} /\ v \in Views /\ v.faults = {}
    BY <1>2, <1>3, <1>4, <2>1 DEF ClearFrom
  <2>3. Covers(v.scope)
    BY <1>1, <2>1, NoActionReason
  <2> QED BY <2>2, <2>3, NoTimeReason DEF InOrder
<1>8. ChainTo(leaf, Root, C, input.views)
  <2>1. {v \in input.views : IsLeaf(v)} = {leaf}
    BY <1>2 DEF PathInv, WalkIsPath, Leaves
  <2>2. leaf # Root
    <3>1. leaf.type = "action_intent"
      BY <2>1 DEF IsLeaf
    <3> QED BY <1>4, <3>1
  <2>3. {v \in C : v.previous = NoParent} = {Root}
    BY <1>2 DEF SoundInv, Ended, Root
  <2>4. ASSUME NEW v \in C \ {leaf} PROVE v.type = "delegation"
    <3>1. PICK i \in DOMAIN chain : v = chain[i]
      BY <2>4
    <3>2. i # 1
      BY <2>4, <3>1
    <3>3. i = Len(chain) \/ i \in 2 .. Len(chain) - 1
      BY <1>2, <3>2
    <3> QED BY <1>4, <3>1, <3>3 DEF Root
  <2>5. ASSUME NEW v \in C \ {leaf} PROVE \E w \in C : w.previous = v.interaction
    <3>1. PICK i \in DOMAIN chain : v = chain[i]
      BY <2>5
    <3>2. i > 1 /\ i - 1 \in DOMAIN chain
      BY <1>2, <2>5, <3>1
    <3>3. Parents(input.views, chain[i - 1]) = {v}
      BY <3>1, <3>2 DEF PathInv, WalkIsPath
    <3> QED BY <3>2, <3>3 DEF Parents
  <2>6. ASSUME NEW v \in C \ {Root}
        PROVE  \E p \in C : Parents(input.views, v) = {p} /\ Handed(p, v)
    <3>1. PICK i \in DOMAIN chain : v = chain[i]
      BY <2>6
    <3>2. i # Len(chain)
      BY <2>6, <3>1 DEF Root
    <3>3. i + 1 \in DOMAIN chain /\ i + 1 > 1 /\ i < Len(chain) /\ i > 0 /\ (i + 1) - 1 = i
      BY <1>2, <3>2
    <3>4. Parents(input.views, v) = {chain[i + 1]}
      BY <3>1, <3>3 DEF PathInv, WalkIsPath
    <3>5. LinkReasons(chain[i + 1], v) = {}
      BY <1>3, <3>1, <3>3 DEF ClearFrom
    <3> QED BY <1>2, <3>1, <3>3, <3>4, <3>5, NoLinkReason
  <2> QED BY <1>5, <2>1, <2>2, <2>3, <2>4, <2>5, <2>6 DEF ChainTo
<1>9. input.barrier = "none" /\ PreparationReasons = {}
  BY DEF SoundInv, GateType, Admitted
<1> QED BY <1>5, <1>6, <1>7, <1>8, <1>9 DEF Accepting, Acceptable

\* What is clear is so while input and chain stay as they are.
LEMMA ClearStays ==
  ASSUME UNCHANGED <<input, chain>>
  PROVE  /\ ChainReasons' = ChainReasons
         /\ \A k : ClearFrom(k)' <=> ClearFrom(k)
<1>1. ChainReasons' = ChainReasons
  BY DEF ChainReasons, Root, Because, HasRootAuthority
<1>2. \A v : TimeReasons(v)' = TimeReasons(v)
  BY DEF TimeReasons, Because
<1> QED BY <1>1, <1>2 DEF ClearFrom, LinkReasons, Because, Narrower

LEMMA SoundNext == GateType /\ PathInv /\ SoundInv /\ [Next]_vars => SoundInv'
<1> SUFFICES ASSUME GateType, PathInv, SoundInv, [Next]_vars PROVE SoundInv'
  OBVIOUS
<1>1. pc # "done" => ~Allowed
  BY DEF GateType, TypeOK, Allowed
<1>2. ASSUME NEW why, Pause(why) PROVE SoundInv'
  BY <1>2 DEF Pause, SoundInv, Ended, Allowed
<1>3. CASE Admit
  <2>1. CASE input.barrier = "none" /\ pc' = "leaf" /\ UNCHANGED <<reasons, decision>>
    <3>1. chain' = <<>> /\ input' = input
      BY <1>3 DEF Admit, PathInv, WalkAhead
    <3>2. ~Allowed'
      BY <1>1, <1>3, <2>1 DEF Admit, Allowed
    <3> QED BY <2>1, <3>1, <3>2 DEF SoundInv, Ended
  <2> QED BY <1>2, <1>3, <2>1 DEF Admit
<1>4. CASE FindLeaf
  <2>1. CASE pc' = "walk" /\ UNCHANGED <<reasons, decision>>
    BY <1>1, <1>4, <2>1 DEF FindLeaf, SoundInv, Ended, Allowed
  <2> QED BY <1>2, <1>4, <2>1 DEF FindLeaf
<1>5. CASE WalkIntoCycle
  BY <1>2, <1>5 DEF WalkIntoCycle
<1>6. CASE WalkToParent
  <2>1. \A i \in DOMAIN chain' : chain'[i].previous # NoParent
    <3>1. current \in input.views /\ chain \in Seq(input.views)
      BY <1>6 DEF WalkToParent, GateType, TypeOK
    <3>2. \A i \in DOMAIN chain' : i \in DOMAIN chain \/ i = Len(chain) + 1
      BY <1>6, <3>1, Appended DEF WalkToParent
    <3>3. /\ \A i \in DOMAIN chain : chain'[i] = chain[i]
          /\ chain'[Len(chain) + 1] = current
      BY <1>6, <3>1, Appended DEF WalkToParent
    <3> QED BY <1>6, <3>2, <3>3 DEF WalkToParent, SoundInv
  <2> QED BY <1>1, <1>6, <2>1 DEF WalkToParent, SoundInv, Ended, Allowed
<1>7. CASE WalkAstray
  BY <1>2, <1>7 DEF WalkAstray
<1>8. CASE WalkToRoot
  <2>1. \A i \in DOMAIN chain' : chain'[i].previous = NoParent <=> i = Len(chain')
    <3>1. current \in input.views /\ chain \in Seq(input.views)
      BY <1>8 DEF WalkToRoot, GateType, TypeOK
    <3>2. /\ Len(chain') = Len(chain) + 1
          /\ \A i \in DOMAIN chain' : i \in DOMAIN chain \/ i = Len(chain) + 1
          /\ \A i \in DOMAIN chain : i # Len(chain) + 1
      BY <1>8, <3>1, Appended DEF WalkToRoot
    <3>3. /\ \A i \in DOMAIN chain : chain'[i] = chain[i]
          /\ chain'[Len(chain) + 1] = current
      BY <1>8, <3>1, Appended DEF WalkToRoot
    <3> QED BY <1>8, <3>2, <3>3 DEF WalkToRoot, SoundInv
  <2> QED BY <1>1, <1>8, <2>1 DEF WalkToRoot, SoundInv, Ended, Allowed
<1>9. CASE JudgeChain
  <2>1. reasons' = {} => ClearFrom(Len(chain))
    BY <1>9, InViews DEF JudgeChain, ClearFrom
  <2>2. reasons' = {} => ClearFrom(Len(chain))'
    BY <1>9, <2>1, ClearStays DEF JudgeChain
  <2>3. reasons' = {} => ClearFrom(index)'
    BY <1>9, <2>2 DEF JudgeChain, ClearFrom
  <2> QED BY <1>1, <1>9, <2>3 DEF JudgeChain, SoundInv, Ended, Allowed
<1>10. CASE JudgeHandoff
  <2>1. reasons' = {} => ClearFrom(index - 1)
    BY <1>10, ClearOne
  <2>2. \A k : ClearFrom(k) => ClearFrom(k)'
    BY <1>10, ClearStays DEF JudgeHandoff
  <2>3. reasons' = {} => ClearFrom(index)'
    <3>1. PICK k : k = index - 1
      OBVIOUS
    <3>2. reasons' = {} => ClearFrom(k)'
      BY <2>1, <2>2, <3>1
    <3>3. index' = k
      BY <1>10, <3>1 DEF JudgeHandoff
    <3> QED BY <3>2, <3>3 DEF ClearFrom
  <2>4. pc' = "status" => index' = 0
    BY <1>10 DEF JudgeHandoff
  <2>5. pc' \in {"handoffs", "status"} /\ Ended
    BY <1>10 DEF JudgeHandoff, Ended
  <2>6. pc' = "status" /\ reasons' = {} => ClearFrom(0)'
    BY <2>3, <2>4 DEF ClearFrom
  <2> QED BY <1>1, <1>10, <2>3, <2>5, <2>6 DEF JudgeHandoff, SoundInv, Ended, Allowed
<1>11. CASE Conclude
  <2>1. ASSUME reasons \cup ActionReasons \cup StatusReasons = {}, Controlling # {},
               pc' = "done", input' = input
        PROVE  SoundInv'
    <3>1. Accepting
      BY <1>11, <2>1, ConcludeSound DEF Conclude
    <3>2. Accepting'
      BY <2>1, <3>1 DEF Accepting, PreparationReasons
    <3> QED BY <2>1, <3>2 DEF SoundInv, Ended
  <2> QED BY <1>2, <1>11, <2>1 DEF Conclude
<1>12. CASE UNCHANGED vars
  <2>1. UNCHANGED <<input, pc, chain, index, reasons, decision>>
    BY <1>12 DEF vars
  <2>2. /\ ClearFrom(0)' <=> ClearFrom(0)
        /\ ClearFrom(index)' <=> ClearFrom(index)
    <3>1. ClearFrom(0)' <=> ClearFrom(0)
      BY <2>1, ClearStays
    <3>2. \A k : ClearFrom(k)' <=> ClearFrom(k)
      BY <2>1, ClearStays
    <3> QED BY <2>1, <3>1, <3>2 DEF ClearFrom
  <2> QED BY <2>1, <2>2 DEF SoundInv, Ended, Allowed, Accepting, PreparationReasons
<1> QED BY <1>3, <1>4, <1>5, <1>6, <1>7, <1>8, <1>9, <1>10, <1>11, <1>12 DEF Next

LEMMA CompleteInit == Init => CompleteInv
<1> SUFFICES ASSUME Init, NEW C \in SUBSET input.views, NEW root \in C
             PROVE  Guided(C, root)
  BY DEF CompleteInv
<1>1. pc = "admit" /\ chain = <<>> /\ DOMAIN chain = {} /\ reasons = {}
  BY DEF Init
<1> QED BY <1>1 DEF Guided, Ended

\* The parent of a handoff of the chain, other than the root, is in it, is the
\* only one, and has more hops to give.
LEMMA ParentIn ==
  ASSUME NEW C, NEW leaf, NEW root, NEW s, Basis(C, leaf, root, s),
         NEW v \in C, v.previous # NoParent
  PROVE  \E p \in C : /\ Parents(input.views, v) = {p} /\ Handed(p, v)
                      /\ v.scope.hops < p.scope.hops
BY DEF Basis, ChainTo, Handed, Narrower

\* A chain in order gives the loops no reason to pause.
LEMMA NoReasonInOrder ==
  ASSUME GateType, PathInv, SoundInv, NEW C \in SUBSET input.views, NEW leaf, NEW root, NEW s,
         Basis(C, leaf, root, s), Guided(C, root), Ended
  PROVE  /\ ChainReasons = {} /\ ActionReasons = {}
         /\ \A i \in DOMAIN chain :
              /\ TimeReasons(chain[i]) = {}
              /\ i < Len(chain) => LinkReasons(chain[i + 1], chain[i]) = {}
<1>1. /\ Len(chain) \in Nat /\ DOMAIN chain = 1 .. Len(chain)
      /\ \A i \in DOMAIN chain : chain[i] \in input.views /\ chain[i] \in Views
      /\ Len(chain) \in DOMAIN chain /\ 1 \in DOMAIN chain /\ chain # <<>>
  BY InViews DEF Ended, GateType, TypeOK
<1>2. Root = root /\ \A i \in DOMAIN chain : chain[i] \in C
  BY DEF Guided
<1>3. chain[1] = leaf /\ leaf # root
  BY <1>1 DEF PathInv, WalkIsPath, Leaves, Basis, ChainTo
<1>4. \A i \in DOMAIN chain : i # 1 => chain[i].type = "delegation"
  <2> SUFFICES ASSUME NEW i \in DOMAIN chain, i # 1 PROVE chain[i].type = "delegation"
    OBVIOUS
  <2>1. chain[i] # leaf
    BY <1>1, <1>3 DEF PathInv, WalkIsPath
  <2> QED BY <1>2, <2>1 DEF Basis, ChainTo
<1>5. ChainReasons = {}
  <2>1. \A i \in DOMAIN chain : chain[i].faults = {}
    BY <1>2 DEF Basis, InOrder
  <2>2. Len(chain) # 1
    BY <1>2, <1>3 DEF Root
  <2>3. Root.previous = NoParent /\ Root.type = "delegation" /\ HasRootAuthority(Root)
    BY <1>1, <1>2, <1>4, <2>2 DEF Root, Basis, ChainTo, GrantedBy
  <2>4. \A i \in 2 .. Len(chain) - 1 : chain[i].type = "delegation"
    BY <1>1, <1>4
  <2>5. \A i \in DOMAIN chain : chain[i].lineage = Root.lineage /\ chain[i].version = Root.version
    BY <1>2 DEF Basis, GrantedBy
  <2> QED BY <2>1, <2>3, <2>4, <2>5, NoChainReason
<1>6. ActionReasons = {}
  BY <1>2, NoActionReason DEF Basis, InOrder
<1>7. ASSUME NEW i \in DOMAIN chain PROVE TimeReasons(chain[i]) = {}
  <2>1. InOrder(chain[i], input.now) /\ chain[i] \in Views
    BY <1>1, <1>2 DEF Basis
  <2> QED BY <2>1, NoTimeReason DEF InOrder
<1>8. ASSUME NEW i \in DOMAIN chain, i < Len(chain)
      PROVE  LinkReasons(chain[i + 1], chain[i]) = {}
  <2>1. chain[i].previous # NoParent
    BY <1>1, <1>8 DEF SoundInv
  <2>2. PICK p \in C : Parents(input.views, chain[i]) = {p} /\ Handed(p, chain[i])
    BY <1>2, <2>1, ParentIn
  <2>3. i + 1 \in DOMAIN chain /\ i + 1 > 1 /\ (i + 1) - 1 = i
    BY <1>1, <1>8
  <2>4. Parents(input.views, chain[i]) = {chain[i + 1]}
    BY <2>3 DEF PathInv, WalkIsPath
  <2> QED BY <1>1, <2>2, <2>3, <2>4, NoLinkReason
<1> QED BY <1>5, <1>6, <1>7, <1>8

\* Nor do the statuses.
LEMMA ConcludeComplete ==
  ASSUME GateType, PathInv, SoundInv, NEW C \in SUBSET input.views, NEW leaf, NEW root,
         NEW s \in input.statuses,
         Basis(C, leaf, root, s), Guided(C, root), pc = "status"
  PROVE  StatusReasons = {}
<1> DEFINE D == {chain[i] : i \in DOMAIN chain}
<1>1. D \subseteq C /\ Root = root
  BY DEF Guided, Ended
<1>2. GrantedBy(s, Root, D, input.statuses, input.now)
  BY <1>1 DEF Basis, GrantedBy
<1>3. HasRootAuthority(Root) /\ \A v \in D : v.lineage = Root.lineage /\ v.version = Root.version
  BY <1>2 DEF GrantedBy
<1> QED BY <1>2, <1>3, NoStatusReason

LEMMA GuidedNext ==
  ASSUME GateType, PathInv, SoundInv, NEW C \in SUBSET input.views, NEW leaf \in C,
         NEW root \in C, NEW s \in input.statuses,
         Basis(C, leaf, root, s), Guided(C, root), Next
  PROVE  Guided(C, root)'
<1>1. /\ chain \in Seq(input.views)
      /\ reasons = {}
  BY DEF GateType, TypeOK, Guided
<1>2. CASE Admit
  <2>1. pc' = "leaf" /\ UNCHANGED <<reasons, chain>>
    BY <1>2 DEF Admit, Basis, Pause
  <2> QED BY <2>1 DEF Guided, Ended
<1>3. CASE FindLeaf
  <2>1. Leaves = {leaf} /\ ~Several(Leaves)
    BY DEF Leaves, Basis, ChainTo, Several
  <2>2. current' = leaf /\ pc' = "walk" /\ UNCHANGED <<reasons, chain>>
    BY <1>3, <2>1 DEF FindLeaf
  <2>3. chain = <<>>
    BY <1>3 DEF FindLeaf, PathInv, WalkAhead
  <2> QED BY <2>2, <2>3 DEF Guided, Ended
<1>4. CASE WalkIntoCycle
  <2>1. PICK i \in DOMAIN chain : chain[i].interaction = current.interaction
    BY <1>4 DEF WalkIntoCycle, Visited
  <2>2. chain # <<>> /\ chain[i] \in input.views
    BY <1>1, <2>1
  <2>3. Parents(input.views, chain[Len(chain)]) = {current}
    BY <1>4, <2>2 DEF WalkIntoCycle, PathInv, WalkAhead
  <2>4. chain[i] = current
    BY <2>1, <2>2, <2>3 DEF Parents
  <2>5. current \in Views /\ current.scope.hops < current.scope.hops
    BY <1>4, <2>1, <2>4 DEF WalkIntoCycle, Guided, GateType, TypeOK
  <2>6. current.scope.hops \in Nat
    BY <2>5, ViewAssumption
  <2> QED BY <2>5, <2>6
<1>5. CASE WalkToParent
  <2>1. current \in C /\ pc = "walk"
    BY <1>5 DEF WalkToParent, Guided
  <2>2. PICK p \in C : Parents(input.views, current) = {p} /\ current.scope.hops < p.scope.hops
    BY <1>5, <2>1, ParentIn DEF WalkToParent
  <2>3. current' = p /\ pc' = "walk" /\ UNCHANGED reasons
    BY <1>5, <2>2 DEF WalkToParent
  <2>4. /\ \A i \in DOMAIN chain' : i \in DOMAIN chain \/ i = Len(chain) + 1
        /\ \A i \in DOMAIN chain : chain'[i] = chain[i]
        /\ chain'[Len(chain) + 1] = current
    BY <1>1, <1>5, <2>1, Appended DEF WalkToParent
  <2>5. \A i \in DOMAIN chain : chain[i].scope.hops < p.scope.hops
    <3> TAKE i \in DOMAIN chain
    <3>1. chain[i].scope.hops < current.scope.hops
      BY <2>1 DEF Guided
    <3>2. {chain[i], current, p} \subseteq Views
      BY <1>1, <2>1 DEF GateType, TypeOK
    <3>3. {chain[i].scope.hops, current.scope.hops, p.scope.hops} \subseteq Nat
      BY <3>2, ViewAssumption
    <3> QED BY <2>2, <3>1, <3>3
  <2>6. \A i \in DOMAIN chain' : chain'[i] \in C /\ chain'[i].scope.hops < p.scope.hops
    BY <2>1, <2>2, <2>4, <2>5 DEF Guided
  <2> QED BY <1>1, <2>1, <2>3, <2>6 DEF Guided, Ended
<1>6. CASE WalkAstray
  <2>1. current \in C /\ current.previous # NoParent
    BY <1>6 DEF WalkAstray, Guided
  <2>2. \E p \in C : Parents(input.views, current) = {p}
    BY <2>1, ParentIn
  <2>3. Parents(input.views, current) # {} /\ ~Several(Parents(input.views, current))
    BY <2>2 DEF Several
  <2> QED BY <1>6, <2>3 DEF WalkAstray
<1>7. CASE WalkToRoot
  <2>1. current \in C /\ current = root /\ pc = "walk"
    BY <1>7 DEF WalkToRoot, Guided, Basis, ChainTo
  <2>2. /\ \A i \in DOMAIN chain' : i \in DOMAIN chain \/ i = Len(chain) + 1
        /\ \A i \in DOMAIN chain : chain'[i] = chain[i]
        /\ chain'[Len(chain) + 1] = current
        /\ Len(chain') = Len(chain) + 1
    BY <1>1, <1>7, <2>1, Appended DEF WalkToRoot
  <2>3. pc' = "ends" /\ UNCHANGED reasons
    BY <1>7 DEF WalkToRoot
  <2>4. \A i \in DOMAIN chain' : chain'[i] \in C
    BY <2>1, <2>2 DEF Guided
  <2>5. Root' = root
    BY <2>1, <2>2 DEF Root
  <2> QED BY <1>1, <2>1, <2>3, <2>4, <2>5 DEF Guided, Ended
<1>8. CASE JudgeChain
  <2>1. ChainReasons = {}
    BY <1>8, NoReasonInOrder DEF JudgeChain, Ended
  <2> QED BY <1>8, <2>1 DEF JudgeChain, Guided, Ended, Root
<1>9. CASE JudgeHandoff
  <2>1. index \in DOMAIN chain /\ reasons = {}
    BY <1>1, <1>9 DEF JudgeHandoff, GateType, TypeOK
  <2>2. /\ TimeReasons(chain[index]) = {}
        /\ index < Len(chain) => LinkReasons(chain[index + 1], chain[index]) = {}
    BY <1>9, <2>1, NoReasonInOrder DEF JudgeHandoff, Ended
  <2>3. reasons' = {} /\ pc' \in {"handoffs", "status"} /\ chain' = chain
    BY <1>9, <2>1, <2>2 DEF JudgeHandoff
  <2> QED BY <1>9, <2>3 DEF JudgeHandoff, Guided, Ended, Root
<1>10. CASE Conclude
  <2>1. reasons \cup ActionReasons \cup StatusReasons = {}
    <3>1. pc = "status" /\ Ended
      BY <1>10 DEF Conclude, Ended
    <3>2. ActionReasons = {}
      BY <3>1, NoReasonInOrder
    <3>3. StatusReasons = {}
      BY <3>1, ConcludeComplete
    <3> QED BY <1>1, <3>2, <3>3
  <2>2. decision'.verdict = "ALLOW" /\ pc' = "done" /\ UNCHANGED <<reasons, chain>>
    BY <1>10, <2>1 DEF Conclude
  <2> QED BY <1>1, <1>10, <2>2 DEF Conclude, Guided, Ended, Allowed
<1> QED BY <1>2, <1>3, <1>4, <1>5, <1>6, <1>7, <1>8, <1>9, <1>10 DEF Next

LEMMA CompleteNext == GateType /\ PathInv /\ SoundInv /\ CompleteInv /\ [Next]_vars => CompleteInv'
<1> SUFFICES ASSUME GateType, PathInv, SoundInv, CompleteInv, [Next]_vars,
                    NEW C \in SUBSET input'.views, NEW leaf \in C, NEW root \in C,
                    NEW s \in input'.statuses, Basis(C, leaf, root, s)'
             PROVE  Guided(C, root)'
  BY DEF CompleteInv
<1>1. input' = input
  BY DEF Next, vars, Admit, FindLeaf, WalkIntoCycle, WalkToParent, WalkAstray, WalkToRoot,
         JudgeChain, JudgeHandoff, Conclude
<1>2. Basis(C, leaf, root, s)
  BY <1>1 DEF Basis, PreparationReasons, Because
<1>3. Guided(C, root)
  BY <1>1, <1>2 DEF CompleteInv
<1>4. CASE Next
  BY <1>1, <1>2, <1>3, <1>4, GuidedNext
<1>5. CASE UNCHANGED vars
  BY <1>3, <1>5 DEF vars, Guided, Ended, Allowed, Root
<1> QED BY <1>4, <1>5

\* Naturals up to N: what fails somewhere fails somewhere for the first time.
LEMMA FirstFailure ==
  ASSUME NEW N \in Nat, NEW Good \in SUBSET (0 .. N), 0 \in Good,
         \A n \in 1 .. N : n - 1 \in Good => n \in Good
  PROVE  Good = 0 .. N
<1> DEFINE Bad == (0 .. N) \ Good
           T == {1 .. i : i \in Bad}
<1>1. SUFFICES ASSUME Bad # {} PROVE FALSE
  OBVIOUS
<1>2. T \subseteq FiniteSubsetsOf(Nat) /\ T # {}
  <2>1. \A i \in Bad : 1 .. i \in SUBSET Nat /\ IsFiniteSet(1 .. i)
    BY FS_Interval
  <2> QED BY <1>1, <2>1 DEF FiniteSubsetsOf
<1>3. PICK x \in T : \A y \in T : <<y, x>> \notin StrictSubsetOrdering(Nat)
  BY <1>2, FS_StrictSubsetOrderingWellFounded, WFMin
<1>4. PICK n \in Bad : x = 1 .. n
  BY <1>3
<1>5. n \in 1 .. N /\ n - 1 \in Bad
  OBVIOUS
<1>6. 1 .. n - 1 \in T
  BY <1>5
<1>7. n \in 1 .. n /\ n \notin 1 .. n - 1 /\ 1 .. n - 1 \subseteq 1 .. n /\ 1 .. n \subseteq Nat
  BY <1>5
<1>8. <<1 .. n - 1, 1 .. n>> \in StrictSubsetOrdering(Nat)
  BY <1>7 DEF StrictSubsetOrdering
<1> QED BY <1>3, <1>4, <1>6, <1>8

\* The handoffs that carry the action are those of the chain and no others: any
\* other would have a child among the others, with fewer hops to give.
LEMMA OnlyTheChain ==
  ASSUME GateType, PathInv, SoundInv, NEW C \in SUBSET input.views, NEW leaf, NEW root,
         NEW s, Basis(C, leaf, root, s), Guided(C, root), Ended
  PROVE  C = {chain[i] : i \in DOMAIN chain}
<1> DEFINE D == {chain[i] : i \in DOMAIN chain}
<1>1. /\ Len(chain) \in Nat /\ DOMAIN chain = 1 .. Len(chain)
      /\ 1 \in DOMAIN chain /\ chain # <<>>
  BY InViews DEF Ended, GateType, TypeOK
<1>2. D \subseteq C /\ leaf \in D
  BY <1>1 DEF Guided, PathInv, WalkIsPath, Leaves, Basis, ChainTo
<1>3. \A v \in C : v \in input.views /\ v.scope.hops \in Nat /\ v.interaction # NoParent
  BY ViewAssumption DEF GateType, TypeOK
<1>4. ASSUME NEW v \in C \ D
      PROVE  \E w \in C \ D : w.scope.hops < v.scope.hops
  <2>1. PICK w \in C : w.previous = v.interaction
    BY <1>2, <1>4 DEF Basis, ChainTo
  <2>2. PICK p \in C : /\ Parents(input.views, w) = {p} /\ Handed(p, w)
                       /\ w.scope.hops < p.scope.hops
    BY <1>3, <1>4, <2>1, ParentIn
  <2>3. p = v
    BY <1>3, <1>4, <2>1, <2>2 DEF Parents
  <2>4. ASSUME NEW i \in DOMAIN chain, w = chain[i] PROVE FALSE
    <3>1. i # Len(chain)
      BY <1>1, <1>3, <1>4, <2>1, <2>4 DEF SoundInv
    <3>2. i + 1 \in DOMAIN chain /\ i + 1 > 1 /\ (i + 1) - 1 = i
      BY <1>1, <3>1
    <3>3. Parents(input.views, w) = {chain[i + 1]}
      BY <2>4, <3>2 DEF PathInv, WalkIsPath
    <3> QED BY <1>4, <2>2, <2>3, <3>2, <3>3
  <2> QED BY <2>2, <2>3, <2>4
<1>5. ASSUME NEW u \in C \ D PROVE FALSE
  <2> DEFINE N == u.scope.hops
             Good == {n \in 0 .. N : \A v \in C \ D : v.scope.hops > n}
  <2>1. N \in Nat /\ Good \in SUBSET (0 .. N)
    BY <1>3, <1>5
  <2> HIDE DEF D
  <2>2. 0 \in Good
    BY <1>3, <1>4, <2>1
  <2>3. ASSUME NEW n \in 1 .. N, n - 1 \in Good PROVE n \in Good
    <3> SUFFICES ASSUME NEW v \in C \ D PROVE v.scope.hops > n
      BY <2>1
    <3>1. PICK w \in C \ D : w.scope.hops < v.scope.hops
      BY <1>4
    <3>2. w.scope.hops > n - 1
      BY <2>3
    <3> QED BY <1>3, <2>1, <3>1, <3>2
  <2>4. N \notin Good
    BY <1>3, <1>5
  <2> HIDE DEF N, Good
  <2>5. Good = 0 .. N
    BY <2>1, <2>2, <2>3, FirstFailure
  <2> QED BY <2>1, <2>4, <2>5
<1> QED BY <1>2, <1>5

\* What the gate answers is determined by the evidence.
AnswerInv ==
  Allowed =>
    \A C \in SUBSET input.views : \A leaf, root \in C, s \in input.statuses :
      Basis(C, leaf, root, s) => decision = AnswerFor(C, root, s)

LEMMA ConcludeAnswers ==
  ASSUME GateType, PathInv, SoundInv, CompleteInv, Conclude, Allowed',
         NEW C \in SUBSET input.views, NEW leaf \in C, NEW root \in C,
         NEW s \in input.statuses, Basis(C, leaf, root, s)
  PROVE  decision' = AnswerFor(C, root, s)
<1>1. pc = "status" /\ Ended /\ Guided(C, root)
  BY DEF Conclude, Ended, CompleteInv
<1>2. Root = root /\ C = {chain[i] : i \in DOMAIN chain}
  BY <1>1, OnlyTheChain DEF Guided
<1>3. Controlling = {s}
  <2>1. /\ s \in Relevant /\ \A u \in Relevant : u.version <= s.version
        /\ ~Conflicting(Relevant) /\ \A u \in Relevant : u.version \in Nat
    <3>1. Relevant = {u \in input.statuses : u.lineage = s.lineage} /\ s \in Relevant
      BY <1>2 DEF Basis, GrantedBy, Relevant
    <3>2. Relevant \subseteq Statuses
      BY <3>1 DEF GateType, TypeOK
    <3> QED BY <3>1, <3>2, StatusAssumption DEF Basis, GrantedBy
  <2>2. \A u \in Controlling : u \in Relevant /\ u.version = s.version
    BY <2>1 DEF Controlling
  <2> QED BY <2>1, <2>2 DEF Controlling, Conflicting
<1>4. decision' = [verdict |-> "ALLOW", status |-> s, expires |-> Expiry(s),
                   scope |-> <<Root.lineage, Root.version>>,
                   observations |-> Observations]
  BY <1>3 DEF Conclude, Pause, Allowed
<1>5. /\ Expiry(s) = Earliest({input.now + PermitTTL, s.fresh} \cup {v.scope.until : v \in C})
      /\ Observations = UNION {BindingsOf(v) : v \in C}
  <2>1. {v.scope.until : v \in C} = {chain[i].scope.until : i \in DOMAIN chain}
    BY <1>2
  <2>2. {BindingsOf(v) : v \in C} = {BindingsOf(chain[i]) : i \in DOMAIN chain}
    BY <1>2
  <2> QED BY <2>1, <2>2 DEF Expiry, Observations
<1> QED BY <1>2, <1>4, <1>5 DEF AnswerFor

LEMMA AnswerNext ==
  GateType /\ PathInv /\ SoundInv /\ CompleteInv /\ AnswerInv /\ [Next]_vars => AnswerInv'
<1> SUFFICES ASSUME GateType, PathInv, SoundInv, CompleteInv, AnswerInv, [Next]_vars, Allowed',
                    NEW C \in SUBSET input'.views, NEW leaf \in C, NEW root \in C,
                    NEW s \in input'.statuses, Basis(C, leaf, root, s)'
             PROVE  decision' = AnswerFor(C, root, s)'
  BY DEF AnswerInv
<1>1. input' = input
  BY DEF Next, vars, Admit, FindLeaf, WalkIntoCycle, WalkToParent, WalkAstray, WalkToRoot,
         JudgeChain, JudgeHandoff, Conclude
<1>2. /\ Basis(C, leaf, root, s)
      /\ AnswerFor(C, root, s)' = AnswerFor(C, root, s)
  BY <1>1 DEF Basis, PreparationReasons, Because, AnswerFor
<1>3. CASE Conclude
  BY <1>1, <1>2, <1>3, ConcludeAnswers
<1>4. CASE ~Conclude
  <2>1. decision' = decision
    BY <1>4 DEF Next, vars, Allowed, Pause, Admit, FindLeaf, WalkIntoCycle, WalkToParent,
                WalkAstray, WalkToRoot, JudgeChain, JudgeHandoff
  <2> QED BY <1>1, <1>2, <2>1 DEF AnswerInv, Allowed
<1> QED BY <1>3, <1>4

\* For any input, whatever competes with the chain or breaks it, the gate allows
\* the action exactly if there is a chain in order for it, and asks for what
\* this chain calls for (AllowsExactlyTheAcceptable).
THEOREM AllowsExactly == Spec => []AllowsExactlyTheAcceptable
<1>1. GateType /\ SoundInv /\ CompleteInv /\ AnswerInv => AllowsExactlyTheAcceptable
  <2> SUFFICES ASSUME GateType, SoundInv, CompleteInv, AnswerInv
               PROVE  /\ decision.verdict # "NONE" => (Allowed <=> Accepting)
                      /\ Allowed => Accepting
                      /\ AnswerInv
    BY DEF AllowsExactlyTheAcceptable, Accepting, AnswerInv, Basis
  <2>1. decision.verdict # "NONE" => pc = "done"
    BY DEF GateType, Admitted, Undecided
  <2>2. ASSUME pc = "done", Accepting PROVE Allowed
    <3>1. PICK C \in SUBSET input.views : \E leaf, root \in C, s \in input.statuses :
            Basis(C, leaf, root, s)
      BY <2>2 DEF Accepting, Acceptable, Basis
    <3> QED BY <2>2, <3>1 DEF CompleteInv, Guided
  <2> QED BY <2>1, <2>2 DEF SoundInv
<1>2. Spec => []SoundInv
  BY SoundInit, SoundNext, PathInit, PathNext, GateTypeAlways, PTL DEF Spec
<1>3. Spec => []CompleteInv
  BY <1>2, CompleteInit, CompleteNext, PathInit, PathNext, GateTypeAlways, PTL DEF Spec
<1>4. Init => AnswerInv
  BY DEF Init, AnswerInv, Allowed, Undecided
<1>5. Spec => []AnswerInv
  BY <1>2, <1>3, <1>4, AnswerNext, PathInit, PathNext, GateTypeAlways, PTL DEF Spec
<1> QED BY <1>1, <1>2, <1>3, <1>5, GateTypeAlways, PTL

-----------------------------------------------------------------------------
(***************************************************************************)
(* The auditor.  What the gate pauses for tells how its walk has ended.    *)
(***************************************************************************)
WalkReasons ==
  {"LEAF_MISSING", "LEAF_AMBIGUOUS", "CHAIN_CYCLE", "PARENT_MISSING", "CHAIN_AMBIGUOUS"}

\* The walk has come to a root, to a gap, or to where it has been.
AtRoot == chain # <<>> /\ Root.previous = NoParent
AtGap == chain # <<>> /\ Root.previous # NoParent /\ Parents(input.views, Root) = {}
AtCircle ==
  /\ chain # <<>>
  /\ \E v \in input.views : Parents(input.views, Root) = {v} /\ v.interaction \in Visited

\* What was found against the chain, and nothing against the walk.
OfChain == ChainReasons \subseteq reasons /\ reasons \cap WalkReasons = {}

Outcome ==
  \/ Leaves = {} /\ reasons = {"LEAF_MISSING"}
  \/ Several(Leaves) /\ reasons = {"LEAF_AMBIGUOUS"}
  \/ AtCircle /\ reasons = {"CHAIN_CYCLE"}
  \/ AtGap /\ reasons = {"PARENT_MISSING"}
  \/ /\ \E v \in input.views : Several(Parents(input.views, v))
     /\ reasons = {"CHAIN_AMBIGUOUS"}
  \/ AtRoot /\ OfChain

OutcomeInv ==
  /\ IsFiniteSet(input.views)
  /\ Ended => AtRoot
  /\ pc \in {"handoffs", "status"} => OfChain
  /\ pc = "done" /\ input.barrier = "none" /\ PreparationReasons = {} => Outcome

LEMMA OutcomeInit == Init => OutcomeInv
BY DEF Init, OutcomeInv, Ended

LEMMA OutcomeStays ==
  ASSUME UNCHANGED <<input, chain>>
  PROVE  /\ (AtRoot' <=> AtRoot) /\ (AtGap' <=> AtGap) /\ (AtCircle' <=> AtCircle)
         /\ Leaves' = Leaves /\ ChainReasons' = ChainReasons
         /\ PreparationReasons' = PreparationReasons
BY ClearStays DEF AtRoot, AtGap, AtCircle, Leaves, Root, Visited, PreparationReasons

\* What the later steps add has nothing to do with the walk.
LEMMA OtherReasons ==
  /\ GateType => ChainReasons \cap WalkReasons = {}
  /\ \A v : TimeReasons(v) \cap WalkReasons = {}
  /\ \A p, v : LinkReasons(p, v) \cap WalkReasons = {}
  /\ ActionReasons \cap WalkReasons = {}
  /\ StatusReasons \cap WalkReasons = {}
<1>1. ASSUME GateType PROVE ChainReasons \cap WalkReasons = {}
  <2>1. \A i \in DOMAIN chain : chain[i].faults \subseteq PolicyFaults
    BY <1>1, InViews, ViewAssumption
  <2>2. (UNION {chain[i].faults : i \in DOMAIN chain}) \subseteq PolicyFaults
    BY <2>1
  <2>3. PolicyFaults \cap WalkReasons = {}
    BY DEF PolicyFaults, WalkReasons
  <2>4. ChainReasons \subseteq PolicyFaults \cup
          {"ROOT_NOT_DELEGATION", "INTERMEDIATE_NOT_DELEGATION", "ROOT_AUTHORITY_MISMATCH",
           "AUTHORITY_CHAIN_MISMATCH"}
    BY <2>2 DEF ChainReasons, Because
  <2> QED BY <2>3, <2>4 DEF WalkReasons
<1>2. \A v : TimeReasons(v) \cap WalkReasons = {}
  BY DEF TimeReasons, Because, WalkReasons
<1>3. \A p, v : LinkReasons(p, v) \cap WalkReasons = {}
  BY DEF LinkReasons, Because, WalkReasons
<1>4. ActionReasons \cap WalkReasons = {}
  BY DEF ActionReasons, Because, WalkReasons
<1>5. StatusReasons \cap WalkReasons = {}
  <2>1. \A s : ReasonsOf(s) \cap WalkReasons = {}
    BY DEF ReasonsOf, Because, WalkReasons
  <2>2. (UNION {ReasonsOf(s) : s \in Controlling}) \cap WalkReasons = {}
    BY <2>1
  <2>3. /\ Because(Relevant = {}, "STATUS_MISSING") \cap WalkReasons = {}
        /\ Because(Conflicting(Relevant), "STATUS_CONFLICT") \cap WalkReasons = {}
    BY DEF Because, WalkReasons
  <2> QED BY <2>2, <2>3 DEF StatusReasons
<1> QED BY <1>1, <1>2, <1>3, <1>4, <1>5

\* A pause in which the walk ends.
LEMMA WalkPauses ==
  ASSUME OutcomeInv, Next, NEW why, Pause(why), pc # "admit",
         input.barrier = "none" => Outcome'
  PROVE  OutcomeInv'
<1>1. input' = input
  BY DEF Next, Admit, FindLeaf, WalkIntoCycle, WalkToParent, WalkAstray, WalkToRoot,
         JudgeChain, JudgeHandoff, Conclude
<1> QED BY <1>1 DEF OutcomeInv, Ended, Pause

LEMMA OutcomeNext == GateType /\ PathInv /\ SoundInv /\ OutcomeInv /\ [Next]_vars => OutcomeInv'
<1> SUFFICES ASSUME GateType, PathInv, SoundInv, OutcomeInv, [Next]_vars PROVE OutcomeInv'
  OBVIOUS
<1>1. CASE Admit
  <2>1. input' = input /\ PreparationReasons' = PreparationReasons
    BY <1>1 DEF Admit, PreparationReasons
  <2> QED BY <1>1, <2>1 DEF Admit, Pause, OutcomeInv, Ended
<1>2. CASE FindLeaf
  <2>1. UNCHANGED <<input, chain>> /\ Leaves' = Leaves
    BY <1>2 DEF FindLeaf, Leaves
  <2> QED BY <1>2, <2>1 DEF FindLeaf, Pause, OutcomeInv, Ended, Outcome
<1>3. CASE WalkIntoCycle
  <2>1. UNCHANGED <<input, chain>> /\ reasons' = {"CHAIN_CYCLE"} /\ pc' = "done"
    BY <1>3 DEF WalkIntoCycle, Pause
  <2>2. chain # <<>>
    <3>1. Visited # {}
      BY <1>3 DEF WalkIntoCycle
    <3> QED BY <3>1 DEF Visited
  <2>3. AtCircle
    BY <1>3, <2>2 DEF WalkIntoCycle, AtCircle, PathInv, WalkAhead, Root, GateType, TypeOK
  <2>4. AtCircle'
    BY <2>1, <2>3, OutcomeStays
  <2> QED BY <2>1, <2>4 DEF OutcomeInv, Ended, Outcome
<1>4. CASE WalkToParent
  BY <1>4 DEF WalkToParent, OutcomeInv, Ended
<1>5. CASE WalkAstray
  <2>1. /\ chain \in Seq(input.views) /\ current \in input.views /\ input' = input
        /\ chain' = Append(chain, current)
    BY <1>5 DEF WalkAstray, GateType, TypeOK
  <2>2. chain' # <<>> /\ Root' = current
    BY <2>1, Appended DEF Root
  <2>3. CASE Parents(input.views, current) = {} /\ Pause({"PARENT_MISSING"})
    <3>1. AtGap'
      BY <1>5, <2>1, <2>2, <2>3 DEF AtGap, WalkAstray
    <3> QED BY <2>1, <2>3, <3>1 DEF Pause, OutcomeInv, Ended, Outcome
  <2>4. CASE Several(Parents(input.views, current)) /\ Pause({"CHAIN_AMBIGUOUS"})
    BY <2>1, <2>4 DEF Pause, OutcomeInv, Ended, Outcome
  <2> QED BY <1>5, <2>3, <2>4 DEF WalkAstray
<1>6. CASE WalkToRoot
  <2>1. /\ chain \in Seq(input.views) /\ current \in input.views /\ input' = input
        /\ chain' = Append(chain, current) /\ pc' = "ends"
    BY <1>6 DEF WalkToRoot, GateType, TypeOK
  <2>2. AtRoot'
    BY <1>6, <2>1, Appended DEF AtRoot, Root, WalkToRoot
  <2> QED BY <2>1, <2>2 DEF OutcomeInv
<1>7. CASE JudgeChain
  <2>1. /\ UNCHANGED <<input, chain>> /\ pc' = "handoffs" /\ pc = "ends"
        /\ reasons' = ChainReasons
    BY <1>7 DEF JudgeChain
  <2>2. OfChain' /\ AtRoot'
    BY <2>1, OutcomeStays, OtherReasons DEF OfChain, OutcomeInv, Ended
  <2> QED BY <2>1, <2>2 DEF OutcomeInv
<1>8. CASE JudgeHandoff
  <2>1. /\ UNCHANGED <<input, chain>> /\ pc' \in {"handoffs", "status"} /\ pc = "handoffs"
        /\ reasons' = reasons \cup TimeReasons(chain[index])
             \cup (IF index < Len(chain) THEN LinkReasons(chain[index + 1], chain[index])
                                         ELSE {})
    BY <1>8 DEF JudgeHandoff
  <2>2. OfChain' /\ AtRoot'
    BY <2>1, OutcomeStays, OtherReasons DEF OfChain, OutcomeInv, Ended
  <2> QED BY <2>1, <2>2 DEF OutcomeInv
<1>9. CASE Conclude
  <2>1. UNCHANGED <<input, chain>> /\ pc = "status" /\ pc' = "done"
    BY <1>9 DEF Conclude, Pause
  <2>2. \/ reasons' = reasons \cup ActionReasons \cup StatusReasons
        \/ reasons' = reasons
    BY <1>9 DEF Conclude, Pause
  <2>3. OfChain' /\ AtRoot'
    BY <2>1, <2>2, OutcomeStays, OtherReasons DEF OfChain, OutcomeInv, Ended
  <2> QED BY <2>1, <2>3 DEF OutcomeInv, Outcome, Ended
<1>10. CASE UNCHANGED vars
  <2>1. UNCHANGED <<input, chain, pc, reasons>>
    BY <1>10 DEF vars
  <2> QED BY <2>1, OutcomeStays DEF OutcomeInv, Outcome, OfChain, Ended
<1> QED BY <1>1, <1>2, <1>3, <1>4, <1>5, <1>6, <1>7, <1>8, <1>9, <1>10 DEF Next

-----------------------------------------------------------------------------
(***************************************************************************)
(* The auditor's walk, round by round.                                     *)
(***************************************************************************)
Onward(trail, V) ==
  LET next == Auditor!Parents(V, trail[Len(trail)])
  IN  IF next = {} THEN trail ELSE Append(trail, CHOOSE p \in next : TRUE)

Rounds(r, leaf, V, N) ==
  r = [n \in 0 .. N |-> IF n = 0 THEN <<leaf>> ELSE Onward(r[n - 1], V)]

\* The rounds can be gone through: the recursion of Ascent is well defined.
LEMMA RoundsExist ==
  ASSUME NEW leaf, NEW V, NEW N \in Nat PROVE \E r : Rounds(r, leaf, V, N)
<1> DEFINE Good == {n \in 0 .. N : \E f : Rounds(f, leaf, V, n)}
<1>1. 0 \in Good
  <2> DEFINE f == [k \in 0 .. 0 |-> <<leaf>>]
  <2>1. Rounds(f, leaf, V, 0)
    BY DEF Rounds
  <2> HIDE DEF f
  <2> QED BY <2>1
<1>2. ASSUME NEW n \in 1 .. N, n - 1 \in Good PROVE n \in Good
  <2>1. PICK f : Rounds(f, leaf, V, n - 1)
    BY <1>2
  <2> DEFINE g == [k \in 0 .. n |-> IF k = n THEN Onward(f[n - 1], V) ELSE f[k]]
  <2>2. \A k \in 0 .. n - 1 : g[k] = f[k]
    OBVIOUS
  <2>3. ASSUME NEW k \in 0 .. n
        PROVE  g[k] = IF k = 0 THEN <<leaf>> ELSE Onward(g[k - 1], V)
    <3>1. CASE k = n
      <4>1. n - 1 \in 0 .. n - 1 /\ n # 0
        OBVIOUS
      <4> QED BY <3>1, <4>1, <2>2
    <3>2. CASE k # n
      <4>1. k \in 0 .. n - 1 /\ (k # 0 => k - 1 \in 0 .. n - 1)
        BY <3>2
      <4>2. f[k] = IF k = 0 THEN <<leaf>> ELSE Onward(f[k - 1], V)
        BY <2>1, <4>1 DEF Rounds
      <4> QED BY <2>2, <4>1, <4>2
    <3> QED BY <3>1, <3>2
  <2>4. g = [k \in 0 .. n |-> g[k]]
    OBVIOUS
  <2> HIDE DEF g
  <2>5. Rounds(g, leaf, V, n)
    BY <2>3, <2>4 DEF Rounds
  <2> QED BY <2>5
<1> HIDE DEF Good
<1>3. Good = 0 .. N
  <2>1. Good \in SUBSET (0 .. N)
    BY DEF Good
  <2> QED BY <1>1, <1>2, <2>1, FirstFailure
<1> QED BY <1>3 DEF Good

\* The auditor's operators are those of the gate's module.
LEMMA SameOperators ==
  /\ \A S : Auditor!Cardinality(S) = Cardinality(S)
  /\ \A V, v : Auditor!Parents(V, v) = Parents(V, v)
  /\ \A v : Auditor!IsLeaf(v) <=> IsLeaf(v)
<1>1. \A S : Auditor!Cardinality(S) = Cardinality(S)
  BY Zenon DEF Auditor!Cardinality, Cardinality
<1> QED BY <1>1 DEF Auditor!Parents, Parents, Auditor!IsLeaf, IsLeaf

LEMMA AscentByRounds ==
  ASSUME NEW leaf, NEW V, Cardinality(V) \in Nat
  PROVE  \E r : /\ r[0] = <<leaf>>
                /\ \A n \in 1 .. Cardinality(V) : r[n] = Onward(r[n - 1], V)
                /\ Auditor!Ascent(leaf, V) = r[Cardinality(V)]
<1> DEFINE N == Cardinality(V)
           u == CHOOSE r : Rounds(r, leaf, V, N)
<1>1. Rounds(u, leaf, V, N)
  BY RoundsExist
<1>2. Auditor!Ascent(leaf, V) = u[N]
  BY SameOperators DEF Auditor!Ascent, Rounds, Onward
<1>3. N \in Nat
  OBVIOUS
<1> HIDE DEF u, N
<1>4. u[0] = <<leaf>> /\ \A n \in 1 .. N : u[n] = Onward(u[n - 1], V)
  BY <1>1, <1>3 DEF Rounds
<1> QED BY <1>2, <1>4 DEF N

\* Where every view has one parent at most, and the last of a path without a
\* choice has none, the auditor comes to the end of the path.
LEMMA AscentEnds ==
  ASSUME NEW V, Cardinality(V) \in Nat, NEW c \in Seq(V), c # <<>>,
         Len(c) <= Cardinality(V),
         \A i \in 1 .. Len(c) - 1 : Parents(V, c[i]) = {c[i + 1]},
         Parents(V, c[Len(c)]) = {}
  PROVE  Auditor!Ascent(c[1], V) = c
<1> DEFINE N == Cardinality(V)
           L == Len(c)
<1>1. PICK r : /\ r[0] = <<c[1]>>
               /\ \A n \in 1 .. N : r[n] = Onward(r[n - 1], V)
               /\ Auditor!Ascent(c[1], V) = r[N]
  BY AscentByRounds
<1>2. L \in Nat /\ L >= 1 /\ L <= N /\ N \in Nat /\ \A i \in 1 .. L : c[i] \in V
  OBVIOUS
<1> DEFINE Far(n) == IF n < L THEN n + 1 ELSE L
           Good == {n \in 0 .. N : /\ r[n] \in Seq(V) /\ Len(r[n]) = Far(n)
                                   /\ \A i \in 1 .. Far(n) : r[n][i] = c[i]}
<1>3. 0 \in Good
  <2>1. r[0] \in Seq(V) /\ Len(r[0]) = 1 /\ r[0][1] = c[1]
    BY <1>1, <1>2
  <2>2. Far(0) = 1 /\ 0 \in 0 .. N
    BY <1>2
  <2>3. \A i \in 1 .. Far(0) : r[0][i] = c[i]
    BY <2>1, <2>2
  <2> HIDE DEF Far
  <2> QED BY <2>1, <2>2, <2>3
<1>4. ASSUME NEW n \in 1 .. N, n - 1 \in Good PROVE n \in Good
  <2> DEFINE before == r[n - 1]
  <2>1. /\ before \in Seq(V) /\ Len(before) = Far(n - 1) /\ n - 1 \in 0 .. N
        /\ \A i \in 1 .. Far(n - 1) : before[i] = c[i]
        /\ r[n] = Onward(before, V)
    BY <1>1, <1>4
  <2>2. Far(n - 1) \in 1 .. L /\ before[Len(before)] = c[Far(n - 1)]
    BY <1>2, <2>1
  <2> HIDE DEF before
  <2>3. CASE n < L
    <3>1. Far(n - 1) = n /\ n \in 1 .. L - 1 /\ Far(n) = n + 1
      BY <1>2, <2>3
    <3>2. Parents(V, before[Len(before)]) = {c[n + 1]}
      BY <2>2, <3>1
    <3>3. r[n] = Append(before, c[n + 1])
      BY <2>1, <3>2, SameOperators DEF Onward
    <3>4. c[n + 1] \in V /\ Len(before) = n
      BY <1>2, <2>1, <3>1
    <3>5. \A i \in 1 .. n : before[i] = c[i]
      BY <2>1, <3>1
    <3>6. r[n] \in Seq(V) /\ Len(r[n]) = n + 1
      BY <2>1, <3>3, <3>4
    <3>7. ASSUME NEW i \in 1 .. n + 1 PROVE r[n][i] = c[i]
      BY <2>1, <3>3, <3>4, <3>5
    <3> HIDE DEF Far
    <3> QED BY <3>1, <3>6, <3>7
  <2>4. CASE ~(n < L)
    <3>1. Far(n - 1) = L /\ Far(n) = L
      BY <1>2, <2>4
    <3>2. Parents(V, before[Len(before)]) = {}
      BY <2>2, <3>1
    <3>3. r[n] = before
      BY <2>1, <3>2, SameOperators DEF Onward
    <3> HIDE DEF Far
    <3> QED BY <2>1, <3>1, <3>3
  <2> QED BY <2>3, <2>4
<1>5. Good = 0 .. N
  <2>1. Good \in SUBSET (0 .. N)
    OBVIOUS
  <2> HIDE DEF Good
  <2> QED BY <1>2, <1>3, <1>4, <2>1, FirstFailure
<1>6. r[N] \in Seq(V) /\ Len(r[N]) = L /\ \A i \in 1 .. L : r[N][i] = c[i]
  <2>1. N \in Good /\ Far(N) = L
    BY <1>2, <1>5
  <2> QED BY <2>1
<1>7. r[N] = c
  BY <1>2, <1>6
<1> QED BY <1>1, <1>7

\* Among views of which each has a parent among them the auditor goes up for as
\* long as it may.
LEMMA AscentCircles ==
  ASSUME NEW V, Cardinality(V) \in Nat, NEW S, NEW leaf \in S,
         \A v \in S : Parents(V, v) # {} /\ Parents(V, v) \subseteq S
  PROVE  /\ Auditor!Ascent(leaf, V) \in Seq(S)
         /\ Len(Auditor!Ascent(leaf, V)) = Cardinality(V) + 1
<1> DEFINE N == Cardinality(V)
<1>1. PICK r : /\ r[0] = <<leaf>>
               /\ \A n \in 1 .. N : r[n] = Onward(r[n - 1], V)
               /\ Auditor!Ascent(leaf, V) = r[N]
  BY AscentByRounds
<1> DEFINE Good == {n \in 0 .. N : r[n] \in Seq(S) /\ Len(r[n]) = n + 1}
<1>2. 0 \in Good
  <2>1. r[0] \in Seq(S) /\ Len(r[0]) = 1
    BY <1>1
  <2> QED BY <2>1
<1>3. ASSUME NEW n \in 1 .. N, n - 1 \in Good PROVE n \in Good
  <2> DEFINE before == r[n - 1]
             next == Parents(V, before[Len(before)])
             p == CHOOSE q \in next : TRUE
  <2>1. before \in Seq(S) /\ Len(before) = n /\ r[n] = Onward(before, V)
    BY <1>1, <1>3
  <2>2. before[Len(before)] \in S
    BY <2>1
  <2>3. p \in S /\ next # {}
    BY <2>2
  <2>4. r[n] = Append(before, p)
    BY <2>1, <2>3, SameOperators DEF Onward
  <2> HIDE DEF before, p
  <2> QED BY <2>1, <2>3, <2>4
<1>4. Good = 0 .. N
  <2>1. Good \in SUBSET (0 .. N)
    OBVIOUS
  <2> HIDE DEF Good
  <2> QED BY <1>2, <1>3, <2>1, FirstFailure
<1>5. N \in Good
  BY <1>4
<1> QED BY <1>1, <1>5

\* As many interactions as views: each has one of its own.
LEMMA OwnInteractions ==
  ASSUME NEW V, IsFiniteSet(V), Cardinality({v.interaction : v \in V}) = Cardinality(V)
  PROVE  \A v, w \in V : v.interaction = w.interaction => v = w
<1> DEFINE I == {v.interaction : v \in V}
           f == [v \in V |-> v.interaction]
<1>0. Cardinality(V) = Cardinality(I)
  OBVIOUS
<1>1. f \in Surjection(V, I)
  BY DEF Surjection
<1>2. f \in Injection(V, I)
  <2> HIDE DEF f, I
  <2> QED BY <1>0, <1>1, FS_SurjSameCardinalityImpliesInj
<1>3. \A v, w \in V : f[v] = f[w] => v = w
  BY <1>2 DEF Injection, IsInjective
<1> QED BY <1>3

\* A sequence without repetitions in a finite set is not longer than the set, and
\* it has as many members as places.
LEMMA NoLonger ==
  ASSUME NEW V, IsFiniteSet(V), NEW c \in Seq(V), \A i, j \in 1 .. Len(c) : c[i] = c[j] => i = j
  PROVE  /\ Len(c) <= Cardinality(V) /\ Cardinality(V) \in Nat
         /\ Cardinality({c[i] : i \in DOMAIN c}) = Len(c)
<1> DEFINE D == 1 .. Len(c)
           on == {c[i] : i \in DOMAIN c}
<1>1. Len(c) \in Nat /\ DOMAIN c = D /\ on \subseteq V
  OBVIOUS
<1>2. IsFiniteSet(D) /\ Cardinality(D) = Len(c)
  BY <1>1, FS_Interval
<1>3. c \in Injection(D, V)
  BY <1>1 DEF Injection, IsInjective
<1>4. c \in Surjection(D, on) /\ c \in Injection(D, on)
  BY <1>1 DEF Surjection, Injection, IsInjective
<1> HIDE DEF D, on
<1>5. Cardinality(D) <= Cardinality(V) /\ Cardinality(V) \in Nat
  BY <1>3, FS_Injection, FS_CardinalityType
<1>6. Cardinality(on) = Cardinality(D)
  BY <1>2, <1>4, FS_Surjection
<1> QED BY <1>2, <1>5, <1>6 DEF on

\* The auditor's answer where there is one leaf and no interaction is double.
LEMMA AuditOfPath ==
  ASSUME NEW leaf, NEW V, {v \in V : IsLeaf(v)} = {leaf},
         Auditor!StrictChain(V).reason # "DUPLICATE_INTERACTION"
  PROVE  Auditor!StrictChain(V).reason = Auditor!PathReason(Auditor!Ascent(leaf, V), V)
<1> DEFINE leaves == {v \in V : Auditor!IsLeaf(v)}
           trail == Auditor!Ascent(CHOOSE v \in leaves : TRUE, V)
           double == Auditor!Cardinality(Auditor!InteractionsOf(V)) # Auditor!Cardinality(V)
           why == Auditor!PathReason(trail, V)
<1>1. leaves = {leaf}
  BY SameOperators
<1>2. leaves # {} /\ ~(Auditor!Cardinality(leaves) > 1) /\ (CHOOSE v \in leaves : TRUE) = leaf
  <2>1. Cardinality({leaf}) = 1
    BY FS_Singleton
  <2> QED BY <1>1, <2>1, SameOperators
<1>3. \A w : Auditor!Unresolved(w).reason = w
  BY DEF Auditor!Unresolved
<1>4. Auditor!Resolved(trail).reason = "OK"
  BY DEF Auditor!Resolved
<1>5. Auditor!StrictChain(V) =
        IF double THEN Auditor!Unresolved("DUPLICATE_INTERACTION")
        ELSE IF why = "OK" THEN Auditor!Resolved(trail) ELSE Auditor!Unresolved(why)
  <2>1. Auditor!StrictChain(V) =
          IF double THEN Auditor!Unresolved("DUPLICATE_INTERACTION")
          ELSE IF leaves = {} THEN Auditor!Unresolved("LEAF_MISSING")
          ELSE IF Auditor!Cardinality(leaves) > 1 THEN Auditor!Unresolved("AMBIGUOUS_LEAF")
          ELSE IF why = "OK" THEN Auditor!Resolved(trail) ELSE Auditor!Unresolved(why)
    BY DEF Auditor!StrictChain
  <2> HIDE DEF double, why, leaves, trail
  <2> QED BY <2>1, <1>2
<1>6. why = Auditor!PathReason(Auditor!Ascent(leaf, V), V)
  BY <1>2
<1> HIDE DEF double, why, trail
<1> QED BY <1>3, <1>4, <1>5, <1>6

\* What the auditor says without walking.
LEMMA AuditOfLeaves ==
  ASSUME NEW V, IsFiniteSet(V), Auditor!StrictChain(V).reason # "DUPLICATE_INTERACTION"
  PROVE  /\ {v \in V : IsLeaf(v)} = {} => Auditor!StrictChain(V).reason = "LEAF_MISSING"
         /\ Several({v \in V : IsLeaf(v)}) => Auditor!StrictChain(V).reason = "AMBIGUOUS_LEAF"
         /\ \A v, w \in V : v.interaction = w.interaction => v = w
<1> DEFINE leaves == {v \in V : Auditor!IsLeaf(v)}
           double == Auditor!Cardinality(Auditor!InteractionsOf(V)) # Auditor!Cardinality(V)
           rest == LET path_ == Auditor!Ascent(CHOOSE v \in leaves : TRUE, V)
                   IN  IF Auditor!PathReason(path_, V) = "OK" THEN Auditor!Resolved(path_)
                       ELSE Auditor!Unresolved(Auditor!PathReason(path_, V))
<1>1. leaves = {v \in V : IsLeaf(v)}
  BY SameOperators
<1>2. \A w : Auditor!Unresolved(w).reason = w
  BY DEF Auditor!Unresolved
<1>3. Auditor!StrictChain(V) =
        IF double THEN Auditor!Unresolved("DUPLICATE_INTERACTION")
        ELSE IF leaves = {} THEN Auditor!Unresolved("LEAF_MISSING")
        ELSE IF Auditor!Cardinality(leaves) > 1 THEN Auditor!Unresolved("AMBIGUOUS_LEAF")
        ELSE rest
  BY DEF Auditor!StrictChain
<1>4. Several(leaves) => Auditor!Cardinality(leaves) > 1 /\ leaves # {}
  <2>1. IsFiniteSet(leaves) /\ Cardinality(leaves) \in Nat
    BY FS_Subset, FS_CardinalityType
  <2>2. Cardinality(leaves) = 1 => \E x : leaves = {x}
    BY <2>1, FS_Singleton
  <2>3. Several(leaves) => leaves # {} /\ Cardinality(leaves) # 0 /\ Cardinality(leaves) # 1
    BY <2>1, <2>2, FS_EmptySet DEF Several
  <2> HIDE DEF leaves
  <2> QED BY <2>1, <2>3, SameOperators
<1>5. ~double
  <2> HIDE DEF double, leaves, rest
  <2> QED BY <1>2, <1>3
<1>6. \A v, w \in V : v.interaction = w.interaction => v = w
  BY <1>5, SameOperators, OwnInteractions DEF Auditor!InteractionsOf
<1> HIDE DEF double, leaves, rest
<1> QED BY <1>1, <1>2, <1>3, <1>4, <1>5, <1>6

LEMMA AuditAtCircle ==
  ASSUME GateType, PathInv, OutcomeInv, AtCircle,
         Auditor!StrictChain(input.views).reason # "DUPLICATE_INTERACTION"
  PROVE  Auditor!StrictChain(input.views).reason = "CHAIN_CYCLE"
<1> DEFINE V == input.views
           S == {chain[i] : i \in DOMAIN chain}
           N == Cardinality(V)
           trail == Auditor!Ascent(chain[1], V)
           on == {trail[i] : i \in DOMAIN trail}
<1>1. /\ chain \in Seq(V) /\ Len(chain) \in Nat /\ DOMAIN chain = 1 .. Len(chain)
      /\ 1 \in DOMAIN chain /\ Len(chain) \in DOMAIN chain /\ S \subseteq V
  BY InViews DEF AtCircle, GateType, TypeOK
<1>2. IsFiniteSet(V) /\ N \in Nat
  BY FS_CardinalityType DEF OutcomeInv
<1>3. {v \in V : IsLeaf(v)} = {chain[1]}
  BY <1>1 DEF PathInv, WalkIsPath, Leaves
<1>4. \A v, w \in V : v.interaction = w.interaction => v = w
  BY <1>2, AuditOfLeaves
<1>5. ASSUME NEW v \in S PROVE Parents(V, v) # {} /\ Parents(V, v) \subseteq S
  <2>1. PICK i \in DOMAIN chain : v = chain[i]
    OBVIOUS
  <2>2. CASE i = Len(chain)
    <3>1. PICK w \in V : Parents(V, v) = {w} /\ w.interaction \in Visited
      BY <2>1, <2>2 DEF AtCircle, Root
    <3>2. PICK k \in DOMAIN chain : w.interaction = chain[k].interaction
      BY <3>1 DEF Visited
    <3>3. w = chain[k]
      BY <1>1, <1>4, <3>2
    <3> QED BY <3>1, <3>3
  <2>3. CASE i # Len(chain)
    <3>1. i + 1 \in DOMAIN chain /\ i + 1 > 1 /\ (i + 1) - 1 = i
      BY <1>1, <2>3
    <3>2. Parents(V, chain[i]) = {chain[i + 1]}
      BY <3>1 DEF PathInv, WalkIsPath
    <3> QED BY <2>1, <3>1, <3>2
  <2> QED BY <2>2, <2>3
<1>6. chain[1] \in S
  BY <1>1
<1>7. trail \in Seq(S) /\ Len(trail) = N + 1
  <2> HIDE DEF S
  <2> QED BY <1>2, <1>5, <1>6, AscentCircles
<1>8. Auditor!Cardinality(on) < Len(trail)
  <2>1. on \subseteq V
    <3> HIDE DEF trail, S
    <3> QED BY <1>1, <1>7
  <2>2. IsFiniteSet(on) /\ Cardinality(on) <= N /\ Cardinality(on) \in Nat
    <3> HIDE DEF on, V, trail
    <3> QED BY <1>2, <2>1, FS_Subset, FS_CardinalityType
  <2> HIDE DEF on, V, trail, N
  <2> QED BY <1>2, <1>7, <2>2, SameOperators
<1>9. Auditor!PathReason(trail, V) = "CHAIN_CYCLE"
  <2>1. Len(trail) > Auditor!Cardinality(on)
    <3>1. Auditor!Cardinality(on) = Cardinality(on)
      BY SameOperators
    <3> QED BY <1>8
  <2> HIDE DEF trail, V
  <2> QED BY <2>1 DEF Auditor!PathReason
<1> QED BY <1>3, <1>9, AuditOfPath

\* Where the path ends the auditor's is the gate's.
LEMMA AuditAtEnd ==
  ASSUME GateType, PathInv, OutcomeInv, chain # <<>>, Parents(input.views, Root) = {},
         Auditor!StrictChain(input.views).reason # "DUPLICATE_INTERACTION"
  PROVE  Auditor!StrictChain(input.views).reason =
           IF Root.previous # NoParent THEN "PARENT_MISSING"
           ELSE IF Root.type # "delegation" THEN "ROOT_INVALID"
           ELSE IF \E i \in 2 .. Len(chain) : chain[i].type # "delegation"
                THEN "INTERMEDIATE_INVALID"
           ELSE IF {chain[i] : i \in DOMAIN chain} # input.views
                THEN "EXTRA_OR_DISCONNECTED_HANDOFF" ELSE "OK"
<1> DEFINE V == input.views
           on == {chain[i] : i \in DOMAIN chain}
<1>1. /\ chain \in Seq(V) /\ Len(chain) \in Nat /\ DOMAIN chain = 1 .. Len(chain)
      /\ 1 \in DOMAIN chain
  BY InViews DEF GateType, TypeOK
<1>2. IsFiniteSet(V)
  BY DEF OutcomeInv
<1>3. {v \in V : IsLeaf(v)} = {chain[1]}
  BY <1>1 DEF PathInv, WalkIsPath, Leaves
<1>4. \A i, j \in 1 .. Len(chain) : chain[i] = chain[j] => i = j
  BY <1>1 DEF PathInv, WalkIsPath
<1>5. Len(chain) <= Cardinality(V) /\ Cardinality(V) \in Nat /\ Cardinality(on) = Len(chain)
  BY <1>1, <1>2, <1>4, NoLonger
<1>6. ASSUME NEW i \in 1 .. Len(chain) - 1 PROVE Parents(V, chain[i]) = {chain[i + 1]}
  <2>1. i + 1 \in DOMAIN chain /\ i + 1 > 1 /\ (i + 1) - 1 = i
    BY <1>1
  <2> QED BY <2>1 DEF PathInv, WalkIsPath
<1>7. Auditor!Ascent(chain[1], V) = chain
  BY <1>1, <1>5, <1>6, AscentEnds DEF Root
<1>8. ~(Len(chain) > Auditor!Cardinality(on))
  <2>1. Auditor!Cardinality(on) = Cardinality(on)
    BY SameOperators
  <2> HIDE DEF on
  <2> QED BY <1>1, <1>5, <2>1
<1>9. Auditor!StrictChain(V).reason = Auditor!PathReason(chain, V)
  BY <1>3, <1>7, AuditOfPath
<1> HIDE DEF V
<1> QED BY <1>8, <1>9, Zenon DEF Auditor!PathReason, Root, V

\* The gate's reasons answer what the auditor has found.
Answers(found) ==
  /\ Allowed => found \in {"OK", "EXTRA_OR_DISCONNECTED_HANDOFF"}
  /\ found = "OK" => {chain[i] : i \in DOMAIN chain} = input.views
  /\ \A why \in {"LEAF_MISSING", "CHAIN_CYCLE", "PARENT_MISSING"} :
       found = why <=> reasons = {why}
  /\ found = "AMBIGUOUS_LEAF" <=> reasons = {"LEAF_AMBIGUOUS"}
  /\ found = "ROOT_INVALID" => "ROOT_NOT_DELEGATION" \in reasons
  /\ found = "INTERMEDIATE_INVALID" => "INTERMEDIATE_NOT_DELEGATION" \in reasons

LEMMA AuditAnswered ==
  ASSUME GateType, PathInv, OutcomeInv,
         decision.verdict # "NONE", input.barrier = "none", PreparationReasons = {},
         Auditor!StrictChain(input.views).reason # "DUPLICATE_INTERACTION"
  PROVE  Answers(Auditor!StrictChain(input.views).reason)
<1> DEFINE V == input.views
           found == Auditor!StrictChain(V).reason
<1> SUFFICES Answers(found)
  OBVIOUS
<1>1. Outcome
  BY DEF OutcomeInv, GateType, Admitted, Undecided
<1>2. Allowed => reasons = {}
  BY DEF Allowed, GateType, TypeOK
<1>3. IsFiniteSet(V)
  BY DEF OutcomeInv
<1>4. \A v, w \in V : v.interaction = w.interaction => v = w
  BY <1>3, AuditOfLeaves
<1>5. CASE Leaves = {} /\ reasons = {"LEAF_MISSING"}
  <2>1. found = "LEAF_MISSING"
    BY <1>3, <1>5, AuditOfLeaves DEF Leaves
  <2> HIDE DEF found
  <2> QED BY <1>2, <1>5, <2>1 DEF Answers
<1>6. CASE Several(Leaves) /\ reasons = {"LEAF_AMBIGUOUS"}
  <2>1. found = "AMBIGUOUS_LEAF"
    BY <1>3, <1>6, AuditOfLeaves DEF Leaves
  <2> HIDE DEF found
  <2> QED BY <1>2, <1>6, <2>1 DEF Answers
<1>7. CASE AtCircle /\ reasons = {"CHAIN_CYCLE"}
  <2>1. found = "CHAIN_CYCLE"
    BY <1>7, AuditAtCircle
  <2> HIDE DEF found
  <2> QED BY <1>2, <1>7, <2>1 DEF Answers
<1>8. CASE AtGap /\ reasons = {"PARENT_MISSING"}
  <2>1. found = "PARENT_MISSING"
    BY <1>8, AuditAtEnd DEF AtGap
  <2> HIDE DEF found
  <2> QED BY <1>2, <1>8, <2>1 DEF Answers
<1>9. ASSUME NEW v \in V, Several(Parents(V, v)) PROVE FALSE
  BY <1>4, <1>9 DEF Several, Parents
<1>10. CASE AtRoot /\ OfChain
  <2>1. Parents(V, Root) = {}
    BY <1>10, ViewAssumption DEF AtRoot, Parents, GateType, TypeOK
  <2>2. found = IF Root.type # "delegation" THEN "ROOT_INVALID"
                ELSE IF \E i \in 2 .. Len(chain) : chain[i].type # "delegation"
                     THEN "INTERMEDIATE_INVALID"
                ELSE IF {chain[i] : i \in DOMAIN chain} # V
                     THEN "EXTRA_OR_DISCONNECTED_HANDOFF" ELSE "OK"
    BY <1>10, <2>1, AuditAtEnd DEF AtRoot
  <2>3. Root.type # "delegation" => "ROOT_NOT_DELEGATION" \in ChainReasons
    BY DEF ChainReasons, Because
  <2>4. Root.type = "delegation" /\ (\E i \in 2 .. Len(chain) : chain[i].type # "delegation")
          => "INTERMEDIATE_NOT_DELEGATION" \in ChainReasons
    <3> SUFFICES ASSUME Root.type = "delegation", NEW i \in 2 .. Len(chain),
                        chain[i].type # "delegation"
                 PROVE  "INTERMEDIATE_NOT_DELEGATION" \in ChainReasons
      OBVIOUS
    <3>1. i # Len(chain)
      BY DEF Root
    <3>2. Len(chain) \in Nat
      BY InViews
    <3>3. i \in 2 .. Len(chain) - 1
      BY <3>1, <3>2
    <3> QED BY <3>3 DEF ChainReasons, Because
  <2>5. Allowed => ChainReasons = {}
    BY <1>2, <1>10 DEF OfChain
  <2>6. \A why \in WalkReasons : reasons # {why}
    BY <1>10 DEF OfChain
  <2>7. ChainReasons \subseteq reasons
    BY <1>10 DEF OfChain
  <2> HIDE DEF found, V
  <2>8. found \in {"ROOT_INVALID", "INTERMEDIATE_INVALID", "EXTRA_OR_DISCONNECTED_HANDOFF", "OK"}
    BY <2>2
  <2>9. /\ found = "ROOT_INVALID" => "ROOT_NOT_DELEGATION" \in ChainReasons
        /\ found = "INTERMEDIATE_INVALID" => "INTERMEDIATE_NOT_DELEGATION" \in ChainReasons
        /\ found = "OK" => {chain[i] : i \in DOMAIN chain} = V
    BY <2>2, <2>3, <2>4
  <2> QED BY <2>5, <2>6, <2>7, <2>8, <2>9 DEF WalkReasons, V, Answers
<1> HIDE DEF found
<1> QED BY <1>1, <1>5, <1>6, <1>7, <1>8, <1>9, <1>10 DEF Outcome

\* The auditor's code, which walks on its own, makes out the chain the gate does
\* (AuditorSeesTheChain).
THEOREM AuditorAgrees == Spec => []AuditorSeesTheChain
<1>1. GateType /\ PathInv /\ OutcomeInv => AuditorSeesTheChain
  BY AuditAnswered DEF AuditorSeesTheChain, Answers
<1> QED BY <1>1, PathInit, PathNext, SoundInit, SoundNext, OutcomeInit, OutcomeNext,
           GateTypeAlways, PTL DEF Spec

-----------------------------------------------------------------------------
(***************************************************************************)
(* Termination.  A path without repetition is no longer than the input has *)
(* handoffs, so that there is a number of steps an evaluation cannot       *)
(* exceed.                                                                 *)
(***************************************************************************)
Short ==
  /\ Len(chain) \in Nat /\ Cardinality(input.views) \in Nat
  /\ Len(chain) <= Cardinality(input.views)

LEMMA PathIsShort == GateType /\ PathInv /\ OutcomeInv => Short
<1> SUFFICES ASSUME GateType, PathInv, OutcomeInv PROVE Short
  OBVIOUS
<1>1. chain \in Seq(input.views) /\ Len(chain) \in Nat /\ DOMAIN chain = 1 .. Len(chain)
  BY InViews DEF GateType, TypeOK
<1>2. \A i, j \in 1 .. Len(chain) : chain[i] = chain[j] => i = j
  BY <1>1 DEF PathInv, WalkIsPath
<1> QED BY <1>1, <1>2, NoLonger DEF OutcomeInv, Short

LEMMA StepsLeftAt ==
  LET n == Cardinality(input.views)
  IN  /\ pc = "admit" => StepsLeft = 2 * n + 5
      /\ pc = "leaf" => StepsLeft = 2 * n + 4
      /\ pc = "walk" => StepsLeft = 2 * n + 3 - Len(chain)
      /\ pc = "ends" => StepsLeft = Len(chain) + 2
      /\ pc = "handoffs" => StepsLeft = index + 1
      /\ pc = "status" => StepsLeft = 1
      /\ pc = "done" => StepsLeft = 0
BY DEF StepsLeft

LEMMA CloserNext ==
  ASSUME GateType, PathInv, Short, Short', Next
  PROVE  StepsLeft' \in 0 .. StepsLeft - 1
<1> DEFINE n == Cardinality(input.views)
<1>1. /\ Len(chain) \in Nat /\ n \in Nat /\ Len(chain) <= n
      /\ Len(chain') \in Nat /\ Cardinality(input'.views) \in Nat
      /\ Len(chain') <= Cardinality(input'.views)
  BY DEF Short
<1>2. input' = input
  BY DEF Next, Admit, FindLeaf, WalkIntoCycle, WalkToParent, WalkAstray, WalkToRoot,
         JudgeChain, JudgeHandoff, Conclude
<1>3. n' = n
  BY <1>2
<1>4. chain \in Seq(input.views) /\ index \in 0 .. Len(chain)
  BY DEF GateType, TypeOK
<1>5. pc # "done" => StepsLeft \in Nat \ {0}
  <2>1. pc = "handoffs" => index >= 1
    BY <1>1, <1>4 DEF GateType, TypeOK
  <2>2. pc \in {"admit", "leaf", "walk", "ends", "handoffs", "status", "done"} /\ index \in Nat
    BY <1>1, <1>4 DEF GateType, TypeOK
  <2> QED BY <1>1, <2>1, <2>2, StepsLeftAt
<1>6. ASSUME pc' = "done", pc # "done" PROVE StepsLeft' \in 0 .. StepsLeft - 1
  BY <1>5, <1>6 DEF StepsLeft
<1>7. CASE Admit
  BY <1>1, <1>3, <1>6, <1>7 DEF Admit, Pause, StepsLeft
<1>8. CASE FindLeaf
  <2>1. (pc' = "done") \/ (pc' = "walk" /\ chain' = chain)
    BY <1>8 DEF FindLeaf, Pause
  <2>2. chain = <<>>
    BY <1>8 DEF FindLeaf, PathInv, WalkAhead
  <2>3. Len(chain) = 0
    BY <2>2
  <2> QED BY <1>1, <1>3, <1>6, <1>8, <2>1, <2>3 DEF FindLeaf, StepsLeft
<1>9. CASE WalkIntoCycle \/ WalkAstray
  BY <1>6, <1>9 DEF WalkIntoCycle, WalkAstray, Pause
<1>10. CASE WalkToParent \/ WalkToRoot
  <2>1. Len(chain') = Len(chain) + 1
    <3>1. current \in input.views /\ chain' = Append(chain, current)
      BY <1>10 DEF WalkToParent, WalkToRoot, GateType, TypeOK
    <3> QED BY <1>4, <3>1
  <2>2. \/ pc = "walk" /\ pc' = "walk"
        \/ pc = "walk" /\ pc' = "ends"
    BY <1>10 DEF WalkToParent, WalkToRoot
  <2> QED BY <1>1, <1>3, <2>1, <2>2 DEF StepsLeft
<1>11. CASE JudgeChain
  BY <1>1, <1>11 DEF JudgeChain, StepsLeft
<1>12. CASE JudgeHandoff
  <2>1. index \in 1 .. Len(chain)
    BY <1>4, <1>1, <1>12 DEF JudgeHandoff, GateType, TypeOK
  <2>2. pc = "handoffs" /\ index' = index - 1 /\ pc' \in {"status", "handoffs"}
    BY <1>12 DEF JudgeHandoff
  <2>3. index \in Nat /\ index >= 1 /\ (pc' = "status" => index = 1)
    BY <1>1, <2>1, <1>12 DEF JudgeHandoff
  <2> QED BY <2>2, <2>3 DEF StepsLeft
<1>13. CASE Conclude
  BY <1>6, <1>13 DEF Conclude, Pause
<1> QED BY <1>7, <1>8, <1>9, <1>10, <1>11, <1>12, <1>13 DEF Next

\* Every evaluation is over after at most 2n + 5 steps, n being the number of
\* handoffs it is called with, circular or ambiguous as they may be.
THEOREM EvaluationEnds ==
  /\ Init => StepsLeft = 2 * Cardinality(input.views) + 5
  /\ Spec => ComesCloser
<1>1. Init => StepsLeft = 2 * Cardinality(input.views) + 5
  BY DEF Init, StepsLeft
<1>2. GateType /\ PathInv /\ Short /\ Short' /\ [Next]_vars
        => [StepsLeft' \in 0 .. StepsLeft - 1]_vars
  BY CloserNext
<1> QED BY <1>1, <1>2, PathIsShort, PathInit, PathNext, SoundInit, SoundNext, OutcomeInit,
           OutcomeNext, GateTypeAlways, PTL DEF Spec, ComesCloser

-----------------------------------------------------------------------------
(***************************************************************************)
(* On validated evidence (PreparedGate).  The validator's verdicts are its *)
(* invariant; here they become a fact about the views in the input: they   *)
(* are well knit.  A gate that walks over such views finds nothing broken. *)
(***************************************************************************)
Verdicts == INSTANCE HandoffRelationsProofs
              WITH Handoffs <- Views, ClockSkew <- ValidationSkew

LEMMA ValidatorSteps ==
  Verdicts!ReportInv /\ [Verdicts!Next]_validation => Verdicts!ReportInv'
<1>1. Verdicts!RelationInv /\ [Verdicts!Next]_validation => Verdicts!RelationInv'
  BY Verdicts!RelationNext, ViewAssumption, PreparedAssumption
     DEF IsFiniteSet, Verdicts!IsFiniteSet, validation, Verdicts!vars
<1>2. Verdicts!ReportInv /\ [Verdicts!Next]_validation
        => Verdicts!VerdictsInv' /\ Verdicts!ReportsTheUnfounded'
  BY Verdicts!VerdictsNext, ViewAssumption, PreparedAssumption
     DEF IsFiniteSet, Verdicts!IsFiniteSet, validation, Verdicts!vars
<1> QED BY <1>1, <1>2 DEF Verdicts!ReportInv

\* The two instances of the validator are one.
LEMMA SameValidator ==
  /\ Validator!Init => Verdicts!Init
  /\ Validator!Next => Verdicts!Next
<1> USE DEF Verdicts!Known, Validator!Known, Verdicts!Parent, Validator!Parent,
            Verdicts!OnPath, Validator!OnPath, Verdicts!Sound, Validator!Sound,
            Verdicts!Judged, Validator!Judged, Verdicts!Remember, Validator!Remember,
            Verdicts!LinkFailure, Validator!LinkFailure
<1>1. Validator!Init => Verdicts!Init
  BY DEF Validator!Init, Verdicts!Init
<1>2. Validator!StartWalk => Verdicts!StartWalk
  BY DEF Verdicts!StartWalk, Validator!StartWalk
<1>3. Validator!Walk => Verdicts!Walk
  BY DEF Verdicts!Walk, Validator!Walk
<1>4. Validator!EndWalk => Verdicts!EndWalk
  BY DEF Verdicts!EndWalk, Validator!EndWalk
<1>5. Validator!CirclesFound => Verdicts!CirclesFound
  BY DEF Verdicts!CirclesFound, Validator!CirclesFound
<1>6. Validator!Ask => Verdicts!Ask
  BY DEF Verdicts!Ask, Validator!Ask
<1>7. Validator!JudgeAlone => Verdicts!JudgeAlone
  BY DEF Verdicts!JudgeAlone, Validator!JudgeAlone
<1>8. Validator!Descend => Verdicts!Descend
  BY DEF Verdicts!Descend, Validator!Descend
<1>9. Validator!Ascend => Verdicts!Ascend
  BY DEF Verdicts!Ascend, Validator!Ascend
<1>10. Validator!Answer => Verdicts!Answer
  BY DEF Verdicts!Answer, Validator!Answer
<1>11. Validator!Report => Verdicts!Report
  BY DEF Verdicts!Report, Validator!Report
<1> QED BY <1>1, <1>2, <1>3, <1>4, <1>5, <1>6, <1>7, <1>8, <1>9, <1>10, <1>11
        DEF Validator!Next, Verdicts!Next

\* A handoff that hangs on its parent, and a set of views without loose ends,
\* rivals and circles.
Linked(p, v) ==
  /\ p.faults = {} /\ p.type = "delegation" /\ p.receiver = v.sender
  /\ p.decided <= v.created + ValidationSkew

WellKnit(V) ==
  /\ \A v \in V : v.interaction # NoParent
  /\ \A v \in V : IF v.previous = NoParent
                    THEN v.type = "delegation"
                    ELSE \E p \in V : Parents(V, v) = {p} /\ Linked(p, v)
  /\ \A S \in SUBSET V :
       {v.previous : v \in S} = {v.interaction : v \in S} => S = {}

\* Where the stages are, and what one leaves to the next.
Stages ==
  /\ Verdicts!ReportInv
  /\ \A n \in DOMAIN candidates : candidates[n].interaction = n
  /\ pc = "prepare" => /\ chain = <<>> /\ index = 0 /\ reasons = {}
                       /\ decision = Undecided
  /\ pc # "prepare" => /\ phase = "done" /\ input.barrier = "none"
                       /\ input.views = {candidates[n] : n \in validated}
                       /\ {i.reason : i \in issues} \subseteq input.issues
                       /\ invalid # {} => input.issues # {}

\* Without an issue everything was validated.
LEMMA AllValidated ==
  ASSUME Stages, pc # "prepare", input.issues = {}
  PROVE  /\ invalid = {} /\ issues = {} /\ validated = DOMAIN candidates
         /\ input.views = {candidates[n] : n \in DOMAIN candidates}
<1>1. issues = {} /\ invalid = {} /\ phase = "done"
  BY DEF Stages
<1>2. validated \subseteq DOMAIN candidates
  BY DEF Stages, Verdicts!ReportInv, Verdicts!RelationInv, Verdicts!TypeInv, Verdicts!TypeOK,
         Verdicts!Judged, Verdicts!Known
<1>3. DOMAIN candidates \subseteq validated
  BY <1>1 DEF Stages, Verdicts!ReportInv, Verdicts!ReportsTheUnfounded, Verdicts!Known
<1> QED BY <1>1, <1>2, <1>3 DEF Stages

LEMMA ValidatedIsKnit ==
  ASSUME Stages, pc # "prepare", input.issues = {}
  PROVE  WellKnit(input.views)
<1> DEFINE I == DOMAIN candidates
           c(n) == candidates[n]
<1>1. input.views = {c(n) : n \in I} /\ validated = I
  BY AllValidated
<1>2. \A n \in I : c(n).interaction = n
  BY DEF Stages
<1>3. \A n \in I :
        /\ ~Verdicts!Circular(n)
        /\ IF c(n).previous = NoParent THEN c(n).type = "delegation"
           ELSE c(n).previous \in I /\ Linked(c(c(n).previous), c(n))
  <2> TAKE n \in I
  <2>1. Verdicts!WellFounded(n)
    BY <1>1 DEF Stages, Verdicts!ReportInv, Verdicts!ReportsTheUnfounded
  <2>2. PICK S \in SUBSET I :
          /\ n \in S
          /\ \A m \in S :
               /\ ~Verdicts!Circular(m)
               /\ IF c(m).previous = NoParent
                    THEN c(m).type = "delegation"
                    ELSE /\ c(m).previous \in S
                         /\ Verdicts!HangsOn(c(c(m).previous), c(m))
    BY <2>1 DEF Verdicts!WellFounded, Verdicts!Known, Verdicts!Parent
  <2> QED BY <2>2 DEF Linked, Verdicts!HangsOn
<1>4. ASSUME NEW v \in input.views, v.previous # NoParent
      PROVE  \E p \in input.views : Parents(input.views, v) = {p} /\ Linked(p, v)
  <2>1. PICK n \in I : v = c(n)
    BY <1>1, <1>4
  <2>2. c(n).previous \in I /\ Linked(c(c(n).previous), c(n))
    BY <1>3, <1>4, <2>1
  <2>3. Parents(input.views, v) = {c(c(n).previous)}
    BY <1>1, <1>2, <2>1, <2>2 DEF Parents
  <2> QED BY <1>1, <2>1, <2>2, <2>3
<1>5. ASSUME NEW v \in input.views, v.previous = NoParent PROVE v.type = "delegation"
  BY <1>1, <1>3, <1>5
<1>6. ASSUME NEW S \in SUBSET input.views, S # {},
             {v.previous : v \in S} = {v.interaction : v \in S}
      PROVE  FALSE
  <2> DEFINE J == {v.interaction : v \in S}
  <2>1. \A v \in S : v.interaction \in I /\ v = c(v.interaction)
    BY <1>1, <1>2
  <2>2. J \subseteq I
    BY <2>1
  <2>3. {c(m).previous : m \in J} = {v.previous : v \in S}
    BY <2>1
  <2>4. PICK n \in J : TRUE
    BY <1>6
  <2>5. Verdicts!Circular(n)
    BY <1>6, <2>2, <2>3, <2>4 DEF Verdicts!Circular, Verdicts!Known, Verdicts!Parent
  <2> QED BY <1>3, <2>2, <2>5
<1>7. ASSUME NEW v \in input.views PROVE v.interaction # NoParent
  <2>1. I \subseteq Interactions
    BY DEF Stages, Verdicts!ReportInv, Verdicts!RelationInv, Verdicts!TypeInv,
           Verdicts!TypeOK, Verdicts!Known
  <2> QED BY <1>1, <1>2, <2>1, PreparedAssumption
<1> QED BY <1>4, <1>5, <1>6, <1>7 DEF WellKnit

\* The walk goes from linked to linked.
LEMMA ChainLinked ==
  ASSUME GateType, PathInv, WellKnit(input.views), NEW i \in DOMAIN chain, i > 1
  PROVE  Linked(chain[i], chain[i - 1]) /\ chain[i - 1].previous # NoParent
<1>1. Parents(input.views, chain[i - 1]) = {chain[i]}
  BY DEF PathInv, WalkIsPath
<1>2. i - 1 \in DOMAIN chain /\ chain[i - 1] \in input.views
  BY InViews
<1>3. chain[i - 1].previous # NoParent
  <2>1. chain[i] \in input.views /\ chain[i].interaction = chain[i - 1].previous
    BY <1>1 DEF Parents
  <2> QED BY <2>1 DEF WellKnit
<1> QED BY <1>1, <1>2, <1>3 DEF WellKnit

LEMMA SameImages ==
  ASSUME NEW S, \A v \in S : \E w \in S : v.previous = w.interaction,
                \A v \in S : \E w \in S : v.interaction = w.previous
  PROVE  {v.previous : v \in S} = {v.interaction : v \in S}
<1>1. ASSUME NEW x, \E v \in S : x = v.previous PROVE \E w \in S : x = w.interaction
  BY <1>1
<1>2. ASSUME NEW x, \E v \in S : x = v.interaction PROVE \E w \in S : x = w.previous
  BY <1>2
<1>3. \A x : x \in {v.previous : v \in S} <=> \E v \in S : x = v.previous
  OBVIOUS
<1>4. \A x : x \in {v.interaction : v \in S} <=> \E v \in S : x = v.interaction
  OBVIOUS
<1> QED BY <1>1, <1>2, <1>3, <1>4

\* A walk that comes to where it was has gone round a circle.
LEMMA NoCircle ==
  ASSUME GateType, PathInv, WellKnit(input.views), pc = "walk"
  PROVE  current.interaction \notin Visited
<1> SUFFICES ASSUME NEW k \in DOMAIN chain, chain[k].interaction = current.interaction
             PROVE  FALSE
  BY DEF Visited
<1> DEFINE n == Len(chain)
           S == {chain[j] : j \in k .. n}
<1>1. /\ n \in Nat /\ DOMAIN chain = 1 .. n /\ k \in 1 .. n
      /\ \A j \in 1 .. n : chain[j] \in input.views
  BY InViews
<1>2. chain # <<>> /\ n \in 1 .. n
  BY <1>1
<1>3. \A j \in k .. n : j # n => chain[j].previous = chain[j + 1].interaction
  <2> SUFFICES ASSUME NEW j \in k .. n, j # n
               PROVE  chain[j].previous = chain[j + 1].interaction
    OBVIOUS
  <2>1. j + 1 \in 1 .. n /\ j + 1 > 1 /\ (j + 1) - 1 = j
    BY <1>1
  <2>2. Parents(input.views, chain[j]) = {chain[j + 1]}
    BY <1>1, <2>1 DEF PathInv, WalkIsPath
  <2> QED BY <2>2 DEF Parents
<1>4. chain[n].previous = chain[k].interaction
  <2>1. Parents(input.views, chain[n]) = {current}
    BY <1>2 DEF PathInv, WalkAhead
  <2> QED BY <2>1 DEF Parents
<1>5. \A j \in k .. n : \E i \in k .. n : chain[j].previous = chain[i].interaction
  <2> TAKE j \in k .. n
  <2>1. CASE j = n
    BY <1>1, <1>4, <2>1
  <2>2. CASE j # n
    <3>1. j + 1 \in k .. n
      BY <1>1, <2>2
    <3> QED BY <1>3, <2>2, <3>1
  <2> QED BY <2>1, <2>2
<1>6. \A j \in k .. n : \E i \in k .. n : chain[j].interaction = chain[i].previous
  <2> TAKE j \in k .. n
  <2>1. CASE j = k
    BY <1>1, <1>4, <2>1
  <2>2. CASE j # k
    <3>1. j - 1 \in k .. n /\ j - 1 # n /\ (j - 1) + 1 = j
      BY <1>1, <2>2
    <3> QED BY <1>3, <3>1
  <2> QED BY <2>1, <2>2
<1>7. {v.previous : v \in S} = {v.interaction : v \in S}
  <2>1. \A v \in S : \E w \in S : v.previous = w.interaction
    BY <1>5
  <2>2. \A v \in S : \E w \in S : v.interaction = w.previous
    BY <1>6
  <2> QED BY <2>1, <2>2, SameImages
<1>8. S \in SUBSET input.views /\ S # {}
  BY <1>1
<1>9. \A D \in SUBSET input.views :
        {v.previous : v \in D} = {v.interaction : v \in D} => D = {}
  BY DEF WellKnit
<1> HIDE DEF S
<1> QED BY <1>7, <1>8, <1>9

\* Over views that are well knit no step of the gate finds something broken.
LEMMA NothingBroken ==
  ASSUME GateType, PathInv, SoundInv, WellKnit(input.views), input.issues = {},
         input.barrier = "none", reasons \cap BrokenChain = {}, Next
  PROVE  reasons' \cap BrokenChain = {}
<1>1. CASE Admit
  BY <1>1 DEF Admit, Pause, PreparationReasons, Because, BrokenChain
<1>2. CASE FindLeaf
  BY <1>2 DEF FindLeaf, Pause, BrokenChain
<1>3. CASE WalkIntoCycle
  BY <1>3, NoCircle DEF WalkIntoCycle
<1>4. CASE WalkToParent \/ WalkToRoot
  BY <1>4 DEF WalkToParent, WalkToRoot
<1>5. CASE WalkAstray
  <2>1. current \in input.views /\ current.previous # NoParent
    BY <1>5 DEF WalkAstray, GateType, TypeOK
  <2>2. \E p \in input.views : Parents(input.views, current) = {p}
    BY <2>1 DEF WellKnit
  <2> QED BY <1>5, <2>2 DEF WalkAstray, Several
<1>6. CASE JudgeChain
  <2>1. Ended /\ Len(chain) \in DOMAIN chain /\ Root \in input.views
    BY <1>6, InViews DEF JudgeChain, Ended
  <2>2. Root.previous = NoParent
    BY <2>1 DEF SoundInv, Root
  <2>3. Root.type = "delegation"
    BY <2>1, <2>2 DEF WellKnit
  <2>4. \A i \in 2 .. Len(chain) - 1 : chain[i].type = "delegation"
    <3> TAKE i \in 2 .. Len(chain) - 1
    <3>1. i \in DOMAIN chain /\ i > 1
      BY InViews
    <3> QED BY <3>1, ChainLinked DEF Linked
  <2>5. (UNION {chain[i].faults : i \in DOMAIN chain}) \cap BrokenChain = {}
    <3>1. \A i \in DOMAIN chain : chain[i].faults \subseteq PolicyFaults
      BY InViews, ViewAssumption
    <3>2. PolicyFaults \cap BrokenChain = {}
      BY DEF PolicyFaults, BrokenChain
    <3> QED BY <3>1, <3>2, Zenon
  <2>6. reasons' \subseteq (UNION {chain[i].faults : i \in DOMAIN chain})
                            \cup {"ROOT_AUTHORITY_MISMATCH", "AUTHORITY_CHAIN_MISMATCH"}
    BY <1>6, <2>2, <2>3, <2>4 DEF JudgeChain, ChainReasons, Because
  <2> QED BY <2>5, <2>6 DEF BrokenChain
<1>7. CASE JudgeHandoff
  <2>1. index \in DOMAIN chain
    BY <1>7 DEF JudgeHandoff, GateType, TypeOK
  <2>2. TimeReasons(chain[index]) \cap BrokenChain = {}
    BY DEF TimeReasons, Because, BrokenChain
  <2>3. ASSUME index < Len(chain)
        PROVE  LinkReasons(chain[index + 1], chain[index]) \cap BrokenChain = {}
    <3>1. index + 1 \in DOMAIN chain /\ index + 1 > 1 /\ (index + 1) - 1 = index
      BY <2>1, <2>3, InViews
    <3>2. PICK i \in DOMAIN chain : i = index + 1
      BY <3>1
    <3>3. chain[i].receiver = chain[i - 1].sender
      BY <3>1, <3>2, ChainLinked DEF Linked
    <3>4. chain[index + 1].receiver = chain[index].sender
      BY <3>1, <3>2, <3>3
    <3> QED BY <3>4 DEF LinkReasons, Because, BrokenChain
  <2> QED BY <1>7, <2>2, <2>3 DEF JudgeHandoff
<1>8. CASE Conclude
  <2>1. ActionReasons \cap BrokenChain = {}
    BY DEF ActionReasons, Because, BrokenChain
  <2>2. \A s : ReasonsOf(s) \cap BrokenChain = {}
    BY DEF ReasonsOf, Because, BrokenChain
  <2>3. StatusReasons \cap BrokenChain = {}
    BY <2>2 DEF StatusReasons, Because, BrokenChain
  <2> QED BY <1>8, <2>1, <2>3 DEF Conclude, Pause
<1> QED BY <1>1, <1>2, <1>3, <1>4, <1>5, <1>6, <1>7, <1>8 DEF Next

\* The gate's own invariants hold from the moment it is called.
PreparedInv ==
  /\ Stages
  /\ pc # "prepare" =>
       /\ GateType /\ PathInv /\ SoundInv
       /\ input.issues = {} => reasons \cap BrokenChain = {}

LEMMA PreparedInitial == PreparedInit => PreparedInv
<1> SUFFICES ASSUME PreparedInit PROVE PreparedInv
  OBVIOUS
<1>1. Verdicts!Init
  BY SameValidator DEF PreparedInit
<1>2. Verdicts!RelationInv
  BY <1>1, Verdicts!RelationInit, ViewAssumption, PreparedAssumption
     DEF IsFiniteSet, Verdicts!IsFiniteSet
<1>3. Verdicts!ReportInv
  BY <1>1, <1>2 DEF Verdicts!ReportInv, Verdicts!Init, Verdicts!VerdictsInv,
                    Verdicts!ReportsTheUnfounded
<1> QED BY <1>3 DEF PreparedInit, PreparedInv, Stages

LEMMA PreparedStep == PreparedInv /\ [PreparedNext]_allvars => PreparedInv'
<1> SUFFICES ASSUME PreparedInv, [PreparedNext]_allvars PROVE PreparedInv'
  OBVIOUS
<1>0. Stages /\ Verdicts!ReportInv
  BY DEF PreparedInv, Stages
<1>1. CASE Validate
  <2>1. /\ Verdicts!Next /\ UNCHANGED vars
        /\ [Verdicts!Next]_validation
    BY <1>1, SameValidator DEF Validate
  <2>2. Verdicts!ReportInv'
    BY <1>0, <2>1, ValidatorSteps
  <2>3. candidates' = candidates /\ phase # "done"
    BY <2>1 DEF Verdicts!Next, Verdicts!StartWalk, Verdicts!Walk, Verdicts!EndWalk,
                Verdicts!CirclesFound, Verdicts!Ask, Verdicts!JudgeAlone, Verdicts!Descend,
                Verdicts!Ascend, Verdicts!Answer, Verdicts!Report
  <2>4. pc = "prepare"
    BY <1>0, <2>3 DEF Stages
  <2> QED BY <1>0, <2>1, <2>2, <2>3, <2>4 DEF vars, PreparedInv, Stages
<1>2. CASE Prepare
  <2>1. /\ phase = "done" /\ pc = "prepare" /\ pc' = "admit"
        /\ UNCHANGED <<current, chain, index, reasons, decision>> /\ UNCHANGED validation
    BY <1>2 DEF Prepare
  <2>2. PICK S \in SUBSET Statuses, t \in 0 .. MaxTime, f \in SUBSET Issues :
          /\ invalid # {} => f # {}
          /\ input' = [views |-> {candidates[n] : n \in validated}, statuses |-> S,
                       now |-> t, barrier |-> "none",
                       issues |-> f \cup {i.reason : i \in issues}]
    BY <1>2 DEF Prepare
  <2>3. Verdicts!ReportInv'
    BY <1>0, <2>1, ValidatorSteps
  <2>4. Stages'
    BY <1>0, <2>1, <2>2, <2>3 DEF Stages, validation
  <2>5. /\ chain' = <<>> /\ DOMAIN chain' = {} /\ Len(chain') = 0
        /\ index' = 0 /\ reasons' = {} /\ decision' = Undecided
    BY <1>0, <2>1 DEF Stages
  <2>6. input'.views \subseteq Views
    <3>1. validated \subseteq DOMAIN candidates /\ \A n \in DOMAIN candidates : candidates[n] \in Views
      BY <1>0 DEF Verdicts!ReportInv, Verdicts!RelationInv, Verdicts!TypeInv, Verdicts!TypeOK,
                  Verdicts!Judged, Verdicts!Known
    <3> QED BY <2>2, <3>1
  <2>7. GateType'
    BY <2>1, <2>2, <2>5, <2>6 DEF GateType, TypeOK, Admitted, Undecided
  <2>8. PathInv'
    BY <2>1, <2>5 DEF PathInv, WalkIsPath, WalkAhead
  <2>9. SoundInv'
    BY <2>1, <2>5 DEF SoundInv, Ended, Allowed, Undecided
  <2> QED BY <2>4, <2>5, <2>7, <2>8, <2>9 DEF PreparedInv
<1>3. CASE Evaluate
  <2>1. Next /\ [Next]_vars /\ UNCHANGED validation
    BY <1>3 DEF Evaluate
  <2>2. pc # "prepare" /\ pc' # "prepare" /\ input' = input
    BY <2>1 DEF Next, Admit, FindLeaf, WalkIntoCycle, WalkToParent, WalkAstray, WalkToRoot,
                JudgeChain, JudgeHandoff, Conclude, Pause
  <2>3. Stages'
    <3>1. Verdicts!ReportInv'
      BY <1>0, <2>1, ValidatorSteps
    <3> QED BY <1>0, <2>1, <2>2, <3>1 DEF Stages, validation
  <2>4. GateType /\ PathInv /\ SoundInv
    BY <2>2 DEF PreparedInv
  <2>5. GateType' /\ PathInv' /\ SoundInv'
    BY <2>1, <2>4, GateTypeNext, PathNext, SoundNext
  <2>6. input.issues = {} => reasons' \cap BrokenChain = {}
    <3>1. input.barrier = "none" /\ (input.issues = {} => reasons \cap BrokenChain = {})
      BY <2>2 DEF PreparedInv, Stages
    <3> QED BY <1>0, <2>1, <2>2, <2>4, <3>1, ValidatedIsKnit, NothingBroken
  <2> QED BY <2>2, <2>3, <2>5, <2>6 DEF PreparedInv
<1>4. CASE UNCHANGED allvars
  <2>1. UNCHANGED vars /\ UNCHANGED validation /\ [Next]_vars
    BY <1>4 DEF allvars
  <2>2. pc' = pc /\ input' = input /\ reasons' = reasons
    BY <2>1 DEF vars
  <2>3. Stages'
    <3>1. Verdicts!ReportInv'
      BY <1>0, <2>1, ValidatorSteps
    <3> QED BY <1>0, <2>1, <3>1 DEF Stages, validation, vars
  <2>4. pc # "prepare" => GateType' /\ PathInv' /\ SoundInv'
    BY <2>1, GateTypeNext, PathNext, SoundNext DEF PreparedInv
  <2> QED BY <2>2, <2>3, <2>4 DEF PreparedInv
<1> QED BY <1>1, <1>2, <1>3, <1>4 DEF PreparedNext

\* What the validator lets pass without an issue never gives the gate a reason
\* to call the chain broken, for any graph of handoffs.
THEOREM NoBrokenChain == PreparedSpec => []GateFindsNoBrokenChain
<1>1. PreparedInv => GateFindsNoBrokenChain
  <2> SUFFICES ASSUME PreparedInv, pc # "prepare", input.issues = {}
               PROVE  /\ reasons \cap BrokenChain = {}
                      /\ \A i \in DOMAIN chain : i > 1 => Linked(chain[i], chain[i - 1])
    BY DEF GateFindsNoBrokenChain, Linked
  <2> QED BY ValidatedIsKnit, ChainLinked DEF PreparedInv
<1> QED BY <1>1, PreparedInitial, PreparedStep, PTL DEF PreparedSpec

\* An action is allowed only if all that was delivered is in order.
THEOREM OneBadPauses == PreparedSpec => []OneBadHandoffPauses
<1>1. PreparedInv => OneBadHandoffPauses
  <2> SUFFICES ASSUME PreparedInv, Allowed
               PROVE  /\ invalid = {} /\ issues = {}
                      /\ input.views = {candidates[n] : n \in DOMAIN candidates}
    BY DEF OneBadHandoffPauses
  <2>1. pc # "prepare"
    BY DEF PreparedInv, Stages, Allowed, Undecided
  <2>2. input.issues = {}
    BY <2>1 DEF PreparedInv, SoundInv, Accepting, PreparationReasons
  <2> QED BY <2>1, <2>2, AllValidated DEF PreparedInv
<1> QED BY <1>1, PreparedInitial, PreparedStep, PTL DEF PreparedSpec
=============================================================================
