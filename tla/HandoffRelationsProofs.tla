----------------------- MODULE HandoffRelationsProofs -----------------------
(***************************************************************************)
(* Theorems about HandoffRelations, for any graph of candidates.           *)
(***************************************************************************)
EXTENDS HandoffRelations, FiniteSetTheorems, WellFoundedInduction, TLAPS

(***************************************************************************)
(* Facts about data.  A function of a finite set onto itself takes no      *)
(* value twice, and one that takes none twice maps each part that it does  *)
(* not lead out of onto itself.  A set of naturals has a least.            *)
(***************************************************************************)
LEMMA OntoIsOneToOne ==
  ASSUME NEW S, IsFiniteSet(S), NEW f \in [S -> S], \A t \in S : \E s \in S : f[s] = t
  PROVE  \A a, b \in S : f[a] = f[b] => a = b
<1>1. f \in Surjection(S, S)
  BY DEF Surjection
<1>2. f \in Injection(S, S)
  BY <1>1, FS_SurjSameCardinalityImpliesInj
<1> QED BY <1>2 DEF Injection, IsInjective

LEMMA OneToOneIsOnto ==
  ASSUME NEW A, IsFiniteSet(A), NEW f, \A a \in A : f[a] \in A,
         \A a, b \in A : f[a] = f[b] => a = b
  PROVE  \A t \in A : \E a \in A : f[a] = t
<1> DEFINE g == [a \in A |-> f[a]]
<1>1. g \in [A -> A] /\ \A a \in A : g[a] = f[a]
  OBVIOUS
<1> HIDE DEF g
<1>2. g \in Injection(A, A)
  <2>1. ASSUME NEW a \in A, NEW b \in A, g[a] = g[b] PROVE a = b
    BY <1>1, <2>1
  <2> QED BY <1>1, <2>1 DEF Injection, IsInjective
<1>3. g \in Surjection(A, A)
  BY <1>2, FS_Injection
<1> QED BY <1>1, <1>3 DEF Surjection

LEMMA Least ==
  ASSUME NEW I \in SUBSET Nat, I # {}
  PROVE  \E i \in I : \A j \in I : i <= j
<1> DEFINE T == {1 .. i : i \in I}
<1>1. T \subseteq FiniteSubsetsOf(Nat) /\ T # {}
  <2>1. \A i \in I : 1 .. i \in SUBSET Nat /\ IsFiniteSet(1 .. i)
    BY FS_Interval
  <2> QED BY <2>1 DEF FiniteSubsetsOf
<1>2. PICK x \in T : \A y \in T : <<y, x>> \notin StrictSubsetOrdering(Nat)
  BY <1>1, FS_StrictSubsetOrderingWellFounded, WFMin
<1>3. PICK i \in I : x = 1 .. i
  BY <1>2
<1>4. ASSUME NEW j \in I PROVE i <= j
  <2>1. CASE j < i
    <3>1. 1 .. j \subseteq 1 .. i /\ 1 .. j # 1 .. i /\ 1 .. i \subseteq Nat
      <4>1. i \in 1 .. i /\ i \notin 1 .. j
        BY <2>1
      <4> QED BY <2>1, <4>1
    <3>2. <<1 .. j, 1 .. i>> \in StrictSubsetOrdering(Nat)
      BY <3>1 DEF StrictSubsetOrdering
    <3> QED BY <1>2, <1>3, <3>2
  <2> QED BY <2>1
<1> QED BY <1>4

\* What Append and SubSeq do to a path.
LEMMA Paths ==
  ASSUME NEW S, NEW p \in Seq(S)
  PROVE  /\ Len(p) \in Nat /\ DOMAIN p = 1 .. Len(p)
         /\ \A i \in 1 .. Len(p) : p[i] \in S
         /\ p = <<>> <=> Len(p) = 0
         /\ \A n \in S : /\ Append(p, n) \in Seq(S)
                         /\ Len(Append(p, n)) = Len(p) + 1
                         /\ DOMAIN Append(p, n) = 1 .. Len(p) + 1
                         /\ \A i \in 1 .. Len(p) : Append(p, n)[i] = p[i]
                         /\ Append(p, n)[Len(p) + 1] = n
         /\ p # <<>> =>
              /\ SubSeq(p, 1, Len(p) - 1) \in Seq(S)
              /\ Len(SubSeq(p, 1, Len(p) - 1)) = Len(p) - 1
              /\ DOMAIN SubSeq(p, 1, Len(p) - 1) = 1 .. Len(p) - 1
              /\ \A i \in 1 .. Len(p) - 1 : SubSeq(p, 1, Len(p) - 1)[i] = p[i]
<1>1. Len(p) \in Nat /\ DOMAIN p = 1 .. Len(p) /\ \A i \in 1 .. Len(p) : p[i] \in S
  OBVIOUS
<1>2. p = <<>> <=> Len(p) = 0
  OBVIOUS
<1>3. ASSUME NEW n \in S
      PROVE  /\ Append(p, n) \in Seq(S)
             /\ Len(Append(p, n)) = Len(p) + 1
             /\ DOMAIN Append(p, n) = 1 .. Len(p) + 1
             /\ \A i \in 1 .. Len(p) : Append(p, n)[i] = p[i]
             /\ Append(p, n)[Len(p) + 1] = n
  OBVIOUS
<1>4. ASSUME p # <<>>
      PROVE  /\ SubSeq(p, 1, Len(p) - 1) \in Seq(S)
             /\ Len(SubSeq(p, 1, Len(p) - 1)) = Len(p) - 1
             /\ DOMAIN SubSeq(p, 1, Len(p) - 1) = 1 .. Len(p) - 1
             /\ \A i \in 1 .. Len(p) - 1 : SubSeq(p, 1, Len(p) - 1)[i] = p[i]
  BY <1>1, <1>2, <1>4
<1> QED BY <1>1, <1>2, <1>3, <1>4

\* What Remember does to the memo.
LEMMA Remembered ==
  ASSUME NEW n, NEW v, Remember(n, v)
  PROVE  /\ DOMAIN memo' = DOMAIN memo \cup {n}
         /\ memo'[n] = v
         /\ \A m \in DOMAIN memo : m # n => memo'[m] = memo[m]
BY DEF Remember

-----------------------------------------------------------------------------
(***************************************************************************)
(* Type correctness.  That the interaction asked for has a verdict when    *)
(* the answer is given is a matter of the path: it is where it began.      *)
(***************************************************************************)
PathBegins ==
  /\ phase \in {"circles", "emit", "done"} => path = <<>>
  /\ phase \in {"circles", "walk"} => issues = {} /\ validated = {}
  /\ phase = "relate" =>
       IF path = <<>> THEN here = asked \/ {asked, here} \subseteq DOMAIN memo
                    ELSE path[1] = asked

TypeInv == TypeOK /\ PathBegins

LEMMA KnownHandoffs ==
  ASSUME TypeOK, NEW n \in Known
  PROVE  /\ candidates[n] \in Handoffs /\ n \in Interactions /\ n # NoParent
         /\ Parent(n) \in Interactions \cup {NoParent}
         /\ candidates[n].created \in Nat /\ candidates[n].decided \in Nat
BY HandoffAssumption DEF TypeOK, Parent

LEMMA TypeInit == Init => TypeInv
<1> SUFFICES ASSUME Init PROVE TypeInv
  OBVIOUS
<1>1. PICK I \in SUBSET Interactions : candidates \in [I -> Handoffs]
  BY DEF Init
<1>2. /\ memo = <<>> /\ DOMAIN memo = {} /\ path = <<>> /\ path \in Seq(Known)
      /\ memo \in [DOMAIN memo -> Failures \cup {Sound}]
  BY DEF Init
<1> QED BY <1>1, <1>2 DEF Init, TypeInv, TypeOK, PathBegins, Judged, Known

LEMMA TypeNext == TypeInv /\ [Next]_vars => TypeInv'
<1> SUFFICES ASSUME TypeInv, [Next]_vars PROVE TypeInv'
  OBVIOUS
<1> USE DEF Known
<1>0. path \in Seq(Known)
  BY DEF TypeInv, TypeOK
<1>1. CASE StartWalk
  BY <1>1 DEF StartWalk, TypeInv, TypeOK, PathBegins, Judged
<1>2. CASE Walk
  <2>1. here \in Known /\ here' \in Interactions \cup {NoParent}
    BY <1>2, KnownHandoffs DEF Walk, TypeInv
  <2>2. path' \in Seq(Known)
    BY <1>0, <1>2, <2>1, Paths DEF Walk
  <2> QED BY <1>2, <2>1, <2>2 DEF Walk, TypeInv, TypeOK, PathBegins, Judged
<1>3. CASE EndWalk
  <2>1. OnPath \subseteq Known
    BY <1>0, Paths DEF OnPath
  <2>2. cycles' \subseteq cycles \cup OnPath
    BY <1>3 DEF EndWalk, OnPath
  <2> QED BY <1>3, <2>1, <2>2 DEF EndWalk, TypeInv, TypeOK, PathBegins, Judged
<1>4. CASE CirclesFound
  <2>1. /\ DOMAIN memo' = cycles
        /\ memo' \in [DOMAIN memo' -> Failures \cup {Sound}]
    BY <1>4 DEF CirclesFound, Failures
  <2> QED BY <1>4, <2>1 DEF CirclesFound, TypeInv, TypeOK, PathBegins, Judged
<1>5. CASE Ask
  BY <1>5 DEF Ask, TypeInv, TypeOK, PathBegins, Judged
<1>6. ASSUME NEW n \in Known, NEW v \in Failures \cup {Sound}, Remember(n, v), TypeOK
      PROVE  /\ memo' \in [DOMAIN memo' -> Failures \cup {Sound}]
             /\ DOMAIN memo' = DOMAIN memo \cup {n}
             /\ DOMAIN memo' \subseteq Known
  BY <1>6 DEF Remember, TypeOK
<1>7. CASE JudgeAlone
  <2>1. here \in Known
    BY <1>7 DEF JudgeAlone, TypeInv, TypeOK
  <2>2. PICK v \in Failures \cup {Sound} : Remember(here, v)
    BY <1>7 DEF JudgeAlone, Failures
  <2> QED BY <1>6, <1>7, <2>1, <2>2 DEF JudgeAlone, TypeInv, TypeOK, PathBegins, Judged
<1>8. CASE Descend
  <2>1. here \in Known /\ here' \in Known
    BY <1>8 DEF Descend, TypeInv, TypeOK
  <2>2. path' \in Seq(Known) /\ path' # <<>>
    BY <1>0, <1>8, <2>1, Paths DEF Descend
  <2>3. path'[1] = asked
    <3>1. CASE path = <<>>
      <4>1. here = asked
        BY <1>8, <3>1 DEF Descend, TypeInv, PathBegins
      <4>2. Append(path, here)[Len(path) + 1] = here /\ Len(path) = 0
        BY <1>0, <2>1, <3>1, Paths
      <4> QED BY <1>8, <4>1, <4>2 DEF Descend
    <3>2. CASE path # <<>>
      <4>1. 1 \in 1 .. Len(path) /\ path[1] = asked
        BY <1>0, <1>8, <3>2, Paths DEF Descend, TypeInv, PathBegins
      <4>2. \A i \in 1 .. Len(path) : Append(path, here)[i] = path[i]
        BY <1>0, <2>1, Paths
      <4> QED BY <1>8, <4>1, <4>2 DEF Descend
    <3> QED BY <3>1, <3>2
  <2> QED BY <1>8, <2>1, <2>2, <2>3 DEF Descend, TypeInv, TypeOK, PathBegins, Judged
<1>9. CASE Ascend
  <2> DEFINE child == path[Len(path)]
  <2>1. child \in Known /\ path' \in Seq(Known)
    BY <1>0, <1>9, Paths DEF Ascend
  <2>2. PICK v \in Failures \cup {Sound} : Remember(child, v)
    BY <1>9 DEF Ascend, LinkFailure, Failures
  <2>3. /\ path[1] = asked /\ Len(path) \in Nat \ {0}
        /\ Len(path') = Len(path) - 1
        /\ \A i \in 1 .. Len(path) - 1 : path'[i] = path[i]
    BY <1>0, <1>9, Paths DEF Ascend, TypeInv, PathBegins
  <2>4. path' # <<>> => path'[1] = asked
    <3>1. path' # <<>> => Len(path') # 0
      BY <2>1, Paths
    <3> QED BY <2>3, <3>1
  <2>5. {asked, here'} \subseteq DOMAIN memo' \/ path' # <<>>
    <3>1. path' = <<>> => Len(path) = 1
      BY <2>1, <2>3, Paths
    <3>2. path' = <<>> => asked = child
      BY <2>3, <3>1
    <3>3. child \in DOMAIN memo'
      <4>1. DOMAIN memo' = DOMAIN memo \cup {child}
        BY <2>2 DEF Remember
      <4> QED BY <4>1
    <3>4. here' \in DOMAIN memo'
      BY <1>9, <2>2 DEF Ascend, Remember
    <3> QED BY <3>2, <3>3, <3>4
  <2> HIDE DEF child
  <2> QED BY <1>6, <1>9, <2>1, <2>2, <2>4, <2>5
          DEF Ascend, TypeInv, TypeOK, PathBegins, Judged
<1>10. CASE Answer
  <2>1. asked \in DOMAIN memo /\ asked \in Known
    BY <1>10 DEF Answer, TypeInv, TypeOK, PathBegins
  <2>2. memo[asked] # Sound => memo[asked] \in Failures
    BY <2>1 DEF TypeInv, TypeOK
  <2> QED BY <1>10, <2>1, <2>2 DEF Answer, TypeInv, TypeOK, PathBegins, Judged
<1>11. CASE Report
  BY <1>11 DEF Report, TypeInv, TypeOK, PathBegins, Judged
<1>12. CASE UNCHANGED vars
  BY <1>12 DEF vars, TypeInv, TypeOK, PathBegins, Judged
<1> QED BY <1>1, <1>2, <1>3, <1>4, <1>5, <1>7, <1>8, <1>9, <1>10, <1>11, <1>12 DEF Next

LEMMA TypeAlways == Spec => []TypeInv
BY TypeInit, TypeNext, PTL DEF Spec

\* What is remembered is a verdict, and what is reported was remembered.
THEOREM TypeCorrect == Spec => []TypeOK
<1>1. TypeInv => TypeOK
  BY DEF TypeInv
<1> QED BY <1>1, TypeAlways, PTL

-----------------------------------------------------------------------------
(***************************************************************************)
(* Paths and circles.  In both loops the path goes from child to parent,   *)
(* over interactions that are not dealt with.  It cannot meet itself while *)
(* verdicts are looked for, as the circles have their verdicts by then.    *)
(***************************************************************************)
PathInv ==
  /\ NeverTwice
  /\ \A i \in DOMAIN path : i < Len(path) => path[i + 1] = Parent(path[i])
  /\ phase = "walk" =>
       /\ OnPath \cap finished = {}
       /\ path # <<>> => here = Parent(path[Len(path)])
  /\ phase = "relate" =>
       /\ OnPath \cap DOMAIN memo = {}
       /\ path # <<>> => IF here \in DOMAIN memo
                           THEN Parent(path[Len(path)]) \in DOMAIN memo
                           ELSE here = Parent(path[Len(path)])

CirclesInv ==
  /\ OnlyCircles
  /\ AllCircles
  /\ \A n \in finished : Parent(n) \in Known => Parent(n) \in finished
  /\ phase \in {"emit", "relate", "done"} => cycles \subseteq DOMAIN memo

RelationInv == TypeInv /\ PathInv /\ CirclesInv

LEMMA LoopIsCircular ==
  ASSUME TypeOK, PathInv, NEW k \in DOMAIN path, Parent(path[Len(path)]) = path[k]
  PROVE  \A j \in k .. Len(path) : Circular(path[j])
<1>0. Len(path) \in Nat /\ k \in 1 .. Len(path)
  BY Paths DEF TypeOK
<1>1. /\ Len(path) \in Nat /\ DOMAIN path = 1 .. Len(path) /\ k \in 1 .. Len(path)
      /\ \A i \in 1 .. Len(path) : path[i] \in Known
  BY Paths DEF TypeOK
<1>2. \A i \in 1 .. Len(path) : i < Len(path) => path[i + 1] = Parent(path[i])
  BY <1>1 DEF PathInv
<1> DEFINE S == {path[j] : j \in k .. Len(path)}
<1>3. S \in SUBSET Known
  BY <1>1
<1>4. ASSUME NEW m \in S PROVE Parent(m) \in S
  <2>1. PICK j \in k .. Len(path) : m = path[j]
    OBVIOUS
  <2>2. CASE j = Len(path)
    BY <1>1, <2>1, <2>2
  <2>3. CASE j < Len(path)
    BY <1>1, <1>2, <2>1, <2>3
  <2>4. j = Len(path) \/ j < Len(path)
    BY <1>0
  <2> QED BY <2>2, <2>3, <2>4
<1>5. ASSUME NEW m \in S PROVE \E l \in S : Parent(l) = m
  <2>1. PICK j \in k .. Len(path) : m = path[j]
    OBVIOUS
  <2>2. CASE j = k
    BY <1>1, <2>1, <2>2
  <2>3. CASE j > k
    <3>1. j - 1 \in k .. Len(path) /\ j - 1 \in 1 .. Len(path) /\ j - 1 < Len(path)
      BY <1>1, <2>3
    <3>2. Parent(path[j - 1]) = path[j]
      BY <1>2, <3>1
    <3> QED BY <2>1, <3>1, <3>2
  <2>4. j = k \/ j > k
    BY <1>0
  <2> QED BY <2>2, <2>3, <2>4
<1>6. {Parent(m) : m \in S} = S
  <2> HIDE DEF S
  <2> QED BY <1>4, <1>5
<1>7. \A j \in k .. Len(path) : path[j] \in S
  OBVIOUS
<1> QED BY <1>3, <1>6, <1>7 DEF Circular

\* A path that ends where the walk is known has all of a circle it is on.
LEMMA CirclesOnPath ==
  ASSUME RelationInv, phase = "walk", here \notin Known \ (finished \cup OnPath),
         NEW n \in OnPath, Circular(n)
  PROVE  \E i, k \in DOMAIN path : path[i] = n /\ k <= i /\ path[k] = here
<1>0. Len(path) \in Nat
  BY Paths DEF RelationInv, TypeInv, TypeOK
<1>1. /\ Len(path) \in Nat /\ DOMAIN path = 1 .. Len(path)
      /\ \A i \in 1 .. Len(path) : path[i] \in Known
  BY Paths DEF RelationInv, TypeInv, TypeOK
<1>2. /\ \A i \in 1 .. Len(path) : i < Len(path) => path[i + 1] = Parent(path[i])
      /\ \A i, j \in 1 .. Len(path) : i # j => path[i] # path[j]
      /\ path # <<>> => here = Parent(path[Len(path)])
      /\ OnPath \cap finished = {}
  BY <1>1 DEF RelationInv, PathInv, NeverTwice
<1>3. PICK S \in SUBSET Known : n \in S /\ {Parent(m) : m \in S} = S
  BY DEF Circular
<1> DEFINE f == [m \in S |-> Parent(m)]
           Walked == S \cap (finished \cup OnPath)
           Old == S \cap finished
           New == S \cap OnPath
<1>4. IsFiniteSet(S) /\ f \in [S -> S] /\ \A t \in S : \E s \in S : f[s] = t
  <2>1. IsFiniteSet(S)
    BY HandoffAssumption, FS_Subset DEF RelationInv, TypeInv, TypeOK
  <2> QED BY <1>3, <2>1
<1>5. \A m \in Old : f[m] \in Old
  <2>1. \A m \in finished : Parent(m) \in Known => Parent(m) \in finished
    BY DEF RelationInv, CirclesInv
  <2> QED BY <1>3, <2>1
<1>6. \A m \in New : f[m] \in Walked
  <2> SUFFICES ASSUME NEW m \in New PROVE Parent(m) \in Walked
    OBVIOUS
  <2>1. Parent(m) \in S
    BY <1>3
  <2>2. PICK i \in 1 .. Len(path) : m = path[i]
    BY <1>1 DEF OnPath
  <2>3. CASE i < Len(path)
    <3>1. Parent(m) = path[i + 1] /\ i + 1 \in 1 .. Len(path)
      BY <1>1, <1>2, <2>2, <2>3
    <3> QED BY <1>1, <2>1, <3>1 DEF OnPath
  <2>4. CASE i = Len(path)
    <3>1. path # <<>>
      BY <1>1, <2>4
    <3> QED BY <1>2, <1>3, <2>1, <2>2, <2>4, <3>1
  <2>5. i < Len(path) \/ i = Len(path)
    BY <1>0
  <2> QED BY <2>3, <2>4, <2>5
<1>7. /\ \A a, b \in S : f[a] = f[b] => a = b
      /\ \A t \in Old : \E a \in Old : f[a] = t
  <2> HIDE DEF f
  <2>1. \A a, b \in S : f[a] = f[b] => a = b
    BY <1>4, OntoIsOneToOne
  <2>2. IsFiniteSet(Old) /\ \A a, b \in Old : f[a] = f[b] => a = b
    BY <1>4, <2>1, FS_Subset
  <2> HIDE DEF Old
  <2>3. \A t \in Old : \E a \in Old : f[a] = t
    BY <1>5, <2>2, OneToOneIsOnto
  <2> QED BY <2>1, <2>3
<1>8. \A m \in New : f[m] \in New
  <2> SUFFICES ASSUME NEW m \in New, f[m] \in Old PROVE FALSE
    BY <1>6
  <2>1. PICK a \in Old : f[a] = f[m]
    BY <1>7
  <2>2. a = m
    BY <1>7, <2>1
  <2> QED BY <1>2, <2>1, <2>2
<1>9. \A t \in New : \E a \in New : f[a] = t
  <2> HIDE DEF f
  <2>1. IsFiniteSet(New) /\ \A a, b \in New : f[a] = f[b] => a = b
    BY <1>4, <1>7, FS_Subset
  <2> HIDE DEF New
  <2> QED BY <1>8, <2>1, OneToOneIsOnto
<1> DEFINE I == {i \in 1 .. Len(path) : path[i] \in S}
<1>10. PICK i \in 1 .. Len(path) : path[i] = n
  BY <1>1 DEF OnPath
<1>11. PICK k \in I : \A j \in I : k <= j
  <2>1. I \in SUBSET Nat /\ I # {}
    BY <1>3, <1>10
  <2> HIDE DEF I
  <2> QED BY <2>1, Least
<1>12. PICK l \in 1 .. Len(path) : path[l] \in S /\ Parent(path[l]) = path[k]
  <2>1. path[k] \in New
    BY <1>1, <1>11 DEF OnPath
  <2>2. PICK a \in New : f[a] = path[k]
    BY <1>9, <2>1
  <2> QED BY <1>1, <2>2 DEF OnPath
<1>13. l = Len(path)
  <2> SUFFICES ASSUME l < Len(path) PROVE FALSE
    BY <1>0
  <2>1. path[l + 1] = path[k] /\ l + 1 \in 1 .. Len(path)
    BY <1>1, <1>2, <1>12
  <2>2. k <= l
    BY <1>11, <1>12
  <2> QED BY <1>1, <1>2, <1>11, <2>1, <2>2
<1>14. here = path[k]
  <2>1. path # <<>>
    BY <1>1, <1>10
  <2> QED BY <1>2, <1>12, <1>13, <2>1
<1>15. k <= i
  BY <1>3, <1>10, <1>11
<1> QED BY <1>1, <1>10, <1>11, <1>14, <1>15

\* The verdicts come after the circles, so a handoff without one is in none.
LEMMA AwaitedOffPath ==
  ASSUME RelationInv, phase = "relate", here \notin DOMAIN memo
  PROVE  here \notin OnPath
<1> SUFFICES ASSUME here \in OnPath PROVE FALSE
  OBVIOUS
<1>1. PICK k \in DOMAIN path : path[k] = here
  BY DEF OnPath
<1>2. k \in k .. Len(path) /\ path # <<>> /\ path[k] \in Known
  BY <1>1, Paths DEF RelationInv, TypeInv, TypeOK
<1>3. Parent(path[Len(path)]) = path[k]
  BY <1>1, <1>2 DEF RelationInv, PathInv
<1>4. Circular(here)
  BY <1>1, <1>2, <1>3, LoopIsCircular DEF RelationInv, TypeInv
<1>5. here \in cycles /\ cycles \subseteq DOMAIN memo
  BY <1>1, <1>2, <1>4 DEF RelationInv, CirclesInv, AllCircles
<1> QED BY <1>5

LEMMA GraphStays ==
  ASSUME [Next]_vars
  PROVE  /\ candidates' = candidates /\ invalid' = invalid /\ Known' = Known
         /\ \A n : Parent(n)' = Parent(n) /\ (Circular(n)' <=> Circular(n))
<1>1. candidates' = candidates /\ invalid' = invalid
  BY DEF Next, vars, StartWalk, Walk, EndWalk, CirclesFound, Ask, JudgeAlone, Descend,
         Ascend, Answer, Report
<1>2. Known' = Known /\ \A n : Parent(n)' = Parent(n)
  BY <1>1 DEF Known, Parent
<1>3. ASSUME NEW n PROVE Circular(n)' <=> Circular(n)
  BY <1>1 DEF Circular, Known, Parent
<1> QED BY <1>1, <1>2, <1>3

LEMMA EmptyPath == path' = <<>> => PathInv'
<1> SUFFICES ASSUME path' = <<>> PROVE PathInv'
  OBVIOUS
<1>1. DOMAIN path' = {}
  OBVIOUS
<1> QED BY <1>1 DEF PathInv, NeverTwice, OnPath

LEMMA PathNext == RelationInv /\ [Next]_vars => PathInv'
<1> SUFFICES ASSUME RelationInv, [Next]_vars PROVE PathInv'
  OBVIOUS
<1>1. /\ path \in Seq(Known) /\ Len(path) \in Nat /\ DOMAIN path = 1 .. Len(path)
      /\ \A i \in 1 .. Len(path) : path[i] \in Known
      /\ path = <<>> <=> Len(path) = 0
  BY Paths DEF RelationInv, TypeInv, TypeOK
<1>2. \A n : Parent(n)' = Parent(n)
  BY GraphStays
<1>3. CASE StartWalk \/ EndWalk \/ CirclesFound \/ Ask \/ Answer \/ Report
  BY <1>3, EmptyPath
     DEF StartWalk, EndWalk, CirclesFound, Ask, Answer, Report, RelationInv, TypeInv, PathBegins
<1>4. ASSUME NEW n \in Known \ OnPath, path' = Append(path, n),
             path # <<>> => n = Parent(path[Len(path)])
      PROVE  /\ NeverTwice'
             /\ \A i \in DOMAIN path' : i < Len(path') => path'[i + 1] = Parent(path'[i])
             /\ OnPath' = OnPath \cup {n}
             /\ path' # <<>> /\ path'[Len(path')] = n
  <2>1. /\ Len(path') = Len(path) + 1 /\ DOMAIN path' = 1 .. Len(path) + 1
        /\ \A i \in 1 .. Len(path) : path'[i] = path[i]
        /\ path'[Len(path) + 1] = n
    BY <1>1, <1>4, Paths
  <2>2. NeverTwice'
    BY <1>1, <2>1 DEF NeverTwice, OnPath, RelationInv, PathInv
  <2>3. ASSUME NEW i \in DOMAIN path', i < Len(path') PROVE path'[i + 1] = Parent(path'[i])
    <3>1. CASE i < Len(path)
      BY <1>1, <2>1, <3>1 DEF RelationInv, PathInv
    <3>2. CASE i = Len(path)
      BY <1>1, <1>4, <2>1, <3>2
    <3> QED BY <1>1, <2>1, <2>3, <3>1, <3>2
  <2>4. OnPath' = OnPath \cup {n}
    BY <1>1, <2>1 DEF OnPath
  <2> QED BY <1>1, <2>1, <2>2, <2>3, <2>4
<1>5. CASE Walk
  BY <1>2, <1>4, <1>5 DEF Walk, RelationInv, PathInv
<1>6. CASE JudgeAlone
  <2>1. here \notin OnPath /\ here \in DOMAIN memo' /\ DOMAIN memo' = DOMAIN memo \cup {here}
    BY <1>6, AwaitedOffPath DEF JudgeAlone, Remember
  <2> QED BY <1>2, <1>6, <2>1 DEF JudgeAlone, RelationInv, PathInv, NeverTwice, OnPath
<1>7. CASE Descend
  <2>1. here \in Known \ OnPath
    BY <1>7, AwaitedOffPath DEF Descend, RelationInv, TypeInv, TypeOK
  <2>2. path # <<>> => here = Parent(path[Len(path)])
    BY <1>7 DEF Descend, RelationInv, PathInv
  <2> QED BY <1>2, <1>4, <1>7, <2>1, <2>2 DEF Descend, RelationInv, PathInv
<1>8. CASE Ascend
  <2> DEFINE child == path[Len(path)]
  <2>1. /\ path' \in Seq(Known) /\ Len(path') = Len(path) - 1 /\ Len(path) \in Nat \ {0}
        /\ DOMAIN path' = 1 .. Len(path) - 1
        /\ \A i \in 1 .. Len(path) - 1 : path'[i] = path[i]
    BY <1>1, <1>8, Paths DEF Ascend
  <2>2. DOMAIN memo' = DOMAIN memo \cup {child}
    BY <1>8 DEF Ascend, Remember
  <2>3. NeverTwice'
    BY <1>1, <2>1 DEF NeverTwice, RelationInv, PathInv
  <2>4. \A i \in DOMAIN path' : i < Len(path') => path'[i + 1] = Parent(path'[i])
    BY <1>1, <2>1 DEF RelationInv, PathInv
  <2>5. OnPath' \cap DOMAIN memo' = {}
    <3>1. OnPath' \subseteq OnPath /\ child \notin OnPath'
      BY <1>1, <2>1 DEF OnPath, NeverTwice, RelationInv, PathInv
    <3> QED BY <1>8, <2>2, <3>1 DEF Ascend, RelationInv, PathInv
  <2>6. path' # <<>> => Parent(path'[Len(path')]) = child
    <3>1. path' # <<>> => Len(path') # 0
      BY <2>1, Paths
    <3> QED BY <1>1, <2>1, <3>1 DEF RelationInv, PathInv
  <2>7. phase' = "relate" /\ here' \in DOMAIN memo'
    BY <1>8, <2>2 DEF Ascend
  <2> HIDE DEF child
  <2> QED BY <1>2, <2>2, <2>3, <2>4, <2>5, <2>6, <2>7 DEF PathInv
<1>9. CASE UNCHANGED vars
  BY <1>2, <1>9 DEF vars, RelationInv, PathInv, NeverTwice, OnPath
<1> QED BY <1>3, <1>5, <1>6, <1>7, <1>8, <1>9 DEF Next

LEMMA CirclesNext == RelationInv /\ [Next]_vars => CirclesInv'
<1> SUFFICES ASSUME RelationInv, [Next]_vars PROVE CirclesInv'
  OBVIOUS
<1>0. Len(path) \in Nat
  BY Paths DEF RelationInv, TypeInv, TypeOK
<1>1. /\ Len(path) \in Nat /\ DOMAIN path = 1 .. Len(path)
      /\ \A i \in 1 .. Len(path) : path[i] \in Known
  BY Paths DEF RelationInv, TypeInv, TypeOK
<1>2. Known' = Known /\ \A n : Parent(n)' = Parent(n) /\ (Circular(n)' <=> Circular(n))
  BY GraphStays
<1>3. CASE EndWalk
  <2> DEFINE New == {path[i] : i \in {j \in DOMAIN path : \E k \in 1 .. j : path[k] = here}}
  <2>1. cycles' = cycles \cup New /\ finished' = finished \cup OnPath /\ phase' = "circles"
    BY <1>3 DEF EndWalk
  <2>2. ASSUME NEW n \in New PROVE Circular(n)
    <3>1. PICK i \in DOMAIN path, k \in 1 .. Len(path) : n = path[i] /\ k <= i /\ path[k] = here
      BY <1>1
    <3>2. Parent(path[Len(path)]) = path[k] /\ i \in k .. Len(path) /\ k \in DOMAIN path
      <4>1. path # <<>>
        BY <1>1, <3>1
      <4> QED BY <1>1, <1>3, <3>1, <4>1 DEF EndWalk, RelationInv, PathInv
    <3> QED BY <3>1, <3>2, LoopIsCircular DEF RelationInv, TypeInv
  <2>3. OnlyCircles'
    BY <1>2, <2>1, <2>2 DEF OnlyCircles, RelationInv, CirclesInv
  <2>4. \A n \in finished' : Circular(n) => n \in cycles'
    <3> SUFFICES ASSUME NEW n \in OnPath, Circular(n) PROVE n \in New
      BY <2>1 DEF RelationInv, CirclesInv, AllCircles
    <3>1. PICK i \in DOMAIN path, k \in DOMAIN path : path[i] = n /\ k <= i /\ path[k] = here
      BY <1>3, CirclesOnPath DEF EndWalk
    <3> QED BY <1>1, <3>1
  <2>5. \A n \in finished' : Parent(n) \in Known => Parent(n) \in finished'
    <3> SUFFICES ASSUME NEW n \in OnPath, Parent(n) \in Known
                 PROVE  Parent(n) \in finished \cup OnPath
      BY <2>1 DEF RelationInv, CirclesInv
    <3>1. PICK i \in 1 .. Len(path) : n = path[i]
      BY <1>1 DEF OnPath
    <3>2. CASE i < Len(path)
      <4>1. Parent(n) = path[i + 1] /\ i + 1 \in DOMAIN path
        BY <1>1, <3>1, <3>2 DEF RelationInv, PathInv
      <4> QED BY <4>1 DEF OnPath
    <3>3. CASE i = Len(path)
      <4>1. path # <<>>
        BY <1>1, <3>3
      <4>2. here = Parent(n)
        BY <1>3, <3>1, <3>3, <4>1 DEF EndWalk, RelationInv, PathInv
      <4> QED BY <1>3, <4>2 DEF EndWalk
    <3>4. i < Len(path) \/ i = Len(path)
      BY <1>0
    <3> QED BY <3>2, <3>3, <3>4
  <2> HIDE DEF New
  <2> QED BY <1>2, <2>1, <2>3, <2>4, <2>5 DEF CirclesInv, AllCircles
<1>4. CASE CirclesFound
  BY <1>2, <1>4 DEF CirclesFound, RelationInv, CirclesInv, OnlyCircles, AllCircles
<1>5. CASE StartWalk \/ Walk
  BY <1>2, <1>5 DEF StartWalk, Walk, RelationInv, CirclesInv, OnlyCircles, AllCircles
<1>6. CASE Ask \/ Descend \/ Answer \/ Report \/ UNCHANGED vars
  BY <1>2, <1>6 DEF Ask, Descend, Answer, Report, vars,
                    RelationInv, CirclesInv, OnlyCircles, AllCircles
<1>7. CASE JudgeAlone \/ Ascend
  <2>1. DOMAIN memo \subseteq DOMAIN memo' /\ phase' = phase
    BY <1>7 DEF JudgeAlone, Ascend, Remember
  <2> QED BY <1>2, <1>7, <2>1
          DEF JudgeAlone, Ascend, RelationInv, CirclesInv, OnlyCircles, AllCircles
<1> QED BY <1>3, <1>4, <1>5, <1>6, <1>7 DEF Next

LEMMA RelationInit == Init => RelationInv
<1> SUFFICES ASSUME Init PROVE RelationInv
  OBVIOUS
<1>1. TypeInv
  BY TypeInit
<1>2. DOMAIN path = {} /\ finished = {} /\ cycles = {} /\ phase = "circles"
  BY DEF Init
<1>3. PathInv
  BY <1>2 DEF PathInv, NeverTwice
<1>4. CirclesInv
  BY <1>2 DEF CirclesInv, OnlyCircles, AllCircles
<1> QED BY <1>1, <1>3, <1>4 DEF RelationInv

LEMMA RelationNext == RelationInv /\ [Next]_vars => RelationInv'
BY TypeNext, PathNext, CirclesNext DEF RelationInv

LEMMA RelationAlways == Spec => []RelationInv
BY RelationInit, RelationNext, PTL DEF Spec

\* No walk and no descent comes to an interaction twice: relation_failure
\* needs no test for circles, as those have their verdicts before it begins.
THEOREM NoneTwice == Spec => []NeverTwice
<1>1. RelationInv => NeverTwice
  BY DEF RelationInv, PathInv
<1> QED BY <1>1, RelationAlways, PTL

\* What _cycle_nodes finds is on a circle, and it finds every circle, from
\* wherever it starts.
THEOREM Circles == Spec => []MarksTheCircles
<1>1. RelationInv => MarksTheCircles
  BY DEF RelationInv, CirclesInv, MarksTheCircles
<1> QED BY <1>1, RelationAlways, PTL

-----------------------------------------------------------------------------
(***************************************************************************)
(* Verdicts.  Whether a handoff is well founded is a matter of its parent  *)
(* and of the link to it.                                                  *)
(***************************************************************************)
LEMMA Foundation ==
  ASSUME TypeOK, NEW n \in Known
  PROVE  WellFounded(n) <=>
           /\ ~Circular(n)
           /\ IF Parent(n) = NoParent
                THEN candidates[n].type = "delegation"
                ELSE /\ Parent(n) \in Known /\ WellFounded(Parent(n))
                     /\ HangsOn(candidates[Parent(n)], candidates[n])
<1> DEFINE Founds(S, m) ==
             /\ ~Circular(m)
             /\ IF Parent(m) = NoParent
                  THEN candidates[m].type = "delegation"
                  ELSE /\ Parent(m) \in S
                       /\ HangsOn(candidates[Parent(m)], candidates[m])
<1>1. \A m : WellFounded(m) <=> \E S \in SUBSET Known : m \in S /\ \A l \in S : Founds(S, l)
  BY DEF WellFounded
<1>2. ASSUME WellFounded(n)
      PROVE  /\ ~Circular(n)
             /\ IF Parent(n) = NoParent
                  THEN candidates[n].type = "delegation"
                  ELSE /\ Parent(n) \in Known /\ WellFounded(Parent(n))
                       /\ HangsOn(candidates[Parent(n)], candidates[n])
  <2>1. PICK S \in SUBSET Known : n \in S /\ \A l \in S : Founds(S, l)
    BY <1>1, <1>2
  <2>2. ~Circular(n) /\ (Parent(n) = NoParent => candidates[n].type = "delegation")
    BY <2>1
  <2>3. ASSUME Parent(n) # NoParent
        PROVE  /\ Parent(n) \in S /\ Parent(n) \in Known
               /\ HangsOn(candidates[Parent(n)], candidates[n])
    BY <2>1, <2>3
  <2>4. Parent(n) # NoParent => WellFounded(Parent(n))
    <3> HIDE DEF Founds
    <3> QED BY <1>1, <2>1, <2>3
  <2> QED BY <2>2, <2>3, <2>4
<1>3. ASSUME ~Circular(n), Parent(n) = NoParent, candidates[n].type = "delegation"
      PROVE  WellFounded(n)
  <2>1. n \in {n} /\ {n} \in SUBSET Known /\ \A l \in {n} : Founds({n}, l)
    BY <1>3
  <2> HIDE DEF Founds
  <2> QED BY <1>1, <2>1
<1>4. ASSUME ~Circular(n), Parent(n) # NoParent, Parent(n) \in Known,
             WellFounded(Parent(n)), HangsOn(candidates[Parent(n)], candidates[n])
      PROVE  WellFounded(n)
  <2>1. PICK S \in SUBSET Known : Parent(n) \in S /\ \A l \in S : Founds(S, l)
    BY <1>1, <1>4
  <2> DEFINE T == S \cup {n}
  <2>2. \A l \in T : Founds(T, l)
    <3>1. Founds(T, n)
      BY <1>4, <2>1
    <3>2. ASSUME NEW l \in S PROVE Founds(T, l)
      BY <2>1
    <3> HIDE DEF Founds
    <3> QED BY <3>1, <3>2
  <2>3. n \in T /\ T \in SUBSET Known
    OBVIOUS
  <2> HIDE DEF Founds, T
  <2> QED BY <1>1, <2>2, <2>3
<1> QED BY <1>2, <1>3, <1>4

LEMMA SoundLinks ==
  ASSUME TypeOK, NEW p \in Known, NEW n \in Known
  PROVE  LinkFailure(candidates[p], candidates[n]) = Sound
           <=> HangsOn(candidates[p], candidates[n])
<1>1. /\ candidates[p].decided \in Nat /\ candidates[n].created \in Nat /\ ClockSkew \in Nat
  BY KnownHandoffs, HandoffAssumption
<1>2. candidates[p].decided > candidates[n].created + ClockSkew
        <=> ~(candidates[p].decided <= candidates[n].created + ClockSkew)
  BY <1>1
<1> QED BY <1>2 DEF LinkFailure, HangsOn, Sound

(***************************************************************************)
(* A verdict that is remembered is the right one.                          *)
(***************************************************************************)
RightVerdict(n, verdict) ==
  /\ verdict = Sound <=> WellFounded(n)
  /\ verdict # Sound => verdict = Blame(n)

VerdictsInv ==
  /\ phase \in {"emit", "relate", "done"} => \A n \in DOMAIN memo : RightVerdict(n, memo[n])
  /\ phase = "done" => Known \subseteq Judged

ReportInv == RelationInv /\ VerdictsInv /\ ReportsTheUnfounded

LEMMA VerdictsStay ==
  ASSUME [Next]_vars, NEW n
  PROVE  /\ WellFounded(n)' <=> WellFounded(n)
         /\ Blame(n)' = Blame(n)
         /\ \A v : RightVerdict(n, v)' <=> RightVerdict(n, v)
<1>1. candidates' = candidates /\ invalid' = invalid /\ Known' = Known
  BY GraphStays
<1>2. \A m : WellFounded(m)' <=> WellFounded(m)
  BY <1>1, GraphStays DEF WellFounded
<1>3. Blame(n)' = Blame(n)
  BY <1>1, <1>2, GraphStays DEF Blame
<1>4. ASSUME NEW v PROVE RightVerdict(n, v)' <=> RightVerdict(n, v)
  BY <1>2, <1>3 DEF RightVerdict
<1> QED BY <1>2, <1>3, <1>4

LEMMA VerdictsNext == ReportInv /\ [Next]_vars => VerdictsInv' /\ ReportsTheUnfounded'
<1> SUFFICES ASSUME ReportInv, [Next]_vars PROVE VerdictsInv' /\ ReportsTheUnfounded'
  OBVIOUS
<1>1. TypeOK /\ RelationInv
  BY DEF ReportInv, RelationInv, TypeInv
<1>2. Known' = Known
  BY GraphStays
<1>3. \A n : /\ WellFounded(n)' <=> WellFounded(n)
             /\ Blame(n)' = Blame(n)
             /\ \A v : RightVerdict(n, v)' <=> RightVerdict(n, v)
  BY VerdictsStay
<1>4. ASSUME issues' = issues, validated' = validated, phase' # "done"
      PROVE  ReportsTheUnfounded'
  BY <1>2, <1>3, <1>4 DEF ReportInv, ReportsTheUnfounded
<1>5. CASE StartWalk \/ Walk \/ EndWalk
  <2>1. issues' = issues /\ validated' = validated /\ phase' \in {"walk", "circles"}
    BY <1>5 DEF StartWalk, Walk, EndWalk
  <2> QED BY <1>4, <2>1 DEF VerdictsInv
<1>6. CASE CirclesFound
  <2>1. ASSUME NEW n \in cycles PROVE RightVerdict(n, "PARENT_CYCLE")
    <3>1. Circular(n) /\ n \in Known
      BY <1>1 DEF RelationInv, CirclesInv, OnlyCircles, TypeOK
    <3>2. ~WellFounded(n)
      BY <1>1, <3>1, Foundation
    <3> QED BY <3>1, <3>2 DEF RightVerdict, Blame, Sound
  <2>2. DOMAIN memo' = cycles /\ \A n \in cycles : memo'[n] = "PARENT_CYCLE"
    BY <1>6 DEF CirclesFound
  <2>3. issues' = issues /\ validated' = validated /\ phase' = "emit"
    BY <1>6 DEF CirclesFound
  <2> QED BY <1>3, <1>4, <2>1, <2>2, <2>3 DEF VerdictsInv
<1>7. ASSUME NEW n, NEW v, Remember(n, v), RightVerdict(n, v),
             phase = "relate", phase' = phase, issues' = issues, validated' = validated
      PROVE  VerdictsInv' /\ ReportsTheUnfounded'
  <2>1. \A m \in DOMAIN memo : RightVerdict(m, memo[m])
    BY <1>7 DEF ReportInv, VerdictsInv
  <2>2. \A m \in DOMAIN memo' : RightVerdict(m, memo'[m])
    BY <1>7, <2>1 DEF Remember
  <2>3. VerdictsInv'
    BY <1>3, <1>7, <2>2 DEF VerdictsInv
  <2> QED BY <1>4, <1>7, <2>3
<1>8. ASSUME NEW n \in Known, n \notin DOMAIN memo, phase = "relate" PROVE ~Circular(n)
  BY <1>1, <1>8 DEF RelationInv, CirclesInv, AllCircles
<1>9. CASE JudgeAlone
  <2>1. /\ here \in Known /\ here \notin DOMAIN memo /\ phase = "relate"
        /\ phase' = phase /\ issues' = issues /\ validated' = validated
    BY <1>1, <1>9 DEF JudgeAlone, TypeOK
  <2>2. ~Circular(here)
    BY <1>8, <2>1
  <2>3. CASE Parent(here) = NoParent
    <3> DEFINE v == IF candidates[here].type = "delegation" THEN Sound ELSE "ROOT_INVALID"
    <3>1. Remember(here, v)
      BY <1>9, <2>3 DEF JudgeAlone
    <3>2. WellFounded(here) <=> candidates[here].type = "delegation"
      BY <1>1, <2>1, <2>2, <2>3, Foundation
    <3>3. RightVerdict(here, v)
      BY <2>2, <2>3, <3>2 DEF RightVerdict, Blame, Sound
    <3> HIDE DEF v
    <3> QED BY <1>7, <2>1, <3>1, <3>3
  <2>4. CASE Parent(here) \notin Known \cup {NoParent}
    <3> DEFINE v == IF Parent(here) \in invalid THEN "PARENT_INVALID" ELSE "PARENT_MISSING"
    <3>1. Remember(here, v)
      BY <1>9, <2>4 DEF JudgeAlone
    <3>2. ~WellFounded(here)
      BY <1>1, <2>1, <2>4, Foundation
    <3>3. RightVerdict(here, v)
      BY <2>2, <2>4, <3>2 DEF RightVerdict, Blame, Sound
    <3> HIDE DEF v
    <3> QED BY <1>7, <2>1, <3>1, <3>3
  <2> QED BY <1>9, <2>3, <2>4 DEF JudgeAlone
<1>10. CASE Ascend
  <2> DEFINE child == path[Len(path)]
             parent == Parent(child)
             v == IF memo[parent] # Sound THEN "PARENT_INVALID"
                  ELSE LinkFailure(candidates[parent], candidates[child])
  <2>1. /\ Remember(child, v) /\ phase = "relate"
        /\ phase' = phase /\ issues' = issues /\ validated' = validated
    BY <1>10 DEF Ascend
  <2>2. /\ child \in Known /\ child \notin DOMAIN memo
        /\ parent \in DOMAIN memo /\ parent \in Known /\ parent # NoParent
    <3>1. Len(path) \in DOMAIN path /\ child \in Known
      BY <1>1, <1>10, Paths DEF Ascend, TypeOK
    <3>2. child \notin DOMAIN memo /\ parent \in DOMAIN memo
      BY <1>1, <1>10, <3>1 DEF Ascend, RelationInv, PathInv, OnPath
    <3> QED BY <1>1, <3>1, <3>2, HandoffAssumption DEF TypeOK
  <2> HIDE DEF child, parent
  <2>3. ~Circular(child)
    BY <1>8, <2>1, <2>2
  <2>4. RightVerdict(parent, memo[parent])
    BY <2>1, <2>2 DEF ReportInv, VerdictsInv
  <2>5. WellFounded(child) <=>
          WellFounded(parent) /\ HangsOn(candidates[parent], candidates[child])
    BY <1>1, <2>2, <2>3, Foundation DEF parent
  <2>6. v = Sound <=> WellFounded(child)
    BY <1>1, <2>2, <2>4, <2>5, SoundLinks DEF RightVerdict, Sound
  <2>7. v # Sound => v = Blame(child)
    BY <2>2, <2>3, <2>4 DEF RightVerdict, Blame, parent
  <2> HIDE DEF v
  <2> QED BY <1>7, <2>1, <2>6, <2>7 DEF RightVerdict
<1>11. CASE Answer
  <2>1. /\ phase = "relate" /\ phase' = "emit" /\ memo' = memo
        /\ \/ /\ memo[asked] = Sound
              /\ validated' = validated \cup {asked} /\ issues' = issues
           \/ /\ memo[asked] # Sound
              /\ issues' = issues \cup {[reason |-> memo[asked], interaction |-> asked]}
              /\ validated' = validated
    BY <1>11 DEF Answer
  <2>2. asked \in DOMAIN memo
    BY <1>1, <1>11 DEF Answer, RelationInv, TypeInv, PathBegins
  <2>3. RightVerdict(asked, memo[asked])
    BY <2>1, <2>2 DEF ReportInv, VerdictsInv
  <2>4. VerdictsInv'
    BY <1>3, <2>1 DEF ReportInv, VerdictsInv
  <2>5. /\ \A n \in validated' : WellFounded(n)
        /\ \A i \in issues' : ~WellFounded(i.interaction) /\ i.reason = Blame(i.interaction)
    BY <2>1, <2>3 DEF RightVerdict, ReportInv, ReportsTheUnfounded
  <2> QED BY <1>3, <2>1, <2>4, <2>5 DEF ReportsTheUnfounded
<1>12. CASE Ask \/ Descend
  <2>1. /\ issues' = issues /\ validated' = validated /\ memo' = memo
        /\ phase \in {"emit", "relate"} /\ phase' = "relate"
    BY <1>12 DEF Ask, Descend
  <2> QED BY <1>3, <1>4, <2>1 DEF ReportInv, VerdictsInv
<1>13. CASE Report
  <2>1. /\ issues' = issues /\ validated' = validated /\ memo' = memo
        /\ phase = "emit" /\ phase' = "done" /\ Known \subseteq Judged
    BY <1>13 DEF Report
  <2>2. VerdictsInv'
    BY <1>2, <1>3, <2>1 DEF ReportInv, VerdictsInv, Judged
  <2>3. ASSUME NEW n \in Known \ validated
        PROVE  [reason |-> Blame(n), interaction |-> n] \in issues
    <3>1. PICK i \in issues : i.interaction = n
      BY <2>1 DEF Judged
    <3>2. i = [reason |-> i.reason, interaction |-> i.interaction]
      BY <1>1, <3>1 DEF TypeOK
    <3>3. i.reason = Blame(n)
      BY <3>1 DEF ReportInv, ReportsTheUnfounded
    <3> QED BY <3>1, <3>2, <3>3
  <2> QED BY <1>2, <1>3, <2>1, <2>2, <2>3 DEF ReportInv, ReportsTheUnfounded
<1>14. CASE UNCHANGED vars
  BY <1>2, <1>3, <1>14 DEF vars, ReportInv, VerdictsInv, ReportsTheUnfounded, Judged
<1> QED BY <1>5, <1>6, <1>9, <1>10, <1>11, <1>12, <1>13, <1>14 DEF Next

LEMMA ReportAlways == Spec => []ReportInv
<1>1. Init => ReportInv
  <2>1. Init => /\ phase = "circles" /\ validated = {} /\ issues = {}
    BY DEF Init
  <2>2. Init => VerdictsInv /\ ReportsTheUnfounded
    BY <2>1 DEF VerdictsInv, ReportsTheUnfounded
  <2> QED BY <2>2, RelationInit DEF ReportInv
<1>2. ReportInv /\ [Next]_vars => ReportInv'
  BY RelationNext, VerdictsNext DEF ReportInv
<1> QED BY <1>1, <1>2, PTL DEF Spec

\* Validated are the well-founded handoffs; each of the others is reported for
\* its own reason, whoever was asked for first.
THEOREM Verdicts == Spec => []ReportsTheUnfounded
<1>1. ReportInv => ReportsTheUnfounded
  BY DEF ReportInv
<1> QED BY <1>1, ReportAlways, PTL

\* There is one report for a graph, in whatever order the loops go through it:
\* the one that EvidenceValidation, where both loops are one step, emits.
THEOREM OneReport ==
  Spec => [](phase = "done" =>
               /\ validated = {n \in Known : WellFounded(n)}
               /\ issues = {[reason |-> Blame(n), interaction |-> n] :
                              n \in {m \in Known : ~WellFounded(m)}})
<1>1. ASSUME ReportInv, phase = "done"
      PROVE  /\ validated = {n \in Known : WellFounded(n)}
             /\ issues = {[reason |-> Blame(n), interaction |-> n] :
                            n \in {m \in Known : ~WellFounded(m)}}
  <2>1. /\ validated \subseteq Known /\ issues \subseteq [reason : Failures, interaction : Known]
    BY <1>1 DEF ReportInv, RelationInv, TypeInv, TypeOK, Judged
  <2>2. /\ \A n \in validated : WellFounded(n)
        /\ \A i \in issues : ~WellFounded(i.interaction) /\ i.reason = Blame(i.interaction)
        /\ \A n \in Known \ validated : [reason |-> Blame(n), interaction |-> n] \in issues
    BY <1>1 DEF ReportInv, ReportsTheUnfounded
  <2>3. ASSUME NEW n \in Known, WellFounded(n) PROVE n \in validated
    <3>1. [reason |-> Blame(n), interaction |-> n].interaction = n
      OBVIOUS
    <3> QED BY <2>2, <2>3, <3>1
  <2>4. ASSUME NEW i \in issues
        PROVE  /\ i = [reason |-> Blame(i.interaction), interaction |-> i.interaction]
               /\ i.interaction \in Known /\ ~WellFounded(i.interaction)
    BY <2>1, <2>2
  <2>5. ASSUME NEW n \in Known, ~WellFounded(n)
        PROVE  [reason |-> Blame(n), interaction |-> n] \in issues
    BY <2>2, <2>5
  <2>6. validated = {n \in Known : WellFounded(n)}
    BY <2>1, <2>2, <2>3
  <2> QED BY <2>4, <2>5, <2>6
<1> QED BY <1>1, ReportAlways, PTL

-----------------------------------------------------------------------------
(***************************************************************************)
(* Termination.  An interaction is walked over at most once before it is   *)
(* finished, and descended from at most once before there is a verdict on  *)
(* it; and nothing is asked that was answered.                             *)
(***************************************************************************)
LEMMA NoLonger ==
  ASSUME NEW S, IsFiniteSet(S), NEW p \in Seq(S), \A i, j \in 1 .. Len(p) : p[i] = p[j] => i = j
  PROVE  /\ Len(p) <= Cardinality(S)
         /\ Cardinality({p[i] : i \in DOMAIN p}) = Len(p)
<1> DEFINE D == 1 .. Len(p)
           on == {p[i] : i \in DOMAIN p}
<1>1. Len(p) \in Nat /\ DOMAIN p = D /\ on \subseteq S
  OBVIOUS
<1>2. IsFiniteSet(D) /\ Cardinality(D) = Len(p)
  BY <1>1, FS_Interval
<1>3. p \in Injection(D, S) /\ p \in Surjection(D, on) /\ p \in Injection(D, on)
  BY <1>1 DEF Surjection, Injection, IsInjective
<1> HIDE DEF D, on
<1>4. Cardinality(D) <= Cardinality(S) /\ Cardinality(on) = Cardinality(D)
  BY <1>2, <1>3, FS_Injection, FS_Surjection
<1> QED BY <1>2, <1>4 DEF on

\* What is left of a finite set when more is taken away.
LEMMA LeftOver ==
  ASSUME NEW S, IsFiniteSet(S), NEW T, NEW U, T \subseteq U
  PROVE  /\ Cardinality(S \ T) \in Nat /\ Cardinality(S \ U) \in Nat
         /\ Cardinality(S \ U) <= Cardinality(S \ T)
         /\ \A x \in S : x \notin T /\ x \in U
              => Cardinality(S \ U) <= Cardinality(S \ T) - 1
<1>1. IsFiniteSet(S \ T) /\ S \ U \subseteq S \ T /\ IsFiniteSet(S \ U)
  BY FS_Subset
<1>2. /\ Cardinality(S \ T) \in Nat /\ Cardinality(S \ U) \in Nat
      /\ Cardinality(S \ U) <= Cardinality(S \ T)
      /\ Cardinality(S \ U) = Cardinality(S \ T) => S \ U = S \ T
  BY <1>1, FS_CardinalityType, FS_Subset
<1>3. ASSUME NEW x \in S, x \notin T, x \in U
      PROVE  Cardinality(S \ U) <= Cardinality(S \ T) - 1
  <2>1. S \ U # S \ T
    BY <1>3
  <2> QED BY <1>2, <2>1
<1> QED BY <1>2, <1>3

Asking ==
  /\ phase = "walk" /\ path = <<>> => here \in Known \ finished
  /\ phase = "relate" => asked \notin Judged

LEMMA AskingNext == RelationInv /\ Asking /\ [Next]_vars => Asking'
<1> SUFFICES ASSUME RelationInv, Asking, [Next]_vars PROVE Asking'
  OBVIOUS
<1>1. Known' = Known
  BY GraphStays
<1>2. CASE StartWalk
  BY <1>1, <1>2 DEF StartWalk, Asking
<1>3. CASE Walk
  <2>1. path \in Seq(Known) /\ here \in Known
    BY <1>3 DEF Walk, RelationInv, TypeInv, TypeOK
  <2>2. path' # <<>>
    BY <1>3, <2>1 DEF Walk
  <2> QED BY <1>3, <2>2 DEF Walk, Asking
<1>4. CASE EndWalk \/ CirclesFound \/ Answer \/ Report
  BY <1>4 DEF EndWalk, CirclesFound, Answer, Report, Asking
<1>5. CASE Ask
  BY <1>5 DEF Ask, Asking, Judged
<1>6. CASE JudgeAlone \/ Descend \/ Ascend
  BY <1>6 DEF JudgeAlone, Descend, Ascend, Asking, Judged
<1>7. CASE UNCHANGED vars
  BY <1>1, <1>7 DEF vars, Asking, Judged
<1> QED BY <1>2, <1>3, <1>4, <1>5, <1>6, <1>7 DEF Next

Unwalked == Cardinality(Known \ finished)
Unanswered == Cardinality(Known \ Judged)
Unremembered == Cardinality(Known \ DOMAIN memo)

Counts ==
  /\ Cardinality(Known) \in Nat /\ Len(path) \in Nat
  /\ Unwalked \in 0 .. Cardinality(Known)
  /\ Unanswered \in 0 .. Cardinality(Known)
  /\ Unremembered \in 0 .. Cardinality(Known)
  /\ phase = "walk" => Len(path) <= Unwalked
  /\ phase = "relate" => Len(path) <= Unremembered

LEMMA CountsHold == RelationInv => Counts
<1> SUFFICES ASSUME RelationInv PROVE Counts
  OBVIOUS
<1>1. IsFiniteSet(Known)
  BY HandoffAssumption, FS_Subset DEF RelationInv, TypeInv, TypeOK
<1>2. Cardinality(Known) \in Nat
  BY <1>1, FS_CardinalityType
<1>3. \A T : Cardinality(Known \ T) \in 0 .. Cardinality(Known)
  BY <1>1, <1>2, FS_Subset, FS_CardinalityType
<1>4. /\ Len(path) \in Nat /\ path \in Seq(Known) /\ DOMAIN path = 1 .. Len(path)
      /\ \A i \in 1 .. Len(path) : path[i] \in Known
      /\ \A i, j \in 1 .. Len(path) : path[i] = path[j] => i = j
  BY Paths DEF RelationInv, TypeInv, TypeOK, PathInv, NeverTwice
<1>5. ASSUME NEW T, OnPath \cap T = {} PROVE Len(path) <= Cardinality(Known \ T)
  <2>1. path \in Seq(Known \ T)
    BY <1>4, <1>5 DEF OnPath
  <2>2. IsFiniteSet(Known \ T)
    BY <1>1, FS_Subset
  <2> QED BY <1>4, <2>1, <2>2, NoLonger
<1> QED BY <1>2, <1>3, <1>4, <1>5
        DEF Counts, Unwalked, Unanswered, Unremembered, RelationInv, PathInv

LEMMA StepsLeftAt ==
  /\ phase = "circles" => StepsLeft = 3 * Unwalked + 4 * Cardinality(Known) + 2
  /\ phase = "walk" => StepsLeft = 3 * Unwalked + 4 * Cardinality(Known) + 1 - Len(path)
  /\ phase = "emit" => StepsLeft = 2 * (Unanswered + Unremembered) + 1
  /\ phase = "relate" => StepsLeft = 2 * (Unanswered + Unremembered) - Len(path)
  /\ phase = "done" => StepsLeft = 0
BY DEF StepsLeft, Unwalked, Unanswered, Unremembered

LEMMA CloserNext ==
  ASSUME RelationInv, Asking, Counts, Counts', Next
  PROVE  StepsLeft' \in 0 .. StepsLeft - 1
<1> DEFINE N == Cardinality(Known)
<1>1. Known' = Known /\ N' = N /\ IsFiniteSet(Known)
  BY GraphStays, HandoffAssumption, FS_Subset DEF RelationInv, TypeInv, TypeOK
<1>2. /\ Len(path) \in Nat /\ DOMAIN path = 1 .. Len(path) /\ path \in Seq(Known)
      /\ \A i \in 1 .. Len(path) : path[i] \in Known
      /\ path = <<>> <=> Len(path) = 0
      /\ \A n \in Known : Len(Append(path, n)) = Len(path) + 1
      /\ \A i, j \in 1 .. Len(path) : path[i] = path[j] => i = j
  BY Paths DEF RelationInv, TypeInv, TypeOK, PathInv, NeverTwice
<1>3. /\ N \in Nat /\ Unwalked \in 0 .. N /\ Unanswered \in 0 .. N /\ Unremembered \in 0 .. N
      /\ phase = "walk" => Len(path) <= Unwalked
      /\ phase = "relate" => Len(path) <= Unremembered
  BY DEF Counts
<1>4. /\ Len(path') \in Nat
      /\ Unwalked' \in 0 .. N /\ Unanswered' \in 0 .. N /\ Unremembered' \in 0 .. N
      /\ phase' = "walk" => Len(path') <= Unwalked'
      /\ phase' = "relate" => Len(path') <= Unremembered'
  BY <1>1 DEF Counts
<1> HIDE DEF N
<1>5. /\ phase' = "circles" => StepsLeft' = 3 * Unwalked' + 4 * N + 2
      /\ phase' = "walk" => StepsLeft' = 3 * Unwalked' + 4 * N + 1 - Len(path')
      /\ phase' = "emit" => StepsLeft' = 2 * (Unanswered' + Unremembered') + 1
      /\ phase' = "relate" => StepsLeft' = 2 * (Unanswered' + Unremembered') - Len(path')
      /\ phase' = "done" => StepsLeft' = 0
  BY <1>1 DEF StepsLeft, Unwalked, Unanswered, Unremembered, N
<1>6. /\ phase = "circles" => StepsLeft = 3 * Unwalked + 4 * N + 2
      /\ phase = "walk" => StepsLeft = 3 * Unwalked + 4 * N + 1 - Len(path)
      /\ phase = "emit" => StepsLeft = 2 * (Unanswered + Unremembered) + 1
      /\ phase = "relate" => StepsLeft = 2 * (Unanswered + Unremembered) - Len(path)
  BY StepsLeftAt DEF N
<1>7. CASE StartWalk
  <2>1. Unwalked' = Unwalked /\ path' = path /\ path = <<>>
    BY <1>1, <1>7 DEF StartWalk, Unwalked, RelationInv, TypeInv, PathBegins
  <2> QED BY <1>2, <1>3, <1>5, <1>6, <1>7, <2>1 DEF StartWalk
<1>8. CASE Walk
  <2>1. Unwalked' = Unwalked /\ here \in Known /\ path' = Append(path, here)
    BY <1>1, <1>8 DEF Walk, Unwalked
  <2>2. Len(path') = Len(path) + 1
    BY <1>2, <2>1
  <2>3. phase = "walk" /\ phase' = "walk"
    BY <1>8 DEF Walk
  <2> QED BY <1>2, <1>3, <1>4, <1>5, <1>6, <2>1, <2>2, <2>3
<1>9. CASE EndWalk
  <2>1. Len(path) >= 1
    BY <1>2, <1>9 DEF EndWalk, Asking, OnPath
  <2>2. Cardinality(OnPath) = Len(path)
    BY <1>1, <1>2, NoLonger DEF OnPath
  <2>3. (Known \ finished) \cap OnPath = OnPath
    BY <1>2, <1>9 DEF EndWalk, RelationInv, PathInv, OnPath
  <2>4. Known' \ finished' = (Known \ finished) \ OnPath
    BY <1>1, <1>9 DEF EndWalk
  <2>5. Cardinality((Known \ finished) \ OnPath) = Cardinality(Known \ finished) - Cardinality(OnPath)
    BY <1>1, <2>3, FS_Difference
  <2>6. Unwalked' = Unwalked - Len(path)
    BY <2>2, <2>4, <2>5 DEF Unwalked
  <2>7. phase = "walk" /\ phase' = "circles"
    BY <1>9 DEF EndWalk
  <2> QED BY <1>2, <1>3, <1>4, <1>5, <1>6, <2>1, <2>6, <2>7
<1>10. CASE CirclesFound
  <2>1. phase = "circles" /\ phase' = "emit"
    BY <1>10 DEF CirclesFound
  <2>2. /\ StepsLeft = 3 * Unwalked + 4 * N + 2
        /\ StepsLeft' = 2 * (Unanswered' + Unremembered') + 1
    BY <1>5, <1>6, <2>1
  <2>3. N \in Nat /\ Unwalked \in Nat
    BY <1>3
  <2>4. /\ Unanswered' \in Nat /\ Unremembered' \in Nat
        /\ Unanswered' <= N /\ Unremembered' <= N
    BY <1>4, <2>3
  <2>5. \A a, b, n, w \in Nat : a <= n /\ b <= n => 2 * (a + b) + 1 \in 0 .. (3 * w + 4 * n + 2) - 1
    OBVIOUS
  <2>6. 2 * (Unanswered' + Unremembered') + 1 \in 0 .. (3 * Unwalked + 4 * N + 2) - 1
    BY <2>3, <2>4, <2>5
  <2> QED BY <2>2, <2>6
<1>11. CASE Ask
  <2>1. Unanswered' = Unanswered /\ Unremembered' = Unremembered /\ path' = path /\ path = <<>>
    BY <1>1, <1>11 DEF Ask, Unanswered, Unremembered, Judged, RelationInv, TypeInv, PathBegins
  <2>2. phase = "emit" /\ phase' = "relate"
    BY <1>11 DEF Ask
  <2> QED BY <1>2, <1>3, <1>4, <1>5, <1>6, <2>1, <2>2
<1>12. CASE JudgeAlone
  <2>1. here \in Known /\ here \notin DOMAIN memo /\ DOMAIN memo' = DOMAIN memo \cup {here}
    BY <1>12 DEF JudgeAlone, Remember, RelationInv, TypeInv, TypeOK
  <2>2. Unremembered' <= Unremembered - 1
    BY <1>1, <2>1, LeftOver DEF Unremembered
  <2>3. Unanswered' = Unanswered /\ path' = path /\ phase = "relate" /\ phase' = "relate"
    BY <1>1, <1>12 DEF JudgeAlone, Unanswered, Judged
  <2> QED BY <1>2, <1>3, <1>4, <1>5, <1>6, <2>2, <2>3
<1>13. CASE Descend
  <2>1. /\ Unanswered' = Unanswered /\ Unremembered' = Unremembered
        /\ phase = "relate" /\ phase' = "relate" /\ here \in Known /\ path' = Append(path, here)
    BY <1>1, <1>13 DEF Descend, Unanswered, Unremembered, Judged, RelationInv, TypeInv, TypeOK
  <2>2. Len(path') = Len(path) + 1
    BY <1>2, <2>1
  <2> QED BY <1>2, <1>3, <1>4, <1>5, <1>6, <2>1, <2>2
<1>14. CASE Ascend
  <2>1. Len(path) \in DOMAIN path /\ Len(path) >= 1
    BY <1>2, <1>14 DEF Ascend
  <2> DEFINE child == path[Len(path)]
  <2>2. child \in Known /\ child \notin DOMAIN memo
    BY <1>2, <1>14, <2>1 DEF Ascend, RelationInv, PathInv, OnPath
  <2>3. DOMAIN memo' = DOMAIN memo \cup {child}
    BY <1>14 DEF Ascend, Remember
  <2>4. Unremembered' <= Unremembered - 1
    BY <1>1, <2>2, <2>3, LeftOver DEF Unremembered
  <2>5. Len(path') = Len(path) - 1
    BY <1>2, <1>14, <2>1 DEF Ascend
  <2>6. Unanswered' = Unanswered /\ phase = "relate" /\ phase' = "relate"
    BY <1>1, <1>14 DEF Ascend, Unanswered, Judged
  <2> QED BY <1>2, <1>3, <1>4, <1>5, <1>6, <2>1, <2>4, <2>5, <2>6
<1>15. CASE Answer
  <2>1. asked \in Known \ Judged /\ Judged' = Judged \cup {asked}
    <3>1. asked \in Known \ Judged
      BY <1>15 DEF Answer, Asking, RelationInv, TypeInv, TypeOK
    <3>2. \/ /\ validated' = validated \cup {asked}
             /\ issues' = issues
          \/ /\ validated' = validated
             /\ issues' = issues \cup {[reason |-> memo[asked], interaction |-> asked]}
      BY <1>15 DEF Answer
    <3>3. ASSUME NEW x, x.interaction = asked, issues' = issues \cup {x}
          PROVE  {i.interaction : i \in issues'} = {i.interaction : i \in issues} \cup {asked}
      BY <3>3
    <3>4. CASE validated' = validated
      <4>1. PICK x : x.interaction = asked /\ issues' = issues \cup {x}
        <5>1. [reason |-> memo[asked], interaction |-> asked].interaction = asked
          OBVIOUS
        <5>2. issues' = issues \cup {[reason |-> memo[asked], interaction |-> asked]}
              \/ (asked \in validated /\ issues' = issues)
          BY <3>2, <3>4
        <5> QED BY <3>1, <5>1, <5>2 DEF Judged
      <4> QED BY <3>1, <3>3, <3>4, <4>1 DEF Judged
    <3>5. CASE validated' = validated \cup {asked} /\ issues' = issues
      BY <3>1, <3>5 DEF Judged
    <3> QED BY <3>2, <3>4, <3>5
  <2>2. Unanswered' <= Unanswered - 1
    BY <1>1, <2>1, LeftOver DEF Unanswered
  <2>3. Unremembered' = Unremembered /\ phase = "relate" /\ phase' = "emit" /\ path = <<>>
    BY <1>1, <1>15 DEF Answer, Unremembered
  <2>4. /\ StepsLeft = 2 * (Unanswered + Unremembered) - Len(path) /\ Len(path) = 0
        /\ StepsLeft' = 2 * (Unanswered' + Unremembered') + 1
    BY <1>2, <1>5, <1>6, <2>3
  <2>5. /\ Unanswered \in Nat /\ Unremembered \in Nat /\ Unanswered' \in Nat
    BY <1>3, <1>4
  <2>6. \A a, b, c \in Nat : c <= a - 1 => 2 * (c + b) + 1 \in 0 .. (2 * (a + b) - 0) - 1
    OBVIOUS
  <2>7. 2 * (Unanswered' + Unremembered') + 1 \in 0 .. (2 * (Unanswered + Unremembered) - 0) - 1
    BY <2>2, <2>3, <2>5, <2>6
  <2> QED BY <2>4, <2>7
<1>16. CASE Report
  <2>1. phase = "emit" /\ phase' = "done"
    BY <1>16 DEF Report
  <2>2. StepsLeft = 2 * (Unanswered + Unremembered) + 1 /\ StepsLeft' = 0
    BY <1>5, <1>6, <2>1
  <2>3. Unanswered \in Nat /\ Unremembered \in Nat
    BY <1>3
  <2> QED BY <2>2, <2>3
<1> QED BY <1>7, <1>8, <1>9, <1>10, <1>11, <1>12, <1>13, <1>14, <1>15, <1>16 DEF Next

\* The last stage of the validator is over after at most 7n + 2 steps, n being
\* the number of candidates, whatever they point to and whichever is asked for
\* first.
THEOREM RelationsEnd ==
  /\ Init => StepsLeft = 7 * Cardinality(Known) + 2
  /\ Spec => ComesCloser
<1>1. Init => StepsLeft = 7 * Cardinality(Known) + 2
  <2> SUFFICES ASSUME Init PROVE StepsLeft = 7 * Cardinality(Known) + 2
    OBVIOUS
  <2>1. phase = "circles" /\ Known \ finished = Known
    BY DEF Init
  <2>2. Cardinality(Known) \in Nat
    BY RelationInit, CountsHold DEF Counts
  <2> QED BY <2>1, <2>2, StepsLeftAt DEF Unwalked
<1>2. Init => Asking
  BY DEF Init, Asking
<1>3. RelationInv /\ Asking /\ Counts /\ Counts' /\ [Next]_vars
        => [StepsLeft' \in 0 .. StepsLeft - 1]_vars
  BY CloserNext
<1> QED BY <1>1, <1>2, <1>3, RelationInit, RelationNext, AskingNext, CountsHold, PTL
           DEF Spec, ComesCloser
=============================================================================
