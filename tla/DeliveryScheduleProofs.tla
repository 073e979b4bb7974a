----------------------- MODULE DeliveryScheduleProofs -----------------------
(***************************************************************************)
(* Proofs about DeliverySchedule, for any batches, partitions, delays and  *)
(* overrides: its types; the search for a release time is right and ends;  *)
(* each copy has one outcome; a projection only ever grows at its end and  *)
(* keeps the first copy of each message; and the schedule, shown second by *)
(* second, is a network that closes and buffers (BufferingNetwork).        *)
(***************************************************************************)
EXTENDS DeliverySchedule, FiniteSetTheorems, SequenceTheorems, WellFoundedInduction, TLAPS

\* Among the numbers up to eight a set that is not empty has a largest: the
\* copy count is one of the numbers it is chosen from.
LEMMA MaxOfFew ==
  ASSUME NEW S \in SUBSET (1 .. 8), S # {}
  PROVE  Max(S) \in S /\ \A n \in S : Max(S) >= n
<1>1. \E m \in S : \A n \in S : m >= n
  <2>1. ASSUME \A m \in S : \E n \in S : m < n
        PROVE  FALSE
    <3>1. 8 \notin S
      BY <2>1
    <3>2. 7 \notin S
      BY <2>1, <3>1
    <3>3. 6 \notin S
      BY <2>1, <3>1, <3>2
    <3>4. 5 \notin S
      BY <2>1, <3>1, <3>2, <3>3
    <3>5. 4 \notin S
      BY <2>1, <3>1, <3>2, <3>3, <3>4
    <3>6. 3 \notin S
      BY <2>1, <3>1, <3>2, <3>3, <3>4, <3>5
    <3>7. 2 \notin S
      BY <2>1, <3>1, <3>2, <3>3, <3>4, <3>5, <3>6
    <3>8. 1 \notin S
      BY <2>1, <3>1, <3>2, <3>3, <3>4, <3>5, <3>6, <3>7
    <3>9. PICK m \in S : m \in 1 .. 8
      OBVIOUS
    <3>10. m = 1 \/ m = 2 \/ m = 3 \/ m = 4 \/ m = 5 \/ m = 6 \/ m = 7 \/ m = 8
      BY <3>9
    <3> QED BY <3>1, <3>2, <3>3, <3>4, <3>5, <3>6, <3>7, <3>8, <3>10
  <2> QED BY <2>1
<1> QED BY <1>1 DEF Max

\* What the assumption on the constants says of the inputs of a schedule.
LEMMA InputTypes ==
  ASSUME TypeOK
  PROVE  /\ DOMAIN messages \subseteq Slots
         /\ \A s \in DOMAIN messages : messages[s] \in Messages
         /\ policy \in PolicyRecords
         /\ overrides \subseteq Overrides
BY DeliveryAssumption DEF TypeOK

LEMMA CopyCountType ==
  ASSUME TypeOK, NEW s \in Slots, NEW duplicate \in BOOLEAN
  PROVE  CopyCount(s, duplicate) \in Nat
<1> DEFINE S == {IF duplicate THEN 2 ELSE 1} \cup {o.copy + 1 : o \in OverridesOf(s)}
<1>1. \A o \in OverridesOf(s) : o.copy \in 0 .. 7
  BY InputTypes DEF OverridesOf, Overrides, CopyIndices
<1>2. S \in SUBSET (1 .. 8) /\ S # {}
  BY <1>1
<1>3. Max(S) \in S
  BY <1>2, MaxOfFew
<1> QED BY <1>2, <1>3 DEF CopyCount

\* The delays a copy may depart with.
LEMMA DelayTypes ==
  ASSUME TypeOK
  PROVE  /\ DrawnDelays \subseteq Nat
         /\ \A o \in OverrideOfCopy :
              /\ o.disposition \in Dispositions
              /\ o.delay # Drawn => o.delay \in Nat
BY InputTypes DEF DrawnDelays, PolicyRecords, OverrideOfCopy, OverridesOf, Overrides

LEMMA ScheduleTypes ==
  ASSUME TypeOK, slot \in DOMAIN messages,
         NEW d \in Dispositions, NEW r \in Nat \cup {Never}, NEW a \in Nat \cup {Never},
         d = "DELIVER" => r \in Nat /\ a \in Nat,
         Schedule(Transmission(d, r, a))
  PROVE  TypeOK'
<1>1. copy' \in Nat /\ pc' \in {"COPY", "MESSAGE"}
  BY DEF TypeOK, Schedule
<1>2. Transmission(d, r, a) \in
        [slot : DOMAIN messages, copy : Nat, disposition : Dispositions,
         readyAt : Nat \cup {Never}, deliveredAt : Nat \cup {Never}]
  BY DEF TypeOK, Transmission
<1>3. \A x \in Delivered' : x.readyAt \in Nat /\ x.deliveredAt \in Nat
  BY DEF TypeOK, Delivered, Transmission, Schedule
<1> QED BY <1>1, <1>2, <1>3 DEF TypeOK, Schedule, inputs

LEMMA DepartTypes ==
  ASSUME TypeOK, slot \in DOMAIN messages, NEW delays \in SUBSET Nat, Depart(delays)
  PROVE  TypeOK'
<1>1. messages[slot].sentAt \in Nat
  BY InputTypes DEF Messages
<1>2. readyAt' \in Nat /\ candidate' \in Nat
  BY <1>1 DEF Depart
<1>3. Delivered' = Delivered
  BY DEF Delivered, Depart
<1> QED BY <1>2, <1>3 DEF TypeOK, Depart, inputs

\* The type invariant is inductive.
LEMMA TypeStep ==
  ASSUME TypeOK, [Next]_vars
  PROVE  TypeOK'
<1> USE DEF TypeOK, inputs
<1>1. CASE CheckInputs
  BY <1>1 DEF CheckInputs, Delivered
<1>2. ASSUME NEW s \in DOMAIN messages, NextMessage(s)
      PROVE  TypeOK'
  <2>1. copies' \in Nat
    BY <1>2, InputTypes, CopyCountType DEF NextMessage, PolicyRecords
  <2> QED BY <1>2, <2>1, InputTypes DEF NextMessage, Delivered
<1>3. CASE Compiled
  BY <1>3 DEF Compiled, Delivered
<1>4. CASE Withhold
  BY <1>4, ScheduleTypes DEF Withhold, Dispositions
<1>5. CASE FollowOverride
  <2>1. PICK o \in OverrideOfCopy :
          \/ /\ o.disposition = "DELIVER"
             /\ Depart(IF o.delay = Drawn THEN DrawnDelays ELSE {o.delay})
          \/ /\ o.disposition # "DELIVER"
             /\ Schedule(Transmission(o.disposition, Never, Never))
    BY <1>5 DEF FollowOverride
  <2>2. (IF o.delay = Drawn THEN DrawnDelays ELSE {o.delay}) \in SUBSET Nat
    BY DelayTypes
  <2>3. slot \in DOMAIN messages
    BY <1>5 DEF FollowOverride
  <2>4. o.disposition \in Dispositions
    BY DelayTypes
  <2> QED BY <2>1, <2>2, <2>3, <2>4, DepartTypes, ScheduleTypes
<1>6. CASE DrawLoss
  <2>1. slot \in DOMAIN messages /\ "LOST" \in Dispositions
    BY <1>6 DEF DrawLoss, Dispositions
  <2> QED BY <1>6, <2>1, DelayTypes, DepartTypes, ScheduleTypes DEF DrawLoss
<1>7. CASE Hold
  <2>1. candidate' \in Nat
    BY <1>7, InputTypes DEF Hold, Matches, PolicyRecords, Partitions
  <2> QED BY <1>7, <2>1 DEF Hold, Delivered
<1>8. CASE Release
  BY <1>8, ScheduleTypes DEF Release, Dispositions
<1>9. CASE Project
  BY <1>9, DeliveryAssumption DEF Project, Delivered
<1>10. CASE UNCHANGED vars
  BY <1>10 DEF vars, Delivered
<1> QED BY <1>1, <1>2, <1>3, <1>4, <1>5, <1>6, <1>7, <1>8, <1>9, <1>10
        DEF Next, Compile

\* The compiler's variables keep their types, whatever is handed to it.
THEOREM TypeCorrect == Spec => []TypeOK
<1>1. Init => TypeOK
  BY DeliveryAssumption DEF Init, TypeOK, Delivered
<1> QED BY <1>1, TypeStep, PTL DEF Spec

(***************************************************************************)
(* The search for a release time.                                          *)
(***************************************************************************)
Ended(t) == {w \in policy.partitions : w.endsAt <= t}
ClosedAt(link, t) == \E w \in policy.partitions : Holds(w, link, t)

\* Each round passes the end of a partition that had not ended.
RoundsPassEnds ==
  /\ rounds <= Cardinality(policy.partitions)
  /\ pc = "PARTITION" => rounds <= Cardinality(Ended(candidate))

\* Whatever the search has passed over is closed.
PassedOver ==
  pc = "PARTITION" =>
    /\ candidate >= readyAt
    /\ \A t \in readyAt .. candidate - 1 : ClosedAt(messages[slot].link, t)

LEMMA PartitionsFinite ==
  ASSUME TypeOK
  PROVE  /\ IsFiniteSet(policy.partitions)
         /\ Cardinality(policy.partitions) \in Nat
         /\ \A t : /\ IsFiniteSet(Ended(t))
                   /\ Cardinality(Ended(t)) \in Nat
                   /\ Cardinality(Ended(t)) <= Cardinality(policy.partitions)
<1>1. IsFiniteSet(policy.partitions)
  BY InputTypes DEF PolicyRecords
<1>2. ASSUME NEW t
      PROVE  /\ IsFiniteSet(Ended(t))
             /\ Cardinality(Ended(t)) \in Nat
             /\ Cardinality(Ended(t)) <= Cardinality(policy.partitions)
  <2>1. Ended(t) \subseteq policy.partitions
    BY DEF Ended
  <2> QED BY <1>1, <2>1, FS_Subset, FS_CardinalityType
<1> QED BY <1>1, <1>2, FS_CardinalityType

\* The step that leaves the partitions behind it starts with none passed.
LEMMA DepartRounds ==
  ASSUME TypeOK, NEW delays, Depart(delays), RoundsPassEnds
  PROVE  RoundsPassEnds'
<1>1. rounds' = 0 /\ policy' = policy
  BY DEF Depart, inputs
<1>2. Cardinality(Ended(candidate)') \in Nat /\ Cardinality(policy.partitions) \in Nat
  BY <1>1, PartitionsFinite DEF Ended
<1> QED BY <1>1, <1>2 DEF RoundsPassEnds

LEMMA HoldRounds ==
  ASSUME TypeOK, TypeOK', Hold, RoundsPassEnds
  PROVE  RoundsPassEnds'
<1>1. PICK w \in Matches : candidate' = w.endsAt
  BY DEF Hold
<1>2. /\ w \in policy.partitions /\ candidate < w.endsAt
      /\ pc = "PARTITION" /\ pc' = pc /\ policy' = policy /\ rounds' = rounds + 1
  BY <1>1 DEF Hold, Matches, Holds, inputs
<1>3. w \notin Ended(candidate) /\ \A v \in policy.partitions : v.endsAt \in Nat
  BY <1>2, InputTypes DEF Ended, PolicyRecords, Partitions, TypeOK
<1>4. Ended(candidate) \cup {w} \subseteq Ended(w.endsAt)
  BY <1>2, <1>3 DEF Ended, TypeOK
<1>5. Cardinality(Ended(candidate) \cup {w}) = Cardinality(Ended(candidate)) + 1
  BY <1>3, PartitionsFinite, FS_AddElement
<1>6. Cardinality(Ended(candidate) \cup {w}) <= Cardinality(Ended(w.endsAt))
  BY <1>4, PartitionsFinite, FS_Subset
<1>7. rounds <= Cardinality(Ended(candidate))
  BY <1>2 DEF RoundsPassEnds
<1>8. /\ rounds \in Nat /\ Cardinality(Ended(candidate)) \in Nat
      /\ Cardinality(Ended(w.endsAt)) \in Nat /\ Cardinality(policy.partitions) \in Nat
      /\ Cardinality(Ended(w.endsAt)) <= Cardinality(policy.partitions)
  BY PartitionsFinite DEF TypeOK
<1>9. rounds + 1 <= Cardinality(Ended(w.endsAt))
  BY <1>5, <1>6, <1>7, <1>8
<1>10. Ended(candidate)' = Ended(w.endsAt)
  BY <1>1, <1>2 DEF Ended
<1> QED BY <1>2, <1>8, <1>9, <1>10 DEF RoundsPassEnds

LEMMA RoundsStep ==
  ASSUME TypeOK, TypeOK', RoundsPassEnds, [Next]_vars
  PROVE  RoundsPassEnds'
<1> DEFINE Rest == /\ policy' = policy /\ rounds' = rounds
                   /\ pc' = "PARTITION" => pc = "PARTITION" /\ candidate' = candidate
<1>1. Rest => RoundsPassEnds'
  BY DEF RoundsPassEnds, Ended
<1>2. CASE CheckInputs \/ Compiled \/ Project
  BY <1>1, <1>2 DEF CheckInputs, Compiled, Project, inputs
<1>3. ASSUME NEW s \in DOMAIN messages, NextMessage(s)
      PROVE  RoundsPassEnds'
  BY <1>1, <1>3 DEF NextMessage, inputs
<1>4. CASE Withhold \/ Release
  BY <1>1, <1>4 DEF Withhold, Release, Schedule, inputs
<1>5. CASE FollowOverride
  BY <1>1, <1>5, DepartRounds DEF FollowOverride, Schedule, inputs
<1>6. CASE DrawLoss
  BY <1>1, <1>6, DepartRounds DEF DrawLoss, Schedule, inputs
<1>7. CASE Hold
  BY <1>7, HoldRounds
<1>8. CASE UNCHANGED vars
  BY <1>1, <1>8 DEF vars, inputs
<1> QED BY <1>2, <1>3, <1>4, <1>5, <1>6, <1>7, <1>8 DEF Next, Compile

\* _partition_release settles within as many rounds as there are partitions, so
\* that its error "partition release did not converge" cannot occur.
THEOREM Settles == Spec => []SettlesInTime
<1>1. TypeOK /\ Init => RoundsPassEnds
  BY PartitionsFinite DEF Init, RoundsPassEnds
<1>2. RoundsPassEnds => SettlesInTime
  BY DEF RoundsPassEnds, SettlesInTime
<1> QED BY <1>1, <1>2, TypeCorrect, RoundsStep, PTL DEF Spec

ArrivalOf(x) ==
  /\ x.deliveredAt >= x.readyAt
  /\ \A t \in x.readyAt .. x.deliveredAt - 1 : ClosedAt(messages[x.slot].link, t)
  /\ ~ClosedAt(messages[x.slot].link, x.deliveredAt)

LEMMA ArrivalMeaning ==
  ArrivesAtFirstFreeInstant <=> \A x \in Delivered : ArrivalOf(x)
BY DEF ArrivesAtFirstFreeInstant, ArrivalOf, ClosedAt

LEMMA DepartPasses ==
  ASSUME TypeOK', NEW delays, Depart(delays)
  PROVE  PassedOver'
<1>1. candidate' = readyAt' /\ readyAt' \in Nat
  BY DEF Depart, TypeOK
<1>2. \A n \in Nat : n >= n /\ \A t \in n .. n - 1 : FALSE
  OBVIOUS
<1>3. candidate' >= readyAt' /\ \A t \in readyAt' .. candidate' - 1 : FALSE
  BY <1>1, <1>2
<1> QED BY <1>3 DEF PassedOver

\* The partition that is waited for lasts from before the candidate to its end.
LEMMA HoldPasses ==
  ASSUME TypeOK, TypeOK', PassedOver, Hold
  PROVE  PassedOver'
<1>1. PICK w \in Matches : candidate' = w.endsAt
  BY DEF Hold
<1>2. /\ pc = "PARTITION" /\ messages' = messages /\ policy' = policy
      /\ slot' = slot /\ readyAt' = readyAt
  BY DEF Hold, inputs
<1>3. /\ w \in policy.partitions /\ w.link = messages[slot].link
      /\ w.startsAt <= candidate /\ candidate < w.endsAt
      /\ w.startsAt \in Nat /\ w.endsAt \in Nat /\ candidate \in Nat /\ readyAt \in Nat
  BY <1>1, InputTypes DEF Matches, Holds, PolicyRecords, Partitions, TypeOK
<1>4. candidate >= readyAt
  BY <1>2 DEF PassedOver
<1>5. ASSUME NEW t \in readyAt .. w.endsAt - 1
      PROVE  ClosedAt(messages[slot].link, t)
  <2>1. CASE t < candidate
    <3>1. t \in readyAt .. candidate - 1
      BY <2>1, <1>3
    <3> QED BY <3>1, <1>2 DEF PassedOver
  <2>2. CASE t >= candidate
    <3>1. w.startsAt <= t /\ t < w.endsAt
      BY <2>2, <1>3
    <3> QED BY <3>1, <1>3 DEF ClosedAt, Holds
  <2> QED BY <2>1, <2>2, <1>3
<1>6. candidate' >= readyAt'
  BY <1>1, <1>2, <1>3, <1>4
<1>7. \A t \in readyAt' .. candidate' - 1 : ClosedAt(messages[slot].link, t)'
  BY <1>1, <1>2, <1>5 DEF ClosedAt
<1> QED BY <1>6, <1>7 DEF PassedOver

LEMMA ReleaseArrives ==
  ASSUME TypeOK, PassedOver, Release, \A x \in Delivered : ArrivalOf(x)
  PROVE  \A x \in Delivered' : ArrivalOf(x)'
<1> DEFINE new == Transmission("DELIVER", readyAt, candidate)
<1>1. messages' = messages /\ policy' = policy /\ transmissions' = transmissions \cup {new}
  BY DEF Release, Schedule, inputs
<1>2. ArrivalOf(new)
  <2>1. new.slot = slot /\ new.readyAt = readyAt /\ new.deliveredAt = candidate
    BY DEF Transmission
  <2>2. ~ClosedAt(messages[slot].link, candidate)
    BY DEF Release, Matches, ClosedAt
  <2> QED BY <2>1, <2>2 DEF Release, PassedOver, ArrivalOf
<1>3. \A x \in Delivered' : x \in Delivered \/ x = new
  BY <1>1 DEF Delivered
<1>4. \A x : ArrivalOf(x) => ArrivalOf(x)'
  BY <1>1 DEF ArrivalOf, ClosedAt
<1> QED BY <1>2, <1>3, <1>4

ArrivalInv == PassedOver /\ \A x \in Delivered : ArrivalOf(x)

LEMMA ArrivalStep ==
  ASSUME TypeOK, TypeOK', ArrivalInv, [Next]_vars
  PROVE  ArrivalInv'
<1> DEFINE Rest == /\ UNCHANGED inputs /\ Delivered' = Delivered
<1>1. Rest => \A x \in Delivered' : ArrivalOf(x)'
  BY DEF ArrivalInv, ArrivalOf, ClosedAt, inputs
<1>2. Rest /\ UNCHANGED <<pc, slot, readyAt, candidate>> => ArrivalInv'
  BY <1>1 DEF ArrivalInv, PassedOver, ClosedAt, inputs
<1>3. Rest /\ pc' # "PARTITION" => ArrivalInv'
  BY <1>1 DEF ArrivalInv, PassedOver
<1>4. ASSUME NEW d, NEW r, NEW a, d # "DELIVER", Schedule(Transmission(d, r, a))
      PROVE  ArrivalInv'
  BY <1>3, <1>4 DEF Schedule, Transmission, Delivered
<1>5. ASSUME NEW delays, Depart(delays)
      PROVE  ArrivalInv'
  BY <1>1, <1>5, DepartPasses DEF Depart, Delivered, ArrivalInv
<1>6. CASE CheckInputs \/ Compiled
  BY <1>3, <1>6 DEF CheckInputs, Compiled, Delivered
<1>7. ASSUME NEW s \in DOMAIN messages, NextMessage(s)
      PROVE  ArrivalInv'
  BY <1>3, <1>7 DEF NextMessage, Delivered
<1>8. CASE Withhold
  BY <1>4, <1>8 DEF Withhold
<1>9. CASE FollowOverride
  BY <1>4, <1>5, <1>9 DEF FollowOverride
<1>10. CASE DrawLoss
  BY <1>4, <1>5, <1>10 DEF DrawLoss
<1>11. CASE Hold
  BY <1>1, <1>11, HoldPasses DEF Hold, Delivered, ArrivalInv
<1>12. CASE Release
  <2>1. pc' # "PARTITION"
    BY <1>12 DEF Release, Schedule
  <2> QED BY <2>1, <1>12, ReleaseArrives DEF ArrivalInv, PassedOver
<1>13. CASE Project \/ UNCHANGED vars
  BY <1>2, <1>13 DEF Project, vars, Delivered
<1> QED BY <1>6, <1>7, <1>8, <1>9, <1>10, <1>11, <1>12, <1>13 DEF Next, Compile

\* A delivered copy arrives at the first instant at which its link is open, for
\* any partitions, delays and overrides.
THEOREM FirstFreeInstant == Spec => []ArrivesAtFirstFreeInstant
<1>1. Init => ArrivalInv
  BY DEF Init, ArrivalInv, PassedOver, Delivered
<1>2. ArrivalInv => ArrivesAtFirstFreeInstant
  BY ArrivalMeaning DEF ArrivalInv
<1> QED BY <1>1, <1>2, TypeCorrect, ArrivalStep, PTL DEF Spec

(***************************************************************************)
(* The outcomes of the copies.                                             *)
(***************************************************************************)
Of(s) == {x \in transmissions : x.slot = s}

\* There are n copies of the message s.
Counted(s, n) ==
  /\ n \in 1 .. 8
  /\ n > 2 => \E o \in overrides : o.slot = s /\ o.copy = n - 1
  /\ \A o \in OverridesOf(s) : o.copy < n

Follows(x, o) ==
  /\ x.copy = o.copy /\ x.disposition = o.disposition
  /\ o.delay # Drawn => x.readyAt = messages[x.slot].sentAt + o.delay

\* The first n copies of the message s have their outcomes.
Through(s, n) ==
  /\ {x.copy : x \in Of(s)} = 0 .. n - 1
  /\ \A x, y \in Of(s) : x.copy = y.copy => x = y
  /\ s \in policy.withheld => \A x \in Of(s) : x.disposition = "WITHHELD"
  /\ s \notin policy.withheld =>
       \A o \in OverridesOf(s) : o.copy < n => \E x \in Of(s) : Follows(x, o)

Done(s) == \E n \in 1 .. 8 : Counted(s, n) /\ Through(s, n)

OutcomeInv ==
  /\ pc \in {"CHECK", "REFUSED"} => transmissions = {} /\ slot = 0
  /\ pc \notin {"CHECK", "REFUSED"} => Acceptable
  /\ \A x \in transmissions : x.slot <= slot
  /\ \A s \in DOMAIN messages : s < slot => Done(s)
  /\ pc \in {"MESSAGE", "COMPILED"} /\ slot # 0 => Done(slot)
  /\ pc = "COMPILED" => \A s \in DOMAIN messages : s <= slot
  /\ pc \in {"COPY", "PARTITION"} =>
       Counted(slot, copies) /\ copy < copies /\ Through(slot, copy)
  /\ pc = "PARTITION" =>
       /\ ~Withheld
       /\ \A o \in OverrideOfCopy :
            /\ o.disposition = "DELIVER"
            /\ o.delay # Drawn => readyAt = messages[slot].sentAt + o.delay

LEMMA SlotNumbers ==
  ASSUME TypeOK PROVE slot \in Nat /\ DOMAIN messages \subseteq Nat \ {0}
<1>1. Slots \subseteq Nat \ {0}
  BY DeliveryAssumption
<1>2. slot \in Slots \cup {0}
  BY DEF TypeOK
<1>3. DOMAIN messages \subseteq Slots
  BY InputTypes
<1>4. slot \in Nat
  <2>1. CASE slot \in Slots
    BY <1>1, <2>1
  <2>2. CASE slot = 0
    BY <2>2
  <2> QED BY <1>2, <2>1, <2>2
<1>5. DOMAIN messages \subseteq Nat \ {0}
  BY <1>1, <1>3, Zenon
<1> QED BY <1>4, <1>5

LEMMA CountsCopies ==
  ASSUME TypeOK, NEW s \in Slots, NEW duplicate \in BOOLEAN
  PROVE  Counted(s, CopyCount(s, duplicate))
<1> DEFINE S == {IF duplicate THEN 2 ELSE 1} \cup {o.copy + 1 : o \in OverridesOf(s)}
<1>1. \A o \in OverridesOf(s) : o.copy \in 0 .. 7 /\ o \in overrides /\ o.slot = s
  BY InputTypes DEF OverridesOf, Overrides, CopyIndices
<1>2. S \in SUBSET (1 .. 8) /\ S # {}
  BY <1>1
<1> HIDE DEF S
<1>3. Max(S) \in S /\ \A m \in S : Max(S) >= m
  BY <1>2, MaxOfFew
<1>4. CopyCount(s, duplicate) = Max(S)
  BY DEF CopyCount, S
<1>5. \A o \in OverridesOf(s) : o.copy + 1 \in S
  BY DEF S
<1>6. ASSUME NEW o \in OverridesOf(s) PROVE o.copy < Max(S)
  <2>1. Max(S) >= o.copy + 1 /\ Max(S) \in 1 .. 8 /\ o.copy \in 0 .. 7
    BY <1>1, <1>2, <1>3, <1>5
  <2> QED BY <2>1
<1>7. Max(S) > 2 => \E o \in overrides : o.slot = s /\ o.copy = Max(S) - 1
  <2>1. ASSUME NEW m \in S, m > 2 PROVE \E o \in OverridesOf(s) : m = o.copy + 1
    BY <2>1 DEF S
  <2> QED BY <1>1, <1>3, <2>1
<1> QED BY <1>2, <1>3, <1>4, <1>6, <1>7 DEF Counted

\* One outcome more, of the copy that is next.
LEMMA OutcomeAdded ==
  ASSUME TypeOK, OutcomeInv, pc \in {"COPY", "PARTITION"},
         NEW d, NEW r, NEW a, Schedule(Transmission(d, r, a)),
         slot \in policy.withheld => d = "WITHHELD",
         slot \notin policy.withheld =>
           \A o \in OverrideOfCopy : Follows(Transmission(d, r, a), o)
  PROVE  OutcomeInv'
<1> DEFINE new == Transmission(d, r, a)
<1>1. /\ UNCHANGED inputs /\ slot' = slot /\ copies' = copies /\ copy' = copy + 1
      /\ pc' = IF copy + 1 < copies THEN "COPY" ELSE "MESSAGE"
      /\ transmissions' = transmissions \cup {new}
      /\ messages' = messages /\ policy' = policy /\ overrides' = overrides
  BY DEF Schedule, inputs
<1>2. /\ Counted(slot, copies) /\ copy < copies /\ Through(slot, copy)
      /\ copy \in Nat /\ copies \in 1 .. 8 /\ slot \in DOMAIN messages /\ slot \in Nat
      /\ slot # 0
  BY InputTypes, DeliveryAssumption DEF OutcomeInv, TypeOK, Counted
<1>3. new.slot = slot /\ new.copy = copy /\ new.disposition = d
  BY DEF Transmission
<1> HIDE DEF new
<1>4. Of(slot)' = Of(slot) \cup {new} /\ \A s : s # slot => Of(s)' = Of(s)
  BY <1>1, <1>3 DEF Of
<1>5. \A s, n : Counted(s, n)' <=> Counted(s, n)
  BY <1>1 DEF Counted, OverridesOf
<1>6. \A s : OverridesOf(s)' = OverridesOf(s)
  BY <1>1 DEF OverridesOf
<1>7. \A x, o : Follows(x, o)' <=> Follows(x, o)
  BY <1>1 DEF Follows
<1>8. Through(slot, copy)'
  <2>1. \A x \in Of(slot) : x.copy \in 0 .. copy - 1
    BY <1>2 DEF Through
  <2>2. {x.copy : x \in Of(slot) \cup {new}} = 0 .. copy
    <3>1. {x.copy : x \in Of(slot) \cup {new}} = {x.copy : x \in Of(slot)} \cup {copy}
      BY <1>3
    <3>2. (0 .. copy - 1) \cup {copy} = 0 .. copy
      BY <1>2
    <3> QED BY <1>2, <3>1, <3>2 DEF Through
  <2>3. copy + 1 - 1 = copy
    BY <1>2
  <2>4. \A x, y \in Of(slot) \cup {new} : x.copy = y.copy => x = y
    BY <1>2, <1>3, <2>1 DEF Through
  <2>5. slot \in policy.withheld => \A x \in Of(slot) \cup {new} : x.disposition = "WITHHELD"
    BY <1>2, <1>3 DEF Through
  <2>6. ASSUME slot \notin policy.withheld, NEW o \in OverridesOf(slot), o.copy < copy + 1
        PROVE  \E x \in Of(slot) \cup {new} : Follows(x, o)
    <3>1. o.copy \in Nat
      BY InputTypes DEF OverridesOf, Overrides, CopyIndices
    <3>2. CASE o.copy < copy
      BY <1>2, <2>6, <3>2 DEF Through
    <3>3. CASE o.copy = copy
      <4>1. o \in OverrideOfCopy
        BY <3>3 DEF OverrideOfCopy
      <4> QED BY <2>6, <4>1 DEF new
    <3> QED BY <1>2, <2>6, <3>1, <3>2, <3>3
  <2>7. ({x.copy : x \in Of(slot)} = 0 .. copy - 1)'
    <3>1. copy' - 1 = copy
      BY <1>1, <1>2
    <3>2. Of(slot)' = Of(slot) \cup {new}
      BY <1>4
    <3> QED BY <2>2, <3>1, <3>2
  <2>8. (\A x, y \in Of(slot) : x.copy = y.copy => x = y)'
    BY <1>1, <1>4, <2>4
  <2>9. (slot \in policy.withheld => \A x \in Of(slot) : x.disposition = "WITHHELD")'
    BY <1>1, <1>4, <2>5
  <2>10. (slot \notin policy.withheld =>
            \A o \in OverridesOf(slot) : o.copy < copy => \E x \in Of(slot) : Follows(x, o))'
    BY <1>1, <1>4, <1>6, <1>7, <2>6
  <2> QED BY <2>7, <2>8, <2>9, <2>10 DEF Through
<1>9. \A s \in DOMAIN messages : s < slot => Done(s)'
  <2>1. ASSUME NEW s \in DOMAIN messages, s < slot PROVE Done(s)'
    <3>1. s # slot
      BY <1>2, <2>1
    <3>2. PICK n \in 1 .. 8 : Counted(s, n) /\ Through(s, n)
      BY <2>1 DEF OutcomeInv, Done
    <3>3. Through(s, n)'
      BY <1>1, <1>4, <1>6, <1>7, <3>1, <3>2 DEF Through
    <3> QED BY <1>5, <3>2, <3>3 DEF Done
  <2> QED BY <2>1
<1>10. \A x \in transmissions' : x.slot <= slot'
  BY <1>1, <1>2, <1>3 DEF OutcomeInv
<1>11. Acceptable'
  BY <1>1 DEF OutcomeInv, Acceptable
<1>12. CASE copy + 1 < copies
  BY <1>1, <1>2, <1>5, <1>8, <1>9, <1>10, <1>11, <1>12 DEF OutcomeInv
<1>13. CASE ~(copy + 1 < copies)
  <2>1. copy + 1 = copies
    BY <1>2, <1>13
  <2>2. Done(slot)'
    <3>1. copy' = copies'
      BY <1>1, <2>1
    <3>2. Through(slot, copies)' /\ Counted(slot, copies)'
      BY <1>1, <1>2, <1>5, <1>8, <3>1
    <3> QED BY <1>1, <1>2, <3>2 DEF Done
  <2> QED BY <1>1, <1>9, <1>10, <1>11, <1>13, <2>2 DEF OutcomeInv
<1> QED BY <1>12, <1>13

\* What has its outcome is not touched while a copy waits or a message is begun.
LEMMA OutcomesStay ==
  ASSUME UNCHANGED inputs, transmissions' = transmissions
  PROVE  /\ Acceptable => Acceptable'
         /\ \A s, n : (Counted(s, n)' <=> Counted(s, n)) /\ (Through(s, n)' <=> Through(s, n))
         /\ \A s : Done(s)' <=> Done(s)
         /\ \A s : OverridesOf(s)' = OverridesOf(s)
<1>1. messages' = messages /\ policy' = policy /\ overrides' = overrides
  BY DEF inputs
<1>2. Acceptable => Acceptable'
  BY <1>1 DEF Acceptable
<1>3. \A s : OverridesOf(s)' = OverridesOf(s) /\ Of(s)' = Of(s)
  BY <1>1 DEF OverridesOf, Of
<1>4. \A s, n : Counted(s, n)' <=> Counted(s, n)
  BY <1>1, <1>3 DEF Counted
<1>5. \A s, n : Through(s, n)' <=> Through(s, n)
  BY <1>1, <1>3 DEF Through, Follows
<1> QED BY <1>2, <1>3, <1>4, <1>5 DEF Done

LEMMA DepartOutcomes ==
  ASSUME TypeOK, OutcomeInv, pc = "COPY", ~Withheld, NEW delays, Depart(delays),
         \A o \in OverrideOfCopy :
           o.disposition = "DELIVER" /\ (o.delay # Drawn => delays = {o.delay})
  PROVE  OutcomeInv'
<1>1. /\ UNCHANGED <<inputs, transmissions, slot, copy, copies>> /\ pc' = "PARTITION"
      /\ \E delay \in delays : readyAt' = messages[slot].sentAt + delay
      /\ messages' = messages /\ policy' = policy /\ overrides' = overrides
  BY DEF Depart, inputs
<1>2. OverrideOfCopy' = OverrideOfCopy
  BY <1>1 DEF OverrideOfCopy, OverridesOf
<1>3. \A o \in OverrideOfCopy :
        o.delay # Drawn => readyAt' = messages[slot].sentAt + o.delay
  BY <1>1
<1>4. ~Withheld'
  BY <1>1 DEF Withheld
<1> QED BY <1>1, <1>2, <1>3, <1>4, OutcomesStay DEF OutcomeInv

LEMMA MessageOutcomes ==
  ASSUME TypeOK, OutcomeInv, NEW s \in DOMAIN messages, NextMessage(s)
  PROVE  OutcomeInv'
<1>1. /\ UNCHANGED <<inputs, transmissions>> /\ pc = "MESSAGE" /\ pc' = "COPY"
      /\ slot' = s /\ copy' = 0 /\ s > slot
      /\ \A r \in DOMAIN messages : r > slot => s <= r
      /\ messages' = messages
  BY DEF NextMessage, inputs
<1>2. PICK duplicate \in policy.duplicates : copies' = CopyCount(s, duplicate)
  BY DEF NextMessage
<1>3. s \in Slots /\ duplicate \in BOOLEAN /\ DOMAIN messages \subseteq Nat \ {0} /\ slot \in Nat
  <2>1. policy.duplicates \subseteq BOOLEAN
    BY InputTypes DEF PolicyRecords
  <2> QED BY <2>1, InputTypes, SlotNumbers
<1>4. Counted(s, copies') /\ copies' \in 1 .. 8
  BY <1>2, <1>3, CountsCopies DEF Counted
<1>5. Of(s) = {}
  BY <1>1, <1>3 DEF OutcomeInv, Of, TypeOK
<1>6. Through(s, 0)
  <2>1. {x.copy : x \in Of(s)} = {} /\ 0 .. 0 - 1 = {}
    BY <1>5
  <2>2. \A o \in OverridesOf(s) : ~(o.copy < 0)
    BY InputTypes DEF OverridesOf, Overrides, CopyIndices
  <2> QED BY <1>5, <2>1, <2>2 DEF Through
<1>7. \A r \in DOMAIN messages : r < s => Done(r)
  <2>1. ASSUME NEW r \in DOMAIN messages, r < s PROVE Done(r)
    <3>1. r <= slot /\ r # 0
      BY <1>1, <1>3, <2>1
    <3> QED BY <1>1, <1>3, <3>1 DEF OutcomeInv
  <2> QED BY <2>1
<1>8. \A x \in transmissions' : x.slot <= slot'
  BY <1>1, <1>3 DEF OutcomeInv, TypeOK
<1> QED BY <1>1, <1>3, <1>4, <1>6, <1>7, <1>8, OutcomesStay DEF OutcomeInv

LEMMA OutcomeStep ==
  ASSUME TypeOK, OutcomeInv, [Next]_vars
  PROVE  OutcomeInv'
<1>1. CASE CheckInputs
  <2>1. /\ UNCHANGED <<inputs, transmissions, slot>> /\ transmissions = {} /\ slot = 0
        /\ pc' = IF Acceptable THEN "MESSAGE" ELSE "REFUSED"
        /\ messages' = messages /\ DOMAIN messages \subseteq Nat \ {0}
    BY <1>1, InputTypes, DeliveryAssumption DEF CheckInputs, inputs, OutcomeInv
  <2> QED BY <2>1, OutcomesStay DEF OutcomeInv
<1>2. ASSUME NEW s \in DOMAIN messages, NextMessage(s) PROVE OutcomeInv'
  BY <1>2, MessageOutcomes
<1>3. CASE Compiled
  <2>1. /\ UNCHANGED <<inputs, transmissions, slot, messages>> /\ pc = "MESSAGE" /\ pc' = "COMPILED"
        /\ \A s \in DOMAIN messages : s <= slot
    BY <1>3 DEF Compiled, inputs
  <2> QED BY <2>1, OutcomesStay DEF OutcomeInv
<1>4. CASE Withhold
  BY <1>4, OutcomeAdded DEF Withhold, Withheld
<1>5. CASE FollowOverride
  <2>1. /\ pc = "COPY" /\ ~Withheld /\ Acceptable
    BY <1>5 DEF FollowOverride, OutcomeInv
  <2>2. PICK o \in OverrideOfCopy :
          \/ /\ o.disposition = "DELIVER"
             /\ Depart(IF o.delay = Drawn THEN DrawnDelays ELSE {o.delay})
          \/ /\ o.disposition # "DELIVER"
             /\ Schedule(Transmission(o.disposition, Never, Never))
    BY <1>5 DEF FollowOverride
  <2>3. OverrideOfCopy = {o} /\ o \in Overrides /\ o.copy = copy
    BY <2>1, <2>2, InputTypes DEF Acceptable, OverrideOfCopy, OverridesOf
  <2>4. CASE o.disposition = "DELIVER"
    <3>1. \A q \in OverrideOfCopy :
            /\ q.disposition = "DELIVER"
            /\ q.delay # Drawn => (IF o.delay = Drawn THEN DrawnDelays ELSE {o.delay}) = {q.delay}
      BY <2>3, <2>4
    <3> QED BY <2>1, <2>2, <2>4, <3>1, DepartOutcomes
  <2>5. CASE o.disposition # "DELIVER"
    <3>1. Follows(Transmission(o.disposition, Never, Never), o)
      BY <2>3, <2>5 DEF Follows, Transmission, Overrides
    <3> QED BY <2>1, <2>2, <2>3, <2>5, <3>1, OutcomeAdded DEF Withheld
  <2> QED BY <2>4, <2>5
<1>6. CASE DrawLoss
  <2>1. pc = "COPY" /\ ~Withheld /\ OverrideOfCopy = {}
    BY <1>6 DEF DrawLoss
  <2> QED BY <1>6, <2>1, OutcomeAdded, DepartOutcomes DEF DrawLoss, Withheld
<1>7. CASE Hold
  <2>1. UNCHANGED <<inputs, transmissions, pc, slot, copy, copies, readyAt, messages, policy>>
    BY <1>7 DEF Hold, inputs
  <2>2. OverrideOfCopy' = OverrideOfCopy /\ (Withheld' <=> Withheld)
    BY <2>1, OutcomesStay DEF OverrideOfCopy, Withheld
  <2> QED BY <2>1, <2>2, OutcomesStay DEF OutcomeInv
<1>8. CASE Release
  <2>1. /\ pc = "PARTITION" /\ ~Withheld
        /\ Schedule(Transmission("DELIVER", readyAt, candidate))
        /\ \A o \in OverrideOfCopy :
             /\ o.disposition = "DELIVER"
             /\ o.delay # Drawn => readyAt = messages[slot].sentAt + o.delay
    BY <1>8 DEF Release, OutcomeInv
  <2>2. \A o \in OverrideOfCopy : Follows(Transmission("DELIVER", readyAt, candidate), o)
    BY <2>1 DEF Follows, Transmission, OverrideOfCopy
  <2> QED BY <2>1, <2>2, OutcomeAdded DEF Withheld
<1>9. CASE Project \/ UNCHANGED vars
  <2>1. UNCHANGED <<inputs, transmissions, pc, slot, copy, copies, readyAt, messages, policy>>
    BY <1>9 DEF Project, vars, inputs
  <2>2. OverrideOfCopy' = OverrideOfCopy /\ (Withheld' <=> Withheld)
    BY <2>1, OutcomesStay DEF OverrideOfCopy, Withheld
  <2> QED BY <2>1, <2>2, OutcomesStay DEF OutcomeInv
<1> QED BY <1>1, <1>2, <1>3, <1>4, <1>5, <1>6, <1>7, <1>8, <1>9 DEF Next, Compile

\* A compiled schedule has one outcome for every copy of every message, and it
\* is what the overrides and the withheld messages say; a refused one has none.
THEOREM OneOutcomeEach == Spec => []EveryCopyOnce
<1>1. Init => OutcomeInv
  <2>1. Init => DOMAIN messages \subseteq Nat
    BY DeliveryAssumption DEF Init
  <2> QED BY <2>1 DEF Init, OutcomeInv
<1>2. TypeOK /\ OutcomeInv => EveryCopyOnce
  <2> SUFFICES ASSUME TypeOK, OutcomeInv, pc = "COMPILED", NEW s \in DOMAIN messages
               PROVE  LET of == {x \in transmissions : x.slot = s}
                      IN  /\ \E n \in CopyIndices :
                               /\ {x.copy : x \in of} = 0 .. n
                               /\ n > 1 => \E o \in overrides : o.slot = s /\ o.copy = n
                          /\ \A x, y \in of : x.copy = y.copy => x = y
                          /\ s \in policy.withheld => \A x \in of : x.disposition = "WITHHELD"
                          /\ \A o \in OverridesOf(s) :
                               s \notin policy.withheld =>
                                 \E x \in of :
                                   /\ x.copy = o.copy /\ x.disposition = o.disposition
                                   /\ o.delay # Drawn => x.readyAt = messages[s].sentAt + o.delay
    BY DEF EveryCopyOnce, OutcomeInv
  <2>1. s \in Nat /\ slot \in Nat /\ s <= slot /\ s # 0
    BY SlotNumbers DEF OutcomeInv
  <2>2. Done(s)
    BY <2>1 DEF OutcomeInv
  <2>3. PICK n \in 1 .. 8 : Counted(s, n) /\ Through(s, n)
    BY <2>2 DEF Done
  <2>4. n - 1 \in CopyIndices /\ (n - 1 > 1 => n > 2)
    BY <2>3 DEF CopyIndices
  <2>5. \A x \in Of(s) : x.slot = s
    BY DEF Of
  <2>6. /\ {x.copy : x \in Of(s)} = 0 .. (n - 1)
        /\ n - 1 > 1 => \E o \in overrides : o.slot = s /\ o.copy = n - 1
        /\ \A x, y \in Of(s) : x.copy = y.copy => x = y
        /\ s \in policy.withheld => \A x \in Of(s) : x.disposition = "WITHHELD"
        /\ \A o \in OverridesOf(s) :
             s \notin policy.withheld => \E x \in Of(s) : Follows(x, o)
    BY <2>3, <2>4 DEF Counted, Through
  <2>7. \A o \in OverridesOf(s) :
          s \notin policy.withheld =>
            \E x \in Of(s) :
              /\ x.copy = o.copy /\ x.disposition = o.disposition
              /\ o.delay # Drawn => x.readyAt = messages[s].sentAt + o.delay
    BY <2>5, <2>6 DEF Follows
  <2> HIDE DEF Counted, Through
  <2> QED BY <2>4, <2>6, <2>7 DEF Of
<1>3. TypeOK /\ OutcomeInv /\ [Next]_vars => OutcomeInv'
  BY OutcomeStep
<1> QED BY <1>1, <1>2, <1>3, TypeCorrect, PTL DEF Spec

(***************************************************************************)
(* Sorting.  In a finite set on which Before is a total order the places   *)
(* are the numbers from 1 to the size of the set, each taken once; so      *)
(* InOrder has every member at its place, and is the beginning of what it  *)
(* is for a larger set whose other members all come later.                 *)
(***************************************************************************)
Place(S, x) == Cardinality({y \in S : Before(y, x)}) + 1

Ordered(S) ==
  /\ IsFiniteSet(S)
  /\ \A x \in S : ~Before(x, x)
  /\ \A x, y \in S : x # y => Before(x, y) \/ Before(y, x)
  /\ \A x, y, z \in S : Before(x, y) /\ Before(y, z) => Before(x, z)

\* s lists the members of S.
Lists(s, S) ==
  /\ s \in [1 .. Cardinality(S) -> S]
  /\ \A x \in S : \E i \in DOMAIN s : s[i] = x
  /\ \A i, j \in DOMAIN s : i < j <=> Before(s[i], s[j])

LEMMA PartsAreOrdered ==
  ASSUME NEW S, Ordered(S), NEW E \in SUBSET S
  PROVE  Ordered(E)
<1>1. IsFiniteSet(E)
  BY FS_Subset DEF Ordered
<1> QED BY <1>1 DEF Ordered

LEMMA PlaceNumber ==
  ASSUME NEW S, Ordered(S), NEW x \in S
  PROVE  Place(S, x) \in 1 .. Cardinality(S)
<1> DEFINE B == {y \in S : Before(y, x)}
<1>1. IsFiniteSet(S) /\ B \in SUBSET S /\ B # S
  BY DEF Ordered
<1> HIDE DEF B
<1>2. /\ Cardinality(B) \in Nat /\ Cardinality(S) \in Nat
      /\ Cardinality(B) <= Cardinality(S) /\ Cardinality(B) # Cardinality(S)
  BY <1>1, FS_Subset, FS_CardinalityType
<1>3. Cardinality(B) + 1 \in 1 .. Cardinality(S)
  BY <1>2
<1> QED BY <1>3 DEF Place, B

LEMMA LaterPlace ==
  ASSUME NEW S, Ordered(S), NEW x \in S, NEW y \in S, Before(x, y)
  PROVE  Place(S, x) < Place(S, y)
<1> DEFINE A == {z \in S : Before(z, x)}
           B == {z \in S : Before(z, y)}
<1>1. A \in SUBSET B /\ x \in B /\ x \notin A /\ B \in SUBSET S
  BY DEF Ordered
<1>2. Place(S, x) = Cardinality(A) + 1 /\ Place(S, y) = Cardinality(B) + 1
  BY DEF Place
<1> HIDE DEF A, B
<1>3. IsFiniteSet(B)
  BY <1>1, FS_Subset DEF Ordered
<1>4. /\ Cardinality(A) \in Nat /\ Cardinality(B) \in Nat
      /\ Cardinality(A) <= Cardinality(B) /\ Cardinality(A) # Cardinality(B)
  BY <1>1, <1>3, FS_Subset, FS_CardinalityType
<1> QED BY <1>2, <1>4

LEMMA PlacesAreTaken ==
  ASSUME NEW S, Ordered(S)
  PROVE  \A i \in 1 .. Cardinality(S) : \E x \in S : Place(S, x) = i
<1> DEFINE T == 1 .. Cardinality(S)
           f == [x \in S |-> Place(S, x)]
<1>1. IsFiniteSet(S) /\ Cardinality(S) \in Nat
  BY FS_CardinalityType DEF Ordered
<1>2. IsFiniteSet(T) /\ Cardinality(T) = Cardinality(S)
  BY <1>1, FS_Interval
<1>3. f \in [S -> T]
  BY PlaceNumber
<1>4. ASSUME NEW x \in S, NEW y \in S, f[x] = f[y] PROVE x = y
  <2>1. ~(f[x] < f[y]) /\ ~(f[y] < f[x])
    BY <1>3, <1>4
  <2>2. ~Before(x, y) /\ ~Before(y, x)
    BY <2>1, LaterPlace
  <2> QED BY <2>2 DEF Ordered
<1> HIDE DEF f, T
<1>5. f \in Injection(S, T)
  BY <1>3, <1>4 DEF Injection, IsInjective
<1>6. f \in Surjection(S, T)
  BY <1>2, <1>5, FS_Injection
<1> QED BY <1>6 DEF Surjection, f, T

LEMMA InOrderLists ==
  ASSUME NEW S, Ordered(S)
  PROVE  /\ Lists(InOrder(S), S)
         /\ \A x \in S : InOrder(S)[Place(S, x)] = x
<1> DEFINE s == InOrder(S)
           C == Cardinality(S)
<1>1. s = [i \in 1 .. C |-> CHOOSE x \in S : Place(S, x) = i]
  BY DEF InOrder, Place
<1> HIDE DEF s
<1>2. \A i \in 1 .. C : s[i] \in S /\ Place(S, s[i]) = i
  BY <1>1, PlacesAreTaken
<1>3. C \in Nat
  BY FS_CardinalityType DEF Ordered
<1> HIDE DEF C
<1>4. s \in [1 .. C -> S]
  BY <1>1, <1>2
<1>5. \A x, y \in S : /\ Place(S, x) \in 1 .. C
                      /\ Before(x, y) => Place(S, x) < Place(S, y)
  BY PlaceNumber, LaterPlace DEF C
<1>6. \A x, y \in S : Place(S, x) = Place(S, y) => x = y
  BY <1>3, <1>5 DEF Ordered
<1>7. \A x \in S : s[Place(S, x)] = x
  BY <1>2, <1>5, <1>6
<1>8. ASSUME NEW i \in 1 .. C, NEW j \in 1 .. C
      PROVE  i < j <=> Before(s[i], s[j])
  <2>1. s[i] \in S /\ s[j] \in S /\ Place(S, s[i]) = i /\ Place(S, s[j]) = j
    BY <1>2
  <2>2. Before(s[i], s[j]) => i < j
    BY <1>5, <2>1
  <2>3. Before(s[j], s[i]) => j < i
    BY <1>5, <2>1
  <2>4. i < j => s[i] # s[j]
    BY <1>3, <2>1
  <2>5. s[i] # s[j] => Before(s[i], s[j]) \/ Before(s[j], s[i])
    BY <2>1 DEF Ordered
  <2> QED BY <1>3, <2>2, <2>3, <2>4, <2>5
<1>9. \A x \in S : \E i \in 1 .. C : s[i] = x
  BY <1>5, <1>7
<1>10. DOMAIN s = 1 .. C
  BY <1>4
<1> QED BY <1>4, <1>7, <1>8, <1>9, <1>10 DEF Lists, C, s

LEMMA InOrderBegins ==
  ASSUME NEW L, Ordered(L), NEW E \in SUBSET L,
         \A x \in E, y \in L \ E : Before(x, y)
  PROVE  /\ Cardinality(E) \in Nat /\ Cardinality(L) \in Nat
         /\ Cardinality(E) <= Cardinality(L)
         /\ \A i \in 1 .. Cardinality(E) : InOrder(L)[i] = InOrder(E)[i]
         /\ \A i \in 1 .. Cardinality(L) :
              i > Cardinality(E) => InOrder(L)[i] \in L \ E
<1>1. Ordered(E)
  BY PartsAreOrdered
<1>2. /\ Cardinality(E) \in Nat /\ Cardinality(L) \in Nat
      /\ Cardinality(E) <= Cardinality(L)
  BY FS_Subset, FS_CardinalityType DEF Ordered
<1>3. ASSUME NEW x \in E PROVE Place(E, x) = Place(L, x)
  <2>1. \A y \in L \ E : ~Before(y, x)
    BY <1>3 DEF Ordered
  <2>2. {y \in L : Before(y, x)} = {y \in E : Before(y, x)}
    BY <2>1
  <2> QED BY <2>2 DEF Place
<1>4. ASSUME NEW i \in 1 .. Cardinality(E)
      PROVE  InOrder(L)[i] = InOrder(E)[i]
  <2>1. PICK x \in E : Place(E, x) = i
    BY <1>1, PlacesAreTaken
  <2>2. InOrder(E)[i] = x
    BY <1>1, <2>1, InOrderLists
  <2>3. x \in L /\ Place(L, x) = i
    BY <1>3, <2>1
  <2>4. InOrder(L)[i] = x
    BY <2>3, InOrderLists
  <2> QED BY <2>2, <2>4
<1>5. ASSUME NEW i \in 1 .. Cardinality(L), i > Cardinality(E)
      PROVE  InOrder(L)[i] \in L \ E
  <2>1. PICK x \in L : Place(L, x) = i
    BY PlacesAreTaken
  <2>2. InOrder(L)[i] = x
    BY <2>1, InOrderLists
  <2>3. x \notin E
    <3>1. SUFFICES ASSUME x \in E PROVE FALSE
      OBVIOUS
    <3>2. Place(E, x) \in 1 .. Cardinality(E)
      BY <1>1, <3>1, PlaceNumber
    <3> QED BY <1>2, <1>3, <1>5, <2>1, <3>1, <3>2
  <2> QED BY <2>2, <2>3
<1> QED BY <1>2, <1>4, <1>5

(***************************************************************************)
(* What is scheduled is finite and in order.                               *)
(***************************************************************************)
Finite == IsFiniteSet(transmissions)

LEMMA FiniteStep ==
  ASSUME Finite, [Next]_vars PROVE Finite'
<1>1. UNCHANGED transmissions \/ \E t : transmissions' = transmissions \cup {t}
  BY DEF Next, Compile, CheckInputs, NextMessage, Compiled, Withhold, FollowOverride, DrawLoss,
         Hold, Release, Depart, Schedule, Project, vars
<1> QED BY <1>1, FS_AddElement DEF Finite

LEMMA OneOfEach ==
  ASSUME TypeOK, OutcomeInv
  PROVE  /\ \A x \in transmissions : x.slot \in Slots /\ x.copy \in CopyIndices
         /\ \A x, y \in transmissions : x.slot = y.slot /\ x.copy = y.copy => x = y
<1>1. ASSUME NEW s \in DOMAIN messages, Of(s) # {}
      PROVE  /\ \A x \in Of(s) : x.copy \in CopyIndices
             /\ \A x, y \in Of(s) : x.copy = y.copy => x = y
  <2>1. \E n \in 0 .. 8 : Through(s, n)
    <3>1. CASE s < slot
      BY <3>1 DEF OutcomeInv, Done
    <3>2. CASE ~(s < slot)
      <4>1. s = slot /\ slot # 0 /\ pc \notin {"CHECK", "REFUSED"}
        BY <1>1, <3>2, SlotNumbers DEF OutcomeInv, Of
      <4>2. CASE pc \in {"MESSAGE", "COMPILED"}
        BY <4>1, <4>2 DEF OutcomeInv, Done
      <4>3. CASE pc \in {"COPY", "PARTITION"}
        <5>1. Through(s, copy) /\ copies \in 1 .. 8 /\ copy < copies /\ copy \in Nat
          BY <4>1, <4>3 DEF OutcomeInv, Counted, TypeOK
        <5>2. copy \in 0 .. 8
          BY <5>1
        <5> QED BY <5>1, <5>2
      <4> QED BY <4>1, <4>2, <4>3 DEF TypeOK
    <3> QED BY <3>1, <3>2
  <2>2. PICK n \in 0 .. 8 : Through(s, n)
    BY <2>1
  <2>3. {x.copy : x \in Of(s)} = 0 .. n - 1
    BY <2>2 DEF Through
  <2>4. \A x \in Of(s) : x.copy \in 0 .. n - 1
    BY <2>3
  <2> QED BY <2>2, <2>4 DEF Through, CopyIndices
<1>2. \A x \in transmissions : x.slot \in DOMAIN messages /\ x \in Of(x.slot)
  BY DEF TypeOK, Of
<1>3. \A x \in transmissions : x.slot \in Slots
  BY <1>2, InputTypes
<1> QED BY <1>1, <1>2, <1>3

\* The order of arrival, and of the ids among what arrives at the same time.
LEMMA DeliveredInOrder ==
  ASSUME TypeOK, OutcomeInv, Finite
  PROVE  Ordered(Delivered)
<1> DEFINE r(x) == Rank(x.slot, x.copy)
<1>1. Delivered \subseteq transmissions /\ IsFiniteSet(Delivered)
  BY FS_Subset DEF Delivered, Finite
<1>2. ASSUME NEW x \in Delivered, NEW y \in Delivered
      PROVE  /\ r(x) \in Int /\ r(y) \in Int
             /\ r(x) = r(y) => x = y
  <2>1. \A a, b \in Slots : \A c, d \in CopyIndices :
          Rank(a, c) \in Int /\ (Rank(a, c) = Rank(b, d) => a = b /\ c = d)
    BY DeliveryAssumption
  <2>2. /\ x \in transmissions /\ y \in transmissions
        /\ x.slot \in Slots /\ x.copy \in CopyIndices
        /\ y.slot \in Slots /\ y.copy \in CopyIndices
    BY <1>1, OneOfEach
  <2> QED BY <2>1, <2>2, OneOfEach
<1>3. \A x \in Delivered : x.deliveredAt \in Nat
  BY DEF TypeOK
<1>4. \A x, y \in Delivered :
        Before(x, y) <=> \/ x.deliveredAt < y.deliveredAt
                         \/ x.deliveredAt = y.deliveredAt /\ r(x) < r(y)
  BY DEF Before
<1> HIDE DEF r
<1>5. \A x \in Delivered : ~Before(x, x)
  BY <1>2, <1>3, <1>4
<1>6. \A x, y \in Delivered : x # y => Before(x, y) \/ Before(y, x)
  BY <1>2, <1>3, <1>4
<1>7. \A x, y, z \in Delivered : Before(x, y) /\ Before(y, z) => Before(x, z)
  BY <1>2, <1>3, <1>4
<1> QED BY <1>1, <1>5, <1>6, <1>7 DEF Ordered

\* What has arrived at the store by t; what comes later comes after it.
Arrived(store, t) ==
  {x \in Delivered : messages[x.slot].link.destination = store /\ x.deliveredAt <= t}

LEMMA ArrivedInOrder ==
  ASSUME TypeOK, OutcomeInv, Finite, NEW store, NEW t \in Int
  PROVE  /\ Ordered(Arrived(store, t))
         /\ DeliveredForStore(store, t) = InOrder(Arrived(store, t))
<1>1. Arrived(store, t) \subseteq Delivered
  BY DEF Arrived
<1> QED BY <1>1, DeliveredInOrder, PartsAreOrdered DEF DeliveredForStore, Arrived

LEMMA LaterComesAfter ==
  ASSUME TypeOK, OutcomeInv, Finite, NEW store, NEW t \in Int, NEW u \in Int, t <= u
  PROVE  /\ Arrived(store, t) \subseteq Arrived(store, u)
         /\ \A x \in Arrived(store, t), y \in Arrived(store, u) \ Arrived(store, t) :
              Before(x, y)
<1>1. \A x \in Delivered : x.deliveredAt \in Nat
  BY DEF TypeOK
<1> QED BY <1>1 DEF Arrived, Before

(***************************************************************************)
(* Unique evidence, turn by turn: the loop keeps a list to which it adds   *)
(* the next copy unless the list has one of the same message.              *)
(***************************************************************************)
Turn(list, x) ==
  IF \E y \in Range(list) : y.slot = x.slot THEN list ELSE Append(list, x)

Turns(r, d) ==
  r = [n \in 0 .. Len(d) |-> IF n = 0 THEN <<>> ELSE Turn(r[n - 1], d[n])]

\* Naturals up to N: what fails somewhere fails somewhere for the first time.
LEMMA FirstFailure ==
  ASSUME NEW N \in Nat, NEW Good \in SUBSET (0 .. N), 0 \in Good,
         \A n \in 1 .. N : n - 1 \in Good => n \in Good
  PROVE  Good = 0 .. N
<1> DEFINE Bad == (0 .. N) \ Good
           T == {1 .. i : i \in Bad}
<1>1. SUFFICES ASSUME Bad # {} PROVE FALSE
  OBVIOUS
<1>2. T \subseteq FiniteSubsetsOf(Nat) /\ T # {}
  <2>1. \A i \in Bad : 1 .. i \in SUBSET Nat /\ IsFiniteSet(1 .. i)
    BY FS_Interval
  <2> QED BY <1>1, <2>1 DEF FiniteSubsetsOf
<1>3. PICK x \in T : \A y \in T : <<y, x>> \notin StrictSubsetOrdering(Nat)
  BY <1>2, FS_StrictSubsetOrderingWellFounded, WFMin
<1>4. PICK n \in Bad : x = 1 .. n
  BY <1>3
<1>5. n \in 1 .. N /\ n - 1 \in Bad
  OBVIOUS
<1>6. 1 .. n - 1 \in T
  BY <1>5
<1>7. n \in 1 .. n /\ n \notin 1 .. n - 1 /\ 1 .. n - 1 \subseteq 1 .. n /\ 1 .. n \subseteq Nat
  BY <1>5
<1>8. <<1 .. n - 1, 1 .. n>> \in StrictSubsetOrdering(Nat)
  BY <1>7 DEF StrictSubsetOrdering
<1> QED BY <1>3, <1>4, <1>6, <1>8

LEMMA TurnsExist ==
  ASSUME NEW d, Len(d) \in Nat PROVE \E r : Turns(r, d)
<1> DEFINE N == Len(d)
           UpTo(f, n) == f = [k \in 0 .. n |-> IF k = 0 THEN <<>> ELSE Turn(f[k - 1], d[k])]
           Good == {n \in 0 .. N : \E f : UpTo(f, n)}
<1>1. 0 \in Good
  <2> DEFINE f == [k \in 0 .. 0 |-> <<>>]
  <2>1. UpTo(f, 0)
    OBVIOUS
  <2> HIDE DEF f, UpTo
  <2>2. \E h : UpTo(h, 0)
    <3> WITNESS f
    <3> QED BY <2>1
  <2> QED BY <2>2
<1>2. ASSUME NEW n \in 1 .. N, n - 1 \in Good PROVE n \in Good
  <2>1. PICK f : UpTo(f, n - 1)
    BY <1>2
  <2> DEFINE g == [k \in 0 .. n |-> IF k = n THEN Turn(f[n - 1], d[n]) ELSE f[k]]
  <2>2. \A k \in 0 .. n - 1 : g[k] = f[k]
    OBVIOUS
  <2>3. ASSUME NEW k \in 0 .. n
        PROVE  g[k] = IF k = 0 THEN <<>> ELSE Turn(g[k - 1], d[k])
    <3>1. CASE k = n
      <4>1. n - 1 \in 0 .. n - 1 /\ n # 0
        OBVIOUS
      <4> QED BY <3>1, <4>1, <2>2
    <3>2. CASE k # n
      <4>1. k \in 0 .. n - 1 /\ (k # 0 => k - 1 \in 0 .. n - 1)
        BY <3>2
      <4>2. f[k] = IF k = 0 THEN <<>> ELSE Turn(f[k - 1], d[k])
        BY <2>1, <4>1
      <4> QED BY <2>2, <4>1, <4>2
    <3> QED BY <3>1, <3>2
  <2>4. g = [k \in 0 .. n |-> g[k]]
    OBVIOUS
  <2> HIDE DEF g
  <2>5. UpTo(g, n)
    BY <2>3, <2>4
  <2> HIDE DEF UpTo
  <2>6. \E h : UpTo(h, n)
    <3> WITNESS g
    <3> QED BY <2>5
  <2> QED BY <2>6
<1> HIDE DEF Good
<1>3. Good = 0 .. N
  <2>1. Good \in SUBSET (0 .. N)
    BY DEF Good
  <2> QED BY <1>1, <1>2, <2>1, FirstFailure
<1>4. PICK f : UpTo(f, N)
  BY <1>3 DEF Good
<1> QED BY <1>4 DEF Turns

LEMMA UniqueByTurns ==
  ASSUME NEW d, Len(d) \in Nat
  PROVE  \E r : Turns(r, d) /\ UniqueEvidence(d) = r[Len(d)]
<1> DEFINE u == CHOOSE r : Turns(r, d)
<1>1. Turns(u, d)
  BY TurnsExist
<1>2. UniqueEvidence(d) = u[Len(d)]
  BY DEF UniqueEvidence, Turns, Turn
<1> QED BY <1>1, <1>2

LEMMA TurnByTurn ==
  ASSUME NEW d, Len(d) \in Nat, NEW r, Turns(r, d)
  PROVE  r[0] = <<>> /\ \A n \in 1 .. Len(d) : r[n] = Turn(r[n - 1], d[n])
BY DEF Turns

\* What the list keeps of the first n copies.
Keeps(list, d, n) ==
  /\ list \in Seq(Range(d))
  /\ \A k \in 1 .. Len(list) : \E j \in 1 .. n : list[k] = d[j]
  /\ \A i, j \in 1 .. Len(list) : list[i].slot = list[j].slot => i = j
  /\ \A i \in 1 .. n : \E j \in 1 .. i : \E k \in 1 .. Len(list) :
       list[k] = d[j] /\ d[j].slot = d[i].slot

Begins(s, t) == Len(s) <= Len(t) /\ \A i \in 1 .. Len(s) : s[i] = t[i]

LEMMA TurnKeeps ==
  ASSUME NEW X, NEW d \in Seq(X), NEW n \in 1 .. Len(d), NEW list, Keeps(list, d, n - 1)
  PROVE  Keeps(Turn(list, d[n]), d, n) /\ Begins(list, Turn(list, d[n]))
<1> DEFINE x == d[n]
           R == Range(d)
           l == Len(list)
<1>1. x \in R /\ n - 1 \in Nat /\ list \in Seq(R) /\ n \in Nat
  BY DEF Range, Keeps
<1>2. \A i \in 1 .. n : i \in 1 .. n - 1 \/ i = n
  BY <1>1
<1>3. n \in 1 .. n /\ \A i \in 1 .. n - 1 : i \in 1 .. n
  BY <1>1
<1>4. /\ \A k \in 1 .. l : \E j \in 1 .. n - 1 : list[k] = d[j]
      /\ \A i, j \in 1 .. l : list[i].slot = list[j].slot => i = j
      /\ \A i \in 1 .. n - 1 : \E j \in 1 .. i : \E k \in 1 .. l :
           list[k] = d[j] /\ d[j].slot = d[i].slot
  BY DEF Keeps
<1>5. l \in Nat /\ DOMAIN list = 1 .. l
  BY <1>1
<1> HIDE DEF R, l
<1>6. CASE \E y \in Range(list) : y.slot = x.slot
  <2>1. Turn(list, x) = list
    BY <1>6 DEF Turn
  <2>2. PICK k \in 1 .. l : list[k].slot = x.slot
    BY <1>5, <1>6 DEF Range
  <2>3. PICK j \in 1 .. n - 1 : list[k] = d[j]
    BY <1>4, <2>2
  <2>4. \E i \in 1 .. n : \E m \in 1 .. l : list[m] = d[i] /\ d[i].slot = d[n].slot
    BY <1>3, <2>2, <2>3
  <2>5. \A i \in 1 .. n : \E m \in 1 .. i : \E h \in 1 .. l :
          list[h] = d[m] /\ d[m].slot = d[i].slot
    BY <1>2, <1>4, <2>4
  <2>6. \A h \in 1 .. l : \E m \in 1 .. n : list[h] = d[m]
    BY <1>3, <1>4
  <2>7. Begins(list, list)
    BY <1>5 DEF Begins, l
  <2>8. Keeps(list, d, n)
    BY <1>1, <1>4, <2>5, <2>6, Zenon DEF Keeps, R, l
  <2> QED BY <2>1, <2>7, <2>8
<1>7. CASE ~\E y \in Range(list) : y.slot = x.slot
  <2> DEFINE longer == Append(list, x)
             o == l + 1
  <2>1. Turn(list, x) = longer
    BY <1>7 DEF Turn
  <2>2. /\ longer \in Seq(R) /\ Len(longer) = o /\ longer[o] = x
        /\ \A h \in 1 .. l : longer[h] = list[h]
    BY <1>1, <1>5 DEF l
  <2>3. /\ o \in 1 .. o /\ \A h \in 1 .. l : h \in 1 .. o
        /\ \A h \in 1 .. o : h \in 1 .. l \/ h = o
        /\ l <= o
    BY <1>5
  <2> HIDE DEF longer, o
  <2>4. \A h \in 1 .. l : list[h].slot # x.slot
    BY <1>5, <1>7 DEF Range
  <2>5. ASSUME NEW i \in 1 .. o, NEW j \in 1 .. o, longer[i].slot = longer[j].slot
        PROVE  i = j
    <3>1. CASE i \in 1 .. l /\ j \in 1 .. l
      <4>1. longer[i] = list[i] /\ longer[j] = list[j]
        BY <2>2, <3>1
      <4> QED BY <1>4, <2>5, <3>1, <4>1
    <3>2. CASE i = o /\ j = o
      BY <3>2
    <3>3. CASE i \in 1 .. l /\ j = o
      <4>1. longer[i] = list[i] /\ longer[j] = x
        BY <2>2, <3>3
      <4> QED BY <2>4, <2>5, <3>3, <4>1
    <3>4. CASE i = o /\ j \in 1 .. l
      <4>1. longer[j] = list[j] /\ longer[i] = x
        BY <2>2, <3>4
      <4> QED BY <2>4, <2>5, <3>4, <4>1
    <3> QED BY <2>3, <3>1, <3>2, <3>3, <3>4
  <2>6. ASSUME NEW h \in 1 .. o PROVE \E m \in 1 .. n : longer[h] = d[m]
    <3>1. CASE h = o
      BY <1>3, <2>2, <3>1
    <3>2. CASE h \in 1 .. l
      <4>1. PICK m \in 1 .. n - 1 : list[h] = d[m]
        BY <1>4, <3>2
      <4> QED BY <1>3, <2>2, <3>2, <4>1
    <3> QED BY <2>3, <3>1, <3>2
  <2>7. ASSUME NEW i \in 1 .. n
        PROVE  \E m \in 1 .. i : \E h \in 1 .. o :
                 longer[h] = d[m] /\ d[m].slot = d[i].slot
    <3>1. CASE i = n
      BY <1>3, <2>2, <2>3, <3>1
    <3>2. CASE i \in 1 .. n - 1
      <4>1. PICK m \in 1 .. i : \E h \in 1 .. l : list[h] = d[m] /\ d[m].slot = d[i].slot
        BY <1>4, <3>2
      <4>2. PICK h \in 1 .. l : list[h] = d[m] /\ d[m].slot = d[i].slot
        BY <4>1
      <4>3. h \in 1 .. o /\ longer[h] = d[m]
        BY <2>2, <2>3, <4>2
      <4> QED BY <4>1, <4>2, <4>3
    <3> QED BY <1>2, <3>1, <3>2
  <2>8. Begins(list, longer)
    BY <2>2, <2>3 DEF Begins, l
  <2>9. Keeps(longer, d, n)
    BY <2>2, <2>5, <2>6, <2>7, Zenon DEF Keeps, R
  <2> QED BY <2>1, <2>8, <2>9
<1> QED BY <1>6, <1>7

LEMMA AllTurnsKeep ==
  ASSUME NEW X, NEW d \in Seq(X), NEW r, Turns(r, d)
  PROVE  \A n \in 0 .. Len(d) : Keeps(r[n], d, n)
<1> DEFINE Good == {n \in 0 .. Len(d) : Keeps(r[n], d, n)}
<1>1. Len(d) \in Nat
  OBVIOUS
<1>2. 0 \in Good
  <2>1. r[0] = <<>>
    BY <1>1, TurnByTurn
  <2>2. Keeps(<<>>, d, 0)
    BY DEF Keeps
  <2> QED BY <1>1, <2>1, <2>2
<1>3. ASSUME NEW n \in 1 .. Len(d), n - 1 \in Good PROVE n \in Good
  <2>1. Keeps(r[n - 1], d, n - 1)
    BY <1>3
  <2>2. r[n] = Turn(r[n - 1], d[n])
    BY <1>1, TurnByTurn
  <2>3. Keeps(r[n], d, n)
    BY <2>1, <2>2, TurnKeeps
  <2>4. n \in 0 .. Len(d)
    BY <1>1
  <2> QED BY <2>3, <2>4
<1>4. Good \in SUBSET (0 .. Len(d))
  OBVIOUS
<1> HIDE DEF Good
<1>5. Good = 0 .. Len(d)
  BY <1>1, <1>2, <1>3, <1>4, FirstFailure
<1> QED BY <1>5 DEF Good

\* Unique evidence has each message once, by a copy that came no later than
\* any other that was delivered.
LEMMA UniqueKeeps ==
  ASSUME NEW X, NEW d \in Seq(X)
  PROVE  Keeps(UniqueEvidence(d), d, Len(d))
<1>1. PICK r : Turns(r, d) /\ UniqueEvidence(d) = r[Len(d)]
  BY UniqueByTurns
<1> QED BY <1>1, AllTurnsKeep

\* What was kept of the beginning is the beginning of what is kept.
LEMMA UniqueBegins ==
  ASSUME NEW X, NEW d \in Seq(X), NEW e \in Seq(X), Begins(d, e)
  PROVE  /\ Begins(UniqueEvidence(d), UniqueEvidence(e))
         /\ UniqueEvidence(d) \in Seq(X) /\ UniqueEvidence(e) \in Seq(X)
<1>1. PICK r : Turns(r, d) /\ UniqueEvidence(d) = r[Len(d)]
  BY UniqueByTurns
<1>2. PICK q : Turns(q, e) /\ UniqueEvidence(e) = q[Len(e)]
  BY UniqueByTurns
<1> DEFINE m == Len(d)
           N == Len(e)
<1>3. m \in Nat /\ N \in Nat /\ m <= N /\ \A i \in 1 .. m : e[i] = d[i]
  BY DEF Begins
<1>4. /\ r[0] = <<>> /\ \A n \in 1 .. m : r[n] = Turn(r[n - 1], d[n])
      /\ q[0] = <<>> /\ \A n \in 1 .. N : q[n] = Turn(q[n - 1], e[n])
  BY <1>1, <1>2, <1>3, TurnByTurn
<1>5. Range(d) \subseteq X /\ Range(e) \subseteq X
  BY DEF Range
<1>6. /\ \A n \in 0 .. m : Keeps(r[n], d, n) /\ r[n] \in Seq(X)
      /\ \A n \in 0 .. N : Keeps(q[n], e, n) /\ q[n] \in Seq(X)
  <2>1. \A s : s \in Seq(Range(d)) \/ s \in Seq(Range(e)) => s \in Seq(X)
    BY <1>5
  <2>2. \A n \in 0 .. m : Keeps(r[n], d, n)
    BY <1>1, AllTurnsKeep
  <2>3. \A n \in 0 .. N : Keeps(q[n], e, n)
    BY <1>2, AllTurnsKeep
  <2> QED BY <2>1, <2>2, <2>3, Zenon DEF Keeps
<1> HIDE DEF m, N
<1>7. q[m] = r[m]
  <2> DEFINE Same == {n \in 0 .. m : q[n] = r[n]}
  <2>1. 0 \in Same
    BY <1>3, <1>4
  <2>2. ASSUME NEW n \in 1 .. m, n - 1 \in Same PROVE n \in Same
    <3>1. n \in 1 .. N /\ n \in 0 .. m
      BY <1>3
    <3> QED BY <1>3, <1>4, <2>2, <3>1
  <2>3. Same \in SUBSET (0 .. m)
    OBVIOUS
  <2> HIDE DEF Same
  <2>4. Same = 0 .. m
    BY <1>3, <2>1, <2>2, <2>3, FirstFailure
  <2> QED BY <1>3, <2>4 DEF Same
<1>8. Begins(q[m], q[N])
  <2> DEFINE Longer == {n \in 0 .. N - m : Begins(q[m], q[m + n])}
  <2>1. 0 \in Longer
    <3>1. m \in 0 .. N /\ m + 0 = m /\ 0 \in 0 .. N - m
      BY <1>3
    <3>2. Len(q[m]) \in Nat
      BY <1>6, <3>1
    <3>3. Begins(q[m], q[m])
      BY <3>2 DEF Begins
    <3> QED BY <3>1, <3>3
  <2>2. ASSUME NEW n \in 1 .. N - m, n - 1 \in Longer PROVE n \in Longer
    <3>1. /\ m + (n - 1) = (m + n) - 1 /\ m + n \in 1 .. N /\ n \in 0 .. N - m
          /\ (m + n) - 1 \in 0 .. N /\ m + n \in 0 .. N /\ m \in 0 .. N
      BY <1>3
    <3>2. Begins(q[m], q[(m + n) - 1])
      BY <2>2, <3>1
    <3>3. Begins(q[(m + n) - 1], q[m + n])
      <4>1. q[m + n] = Turn(q[(m + n) - 1], e[m + n])
        BY <1>4, <3>1
      <4>2. Keeps(q[(m + n) - 1], e, (m + n) - 1)
        BY <1>6, <3>1
      <4>3. m + n \in 1 .. Len(e)
        BY <3>1 DEF N
      <4> QED BY <4>1, <4>2, <4>3, TurnKeeps
    <3>4. /\ Len(q[m]) \in Nat /\ Len(q[(m + n) - 1]) \in Nat /\ Len(q[m + n]) \in Nat
      BY <1>6, <3>1
    <3>5. Begins(q[m], q[m + n])
      BY <3>2, <3>3, <3>4 DEF Begins
    <3> QED BY <3>1, <3>5
  <2>3. Longer \in SUBSET (0 .. N - m) /\ N - m \in Nat
    BY <1>3
  <2> HIDE DEF Longer
  <2>4. Longer = 0 .. N - m
    BY <2>1, <2>2, <2>3, FirstFailure
  <2>5. N - m \in 0 .. N - m /\ m + (N - m) = N
    BY <1>3
  <2> QED BY <2>4, <2>5 DEF Longer
<1>9. m \in 0 .. m /\ N \in 0 .. N
  BY <1>3
<1> QED BY <1>1, <1>2, <1>6, <1>7, <1>8, <1>9 DEF m, N

LEMMA ScheduledInOrder == Spec => [](TypeOK /\ OutcomeInv /\ Finite)
<1>1. Init => OutcomeInv
  <2>1. Init => DOMAIN messages \subseteq Nat
    BY DeliveryAssumption DEF Init
  <2> QED BY <2>1 DEF Init, OutcomeInv
<1>2. Init => Finite
  BY FS_EmptySet DEF Init, Finite
<1>3. TypeOK /\ OutcomeInv /\ Finite /\ [Next]_vars => OutcomeInv' /\ Finite'
  BY OutcomeStep, FiniteStep
<1> QED BY <1>1, <1>2, <1>3, TypeCorrect, PTL DEF Spec

LEMMA BeginsPrefix ==
  ASSUME NEW X, NEW s \in Seq(X), NEW t \in Seq(X), Begins(s, t)
  PROVE  IsPrefix(s, t)
<1> DEFINE n == Len(s)
<1>1. n \in Nat /\ Len(t) \in Nat /\ n <= Len(t) /\ \A i \in 1 .. n : s[i] = t[i]
  BY DEF Begins
<1> HIDE DEF n
<1>2. SubSeq(s, 1, n) = [i \in 1 .. n |-> s[i]] /\ SubSeq(t, 1, n) = [i \in 1 .. n |-> t[i]]
  BY <1>1 DEF n
<1>3. SubSeq(s, 1, n) = SubSeq(t, 1, n)
  BY <1>1, <1>2
<1> QED BY <1>1, <1>3 DEF IsPrefix, n

LEMMA ShownSequence ==
  ASSUME TypeOK, OutcomeInv, Finite, NEW store, NEW t \in Int
  PROVE  LET shown == DeliveredForStore(store, t)
         IN  /\ shown \in Seq(Delivered)
             /\ Len(shown) = Cardinality(Arrived(store, t))
             /\ Cardinality(Arrived(store, t)) \in Nat
             /\ Lists(shown, Arrived(store, t))
<1> DEFINE shown == DeliveredForStore(store, t)
           A == Arrived(store, t)
           C == Cardinality(A)
<1>1. Ordered(A) /\ shown = InOrder(A) /\ A \subseteq Delivered
  BY ArrivedInOrder DEF Arrived
<1> HIDE DEF shown, A
<1>2. Lists(shown, A) /\ C \in Nat
  BY <1>1, InOrderLists, FS_CardinalityType DEF Ordered
<1> HIDE DEF C
<1>3. shown \in [1 .. C -> Delivered]
  BY <1>1, <1>2 DEF Lists, C
<1>4. shown \in Seq(Delivered) /\ Len(shown) = C
  BY <1>2, <1>3
<1> QED BY <1>2, <1>4 DEF shown, A, C

LEMMA EarlierBegins ==
  ASSUME TypeOK, OutcomeInv, Finite, NEW store, NEW t \in Int, NEW u \in Int, t <= u
  PROVE  Begins(DeliveredForStore(store, t), DeliveredForStore(store, u))
<1> DEFINE E == Arrived(store, t)
           L == Arrived(store, u)
<1>1. Ordered(L) /\ E \in SUBSET L /\ \A x \in E, y \in L \ E : Before(x, y)
  BY ArrivedInOrder, LaterComesAfter
<1>2. /\ DeliveredForStore(store, t) = InOrder(E) /\ DeliveredForStore(store, u) = InOrder(L)
      /\ Len(InOrder(E)) = Cardinality(E) /\ Len(InOrder(L)) = Cardinality(L)
  BY ArrivedInOrder, ShownSequence
<1> HIDE DEF E, L
<1>3. /\ Cardinality(E) <= Cardinality(L)
      /\ \A i \in 1 .. Cardinality(E) : InOrder(L)[i] = InOrder(E)[i]
  BY <1>1, InOrderBegins
<1> QED BY <1>2, <1>3 DEF Begins

\* A store is never shown less, or otherwise, at a later cutoff.
THEOREM LaterOnlyAdds == Spec => []EarlierIsPrefix
<1>1. TypeOK /\ OutcomeInv /\ Finite => EarlierIsPrefix
  <2> SUFFICES ASSUME TypeOK, OutcomeInv, Finite,
                      NEW s \in Stores, NEW t \in 0 .. Horizon - 1
               PROVE  LET earlier == DeliveredForStore(s, t)
                          later == DeliveredForStore(s, t + 1)
                      IN  /\ IsPrefix(earlier, later)
                          /\ IsPrefix(UniqueEvidence(earlier), UniqueEvidence(later))
    BY DEF EarlierIsPrefix
  <2> DEFINE earlier == DeliveredForStore(s, t)
             later == DeliveredForStore(s, t + 1)
  <2>1. t \in Int /\ t + 1 \in Int /\ t <= t + 1
    BY DeliveryAssumption
  <2>2. Begins(earlier, later)
    BY <2>1, EarlierBegins
  <2>3. earlier \in Seq(Delivered) /\ later \in Seq(Delivered)
    BY <2>1, ShownSequence
  <2> HIDE DEF earlier, later
  <2>4. IsPrefix(earlier, later)
    BY <2>2, <2>3, BeginsPrefix
  <2>5. IsPrefix(UniqueEvidence(earlier), UniqueEvidence(later))
    BY <2>2, <2>3, UniqueBegins, BeginsPrefix
  <2> QED BY <2>4, <2>5 DEF earlier, later
<1> QED BY <1>1, ScheduledInOrder, PTL

LEMMA FirstCopies ==
  ASSUME TypeOK, OutcomeInv, Finite, NEW s \in Stores
  PROVE  LET shown == DeliveredForStore(s, cutoff)
             kept == UniqueEvidence(shown)
         IN  /\ IsInjective([i \in DOMAIN kept |-> kept[i].slot])
             /\ \A x \in Range(shown) :
                  \E y \in Range(kept) : y.slot = x.slot /\ y.deliveredAt <= x.deliveredAt
<1> DEFINE shown == DeliveredForStore(s, cutoff)
           kept == UniqueEvidence(shown)
           A == Arrived(s, cutoff)
<1>1. cutoff \in Int
  BY DeliveryAssumption DEF TypeOK
<1>2. /\ shown \in Seq(Delivered) /\ Len(shown) \in Nat
      /\ \A i, j \in 1 .. Len(shown) : i < j => Before(shown[i], shown[j])
  <2>1. /\ shown \in Seq(Delivered) /\ Lists(shown, A)
    BY <1>1, ShownSequence
  <2> HIDE DEF shown, A
  <2>2. DOMAIN shown = 1 .. Len(shown) /\ Len(shown) \in Nat
    BY <2>1
  <2>3. \A i, j \in DOMAIN shown : i < j <=> Before(shown[i], shown[j])
    BY <2>1 DEF Lists
  <2> QED BY <2>1, <2>2, <2>3
<1>3. \A x \in Delivered : x.deliveredAt \in Nat
  BY DEF TypeOK
<1> HIDE DEF shown
<1>4. Keeps(kept, shown, Len(shown))
  BY <1>2, UniqueKeeps
<1> HIDE DEF kept
<1>5. /\ kept \in Seq(Range(shown))
      /\ \A i, j \in 1 .. Len(kept) : kept[i].slot = kept[j].slot => i = j
      /\ \A i \in 1 .. Len(shown) : \E j \in 1 .. i : \E k \in 1 .. Len(kept) :
           kept[k] = shown[j] /\ shown[j].slot = shown[i].slot
  BY <1>4 DEF Keeps
<1>6. DOMAIN kept = 1 .. Len(kept) /\ DOMAIN shown = 1 .. Len(shown)
  BY <1>2, <1>5
<1>7. IsInjective([i \in DOMAIN kept |-> kept[i].slot])
  BY <1>5, <1>6 DEF IsInjective
<1>8. ASSUME NEW x \in Range(shown)
      PROVE  \E y \in Range(kept) : y.slot = x.slot /\ y.deliveredAt <= x.deliveredAt
  <2>1. PICK i \in 1 .. Len(shown) : shown[i] = x
    BY <1>6 DEF Range
  <2>2. PICK j \in 1 .. i : \E k \in 1 .. Len(kept) :
               kept[k] = shown[j] /\ shown[j].slot = shown[i].slot
    BY <1>5
  <2>3. PICK k \in 1 .. Len(kept) : kept[k] = shown[j] /\ shown[j].slot = shown[i].slot
    BY <2>2
  <2>4. j \in 1 .. Len(shown) /\ j <= i /\ shown[i] \in Delivered /\ shown[j] \in Delivered
    BY <1>2, <1>6
  <2>5. shown[j].deliveredAt <= shown[i].deliveredAt
    <3>1. CASE j < i
      <4>1. Before(shown[j], shown[i])
        BY <1>2, <2>4, <3>1
      <4> QED BY <1>3, <2>4, <4>1 DEF Before
    <3>2. CASE j = i
      BY <1>3, <2>4, <3>2
    <3> QED BY <2>4, <3>1, <3>2
  <2>6. kept[k] \in Range(kept)
    BY <1>6 DEF Range
  <2> QED BY <2>1, <2>3, <2>5, <2>6
<1> QED BY <1>7, <1>8 DEF shown, kept

\* What a store is shown without repetitions has each message once, by its first
\* copy, whatever the overrides.
THEOREM FirstCopyAlways == Spec => []FirstCopyCounts
<1>1. TypeOK /\ OutcomeInv /\ Finite => FirstCopyCounts
  BY FirstCopies DEF FirstCopyCounts
<1> QED BY <1>1, ScheduledInOrder, PTL

(***************************************************************************)
(* The refinement.  Until the schedule stands the clock of the network     *)
(* does not run; what is scheduled for delivery is put into transit, and   *)
(* nothing has arrived.  Then every step of the cutoff is a second.        *)
(***************************************************************************)
Transit == {CopyOf(x) : x \in {y \in Delivered : y.deliveredAt > cutoff}}
InboxOf(s) ==
  [i \in DOMAIN DeliveredForStore(s, cutoff) |-> CopyOf(DeliveredForStore(s, cutoff)[i])]
Inbox == [s \in Stores |-> InboxOf(s)]

NotYet == pc # "COMPILED" => cutoff = -1

LEMMA NotYetStep ==
  ASSUME NotYet, [Next]_vars PROVE NotYet'
BY DEF NotYet, Next, Compile, CheckInputs, NextMessage, Compiled, Withhold, FollowOverride,
       DrawLoss, Hold, Release, Depart, Schedule, Project, vars

LEMMA NothingArrivedYet ==
  ASSUME \A x \in Delivered : x.deliveredAt \in Nat, NEW s
  PROVE  DeliveredForStore(s, -1) = <<>>
<1>1. Arrived(s, -1) = {}
  BY DEF Arrived
<1>2. DeliveredForStore(s, -1) = InOrder({})
  BY <1>1 DEF DeliveredForStore, Arrived
<1>3. Cardinality({}) = 0
  BY FS_EmptySet
<1>4. InOrder({}) = <<>>
  BY <1>3 DEF InOrder
<1> QED BY <1>2, <1>4

Undelivered == cutoff = -1 /\ \A x \in Delivered : x.deliveredAt \in Nat

AllEmpty == Inbox = [s \in Stores |-> <<>>]

LEMMA EmptyInboxes == Undelivered => AllEmpty
<1> SUFFICES ASSUME Undelivered PROVE AllEmpty
  OBVIOUS
<1>1. \A s \in Stores : DeliveredForStore(s, cutoff) = <<>>
  BY NothingArrivedYet DEF Undelivered
<1>2. \A s \in Stores : InboxOf(s) = <<>>
  BY <1>1 DEF InboxOf
<1> QED BY <1>2 DEF Inbox, AllEmpty

LEMMA StillEmptyInboxes == Undelivered' => AllEmpty'
BY EmptyInboxes, PTL

LEMMA NetworkInit == Init => Network!Init
<1> SUFFICES ASSUME Init PROVE Network!Init
  OBVIOUS
<1>1. Delivered = {} /\ cutoff = -1
  BY DEF Init, Delivered
<1>2. Transit = {} /\ Inbox = [s \in Stores |-> <<>>]
  BY <1>1, EmptyInboxes DEF Transit, Undelivered, AllEmpty
<1>3. policy.partitions \in SUBSET UNION {p.partitions : p \in Policies}
  BY DEF Init
<1> QED BY <1>1, <1>2, <1>3 DEF Network!Init, Transit, Inbox, InboxOf

\* What the network sees.
NetworkSame == UNCHANGED <<cutoff, policy.partitions, Transit, Inbox>>

LEMMA SameNetwork ==
  ASSUME UNCHANGED <<messages, policy, cutoff>>, Delivered' = Delivered
  PROVE  NetworkSame
<1>1. Transit' = Transit
  BY DEF Transit, CopyOf
<1>2. \A s : DeliveredForStore(s, cutoff)' = DeliveredForStore(s, cutoff)
  BY DEF DeliveredForStore, InOrder, Before
<1>3. \A s : InboxOf(s)' = InboxOf(s)
  BY <1>2 DEF InboxOf, CopyOf
<1>4. Inbox' = Inbox
  BY <1>3 DEF Inbox
<1> QED BY <1>1, <1>4 DEF NetworkSame

LEMMA OnlyReleaseDelivers ==
  ASSUME Compile
  PROVE  \/ UNCHANGED <<messages, policy, cutoff>> /\ Delivered' = Delivered
         \/ Release
<1>1. ASSUME NEW d, NEW r, NEW a, d # "DELIVER", Schedule(Transmission(d, r, a))
      PROVE  UNCHANGED <<messages, policy, cutoff>> /\ Delivered' = Delivered
  BY <1>1 DEF Schedule, Transmission, Delivered, inputs
<1>2. ASSUME NEW delays, Depart(delays)
      PROVE  UNCHANGED <<messages, policy, cutoff>> /\ Delivered' = Delivered
  BY <1>2 DEF Depart, Delivered, inputs
<1>3. CASE CheckInputs \/ Compiled \/ Hold
  BY <1>3 DEF CheckInputs, Compiled, Hold, Delivered, inputs
<1>4. ASSUME NEW s \in DOMAIN messages, NextMessage(s)
      PROVE  UNCHANGED <<messages, policy, cutoff>> /\ Delivered' = Delivered
  BY <1>4 DEF NextMessage, Delivered, inputs
<1>5. CASE Withhold
  BY <1>1, <1>5 DEF Withhold
<1>6. CASE FollowOverride
  BY <1>1, <1>2, <1>6 DEF FollowOverride
<1>7. CASE DrawLoss
  BY <1>1, <1>2, <1>7 DEF DrawLoss
<1> QED BY <1>3, <1>4, <1>5, <1>6, <1>7 DEF Compile

NetworkCopies == [slot : Slots, copy : CopyIndices, readyAt : Nat, link : Links]

LEMMA ReleasePuts ==
  ASSUME TypeOK, TypeOK', OutcomeInv, NotYet, Release
  PROVE  \E c \in Transit' :
           /\ cutoff = -1 /\ c \in NetworkCopies
           /\ Transit' = Transit \cup {c}
           /\ UNCHANGED <<cutoff, policy.partitions, Inbox>>
<1> DEFINE new == Transmission("DELIVER", readyAt, candidate)
           c == CopyOf(new)
<1>1. /\ messages' = messages /\ policy' = policy /\ cutoff' = cutoff /\ cutoff = -1
      /\ Delivered' = Delivered \cup {new}
  BY DEF Release, Schedule, inputs, Delivered, Transmission, NotYet
<1>2. /\ new.slot = slot /\ new.copy = copy /\ new.readyAt = readyAt
      /\ new.deliveredAt = candidate
  BY DEF Transmission
<1>3. /\ slot \in DOMAIN messages /\ readyAt \in Nat /\ candidate \in Nat
      /\ copy \in CopyIndices
  <2>1. pc = "PARTITION" /\ copy \in Nat /\ copies \in 1 .. 8 /\ copy < copies
    BY DEF Release, TypeOK, OutcomeInv, Counted
  <2> QED BY <2>1 DEF TypeOK, CopyIndices
<1>4. slot \in Slots /\ messages[slot].link \in Links
  BY <1>3, InputTypes DEF Messages
<1>5. c = [slot |-> slot, copy |-> copy, readyAt |-> readyAt, link |-> messages[slot].link]
  BY <1>2 DEF CopyOf
<1> HIDE DEF c, new
<1>6. c \in NetworkCopies
  BY <1>3, <1>4, <1>5 DEF NetworkCopies
<1>7. \A x : CopyOf(x)' = CopyOf(x)
  BY <1>1 DEF CopyOf
<1>8. {y \in Delivered' : y.deliveredAt > cutoff} =
        {y \in Delivered : y.deliveredAt > cutoff} \cup {new}
  BY <1>1, <1>2, <1>3
<1>9. Transit' = Transit \cup {c}
  BY <1>1, <1>7, <1>8 DEF Transit, c
<1>10. Inbox' = Inbox
  <2>1. Undelivered /\ Undelivered'
    BY <1>1 DEF TypeOK, Undelivered
  <2> QED BY <2>1, EmptyInboxes, StillEmptyInboxes DEF AllEmpty
<1> QED BY <1>1, <1>6, <1>9, <1>10

\* What a second brings.
Arriving == {x \in Delivered : x.deliveredAt = cutoff + 1}

LEMMA ArrivesWhenOpen ==
  ASSUME TypeOK, ArrivalInv, cutoff \in Int, cutoff >= -1,
         NEW x \in Delivered, x.deliveredAt > cutoff
  PROVE  x.deliveredAt = cutoff + 1 <=>
           x.readyAt <= cutoff + 1 /\ ~ClosedAt(messages[x.slot].link, cutoff + 1)
<1>1. x.readyAt \in Nat /\ x.deliveredAt \in Nat /\ ArrivalOf(x)
  BY DEF TypeOK, ArrivalInv
<1>2. x.deliveredAt # cutoff + 1 /\ x.readyAt <= cutoff + 1
        => cutoff + 1 \in x.readyAt .. x.deliveredAt - 1
  BY <1>1
<1> QED BY <1>1, <1>2 DEF ArrivalOf

LEMMA CopiesDiffer ==
  ASSUME TypeOK, OutcomeInv, NEW x \in Delivered, NEW y \in Delivered, CopyOf(x) = CopyOf(y)
  PROVE  x = y
<1>1. x.slot = y.slot /\ x.copy = y.copy
  BY DEF CopyOf
<1> QED BY <1>1, OneOfEach DEF Delivered

LEMMA NetworkClosed ==
  ASSUME TypeOK, NEW link, NEW t \in Int
  PROVE  Network!Closed(link, t) <=> ClosedAt(link, t)
<1>1. \A w \in policy.partitions : w.startsAt \in Nat /\ w.endsAt \in Nat
  BY InputTypes DEF PolicyRecords, Partitions
<1>2. \A w \in policy.partitions :
        t \in w.startsAt .. w.endsAt - 1 <=> w.startsAt <= t /\ t < w.endsAt
  BY <1>1
<1> QED BY <1>2 DEF Network!Closed, ClosedAt, Holds

LEMMA TransitMoves ==
  ASSUME TypeOK, OutcomeInv, ArrivalInv, Project
  PROVE  LET arriving == {c \in Transit : c.readyAt <= cutoff' /\ ~Network!Closed(c.link, cutoff')}
         IN  /\ arriving = {CopyOf(x) : x \in Arriving}
             /\ Transit' = Transit \ arriving
<1> DEFINE arriving == {c \in Transit : c.readyAt <= cutoff' /\ ~Network!Closed(c.link, cutoff')}
<1>1. /\ cutoff' = cutoff + 1 /\ messages' = messages /\ Delivered' = Delivered
      /\ cutoff \in Int /\ cutoff + 1 \in Int /\ cutoff >= -1
  BY DeliveryAssumption DEF Project, inputs, Delivered, TypeOK
<1>2. \A x : CopyOf(x).readyAt = x.readyAt /\ CopyOf(x).link = messages[x.slot].link
  BY DEF CopyOf
<1>3. \A x \in Delivered : x.deliveredAt > cutoff =>
        (CopyOf(x) \in arriving <=> x.deliveredAt = cutoff + 1)
  <2> SUFFICES ASSUME NEW x \in Delivered, x.deliveredAt > cutoff
               PROVE  CopyOf(x) \in arriving <=> x.deliveredAt = cutoff + 1
    OBVIOUS
  <2>1. CopyOf(x) \in Transit
    BY DEF Transit
  <2>2. Network!Closed(messages[x.slot].link, cutoff + 1) <=>
          ClosedAt(messages[x.slot].link, cutoff + 1)
    BY <1>1, NetworkClosed
  <2> QED BY <1>1, <1>2, <2>1, <2>2, ArrivesWhenOpen
<1>4. \A x \in Delivered : x.deliveredAt \in Nat
  BY DEF TypeOK
<1>5. arriving = {CopyOf(x) : x \in Arriving}
  <2>1. ASSUME NEW c \in arriving PROVE c \in {CopyOf(x) : x \in Arriving}
    <3>1. PICK x \in Delivered : x.deliveredAt > cutoff /\ c = CopyOf(x)
      BY DEF Transit
    <3>2. x \in Arriving
      BY <1>3, <3>1 DEF Arriving
    <3> QED BY <3>1, <3>2
  <2>2. ASSUME NEW x \in Arriving PROVE CopyOf(x) \in arriving
    <3>1. x \in Delivered /\ x.deliveredAt > cutoff /\ x.deliveredAt = cutoff + 1
      BY <1>1 DEF Arriving
    <3> QED BY <1>3, <3>1
  <2> HIDE DEF arriving
  <2> QED BY <2>1, <2>2
<1> HIDE DEF arriving
<1>6. Transit' = {CopyOf(x) : x \in {y \in Delivered : y.deliveredAt > cutoff + 1}}
  BY <1>1 DEF Transit, CopyOf
<1>7. ASSUME NEW c \in Transit' PROVE c \in Transit /\ c \notin arriving
  <2>1. PICK x \in Delivered : x.deliveredAt > cutoff + 1 /\ c = CopyOf(x)
    BY <1>6
  <2>2. x.deliveredAt > cutoff /\ x.deliveredAt # cutoff + 1
    BY <1>1, <1>4, <2>1
  <2> QED BY <1>3, <2>1, <2>2 DEF Transit
<1>8. ASSUME NEW c \in Transit, c \notin arriving PROVE c \in Transit'
  <2>1. PICK x \in Delivered : x.deliveredAt > cutoff /\ c = CopyOf(x)
    BY DEF Transit
  <2>2. x.deliveredAt # cutoff + 1
    BY <1>3, <1>8, <2>1
  <2>3. x.deliveredAt > cutoff + 1
    BY <1>1, <1>4, <2>1, <2>2
  <2> QED BY <1>6, <2>1, <2>3
<1>9. Transit' = Transit \ arriving
  BY <1>7, <1>8
<1> QED BY <1>5, <1>9 DEF arriving

LEMMA FunctionSequence ==
  ASSUME NEW X, NEW k \in Nat, NEW s \in [1 .. k -> X]
  PROVE  s \in Seq(X) /\ Len(s) = k
OBVIOUS

LEMMA Concatenated ==
  ASSUME NEW X, NEW m \in Nat, NEW n \in Nat, m <= n
  PROVE  \A f \in [1 .. n -> X], g \in [1 .. m -> X], h \in [1 .. n - m -> X] :
           (\A i \in 1 .. m : f[i] = g[i]) /\ (\A i \in 1 .. n - m : f[m + i] = h[i])
             => f = g \o h
<1> SUFFICES ASSUME NEW f \in [1 .. n -> X], NEW g \in [1 .. m -> X],
                    NEW h \in [1 .. n - m -> X],
                    \A i \in 1 .. m : f[i] = g[i], \A i \in 1 .. n - m : f[m + i] = h[i]
             PROVE  f = g \o h
  OBVIOUS
<1> DEFINE k == n - m
<1>1. k \in Nat /\ m + k = n
  OBVIOUS
<1>2. h \in [1 .. k -> X] /\ \A i \in 1 .. k : f[m + i] = h[i]
  OBVIOUS
<1> HIDE DEF k
<1>3. g \in Seq(X) /\ Len(g) = m /\ h \in Seq(X) /\ Len(h) = k
  BY <1>1, <1>2, FunctionSequence
<1> DEFINE c == g \o h
<1>4. /\ c \in Seq(X) /\ Len(c) = m + k
      /\ \A i \in 1 .. m + k : c[i] = IF i <= m THEN g[i] ELSE h[i - m]
  <2>1. /\ c \in Seq(X) /\ Len(c) = Len(g) + Len(h)
        /\ \A i \in 1 .. Len(g) + Len(h) :
             c[i] = IF i <= Len(g) THEN g[i] ELSE h[i - Len(g)]
    BY <1>3, ConcatProperties
  <2> HIDE DEF c
  <2> QED BY <1>3, <2>1
<1> HIDE DEF c
<1>5. c \in [1 .. n -> X]
  BY <1>1, <1>4
<1>6. ASSUME NEW i \in 1 .. n PROVE f[i] = c[i]
  <2>1. CASE i <= m
    <3>1. i \in 1 .. m
      BY <2>1
    <3>2. c[i] = g[i]
      BY <1>1, <1>4, <2>1
    <3> QED BY <3>1, <3>2
  <2>2. CASE i > m
    <3>1. i - m \in 1 .. k /\ m + (i - m) = i
      BY <1>1, <2>2
    <3>2. c[i] = h[i - m]
      BY <1>1, <1>4, <2>2
    <3> QED BY <1>2, <3>1, <3>2
  <2> QED BY <2>1, <2>2
<1>7. f = c
  BY <1>5, <1>6
<1> QED BY <1>7 DEF c

\* What comes to one store in a second, in order of arrival.
LEMMA InboxGrows ==
  ASSUME TypeOK, OutcomeInv, Finite, Project, NEW s \in Stores
  PROVE  \E batch \in SetToSeqs({CopyOf(x) : x \in
                                   {y \in Arriving : messages[y.slot].link.destination = s}}) :
           InboxOf(s)' = InboxOf(s) \o batch
<1> DEFINE E == Arrived(s, cutoff)
           L == Arrived(s, cutoff + 1)
           m == Cardinality(E)
           n == Cardinality(L)
           D == L \ E
           B == {CopyOf(x) : x \in D}
           l == InOrder(L)
           e == InOrder(E)
           C == {CopyOf(x) : x \in Delivered}
           batch == [i \in 1 .. n - m |-> CopyOf(l[m + i])]
           f == [i \in 1 .. n |-> CopyOf(l[i])]
           g == [i \in 1 .. m |-> CopyOf(e[i])]
<1>1. /\ cutoff' = cutoff + 1 /\ messages' = messages /\ Delivered' = Delivered
      /\ cutoff \in Int /\ cutoff + 1 \in Int /\ cutoff <= cutoff + 1
  BY DeliveryAssumption DEF Project, inputs, Delivered, TypeOK
<1>2. {y \in Arriving : messages[y.slot].link.destination = s} = D
  <2>1. \A x \in Delivered : x.deliveredAt \in Nat
    BY DEF TypeOK
  <2> QED BY <1>1, <2>1 DEF Arriving, Arrived
<1>3. /\ Ordered(L) /\ Ordered(E) /\ E \in SUBSET L /\ \A x \in E, y \in L \ E : Before(x, y)
      /\ L \subseteq Delivered
      /\ DeliveredForStore(s, cutoff) = e /\ DeliveredForStore(s, cutoff + 1) = l
  <2>1. Ordered(L) /\ Ordered(E)
    BY <1>1, ArrivedInOrder
  <2>2. DeliveredForStore(s, cutoff) = e /\ DeliveredForStore(s, cutoff + 1) = l
    BY <1>1, ArrivedInOrder
  <2>3. E \in SUBSET L /\ \A x \in E, y \in L \ E : Before(x, y)
    BY <1>1, LaterComesAfter
  <2>4. L \subseteq Delivered
    BY DEF Arrived
  <2> QED BY <2>1, <2>2, <2>3, <2>4
<1>4. \A x, y \in Delivered : CopyOf(x) = CopyOf(y) => x = y
  BY CopiesDiffer
<1> HIDE DEF E, L
<1>5. /\ m \in Nat /\ n \in Nat /\ m <= n
      /\ \A i \in 1 .. m : l[i] = e[i]
      /\ \A i \in 1 .. n : i > m => l[i] \in D
  BY <1>3, InOrderBegins
<1>6. Lists(l, L) /\ Lists(e, E)
  BY <1>3, InOrderLists
<1> HIDE DEF l, e, m, n, D
<1>7. /\ l \in [1 .. n -> L] /\ e \in [1 .. m -> E]
      /\ \A x \in L : \E i \in 1 .. n : l[i] = x
      /\ \A i, j \in 1 .. n : i < j => Before(l[i], l[j])
  <2>1. l \in [1 .. n -> L] /\ e \in [1 .. m -> E]
    BY <1>6 DEF Lists, m, n
  <2>2. DOMAIN l = 1 .. n
    BY <2>1
  <2> QED BY <1>6, <2>1, <2>2 DEF Lists
<1>8. \A i, j \in 1 .. n : l[i] = l[j] => i = j
  <2>1. \A i, j \in 1 .. n : i < j => l[i] # l[j]
    BY <1>3, <1>7 DEF Ordered
  <2> QED BY <1>5, <2>1
<1>9. n - m \in Nat /\ \A i \in 1 .. n - m : m + i \in 1 .. n /\ m + i > m
  BY <1>5
<1>10. D \subseteq L /\ D \subseteq Delivered /\ \A x \in D : x \notin E
  BY <1>3 DEF D
<1>11. batch \in [1 .. n - m -> B]
  BY <1>5, <1>9
<1>12. ASSUME NEW i \in 1 .. n - m, NEW j \in 1 .. n - m, batch[i] = batch[j]
       PROVE  i = j
  <2>1. l[m + i] \in Delivered /\ l[m + j] \in Delivered
    BY <1>5, <1>9, <1>10
  <2>2. l[m + i] = l[m + j]
    BY <1>4, <1>12, <2>1
  <2>3. m + i = m + j
    BY <1>8, <1>9, <2>2
  <2> QED BY <1>5, <2>3
<1>13. ASSUME NEW c \in B PROVE \E i \in 1 .. n - m : batch[i] = c
  <2>1. PICK x \in D : c = CopyOf(x)
    OBVIOUS
  <2>2. PICK k \in 1 .. n : l[k] = x
    BY <1>7, <1>10, <2>1
  <2>3. ~(k <= m)
    <3>1. SUFFICES ASSUME k \in 1 .. m PROVE FALSE
      BY <1>5
    <3>2. l[k] \in E
      BY <1>5, <1>7, <3>1
    <3> QED BY <1>10, <2>2, <3>2
  <2>4. k - m \in 1 .. n - m /\ m + (k - m) = k
    BY <1>5, <2>3
  <2> QED BY <2>1, <2>2, <2>4
<1>14. Cardinality(B) = n - m
  <2> HIDE DEF batch, B
  <2>1. batch \in Bijection(1 .. n - m, B)
    BY <1>11, <1>12, <1>13 DEF Bijection, Injection, Surjection, IsInjective
  <2>2. IsFiniteSet(1 .. n - m) /\ Cardinality(1 .. n - m) = n - m
    BY <1>9, FS_Interval
  <2>3. ExistsBijection(1 .. n - m, B)
    BY <2>1 DEF ExistsBijection
  <2> QED BY <2>2, <2>3, FS_Bijection
<1>15. batch \in SetToSeqs(B)
  <2> HIDE DEF batch, B
  <2> QED BY <1>11, <1>12, <1>14 DEF SetToSeqs
<1>16. f = g \o batch
  <2>1. f \in [1 .. n -> C]
    BY <1>3, <1>7
  <2>2. g \in [1 .. m -> C]
    BY <1>3, <1>7
  <2>3. batch \in [1 .. n - m -> C]
    BY <1>5, <1>9, <1>10
  <2>4. \A i \in 1 .. m : f[i] = g[i]
    BY <1>5
  <2>5. \A i \in 1 .. n - m : f[m + i] = batch[i]
    BY <1>9
  <2> HIDE DEF f, g, batch, C
  <2>6. m \in Nat /\ n \in Nat /\ m <= n
    BY <1>5
  <2>7. \A p \in [1 .. n -> C], q \in [1 .. m -> C], r \in [1 .. n - m -> C] :
          (\A i \in 1 .. m : p[i] = q[i]) /\ (\A i \in 1 .. n - m : p[m + i] = r[i])
            => p = q \o r
    BY <2>6, Concatenated
  <2> QED BY <2>1, <2>2, <2>3, <2>4, <2>5, <2>7
<1>17. InboxOf(s) = g
  <2>1. DOMAIN e = 1 .. m
    BY <1>7
  <2> QED BY <1>3, <2>1 DEF InboxOf
<1>18. InboxOf(s)' = f
  <2>1. DeliveredForStore(s, cutoff)' = l
    <3>1. DeliveredForStore(s, cutoff)' = DeliveredForStore(s, cutoff + 1)
      BY <1>1 DEF DeliveredForStore, InOrder, Before
    <3> QED BY <1>3, <3>1
  <2>2. DOMAIN l = 1 .. n
    BY <1>7
  <2> QED BY <1>1, <2>1, <2>2 DEF InboxOf, CopyOf
<1> HIDE DEF batch, f, g
<1> QED BY <1>2, <1>15, <1>16, <1>17, <1>18

\* The network's operators on finite sets are those of this module.
LEMMA SameSequences == \A S : Network!SetToSeqs(S) = SetToSeqs(S)
<1>1. \A S : Network!Cardinality(S) = Cardinality(S)
  BY Zenon DEF Network!Cardinality, Cardinality
<1> QED BY <1>1, Zenon DEF Network!SetToSeqs, SetToSeqs

LEMMA ProjectTicks ==
  ASSUME TypeOK, OutcomeInv, Finite, ArrivalInv, Project
  PROVE  Network!Tick
<1> DEFINE arriving == {c \in Transit : c.readyAt <= cutoff' /\ ~Network!Closed(c.link, cutoff')}
<1>1. cutoff' = cutoff + 1 /\ policy' = policy
  BY DEF Project, inputs
<1>2. arriving = {CopyOf(x) : x \in Arriving} /\ Transit' = Transit \ arriving
  BY TransitMoves
<1>3. ASSUME NEW s \in Stores
      PROVE  \E batch \in SetToSeqs({c \in arriving : c.link.destination = s}) :
               Inbox'[s] = Inbox[s] \o batch
  <2>1. {c \in arriving : c.link.destination = s} =
          {CopyOf(x) : x \in {y \in Arriving : messages[y.slot].link.destination = s}}
    <3>1. \A x : CopyOf(x).link = messages[x.slot].link
      BY DEF CopyOf
    <3> QED BY <1>2, <3>1
  <2>2. Inbox[s] = InboxOf(s) /\ Inbox'[s] = InboxOf(s)'
    BY DEF Inbox
  <2> HIDE DEF arriving
  <2> QED BY <2>1, <2>2, InboxGrows
<1>4. Network!Tick <=>
        /\ cutoff' = cutoff + 1
        /\ /\ Transit' = Transit \ arriving
           /\ \A s \in Stores :
                \E batch \in SetToSeqs({c \in arriving : c.link.destination = s}) :
                  Inbox'[s] = Inbox[s] \o batch
        /\ UNCHANGED policy.partitions
  BY SameSequences DEF Network!Tick, Transit, Inbox, InboxOf
<1> HIDE DEF arriving
<1> QED BY <1>1, <1>2, <1>3, <1>4

LEMMA NetworkNext ==
  TypeOK /\ TypeOK' /\ OutcomeInv /\ Finite /\ ArrivalInv /\ NotYet /\ [Next]_vars
    => [Network!Next]_(Network!networkVars)
<1> SUFFICES ASSUME TypeOK, TypeOK', OutcomeInv, Finite, ArrivalInv, NotYet, [Next]_vars
             PROVE  [Network!Next]_(Network!networkVars)
  OBVIOUS
<1>1. NetworkSame => UNCHANGED Network!networkVars
  BY DEF NetworkSame, Network!networkVars, Transit, Inbox, InboxOf
<1>2. CASE Release
  <2>1. PICK c \in Transit' :
           /\ cutoff = -1 /\ c \in NetworkCopies
           /\ Transit' = Transit \cup {c}
           /\ UNCHANGED <<cutoff, policy.partitions, Inbox>>
    BY <1>2, ReleasePuts
  <2>2. Network!Put(c)
    BY <2>1 DEF Network!Put, NetworkCopies, Transit, Inbox, InboxOf
  <2>3. Network!Next
    BY <2>1, <2>2 DEF Network!Next, Transit
  <2> QED BY <2>3
<1>3. CASE Compile /\ ~Release
  BY <1>1, <1>3, OnlyReleaseDelivers, SameNetwork
<1>4. CASE Project
  BY <1>4, ProjectTicks DEF Network!Next
<1>5. CASE UNCHANGED vars
  <2>1. UNCHANGED <<messages, policy, cutoff>> /\ Delivered' = Delivered
    BY <1>5 DEF vars, inputs, Delivered
  <2> QED BY <1>1, <2>1, SameNetwork
<1> QED BY <1>2, <1>3, <1>4, <1>5 DEF Next

\* The schedule that was compiled beforehand shows every store, second by
\* second, what a network of links that close and buffer would have brought it.
THEOREM ScheduleIsNetwork == Spec => ImplementsNetwork
<1>1. Init => ArrivalInv /\ NotYet
  BY DEF Init, ArrivalInv, PassedOver, Delivered, NotYet
<1>2. Spec => []ArrivalInv
  BY <1>1, TypeCorrect, ArrivalStep, PTL DEF Spec
<1>3. Spec => []NotYet
  BY <1>1, NotYetStep, PTL DEF Spec
<1>4. Spec => [](TypeOK /\ OutcomeInv /\ Finite)
  BY ScheduledInOrder
<1> QED BY <1>2, <1>3, <1>4, NetworkInit, NetworkNext, PTL
        DEF Spec, ImplementsNetwork, Network!Spec
=============================================================================
