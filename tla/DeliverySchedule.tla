-------------------------- MODULE DeliverySchedule --------------------------
(***************************************************************************)
(* Sprint 1 delivery: compile_schedule decides, before anything happens,   *)
(* which copies of which evidence messages arrive where and when;          *)
(* _delivered_for_store shows a store what has arrived by a cutoff, and    *)
(* unique_evidence keeps the first copy of each message.                   *)
(*                                                                         *)
(* Compilation is a sequential program.  One action is one turn of one of  *)
(* its three loops: over the messages, over the copies of a message, and   *)
(* over the partitions that hold a copy back, each of which may push it    *)
(* into the next.  The draws, hashes of a seed, are choices.  Once the     *)
(* schedule stands, the cutoff moves on second by second.                  *)
(***************************************************************************)
EXTENDS Integers, FiniteSets, SequencesExt

CONSTANTS
  Slots,        \* delivery slots, numbered in the order of their identifiers
  Stores,       \* evidence stores
  Batches,      \* what may be handed to compile_schedule: a message per slot
  Policies,     \* delivery policies
  OverrideSets, \* the overrides that may come with a batch
  Rank(_, _),   \* Rank(slot, copy): where the transmission id, a hash, sorts
  Horizon       \* the last cutoff asked for

VARIABLES
  messages,      \* one message for each of some slots
  policy,        \* delays, loss and duplicate outcomes, partitions, withheld
  overrides,     \* dispositions prescribed for single copies
  pc,            \* where the program is
  slot,          \* the message being scheduled
  copies,        \* copy_count of that message
  copy,          \* the copy being scheduled
  readyAt,       \* sent_at plus the delay of that copy
  candidate,     \* when that copy arrives, if no partition holds it
  rounds,        \* how often a partition has held it
  transmissions, \* the copies scheduled so far
  cutoff         \* the decision time or audit cutoff of the last projection

inputs == <<messages, policy, overrides>>
vars == <<inputs, pc, slot, copies, copy, readyAt, candidate, rounds,
          transmissions, cutoff>>

Links == [origin : Stores, destination : Stores]
Messages == [link : Links, sentAt : Nat]
Partitions ==
  {w \in [link : Links, startsAt : Nat, endsAt : Nat] : w.startsAt < w.endsAt}
Dispositions == {"DELIVER", "LOST", "WITHHELD"}
CopyIndices == 0 .. 7
Never == -1           \* delivered_at of a copy that is not delivered
Drawn == -1           \* delay_seconds of an override that leaves it to the draw

\* loses and duplicates hold the possible outcomes of the two draws: {FALSE}
\* for a rate of 0, {TRUE} for 1000000 parts per million, else both.
PolicyRecords ==
  {p \in [minDelay : Nat, maxDelay : Nat, loses : (SUBSET BOOLEAN) \ {{}},
          duplicates : (SUBSET BOOLEAN) \ {{}}, partitions : SUBSET Partitions,
          withheld : SUBSET Slots] :
     p.minDelay <= p.maxDelay /\ IsFiniteSet(p.partitions)}

Overrides ==
  {o \in [slot : Slots, copy : CopyIndices, disposition : Dispositions,
          delay : Nat \cup {Drawn}] : o.disposition # "DELIVER" => o.delay = Drawn}

ASSUME DeliveryAssumption ==
  /\ Slots \subseteq Nat \ {0}
  /\ Horizon \in Nat
  /\ \A b \in Batches : DOMAIN b \subseteq Slots /\ \A s \in DOMAIN b : b[s] \in Messages
  /\ \A p \in Policies : p \in PolicyRecords
  /\ \A O \in OverrideSets : O \subseteq Overrides /\ IsFiniteSet(O)
  \* A schedule in which two transmissions have one id is refused.
  /\ \A s, r \in Slots : \A c, d \in CopyIndices :
       Rank(s, c) \in Int /\ (Rank(s, c) = Rank(r, d) => s = r /\ c = d)

Init ==
  /\ messages \in Batches
  /\ policy \in Policies
  /\ overrides \in OverrideSets
  /\ pc = "CHECK"
  /\ slot = 0 /\ copies = 0 /\ copy = 0
  /\ readyAt = 0 /\ candidate = 0 /\ rounds = 0
  /\ transmissions = {}
  /\ cutoff = -1

\* ----- compile_schedule and _build_transmissions

Acceptable ==
  /\ \A o \in overrides : o.slot \in DOMAIN messages
  /\ \A o, q \in overrides : o.slot = q.slot /\ o.copy = q.copy => o = q
  /\ policy.withheld \subseteq DOMAIN messages

CheckInputs ==
  /\ pc = "CHECK"
  /\ pc' = IF Acceptable THEN "MESSAGE" ELSE "REFUSED"
  /\ UNCHANGED <<inputs, slot, copies, copy, readyAt, candidate, rounds,
                 transmissions, cutoff>>

OverridesOf(s) == {o \in overrides : o.slot = s}

\* Two copies if the draw says so, and more if an override speaks of one.
CopyCount(s, duplicate) ==
  Max({IF duplicate THEN 2 ELSE 1} \cup {o.copy + 1 : o \in OverridesOf(s)})

NextMessage(s) ==
  /\ pc = "MESSAGE"
  /\ s > slot
  /\ \A r \in DOMAIN messages : r > slot => s <= r
  /\ slot' = s
  /\ \E duplicate \in policy.duplicates : copies' = CopyCount(s, duplicate)
  /\ copy' = 0
  /\ pc' = "COPY"
  /\ UNCHANGED <<inputs, readyAt, candidate, rounds, transmissions, cutoff>>

Compiled ==
  /\ pc = "MESSAGE"
  /\ \A r \in DOMAIN messages : r <= slot
  /\ pc' = "COMPILED"
  /\ UNCHANGED <<inputs, slot, copies, copy, readyAt, candidate, rounds,
                 transmissions, cutoff>>

\* readyAt is kept for the properties; a ScheduledTransmission has no such field.
Transmission(disposition, ready, deliveredAt) ==
  [slot |-> slot, copy |-> copy, disposition |-> disposition,
   readyAt |-> ready, deliveredAt |-> deliveredAt]

Schedule(transmission) ==
  /\ transmissions' = transmissions \cup {transmission}
  /\ copy' = copy + 1
  /\ pc' = IF copy + 1 < copies THEN "COPY" ELSE "MESSAGE"
  /\ UNCHANGED <<inputs, slot, copies, readyAt, candidate, rounds, cutoff>>

\* The copy leaves sent_at plus a delay; partitions come next.
Depart(delays) ==
  /\ \E delay \in delays : readyAt' = messages[slot].sentAt + delay
  /\ candidate' = readyAt'
  /\ rounds' = 0
  /\ pc' = "PARTITION"
  /\ UNCHANGED <<inputs, slot, copies, copy, transmissions, cutoff>>

DrawnDelays == policy.minDelay .. policy.maxDelay
Withheld == slot \in policy.withheld
OverrideOfCopy == {o \in OverridesOf(slot) : o.copy = copy}

\* Withholding goes before an override of the same copy.
Withhold ==
  /\ pc = "COPY"
  /\ Withheld
  /\ Schedule(Transmission("WITHHELD", Never, Never))

\* Mutant: an override goes before withholding.
FollowOverrideFirst ==
  /\ pc = "COPY"
  /\ \E o \in OverrideOfCopy :
       \/ /\ o.disposition = "DELIVER"
          /\ Depart(IF o.delay = Drawn THEN DrawnDelays ELSE {o.delay})
       \/ /\ o.disposition # "DELIVER"
          /\ Schedule(Transmission(o.disposition, Never, Never))

FollowOverride ==
  /\ pc = "COPY"
  /\ ~Withheld
  /\ \E o \in OverrideOfCopy :
       \/ /\ o.disposition = "DELIVER"
          /\ Depart(IF o.delay = Drawn THEN DrawnDelays ELSE {o.delay})
       \/ /\ o.disposition # "DELIVER"
          /\ Schedule(Transmission(o.disposition, Never, Never))

DrawLoss ==
  /\ pc = "COPY"
  /\ ~Withheld
  /\ OverrideOfCopy = {}
  /\ \/ /\ TRUE \in policy.loses
        /\ Schedule(Transmission("LOST", Never, Never))
     \/ /\ FALSE \in policy.loses
        /\ Depart(DrawnDelays)

\* ----- _partition_release

Holds(w, link, t) == w.link = link /\ w.startsAt <= t /\ t < w.endsAt

Matches == {w \in policy.partitions : Holds(w, messages[slot].link, candidate)}

\* Held until the last of the matching partitions ends: there, the next may
\* have begun.  The code goes round at most once more than there are partitions
\* and then raises "partition release did not converge"; SettlesInTime says that
\* it never comes to that.
Hold ==
  /\ pc = "PARTITION"
  /\ \E w \in Matches :
       /\ \A v \in Matches : v.endsAt <= w.endsAt
       /\ candidate' = w.endsAt
  /\ rounds' = rounds + 1
  /\ UNCHANGED <<inputs, pc, slot, copies, copy, readyAt, transmissions, cutoff>>

Release ==
  /\ pc = "PARTITION"
  /\ Matches = {}
  /\ Schedule(Transmission("DELIVER", readyAt, candidate))

\* ----- project_local and project_audit

\* Mutant: sorted as the schedule is, by transmission id.
BeforeById(x, y) == Rank(x.slot, x.copy) < Rank(y.slot, y.copy)

Before(x, y) ==
  \/ x.deliveredAt < y.deliveredAt
  \/ x.deliveredAt = y.deliveredAt /\ Rank(x.slot, x.copy) < Rank(y.slot, y.copy)

Delivered == {x \in transmissions : x.disposition = "DELIVER"}

\* sorted(): each item has the place that those before it leave it.
InOrder(S) ==
  LET place(x) == Cardinality({y \in S : Before(y, x)}) + 1
  IN  [i \in 1 .. Cardinality(S) |-> CHOOSE x \in S : place(x) = i]

\* Mutant: what arrives at the cutoff itself comes too late.
DeliveredBefore(store, t) ==
  InOrder({x \in Delivered : /\ messages[x.slot].link.destination = store
                             /\ x.deliveredAt < t})

DeliveredForStore(store, t) ==
  InOrder({x \in Delivered : /\ messages[x.slot].link.destination = store
                             /\ x.deliveredAt <= t})

\* Mutant: a later copy replaces the first.
UniqueEvidenceLast(delivered) ==
  FoldLeft(LAMBDA result, x : Append(SelectSeq(result, LAMBDA y : y.slot # x.slot), x),
           <<>>, delivered)

\* A message is known by its slot: message_id is a hash of a body that names it,
\* and no two messages of a schedule share it.
UniqueEvidence(delivered) ==
  LET result[n \in 0 .. Len(delivered)] ==
        IF n = 0 THEN <<>>
        ELSE IF \E y \in Range(result[n - 1]) : y.slot = delivered[n].slot
             THEN result[n - 1]
             ELSE Append(result[n - 1], delivered[n])
  IN  result[Len(delivered)]

Project ==
  /\ pc = "COMPILED"
  /\ cutoff < Horizon
  /\ cutoff' = cutoff + 1
  /\ UNCHANGED <<inputs, pc, slot, copies, copy, readyAt, candidate, rounds,
                 transmissions>>

Compile ==
  \/ CheckInputs
  \/ \E s \in DOMAIN messages : NextMessage(s)
  \/ Compiled
  \/ Withhold \/ FollowOverride \/ DrawLoss
  \/ Hold \/ Release

Next == Compile \/ Project

Spec == Init /\ [][Next]_vars

\* ----- properties

TypeOK ==
  /\ messages \in Batches /\ policy \in Policies /\ overrides \in OverrideSets
  /\ pc \in {"CHECK", "REFUSED", "MESSAGE", "COPY", "PARTITION", "COMPILED"}
  /\ slot \in Slots \cup {0}
  /\ pc \in {"COPY", "PARTITION"} => slot \in DOMAIN messages
  /\ copies \in Nat /\ copy \in Nat /\ rounds \in Nat
  /\ readyAt \in Nat /\ candidate \in Nat
  /\ transmissions \subseteq
       [slot : DOMAIN messages, copy : Nat, disposition : Dispositions,
        readyAt : Nat \cup {Never}, deliveredAt : Nat \cup {Never}]
  /\ \A x \in Delivered : x.readyAt \in Nat /\ x.deliveredAt \in Nat
  /\ cutoff \in -1 .. Horizon

\* The search for a release time settles within the rounds _partition_release
\* grants itself, however its partitions overlap or follow on each other: the
\* error "partition release did not converge" cannot occur.
SettlesInTime == rounds <= Cardinality(policy.partitions)

\* A delivered copy arrives at the first instant from its departure on at which
\* no partition closes its link: every instant before lies in one.  Partitions
\* delay, they neither lose a copy nor hold it longer than they last.
ArrivesAtFirstFreeInstant ==
  \A x \in Delivered :
    LET closed(t) == \E w \in policy.partitions : Holds(w, messages[x.slot].link, t)
    IN  /\ x.deliveredAt >= x.readyAt
        /\ \A t \in x.readyAt .. x.deliveredAt - 1 : closed(t)
        /\ ~closed(x.deliveredAt)

\* A compiled schedule has an outcome for the copies 0 .. n of every message,
\* one each; it follows every override but for withheld messages, of which it
\* delivers nothing; and it has no copy beyond the second that no override asks
\* for.  A refused one has none.
EveryCopyOnce ==
  /\ pc = "REFUSED" => transmissions = {}
  /\ pc = "COMPILED" =>
       \A s \in DOMAIN messages :
         LET of == {x \in transmissions : x.slot = s}
         IN  /\ \E n \in CopyIndices :
                  /\ {x.copy : x \in of} = 0 .. n
                  /\ n > 1 => \E o \in overrides : o.slot = s /\ o.copy = n
             /\ \A x, y \in of : x.copy = y.copy => x = y
             /\ s \in policy.withheld => \A x \in of : x.disposition = "WITHHELD"
             /\ \A o \in OverridesOf(s) :
                  s \notin policy.withheld =>
                    \E x \in of :
                      /\ x.copy = o.copy /\ x.disposition = o.disposition
                      /\ o.delay # Drawn => x.readyAt = messages[s].sentAt + o.delay

\* What a store is shown by one cutoff is the beginning of what it is shown by
\* any later one, copies and unique evidence both: a later audit only adds at
\* the end to what a verifier decided on.
EarlierIsPrefix ==
  pc = "COMPILED" =>
    \A s \in Stores : \A t \in 0 .. Horizon - 1 :
      LET earlier == DeliveredForStore(s, t)
          later == DeliveredForStore(s, t + 1)
      IN  /\ IsPrefix(earlier, later)
          /\ IsPrefix(UniqueEvidence(earlier), UniqueEvidence(later))

\* Duplicates change nothing but the transport: the unique evidence has each
\* message of which a copy has arrived, once, with the copy that was first.
FirstCopyCounts ==
  pc = "COMPILED" =>
    \A s \in Stores :
      LET shown == DeliveredForStore(s, cutoff)
          kept == UniqueEvidence(shown)
      IN  /\ IsInjective([i \in DOMAIN kept |-> kept[i].slot])
          /\ \A x \in Range(shown) :
               \E y \in Range(kept) : y.slot = x.slot /\ y.deliveredAt <= x.deliveredAt

\* The schedule, with the cutoff for a clock, is a network of links that close
\* and open: each copy enters an inbox when the clock says so.
CopyOf(x) ==
  [slot |-> x.slot, copy |-> x.copy, readyAt |-> x.readyAt,
   link |-> messages[x.slot].link]

Network == INSTANCE BufferingNetwork WITH
  Windows <- UNION {p.partitions : p \in Policies},
  Copies <- [slot : Slots, copy : CopyIndices, readyAt : Nat, link : Links],
  now <- cutoff,
  closures <- policy.partitions,
  transit <- {CopyOf(x) : x \in {y \in Delivered : y.deliveredAt > cutoff}},
  inbox <- [s \in Stores |->
              [i \in DOMAIN DeliveredForStore(s, cutoff) |->
                 CopyOf(DeliveredForStore(s, cutoff)[i])]]

ImplementsNetwork == Network!Spec
=============================================================================
