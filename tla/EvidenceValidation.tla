------------------------- MODULE EvidenceValidation -------------------------
(***************************************************************************)
(* validate_observation of Sprint 2: from the messages delivered by a      *)
(* cutoff to validated handoffs, in each of the three representations.     *)
(*                                                                         *)
(*   SL  sender and receiver sign a record each                            *)
(*   CR  the receiver's record also names the sender's                     *)
(*   PR  one receipt carries both signatures, and a child's receipt names  *)
(*       its parent's                                                      *)
(*                                                                         *)
(* A call reads the messages one by one, compares sequence numbers,        *)
(* judges every interaction it has a record of, and leaves the candidates  *)
(* to the loops of HandoffRelations, which are one step here.  Messages    *)
(* and interactions are taken in any order, where the code has one.        *)
(*                                                                         *)
(* An observer calls it again and again, with later cutoffs and more       *)
(* messages; the calls share nothing.                                      *)
(*                                                                         *)
(* The identifiers of records and receipts are hashes of all they contain: *)
(* here a record is its own identifier.                                    *)
(***************************************************************************)
EXTENDS Integers, FiniteSets

CONSTANTS
  Representations,  \* of the observers
  Messages,         \* what may be delivered to an observer of a representation
  Facts,            \* handoffs that happened, parents before children
  Interactions,     \* interaction ids
  None,             \* no parent, no record, no interaction
  Registry,         \* StoreRegistry: the principal and the roles of a store
  ClockSkew,        \* max_clock_skew_seconds
  MaxTime,          \* bound of the cutoffs
  MaxDelivered      \* bound of the number of messages

PayloadKind ==
  [SL |-> "SIGNED_ENDPOINT_RECORD", CR |-> "CROSS_REFERENCED_RECORD", PR |-> "RECEIPT"]

Roles == {"SENDER", "RECEIVER"}

\* A message's flaw is what parsing it or the key registry have against it.
Sound == "SOUND"
Flaws == {"MALFORMED_EVIDENCE", "UNKNOWN_SIGNER", "SIGNATURE_INVALID"}

\* What _validate_endpoint_record and _parse_p0_receipt make sure of.
HandoffFields ==
  {"interaction", "sender", "receiver", "sequence", "previous", "type", "created"}

HandoffFormed(h) == DOMAIN h = HandoffFields /\ h.created \in Nat

Decided(r) ==
  r.decision \in {"ACCEPT", "REJECT"} /\ r.decided \in Nat /\ r.decided >= r.handoff.created

EndpointRecordFormed(r) ==
  /\ HandoffFormed(r.handoff)
  /\ r.handoff.sender # r.handoff.receiver
  /\ r.handoff.previous \in Interactions \cup {None}
  /\ r.role \in Roles
  /\ IF r.role = "SENDER"
     THEN r.bound = None /\ r.decision = None /\ r.decided = None
     ELSE Decided(r)

ReceiptFormed(r) == HandoffFormed(r.handoff) /\ Decided(r)

ASSUME EvidenceAssumption ==
  /\ Representations \subseteq DOMAIN PayloadKind
  /\ None \notin Interactions
  /\ ClockSkew \in Nat /\ MaxTime \in Nat /\ MaxDelivered \in Nat
  /\ \A store \in DOMAIN Registry :
       Registry[store].roles \in SUBSET Roles \ {{}}
  /\ \A m \in UNION {Messages[r] : r \in Representations} :
       /\ m.flaw \in Flaws \cup {Sound}
       /\ m.sent \in 0 .. MaxTime
       /\ m.record.handoff.interaction \in Interactions /\ m.record # None
       /\ m.flaw # "MALFORMED_EVIDENCE" =>
            IF m.kind = "RECEIPT" THEN ReceiptFormed(m.record) ELSE EndpointRecordFormed(m.record)
  /\ \A f \in Facts :
       /\ f.handoff.interaction \in Interactions
       /\ f.handoff.previous = None \/
            \E g \in Facts : f.handoff.previous = g.handoff.interaction
       /\ \A g \in Facts : g.handoff.interaction = f.handoff.interaction => g = f
  \* Of some handoffs that happened one was the first.
  /\ \A F \in SUBSET Facts : F # {} =>
       \E f \in F : \A g \in F : f.handoff.previous # g.handoff.interaction

VARIABLES
  representation,  \* how the observer's evidence is represented
  cutoff,          \* the cutoff of the observation
  delivered,       \* the messages delivered by then
  phase,           \* where the call is
  unread,          \* messages not read yet
  records,         \* what was admitted: the aggregates' records
  violations,      \* profile_violation_interactions
  conflicts,       \* sequence_conflicts
  left,            \* interactions a loop still has to come to
  selected,        \* interactions of the selected receipts
  candidates,      \* the candidate under each interaction that has one
  invalid,         \* invalid_interactions
  issues,          \* what is reported
  validated,       \* the interactions of the validated handoffs
  last             \* what the report before this one said

callVars == <<unread, records, violations, conflicts, left, selected, candidates,
              invalid, issues, validated>>
vars == <<representation, cutoff, delivered, phase, callVars, last>>

Known == DOMAIN candidates
InteractionOf(r) == r.handoff.interaction
Issue(reason, interaction) == [reason |-> reason, interaction |-> interaction]

NoCandidates == [i \in {} |-> None]

Init ==
  /\ representation \in Representations
  /\ cutoff = 0
  /\ delivered = {}
  /\ phase = "idle"
  /\ unread = {} /\ records = {} /\ violations = {} /\ conflicts = {} /\ left = {}
  /\ selected = {} /\ candidates = NoCandidates /\ invalid = {} /\ issues = {}
  /\ validated = {}
  /\ last = [known |-> {}, convicted |-> {}]

-----------------------------------------------------------------------------
(***************************************************************************)
(* Observations.                                                           *)
(***************************************************************************)
Deliver(m) ==
  /\ phase = "idle"
  /\ m \notin delivered
  /\ m.sent <= cutoff
  /\ Cardinality(delivered) < MaxDelivered
  /\ delivered' = delivered \cup {m}
  /\ UNCHANGED <<representation, cutoff, phase, callVars, last>>

Wait ==
  /\ phase = "idle"
  /\ cutoff < MaxTime
  /\ cutoff' = cutoff + 1
  /\ UNCHANGED <<representation, delivered, phase, callVars, last>>

\* Handoffs in another representation are reported, and keep everything from
\* being validated; other kinds of messages are passed over.
ForeignHandoffs ==
  {m \in delivered : \E r \in DOMAIN PayloadKind \ {representation} : m.kind = PayloadKind[r]}

Begin ==
  /\ phase = "idle"
  /\ unread' = {m \in delivered : m.kind = PayloadKind[representation]}
  /\ issues' = {Issue(reason, None) : reason \in
                  {r \in {"PAYLOAD_KIND_MISMATCH"} : ForeignHandoffs # {}}
                    \cup {r \in {"EVIDENCE_MISSING"} : unread' = {}}}
  /\ phase' = "read"
  /\ UNCHANGED <<representation, cutoff, delivered, records, violations, conflicts, left,
                 selected, candidates, invalid, validated, last>>

-----------------------------------------------------------------------------
(***************************************************************************)
(* Admission of one message.                                               *)
(***************************************************************************)
Registered(store, principal, role) ==
  /\ store \in DOMAIN Registry
  /\ Registry[store].principal = principal
  /\ role \in Registry[store].roles

PartyIn(role, h) == IF role = "SENDER" THEN h.sender ELSE h.receiver

\* An endpoint record comes from a store of its holder.  A receipt comes from
\* a store of one of the parties, and it must be clear of which.
StoreBound(m) ==
  IF representation = "PR"
  THEN \E role \in Roles :
         /\ Registered(m.store, PartyIn(role, m.record.handoff), role)
         /\ \A other \in Roles \ {role} :
              ~Registered(m.store, PartyIn(other, m.record.handoff), other)
  ELSE Registered(m.store, PartyIn(m.record.role, m.record.handoff), m.record.role)

\* SL records refer to none, CR receivers to their sender's, and a receipt has
\* no nonce but its interaction.
InProfile(r) ==
  CASE representation = "SL" -> r.bound = None
    [] representation = "CR" -> r.role = "RECEIVER" => r.bound # None
    [] representation = "PR" -> r.nonce = InteractionOf(r)

HasDecision(r) == representation = "PR" \/ r.role = "RECEIVER"
Exceeds(time, reference) == time > reference + ClockSkew

\* No message says what has not happened when it is sent.
Premature(m) ==
  \/ Exceeds(m.record.handoff.created, m.sent)
  \/ HasDecision(m.record) /\ Exceeds(m.record.decided, m.sent)

Future(m) == HasDecision(m.record) /\ Exceeds(m.record.decided, cutoff)

\* The first thing that is found against a message.
Refusal(m) ==
  IF m.flaw # Sound THEN m.flaw
  ELSE IF ~StoreBound(m) THEN "STORE_BINDING_INVALID"
  ELSE IF ~InProfile(m.record) THEN "PROFILE_VIOLATION"
  ELSE IF Premature(m) THEN "TEMPORAL_INCONSISTENCY"
  ELSE IF Future(m) THEN "FUTURE_DECISION"
  ELSE Sound

Admit(m) ==
  /\ phase = "read"
  /\ m \in unread
  /\ Refusal(m) = Sound
  /\ unread' = unread \ {m}
  /\ records' = records \cup {m.record}
  /\ UNCHANGED <<representation, cutoff, delivered, phase, violations, conflicts, left,
                 selected, candidates, invalid, issues, validated, last>>

\* Mutant: a record that is out of the profile is dropped, and that is all.
RefuseAndForget(m) ==
  /\ phase = "read"
  /\ m \in unread
  /\ Refusal(m) # Sound
  /\ unread' = unread \ {m}
  /\ issues' = issues \cup
       {Issue(Refusal(m), IF Refusal(m) = "MALFORMED_EVIDENCE" THEN None
                                                               ELSE InteractionOf(m.record))}
  /\ UNCHANGED <<representation, cutoff, delivered, phase, records, violations, conflicts,
                 left, selected, candidates, invalid, validated, last>>

Refuse(m) ==
  /\ phase = "read"
  /\ m \in unread
  /\ Refusal(m) # Sound
  /\ unread' = unread \ {m}
  /\ issues' = issues \cup
       {Issue(Refusal(m), IF Refusal(m) = "MALFORMED_EVIDENCE" THEN None
                                                               ELSE InteractionOf(m.record))}
  /\ violations' = violations \cup
       {i \in {InteractionOf(m.record)} : Refusal(m) = "PROFILE_VIOLATION"}
  /\ UNCHANGED <<representation, cutoff, delivered, phase, records, conflicts, left,
                 selected, candidates, invalid, validated, last>>

-----------------------------------------------------------------------------
(***************************************************************************)
(* Judgement of what was admitted.                                         *)
(***************************************************************************)
\* Two interactions of one sender under one number.
SignedBySender(r) == representation = "PR" \/ r.role = "SENDER"
SameSequence(h, g) == h.sender = g.sender /\ h.sequence = g.sequence

SequenceConflicts ==
  {i \in Interactions :
     \E r, s \in {t \in records : SignedBySender(t)} :
       /\ InteractionOf(r) = i /\ InteractionOf(s) # i
       /\ SameSequence(r.handoff, s.handoff)}

CompareSequences ==
  /\ phase = "read"
  /\ unread = {}
  /\ conflicts' = SequenceConflicts
  /\ issues' = issues \cup {Issue("EQUIVOCATION", i) : i \in SequenceConflicts}
  /\ invalid' = violations
  /\ left' = {InteractionOf(r) : r \in records}
  /\ phase' = "judge"
  /\ UNCHANGED <<representation, cutoff, delivered, unread, records, violations, selected,
                 candidates, validated, last>>

RecordsOf(i) == {r \in records : InteractionOf(r) = i}
By(role, i) == {r \in RecordsOf(i) : r.role = role}

\* Mutant: of two records of a receiver one is as good as the other.
EndpointVerdictAnyReceiver(i) ==
  IF i \in violations THEN "PROFILE_VIOLATION"
  ELSE IF Cardinality(By("SENDER", i)) > 1 THEN "EQUIVOCATION"
  ELSE IF \E role \in Roles : By(role, i) = {} THEN "ENDPOINT_MISSING"
  ELSE IF i \in conflicts THEN "EQUIVOCATION"
  ELSE IF \E r, s \in RecordsOf(i) : r.handoff # s.handoff THEN "ENDPOINT_MISMATCH"
  ELSE IF representation = "CR" /\ \E r \in By("RECEIVER", i) : r.bound \notin By("SENDER", i)
       THEN "CROSS_REFERENCE_INVALID"
  ELSE Sound

\* What is found against an interaction, if anything.  A violation of the
\* profile and a sequence in conflict are reported already.
EndpointVerdict(i) ==
  IF i \in violations THEN "PROFILE_VIOLATION"
  ELSE IF \E role \in Roles : Cardinality(By(role, i)) > 1 THEN "EQUIVOCATION"
  ELSE IF \E role \in Roles : By(role, i) = {} THEN "ENDPOINT_MISSING"
  ELSE IF i \in conflicts THEN "EQUIVOCATION"
  ELSE IF \E r, s \in RecordsOf(i) : r.handoff # s.handoff THEN "ENDPOINT_MISMATCH"
  ELSE IF representation = "CR" /\ \E r \in By("RECEIVER", i) : r.bound \notin By("SENDER", i)
       THEN "CROSS_REFERENCE_INVALID"
  ELSE Sound

ReceiptVerdict(i) ==
  IF i \in violations THEN "PROFILE_VIOLATION"
  ELSE IF Cardinality(RecordsOf(i)) # 1 \/ i \in conflicts THEN "EQUIVOCATION"
  ELSE Sound

Verdict(i) == IF representation = "PR" THEN ReceiptVerdict(i) ELSE EndpointVerdict(i)

\* A handoff as the later stages see it.
Candidate(h, decision, decided) ==
  [previous |-> h.previous, type |-> h.type, sender |-> h.sender, receiver |-> h.receiver,
   created |-> h.created, decided |-> decided,
   faults |-> {f \in {"RECEIVER_REJECTED"} : decision = "REJECT"}]

AddCandidate(i, c) ==
  candidates' = [n \in Known \cup {i} |-> IF n = i THEN c ELSE candidates[n]]

Reject(i) ==
  /\ phase = "judge"
  /\ i \in left
  /\ Verdict(i) # Sound
  /\ left' = left \ {i}
  /\ invalid' = invalid \cup {i}
  /\ issues' = issues \cup {Issue(Verdict(i), i)}
  /\ UNCHANGED <<representation, cutoff, delivered, phase, unread, records, violations,
                 conflicts, selected, candidates, validated, last>>

\* Both endpoints have said the same.
Agree(i) ==
  /\ phase = "judge" /\ representation # "PR"
  /\ i \in left
  /\ Verdict(i) = Sound
  /\ left' = left \ {i}
  /\ \E r \in By("RECEIVER", i) : AddCandidate(i, Candidate(r.handoff, r.decision, r.decided))
  /\ UNCHANGED <<representation, cutoff, delivered, phase, unread, records, violations,
                 conflicts, selected, invalid, issues, validated, last>>

Select(i) ==
  /\ phase = "judge" /\ representation = "PR"
  /\ i \in left
  /\ Verdict(i) = Sound
  /\ left' = left \ {i}
  /\ selected' = selected \cup {i}
  /\ UNCHANGED <<representation, cutoff, delivered, phase, unread, records, violations,
                 conflicts, candidates, invalid, issues, validated, last>>

StartResolving ==
  /\ phase = "judge" /\ representation = "PR"
  /\ left = {}
  /\ left' = selected
  /\ phase' = "resolve"
  /\ UNCHANGED <<representation, cutoff, delivered, unread, records, violations, conflicts,
                 selected, candidates, invalid, issues, validated, last>>

-----------------------------------------------------------------------------
(***************************************************************************)
(* Receipts name their parents by receipt; candidates by interaction.      *)
(***************************************************************************)
ParentsOf(r) == {i \in selected : r.handoff.previous \in RecordsOf(i)}

\* A receipt between a principal and itself is well formed, but no handoff.
SelfHandoff(r) == r.handoff.sender = r.handoff.receiver

\* Mutant: the reference to the parent is left as it was encoded.
ResolveAsEncoded(i) ==
  /\ phase = "resolve"
  /\ i \in left
  /\ left' = left \ {i}
  /\ \E r \in RecordsOf(i) :
       /\ ~SelfHandoff(r)
       /\ ParentsOf(r) # {} \/ r.handoff.previous = None
       /\ AddCandidate(i, Candidate(r.handoff, r.decision, r.decided))
  /\ UNCHANGED <<representation, cutoff, delivered, phase, unread, records, violations,
                 conflicts, selected, invalid, issues, validated, last>>

Resolve(i) ==
  /\ phase = "resolve"
  /\ i \in left
  /\ left' = left \ {i}
  /\ \E r \in RecordsOf(i) :
       /\ ~SelfHandoff(r)
       /\ \E parent \in ParentsOf(r) \cup {p \in {None} : r.handoff.previous = None} :
            AddCandidate(i, Candidate([r.handoff EXCEPT !.previous = parent],
                                      r.decision, r.decided))
  /\ UNCHANGED <<representation, cutoff, delivered, phase, unread, records, violations,
                 conflicts, selected, invalid, issues, validated, last>>

Orphan(i) ==
  /\ phase = "resolve"
  /\ i \in left
  /\ left' = left \ {i}
  /\ \E r \in RecordsOf(i) :
       /\ r.handoff.previous # None /\ ParentsOf(r) = {}
       /\ issues' = issues \cup
            {Issue(IF r.handoff.previous \in records THEN "PARENT_INVALID"
                                                     ELSE "PARENT_MISSING", i)}
  /\ invalid' = invalid \cup {i}
  /\ UNCHANGED <<representation, cutoff, delivered, phase, unread, records, violations,
                 conflicts, selected, candidates, validated, last>>

\* NeutralHandoff.from_dict raises, and there is no report.
Raise(i) ==
  /\ phase = "resolve"
  /\ i \in left
  /\ \E r \in RecordsOf(i) :
       /\ SelfHandoff(r)
       /\ r.handoff.previous # None => ParentsOf(r) # {}
  /\ phase' = "raised"
  /\ UNCHANGED <<representation, cutoff, delivered, callVars, last>>

-----------------------------------------------------------------------------
(***************************************************************************)
(* The report.                                                             *)
(***************************************************************************)
Relations ==
  INSTANCE HandoffRelations
    WITH Handoffs <- {}, NoParent <- None, asked <- None, here <- None, path <- <<>>,
         finished <- {}, cycles <- {}, memo <- <<>>

\* _emit_validated, by what HandoffRelations shows of it: validated are the
\* well-founded candidates, and each of the others has one issue.
Emit ==
  /\ phase = IF representation = "PR" THEN "resolve" ELSE "judge"
  /\ left = {}
  /\ phase' = "reported"
  /\ \/ /\ Issue("PAYLOAD_KIND_MISMATCH", None) \in issues
        /\ UNCHANGED <<validated, issues>>
     \/ /\ Issue("PAYLOAD_KIND_MISMATCH", None) \notin issues
        /\ validated' = {i \in Known : Relations!WellFounded(i)}
        /\ issues' = issues \cup
             {Issue(Relations!Blame(i), i) : i \in {n \in Known : ~Relations!WellFounded(n)}}
  /\ UNCHANGED <<representation, cutoff, delivered, unread, records, violations, conflicts,
                 left, selected, candidates, invalid, last>>

\* What no later evidence can mend.
Final == {"EQUIVOCATION", "PROFILE_VIOLATION", "ENDPOINT_MISMATCH", "CROSS_REFERENCE_INVALID"}
Convicted == {i \in Interactions : \E reason \in Final : Issue(reason, i) \in issues}

\* The observer keeps the report, if there is one, and looks again later.
LookAgain ==
  /\ phase \in {"reported", "raised"}
  /\ last' = IF phase = "reported" THEN [known |-> Known, convicted |-> Convicted] ELSE last
  /\ phase' = "idle"
  /\ unread' = {} /\ records' = {} /\ violations' = {} /\ conflicts' = {} /\ left' = {}
  /\ selected' = {} /\ candidates' = NoCandidates /\ invalid' = {} /\ issues' = {}
  /\ validated' = {}
  /\ UNCHANGED <<representation, cutoff, delivered>>

Next ==
  \/ \E m \in Messages[representation] : Deliver(m) \/ Admit(m) \/ Refuse(m)
  \/ Wait \/ Begin \/ CompareSequences \/ StartResolving \/ Emit \/ LookAgain
  \/ \E i \in Interactions :
       Reject(i) \/ Agree(i) \/ Select(i) \/ Resolve(i) \/ Orphan(i) \/ Raise(i)

Spec == Init /\ [][Next]_vars
-----------------------------------------------------------------------------
(***************************************************************************)
(* Properties.                                                             *)
(***************************************************************************)
\* Authentic messages, and what they say by the cutoff.
Heard ==
  {m \in delivered : m.kind = PayloadKind[representation] /\ m.flaw = Sound /\ StoreBound(m)}
Statements == {m.record : m \in {n \in Heard :
                  InProfile(n.record) /\ ~Premature(n) /\ ~Future(n)}}
StatementsOn(i) == {r \in Statements : InteractionOf(r) = i}

\* Everybody concerned has said the same, and once; nothing was said out of
\* the profile, and the sender used the number for nothing else.
Undisputed(i) ==
  /\ IF representation = "PR"
     THEN \E r \in Statements : StatementsOn(i) = {r}
     ELSE \E s, r \in Statements :
            /\ StatementsOn(i) = {s, r}
            /\ s.role = "SENDER" /\ r.role = "RECEIVER" /\ s.handoff = r.handoff
            /\ representation = "CR" => r.bound = s
  /\ \A m \in Heard : InteractionOf(m.record) = i => InProfile(m.record)
  /\ \A r \in StatementsOn(i), s \in Statements :
       SignedBySender(s) /\ InteractionOf(s) # i => ~SameSequence(r.handoff, s.handoff)

\* A receipt counts with its parent's, which counts only if it is undisputed.
ParentHeard(i) ==
  representation = "PR" =>
    \A r \in StatementsOn(i) :
      \/ r.handoff.previous = None
      \/ \E p \in Interactions : Undisputed(p) /\ r.handoff.previous \in StatementsOn(p)

\* The handoff that is agreed on, with its parent by interaction.
AgreedOn(i) ==
  LET r == CHOOSE s \in StatementsOn(i) : HasDecision(s)
      receipt == representation = "PR" /\ r.handoff.previous # None
  IN  Candidate(IF receipt THEN [r.handoff EXCEPT !.previous = InteractionOf(@)] ELSE r.handoff,
                r.decision, r.decided)

Agreed == [i \in {j \in Interactions : Undisputed(j) /\ ParentHeard(j)} |-> AgreedOn(i)]

Among(graph) ==
  INSTANCE HandoffRelations
    WITH Handoffs <- {}, NoParent <- None, asked <- None, here <- None, path <- <<>>,
         finished <- {}, cycles <- {}, memo <- <<>>, candidates <- graph

Founded == {i \in DOMAIN Agreed : Among(Agreed)!WellFounded(i)}

\* Every message of a handoff is authentic, in the profile and in time, and
\* belongs to one that is agreed on and hangs together with the others.
NothingAmiss ==
  /\ ForeignHandoffs = {} /\ Heard # {}
  /\ \A m \in {n \in delivered : n.kind = PayloadKind[representation]} :
       /\ m \in Heard /\ ~Premature(m) /\ ~Future(m)
       /\ InteractionOf(m.record) \in Founded

\* Whatever the order of messages and loops, the candidates are the handoffs
\* the evidence agrees on, in its words: the normaliser never chooses between
\* statements, and what is not authentic neither helps nor harms.  Those that
\* hang together are validated, every other message of a handoff has left an
\* issue, and there is none without a cause.
ReportsTheEvidence ==
  phase = "reported" =>
    /\ candidates = Agreed
    /\ ForeignHandoffs = {} => validated = Founded
    /\ issues = {} <=> NothingAmiss
    /\ \A m \in delivered : m.kind = PayloadKind[representation] =>
         \/ m \in Heard /\ InteractionOf(m.record) \in validated
         \/ \E issue \in issues : issue.interaction = InteractionOf(m.record)
         \/ m.flaw = "MALFORMED_EVIDENCE" /\ Issue("MALFORMED_EVIDENCE", None) \in issues
         \/ Issue("PAYLOAD_KIND_MISMATCH", None) \in issues

\* More evidence and later cutoffs take a handoff out of the candidates only by
\* a conflict, of its own or of its parent's receipt; and what was in conflict
\* once is so in every later report, and never a candidate again.
OnlyConflictsUnmake ==
  phase = "reported" =>
    /\ last.convicted \subseteq Convicted \ Known
    /\ \A i \in last.known \ Known :
         \E reason \in {"EQUIVOCATION", "PROFILE_VIOLATION", "PARENT_INVALID"} :
           Issue(reason, i) \in issues

(***************************************************************************)
(* What honest parties sign for a handoff, in each representation.         *)
(***************************************************************************)
SenderRecord(f) ==
  [role |-> "SENDER", handoff |-> f.handoff, bound |-> None, decision |-> None,
   decided |-> None]

ReceiverRecord(f, bound) ==
  [role |-> "RECEIVER", handoff |-> f.handoff, bound |-> bound, decision |-> f.decision,
   decided |-> f.decided]

ReceiptOf[f \in Facts] ==
  LET parents == {g \in Facts : g.handoff.interaction = f.handoff.previous}
  IN  [handoff |-> [f.handoff EXCEPT !.previous = IF parents = {} THEN None
                                     ELSE ReceiptOf[CHOOSE g \in parents : TRUE]],
       nonce |-> f.handoff.interaction, decision |-> f.decision, decided |-> f.decided]

\* Mutant: the receiver's record never names the sender's.
PayloadUnbound(r, f, role) ==
  IF r = "PR" THEN ReceiptOf[f]
  ELSE IF role = "SENDER" THEN SenderRecord(f) ELSE ReceiverRecord(f, None)

\* What one of the parties holds of a handoff.
Payload(r, f, role) ==
  CASE r = "PR" -> ReceiptOf[f]
    [] r # "PR" /\ role = "SENDER" -> SenderRecord(f)
    [] r # "PR" /\ role = "RECEIVER" ->
         ReceiverRecord(f, IF r = "CR" THEN SenderRecord(f) ELSE None)

Encoding(r, f) == {Payload(r, f, role) : role \in Roles}

\* The representation makes no difference: if what the parties signed for some
\* handoffs, up to the roots and each under a number of its own, has been heard and
\* nothing else, the candidates are these handoffs, whatever else was delivered that
\* is not authentic or in time.
RepresentationsAgree ==
  phase = "reported" =>
    \A F \in SUBSET Facts :
      /\ \A f \in F : \/ f.handoff.previous = None
                      \/ \E g \in F : g.handoff.interaction = f.handoff.previous
      /\ \A f, g \in F : SameSequence(f.handoff, g.handoff) => f = g
      /\ Statements = UNION {Encoding(representation, f) : f \in F}
      /\ \A m \in Heard : InProfile(m.record)
      => /\ Known = {f.handoff.interaction : f \in F}
         /\ \A f \in F : candidates[f.handoff.interaction] =
                           Candidate(f.handoff, f.decision, f.decided)
=============================================================================
