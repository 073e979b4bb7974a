---------------------- MODULE EvidenceValidationProofs ----------------------
(***************************************************************************)
(* Theorems about EvidenceValidation, for any evidence, any number of      *)
(* observations and each of the representations.                           *)
(*                                                                         *)
(* The inductive invariant says of each phase of a call what has become of *)
(* the messages it has come to so far, as a function of the evidence: then *)
(* a report does not depend on the order of the loops.  What is said of a  *)
(* report is a lemma about that function.  LastInv goes from one call to   *)
(* the next: what a report has convicted is spoiled by statements that no  *)
(* later evidence takes back.                                              *)
(***************************************************************************)
EXTENDS EvidenceValidation, FiniteSetTheorems, TLAPS

(***************************************************************************)
(* What the messages delivered so far come to, whatever the order they are *)
(* read in.                                                                *)
(***************************************************************************)
Evidence == {m \in delivered : m.kind = PayloadKind[representation]}

Header ==
  {Issue(reason, None) : reason \in
     {r \in {"PAYLOAD_KIND_MISMATCH"} : ForeignHandoffs # {}}
       \cup {r \in {"EVIDENCE_MISSING"} : Evidence = {}}}

RefusalIssue(m) ==
  Issue(Refusal(m), IF Refusal(m) = "MALFORMED_EVIDENCE" THEN None ELSE InteractionOf(m.record))

Admitted(M) == {m.record : m \in {n \in M : Refusal(n) = Sound}}
Refused(M) == {RefusalIssue(m) : m \in {n \in M : Refusal(n) # Sound}}
Violating(M) ==
  {InteractionOf(m.record) : m \in {n \in M : Refusal(n) = "PROFILE_VIOLATION"}}

BaseInv ==
  /\ representation \in Representations
  /\ cutoff \in Nat
  /\ delivered \subseteq Messages[representation]
  /\ phase \in {"idle", "read", "judge", "resolve", "reported", "raised"}

-----------------------------------------------------------------------------
(***************************************************************************)
(* Facts about data.                                                       *)
(***************************************************************************)
LEMMA Sizes ==
  ASSUME NEW S, IsFiniteSet(S)
  PROVE  /\ Cardinality(S) > 1 <=> \E a, b \in S : a # b
         /\ Cardinality(S) = 1 <=> \E a \in S : S = {a}
<1>1. Cardinality(S) \in Nat
  BY FS_CardinalityType
<1>2. Cardinality(S) = 0 <=> S = {}
  BY FS_EmptySet
<1>3. Cardinality(S) = 1 <=> \E a : S = {a}
  BY FS_Singleton
<1>4. (\E a, b \in S : a # b) <=> (S # {} /\ ~\E a : S = {a})
  OBVIOUS
<1>5. Cardinality(S) > 1 <=> Cardinality(S) # 0 /\ Cardinality(S) # 1
  BY <1>1
<1> QED BY <1>2, <1>3, <1>4, <1>5

\* A message that is well formed, and what its record looks like then.
LEMMA Formed ==
  ASSUME BaseInv, NEW m \in delivered
  PROVE  /\ m.flaw \in Flaws \cup {Sound}
         /\ InteractionOf(m.record) \in Interactions /\ m.record # None
         /\ m.flaw = Sound /\ m.kind = PayloadKind[representation] =>
              /\ HandoffFormed(m.record.handoff)
              /\ representation # "PR" => m.record.role \in Roles
              /\ HasDecision(m.record) => m.record.decided \in Nat
<1>1. m \in UNION {Messages[r] : r \in Representations}
  BY DEF BaseInv
<1>2. representation \in {"SL", "CR", "PR"}
  BY EvidenceAssumption DEF BaseInv, PayloadKind
<1>3. ASSUME m.flaw = Sound, m.kind = PayloadKind[representation]
      PROVE  /\ HandoffFormed(m.record.handoff)
             /\ representation # "PR" => m.record.role \in Roles
             /\ HasDecision(m.record) => m.record.decided \in Nat
  <2>1. m.flaw # "MALFORMED_EVIDENCE"
    BY <1>3 DEF Sound
  <2>2. IF m.kind = "RECEIPT" THEN ReceiptFormed(m.record) ELSE EndpointRecordFormed(m.record)
    BY <1>1, <2>1, EvidenceAssumption
  <2>3. CASE representation = "PR"
    BY <1>3, <2>2, <2>3 DEF PayloadKind, ReceiptFormed, Decided
  <2>4. CASE representation # "PR"
    BY <1>2, <1>3, <2>2, <2>4
       DEF PayloadKind, EndpointRecordFormed, Decided, HasDecision, Roles
  <2> QED BY <2>3, <2>4
<1> QED BY <1>1, <1>3, EvidenceAssumption DEF InteractionOf

\* What becomes of a message depends on the message and the cutoff alone.
LEMMA Refusals ==
  ASSUME BaseInv, NEW m \in delivered
  PROVE  /\ Refusal(m) = Sound <=>
              m.flaw = Sound /\ StoreBound(m) /\ InProfile(m.record) /\ ~Premature(m) /\ ~Future(m)
         /\ Refusal(m) = "PROFILE_VIOLATION" <=>
              m.flaw = Sound /\ StoreBound(m) /\ ~InProfile(m.record)
         /\ Refusal(m) # "PAYLOAD_KIND_MISMATCH" /\ Refusal(m) \notin Final \ {"PROFILE_VIOLATION"}
         /\ Refusal(m) = "MALFORMED_EVIDENCE" => m.flaw = "MALFORMED_EVIDENCE"
  BY Formed DEF Refusal, Flaws, Sound, Final

\* The statements are what is admitted.
LEMMA AdmittedAreStatements ==
  ASSUME BaseInv PROVE Admitted(Evidence) = Statements
  BY Refusals DEF Admitted, Evidence, Statements, Heard

LEMMA FormedStatements ==
  ASSUME BaseInv, NEW r \in Statements
  PROVE  /\ InteractionOf(r) \in Interactions /\ r # None
         /\ DOMAIN r.handoff = HandoffFields
         /\ representation # "PR" => r.role \in Roles
  BY Formed DEF Statements, Heard, HandoffFormed

\* Out of the profile, in a message that is authentic.
LEMMA ViolatingEvidence ==
  ASSUME BaseInv
  PROVE  \A i : i \in Violating(Evidence) <=>
                  \E m \in Heard : InteractionOf(m.record) = i /\ ~InProfile(m.record)
  BY Refusals DEF Violating, Evidence, Heard

\* As long as nothing is delivered and no time passes, nothing of this changes.
LEMMA EvidenceStays ==
  ASSUME UNCHANGED <<representation, cutoff, delivered>>
  PROVE  /\ Evidence' = Evidence /\ Header' = Header
         /\ \A m : Refusal(m)' = Refusal(m) /\ RefusalIssue(m)' = RefusalIssue(m)
         /\ BaseInv /\ phase' \in {"idle", "read", "judge", "resolve", "reported", "raised"} => BaseInv'
<1>1. \A m : Refusal(m)' = Refusal(m)
  BY DEF Refusal, StoreBound, InProfile, Premature, Future, HasDecision
<1>2. Evidence' = Evidence /\ ForeignHandoffs' = ForeignHandoffs
  BY DEF Evidence, ForeignHandoffs
<1> QED BY <1>1, <1>2 DEF RefusalIssue, Header, BaseInv

LEMMA StatementsStay ==
  ASSUME UNCHANGED <<representation, cutoff, delivered>>
  PROVE  /\ Heard' = Heard /\ Statements' = Statements
         /\ \A M : Admitted(M)' = Admitted(M) /\ Refused(M)' = Refused(M) /\ Violating(M)' = Violating(M)
         /\ \A i : AgreedOn(i)' = AgreedOn(i)
<1>1. Heard' = Heard
  BY DEF Heard, StoreBound
<1>2. Statements' = Statements
  BY <1>1 DEF Statements, InProfile, Premature, Future, HasDecision
<1>3. \A i : AgreedOn(i)' = AgreedOn(i)
  BY <1>2 DEF AgreedOn, StatementsOn, HasDecision, Candidate
<1> QED BY <1>1, <1>2, <1>3, EvidenceStays DEF Admitted, Refused, Violating

-----------------------------------------------------------------------------
(***************************************************************************)
(* Admission: reading the messages and comparing sequence numbers.         *)
(***************************************************************************)
\* Nothing of a call is left.
Blank ==
  /\ conflicts = {} /\ left = {} /\ selected = {} /\ candidates = NoCandidates
  /\ validated = {}

IdleInv ==
  phase = "idle" => Blank /\ unread = {} /\ records = {} /\ violations = {}

Read == Evidence \ unread

ReadInv ==
  phase = "read" =>
    /\ Blank
    /\ unread \subseteq Evidence
    /\ records = Admitted(Read) /\ IsFiniteSet(records)
    /\ violations = Violating(Read)
    /\ issues = Header \cup Refused(Read)

AllRead ==
  /\ records = Statements /\ IsFiniteSet(records)
  /\ violations = Violating(Evidence)
  /\ conflicts = SequenceConflicts

Told == {InteractionOf(r) : r \in records}
Clean == {i \in Told : Verdict(i) = Sound}

FoundReading == Header \cup Refused(Evidence) \cup {Issue("EQUIVOCATION", i) : i \in conflicts}
Found(J) ==
  FoundReading \cup {Issue(Verdict(i), i) : i \in {j \in J : Verdict(j) # Sound}}

JudgeInv ==
  phase = "judge" =>
    /\ AllRead
    /\ left \subseteq Told
    /\ selected = {i \in Clean \ left : representation = "PR"}
    /\ candidates = [i \in {j \in Clean \ left : representation # "PR"} |-> AgreedOn(i)]
    /\ issues = Found(Told \ left)
    /\ validated = {}

LEMMA Empties ==
  /\ Admitted({}) = {} /\ Refused({}) = {} /\ Violating({}) = {}
  /\ \A M, m : /\ Admitted(M \cup {m}) = Admitted(M) \cup {r \in {m.record} : Refusal(m) = Sound}
               /\ Refused(M \cup {m}) = Refused(M) \cup {i \in {RefusalIssue(m)} : Refusal(m) # Sound}
               /\ Violating(M \cup {m}) = Violating(M) \cup
                    {i \in {InteractionOf(m.record)} : Refusal(m) = "PROFILE_VIOLATION"}
  BY Zenon DEF Admitted, Refused, Violating

LEMMA BeginRead == BaseInv /\ IdleInv /\ Begin => ReadInv'
<1> SUFFICES ASSUME BaseInv, IdleInv, Begin PROVE ReadInv'
  OBVIOUS
<1>1. UNCHANGED <<representation, cutoff, delivered>> /\ phase = "idle" /\ phase' = "read"
  BY DEF Begin
<1>2. Evidence' = Evidence /\ Header' = Header
  BY <1>1, EvidenceStays
<1>3. unread' = Evidence
  BY DEF Begin, Evidence
<1>4. issues' = Header
  BY <1>3 DEF Begin, Header
<1>5. Read' = {}
  BY <1>2, <1>3 DEF Read
<1>6. Blank' /\ records' = {} /\ violations' = {}
  BY <1>1 DEF IdleInv, Blank, Begin, NoCandidates
<1>7. Admitted(Read)' = {} /\ Refused(Read)' = {} /\ Violating(Read)' = {}
  BY <1>5 DEF Admitted, Refused, Violating
<1>8. IsFiniteSet(records')
  BY <1>6, FS_EmptySet
<1> QED BY <1>2, <1>3, <1>4, <1>6, <1>7, <1>8 DEF ReadInv

LEMMA ReadingGoesOn ==
  ASSUME BaseInv, ReadInv, NEW m \in Messages[representation], Admit(m) \/ Refuse(m)
  PROVE  ReadInv'
<1>1. /\ UNCHANGED <<representation, cutoff, delivered>> /\ phase = "read" /\ m \in unread
      /\ unread' = unread \ {m} /\ phase' = "read"
      /\ UNCHANGED <<conflicts, left, selected, candidates, validated>>
  BY DEF Admit, Refuse
<1>2. Evidence' = Evidence /\ Header' = Header
  BY <1>1, EvidenceStays
<1>3. m \in Evidence /\ unread \subseteq Evidence
  BY <1>1 DEF ReadInv
<1>4. Read' = Read \cup {m} /\ unread' \subseteq Evidence'
  BY <1>1, <1>2, <1>3 DEF Read
<1>5. /\ Admitted(Read)' = Admitted(Read \cup {m})
      /\ Refused(Read)' = Refused(Read \cup {m})
      /\ Violating(Read)' = Violating(Read \cup {m})
  BY <1>1, <1>4, EvidenceStays DEF Admitted, Refused, Violating
<1>6. Blank'
  BY <1>1 DEF ReadInv, Blank, NoCandidates
<1>7. m \in delivered
  BY <1>3 DEF Evidence
<1>8. /\ records' = records \cup {r \in {m.record} : Refusal(m) = Sound}
      /\ issues' = issues \cup {i \in {RefusalIssue(m)} : Refusal(m) # Sound}
      /\ violations' = violations \cup
           {i \in {InteractionOf(m.record)} : Refusal(m) = "PROFILE_VIOLATION"}
  <2>1. CASE Admit(m)
    BY <2>1 DEF Admit, Sound
  <2>2. CASE Refuse(m)
    BY <2>2 DEF Refuse, RefusalIssue
  <2> QED BY <2>1, <2>2
<1>9. IsFiniteSet(records')
  <2>1. records' = records \/ records' = records \cup {m.record}
    BY <1>8
  <2> QED BY <1>1, <2>1, FS_AddElement DEF ReadInv
<1>10. /\ records' = Admitted(Read)' /\ violations' = Violating(Read)'
       /\ issues' = Header' \cup Refused(Read)'
  BY <1>1, <1>2, <1>5, <1>8, Empties DEF ReadInv
<1> QED BY <1>4, <1>6, <1>9, <1>10 DEF ReadInv

LEMMA SequencesCompared == BaseInv /\ ReadInv /\ CompareSequences => JudgeInv'
<1> SUFFICES ASSUME BaseInv, ReadInv, CompareSequences PROVE JudgeInv'
  OBVIOUS
<1>1. /\ UNCHANGED <<representation, cutoff, delivered, records, violations, selected, candidates, validated>>
      /\ phase = "read" /\ unread = {} /\ phase' = "judge"
      /\ conflicts' = SequenceConflicts
      /\ issues' = issues \cup {Issue("EQUIVOCATION", i) : i \in SequenceConflicts}
      /\ left' = Told
  BY DEF CompareSequences, Told
<1>2. Read = Evidence
  BY <1>1 DEF Read
<1>3. /\ records = Statements /\ IsFiniteSet(records)
      /\ violations = Violating(Evidence) /\ issues = Header \cup Refused(Evidence)
      /\ Blank
  BY <1>1, <1>2, AdmittedAreStatements DEF ReadInv
<1>4. SequenceConflicts' = SequenceConflicts
  BY <1>1 DEF SequenceConflicts, SignedBySender
<1>5. /\ Evidence' = Evidence /\ Header' = Header /\ Statements' = Statements
      /\ Violating(Evidence)' = Violating(Evidence)
      /\ Refused(Evidence)' = Refused(Evidence)
  BY <1>1, EvidenceStays, StatementsStay DEF Violating, Refused
<1>6. AllRead'
  BY <1>1, <1>3, <1>4, <1>5 DEF AllRead
<1>7. Told' = Told
  BY <1>1 DEF Told
<1>8. issues' = FoundReading'
  BY <1>1, <1>3, <1>4, <1>5 DEF FoundReading
<1>9. Clean' \subseteq Told'
  BY DEF Clean
<1>10. issues' = Found(Told \ left)'
  BY <1>1, <1>7, <1>8 DEF Found
<1>11. selected' = {} /\ candidates' = NoCandidates /\ validated' = {}
  BY <1>1, <1>3 DEF Blank, NoCandidates
<1>12. (Clean \ left)' = {}
  BY <1>1, <1>7, <1>9
<1>13. candidates' = [i \in {j \in Clean \ left : representation # "PR"} |-> AgreedOn(i)]'
  BY <1>11, <1>12 DEF NoCandidates
<1> QED BY <1>1, <1>6, <1>7, <1>10, <1>11, <1>12, <1>13 DEF JudgeInv

-----------------------------------------------------------------------------
(***************************************************************************)
(* Judgement: a verdict is sound where the evidence is undisputed.         *)
(***************************************************************************)
LEMMA RecordsFound ==
  ASSUME AllRead, NEW i
  PROVE  /\ RecordsOf(i) = StatementsOn(i)
         /\ \A role : IsFiniteSet(By(role, i))
         /\ IsFiniteSet(RecordsOf(i))
<1>1. RecordsOf(i) \subseteq records /\ \A role : By(role, i) \subseteq records
  BY DEF RecordsOf, By
<1> QED BY <1>1, FS_Subset DEF AllRead, RecordsOf, StatementsOn

\* One number for two interactions.
LEMMA Conflicting ==
  ASSUME BaseInv, AllRead, NEW i
  PROVE  i \in conflicts <=>
           \E r, s \in Statements :
             /\ SignedBySender(r) /\ SignedBySender(s)
             /\ InteractionOf(r) = i /\ InteractionOf(s) # i
             /\ SameSequence(r.handoff, s.handoff)
  BY FormedStatements DEF AllRead, SequenceConflicts

\* What the verdict on the records of the endpoints comes to: none is found
\* where there is one record of each, and they agree.
LEMMA EndpointsSound ==
  ASSUME BaseInv, AllRead, representation # "PR", NEW i \in Told
  PROVE  Verdict(i) = Sound <=> Undisputed(i)
<1> DEFINE Senders == By("SENDER", i)
           Receivers == By("RECEIVER", i)
<1>1. /\ \A r \in RecordsOf(i) : r.role = "SENDER" \/ r.role = "RECEIVER"
      /\ \A r : r \in Senders <=> r \in RecordsOf(i) /\ r.role = "SENDER"
      /\ \A r : r \in Receivers <=> r \in RecordsOf(i) /\ r.role = "RECEIVER"
  BY FormedStatements, RecordsFound DEF By, Roles, StatementsOn
<1>2. /\ Cardinality(Senders) > 1 <=> \E a, b \in Senders : a # b
      /\ Cardinality(Receivers) > 1 <=> \E a, b \in Receivers : a # b
  BY RecordsFound, Sizes
<1>3. RecordsOf(i) = StatementsOn(i) /\ StatementsOn(i) \subseteq Statements
      /\ \A r \in StatementsOn(i) : InteractionOf(r) = i
  BY RecordsFound DEF StatementsOn
<1> DEFINE InOneWord ==
             \E s, r \in Statements :
               /\ StatementsOn(i) = {s, r}
               /\ s.role = "SENDER" /\ r.role = "RECEIVER" /\ s.handoff = r.handoff
               /\ representation = "CR" => r.bound = s
           Kept == \A m \in Heard : InteractionOf(m.record) = i => InProfile(m.record)
           Alone == \A r \in StatementsOn(i), s \in Statements :
                      SignedBySender(s) /\ InteractionOf(s) # i
                        => ~SameSequence(r.handoff, s.handoff)
<1>4. Undisputed(i) <=> InOneWord /\ Kept /\ Alone
  BY DEF Undisputed
<1>5. Kept <=> i \notin violations
  BY ViolatingEvidence DEF AllRead
<1>6. ASSUME InOneWord
      PROVE  i \in conflicts <=> ~Alone
  <2>1. PICK s, r \in Statements : StatementsOn(i) = {s, r} /\ s.role = "SENDER" /\ s.handoff = r.handoff
    BY <1>6
  <2>2. InteractionOf(s) = i /\ SignedBySender(s)
    BY <1>3, <2>1 DEF SignedBySender
  <2>3. \A t \in StatementsOn(i) : t.handoff = s.handoff
    BY <2>1
  <2> HIDE DEF InOneWord, Alone
  <2>4. ASSUME i \in conflicts PROVE ~Alone
    <3>1. PICK t, u \in Statements :
            /\ SignedBySender(u) /\ InteractionOf(t) = i /\ InteractionOf(u) # i
            /\ SameSequence(t.handoff, u.handoff)
      BY <2>4, Conflicting
    <3>2. t \in StatementsOn(i)
      BY <3>1 DEF StatementsOn
    <3> QED BY <3>1, <3>2 DEF Alone
  <2>5. ASSUME ~Alone PROVE i \in conflicts
    <3>1. PICK t \in StatementsOn(i), u \in Statements :
            SignedBySender(u) /\ InteractionOf(u) # i /\ SameSequence(t.handoff, u.handoff)
      BY <2>5 DEF Alone
    <3>2. SameSequence(s.handoff, u.handoff)
      BY <2>3, <3>1
    <3> QED BY <2>2, <3>1, <3>2, Conflicting
  <2> QED BY <2>4, <2>5
<1>7. Verdict(i) = EndpointVerdict(i)
  BY DEF Verdict
<1>8. Verdict(i) = Sound <=>
        /\ i \notin violations
        /\ ~(Cardinality(Senders) > 1) /\ ~(Cardinality(Receivers) > 1)
        /\ Senders # {} /\ Receivers # {}
        /\ i \notin conflicts
        /\ \A r, s \in RecordsOf(i) : r.handoff = s.handoff
        /\ representation = "CR" => \A r \in Receivers : r.bound \in Senders
  <2>1. (\E role \in Roles : Cardinality(By(role, i)) > 1)
          <=> Cardinality(Senders) > 1 \/ Cardinality(Receivers) > 1
    BY DEF Roles
  <2>2. (\E role \in Roles : By(role, i) = {}) <=> Senders = {} \/ Receivers = {}
    BY DEF Roles
  <2>3. (\E r \in By("RECEIVER", i) : r.bound \notin By("SENDER", i))
          <=> ~\A r \in Receivers : r.bound \in Senders
    OBVIOUS
  <2>4. (\E r, s \in RecordsOf(i) : r.handoff # s.handoff)
          <=> ~\A r, s \in RecordsOf(i) : r.handoff = s.handoff
    OBVIOUS
  <2> HIDE DEF Senders, Receivers
  <2> QED BY <1>7, <2>1, <2>2, <2>3, <2>4 DEF EndpointVerdict, Sound
<1> HIDE DEF Senders, Receivers, Kept, Alone
<1>9. ASSUME Verdict(i) = Sound PROVE InOneWord
  <2>1. PICK s \in Senders, r \in Receivers : TRUE
    BY <1>8, <1>9
  <2>2. Senders = {s} /\ Receivers = {r}
    BY <1>2, <1>8, <1>9, <2>1
  <2>3. s \in RecordsOf(i) /\ r \in RecordsOf(i) /\ s.role = "SENDER" /\ r.role = "RECEIVER"
    BY <1>1, <2>1
  <2>4. RecordsOf(i) = {s, r}
    BY <1>1, <2>2, <2>3
  <2>5. representation = "CR" => r.bound = s
    BY <1>8, <1>9, <2>2
  <2>6. s \in Statements /\ r \in Statements /\ StatementsOn(i) = {s, r} /\ s.handoff = r.handoff
    BY <1>3, <1>8, <1>9, <2>3, <2>4
  <2> QED BY <2>3, <2>5, <2>6
<1>10. ASSUME InOneWord
       PROVE  /\ ~(Cardinality(Senders) > 1) /\ ~(Cardinality(Receivers) > 1)
              /\ Senders # {} /\ Receivers # {}
              /\ \A r, s \in RecordsOf(i) : r.handoff = s.handoff
              /\ representation = "CR" => \A r \in Receivers : r.bound \in Senders
  <2>1. PICK s, r \in Statements :
          /\ StatementsOn(i) = {s, r}
          /\ s.role = "SENDER" /\ r.role = "RECEIVER" /\ s.handoff = r.handoff
          /\ representation = "CR" => r.bound = s
    BY <1>10
  <2> HIDE DEF InOneWord
  <2>2. Senders = {s} /\ Receivers = {r}
    BY <1>1, <1>3, <2>1
  <2> QED BY <1>2, <1>3, <2>1, <2>2
<1> HIDE DEF InOneWord
<1> QED BY <1>4, <1>5, <1>6, <1>8, <1>9, <1>10

LEMMA ReceiptsSound ==
  ASSUME BaseInv, AllRead, representation = "PR", NEW i \in Told
  PROVE  Verdict(i) = Sound <=> Undisputed(i)
<1>1. RecordsOf(i) = StatementsOn(i) /\ StatementsOn(i) \subseteq Statements
      /\ \A r \in StatementsOn(i) : InteractionOf(r) = i
  BY RecordsFound DEF StatementsOn
<1>2. Cardinality(RecordsOf(i)) = 1 <=> \E r \in Statements : StatementsOn(i) = {r}
  BY <1>1, RecordsFound, Sizes
<1>3. i \notin violations <=> \A m \in Heard : InteractionOf(m.record) = i => InProfile(m.record)
  BY ViolatingEvidence DEF AllRead
<1>4. i \notin conflicts <=>
        \A r \in StatementsOn(i), s \in Statements :
          SignedBySender(s) /\ InteractionOf(s) # i => ~SameSequence(r.handoff, s.handoff)
  BY Conflicting DEF StatementsOn, SignedBySender
<1>5. Verdict(i) = Sound <=>
        i \notin violations /\ Cardinality(RecordsOf(i)) = 1 /\ i \notin conflicts
  BY DEF Verdict, ReceiptVerdict, Sound
<1> QED BY <1>2, <1>3, <1>4, <1>5 DEF Undisputed

LEMMA CleanIsUndisputed ==
  ASSUME BaseInv, AllRead
  PROVE  Clean = {i \in Interactions : Undisputed(i)}
<1>1. Told \subseteq Interactions
  BY FormedStatements DEF Told, AllRead
<1>2. ASSUME NEW i, Undisputed(i) PROVE i \in Told
  <2>1. PICK r \in Statements : r \in StatementsOn(i)
    BY <1>2 DEF Undisputed
  <2> QED BY <2>1 DEF Told, AllRead, StatementsOn
<1> QED BY <1>1, <1>2, EndpointsSound, ReceiptsSound DEF Clean

\* The words that are agreed on.
LEMMA EndpointsAgree ==
  ASSUME BaseInv, AllRead, representation # "PR", NEW i \in Clean, NEW r \in By("RECEIVER", i)
  PROVE  AgreedOn(i) = Candidate(r.handoff, r.decision, r.decided)
<1>1. PICK s, t \in Statements : StatementsOn(i) = {s, t} /\ s.role = "SENDER" /\ t.role = "RECEIVER"
  BY CleanIsUndisputed DEF Undisputed
<1>2. r \in StatementsOn(i) /\ r.role = "RECEIVER"
  BY RecordsFound DEF By
<1>3. \A u \in StatementsOn(i) : HasDecision(u) <=> u = r
  BY <1>1, <1>2 DEF HasDecision
<1>4. (CHOOSE u \in StatementsOn(i) : HasDecision(u)) = r
  BY <1>2, <1>3
<1> QED BY <1>4 DEF AgreedOn

LEMMA OneReceipt ==
  ASSUME BaseInv, AllRead, representation = "PR", NEW i \in Clean
  PROVE  \E r \in Statements :
           /\ RecordsOf(i) = {r} /\ StatementsOn(i) = {r} /\ InteractionOf(r) = i
           /\ AgreedOn(i) =
                Candidate(IF r.handoff.previous # None
                            THEN [r.handoff EXCEPT !.previous = InteractionOf(r.handoff.previous)]
                            ELSE r.handoff, r.decision, r.decided)
<1>1. PICK r \in Statements : StatementsOn(i) = {r}
  BY CleanIsUndisputed DEF Undisputed
<1>2. (CHOOSE u \in StatementsOn(i) : HasDecision(u)) = r
  BY <1>1 DEF HasDecision
<1>3. InteractionOf(r) = i
  BY <1>1 DEF StatementsOn
<1>4. RecordsOf(i) = {r}
  BY <1>1, RecordsFound
<1>5. CASE r.handoff.previous = None
  <2>1. AgreedOn(i) = Candidate(r.handoff, r.decision, r.decided)
    BY <1>2, <1>5 DEF AgreedOn
  <2> QED BY <1>1, <1>3, <1>4, <1>5, <2>1
<1>6. CASE r.handoff.previous # None
  <2>1. AgreedOn(i) = Candidate([r.handoff EXCEPT !.previous = InteractionOf(r.handoff.previous)],
                                r.decision, r.decided)
    BY <1>2, <1>6 DEF AgreedOn
  <2> QED BY <1>1, <1>3, <1>4, <1>6, <2>1
<1> QED BY <1>5, <1>6

-----------------------------------------------------------------------------
(***************************************************************************)
(* The loops over the interactions, and over the selected receipts.        *)
(***************************************************************************)
Attached(i) ==
  \A r \in RecordsOf(i) :
    r.handoff.previous = None \/ \E p \in Clean : r.handoff.previous \in RecordsOf(p)

OrphanReason(i) ==
  IF \E r \in RecordsOf(i) : r.handoff.previous \in records THEN "PARENT_INVALID"
                                                            ELSE "PARENT_MISSING"

Orphans(J) ==
  {Issue(OrphanReason(i), i) : i \in {j \in J : representation = "PR" /\ ~Attached(j)}}

ResolveInv ==
  phase = "resolve" =>
    /\ AllRead /\ representation = "PR"
    /\ selected = Clean /\ left \subseteq Clean
    /\ candidates = [i \in {j \in Clean \ left : Attached(j)} |-> AgreedOn(i)]
    /\ issues = Found(Told) \cup Orphans(Clean \ left)
    /\ validated = {}

LEMMA CallStays ==
  ASSUME UNCHANGED <<representation, cutoff, delivered, records, violations, conflicts>>
  PROVE  /\ AllRead => AllRead'
         /\ Told' = Told /\ Clean' = Clean
         /\ \A i : Verdict(i)' = Verdict(i) /\ RecordsOf(i)' = RecordsOf(i)
         /\ \A J : Found(J)' = Found(J)
<1>1. /\ \A i : RecordsOf(i)' = RecordsOf(i)
      /\ \A role, i : By(role, i)' = By(role, i)
  BY DEF RecordsOf, By
<1>2. \A i : Verdict(i)' = Verdict(i)
  BY <1>1 DEF Verdict, ReceiptVerdict, EndpointVerdict
<1>3. Told' = Told /\ Clean' = Clean
  BY <1>2 DEF Told, Clean
<1>4. SequenceConflicts' = SequenceConflicts
  BY DEF SequenceConflicts, SignedBySender
<1>5. /\ Evidence' = Evidence /\ Header' = Header /\ Statements' = Statements
      /\ Violating(Evidence)' = Violating(Evidence)
      /\ Refused(Evidence)' = Refused(Evidence)
  BY EvidenceStays, StatementsStay DEF Violating, Refused
<1>6. AllRead => AllRead'
  BY <1>4, <1>5 DEF AllRead
<1>7. FoundReading' = FoundReading
  BY <1>5 DEF FoundReading
<1>8. \A J : Found(J)' = Found(J)
  BY <1>2, <1>7 DEF Found
<1> QED BY <1>1, <1>2, <1>3, <1>6, <1>8

LEMMA OrphansStay ==
  ASSUME UNCHANGED <<representation, cutoff, delivered, records, violations, conflicts>>
  PROVE  /\ \A i : Attached(i)' = Attached(i) /\ OrphanReason(i)' = OrphanReason(i)
         /\ \A J : Orphans(J)' = Orphans(J)
<1>1. \A i : (Attached(i)' <=> Attached(i)) /\ OrphanReason(i)' = OrphanReason(i)
  BY CallStays DEF Attached, OrphanReason
<1> QED BY <1>1 DEF Orphans, Attached

\* A candidate more.
LEMMA CandidateAdded ==
  ASSUME NEW S, candidates = [n \in S |-> AgreedOn(n)], NEW i, AddCandidate(i, AgreedOn(i))
  PROVE  candidates' = [n \in S \cup {i} |-> AgreedOn(n)]
  BY DEF AddCandidate, Known

\* A verdict more, if anything was found.
LEMMA VerdictGiven ==
  ASSUME NEW J, NEW i
  PROVE  /\ Verdict(i) = Sound => Found(J \cup {i}) = Found(J)
         /\ Verdict(i) # Sound => Found(J \cup {i}) = Found(J) \cup {Issue(Verdict(i), i)}
<1>1. Verdict(i) = Sound => {j \in J \cup {i} : Verdict(j) # Sound} = {j \in J : Verdict(j) # Sound}
  OBVIOUS
<1>2. Verdict(i) # Sound =>
        {j \in J \cup {i} : Verdict(j) # Sound} = {j \in J : Verdict(j) # Sound} \cup {i}
  OBVIOUS
<1> QED BY <1>1, <1>2 DEF Found

LEMMA Rejecting ==
  ASSUME BaseInv, JudgeInv, NEW i \in Interactions, Reject(i)
  PROVE  JudgeInv'
<1>1. /\ UNCHANGED <<representation, cutoff, delivered, records, violations, conflicts, selected,
                     candidates, validated>>
      /\ phase = "judge" /\ phase' = "judge" /\ i \in left /\ left' = left \ {i}
      /\ Verdict(i) # Sound /\ issues' = issues \cup {Issue(Verdict(i), i)}
  BY DEF Reject
<1>2. AllRead /\ i \in Told /\ left \subseteq Told
  BY <1>1 DEF JudgeInv
<1>3. Clean \ (left \ {i}) = Clean \ left /\ Told \ (left \ {i}) = (Told \ left) \cup {i}
  BY <1>1, <1>2 DEF Clean
<1>4. issues' = Found(Told \ left)'
  BY <1>1, <1>3, CallStays, VerdictGiven DEF JudgeInv
<1>5. (Clean \ left)' = Clean \ left
  BY <1>1, <1>3, CallStays
<1>6. candidates' = [n \in {j \in Clean \ left : representation # "PR"} |-> AgreedOn(n)]'
  BY <1>1, <1>5, StatementsStay DEF JudgeInv
<1> QED BY <1>1, <1>2, <1>4, <1>5, <1>6, CallStays DEF JudgeInv

LEMMA Agreeing ==
  ASSUME BaseInv, JudgeInv, NEW i \in Interactions, Agree(i)
  PROVE  JudgeInv'
<1>1. /\ UNCHANGED <<representation, cutoff, delivered, records, violations, conflicts, selected,
                     issues, validated>>
      /\ phase = "judge" /\ phase' = "judge" /\ representation # "PR"
      /\ i \in left /\ left' = left \ {i} /\ Verdict(i) = Sound
  BY DEF Agree
<1>2. AllRead /\ i \in Clean /\ left \subseteq Told
  BY <1>1 DEF JudgeInv, Clean
<1>3. Clean \ (left \ {i}) = (Clean \ left) \cup {i} /\ Told \ (left \ {i}) = (Told \ left) \cup {i}
  BY <1>1, <1>2 DEF Clean
<1>4. PICK r \in By("RECEIVER", i) : AddCandidate(i, Candidate(r.handoff, r.decision, r.decided))
  BY DEF Agree
<1>5. AddCandidate(i, AgreedOn(i))
  BY <1>1, <1>2, <1>4, EndpointsAgree
<1> DEFINE Done == {j \in Clean \ left : representation # "PR"}
<1>6. candidates = [n \in Done |-> AgreedOn(n)]
  BY <1>1 DEF JudgeInv
<1>7. {j \in Clean \ left : representation # "PR"}' = Done \cup {i}
  BY <1>1, <1>3, CallStays
<1> HIDE DEF Done
<1>8. candidates' = [n \in Done \cup {i} |-> AgreedOn(n)]
  BY <1>5, <1>6, CandidateAdded
<1>9. candidates' = [n \in {j \in Clean \ left : representation # "PR"} |-> AgreedOn(n)]'
  BY <1>1, <1>7, <1>8, StatementsStay
<1>10. issues' = Found(Told \ left)'
  <2>1. (Told \ left)' = (Told \ left) \cup {i}
    BY <1>1, <1>3, CallStays
  <2>2. Found((Told \ left) \cup {i}) = Found(Told \ left)
    BY <1>1, VerdictGiven
  <2> QED BY <1>1, <2>1, <2>2, CallStays DEF JudgeInv
<1>11. selected' = {n \in (Clean \ left)' : representation' = "PR"}
  BY <1>1 DEF JudgeInv
<1> QED BY <1>1, <1>2, <1>9, <1>10, <1>11, CallStays DEF JudgeInv

LEMMA Selecting ==
  ASSUME BaseInv, JudgeInv, NEW i \in Interactions, Select(i)
  PROVE  JudgeInv'
<1>1. /\ UNCHANGED <<representation, cutoff, delivered, records, violations, conflicts, candidates,
                     issues, validated>>
      /\ phase = "judge" /\ phase' = "judge" /\ representation = "PR"
      /\ i \in left /\ left' = left \ {i} /\ Verdict(i) = Sound
      /\ selected' = selected \cup {i}
  BY DEF Select
<1>2. AllRead /\ i \in Clean /\ left \subseteq Told
  BY <1>1 DEF JudgeInv, Clean
<1>3. Clean \ (left \ {i}) = (Clean \ left) \cup {i} /\ Told \ (left \ {i}) = (Told \ left) \cup {i}
  BY <1>1, <1>2 DEF Clean
<1>4. (Clean \ left)' = (Clean \ left) \cup {i}
  BY <1>1, <1>3, CallStays
<1>5. selected' = {n \in (Clean \ left)' : representation' = "PR"}
  BY <1>1, <1>4 DEF JudgeInv
<1>6. candidates' = [n \in {j \in Clean \ left : representation # "PR"} |-> AgreedOn(n)]'
  <2>1. {j \in Clean \ left : representation # "PR"} = {}
    BY <1>1
  <2>2. {j \in Clean \ left : representation # "PR"}' = {}
    BY <1>1
  <2> QED BY <1>1, <2>1, <2>2 DEF JudgeInv
<1>7. issues' = Found(Told \ left)'
  <2>1. (Told \ left)' = (Told \ left) \cup {i}
    BY <1>1, <1>3, CallStays
  <2>2. Found((Told \ left) \cup {i}) = Found(Told \ left)
    BY <1>1, VerdictGiven
  <2> QED BY <1>1, <2>1, <2>2, CallStays DEF JudgeInv
<1> QED BY <1>1, <1>2, <1>5, <1>6, <1>7, CallStays DEF JudgeInv

LEMMA ResolvingStarts == BaseInv /\ JudgeInv /\ StartResolving => ResolveInv'
<1> SUFFICES ASSUME BaseInv, JudgeInv, StartResolving PROVE ResolveInv'
  OBVIOUS
<1>1. /\ UNCHANGED <<representation, cutoff, delivered, records, violations, conflicts, selected,
                     candidates, issues, validated>>
      /\ phase = "judge" /\ phase' = "resolve" /\ representation = "PR"
      /\ left = {} /\ left' = selected
  BY DEF StartResolving
<1>2. /\ AllRead /\ selected = Clean /\ issues = Found(Told) /\ validated = {}
      /\ candidates = [i \in {} |-> AgreedOn(i)]
  <2>1. Clean \ left = Clean /\ Told \ left = Told
    BY <1>1
  <2>2. {j \in Clean \ left : representation # "PR"} = {}
    BY <1>1
  <2> QED BY <1>1, <2>1, <2>2 DEF JudgeInv
<1>3. (Clean \ left)' = {}
  BY <1>1, <1>2, CallStays
<1>4. Orphans(Clean \ left)' = {}
  BY <1>3 DEF Orphans
<1>5. candidates' = [i \in {j \in Clean \ left : Attached(j)} |-> AgreedOn(i)]'
  BY <1>1, <1>2, <1>3
<1> QED BY <1>1, <1>2, <1>4, <1>5, CallStays DEF ResolveInv

\* What a selected receipt is attached to.
LEMMA Parents ==
  ASSUME BaseInv, AllRead, representation = "PR", selected = Clean, NEW i \in Clean,
         NEW r \in RecordsOf(i)
  PROVE  /\ Attached(i) <=> r.handoff.previous = None \/ ParentsOf(r) # {}
         /\ \A p \in ParentsOf(r) : p = InteractionOf(r.handoff.previous)
         /\ r.handoff.previous = None => ParentsOf(r) = {}
         /\ OrphanReason(i) = IF r.handoff.previous \in records THEN "PARENT_INVALID"
                                                                ELSE "PARENT_MISSING"
<1>1. RecordsOf(i) = {r}
  BY OneReceipt
<1>2. \A p \in ParentsOf(r) : r.handoff.previous \in records /\ p = InteractionOf(r.handoff.previous)
  BY DEF ParentsOf, RecordsOf
<1>3. None \notin records
  BY FormedStatements DEF AllRead
<1>4. Attached(i) <=> r.handoff.previous = None \/ ParentsOf(r) # {}
  BY <1>1 DEF Attached, ParentsOf
<1> QED BY <1>1, <1>2, <1>3, <1>4 DEF OrphanReason

LEMMA Resolving ==
  ASSUME BaseInv, ResolveInv, NEW i \in Interactions, Resolve(i)
  PROVE  ResolveInv'
<1>1. /\ UNCHANGED <<representation, cutoff, delivered, records, violations, conflicts, selected,
                     issues, validated>>
      /\ phase = "resolve" /\ phase' = "resolve" /\ i \in left /\ left' = left \ {i}
  BY DEF Resolve
<1> DEFINE Possible(r) == ParentsOf(r) \cup {p \in {None} : r.handoff.previous = None}
           Added(r, p) ==
             AddCandidate(i, Candidate([r.handoff EXCEPT !.previous = p], r.decision, r.decided))
<1>0. PICK r \in RecordsOf(i) : \E p \in Possible(r) : Added(r, p)
  BY DEF Resolve
<1>2. PICK parent \in Possible(r) : Added(r, parent)
  BY <1>0
<1>3. AllRead /\ representation = "PR" /\ selected = Clean /\ i \in Clean /\ left \subseteq Clean
  BY <1>1 DEF ResolveInv
<1>4. PICK s \in Statements :
        /\ RecordsOf(i) = {s}
        /\ AgreedOn(i) =
             Candidate(IF s.handoff.previous # None
                         THEN [s.handoff EXCEPT !.previous = InteractionOf(s.handoff.previous)]
                         ELSE s.handoff, s.decision, s.decided)
  BY <1>3, OneReceipt
<1>5. r = s /\ DOMAIN r.handoff = HandoffFields
  BY <1>2, <1>4, FormedStatements
<1>6. Attached(i)
  BY <1>2, <1>3, Parents
<1>7. Candidate([r.handoff EXCEPT !.previous = parent], r.decision, r.decided) = AgreedOn(i)
  <2>1. CASE r.handoff.previous # None
    <3>1. parent = InteractionOf(r.handoff.previous)
      BY <1>2, <1>3, <2>1, Parents
    <3> QED BY <1>4, <1>5, <2>1, <3>1
  <2>2. CASE r.handoff.previous = None
    <3>1. parent = None
      BY <1>2, <1>3, <2>2, Parents
    <3>2. AgreedOn(i) = Candidate(r.handoff, r.decision, r.decided)
      BY <1>4, <1>5, <2>2
    <3> QED BY <1>5, <2>2, <3>1, <3>2 DEF Candidate, HandoffFields
  <2> QED BY <2>1, <2>2
<1>8. AddCandidate(i, AgreedOn(i))
  BY <1>2, <1>7
<1> DEFINE Done == {j \in Clean \ left : Attached(j)}
<1>9. candidates = [n \in Done |-> AgreedOn(n)]
  BY <1>1 DEF ResolveInv
<1>10. {j \in Clean \ (left \ {i}) : Attached(j)} = Done \cup {i}
  BY <1>1, <1>3, <1>6
<1> HIDE DEF Done
<1>11. candidates' = [n \in Done \cup {i} |-> AgreedOn(n)]
  BY <1>8, <1>9, CandidateAdded
<1>12. {j \in Clean \ left : Attached(j)}' = Done \cup {i}
  BY <1>1, <1>10, CallStays, OrphansStay
<1>13. candidates' = [n \in {j \in Clean \ left : Attached(j)} |-> AgreedOn(n)]'
  BY <1>1, <1>11, <1>12, StatementsStay
<1>14. Orphans(Clean \ left)' = Orphans(Clean \ left)
  <2>1. (Clean \ left)' = (Clean \ left) \cup {i}
    BY <1>1, <1>3, CallStays
  <2>2. Orphans((Clean \ left) \cup {i}) = Orphans(Clean \ left)
    BY <1>6 DEF Orphans
  <2> QED BY <1>1, <2>1, <2>2, OrphansStay
<1> QED BY <1>1, <1>3, <1>13, <1>14, CallStays DEF ResolveInv

LEMMA Orphaning ==
  ASSUME BaseInv, ResolveInv, NEW i \in Interactions, Orphan(i)
  PROVE  ResolveInv'
<1>1. /\ UNCHANGED <<representation, cutoff, delivered, records, violations, conflicts, selected,
                     candidates, validated>>
      /\ phase = "resolve" /\ phase' = "resolve" /\ i \in left /\ left' = left \ {i}
  BY DEF Orphan
<1>2. PICK r \in RecordsOf(i) :
        /\ r.handoff.previous # None /\ ParentsOf(r) = {}
        /\ issues' = issues \cup {Issue(IF r.handoff.previous \in records THEN "PARENT_INVALID"
                                                                          ELSE "PARENT_MISSING", i)}
  BY DEF Orphan
<1>3. AllRead /\ representation = "PR" /\ selected = Clean /\ i \in Clean /\ left \subseteq Clean
  BY <1>1 DEF ResolveInv
<1>4. ~Attached(i) /\ issues' = issues \cup {Issue(OrphanReason(i), i)}
  BY <1>2, <1>3, Parents
<1>5. (Clean \ left)' = (Clean \ left) \cup {i}
  BY <1>1, <1>3, CallStays
<1>6. Orphans((Clean \ left) \cup {i}) = Orphans(Clean \ left) \cup {Issue(OrphanReason(i), i)}
  BY <1>3, <1>4 DEF Orphans
<1>7. Orphans(Clean \ left)' = Orphans(Clean \ left) \cup {Issue(OrphanReason(i), i)}
  BY <1>1, <1>5, <1>6, OrphansStay
<1>8. {j \in Clean \ left : Attached(j)}' = {j \in Clean \ left : Attached(j)}
  BY <1>1, <1>4, <1>5, OrphansStay
<1>9. candidates' = [n \in {j \in Clean \ left : Attached(j)} |-> AgreedOn(n)]'
  BY <1>1, <1>8, StatementsStay DEF ResolveInv
<1>10. issues' = Found(Told)' \cup Orphans(Clean \ left)'
  BY <1>1, <1>4, <1>7, CallStays DEF ResolveInv
<1> QED BY <1>1, <1>3, <1>9, <1>10, CallStays DEF ResolveInv

-----------------------------------------------------------------------------
(***************************************************************************)
(* The report.                                                             *)
(***************************************************************************)
Rightful == {i \in Clean : representation = "PR" => Attached(i)}
Complaints == Found(Told) \cup Orphans(Clean)
Unfounded == {n \in Known : ~Relations!WellFounded(n)}

ReportInv ==
  phase = "reported" =>
    /\ AllRead
    /\ candidates = [i \in Rightful |-> AgreedOn(i)]
    /\ ForeignHandoffs # {} => issues = Complaints
    /\ ForeignHandoffs = {} =>
         /\ validated = Known \ Unfounded
         /\ issues = Complaints \cup {Issue(Relations!Blame(i), i) : i \in Unfounded}

\* What a complaint is about.
LEMMA Complaining ==
  ASSUME NEW reason, NEW i
  PROVE  Issue(reason, i) \in Complaints <=>
           \/ Issue(reason, i) \in Header
           \/ \E m \in Evidence : Refusal(m) # Sound /\ Issue(reason, i) = RefusalIssue(m)
           \/ reason = "EQUIVOCATION" /\ i \in conflicts
           \/ i \in Told /\ Verdict(i) # Sound /\ reason = Verdict(i)
           \/ /\ i \in Clean /\ representation = "PR" /\ ~Attached(i)
              /\ reason = OrphanReason(i)
<1>1. \A j, other : Issue(reason, i) = Issue(other, j) <=> reason = other /\ i = j
  BY DEF Issue
<1>2. Issue(reason, i) \in {Issue("EQUIVOCATION", j) : j \in conflicts}
        <=> reason = "EQUIVOCATION" /\ i \in conflicts
  BY <1>1
<1>3. Issue(reason, i) \in {Issue(Verdict(j), j) : j \in {k \in Told : Verdict(k) # Sound}}
        <=> i \in Told /\ Verdict(i) # Sound /\ reason = Verdict(i)
  BY <1>1
<1>4. Issue(reason, i) \in Orphans(Clean)
        <=> i \in Clean /\ representation = "PR" /\ ~Attached(i) /\ reason = OrphanReason(i)
  BY <1>1 DEF Orphans
<1>5. Issue(reason, i) \in Refused(Evidence)
        <=> \E m \in Evidence : Refusal(m) # Sound /\ Issue(reason, i) = RefusalIssue(m)
  BY DEF Refused
<1> QED BY <1>2, <1>3, <1>4, <1>5 DEF Complaints, Found, FoundReading

LEMMA Reasons ==
  ASSUME NEW i
  PROVE  /\ Verdict(i) \in Final \cup {"ENDPOINT_MISSING", Sound}
         /\ OrphanReason(i) \in {"PARENT_INVALID", "PARENT_MISSING"}
  BY DEF Verdict, ReceiptVerdict, EndpointVerdict, OrphanReason, Final

LEMMA ForeignReported ==
  ASSUME BaseInv
  PROVE  Issue("PAYLOAD_KIND_MISMATCH", None) \in Complaints <=> ForeignHandoffs # {}
<1>1. \A r, s, i, j : Issue(r, i) = Issue(s, j) => r = s
  BY DEF Issue
<1>2. Issue("PAYLOAD_KIND_MISMATCH", None) \in Header <=> ForeignHandoffs # {}
  BY <1>1 DEF Header
<1>3. \A m \in Evidence : Issue("PAYLOAD_KIND_MISMATCH", None) # RefusalIssue(m)
  BY <1>1, Refusals DEF RefusalIssue, Evidence
<1>4. /\ \A i : Verdict(i) # "PAYLOAD_KIND_MISMATCH" \/ Verdict(i) = Sound
      /\ \A i : OrphanReason(i) # "PAYLOAD_KIND_MISMATCH"
  BY Reasons DEF Final
<1> QED BY <1>2, <1>3, <1>4, Complaining

LEMMA RelationsStay ==
  ASSUME UNCHANGED <<candidates, invalid>>
  PROVE  \A i : /\ Relations!Blame(i)' = Relations!Blame(i)
                /\ Relations!WellFounded(i)' <=> Relations!WellFounded(i)
<1>1. \A i : Relations!Circular(i)' <=> Relations!Circular(i)
  BY DEF Relations!Circular, Relations!Known, Relations!Parent
<1>2. \A i : Relations!WellFounded(i)' <=> Relations!WellFounded(i)
  BY <1>1 DEF Relations!WellFounded, Relations!Known, Relations!Parent
<1>3. \A i : Relations!Blame(i)' = Relations!Blame(i)
  BY <1>1, <1>2 DEF Relations!Blame, Relations!Known, Relations!Parent
<1> QED BY <1>2, <1>3

LEMMA ReportStays ==
  ASSUME ReportInv, phase = "reported",
         UNCHANGED <<representation, cutoff, delivered, records, violations, conflicts, candidates,
                     invalid, issues, validated>>
  PROVE  ReportInv'
<1>1. Rightful' = Rightful /\ Complaints' = Complaints
  BY CallStays, OrphansStay DEF Rightful, Complaints
<1>2. Known' = Known /\ ForeignHandoffs' = ForeignHandoffs
  BY DEF Known, ForeignHandoffs
<1>3. Unfounded' = Unfounded
  BY <1>2, RelationsStay DEF Unfounded
<1>4. AllRead'
  BY CallStays DEF ReportInv
<1>5. candidates' = [i \in Rightful |-> AgreedOn(i)]'
  BY <1>1, StatementsStay DEF ReportInv
<1>6. {Issue(Relations!Blame(i), i) : i \in Unfounded}' = {Issue(Relations!Blame(i), i) : i \in Unfounded}
  BY <1>3, RelationsStay
<1> QED BY <1>1, <1>2, <1>3, <1>4, <1>5, <1>6 DEF ReportInv

LEMMA Emitting == BaseInv /\ JudgeInv /\ ResolveInv /\ Emit => ReportInv'
<1> SUFFICES ASSUME BaseInv, JudgeInv, ResolveInv, Emit PROVE ReportInv'
  OBVIOUS
<1>1. /\ UNCHANGED <<representation, cutoff, delivered, records, violations, conflicts, selected,
                     candidates, invalid>>
      /\ phase' = "reported" /\ left = {}
      /\ phase = IF representation = "PR" THEN "resolve" ELSE "judge"
  BY DEF Emit
<1>2. AllRead /\ candidates = [i \in Rightful |-> AgreedOn(i)] /\ issues = Complaints
  <2>1. CASE representation = "PR"
    <3>1. Clean \ left = Clean /\ {j \in Clean \ left : Attached(j)} = Rightful
      BY <1>1, <2>1 DEF Rightful
    <3> QED BY <1>1, <2>1, <3>1 DEF ResolveInv, Complaints
  <2>2. CASE representation # "PR"
    <3>1. Told \ left = Told /\ {j \in Clean \ left : representation # "PR"} = Rightful
      BY <1>1, <2>2 DEF Rightful
    <3>2. Orphans(Clean) = {}
      BY <2>2 DEF Orphans
    <3> QED BY <1>1, <2>2, <3>1, <3>2 DEF JudgeInv, Complaints
  <2> QED BY <2>1, <2>2
<1>3. /\ AllRead' /\ Rightful' = Rightful /\ Complaints' = Complaints
      /\ ForeignHandoffs' = ForeignHandoffs /\ Unfounded' = Unfounded
  <2>1. Rightful' = Rightful
    BY <1>1, CallStays, OrphansStay DEF Rightful
  <2>2. Complaints' = Complaints
    BY <1>1, CallStays, OrphansStay DEF Complaints
  <2>3. Unfounded' = Unfounded
    BY <1>1, RelationsStay DEF Unfounded, Known
  <2> QED BY <1>1, <1>2, <2>1, <2>2, <2>3, CallStays DEF ForeignHandoffs
<1>4. candidates' = [i \in Rightful |-> AgreedOn(i)]'
  BY <1>1, <1>2, <1>3, StatementsStay
<1>5. CASE ForeignHandoffs # {}
  BY <1>2, <1>3, <1>4, <1>5, ForeignReported DEF Emit, ReportInv
<1>6. CASE ForeignHandoffs = {}
  <2>1. /\ validated' = {i \in Known : Relations!WellFounded(i)}
        /\ issues' = issues \cup
             {Issue(Relations!Blame(i), i) : i \in {n \in Known : ~Relations!WellFounded(n)}}
    BY <1>2, <1>6, ForeignReported DEF Emit
  <2>2. Known' = Known
    BY <1>1 DEF Known
  <2>3. validated' = (Known \ Unfounded)'
    BY <1>3, <2>1, <2>2 DEF Unfounded
  <2>4. issues' = (Complaints \cup {Issue(Relations!Blame(i), i) : i \in Unfounded})'
    BY <1>1, <1>2, <1>3, <2>1, RelationsStay DEF Unfounded
  <2> QED BY <1>3, <1>4, <1>6, <2>3, <2>4 DEF ReportInv
<1> QED BY <1>5, <1>6

-----------------------------------------------------------------------------
(***************************************************************************)
(* The report says what the evidence does.                                 *)
(***************************************************************************)
LEMMA RightfulAgreed ==
  ASSUME BaseInv, AllRead, candidates = [i \in Rightful |-> AgreedOn(i)]
  PROVE  candidates = Agreed /\ Known = Rightful
<1>1. Clean = {i \in Interactions : Undisputed(i)}
  BY CleanIsUndisputed
<1>2. ASSUME representation = "PR", NEW i PROVE Attached(i) <=> ParentHeard(i)
  <2>1. \A p : RecordsOf(p) = StatementsOn(p)
    BY RecordsFound
  <2> QED BY <1>1, <1>2, <2>1 DEF Attached, ParentHeard
<1>3. representation # "PR" => \A i : ParentHeard(i)
  BY DEF ParentHeard
<1>4. Rightful = {i \in Interactions : Undisputed(i) /\ ParentHeard(i)}
  BY <1>1, <1>2, <1>3 DEF Rightful
<1> QED BY <1>4 DEF Agreed, Known

LEMMA FoundedAmong ==
  ASSUME candidates = Agreed
  PROVE  Founded = Known \ Unfounded
<1>1. \A i : Among(Agreed)!Circular(i) <=> Relations!Circular(i)
  BY DEF Among!Circular, Among!Known, Among!Parent,
         Relations!Circular, Relations!Known, Relations!Parent
<1>2. \A i : Among(Agreed)!WellFounded(i) <=> Relations!WellFounded(i)
  BY <1>1 DEF Among!WellFounded, Among!Known, Among!Parent, Among!HangsOn,
              Relations!WellFounded, Relations!Known, Relations!Parent, Relations!HangsOn
<1> QED BY <1>2 DEF Founded, Unfounded, Known

\* Nothing is complained of when all is well, ...
LEMMA NothingToSay ==
  ASSUME BaseInv, AllRead, Clean = {i \in Interactions : Undisputed(i)},
         Known = Rightful, Founded = Known \ Unfounded, NothingAmiss
  PROVE  Complaints = {} /\ Unfounded = {}
<1>1. /\ ForeignHandoffs = {} /\ Heard # {}
      /\ \A m \in Evidence : /\ m \in Heard /\ ~Premature(m) /\ ~Future(m)
                             /\ InteractionOf(m.record) \in Founded
  BY DEF NothingAmiss, Evidence
<1>2. Founded \subseteq Known /\ Known \subseteq Clean /\ Clean \subseteq Told
  BY DEF Rightful, Clean
<1>3. Header = {}
  BY <1>1 DEF Header, Heard, Evidence
<1>4. \A m \in Evidence : Refusal(m) = Sound
  <2>1. \A m \in Evidence : m \in delivered /\ InteractionOf(m.record) \in Clean
    BY <1>1, <1>2 DEF Evidence
  <2>2. \A m \in Evidence : InProfile(m.record)
    BY <1>1, <2>1 DEF Undisputed
  <2> QED BY <1>1, <2>1, <2>2, Refusals DEF Heard
<1>5. Told \subseteq Founded
  <2>1. \A r \in records : \E m \in Evidence : r = m.record
    BY DEF AllRead, Statements, Heard, Evidence
  <2> QED BY <1>1, <2>1 DEF Told
<1>6. \A i \in Told : Verdict(i) = Sound /\ i \in Clean
  BY <1>2, <1>5 DEF Clean
<1>7. conflicts = {}
  <2>1. ASSUME NEW i \in conflicts PROVE FALSE
    <3>1. PICK r, s \in Statements :
            /\ SignedBySender(s) /\ InteractionOf(r) = i /\ InteractionOf(s) # i
            /\ SameSequence(r.handoff, s.handoff)
      BY Conflicting
    <3>2. i \in Told /\ r \in StatementsOn(i)
      BY <3>1 DEF Told, AllRead, StatementsOn
    <3> QED BY <1>6, <3>1, <3>2 DEF Undisputed
  <2> QED BY <2>1
<1>8. Unfounded = {}
  BY <1>2, <1>5 DEF Unfounded
<1>9. Orphans(Clean) = {}
  BY <1>2, <1>5 DEF Orphans, Rightful
<1>10. Found(Told) = {}
  BY <1>3, <1>4, <1>6, <1>7 DEF Found, FoundReading, Refused
<1> QED BY <1>8, <1>9, <1>10 DEF Complaints

\* ... and when nothing is complained of, all is well.
LEMMA NothingSaid ==
  ASSUME BaseInv, AllRead, Known = Rightful, Founded = Known \ Unfounded,
         Complaints = {}, Unfounded = {}
  PROVE  NothingAmiss
<1>1. /\ \A r, i : Issue(r, i) \notin Header
      /\ \A m \in Evidence : Refusal(m) = Sound
      /\ \A i \in Told : Verdict(i) = Sound
      /\ \A i \in Clean : representation = "PR" => Attached(i)
  <2>1. \A r, i : Issue(r, i) \notin Complaints
    OBVIOUS
  <2>2. \A m \in Evidence : \E r, i : RefusalIssue(m) = Issue(r, i)
    BY DEF RefusalIssue
  <2> QED BY <2>1, <2>2, Complaining
<1>2. ForeignHandoffs = {} /\ Evidence # {}
  BY <1>1 DEF Header
<1>3. Told = Founded
  BY <1>1 DEF Clean, Rightful
<1>4. ASSUME NEW m \in Evidence
      PROVE  m \in Heard /\ ~Premature(m) /\ ~Future(m) /\ InteractionOf(m.record) \in Founded
  <2>1. m \in delivered /\ m.kind = PayloadKind[representation]
    BY DEF Evidence
  <2>2. m \in Heard /\ InProfile(m.record) /\ ~Premature(m) /\ ~Future(m)
    BY <1>1, <2>1, Refusals DEF Heard
  <2>3. m.record \in records
    BY <2>2 DEF AllRead, Statements
  <2> QED BY <1>3, <2>2, <2>3 DEF Told
<1> QED BY <1>2, <1>4 DEF NothingAmiss, Evidence

LEMMA EveryMessageAnswered ==
  ASSUME BaseInv, AllRead, Known = Rightful, NEW m \in Evidence
  PROVE  \/ m \in Heard /\ InteractionOf(m.record) \in Known
         \/ \E issue \in Complaints : issue.interaction = InteractionOf(m.record)
         \/ m.flaw = "MALFORMED_EVIDENCE" /\ Issue("MALFORMED_EVIDENCE", None) \in Complaints
<1> DEFINE i == InteractionOf(m.record)
<1>1. m \in delivered /\ m.kind = PayloadKind[representation]
  BY DEF Evidence
<1>2. \A r, j : Issue(r, j).interaction = j
  BY DEF Issue
<1>3. CASE Refusal(m) # Sound
  <2>1. RefusalIssue(m) \in Complaints
    BY <1>3 DEF Complaints, Found, FoundReading, Refused
  <2>2. CASE Refusal(m) = "MALFORMED_EVIDENCE"
    BY <1>1, <2>1, <2>2, Refusals DEF RefusalIssue
  <2>3. CASE Refusal(m) # "MALFORMED_EVIDENCE"
    BY <1>2, <2>1, <2>3 DEF RefusalIssue
  <2> QED BY <2>2, <2>3
<1>4. CASE Refusal(m) = Sound
  <2>1. m \in Heard /\ i \in Told
    BY <1>1, <1>4, Refusals DEF Heard, Told, AllRead, Statements
  <2>2. CASE i \in Known
    BY <2>1, <2>2
  <2>3. CASE i \notin Known
    <3>1. \E r : Issue(r, i) \in Complaints
      BY <2>1, <2>3, Complaining DEF Rightful, Clean
    <3> QED BY <1>2, <3>1
  <2> QED BY <2>2, <2>3
<1> QED BY <1>3, <1>4

LEMMA ReportIsRight == BaseInv /\ ReportInv => ReportsTheEvidence
<1> SUFFICES ASSUME BaseInv, ReportInv, phase = "reported"
             PROVE  /\ candidates = Agreed
                    /\ ForeignHandoffs = {} => validated = Founded
                    /\ issues = {} <=> NothingAmiss
                    /\ \A m \in delivered : m.kind = PayloadKind[representation] =>
                         \/ m \in Heard /\ InteractionOf(m.record) \in validated
                         \/ \E issue \in issues : issue.interaction = InteractionOf(m.record)
                         \/ m.flaw = "MALFORMED_EVIDENCE" /\ Issue("MALFORMED_EVIDENCE", None) \in issues
                         \/ Issue("PAYLOAD_KIND_MISMATCH", None) \in issues
  BY DEF ReportsTheEvidence
<1>1. /\ AllRead /\ candidates = Agreed /\ Known = Rightful
      /\ Clean = {i \in Interactions : Undisputed(i)}
      /\ Founded = Known \ Unfounded
  BY RightfulAgreed, FoundedAmong, CleanIsUndisputed DEF ReportInv
<1>2. ForeignHandoffs # {} => issues = Complaints
  BY DEF ReportInv
<1>3. ForeignHandoffs = {} =>
        /\ validated = Known \ Unfounded
        /\ issues = Complaints \cup {Issue(Relations!Blame(i), i) : i \in Unfounded}
  BY DEF ReportInv
<1>4. ForeignHandoffs # {} => Issue("PAYLOAD_KIND_MISMATCH", None) \in issues
  BY <1>2, ForeignReported
<1>5. issues = {} <=> NothingAmiss
  <2>1. ASSUME NothingAmiss PROVE issues = {}
    <3>1. ForeignHandoffs = {} /\ Complaints = {} /\ Unfounded = {}
      BY <1>1, <2>1, NothingToSay DEF NothingAmiss
    <3> QED BY <1>3, <3>1
  <2>2. ASSUME issues = {} PROVE NothingAmiss
    <3>1. ForeignHandoffs = {}
      BY <1>4, <2>2
    <3>2. Complaints = {} /\ Unfounded = {}
      BY <1>3, <2>2, <3>1
    <3> QED BY <1>1, <3>2, NothingSaid
  <2> QED BY <2>1, <2>2
<1>6. ASSUME NEW m \in delivered, m.kind = PayloadKind[representation], ForeignHandoffs = {}
      PROVE  \/ m \in Heard /\ InteractionOf(m.record) \in validated
             \/ \E issue \in issues : issue.interaction = InteractionOf(m.record)
             \/ m.flaw = "MALFORMED_EVIDENCE" /\ Issue("MALFORMED_EVIDENCE", None) \in issues
  <2>1. m \in Evidence
    BY <1>6 DEF Evidence
  <2>2. Complaints \subseteq issues
    BY <1>3, <1>6
  <2>3. ASSUME InteractionOf(m.record) \in Unfounded
        PROVE  \E issue \in issues : issue.interaction = InteractionOf(m.record)
    <3>1. Issue(Relations!Blame(InteractionOf(m.record)), InteractionOf(m.record)) \in issues
      BY <1>3, <1>6, <2>3
    <3> QED BY <3>1 DEF Issue
  <2> QED BY <1>1, <1>3, <1>6, <2>1, <2>2, <2>3, EveryMessageAnswered
<1> QED BY <1>1, <1>3, <1>4, <1>5, <1>6

-----------------------------------------------------------------------------
(***************************************************************************)
(* What a report convicts, and what it keeps.                              *)
(***************************************************************************)
\* Statements that cannot both be meant, for a handoff that happened.
Opposed(r, s) ==
  IF representation = "PR" THEN r # s
  ELSE \/ r.role = s.role /\ r # s
       \/ r.handoff # s.handoff
       \/ representation = "CR" /\ r.role = "RECEIVER" /\ s.role = "SENDER" /\ r.bound # s

\* What no later evidence can mend, in terms of what was heard.
Spoiled(i) ==
  \/ \E m \in Heard : InteractionOf(m.record) = i /\ ~InProfile(m.record)
  \/ \E r, s \in Statements :
       /\ SignedBySender(r) /\ SignedBySender(s)
       /\ InteractionOf(r) = i /\ InteractionOf(s) # i
       /\ SameSequence(r.handoff, s.handoff)
  \/ \E r, s \in StatementsOn(i) : Opposed(r, s)

\* What made it a candidate: later evidence does not take it away.
Said(i) ==
  IF representation = "PR"
  THEN \E r \in StatementsOn(i) : r.handoff.previous \in Statements \cup {None}
  ELSE \E s, r \in StatementsOn(i) :
         /\ s.role = "SENDER" /\ r.role = "RECEIVER" /\ s.handoff = r.handoff
         /\ representation = "CR" => r.bound = s

LastInv ==
  /\ \A i \in last.convicted : i \in Interactions /\ Spoiled(i)
  /\ \A i \in last.known : i \in Interactions /\ Said(i)

\* An opposition shows in the verdict.
LEMMA OpposedVerdict ==
  ASSUME BaseInv, AllRead, NEW i
  PROVE  /\ (\E r, s \in StatementsOn(i) : Opposed(r, s)) => i \in Told /\ Verdict(i) \in Final
         /\ i \in Told /\ Verdict(i) \in Final => Spoiled(i)
<1>1. RecordsOf(i) = StatementsOn(i) /\ \A r \in StatementsOn(i) : r \in Statements /\ InteractionOf(r) = i
  BY RecordsFound DEF StatementsOn
<1>2. (\E r \in StatementsOn(i) : TRUE) <=> i \in Told
  BY <1>1 DEF Told, AllRead, StatementsOn
<1>3. i \in violations <=> \E m \in Heard : InteractionOf(m.record) = i /\ ~InProfile(m.record)
  BY ViolatingEvidence DEF AllRead
<1>4. CASE representation = "PR"
  <2>1. Cardinality(RecordsOf(i)) = 1 <=> \E r \in RecordsOf(i) : RecordsOf(i) = {r}
    BY RecordsFound, Sizes
  <2>2. (\E r, s \in StatementsOn(i) : Opposed(r, s)) <=> i \in Told /\ Cardinality(RecordsOf(i)) # 1
    BY <1>1, <1>2, <1>4, <2>1 DEF Opposed
  <2>3. /\ Verdict(i) \in Final <=>
             i \in violations \/ Cardinality(RecordsOf(i)) # 1 \/ i \in conflicts
    BY <1>4 DEF Verdict, ReceiptVerdict, Final, Sound
  <2> QED BY <1>3, <2>2, <2>3, Conflicting DEF Spoiled
<1>5. CASE representation # "PR"
  <2> DEFINE Senders == By("SENDER", i)
             Receivers == By("RECEIVER", i)
             Twice == Cardinality(Senders) > 1 \/ Cardinality(Receivers) > 1
             Differ == \E r, s \in RecordsOf(i) : r.handoff # s.handoff
             Unbound == representation = "CR" /\ \E r \in Receivers : r.bound \notin Senders
  <2>1. /\ \A r \in RecordsOf(i) : r.role = "SENDER" \/ r.role = "RECEIVER"
        /\ \A r : r \in Senders <=> r \in RecordsOf(i) /\ r.role = "SENDER"
        /\ \A r : r \in Receivers <=> r \in RecordsOf(i) /\ r.role = "RECEIVER"
    BY <1>5, FormedStatements, RecordsFound DEF By, Roles, StatementsOn
  <2>2. Twice <=> (\E a, b \in Senders : a # b) \/ (\E a, b \in Receivers : a # b)
    BY RecordsFound, Sizes
  <2>3. (\E role \in Roles : Cardinality(By(role, i)) > 1) <=> Twice
    BY DEF Roles
  <2>4. (\E role \in Roles : By(role, i) = {}) <=> Senders = {} \/ Receivers = {}
    BY DEF Roles
  <2> HIDE DEF Senders, Receivers, Twice
  <2>5. Verdict(i) \in Final <=>
          \/ i \in violations
          \/ Twice
          \/ Senders # {} /\ Receivers # {} /\ (i \in conflicts \/ Differ \/ Unbound)
    <3>1. Verdict(i) = EndpointVerdict(i)
      BY <1>5 DEF Verdict
    <3>2. Unbound <=> representation = "CR" /\ \E r \in By("RECEIVER", i) : r.bound \notin By("SENDER", i)
      BY DEF Senders, Receivers
    <3> HIDE DEF Unbound, Differ
    <3>3. Differ <=> \E r, s \in RecordsOf(i) : r.handoff # s.handoff
      BY DEF Differ
    <3> QED BY <3>1, <3>2, <3>3, <2>3, <2>4 DEF EndpointVerdict, Final, Sound
  <2>6. (\E r, s \in RecordsOf(i) : Opposed(r, s)) <=>
          \/ Twice
          \/ Differ
          \/ representation = "CR" /\ \E r \in Receivers, s \in Senders : r.bound # s
    BY <1>5, <2>1, <2>2 DEF Opposed
  <2>7. ASSUME Differ PROVE Twice \/ (Senders # {} /\ Receivers # {})
    <3>1. PICK r, s \in RecordsOf(i) : r # s
      BY <2>7
    <3> HIDE DEF Differ
    <3>2. CASE r.role = s.role
      <4>1. (r \in Senders /\ s \in Senders) \/ (r \in Receivers /\ s \in Receivers)
        BY <2>1, <3>1, <3>2
      <4> QED BY <2>2, <3>1, <4>1
    <3>3. CASE r.role # s.role
      BY <2>1, <3>3
    <3> QED BY <3>2, <3>3
  <2>8. Unbound /\ Senders # {} => representation = "CR" /\ \E r \in Receivers, s \in Senders : r.bound # s
    OBVIOUS
  <2>9. ASSUME representation = "CR", NEW r \in Receivers, NEW s \in Senders, r.bound # s
        PROVE  Twice \/ (Senders # {} /\ Receivers # {} /\ Unbound)
    <3>1. CASE r.bound \in Senders
      BY <2>2, <2>9, <3>1
    <3>2. CASE r.bound \notin Senders
      BY <2>9, <3>2
    <3> QED BY <3>1, <3>2
  <2> HIDE DEF Differ, Unbound
  <2>10. ASSUME \E r, s \in StatementsOn(i) : Opposed(r, s) PROVE i \in Told /\ Verdict(i) \in Final
    BY <1>1, <1>2, <2>5, <2>6, <2>7, <2>9, <2>10
  <2>11. ASSUME Verdict(i) \in Final PROVE Spoiled(i)
    BY <1>1, <1>3, <2>5, <2>6, <2>8, <2>11, Conflicting DEF Spoiled
  <2> QED BY <2>10, <2>11
<1> QED BY <1>4, <1>5

\* The report convicts what is spoiled, and keeps it from being a candidate.
LEMMA ConvictedAreSpoiled ==
  ASSUME BaseInv, ReportInv, phase = "reported"
  PROVE  /\ Convicted = {i \in Interactions : Spoiled(i)}
         /\ \A i : Spoiled(i) => i \notin Known
<1>1. AllRead /\ Known = Rightful
  BY RightfulAgreed DEF ReportInv
<1>2. /\ Complaints \subseteq issues
      /\ \A x \in issues \ Complaints : \E i : x = Issue(Relations!Blame(i), i)
  BY DEF ReportInv
<1>3. \A i : Relations!Blame(i) \notin Final
  BY DEF Relations!Blame, Relations!LinkFailure, Relations!Sound, Final
<1>4. \A r, s, i, j : Issue(r, i) = Issue(s, j) <=> r = s /\ i = j
  BY DEF Issue
<1>5. ASSUME NEW reason \in Final, NEW i
      PROVE  Issue(reason, i) \in issues <=> Issue(reason, i) \in Complaints
  BY <1>2, <1>3, <1>4
<1>6. ASSUME NEW reason \in Final, NEW i \in Interactions, Issue(reason, i) \in Complaints
      PROVE  Spoiled(i)
  <2>1. Issue(reason, i) \notin Header
    BY <1>4 DEF Header, Final
  <2>2. CASE \E m \in Evidence : Refusal(m) # Sound /\ Issue(reason, i) = RefusalIssue(m)
    <3>1. PICK m \in Evidence : Refusal(m) # Sound /\ Issue(reason, i) = RefusalIssue(m)
      BY <2>2
    <3>2. m \in delivered /\ m.kind = PayloadKind[representation] /\ reason = Refusal(m)
      BY <1>4, <3>1 DEF RefusalIssue, Evidence
    <3>3. Refusal(m) = "PROFILE_VIOLATION"
      BY <3>2, Refusals
    <3>4. i = InteractionOf(m.record)
      BY <1>4, <3>1, <3>3 DEF RefusalIssue
    <3>5. m \in Heard /\ ~InProfile(m.record)
      BY <3>2, <3>3, Refusals DEF Heard
    <3> QED BY <3>4, <3>5 DEF Spoiled
  <2>3. CASE i \in conflicts
    BY <1>1, <2>3, Conflicting DEF Spoiled
  <2>4. CASE i \in Told /\ reason = Verdict(i)
    BY <1>1, <2>4, OpposedVerdict
  <2>5. OrphanReason(i) # reason
    BY Reasons DEF Final
  <2> QED BY <1>6, <2>1, <2>2, <2>3, <2>4, <2>5, Complaining
<1>7. ASSUME NEW i, Spoiled(i)
      PROVE  i \notin Clean /\ \E reason \in Final : Issue(reason, i) \in Complaints
  <2>1. CASE \E m \in Heard : InteractionOf(m.record) = i /\ ~InProfile(m.record)
    <3>1. PICK m \in Heard : InteractionOf(m.record) = i /\ ~InProfile(m.record)
      BY <2>1
    <3>2. m \in Evidence /\ Refusal(m) = "PROFILE_VIOLATION"
      BY <3>1, Refusals DEF Heard, Evidence
    <3>3. RefusalIssue(m) = Issue("PROFILE_VIOLATION", i)
      BY <3>1, <3>2 DEF RefusalIssue
    <3>4. Issue("PROFILE_VIOLATION", i) \in Complaints
      BY <3>2, <3>3, Complaining DEF Sound
    <3>5. i \in violations
      BY <1>1, <2>1, ViolatingEvidence DEF AllRead
    <3>6. Verdict(i) = "PROFILE_VIOLATION"
      BY <3>5 DEF Verdict, ReceiptVerdict, EndpointVerdict
    <3> QED BY <3>4, <3>6 DEF Clean, Sound, Final
  <2>2. CASE \E r, s \in Statements :
               /\ SignedBySender(r) /\ SignedBySender(s)
               /\ InteractionOf(r) = i /\ InteractionOf(s) # i
               /\ SameSequence(r.handoff, s.handoff)
    <3>1. i \in conflicts
      BY <1>1, <2>2, Conflicting
    <3>2. Verdict(i) # Sound
      BY <3>1 DEF Verdict, ReceiptVerdict, EndpointVerdict, Sound
    <3> QED BY <3>1, <3>2, Complaining DEF Clean, Final
  <2>3. CASE \E r, s \in StatementsOn(i) : Opposed(r, s)
    <3>1. i \in Told /\ Verdict(i) \in Final
      BY <1>1, <2>3, OpposedVerdict
    <3>2. Verdict(i) # Sound
      BY <3>1 DEF Final, Sound
    <3> QED BY <3>1, <3>2, Complaining DEF Clean
  <2> QED BY <1>7, <2>1, <2>2, <2>3 DEF Spoiled
<1> QED BY <1>1, <1>5, <1>6, <1>7 DEF Convicted, Rightful

\* Endpoints that have agreed once are never missing, and only contradict what
\* they have said with another record.
LEMMA SaidVerdict ==
  ASSUME BaseInv, AllRead, representation # "PR", NEW i, Said(i)
  PROVE  Verdict(i) \in {"EQUIVOCATION", "PROFILE_VIOLATION", Sound}
<1> DEFINE Twice == \E role \in Roles : Cardinality(By(role, i)) > 1
           Missing == \E role \in Roles : By(role, i) = {}
           Differ == \E r, s \in RecordsOf(i) : r.handoff # s.handoff
           Unbound == representation = "CR" /\ \E r \in By("RECEIVER", i) : r.bound \notin By("SENDER", i)
<1>1. PICK s, r \in StatementsOn(i) :
        /\ s.role = "SENDER" /\ r.role = "RECEIVER" /\ s.handoff = r.handoff
        /\ representation = "CR" => r.bound = s
  BY DEF Said
<1>2. /\ \A t \in RecordsOf(i) : t.role = "SENDER" \/ t.role = "RECEIVER"
      /\ s \in By("SENDER", i) /\ r \in By("RECEIVER", i)
  BY <1>1, FormedStatements, RecordsFound DEF By, Roles, StatementsOn
<1>3. ~Missing
  BY <1>2 DEF Roles
<1>4. ASSUME ~Twice PROVE By("SENDER", i) = {s} /\ By("RECEIVER", i) = {r}
  <2>1. \A role \in Roles : ~\E a, b \in By(role, i) : a # b
    BY <1>4, RecordsFound, Sizes
  <2> QED BY <1>2, <2>1 DEF Roles
<1>5. ASSUME ~Twice PROVE ~Differ /\ ~Unbound
  <2>1. \A t \in RecordsOf(i) : t = s \/ t = r
    BY <1>2, <1>4, <1>5 DEF By
  <2> QED BY <1>1, <1>4, <1>5, <2>1
<1>6. Verdict(i) = EndpointVerdict(i)
  BY DEF Verdict
<1>7. EndpointVerdict(i) =
        IF i \in violations THEN "PROFILE_VIOLATION"
        ELSE IF Twice THEN "EQUIVOCATION"
        ELSE IF Missing THEN "ENDPOINT_MISSING"
        ELSE IF i \in conflicts THEN "EQUIVOCATION"
        ELSE IF Differ THEN "ENDPOINT_MISMATCH"
        ELSE IF Unbound THEN "CROSS_REFERENCE_INVALID"
        ELSE Sound
  BY DEF EndpointVerdict
<1> HIDE DEF Twice, Missing, Differ, Unbound
<1> QED BY <1>3, <1>5, <1>6, <1>7

\* What is known is said, and what was said but is not known is in conflict, of
\* itself or of its parent's receipt.
LEMMA KnownIsSaid ==
  ASSUME BaseInv, ReportInv, phase = "reported"
  PROVE  /\ \A i \in Known : i \in Interactions /\ Said(i)
         /\ \A i \in Interactions \ Known : Said(i) =>
              \E reason \in {"EQUIVOCATION", "PROFILE_VIOLATION", "PARENT_INVALID"} :
                Issue(reason, i) \in issues
<1>1. AllRead /\ Known = Rightful /\ candidates = Agreed
  BY RightfulAgreed DEF ReportInv
<1>2. Complaints \subseteq issues
  BY DEF ReportInv
<1>3. ASSUME NEW i \in Known PROVE i \in Interactions /\ Said(i)
  <2>1. i \in Clean /\ i \in Interactions /\ Undisputed(i)
    BY <1>1, CleanIsUndisputed DEF Rightful
  <2>2. CASE representation # "PR"
    BY <2>1, <2>2 DEF Undisputed, Said
  <2>3. CASE representation = "PR"
    <3>1. PICK r \in Statements : RecordsOf(i) = {r} /\ StatementsOn(i) = {r}
      BY <1>1, <2>1, <2>3, OneReceipt
    <3>2. Attached(i)
      BY <1>1, <2>3 DEF Rightful
    <3>3. r.handoff.previous \in records \cup {None}
      BY <3>1, <3>2 DEF Attached, RecordsOf
    <3> QED BY <1>1, <2>1, <2>3, <3>1, <3>3 DEF Said, AllRead
  <2> QED BY <2>1, <2>2, <2>3
<1>4. ASSUME NEW i \in Interactions \ Known, Said(i)
      PROVE  \E reason \in {"EQUIVOCATION", "PROFILE_VIOLATION", "PARENT_INVALID"} :
               Issue(reason, i) \in Complaints
  <2>1. i \in Told /\ RecordsOf(i) = StatementsOn(i)
    <3>1. \E r : r \in StatementsOn(i)
      BY <1>4 DEF Said
    <3> QED BY <1>1, <3>1, RecordsFound DEF Told, AllRead, StatementsOn
  <2>2. CASE Verdict(i) # Sound
    <3>1. Verdict(i) \in {"EQUIVOCATION", "PROFILE_VIOLATION"}
      <4>1. CASE representation = "PR"
        BY <2>2, <4>1 DEF Verdict, ReceiptVerdict
      <4>2. CASE representation # "PR"
        BY <1>1, <1>4, <2>1, <2>2, <4>2, SaidVerdict
      <4> QED BY <4>1, <4>2
    <3> QED BY <2>1, <2>2, <3>1, Complaining
  <2>3. CASE Verdict(i) = Sound
    <3>1. i \in Clean /\ representation = "PR" /\ ~Attached(i)
      BY <1>1, <1>4, <2>1, <2>3 DEF Clean, Rightful
    <3>2. PICK r \in Statements : RecordsOf(i) = {r} /\ StatementsOn(i) = {r}
      BY <1>1, <3>1, OneReceipt
    <3>3. r.handoff.previous \in records
      BY <1>1, <1>4, <3>1, <3>2 DEF Said, Attached, AllRead
    <3>4. OrphanReason(i) = "PARENT_INVALID"
      BY <3>2, <3>3 DEF OrphanReason
    <3> QED BY <3>1, <3>4, Complaining
  <2> QED BY <2>2, <2>3
<1> QED BY <1>2, <1>3, <1>4

-----------------------------------------------------------------------------
(***************************************************************************)
(* From report to report.                                                  *)
(***************************************************************************)
\* More evidence and a later cutoff unsay nothing.
LEMMA NothingUnsaid ==
  ASSUME BaseInv, representation' = representation, delivered \subseteq delivered',
         cutoff' \in Nat, cutoff <= cutoff', NEW i
  PROVE  (Spoiled(i) => Spoiled(i)') /\ (Said(i) => Said(i)')
<1>1. /\ \A m : Premature(m)' <=> Premature(m)
      /\ \A r : InProfile(r)' <=> InProfile(r)
      /\ \A r : SignedBySender(r)' <=> SignedBySender(r)
      /\ \A r, s : Opposed(r, s)' <=> Opposed(r, s)
  BY DEF Premature, InProfile, HasDecision, SignedBySender, Opposed
<1>2. Heard \subseteq Heard'
  BY DEF Heard, StoreBound
<1>3. Statements \subseteq Statements'
  <2>1. ASSUME NEW m \in Heard, ~Future(m) PROVE ~Future(m)'
    <3>1. HasDecision(m.record) => m.record.decided \in Nat
      BY Formed DEF Heard
    <3>2. HasDecision(m.record)' <=> HasDecision(m.record)
      BY DEF HasDecision
    <3>3. ClockSkew \in Nat /\ cutoff \in Nat
      BY EvidenceAssumption DEF BaseInv
    <3> QED BY <2>1, <3>1, <3>2, <3>3 DEF Future, Exceeds
  <2>2. ASSUME NEW r \in Statements PROVE r \in Statements'
    <3>1. PICK m \in Heard : r = m.record /\ InProfile(m.record) /\ ~Premature(m) /\ ~Future(m)
      BY DEF Statements
    <3>2. m \in Heard' /\ InProfile(m.record)' /\ ~Premature(m)' /\ ~Future(m)'
      BY <1>1, <1>2, <2>1, <3>1
    <3> QED BY <3>1, <3>2 DEF Statements
  <2> QED BY <2>2
<1>4. StatementsOn(i) \subseteq StatementsOn(i)'
  BY <1>3 DEF StatementsOn
<1>5. ASSUME Spoiled(i) PROVE Spoiled(i)'
  <2>1. CASE \E m \in Heard : InteractionOf(m.record) = i /\ ~InProfile(m.record)
    BY <1>1, <1>2, <2>1 DEF Spoiled
  <2>2. CASE \E r, s \in Statements :
               /\ SignedBySender(r) /\ SignedBySender(s)
               /\ InteractionOf(r) = i /\ InteractionOf(s) # i
               /\ SameSequence(r.handoff, s.handoff)
    BY <1>1, <1>3, <2>2 DEF Spoiled
  <2>3. CASE \E r, s \in StatementsOn(i) : Opposed(r, s)
    BY <1>1, <1>4, <2>3 DEF Spoiled
  <2> QED BY <1>5, <2>1, <2>2, <2>3 DEF Spoiled
<1>6. ASSUME Said(i) PROVE Said(i)'
  BY <1>3, <1>4, <1>6 DEF Said
<1> QED BY <1>5, <1>6

\* Between one report and the next there is only more evidence.
LEMMA LastStays ==
  ASSUME BaseInv, LastInv, representation' = representation, delivered \subseteq delivered',
         cutoff' \in Nat, cutoff <= cutoff', last' = last
  PROVE  LastInv'
  BY NothingUnsaid DEF LastInv

IInv ==
  BaseInv /\ IdleInv /\ ReadInv /\ JudgeInv /\ ResolveInv /\ ReportInv /\ LastInv

LEMMA EvidenceInit == Init => IInv
<1> SUFFICES ASSUME Init PROVE IInv
  OBVIOUS
<1>1. phase = "idle"
  BY DEF Init
<1>2. BaseInv
  BY <1>1 DEF Init, BaseInv
<1>3. IdleInv
  BY DEF Init, IdleInv, Blank
<1>4. ReadInv /\ JudgeInv /\ ResolveInv /\ ReportInv
  BY <1>1 DEF ReadInv, JudgeInv, ResolveInv, ReportInv
<1>5. LastInv
  BY DEF Init, LastInv
<1> QED BY <1>2, <1>3, <1>4, <1>5 DEF IInv

\* A step within a call leaves the other phases' invariants and the last report.
LEMMA WithinACall ==
  ASSUME IInv, UNCHANGED <<representation, cutoff, delivered, last>>,
         phase' \in {"idle", "read", "judge", "resolve", "reported", "raised"}
  PROVE  /\ BaseInv' /\ LastInv'
         /\ phase' # "idle" => IdleInv'
         /\ phase' # "read" => ReadInv'
         /\ phase' # "judge" => JudgeInv'
         /\ phase' # "resolve" => ResolveInv'
         /\ phase' # "reported" => ReportInv'
<1>1. BaseInv'
  BY EvidenceStays DEF IInv
<1>2. LastInv'
  BY LastStays DEF IInv, BaseInv
<1> QED BY <1>1, <1>2 DEF IdleInv, ReadInv, JudgeInv, ResolveInv, ReportInv

LEMMA Observing ==
  ASSUME IInv, Wait \/ \E m \in Messages[representation] : Deliver(m)
  PROVE  IInv'
<1>1. /\ UNCHANGED <<representation, phase, callVars, last>> /\ phase = "idle"
      /\ delivered \subseteq delivered' /\ delivered' \subseteq Messages[representation]
      /\ cutoff' \in Nat /\ cutoff <= cutoff'
  BY DEF IInv, BaseInv, Wait, Deliver
<1>2. BaseInv'
  BY <1>1 DEF IInv, BaseInv
<1>3. LastInv'
  BY <1>1, LastStays DEF IInv
<1>4. IdleInv'
  BY <1>1 DEF IInv, IdleInv, Blank, callVars, NoCandidates
<1>5. ReadInv' /\ JudgeInv' /\ ResolveInv' /\ ReportInv'
  BY <1>1 DEF ReadInv, JudgeInv, ResolveInv, ReportInv
<1> QED BY <1>2, <1>3, <1>4, <1>5 DEF IInv

LEMMA LookingAgain == IInv /\ LookAgain => IInv'
<1> SUFFICES ASSUME IInv, LookAgain PROVE IInv'
  OBVIOUS
<1>1. /\ UNCHANGED <<representation, cutoff, delivered>> /\ phase' = "idle"
      /\ phase \in {"reported", "raised"}
      /\ last' = IF phase = "reported" THEN [known |-> Known, convicted |-> Convicted] ELSE last
  BY DEF LookAgain
<1>2. BaseInv' /\ cutoff \in Nat
  BY <1>1, EvidenceStays DEF IInv, BaseInv
<1>3. IdleInv'
  BY DEF LookAgain, IdleInv, Blank, NoCandidates
<1>4. ReadInv' /\ JudgeInv' /\ ResolveInv' /\ ReportInv'
  BY <1>1 DEF ReadInv, JudgeInv, ResolveInv, ReportInv
<1>5. \A i : (Spoiled(i) => Spoiled(i)') /\ (Said(i) => Said(i)')
  BY <1>1, <1>2, NothingUnsaid DEF IInv
<1>6. LastInv'
  <2>1. CASE phase = "reported"
    <3>1. last'.known = Known /\ last'.convicted = Convicted
      BY <1>1, <2>1
    <3> QED BY <1>5, <2>1, <3>1, ConvictedAreSpoiled, KnownIsSaid DEF IInv, LastInv
  <2>2. CASE phase # "reported"
    BY <1>1, <1>5, <2>2 DEF IInv, LastInv
  <2> QED BY <2>1, <2>2
<1> QED BY <1>2, <1>3, <1>4, <1>6 DEF IInv

LEMMA EvidenceNext == IInv /\ [Next]_vars => IInv'
<1> SUFFICES ASSUME IInv, [Next]_vars PROVE IInv'
  OBVIOUS
<1>1. ASSUME NEW m \in Messages[representation], Deliver(m) PROVE IInv'
  BY <1>1, Observing
<1>2. CASE Wait
  BY <1>2, Observing
<1>3. CASE Begin
  <2>1. ReadInv' /\ phase' = "read" /\ UNCHANGED <<representation, cutoff, delivered, last>>
    BY <1>3, BeginRead DEF IInv, Begin
  <2> QED BY <2>1, WithinACall DEF IInv
<1>4. ASSUME NEW m \in Messages[representation], Admit(m) \/ Refuse(m) PROVE IInv'
  <2>1. ReadInv' /\ phase' = "read" /\ UNCHANGED <<representation, cutoff, delivered, last>>
    BY <1>4, ReadingGoesOn DEF IInv, Admit, Refuse
  <2> QED BY <2>1, WithinACall DEF IInv
<1>5. CASE CompareSequences
  <2>1. JudgeInv' /\ phase' = "judge" /\ UNCHANGED <<representation, cutoff, delivered, last>>
    BY <1>5, SequencesCompared DEF IInv, CompareSequences
  <2> QED BY <2>1, WithinACall DEF IInv
<1>6. ASSUME NEW i \in Interactions, Reject(i) \/ Agree(i) \/ Select(i) PROVE IInv'
  <2>1. phase' = "judge" /\ UNCHANGED <<representation, cutoff, delivered, last>>
    BY <1>6 DEF Reject, Agree, Select
  <2>2. JudgeInv'
    BY <1>6, Rejecting, Agreeing, Selecting DEF IInv
  <2> QED BY <2>1, <2>2, WithinACall DEF IInv
<1>7. CASE StartResolving
  <2>1. ResolveInv' /\ phase' = "resolve" /\ UNCHANGED <<representation, cutoff, delivered, last>>
    BY <1>7, ResolvingStarts DEF IInv, StartResolving
  <2> QED BY <2>1, WithinACall DEF IInv
<1>8. ASSUME NEW i \in Interactions, Resolve(i) \/ Orphan(i) PROVE IInv'
  <2>1. phase' = "resolve" /\ UNCHANGED <<representation, cutoff, delivered, last>>
    BY <1>8 DEF Resolve, Orphan
  <2>2. ResolveInv'
    BY <1>8, Resolving, Orphaning DEF IInv
  <2> QED BY <2>1, <2>2, WithinACall DEF IInv
<1>9. ASSUME NEW i \in Interactions, Raise(i) PROVE IInv'
  <2>1. phase' = "raised" /\ UNCHANGED <<representation, cutoff, delivered, last>>
    BY <1>9 DEF Raise
  <2> QED BY <2>1, WithinACall DEF IInv
<1>10. CASE Emit
  <2>1. ReportInv' /\ phase' = "reported" /\ UNCHANGED <<representation, cutoff, delivered, last>>
    BY <1>10, Emitting DEF IInv, Emit
  <2> QED BY <2>1, WithinACall DEF IInv
<1>11. CASE LookAgain
  BY <1>11, LookingAgain
<1>12. CASE UNCHANGED vars
  <2>1. UNCHANGED <<representation, cutoff, delivered, phase, unread, records, violations, conflicts,
                    left, selected, candidates, invalid, issues, validated, last>>
    BY <1>12 DEF vars, callVars
  <2>2. CASE phase = "idle"
    <3>1. IdleInv'
      BY <2>1, <2>2 DEF IInv, IdleInv, Blank, NoCandidates
    <3> QED BY <2>1, <2>2, <3>1, WithinACall DEF IInv, BaseInv
  <2>3. CASE phase = "read"
    <3>1. ReadInv'
      <4>1. /\ Evidence' = Evidence /\ Header' = Header /\ Read' = Read
            /\ \A M : Admitted(M)' = Admitted(M) /\ Refused(M)' = Refused(M) /\ Violating(M)' = Violating(M)
        BY <2>1, EvidenceStays, StatementsStay DEF Read
      <4>2. /\ Admitted(Read)' = Admitted(Read) /\ Refused(Read)' = Refused(Read)
            /\ Violating(Read)' = Violating(Read)
        BY <2>1, <4>1, EvidenceStays DEF Admitted, Refused, Violating
      <4> QED BY <2>1, <4>1, <4>2 DEF IInv, ReadInv, Blank, NoCandidates
    <3> QED BY <2>1, <2>3, <3>1, WithinACall DEF IInv, BaseInv
  <2>4. CASE phase = "judge"
    <3>1. (Clean \ left)' = Clean \ left /\ (Told \ left)' = Told \ left
      BY <2>1, CallStays
    <3>2. candidates' = [i \in {j \in Clean \ left : representation # "PR"} |-> AgreedOn(i)]'
      BY <2>1, <2>4, <3>1, StatementsStay DEF IInv, JudgeInv
    <3>3. selected' = {i \in (Clean \ left)' : representation' = "PR"}
      BY <2>1, <2>4, <3>1 DEF IInv, JudgeInv
    <3>4. issues' = Found(Told \ left)'
      BY <2>1, <2>4, <3>1, CallStays DEF IInv, JudgeInv
    <3>5. JudgeInv'
      BY <2>1, <2>4, <3>2, <3>3, <3>4, CallStays DEF IInv, JudgeInv
    <3> QED BY <2>1, <2>4, <3>5, WithinACall DEF IInv, BaseInv
  <2>5. CASE phase = "resolve"
    <3>1. /\ (Clean \ left)' = Clean \ left
          /\ {j \in Clean \ left : Attached(j)}' = {j \in Clean \ left : Attached(j)}
          /\ Orphans(Clean \ left)' = Orphans(Clean \ left) /\ Found(Told)' = Found(Told)
      BY <2>1, CallStays, OrphansStay
    <3>2. candidates' = [i \in {j \in Clean \ left : Attached(j)} |-> AgreedOn(i)]'
      BY <2>1, <2>5, <3>1, StatementsStay DEF IInv, ResolveInv
    <3>3. ResolveInv'
      BY <2>1, <2>5, <3>1, <3>2, CallStays DEF IInv, ResolveInv
    <3> QED BY <2>1, <2>5, <3>3, WithinACall DEF IInv, BaseInv
  <2>6. CASE phase = "reported"
    <3>1. ReportInv'
      BY <2>1, <2>6, ReportStays DEF IInv
    <3> QED BY <2>1, <2>6, <3>1, WithinACall DEF IInv, BaseInv
  <2>7. CASE phase = "raised"
    BY <2>1, <2>7, WithinACall DEF IInv
  <2> QED BY <2>2, <2>3, <2>4, <2>5, <2>6, <2>7 DEF IInv, BaseInv
<1> QED BY <1>1, <1>2, <1>3, <1>4, <1>5, <1>6, <1>7, <1>8, <1>9, <1>10, <1>11, <1>12 DEF Next

LEMMA EvidenceAlways == Spec => []IInv
<1> QED BY EvidenceInit, EvidenceNext, PTL DEF Spec

\* Every report says what the evidence does: the candidates are the handoffs it
\* agrees on, those that hang together are validated, every other message has
\* left an issue, and there is none without a cause (ReportsTheEvidence).
THEOREM EvidenceReported == Spec => []ReportsTheEvidence
<1>1. IInv => ReportsTheEvidence
  BY ReportIsRight DEF IInv
<1> QED BY <1>1, EvidenceAlways, PTL

\* From one observation to a later one only a conflict unmakes a candidate, and
\* what is in conflict stays so (OnlyConflictsUnmake).
THEOREM ConflictsUnmake == Spec => []OnlyConflictsUnmake
<1>1. IInv => OnlyConflictsUnmake
  <2> SUFFICES ASSUME IInv, phase = "reported"
               PROVE  /\ last.convicted \subseteq Convicted \ Known
                      /\ \A i \in last.known \ Known :
                           \E reason \in {"EQUIVOCATION", "PROFILE_VIOLATION", "PARENT_INVALID"} :
                             Issue(reason, i) \in issues
    BY DEF OnlyConflictsUnmake
  <2> QED BY ConvictedAreSpoiled, KnownIsSaid DEF IInv, LastInv
<1> QED BY <1>1, EvidenceAlways, PTL

-----------------------------------------------------------------------------
(***************************************************************************)
(* The whole report, and what the loops of HandoffRelations start from.    *)
(***************************************************************************)
\* Something was heard of these interactions, and no candidate has come of it.
Unusable ==
  ({InteractionOf(r) : r \in Statements} \cup Violating(Evidence)) \ DOMAIN Agreed

InvalidInv ==
  /\ phase = "judge" => invalid = (violations \cup (Told \ left)) \ Clean
  /\ phase = "resolve" =>
       invalid = (violations \cup (Told \ left)) \ {j \in Clean : Attached(j)}
  /\ phase = "reported" =>
       /\ invalid = (violations \cup Told) \ Rightful
       /\ ForeignHandoffs # {} => validated = {}

LEMMA CleanUnviolated == Clean \cap violations = {}
  BY DEF Clean, Verdict, ReceiptVerdict, EndpointVerdict, Sound

LEMMA InvalidInit == Init => InvalidInv
  BY DEF Init, InvalidInv

LEMMA InvalidJudging ==
  ASSUME IInv, InvalidInv, NEW i \in Interactions, Reject(i) \/ Agree(i) \/ Select(i)
  PROVE  InvalidInv'
<1>1. /\ UNCHANGED <<representation, cutoff, delivered, records, violations, conflicts>>
      /\ phase = "judge" /\ phase' = "judge" /\ i \in left /\ left' = left \ {i}
      /\ invalid' = invalid \cup {j \in {i} : Verdict(i) # Sound}
  BY DEF Reject, Agree, Select
<1>2. i \in Told /\ invalid = (violations \cup (Told \ left)) \ Clean
  BY <1>1 DEF IInv, JudgeInv, InvalidInv
<1>3. i \in Clean <=> Verdict(i) = Sound
  BY <1>2 DEF Clean
<1>4. Told' = Told /\ Clean' = Clean
  BY <1>1, CallStays
<1>5. invalid' = (violations' \cup (Told' \ left')) \ Clean'
  BY <1>1, <1>2, <1>3, <1>4
<1> QED BY <1>1, <1>5 DEF InvalidInv

LEMMA InvalidResolving ==
  ASSUME IInv, InvalidInv, NEW i \in Interactions, Resolve(i) \/ Orphan(i)
  PROVE  InvalidInv'
<1>1. /\ UNCHANGED <<representation, cutoff, delivered, records, violations, conflicts>>
      /\ phase = "resolve" /\ phase' = "resolve" /\ i \in left /\ left' = left \ {i}
  BY DEF Resolve, Orphan
<1>2. /\ AllRead /\ representation = "PR" /\ selected = Clean /\ i \in Clean
      /\ invalid = (violations \cup (Told \ left)) \ {j \in Clean : Attached(j)}
  BY <1>1 DEF IInv, ResolveInv, InvalidInv
<1>3. {j \in Clean : Attached(j)}' = {j \in Clean : Attached(j)} /\ Told' = Told
  BY <1>1, CallStays, OrphansStay
<1>4. invalid' = invalid \cup {j \in {i} : ~Attached(i)}
  <2>1. CASE Resolve(i)
    <3>1. Attached(i)
      BY <1>2, <2>1, Parents DEF Resolve, IInv
    <3>2. invalid' = invalid
      BY <2>1 DEF Resolve
    <3> QED BY <3>1, <3>2
  <2>2. CASE Orphan(i)
    <3>1. ~Attached(i)
      BY <1>2, <2>2, Parents DEF Orphan, IInv
    <3>2. invalid' = invalid \cup {i}
      BY <2>2 DEF Orphan
    <3> QED BY <3>1, <3>2
  <2> QED BY <2>1, <2>2
<1>5. i \in Told
  BY <1>2 DEF Clean
<1> DEFINE A == {j \in Clean : Attached(j)}
<1>6. i \in A <=> Attached(i)
  BY <1>2
<1> HIDE DEF A
<1>7. invalid' = (violations' \cup (Told' \ left')) \ A
  BY <1>1, <1>2, <1>3, <1>4, <1>5, <1>6 DEF A
<1>8. invalid' = (violations' \cup (Told' \ left')) \ {j \in Clean : Attached(j)}'
  BY <1>3, <1>7 DEF A
<1> QED BY <1>1, <1>8 DEF InvalidInv

LEMMA InvalidEmitting ==
  ASSUME IInv, InvalidInv, Emit
  PROVE  InvalidInv'
<1>1. /\ UNCHANGED <<representation, cutoff, delivered, records, violations, conflicts, invalid>>
      /\ left = {} /\ phase' = "reported"
      /\ phase = IF representation = "PR" THEN "resolve" ELSE "judge"
  BY DEF Emit
<1>2. invalid = (violations \cup Told) \ Rightful
  <2>1. CASE representation = "PR"
    <3>1. {j \in Clean : Attached(j)} = Rightful
      BY <2>1 DEF Rightful
    <3> QED BY <1>1, <2>1, <3>1 DEF InvalidInv
  <2>2. CASE representation # "PR"
    <3>1. Clean = Rightful
      BY <2>2 DEF Rightful
    <3> QED BY <1>1, <2>2, <3>1 DEF InvalidInv
  <2> QED BY <2>1, <2>2
<1>3. Told' = Told /\ Rightful' = Rightful /\ ForeignHandoffs' = ForeignHandoffs
  BY <1>1, CallStays, OrphansStay DEF Rightful, ForeignHandoffs
<1>4. ASSUME ForeignHandoffs # {} PROVE validated' = {}
  <2>1. Issue("PAYLOAD_KIND_MISMATCH", None) \in FoundReading
    BY <1>4 DEF FoundReading, Header
  <2>2. FoundReading \subseteq issues /\ validated = {}
    BY <1>1, Zenon DEF IInv, JudgeInv, ResolveInv, Found
  <2> QED BY <2>1, <2>2 DEF Emit
<1> QED BY <1>1, <1>2, <1>3, <1>4 DEF InvalidInv


LEMMA InvalidStarting ==
  IInv /\ InvalidInv /\ (CompareSequences \/ StartResolving) => InvalidInv'
<1>0. (Clean \cap violations = {})'
  BY CleanUnviolated, PTL
<1> SUFFICES ASSUME IInv, InvalidInv, CompareSequences \/ StartResolving PROVE InvalidInv'
  OBVIOUS
<1>1. CASE CompareSequences
  <2>1. phase' = "judge" /\ invalid' = violations' /\ left' = Told'
    BY <1>1 DEF CompareSequences, Told
  <2>2. invalid' = (violations' \cup (Told' \ left')) \ Clean'
    BY <1>0, <2>1
  <2> QED BY <2>1, <2>2 DEF InvalidInv
<1>2. CASE StartResolving
  <2>1. /\ UNCHANGED <<representation, cutoff, delivered, records, violations, conflicts, invalid>>
        /\ phase = "judge" /\ phase' = "resolve" /\ left = {} /\ left' = selected
        /\ representation = "PR"
    BY <1>2 DEF StartResolving
  <2>2. selected = Clean /\ invalid = (violations \cup Told) \ Clean
    BY <2>1 DEF IInv, JudgeInv, InvalidInv
  <2>3. Told' = Told /\ Clean' = Clean
    BY <2>1, CallStays
  <2>4. (violations \cup Told) \ Clean = (violations \cup (Told \ Clean)) \ {j \in Clean : Attached(j)}'
    BY <2>3, CleanUnviolated
  <2> QED BY <2>1, <2>2, <2>3, <2>4 DEF InvalidInv
<1> QED BY <1>1, <1>2

LEMMA InvalidNext == IInv /\ InvalidInv /\ [Next]_vars => InvalidInv'
<1> SUFFICES ASSUME IInv, InvalidInv, [Next]_vars PROVE InvalidInv'
  OBVIOUS
<1>1. ASSUME phase' \notin {"judge", "resolve", "reported"} PROVE InvalidInv'
  BY <1>1 DEF InvalidInv
<1>2. ASSUME NEW m \in Messages[representation], Deliver(m) \/ Admit(m) \/ Refuse(m)
      PROVE  InvalidInv'
  BY <1>1, <1>2 DEF Deliver, Admit, Refuse
<1>3. CASE Wait \/ Begin \/ LookAgain
  BY <1>1, <1>3 DEF Wait, Begin, LookAgain
<1>4. CASE CompareSequences \/ StartResolving
  BY <1>4, InvalidStarting
<1>5. CASE Emit
  BY <1>5, InvalidEmitting
<1>6. ASSUME NEW i \in Interactions,
             Reject(i) \/ Agree(i) \/ Select(i) \/ Resolve(i) \/ Orphan(i) \/ Raise(i)
      PROVE  InvalidInv'
  <2>1. CASE Reject(i) \/ Agree(i) \/ Select(i)
    BY <2>1, InvalidJudging
  <2>2. CASE Resolve(i) \/ Orphan(i)
    BY <2>2, InvalidResolving
  <2>3. CASE Raise(i)
    BY <1>1, <2>3 DEF Raise
  <2> QED BY <1>6, <2>1, <2>2, <2>3
<1>7. CASE UNCHANGED vars
  <2>1. UNCHANGED <<representation, cutoff, delivered, phase, records, violations, conflicts,
                    left, invalid, validated>>
    BY <1>7 DEF vars, callVars
  <2>2. /\ Told' = Told /\ Clean' = Clean /\ Rightful' = Rightful
        /\ {j \in Clean : Attached(j)}' = {j \in Clean : Attached(j)}
        /\ ForeignHandoffs' = ForeignHandoffs
    BY <2>1, CallStays, OrphansStay DEF Rightful, ForeignHandoffs
  <2> QED BY <2>1, <2>2 DEF InvalidInv
<1> QED BY <1>2, <1>3, <1>4, <1>5, <1>6, <1>7 DEF Next

LEMMA InvalidAlways == Spec => [](IInv /\ InvalidInv)
<1> QED BY EvidenceInit, EvidenceNext, InvalidInit, InvalidNext, PTL DEF Spec

\* A report is what the evidence makes it: all that the call has come to, and
\* every issue, is a function of the messages delivered and the cutoff,
\* whatever the order of the loops.  A handoff in another representation keeps
\* everything from being validated.
TheReport ==
  phase = "reported" =>
    /\ records = Statements /\ violations = Violating(Evidence) /\ conflicts = SequenceConflicts
    /\ candidates = Agreed /\ invalid = Unusable
    /\ validated = IF ForeignHandoffs = {} THEN Founded ELSE {}
    /\ issues = Complaints \cup
         {Issue(Relations!Blame(i), i) :
            i \in {n \in Known : ForeignHandoffs = {} /\ ~Relations!WellFounded(n)}}

\* The report does not depend on the order in which a call comes to messages and
\* interactions (TheReport).
THEOREM ReportDetermined == Spec => []TheReport
<1>1. IInv /\ InvalidInv => TheReport
  <2> SUFFICES ASSUME IInv, InvalidInv, phase = "reported"
               PROVE  /\ records = Statements /\ violations = Violating(Evidence)
                      /\ conflicts = SequenceConflicts
                      /\ candidates = Agreed /\ invalid = Unusable
                      /\ validated = IF ForeignHandoffs = {} THEN Founded ELSE {}
                      /\ issues = Complaints \cup
                           {Issue(Relations!Blame(i), i) :
                              i \in {n \in Known : ForeignHandoffs = {} /\ ~Relations!WellFounded(n)}}
    BY DEF TheReport
  <2>1. AllRead /\ BaseInv
    BY DEF IInv, ReportInv
  <2>2. candidates = Agreed /\ Known = Rightful
    BY <2>1, RightfulAgreed DEF IInv, ReportInv
  <2>3. invalid = Unusable
    <3>1. Told = {InteractionOf(r) : r \in Statements}
      BY <2>1 DEF Told, AllRead
    <3>2. DOMAIN Agreed = Rightful
      BY <2>2 DEF Known
    <3> QED BY <2>1, <3>1, <3>2 DEF InvalidInv, Unusable, AllRead
  <2>4. CASE ForeignHandoffs = {}
    <3>1. {n \in Known : ForeignHandoffs = {} /\ ~Relations!WellFounded(n)} = Unfounded
      BY <2>4 DEF Unfounded
    <3>2. validated = Founded
      BY <2>2, <2>4, FoundedAmong DEF IInv, ReportInv
    <3>3. issues = Complaints \cup {Issue(Relations!Blame(i), i) : i \in Unfounded}
      BY <2>4 DEF IInv, ReportInv
    <3> QED BY <2>1, <2>2, <2>3, <2>4, <3>1, <3>2, <3>3 DEF AllRead
  <2>5. CASE ForeignHandoffs # {}
    <3>1. {n \in Known : ForeignHandoffs = {} /\ ~Relations!WellFounded(n)} = {}
      BY <2>5
    <3>2. issues = Complaints /\ validated = {}
      BY <2>5 DEF IInv, ReportInv, InvalidInv
    <3>3. issues = Complaints \cup {Issue(Relations!Blame(i), i) :
             i \in {n \in Known : ForeignHandoffs = {} /\ ~Relations!WellFounded(n)}}
      BY <3>1, <3>2, Zenon
    <3> QED BY <2>1, <2>2, <2>3, <2>5, <3>2, <3>3 DEF AllRead
  <2> QED BY <2>4, <2>5
<1> QED BY <1>1, InvalidAlways, PTL

\* What the loops of HandoffRelations assume of their graph: a candidate under
\* an interaction, that names the interaction of its parent or none, and no
\* interaction that is both a candidate's and rejected.
HandsOverAGraph ==
  phase = "reported" =>
    /\ Known \subseteq Interactions
    /\ invalid \subseteq Interactions \ Known
    /\ \A i \in Known :
         /\ candidates[i].previous \in Interactions \cup {None}
         /\ candidates[i].created \in Nat /\ candidates[i].decided \in Nat

LEMMA StatementsMade ==
  ASSUME BaseInv, NEW r \in Statements
  PROVE  /\ r.handoff.created \in Nat /\ DOMAIN r.handoff = HandoffFields
         /\ HasDecision(r) => r.decided \in Nat
         /\ representation # "PR" => r.handoff.previous \in Interactions \cup {None}
<1>1. PICK m \in Heard : r = m.record
  BY DEF Statements
<1>2. m \in delivered /\ m.flaw = Sound /\ m.kind = PayloadKind[representation]
  BY <1>1 DEF Heard
<1>3. ASSUME representation # "PR"
      PROVE  m.record.handoff.previous \in Interactions \cup {None}
  <2>1. m \in UNION {Messages[t] : t \in Representations} /\ representation \in {"SL", "CR", "PR"}
    BY <1>2, EvidenceAssumption DEF BaseInv, PayloadKind
  <2>2. m.flaw # "MALFORMED_EVIDENCE"
    BY <1>2 DEF Sound
  <2>3. IF m.kind = "RECEIPT" THEN ReceiptFormed(m.record) ELSE EndpointRecordFormed(m.record)
    BY <2>1, <2>2, EvidenceAssumption
  <2> QED BY <1>2, <1>3, <2>1, <2>3 DEF PayloadKind, EndpointRecordFormed
<1> QED BY <1>1, <1>2, <1>3, Formed DEF HandoffFormed

\* _emit_validated is called with what HandoffRelations starts from
\* (HandsOverAGraph).
THEOREM LoopsGetAGraph == Spec => []HandsOverAGraph
<1>1. IInv /\ InvalidInv => HandsOverAGraph
  <2> SUFFICES ASSUME IInv, InvalidInv, phase = "reported"
               PROVE  /\ Known \subseteq Interactions
                      /\ invalid \subseteq Interactions \ Known
                      /\ \A i \in Known :
                           /\ candidates[i].previous \in Interactions \cup {None}
                           /\ candidates[i].created \in Nat /\ candidates[i].decided \in Nat
    BY DEF HandsOverAGraph
  <2>1. AllRead /\ BaseInv /\ candidates = [i \in Rightful |-> AgreedOn(i)]
    BY DEF IInv, ReportInv
  <2>2. Known = Rightful /\ Rightful \subseteq Clean /\ Clean \subseteq Told
    BY <2>1 DEF Known, Rightful, Clean
  <2>3. Told \subseteq Interactions
    BY <2>1, FormedStatements DEF Told, AllRead
  <2>4. violations \subseteq Interactions
    BY <2>1, ViolatingEvidence, Formed DEF AllRead, Heard
  <2>5. invalid \subseteq Interactions \ Known
    BY <2>2, <2>3, <2>4 DEF InvalidInv
  <2>6. ASSUME NEW i \in Known
        PROVE  /\ candidates[i].previous \in Interactions \cup {None}
               /\ candidates[i].created \in Nat /\ candidates[i].decided \in Nat
    <3>1. candidates[i] = AgreedOn(i) /\ i \in Clean
      BY <2>1, <2>2
    <3>2. CASE representation # "PR"
      <4>1. PICK s, t \in Statements :
              StatementsOn(i) = {s, t} /\ s.role = "SENDER" /\ t.role = "RECEIVER"
        BY <2>1, <3>1, <3>2, CleanIsUndisputed DEF Undisputed
      <4>2. t \in By("RECEIVER", i)
        BY <2>1, <4>1, RecordsFound DEF By
      <4>3. AgreedOn(i) = Candidate(t.handoff, t.decision, t.decided)
        BY <2>1, <3>1, <3>2, <4>2, EndpointsAgree
      <4> QED BY <2>1, <3>1, <3>2, <4>1, <4>3, StatementsMade DEF Candidate, HasDecision
    <3>3. CASE representation = "PR"
      <4>1. PICK r \in Statements :
              /\ RecordsOf(i) = {r}
              /\ AgreedOn(i) =
                   Candidate(IF r.handoff.previous # None
                               THEN [r.handoff EXCEPT !.previous = InteractionOf(r.handoff.previous)]
                               ELSE r.handoff, r.decision, r.decided)
        BY <2>1, <3>1, <3>3, OneReceipt
      <4>2. /\ r.handoff.created \in Nat /\ r.decided \in Nat
            /\ DOMAIN r.handoff = HandoffFields
        BY <2>1, <3>3, StatementsMade DEF HasDecision
      <4>3. CASE r.handoff.previous = None
        <5>1. AgreedOn(i) = Candidate(r.handoff, r.decision, r.decided)
          BY <4>1, <4>3
        <5> QED BY <3>1, <4>2, <4>3, <5>1 DEF Candidate
      <4>4. CASE r.handoff.previous # None
        <5>1. PICK p \in Clean : r.handoff.previous \in RecordsOf(p)
          BY <2>2, <3>3, <4>1, <4>4 DEF Rightful, Attached
        <5>2. InteractionOf(r.handoff.previous) \in Interactions
          BY <2>2, <2>3, <5>1 DEF RecordsOf
        <5> DEFINE h == [r.handoff EXCEPT !.previous = InteractionOf(r.handoff.previous)]
        <5>3. h.previous \in Interactions /\ h.created = r.handoff.created
          BY <4>2, <5>2 DEF HandoffFields
        <5>4. AgreedOn(i) = Candidate(h, r.decision, r.decided)
          BY <4>1, <4>4
        <5> HIDE DEF h
        <5> QED BY <3>1, <4>2, <5>3, <5>4 DEF Candidate
      <4> QED BY <4>3, <4>4
    <3> QED BY <3>2, <3>3
  <2> QED BY <2>2, <2>3, <2>5, <2>6
<1> QED BY <1>1, InvalidAlways, PTL

-----------------------------------------------------------------------------
(***************************************************************************)
(* Receipts of handoffs that happened.  The receipt of one contains its    *)
(* parent's: there is one for each, since parents come before children.    *)
(***************************************************************************)
ParentFacts(f) == {g \in Facts : g.handoff.interaction = f.handoff.previous}

\* The receipt of f, where h has the receipts of the facts before.
ReceiptFrom(h, f) ==
  [handoff |-> [f.handoff EXCEPT !.previous = IF ParentFacts(f) = {} THEN None
                                  ELSE h[CHOOSE g \in ParentFacts(f) : TRUE]],
   nonce |-> f.handoff.interaction, decision |-> f.decision, decided |-> f.decided]

\* The facts of A are with all that came before them, and h has their receipts.
Receipts(h, A) ==
  /\ A \subseteq Facts
  /\ \A f \in A : ParentFacts(f) \subseteq A
  /\ h = [f \in A |-> ReceiptFrom(h, f)]

LEMMA OneParent ==
  ASSUME NEW f \in Facts, NEW g \in ParentFacts(f)
  PROVE  /\ ParentFacts(f) = {g} /\ (CHOOSE x \in ParentFacts(f) : TRUE) = g
         /\ g \in Facts /\ g.handoff.interaction = f.handoff.previous
<1>1. ParentFacts(f) = {g}
  BY EvidenceAssumption DEF ParentFacts
<1> QED BY <1>1 DEF ParentFacts

\* There are not two receipts of one fact.
LEMMA ReceiptsUnique ==
  ASSUME NEW A, NEW h, Receipts(h, A), NEW B, NEW k, Receipts(k, B)
  PROVE  \A f \in A \cap B : h[f] = k[f]
<1> DEFINE D == {f \in A \cap B : h[f] # k[f]}
<1>1. SUFFICES ASSUME D # {} PROVE FALSE
  OBVIOUS
<1>2. D \in SUBSET Facts
  BY DEF Receipts
<1>3. PICK f \in D : \A g \in D : f.handoff.previous # g.handoff.interaction
  BY <1>1, <1>2, EvidenceAssumption
<1>4. f \in Facts /\ f \in A /\ f \in B /\ h[f] = ReceiptFrom(h, f) /\ k[f] = ReceiptFrom(k, f)
  BY <1>2 DEF Receipts
<1>5. ReceiptFrom(h, f) # ReceiptFrom(k, f)
  BY <1>3, <1>4
<1>6. ParentFacts(f) # {}
  BY <1>5 DEF ReceiptFrom
<1>7. PICK g : g \in ParentFacts(f)
  BY <1>6
<1>8. (CHOOSE x \in ParentFacts(f) : TRUE) = g /\ g.handoff.interaction = f.handoff.previous
  BY <1>4, <1>7, OneParent
<1>9. g \in A /\ g \in B
  BY <1>4, <1>7 DEF Receipts
<1>10. h[g] = k[g]
  BY <1>3, <1>8, <1>9
<1> QED BY <1>5, <1>8, <1>10 DEF ReceiptFrom

\* With the receipts of what came before a fact there is its own.
LEMMA ReceiptsOneMore ==
  ASSUME NEW A, NEW h, Receipts(h, A), NEW f \in Facts, ParentFacts(f) \subseteq A
  PROVE  \E k : Receipts(k, A \cup {f})
<1>1. CASE f \in A
  <2>1. A \cup {f} = A
    BY <1>1
  <2> QED BY <2>1
<1>2. CASE f \notin A
  <2> DEFINE B == A \cup {f}
             k == [x \in B |-> IF x = f THEN ReceiptFrom(h, f) ELSE h[x]]
  <2>1. /\ A \subseteq Facts /\ \A x \in A : ParentFacts(x) \subseteq A
        /\ \A x \in A : h[x] = ReceiptFrom(h, x)
    BY DEF Receipts
  <2>2. \A x \in A : k[x] = h[x]
    BY <1>2
  <2>3. \A x \in B : ParentFacts(x) \subseteq A
    BY <2>1
  <2>4. k[f] = ReceiptFrom(h, f) /\ k = [x \in B |-> k[x]]
    OBVIOUS
  <2> HIDE DEF k
  <2>5. ASSUME NEW x \in B PROVE ReceiptFrom(k, x) = ReceiptFrom(h, x)
    <3>1. CASE ParentFacts(x) = {}
      BY <3>1 DEF ReceiptFrom
    <3>2. CASE ParentFacts(x) # {}
      <4>1. (CHOOSE g \in ParentFacts(x) : TRUE) \in A
        BY <2>3, <3>2
      <4>2. k[CHOOSE g \in ParentFacts(x) : TRUE] = h[CHOOSE g \in ParentFacts(x) : TRUE]
        BY <2>2, <4>1
      <4> QED BY <4>2 DEF ReceiptFrom
    <3> QED BY <3>1, <3>2
  <2>6. \A x \in B : k[x] = ReceiptFrom(k, x)
    BY <2>1, <2>2, <2>4, <2>5
  <2>7. k = [x \in B |-> ReceiptFrom(k, x)]
    BY <2>4, <2>6
  <2>8. Receipts(k, B)
    BY <2>1, <2>3, <2>7 DEF Receipts
  <2> QED BY <2>8
<1> QED BY <1>1, <1>2

\* Every fact has a receipt, in a set with all that came before.
LEMMA ReceiptOfEach ==
  ASSUME NEW f \in Facts PROVE \E A, h : f \in A /\ Receipts(h, A)
<1> DEFINE Bad == {x \in Facts : ~\E A, h : x \in A /\ Receipts(h, A)}
<1>1. SUFFICES ASSUME Bad # {} PROVE FALSE
  OBVIOUS
<1>2. PICK x \in Bad : \A g \in Bad : x.handoff.previous # g.handoff.interaction
  BY <1>1, EvidenceAssumption
<1>3. x \in Facts /\ ~\E A, h : x \in A /\ Receipts(h, A)
  BY <1>2
<1>4. \E A, h : ParentFacts(x) \subseteq A /\ Receipts(h, A)
  <2>1. CASE ParentFacts(x) = {}
    <3>1. Receipts([y \in {} |-> None], {})
      BY DEF Receipts
    <3> QED BY <2>1, <3>1
  <2>2. CASE ParentFacts(x) # {}
    <3>1. PICK g : g \in ParentFacts(x)
      BY <2>2
    <3>2. ParentFacts(x) = {g} /\ g \in Facts /\ g.handoff.interaction = x.handoff.previous
      BY <1>3, <3>1, OneParent
    <3>3. PICK A, h : g \in A /\ Receipts(h, A)
      BY <1>2, <3>2
    <3> QED BY <3>2, <3>3
  <2> QED BY <2>1, <2>2
<1>5. PICK A, h : ParentFacts(x) \subseteq A /\ Receipts(h, A)
  BY <1>4
<1>6. \E k : Receipts(k, A \cup {x})
  BY <1>3, <1>5, ReceiptsOneMore
<1> QED BY <1>3, <1>6

\* The recursion of ReceiptOf is well defined.
LEMMA ReceiptsExist == Receipts(ReceiptOf, Facts)
<1> DEFINE Of(f) == CHOOSE r : \E A, h : f \in A /\ Receipts(h, A) /\ r = h[f]
           all == [f \in Facts |-> Of(f)]
<1>1. ASSUME NEW A, NEW h, Receipts(h, A), NEW f \in A PROVE all[f] = h[f]
  <2>1. \E r : \E B, k : f \in B /\ Receipts(k, B) /\ r = k[f]
    BY <1>1
  <2>2. PICK B, k : f \in B /\ Receipts(k, B) /\ Of(f) = k[f]
    BY <2>1
  <2>3. k[f] = h[f]
    BY <1>1, <2>2, ReceiptsUnique
  <2>4. f \in Facts
    BY <1>1 DEF Receipts
  <2> QED BY <2>2, <2>3, <2>4
<1>2. all = [f \in Facts |-> all[f]]
  OBVIOUS
<1> HIDE DEF all
<1>3. ASSUME NEW f \in Facts PROVE all[f] = ReceiptFrom(all, f)
  <2>1. PICK A, h : f \in A /\ Receipts(h, A)
    BY ReceiptOfEach
  <2>2. all[f] = h[f] /\ h[f] = ReceiptFrom(h, f) /\ ParentFacts(f) \subseteq A
    BY <1>1, <2>1 DEF Receipts
  <2>3. ReceiptFrom(all, f) = ReceiptFrom(h, f)
    <3>1. CASE ParentFacts(f) = {}
      BY <3>1 DEF ReceiptFrom
    <3>2. CASE ParentFacts(f) # {}
      <4>1. (CHOOSE g \in ParentFacts(f) : TRUE) \in A
        BY <2>2, <3>2
      <4>2. all[CHOOSE g \in ParentFacts(f) : TRUE] = h[CHOOSE g \in ParentFacts(f) : TRUE]
        BY <1>1, <2>1, <4>1
      <4> QED BY <4>2 DEF ReceiptFrom
    <3> QED BY <3>1, <3>2
  <2> QED BY <2>2, <2>3
<1>4. Receipts(all, Facts)
  <2>1. \A f \in Facts : ParentFacts(f) \subseteq Facts
    BY DEF ParentFacts
  <2>2. all = [f \in Facts |-> ReceiptFrom(all, f)]
    BY <1>2, <1>3
  <2> QED BY <2>1, <2>2 DEF Receipts
<1> QED BY <1>4 DEF Receipts, ReceiptOf, ReceiptFrom, ParentFacts

\* What a receipt says.
LEMMA ReceiptSays ==
  ASSUME NEW f \in Facts, DOMAIN ReceiptOf[f].handoff = HandoffFields
  PROVE  /\ InteractionOf(ReceiptOf[f]) = f.handoff.interaction
         /\ ReceiptOf[f].decision = f.decision /\ ReceiptOf[f].decided = f.decided
         /\ \A k \in HandoffFields \ {"previous"} : ReceiptOf[f].handoff[k] = f.handoff[k]
         /\ DOMAIN f.handoff = HandoffFields
         /\ ParentFacts(f) = {} => ReceiptOf[f].handoff.previous = None
         /\ \A g \in ParentFacts(f) : ReceiptOf[f].handoff.previous = ReceiptOf[g]
<1> DEFINE before == IF ParentFacts(f) = {} THEN None
                     ELSE ReceiptOf[CHOOSE g \in ParentFacts(f) : TRUE]
           r == ReceiptOf[f]
<1>1. r = [handoff |-> [f.handoff EXCEPT !.previous = before],
           nonce |-> f.handoff.interaction, decision |-> f.decision, decided |-> f.decided]
  BY ReceiptsExist DEF Receipts, ReceiptFrom
<1>2. \A g \in ParentFacts(f) : before = ReceiptOf[g]
  BY OneParent
<1>3. ParentFacts(f) = {} => before = None
  OBVIOUS
<1> HIDE DEF before, r
<1>4. /\ r.handoff = [f.handoff EXCEPT !.previous = before]
      /\ r.decision = f.decision /\ r.decided = f.decided
  BY <1>1
<1>5. DOMAIN r.handoff = HandoffFields /\ DOMAIN f.handoff = HandoffFields
  BY <1>4 DEF r
<1>6. "previous" \in HandoffFields /\ "interaction" \in HandoffFields
  BY DEF HandoffFields
<1>7. r.handoff.previous = before
  BY <1>4, <1>5, <1>6
<1>8. \A k \in HandoffFields \ {"previous"} : r.handoff[k] = f.handoff[k]
  BY <1>4, <1>5
<1>9. r.handoff.interaction = f.handoff.interaction
  BY <1>6, <1>8
<1> QED BY <1>2, <1>3, <1>4, <1>5, <1>7, <1>8, <1>9 DEF r, InteractionOf

\* Some handoffs up to the roots, each under a number of its own; what was heard is
\* what the parties signed for them.
SignedFor(F) ==
  /\ F \subseteq Facts
  /\ \A f \in F : \/ f.handoff.previous = None
                  \/ \E g \in F : g.handoff.interaction = f.handoff.previous
  /\ \A f, g \in F : SameSequence(f.handoff, g.handoff) => f = g
  /\ Statements = UNION {Encoding(representation, f) : f \in F}
  /\ \A m \in Heard : InProfile(m.record)

BoundBy(f) == IF representation = "CR" THEN SenderRecord(f) ELSE None

LEMMA EncodingIs ==
  ASSUME BaseInv, NEW f
  PROVE  /\ representation = "PR" => Encoding(representation, f) = {ReceiptOf[f]}
         /\ representation # "PR" =>
              Encoding(representation, f) = {SenderRecord(f), ReceiverRecord(f, BoundBy(f))}
<1>1. representation = "PR" => \A role : Payload(representation, f, role) = ReceiptOf[f]
  BY DEF Payload
<1>2. representation # "PR" =>
        /\ Payload(representation, f, "SENDER") = SenderRecord(f)
        /\ Payload(representation, f, "RECEIVER") = ReceiverRecord(f, BoundBy(f))
  BY DEF Payload, BoundBy
<1>3. Encoding(representation, f) =
        {Payload(representation, f, "SENDER"), Payload(representation, f, "RECEIVER")}
  BY DEF Encoding, Roles
<1> QED BY <1>1, <1>2, <1>3

\* A statement on a handoff.
LEMMA EncodedSays ==
  ASSUME BaseInv, NEW F, SignedFor(F), NEW f \in F
  PROVE  /\ \A r \in Encoding(representation, f) :
              /\ r \in Statements /\ InteractionOf(r) = f.handoff.interaction
              /\ r.handoff.sender = f.handoff.sender
              /\ r.handoff.sequence = f.handoff.sequence
         /\ f.handoff.interaction \in Interactions /\ f \in Facts
         /\ representation = "PR" => DOMAIN ReceiptOf[f].handoff = HandoffFields
         /\ representation = "PR" => ReceiptOf[f] \in Statements /\ ReceiptOf[f] # None
<1>1. f \in Facts /\ f.handoff.interaction \in Interactions
  BY EvidenceAssumption DEF SignedFor
<1>2. Encoding(representation, f) \subseteq Statements
  BY DEF SignedFor
<1>3. CASE representation = "PR"
  <2>1. Encoding(representation, f) = {ReceiptOf[f]}
    BY <1>3, EncodingIs
  <2>2. DOMAIN ReceiptOf[f].handoff = HandoffFields /\ ReceiptOf[f] # None
    BY <1>2, <2>1, FormedStatements
  <2>3. /\ InteractionOf(ReceiptOf[f]) = f.handoff.interaction
        /\ \A k \in HandoffFields \ {"previous"} : ReceiptOf[f].handoff[k] = f.handoff[k]
    BY <1>1, <2>2, ReceiptSays
  <2>4. "sender" \in HandoffFields \ {"previous"} /\ "sequence" \in HandoffFields \ {"previous"}
    BY DEF HandoffFields
  <2> QED BY <1>1, <1>2, <2>1, <2>2, <2>3, <2>4
<1>4. CASE representation # "PR"
  <2>1. Encoding(representation, f) = {SenderRecord(f), ReceiverRecord(f, BoundBy(f))}
    BY <1>4, EncodingIs
  <2>2. SenderRecord(f).handoff = f.handoff /\ ReceiverRecord(f, BoundBy(f)).handoff = f.handoff
    BY DEF SenderRecord, ReceiverRecord
  <2> QED BY <1>1, <1>2, <1>4, <2>1, <2>2 DEF InteractionOf
<1> QED BY <1>3, <1>4

\* What was heard of an interaction was signed for its handoff.
LEMMA OnOneHandoff ==
  ASSUME BaseInv, NEW F, SignedFor(F)
  PROVE  /\ \A f \in F : StatementsOn(f.handoff.interaction) = Encoding(representation, f)
         /\ \A i : StatementsOn(i) # {} => \E f \in F : f.handoff.interaction = i
<1>1. ASSUME NEW r \in Statements PROVE \E f \in F : r \in Encoding(representation, f)
  BY DEF SignedFor
<1>2. \A f, g \in F : f.handoff.interaction = g.handoff.interaction => f = g
  BY EvidenceAssumption DEF SignedFor
<1>3. ASSUME NEW f \in F
      PROVE  StatementsOn(f.handoff.interaction) = Encoding(representation, f)
  <2>1. Encoding(representation, f) \subseteq StatementsOn(f.handoff.interaction)
    BY EncodedSays DEF StatementsOn
  <2>2. ASSUME NEW r \in StatementsOn(f.handoff.interaction)
        PROVE  r \in Encoding(representation, f)
    <3>1. r \in Statements /\ InteractionOf(r) = f.handoff.interaction
      BY DEF StatementsOn
    <3>2. PICK g \in F : r \in Encoding(representation, g)
      BY <1>1, <3>1
    <3>3. InteractionOf(r) = g.handoff.interaction
      BY <3>2, EncodedSays
    <3> QED BY <1>2, <3>1, <3>2, <3>3
  <2> QED BY <2>1, <2>2
<1>4. ASSUME NEW i, StatementsOn(i) # {} PROVE \E f \in F : f.handoff.interaction = i
  <2>1. PICK r \in Statements : InteractionOf(r) = i
    BY <1>4 DEF StatementsOn
  <2>2. PICK f \in F : r \in Encoding(representation, f)
    BY <1>1
  <2> QED BY <2>1, <2>2, EncodedSays
<1> QED BY <1>3, <1>4

\* There is no dispute about it.
LEMMA HonestUndisputed ==
  ASSUME BaseInv, NEW F, SignedFor(F), NEW f \in F
  PROVE  Undisputed(f.handoff.interaction)
<1> DEFINE i == f.handoff.interaction
<1> SUFFICES Undisputed(i)
  OBVIOUS
<1>1. StatementsOn(i) = Encoding(representation, f)
  BY OnOneHandoff
<1>2. \A m \in Heard : InteractionOf(m.record) = i => InProfile(m.record)
  BY DEF SignedFor
<1>3. ASSUME NEW r \in StatementsOn(i), NEW s \in Statements, InteractionOf(s) # i,
             SameSequence(r.handoff, s.handoff)
      PROVE  FALSE
  <2>1. PICK g \in F : s \in Encoding(representation, g)
    BY DEF SignedFor
  <2>2. /\ r.handoff.sender = f.handoff.sender /\ r.handoff.sequence = f.handoff.sequence
        /\ s.handoff.sender = g.handoff.sender /\ s.handoff.sequence = g.handoff.sequence
        /\ InteractionOf(s) = g.handoff.interaction
    BY <1>1, <2>1, EncodedSays
  <2>3. SameSequence(f.handoff, g.handoff)
    BY <1>3, <2>2 DEF SameSequence
  <2>4. f = g
    BY <2>3 DEF SignedFor
  <2> QED BY <1>3, <2>2, <2>4
<1>4. CASE representation = "PR"
  <2>1. StatementsOn(i) = {ReceiptOf[f]} /\ ReceiptOf[f] \in Statements
    BY <1>1, <1>4, EncodingIs, EncodedSays
  <2> HIDE DEF i
  <2> QED BY <1>2, <1>3, <1>4, <2>1 DEF Undisputed
<1>5. CASE representation # "PR"
  <2> DEFINE s == SenderRecord(f)
             r == ReceiverRecord(f, BoundBy(f))
  <2>1. StatementsOn(i) = {s, r}
    BY <1>1, <1>5, EncodingIs
  <2>2. /\ s.role = "SENDER" /\ r.role = "RECEIVER" /\ s.handoff = r.handoff
        /\ representation = "CR" => r.bound = s
    BY DEF SenderRecord, ReceiverRecord, BoundBy
  <2>3. s \in Statements /\ r \in Statements
    BY <2>1 DEF StatementsOn
  <2> HIDE DEF i, s, r
  <2> QED BY <1>2, <1>3, <1>5, <2>1, <2>2, <2>3 DEF Undisputed
<1> QED BY <1>4, <1>5

\* Its parent's receipt has been heard too, and what is agreed on is the handoff.
LEMMA HonestAgreed ==
  ASSUME BaseInv, NEW F, SignedFor(F), NEW f \in F
  PROVE  /\ ParentHeard(f.handoff.interaction)
         /\ AgreedOn(f.handoff.interaction) = Candidate(f.handoff, f.decision, f.decided)
<1> DEFINE i == f.handoff.interaction
<1>1. StatementsOn(i) = Encoding(representation, f)
  BY OnOneHandoff
<1>2. CASE representation = "PR"
  <2> DEFINE r == ReceiptOf[f]
  <2>1. StatementsOn(i) = {r}
    BY <1>1, <1>2, EncodingIs
  <2>2. f \in Facts /\ DOMAIN r.handoff = HandoffFields
    BY <1>2, EncodedSays
  <2>3. /\ r.decision = f.decision /\ r.decided = f.decided
        /\ \A k \in HandoffFields \ {"previous"} : r.handoff[k] = f.handoff[k]
        /\ DOMAIN f.handoff = HandoffFields
        /\ ParentFacts(f) = {} => r.handoff.previous = None
        /\ \A g \in ParentFacts(f) : r.handoff.previous = ReceiptOf[g]
    BY <2>2, ReceiptSays
  <2>4. (CHOOSE s \in StatementsOn(i) : HasDecision(s)) = r
    <3>1. HasDecision(r)
      BY <1>2 DEF HasDecision
    <3> HIDE DEF i, r
    <3> QED BY <2>1, <3>1
  <2>5. {"previous", "type", "sender", "receiver", "created"} \subseteq HandoffFields
    BY DEF HandoffFields
  <2>6. CASE f.handoff.previous = None
    <3>1. ParentFacts(f) = {}
      BY <2>6, EvidenceAssumption DEF ParentFacts
    <3>2. r.handoff.previous = None
      BY <2>3, <3>1
    <3>3. AgreedOn(i) = Candidate(r.handoff, r.decision, r.decided)
      <4> HIDE DEF i, r
      <4> QED BY <2>4, <3>2 DEF AgreedOn
    <3>4. ParentHeard(i)
      <4> HIDE DEF i, r
      <4> QED BY <2>1, <3>2 DEF ParentHeard
    <3> HIDE DEF r
    <3> QED BY <2>3, <2>5, <2>6, <3>2, <3>3, <3>4 DEF Candidate
  <2>7. CASE f.handoff.previous # None
    <3>1. PICK g \in F : g.handoff.interaction = f.handoff.previous
      BY <2>7 DEF SignedFor
    <3>2. g \in ParentFacts(f) /\ g.handoff.interaction \in Interactions
      BY <3>1, EncodedSays DEF ParentFacts
    <3>3. /\ r.handoff.previous = ReceiptOf[g] /\ ReceiptOf[g] # None
          /\ ReceiptOf[g] \in Statements /\ InteractionOf(ReceiptOf[g]) = f.handoff.previous
      <4>1. ReceiptOf[g] \in Encoding(representation, g)
        BY <1>2, EncodingIs
      <4> QED BY <1>2, <2>3, <3>1, <3>2, <4>1, EncodedSays
    <3>4. ParentHeard(i)
      <4>1. ReceiptOf[g] \in StatementsOn(g.handoff.interaction)
        BY <3>1, <3>3 DEF StatementsOn
      <4>2. Undisputed(g.handoff.interaction)
        BY HonestUndisputed
      <4> HIDE DEF i, r
      <4> QED BY <2>1, <3>2, <3>3, <4>1, <4>2 DEF ParentHeard
    <3>5. AgreedOn(i) =
            Candidate([r.handoff EXCEPT !.previous = InteractionOf(r.handoff.previous)],
                      r.decision, r.decided)
      <4> HIDE DEF i, r
      <4> QED BY <1>2, <2>4, <3>3 DEF AgreedOn
    <3>6. InteractionOf(r.handoff.previous) = f.handoff.previous
      BY <3>3
    <3> DEFINE h == [r.handoff EXCEPT !.previous = f.handoff.previous]
    <3>7. AgreedOn(i) = Candidate(h, f.decision, f.decided)
      BY <2>3, <3>5, <3>6
    <3>8. /\ h.previous = f.handoff.previous /\ h.type = f.handoff.type
          /\ h.sender = f.handoff.sender /\ h.receiver = f.handoff.receiver
          /\ h.created = f.handoff.created
      <4> HIDE DEF r
      <4> QED BY <2>2, <2>3, <2>5
    <3>9. Candidate(h, f.decision, f.decided) = Candidate(f.handoff, f.decision, f.decided)
      <4> HIDE DEF h
      <4> QED BY <3>8 DEF Candidate
    <3> QED BY <3>4, <3>7, <3>9
  <2> QED BY <2>6, <2>7
<1>3. CASE representation # "PR"
  <2> DEFINE s == SenderRecord(f)
             r == ReceiverRecord(f, BoundBy(f))
  <2>1. StatementsOn(i) = {s, r}
    BY <1>1, <1>3, EncodingIs
  <2>2. /\ s.role = "SENDER" /\ r.role = "RECEIVER" /\ r.handoff = f.handoff
        /\ r.decision = f.decision /\ r.decided = f.decided
    BY DEF SenderRecord, ReceiverRecord
  <2> HIDE DEF i, s, r
  <2>3. HasDecision(r) /\ ~HasDecision(s)
    BY <1>3, <2>2 DEF HasDecision
  <2>4. (CHOOSE x \in StatementsOn(i) : HasDecision(x)) = r
    BY <2>1, <2>3
  <2>5. AgreedOn(i) = Candidate(f.handoff, f.decision, f.decided)
    BY <1>3, <2>2, <2>4 DEF AgreedOn
  <2>6. ParentHeard(i)
    BY <1>3 DEF ParentHeard
  <2> QED BY <2>5, <2>6 DEF i
<1> QED BY <1>2, <1>3

\* In every representation the same handoffs become candidates
\* (RepresentationsAgree).
THEOREM SameInEach == Spec => []RepresentationsAgree
<1>1. IInv => RepresentationsAgree
  <2> SUFFICES ASSUME IInv, phase = "reported", NEW F \in SUBSET Facts, SignedFor(F)
               PROVE  /\ Known = {f.handoff.interaction : f \in F}
                      /\ \A f \in F : candidates[f.handoff.interaction] =
                                        Candidate(f.handoff, f.decision, f.decided)
    BY DEF RepresentationsAgree, SignedFor
  <2>1. BaseInv /\ candidates = Agreed
    BY ReportIsRight DEF IInv, ReportsTheEvidence
  <2>2. \A f \in F : f.handoff.interaction \in Interactions
    BY <2>1, EncodedSays
  <2>3. \A f \in F : /\ Undisputed(f.handoff.interaction) /\ ParentHeard(f.handoff.interaction)
                     /\ AgreedOn(f.handoff.interaction) =
                          Candidate(f.handoff, f.decision, f.decided)
    BY <2>1, HonestUndisputed, HonestAgreed
  <2>4. ASSUME NEW i, Undisputed(i) PROVE \E f \in F : f.handoff.interaction = i
    <3>1. StatementsOn(i) # {}
      BY <2>4 DEF Undisputed
    <3> QED BY <2>1, <3>1, OnOneHandoff
  <2>5. Known = {i \in Interactions : Undisputed(i) /\ ParentHeard(i)}
    BY <2>1 DEF Known, Agreed
  <2>6. Known = {f.handoff.interaction : f \in F}
    BY <2>2, <2>3, <2>4, <2>5
  <2>7. \A i \in Known : candidates[i] = AgreedOn(i)
    BY <2>1, <2>5 DEF Agreed
  <2> QED BY <2>3, <2>6, <2>7
<1> QED BY <1>1, EvidenceAlways, PTL
=============================================================================
