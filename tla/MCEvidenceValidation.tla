------------------------ MODULE MCEvidenceValidation ------------------------
(***************************************************************************)
(* Messages for EvidenceValidation: what two handoffs leave behind in each *)
(* representation, and what else may arrive about them.                    *)
(***************************************************************************)
EXTENDS EvidenceValidation

CONSTANTS i1, i2, i3

Handoff(i, sender, receiver, sequence, previous, created) ==
  [interaction |-> i, sender |-> sender, receiver |-> receiver, sequence |-> sequence,
   previous |-> previous, type |-> "delegation", created |-> created]

Fact(h, decided) == [handoff |-> h, decision |-> "ACCEPT", decided |-> decided]

Root == Fact(Handoff(i1, "P", "Q", 1, None, 0), 0)
Child == Fact(Handoff(i2, "Q", "R", 1, i1, 1), 1)
MCFacts == {Root, Child}

\* The same interaction with other contents, and another one with its number.
Otherwise == [Root EXCEPT !.handoff.type = "action_intent"]
Renumbered == [Root EXCEPT !.handoff.interaction = i3]
Rejected(f) == [f EXCEPT !.decision = "REJECT"]

MCRegistry ==
  [p |-> [principal |-> "P", roles |-> Roles], q |-> [principal |-> "Q", roles |-> Roles],
   r |-> [principal |-> "R", roles |-> {"RECEIVER"}]]
StoreOf(principal) == CHOOSE s \in DOMAIN MCRegistry : MCRegistry[s].principal = principal

Message(representation_, store, record, sent) ==
  [kind |-> PayloadKind[representation_], store |-> store, sent |-> sent, flaw |-> Sound,
   record |-> record]

FromHolder(r, record) ==
  Message(r, StoreOf(PartyIn(record.role, record.handoff)), record,
          IF record.role = "SENDER" THEN record.handoff.created ELSE record.decided)

SLMessages ==
  {FromHolder("SL", record) : record \in
     Encoding("SL", Root) \cup Encoding("SL", Child) \cup {SenderRecord(Otherwise),
       SenderRecord(Renumbered), ReceiverRecord(Rejected(Root), None),
       ReceiverRecord(Root, SenderRecord(Root))}}

CRMessages ==
  {FromHolder("CR", record) : record \in
     Encoding("CR", Root) \cup Encoding("CR", Child) \cup {SenderRecord(Otherwise),
       ReceiverRecord(Otherwise, SenderRecord(Otherwise)),
       ReceiverRecord(Root, SenderRecord(Otherwise)), ReceiverRecord(Root, None)}}

\* The receipts of these are made out of the Root's or the Child's.
Receipt(f) == [ReceiptOf[Root] EXCEPT !.handoff = f.handoff,
                 !.nonce = f.handoff.interaction, !.decision = f.decision]

PRMessages ==
  {Message("PR", "p", record, 1) : record \in
     {ReceiptOf[Root], Receipt(Rejected(Root)), Receipt(Renumbered),
      [ReceiptOf[Root] EXCEPT !.nonce = i2]}}
  \cup {Message("PR", "q", record, 1) : record \in
     {ReceiptOf[Root], ReceiptOf[Child],
      [ReceiptOf[Child] EXCEPT !.handoff.previous = Receipt(Rejected(Root))],
      [ReceiptOf[Child] EXCEPT !.handoff.previous = None, !.decided = 2]}}
  \cup {Message("PR", "r", Receipt(Fact(Handoff(i3, "R", "R", 1, None, 0), 0)), 1)}

\* From a stranger's store, or sent too early.
Misplaced(m) == [m EXCEPT !.store = "r"]
Early(m) == [m EXCEPT !.sent = 0, !.record.decided = 1]

MCMessages ==
  [SL |-> LET copy == FromHolder("SL", ReceiverRecord(Root, None))
          IN  SLMessages \cup {Misplaced(copy), Early(copy),
                [copy EXCEPT !.flaw = "MALFORMED_EVIDENCE"],
                Message("PR", "q", ReceiptOf[Root], 1)},
   CR |-> LET copy == FromHolder("CR", SenderRecord(Root))
          IN  CRMessages \cup {Misplaced(copy), [copy EXCEPT !.flaw = "SIGNATURE_INVALID"],
                FromHolder("SL", SenderRecord(Root))},
   PR |-> LET copy == Message("PR", "q", ReceiptOf[Root], 1)
          IN  PRMessages \cup {Misplaced(copy), Early(copy),
                [copy EXCEPT !.flaw = "UNKNOWN_SIGNER"]}]
=============================================================================
