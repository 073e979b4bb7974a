------------------------------- MODULE P0Gate -------------------------------
(***************************************************************************)
(* What the P0 prototype checks of a call before it reserves a permit: the *)
(* receipts of the chain, its links, the authority status, the times and   *)
(* the action (ActionGate.authorize), under the keys it has been told to   *)
(* trust (KeyRegistry).                                                    *)
(*                                                                         *)
(* A content id is a name: of an action (its hash), of a receipt and of a  *)
(* status statement (their ids).  A signature is the public key under      *)
(* which it verifies.  What can be wrong with a receipt or a statement in  *)
(* itself is in its faults.                                                *)
(*                                                                         *)
(* Unlike the gate of Sprint 3 it is handed the chain in order, so there   *)
(* is no walk; only the ends of the chain have to be of a certain type,    *)
(* only the leaf has to refer to the status, and no skew is granted.       *)
(***************************************************************************)
EXTENDS Integers, Sequences

CONSTANT NoParent   \* previous_receipt_id of a root

(***************************************************************************)
(* A registered key: its id, the principal that owns it, the public key    *)
(* and the roles it may be used in.                                        *)
(***************************************************************************)
Roles == {"receipt", "status"}

Resolve(registry, principal, key, role) ==
  {k.public : k \in {e \in registry : /\ e.key = key
                                      /\ e.principal = principal
                                      /\ role \in e.roles}}

Because(condition, reason) == IF condition THEN {reason} ELSE {}

KeyReasons(trusted, signature, untrusted, invalid) ==
  Because(trusted = {}, untrusted) \cup
  Because(trusted # {} /\ signature \notin trusted, invalid)

(***************************************************************************)
(* _verify_receipt: the faults are a malformed receipt, a hash that is not *)
(* the proposal's, and attestations that name another key or proposal.     *)
(***************************************************************************)
ReceiptReasons(registry, r) ==
  r.faults
  \cup KeyReasons(Resolve(registry, r.sender.principal, r.sender.key, "receipt"),
                  r.sentBy, "UNTRUSTED_SENDER_KEY", "SENDER_SIGNATURE_INVALID")
  \cup KeyReasons(Resolve(registry, r.receiver.principal, r.receiver.key, "receipt"),
                  r.receivedBy, "UNTRUSTED_RECEIVER_KEY", "RECEIVER_SIGNATURE_INVALID")
  \cup Because(r.answer = "REJECT", "RECEIVER_REJECTED")

-----------------------------------------------------------------------------
(***************************************************************************)
(* The chain.                                                              *)
(***************************************************************************)
\* _scope_is_attenuated
Attenuated(parent, child) ==
  /\ child.targets \subseteq parent.targets
  /\ child.limit <= parent.limit
  /\ parent.from <= child.from
  /\ child.until <= parent.until
  /\ child.hops < parent.hops

RootReasons(root) ==
  Because(root.previous # NoParent, "PARENT_MISSING")
  \cup Because(root.type # "delegation", "ROOT_NOT_DELEGATION")
  \cup Because(\/ root.lineage.issuer # root.sender.principal
               \/ root.lineage.subject # root.receiver.principal
               \/ root.lineage.key # root.receiver.key, "ROOT_AUTHORITY_MISMATCH")

LinkReasons(root, parent, child) ==
  Because(child.previous # parent.id, "PARENT_MISSING")
  \cup Because(parent.receiver # child.sender, "PARTY_CONTINUITY_BROKEN")
  \cup Because(<<child.lineage, child.version>> # <<root.lineage, root.version>>,
               "AUTHORITY_CHAIN_MISMATCH")
  \cup Because(~Attenuated(parent.scope, child.scope), "SCOPE_EXPANSION")
  \cup Because(child.created < parent.decided, "CAUSAL_TIME_INVALID")

ChainReasons(chain) ==
  RootReasons(chain[1])
  \cup Because(\E i, j \in DOMAIN chain : i # j /\ chain[i].id = chain[j].id, "CHAIN_CYCLE")
  \cup Because(chain[Len(chain)].type # "action_intent", "LEAF_NOT_ACTION_INTENT")
  \cup UNION {LinkReasons(chain[1], chain[i - 1], chain[i]) : i \in 2 .. Len(chain)}

TimeReasons(r, now) ==
  Because(now < r.created \/ now < r.scope.from, "NOT_YET_VALID")
  \cup Because(r.decided < r.created \/ now < r.decided, "CAUSAL_TIME_INVALID")
  \cup Because(r.scope.until <= now, "EXPIRED")

(***************************************************************************)
(* The status and the action.                                              *)
(***************************************************************************)
\* _verify_status
StatementReasons(registry, s) ==
  s.faults \cup KeyReasons(Resolve(registry, s.lineage.issuer, s.key, "status"),
                           s.signedBy, "UNTRUSTED_STATUS_KEY", "STATUS_SIGNATURE_INVALID")

StatusReasons(registry, s, chain, now) ==
  IF "STATUS_INVALID" \in s.faults THEN {"STATUS_INVALID"} ELSE
    StatementReasons(registry, s)
    \cup Because(s.lineage # chain[1].lineage, "STATUS_SUBJECT_MISMATCH")
    \cup Because(s.version # chain[1].version, "AUTHORITY_VERSION_STALE")
    \cup Because(s.state = "REVOKED", "AUTHORITY_REVOKED")
    \cup Because(chain[Len(chain)].status # s.id, "REVOCATION_STATUS_STALE")
    \cup Because(now < s.issued, "STATUS_NOT_YET_VALID")
    \cup Because(s.fresh <= now, "STATUS_STALE")
    \cup Because(\E i \in DOMAIN chain : chain[i].status = s.id /\ chain[i].created < s.issued,
                 "STATUS_CAUSAL_TIME_INVALID")

\* _action_within_scope
WithinScope(action, scope) == action.target \in scope.targets /\ action.amount <= scope.limit

ActionReasons(action, chain) ==
  Because(chain[Len(chain)].hash # action.hash, "REQUEST_HASH_MISMATCH")
  \cup Because(\E i \in DOMAIN chain : ~WithinScope(action, chain[i].scope),
               "ACTION_OUT_OF_SCOPE")

(***************************************************************************)
(* Everything authorize() has against a call before it turns to the store. *)
(* A receipt that does not verify ends it before the chain is looked at.   *)
(***************************************************************************)
Reasons(registry, call, now) ==
  LET chain   == call.chain
      receipt == UNION {ReceiptReasons(registry, chain[i]) : i \in DOMAIN chain}
  IN  IF chain = <<>> THEN {"MISSING_RECEIPT"}
      ELSE IF receipt # {} THEN receipt
      ELSE ChainReasons(chain)
           \cup StatusReasons(registry, call.status, chain, now)
           \cup (UNION {TimeReasons(chain[i], now) : i \in DOMAIN chain})
           \cup ActionReasons(call.action, chain)

-----------------------------------------------------------------------------
(***************************************************************************)
(* What the store is asked for.                                            *)
(***************************************************************************)
\* scope_expiry
ScopesEnd(call) ==
  CHOOSE t \in {call.chain[i].scope.until : i \in DOMAIN call.chain} :
    \A i \in DOMAIN call.chain : t <= call.chain[i].scope.until

\* The receipt under each key it takes: the interaction, and the sender's
\* key with its sequence number.
Observations(call) ==
  UNION {{[key |-> <<"interaction", call.chain[i].interaction>>, receipt |-> call.chain[i].id],
          [key |-> <<"sender_sequence", call.chain[i].sender.key, call.chain[i].sequence>>,
           receipt |-> call.chain[i].id]} : i \in DOMAIN call.chain}

\* The replay key of an attempt: tool, local replay scope and nonce.
ReplayKey(call) ==
  <<call.tool, <<call.chain[1].lineage, call.chain[1].version>>, call.action.nonce>>
=============================================================================
