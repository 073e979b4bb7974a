---------------------------- MODULE PermitLedger ----------------------------
(***************************************************************************)
(* What a local permit store promises, whatever database it is kept in:    *)
(* one attempt per replay key.  A replay key (tool, replay scope, action   *)
(* nonce) is free, then reserved once, then attempted once, then closed    *)
(* with an outcome.  The side effect of a key happens only after its       *)
(* attempt was recorded and at most once, and a key is never freed again:  *)
(* "A crash after ATTEMPTED is not retried automatically".                 *)
(*                                                                         *)
(* NeutralPermitStore and P0PermitStore are both shown to implement this   *)
(* specification.                                                          *)
(***************************************************************************)
CONSTANT ReplayKeys      \* every (tool, scope, nonce) a request may carry

VARIABLES
  entry,                 \* entry[k]: how far the key k has come
  performed              \* performed[k]: whether the side effect has happened

ledgerVars == <<entry, performed>>

Stages == {"FREE", "RESERVED", "ATTEMPTED", "SUCCEEDED", "FAILED"}

LedgerTypeOK ==
  /\ entry \in [ReplayKeys -> Stages]
  /\ performed \in [ReplayKeys -> BOOLEAN]

Init ==
  /\ entry = [k \in ReplayKeys |-> "FREE"]
  /\ performed = [k \in ReplayKeys |-> FALSE]

Reserve(k) ==
  /\ entry[k] = "FREE"
  /\ entry' = [entry EXCEPT ![k] = "RESERVED"]
  /\ UNCHANGED performed

Attempt(k) ==
  /\ entry[k] = "RESERVED"
  /\ entry' = [entry EXCEPT ![k] = "ATTEMPTED"]
  /\ UNCHANGED performed

\* The side effect: only between the recorded attempt and its recorded
\* outcome, and only once.
Perform(k) ==
  /\ entry[k] = "ATTEMPTED"
  /\ ~performed[k]
  /\ performed' = [performed EXCEPT ![k] = TRUE]
  /\ UNCHANGED entry

\* An outcome is recorded only for a side effect that was tried.
Close(k) ==
  /\ entry[k] = "ATTEMPTED"
  /\ performed[k]
  /\ \E outcome \in {"SUCCEEDED", "FAILED"} :
       entry' = [entry EXCEPT ![k] = outcome]
  /\ UNCHANGED performed

Next == \E k \in ReplayKeys : Reserve(k) \/ Attempt(k) \/ Perform(k) \/ Close(k)

Spec == Init /\ [][Next]_ledgerVars
=============================================================================
