---------------------------- MODULE PreparedGate ----------------------------
(***************************************************************************)
(* From candidates to a verdict: the last stage of the validator, then     *)
(* prepare_common_gate_input, then evaluate().                             *)
(*                                                                         *)
(* The validator and the gate look at the same chains with code of their   *)
(* own.  The validator goes from every handoff to its parents and drops    *)
(* what does not hang together; the gate walks one chain and trusts        *)
(* nothing.  Here one runs on what the other has left.                     *)
(***************************************************************************)
EXTENDS CommonGate

CONSTANTS
  Interactions,    \* interaction ids
  ValidationSkew   \* max_clock_skew_seconds of the validator

ASSUME PreparedAssumption ==
  /\ IsFiniteSet(Interactions) /\ NoParent \notin Interactions
  /\ ValidationSkew \in Nat
  /\ \A v \in Views : v.previous \in Interactions \cup {NoParent}

VARIABLES candidates, invalid, phase, asked, here, path, finished, cycles, memo,
          issues, validated

Validator == INSTANCE HandoffRelations WITH Handoffs <- Views, ClockSkew <- ValidationSkew

validation == <<candidates, invalid, phase, asked, here, path, finished, cycles,
                memo, issues, validated>>

allvars == <<vars, validation>>

NoInput == [views |-> {}, statuses |-> {}, now |-> 0, barrier |-> "none", issues |-> {}]

PreparedInit ==
  /\ Validator!Init
  /\ \A n \in DOMAIN candidates : candidates[n].interaction = n
  /\ input = NoInput
  /\ pc = "prepare"
  /\ current = Nowhere
  /\ chain = <<>>
  /\ index = 0
  /\ reasons = {}
  /\ decision = Undecided

Validate == Validator!Next /\ UNCHANGED vars

\* Mutant: if some of the evidence is valid, the rest is ignored.
PrepareValidated ==
  /\ phase = "done" /\ pc = "prepare"
  /\ \E S \in SUBSET Statuses, t \in 0 .. MaxTime :
       /\ \A n \in DOMAIN candidates : candidates[n].decided <= t + ValidationSkew
       /\ input' = [views |-> {candidates[n] : n \in validated}, statuses |-> S,
                    now |-> t, barrier |-> "none", issues |-> {}]
  /\ pc' = "admit"
  /\ UNCHANGED <<current, chain, index, reasons, decision, validation>>

\* Whatever the earlier stages refused they have reported, the handoffs that
\* were decided after the cutoff among it.
Prepare ==
  /\ phase = "done" /\ pc = "prepare"
  /\ \E S \in SUBSET Statuses, t \in 0 .. MaxTime, f \in SUBSET Issues :
       /\ \A n \in DOMAIN candidates : candidates[n].decided <= t + ValidationSkew
       /\ invalid # {} => f # {}
       /\ input' = [views |-> {candidates[n] : n \in validated}, statuses |-> S,
                    now |-> t, barrier |-> "none",
                    issues |-> f \cup {i.reason : i \in issues}]
  /\ pc' = "admit"
  /\ UNCHANGED <<current, chain, index, reasons, decision, validation>>

Evaluate == Next /\ UNCHANGED validation

PreparedNext == Validate \/ Prepare \/ Evaluate

PreparedSpec == PreparedInit /\ [][PreparedNext]_allvars
-----------------------------------------------------------------------------
\* What the gate pauses for when a chain does not hang together.
BrokenChain ==
  {"CHAIN_CYCLE", "CHAIN_AMBIGUOUS", "PARENT_MISSING", "ROOT_NOT_DELEGATION",
   "INTERMEDIATE_NOT_DELEGATION", "PARTY_CONTINUITY_BROKEN"}

\* Gate and validator agree on what hangs together: on evidence that was
\* validated without an issue the gate never finds a circle, a gap, a fork or
\* a stranger, and nobody but the last receiver has rejected.
GateFindsNoBrokenChain ==
  pc # "prepare" /\ input.issues = {} =>
    /\ reasons \cap BrokenChain = {}
    /\ \A i \in DOMAIN chain : i > 1 =>
         /\ chain[i].faults = {}
         /\ chain[i].decided <= chain[i - 1].created + ValidationSkew

\* Nothing that was delivered is passed over: one handoff that is not in
\* order keeps the gate from allowing, if it has to do with the action or not.
OneBadHandoffPauses ==
  Allowed =>
    /\ invalid = {} /\ issues = {}
    /\ input.views = {candidates[n] : n \in DOMAIN candidates}
=============================================================================
