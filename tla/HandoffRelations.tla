-------------------------- MODULE HandoffRelations --------------------------
(***************************************************************************)
(* The last stage of the Sprint 2 validator: _cycle_nodes and              *)
(* _emit_validated.                                                        *)
(*                                                                         *)
(* The stages before it leave at most one candidate handoff under an       *)
(* interaction, and the interactions whose evidence contradicts itself or  *)
(* is incomplete.  Each candidate names the interaction of its parent, so  *)
(* the candidates are a graph in which everything has at most one parent,  *)
(* with circles and loose ends.  The first loop finds the circles; the     *)
(* second judges every candidate by its parent and remembers each verdict, *)
(* going down to a candidate that is judged already and up again.          *)
(*                                                                         *)
(* The loops start from the candidates in the order of their interactions. *)
(* Here they start from any.                                               *)
(***************************************************************************)
EXTENDS Integers, Sequences, FiniteSets

CONSTANTS
  Interactions,  \* interaction ids
  Handoffs,      \* what may be a candidate under an interaction
  NoParent,      \* previous_interaction_id of a root
  ClockSkew      \* max_clock_skew_seconds of the validator

\* A handoff that the receiver accepted has no faults.
ASSUME HandoffAssumption ==
  /\ IsFiniteSet(Interactions)
  /\ NoParent \notin Interactions
  /\ ClockSkew \in Nat
  /\ \A h \in Handoffs :
       /\ h.previous \in Interactions \cup {NoParent}
       /\ h.created \in Nat /\ h.decided \in Nat

VARIABLES
  candidates,  \* the candidate under each interaction that has one
  invalid,     \* other interactions of which something valid arrived
  phase,       \* where the validator is
  asked,       \* the interaction that relation_failure was called with
  here,        \* the interaction the walk has come to
  path,        \* the interactions walked over and not yet dealt with
  finished,    \* interactions that need no walk any more
  cycles,      \* interactions on a circle
  memo,        \* relation_memo: what is held against an interaction, or Sound
  issues,      \* what is reported
  validated    \* the interactions of the validated handoffs

vars == <<candidates, invalid, phase, asked, here, path, finished, cycles, memo,
          issues, validated>>

Known == DOMAIN candidates
Parent(n) == candidates[n].previous
OnPath == {path[i] : i \in DOMAIN path}

Sound == "SOUND"
Failures == {"PARENT_CYCLE", "ROOT_INVALID", "PARENT_INVALID", "PARENT_MISSING",
             "PARENT_TIME_INVALID", "PARTY_CONTINUITY_INVALID"}

Init ==
  /\ \E I \in SUBSET Interactions :
       /\ candidates \in [I -> Handoffs]
       /\ invalid \in SUBSET (Interactions \ I)
  /\ phase = "circles"
  /\ asked = NoParent
  /\ here = NoParent
  /\ path = <<>>
  /\ finished = {}
  /\ cycles = {}
  /\ memo = <<>>
  /\ issues = {}
  /\ validated = {}

-----------------------------------------------------------------------------
(***************************************************************************)
(* _cycle_nodes                                                            *)
(***************************************************************************)
StartWalk ==
  /\ phase = "circles"
  /\ here' \in Known \ finished
  /\ phase' = "walk"
  /\ UNCHANGED <<candidates, invalid, asked, path, finished, cycles, memo, issues, validated>>

Walk ==
  /\ phase = "walk"
  /\ here \in Known \ (finished \cup OnPath)
  /\ path' = Append(path, here)
  /\ here' = Parent(here)
  /\ UNCHANGED <<candidates, invalid, phase, asked, finished, cycles, memo, issues, validated>>

\* Mutant: what was walked over is not marked as finished.
EndWalkUnfinished ==
  /\ phase = "walk"
  /\ here \notin Known \ (finished \cup OnPath)
  /\ cycles' = cycles \cup
       {path[i] : i \in {j \in DOMAIN path : \E k \in 1 .. j : path[k] = here}}
  /\ phase' = "circles"
  /\ here' = NoParent
  /\ path' = <<>>
  /\ UNCHANGED <<candidates, invalid, asked, finished, memo, issues, validated>>

\* If the walk has met itself, the path from there on is a circle.
EndWalk ==
  /\ phase = "walk"
  /\ here \notin Known \ (finished \cup OnPath)
  /\ cycles' = cycles \cup
       {path[i] : i \in {j \in DOMAIN path : \E k \in 1 .. j : path[k] = here}}
  /\ finished' = finished \cup OnPath
  /\ phase' = "circles"
  /\ here' = NoParent
  /\ path' = <<>>
  /\ UNCHANGED <<candidates, invalid, asked, memo, issues, validated>>

CirclesFound ==
  /\ phase = "circles"
  /\ Known \subseteq finished
  /\ memo' = [n \in cycles |-> "PARENT_CYCLE"]
  /\ phase' = "emit"
  /\ UNCHANGED <<candidates, invalid, asked, here, path, finished, cycles, issues, validated>>

-----------------------------------------------------------------------------
(***************************************************************************)
(* _emit_validated, and relation_failure inside it                         *)
(***************************************************************************)
Judged == validated \cup {i.interaction : i \in issues}

Ask ==
  /\ phase = "emit"
  /\ asked' \in Known \ Judged
  /\ here' = asked'
  /\ phase' = "relate"
  /\ UNCHANGED <<candidates, invalid, path, finished, cycles, memo, issues, validated>>

Remember(n, verdict) ==
  memo' = [m \in DOMAIN memo \cup {n} |-> IF m = n THEN verdict ELSE memo[m]]

\* A root, or a candidate whose parent is no candidate.
JudgeAlone ==
  /\ phase = "relate"
  /\ here \notin DOMAIN memo
  /\ \/ /\ Parent(here) = NoParent
        /\ Remember(here, IF candidates[here].type = "delegation" THEN Sound
                                                                  ELSE "ROOT_INVALID")
     \/ /\ Parent(here) \notin Known \cup {NoParent}
        /\ Remember(here, IF Parent(here) \in invalid THEN "PARENT_INVALID"
                                                      ELSE "PARENT_MISSING")
  /\ UNCHANGED <<candidates, invalid, phase, asked, here, path, finished, cycles,
                 issues, validated>>

Descend ==
  /\ phase = "relate"
  /\ here \notin DOMAIN memo
  /\ Parent(here) \in Known
  /\ path' = Append(path, here)
  /\ here' = Parent(here)
  /\ UNCHANGED <<candidates, invalid, phase, asked, finished, cycles, memo, issues, validated>>

\* Mutant: anybody may hand on.
LinkFailureAnySender(parent, h) ==
  IF parent.faults # {} \/ parent.type # "delegation" THEN "PARENT_INVALID"
  ELSE IF parent.decided > h.created + ClockSkew THEN "PARENT_TIME_INVALID"
  ELSE Sound

\* What is held against a handoff whose parent is sound.
LinkFailure(parent, h) ==
  IF parent.faults # {} \/ parent.type # "delegation" THEN "PARENT_INVALID"
  ELSE IF parent.decided > h.created + ClockSkew THEN "PARENT_TIME_INVALID"
  ELSE IF parent.receiver # h.sender THEN "PARTY_CONTINUITY_INVALID"
  ELSE Sound

\* Mutant: whether the parent is sound is not asked.
AscendUnasked ==
  /\ phase = "relate"
  /\ here \in DOMAIN memo
  /\ path # <<>>
  /\ LET child == path[Len(path)]
     IN  Remember(child, LinkFailure(candidates[Parent(child)], candidates[child]))
  /\ path' = SubSeq(path, 1, Len(path) - 1)
  /\ UNCHANGED <<candidates, invalid, phase, asked, here, finished, cycles, issues, validated>>

Ascend ==
  /\ phase = "relate"
  /\ here \in DOMAIN memo
  /\ path # <<>>
  /\ LET child == path[Len(path)]
     IN  Remember(child,
                  IF memo[Parent(child)] # Sound THEN "PARENT_INVALID"
                  ELSE LinkFailure(candidates[Parent(child)], candidates[child]))
  /\ path' = SubSeq(path, 1, Len(path) - 1)
  /\ UNCHANGED <<candidates, invalid, phase, asked, here, finished, cycles, issues, validated>>

Answer ==
  /\ phase = "relate"
  /\ here \in DOMAIN memo
  /\ path = <<>>
  /\ \/ /\ memo[asked] = Sound
        /\ validated' = validated \cup {asked}
        /\ UNCHANGED issues
     \/ /\ memo[asked] # Sound
        /\ issues' = issues \cup {[reason |-> memo[asked], interaction |-> asked]}
        /\ UNCHANGED validated
  /\ phase' = "emit"
  /\ asked' = NoParent
  /\ here' = NoParent
  /\ UNCHANGED <<candidates, invalid, path, finished, cycles, memo>>

Report ==
  /\ phase = "emit"
  /\ Known \subseteq Judged
  /\ phase' = "done"
  /\ UNCHANGED <<candidates, invalid, asked, here, path, finished, cycles, memo,
                 issues, validated>>

Next ==
  \/ StartWalk \/ Walk \/ EndWalk \/ CirclesFound
  \/ Ask \/ JudgeAlone \/ Descend \/ Ascend \/ Answer \/ Report

Spec == Init /\ [][Next]_vars

\* The validator is one call in one thread and waits for nothing.
FairSpec == Spec /\ WF_vars(Next)
-----------------------------------------------------------------------------
(***************************************************************************)
(* Properties.                                                             *)
(***************************************************************************)
\* What is remembered is a verdict, and what is reported was remembered.
TypeOK ==
  /\ phase \in {"circles", "walk", "emit", "relate", "done"}
  /\ candidates \in [Known -> Handoffs]
  /\ Known \subseteq Interactions
  /\ asked \in Known \cup {NoParent}
  /\ here \in Interactions \cup {NoParent}
  /\ path \in Seq(Known)
  /\ finished \subseteq Known /\ cycles \subseteq finished
  /\ memo \in [DOMAIN memo -> Failures \cup {Sound}] /\ DOMAIN memo \subseteq Known
  /\ issues \subseteq [reason : Failures, interaction : Known]
  /\ Judged \subseteq DOMAIN memo
  /\ phase = "relate" => asked \in Known /\ here \in Known

\* No walk and no descent comes to an interaction twice, so that neither goes
\* on for ever: relation_failure has no test of its own for circles.
NeverTwice == \A i, j \in DOMAIN path : i # j => path[i] # path[j]

\* A circle is a set of interactions that are each other's parents; nothing
\* is said of walking.
Circular(n) ==
  \E S \in SUBSET Known : n \in S /\ {Parent(m) : m \in S} = S

\* _cycle_nodes never takes what leads into a circle for a part of it: the
\* evidence below it would be blamed for a circle it is not in.
OnlyCircles == \A n \in cycles : Circular(n)

\* It leaves no circle out, from wherever it starts and whatever it has
\* walked over before.  The second loop would not end on one.
AllCircles ==
  /\ \A n \in finished : Circular(n) => n \in cycles
  /\ phase \in {"emit", "relate", "done"} => Known \subseteq finished

\* Exactly the circles are marked.
MarksTheCircles == OnlyCircles /\ AllCircles

\* A delegation that was accepted before, by the one who hands on.
HangsOn(parent, h) ==
  /\ parent.faults = {} /\ parent.type = "delegation"
  /\ parent.decided <= h.created + ClockSkew
  /\ parent.receiver = h.sender

\* A handoff is well founded if it is in a set without circles in which all
\* roots are delegations and all others hang on their parents.
WellFounded(n) ==
  \E S \in SUBSET Known :
    /\ n \in S
    /\ \A m \in S :
         /\ ~Circular(m)
         /\ IF Parent(m) = NoParent
              THEN candidates[m].type = "delegation"
              ELSE /\ Parent(m) \in S
                   /\ HangsOn(candidates[Parent(m)], candidates[m])

\* What is wrong with a handoff that is not.  Below the first that fails on
\* its own account everything is blamed on the parent.
Blame(n) ==
  IF Circular(n) THEN "PARENT_CYCLE"
  ELSE IF Parent(n) = NoParent THEN "ROOT_INVALID"
  ELSE IF Parent(n) \in Known
       THEN IF WellFounded(Parent(n))
            THEN LinkFailure(candidates[Parent(n)], candidates[n])
            ELSE "PARENT_INVALID"
  ELSE IF Parent(n) \in invalid THEN "PARENT_INVALID" ELSE "PARENT_MISSING"

\* Validated are the well-founded handoffs and no others, and each of the
\* others is reported once and for its own reason, whichever handoff was
\* asked for first and has left its verdicts in the memo.
ReportsTheUnfounded ==
  /\ \A n \in validated : WellFounded(n)
  /\ \A i \in issues : ~WellFounded(i.interaction) /\ i.reason = Blame(i.interaction)
  /\ phase = "done" =>
       \A n \in Known \ validated : [reason |-> Blame(n), interaction |-> n] \in issues

\* The most steps the two loops can still take.  A walk ends with at least one
\* more interaction finished; a descent pays for the ascent, which ends with
\* one more verdict remembered for every interaction it passes.
StepsLeft ==
  LET all == Cardinality(Known)
      unwalked == Cardinality(Known \ finished)
      unjudged == Cardinality(Known \ Judged) + Cardinality(Known \ DOMAIN memo)
  IN  [circles |-> 3 * unwalked + 4 * all + 2,
       walk |-> 3 * unwalked + 4 * all + 1 - Len(path),
       emit |-> 2 * unjudged + 1, relate |-> 2 * unjudged - Len(path), done |-> 0][phase]

\* Neither loop can go on for ever, whatever the candidates point to: each step
\* leaves fewer steps to take, although the memo carries over from one
\* question to the next and relation_failure has no test for circles.
ComesCloser == [][StepsLeft' \in 0 .. StepsLeft - 1]_vars

\* Validation ends, on circular evidence too.
Ends == <>(phase = "done")
=============================================================================
