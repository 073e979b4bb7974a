-------------------------- MODULE BufferingNetwork --------------------------
(***************************************************************************)
(* What the Sprint 1 delivery promises its observers: a network of         *)
(* one-way links that close for a time and buffer what they carry until    *)
(* they open.                                                              *)
(*                                                                         *)
(* Copies of messages are put into the network.  When the clock runs, a    *)
(* copy enters the inbox of its store as soon as its delay is over and its *)
(* link is open, never sooner, never later, never twice.  An inbox only    *)
(* grows at its end.  DeliverySchedule, which has no clock and computes    *)
(* arrivals beforehand, is shown to implement this.                        *)
(***************************************************************************)
EXTENDS Integers, Sequences, SequencesExt

CONSTANTS
  Stores,        \* evidence stores
  Windows,       \* every time for which a link may be closed
  Copies         \* every copy of a message

VARIABLES
  now,           \* the second the clock shows, -1 before it runs
  closures,      \* when which link is closed
  transit,       \* copies on their way
  inbox          \* inbox[s]: what arrived at the store s, first to last

networkVars == <<now, closures, transit, inbox>>

Init ==
  /\ now = -1
  /\ closures \in SUBSET Windows
  /\ transit = {}
  /\ inbox = [s \in Stores |-> <<>>]

Closed(link, t) ==
  \E w \in closures : w.link = link /\ t \in w.startsAt .. w.endsAt - 1

Put(copy) ==
  /\ now = -1
  /\ copy \in Copies
  /\ transit' = transit \cup {copy}
  /\ UNCHANGED <<now, closures, inbox>>

\* A second passes.  Copies that arrive in the same second do so in any order.
Tick ==
  /\ now' = now + 1
  /\ LET arriving == {c \in transit : c.readyAt <= now' /\ ~Closed(c.link, now')}
     IN  /\ transit' = transit \ arriving
         /\ \A s \in Stores :
              \E batch \in SetToSeqs({c \in arriving : c.link.destination = s}) :
                inbox'[s] = inbox[s] \o batch
  /\ UNCHANGED closures

Next ==
  \/ \E copy \in transit' : Put(copy)
  \/ Tick

Spec == Init /\ [][Next]_networkVars
=============================================================================
