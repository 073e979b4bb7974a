------------------------- MODULE MCDeliverySchedule -------------------------
(***************************************************************************)
(* Batches, policies and overrides for DeliverySchedule: two stores, each  *)
(* the origin of messages to the other.                                    *)
(***************************************************************************)
EXTENDS DeliverySchedule

Forth == [origin |-> "A", destination |-> "B"]
Back == [origin |-> "B", destination |-> "A"]

Window(link, startsAt, endsAt) ==
  [link |-> link, startsAt |-> startsAt, endsAt |-> endsAt]

Policy(maxDelay, loses, duplicates, partitions, withheld) ==
  [minDelay |-> 0, maxDelay |-> maxDelay, loses |-> loses,
   duplicates |-> duplicates, partitions |-> partitions, withheld |-> withheld]

\* Second copies sort before first ones, and the second message before the first.
HashRank(s, c) == 10 - 3 * c - s

Batch(links) ==
  [s \in DOMAIN links |-> [link |-> links[s], sentAt |-> s - 1]]

MCBatches == {Batch(<<Forth>>), Batch(<<Forth, Forth>>), Batch(<<Forth, Back>>)}

\* Partitions that follow on each other, overlap, lie in each other, begin with
\* the departure or after it, or close the other direction.
MCWindows ==
  {Window(Forth, 0, 1), Window(Forth, 1, 2), Window(Forth, 0, 3),
   Window(Forth, 1, 3), Window(Forth, 2, 4), Window(Back, 1, 3)}

MCPolicies ==
  {Policy(2, {FALSE}, {FALSE}, W, {}) : W \in SUBSET MCWindows}
  \cup {Policy(1, BOOLEAN, {TRUE}, W, withheld) :
          W \in {{}, {Window(Forth, 1, 2), Window(Forth, 2, 4)}}, withheld \in {{}, {2}}}
  \cup {Policy(0, {TRUE}, BOOLEAN, {}, {1})}
  \cup {[Policy(2, BOOLEAN, {FALSE}, {Window(Forth, 2, 4)}, {}) EXCEPT !.minDelay = 1]}

Prescribed(s, c, disposition, delay) ==
  [slot |-> s, copy |-> c, disposition |-> disposition, delay |-> delay]

MCOverrides ==
  {{},
   {Prescribed(2, 0, "LOST", Drawn), Prescribed(1, 1, "DELIVER", Drawn)},
   {Prescribed(1, 0, "DELIVER", 2), Prescribed(1, 2, "WITHHELD", Drawn)},
   {Prescribed(1, 0, "LOST", Drawn), Prescribed(1, 0, "DELIVER", 1)}}
=============================================================================
