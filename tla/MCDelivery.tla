----------------------------- MODULE MCDelivery -----------------------------
(***************************************************************************)
(* Small instances of Delivery: the sender's log holds three envelopes of  *)
(* its own and, between them, one that is foreign.                         *)
(***************************************************************************)
EXTENDS Delivery

OwnEnvelopes == {1, 2, 4}

\* A log longer than the window: what comes late has aged out.
LongLog == {1, 2, 3, 4, 6}

\* The log is written before its first envelope goes out, and a sheet is read
\* before the next one is written.
WrittenFirst == (through > 0 => len = LogEnd) /\ Cardinality(sheets) <= 1

\* What is explored: lost frames while nothing goes to disk, or one kill (of
\* either side) and one opening of the valve with few frames.
NothingSaved == genDisk = 0 /\ \A n \in Receiver : recv[n].winDisk = NoWindow /\ recv[n].usedDisk = {}

Scenario ==
    \/ crashes = 0 /\ valves = 0 /\ NothingSaved
    \/ lost = 0 /\ Cardinality(frames) <= 3
=============================================================================
