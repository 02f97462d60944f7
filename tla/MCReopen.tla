------------------------------ MODULE MCReopen ------------------------------
(***************************************************************************)
(* A small instance of Reopen.                                             *)
(***************************************************************************)
EXTENDS Reopen

\* What is explored: four records with snapshots anywhere between them while
\* the chain gets one block, or three records and a change of branches.
Scenario ==
    \/ reorgs = 0 /\ seat.head <= 1
    \/ snap.at = 0 /\ Len(log) <= 3
=============================================================================
