------------------------------ MODULE MCVotes ------------------------------
(***************************************************************************)
(* Small instances of Votes.                                               *)
(***************************************************************************)
EXTENDS Votes

\* One seat that is not the proposer may apply a foreign block.
OneHeadMoves == [n \in Member |-> IF n = 2 THEN 1 ELSE 0]

\* What is explored: three votes that cross while the heads stand still, two
\* votes around a re-base, or two votes around a re-serve.
Scenario ==
    LET still == \A n \in Member : seat[n].head = 0
    IN  \/ serves = 0 /\ votes <= 3 /\ still
        \/ serves = 0 /\ votes <= 2
        \/ votes <= 2 /\ still
=============================================================================
