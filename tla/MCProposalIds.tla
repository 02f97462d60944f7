--------------------------- MODULE MCProposalIds ---------------------------
(***************************************************************************)
(* Small instances of ProposalIds.                                         *)
(***************************************************************************)
EXTENDS ProposalIds

Cuts == {x \in minted : x.kind = "cut"}

\* What is explored: one change is sealed, one seat keeps a snapshot, one parks
\* a verdict, and three cards are minted, or two and one device is lost, or two
\* cards or cuts.
Scenario ==
    /\ Cardinality(chain) <= 1
    /\ Cardinality({n \in Seat : snap[n] # 1}) <= 1
    /\ Cardinality({n \in Seat : parked[n] # {}}) <= 1
    /\ \/ (\A n \in Seat : inc[n] = 0) /\ Cuts = {} /\ Cardinality(minted) <= 3
       \/ /\ Cuts = {} /\ Cardinality(minted) <= 2
          /\ Cardinality({n \in Seat : inc[n] > 0}) <= 1
       \/ (\A n \in Seat : inc[n] = 0) /\ Cardinality(minted) <= 2
=============================================================================
