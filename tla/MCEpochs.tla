----------------------------- MODULE MCEpochs -----------------------------
(***************************************************************************)
(* Small instances of Epochs.                                              *)
(***************************************************************************)
EXTENDS Epochs

\* The seats that are there at the start are interchangeable.
Seats == Permutations(Member \ Down)

NothingSaved ==
    \A n \in Member : Len(node[n].disk.branch) = node[n].base /\ ~node[n].disk.armed

NobodyBack == \A n \in Member : inc[n] = 0

\* A frame may be held twice: the relays deliver again what does not open.
HeldTwice == {n \in Member : Cardinality(ToSet(node[n].hold)) < Len(node[n].hold)}

\* What is explored: races of two commits with one more device lost, the same
\* races with one kill, a frame that outruns two commits, two frames of any
\* devices around one re-admission, and frames held twice at one seat.
Scenario ==
    \/ Frames = {} /\ killed = {} /\ NothingSaved /\ HeldTwice = {}
    \/ Frames = {} /\ loses = 0 /\ HeldTwice = {}
    \/ /\ loses = 0 /\ killed = {} /\ NothingSaved
       /\ \/ NobodyBack /\ Cardinality(Frames) <= 1 /\ HeldTwice = {}
          \/ Cardinality(Commits) <= 1 /\ HeldTwice = {}
          \/ NobodyBack /\ Cardinality(Frames) + Cardinality(Commits) <= 2 /\ Cardinality(HeldTwice) <= 1
=============================================================================
