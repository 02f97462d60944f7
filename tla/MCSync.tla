------------------------------- MODULE MCSync -------------------------------
(***************************************************************************)
(* Small instances of Sync.                                                *)
(***************************************************************************)
EXTENDS Sync

\* What is explored: one cut that every seat may have signed.
Scenario == Cardinality(cutSigs) <= 2 /\ \A n \in Member : Len(log[n]) <= 6

=============================================================================
