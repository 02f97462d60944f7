---------------------------- MODULE ThresholdLog ----------------------------
(***************************************************************************)
(* What the chain promises, without saying how: every seat holds a log of  *)
(* decisions, each decided once and attested by RuleM members who really   *)
(* signed it for its place in the log.  A seat only ever replaces its log  *)
(* by a better one - an extension, or a branch whose block has the smaller *)
(* link hash where the two part - and a seat signs a proposal only for a   *)
(* place above a log that has not decided it.                              *)
(***************************************************************************)
EXTENDS Integers, FiniteSets, Sequences

CONSTANTS Member, RuleM, HashLess(_, _)

VARIABLES log, signed

Ids(c) == {c[h].id : h \in DOMAIN c}

\* Every entry is decided once and backed by m signatures of A.
Attested(c, A) ==
    \A h \in 1 .. Len(c) :
        /\ c[h].id \notin Ids(SubSeq(c, 1, h - 1))
        /\ Cardinality(c[h].by) >= RuleM
        /\ \A m \in c[h].by : <<m, c[h].id, h>> \in A

Extends(c, d) == Len(d) <= Len(c) /\ SubSeq(c, 1, Len(d)) = d

\* At the height where they part, c has the smaller hash.
Outranks(c, d) ==
    \E f \in 1 .. Len(d) :
        /\ f <= Len(c)
        /\ SubSeq(c, 1, f - 1) = SubSeq(d, 1, f - 1)
        /\ HashLess(SubSeq(c, 1, f), SubSeq(d, 1, f))

\* Seat n may have signed a when its log is c.
MaySign(n, c, a) ==
    /\ a[1] = n
    /\ a[3] \in 1 .. Len(c) + 1
    /\ a[2] \notin Ids(SubSeq(c, 1, a[3] - 1))

Init == log = [n \in Member |-> <<>>] /\ signed = {}

\* A step of seat n: it may sign, and move to a better log.
Step(n) ==
    /\ signed \subseteq signed'
    /\ \A a \in signed' \ signed : MaySign(n, log'[n], a)
    /\ log' = [log EXCEPT ![n] = log'[n]]
    /\ Extends(log'[n], log[n]) \/ Outranks(log'[n], log[n])
    /\ Attested(log'[n], signed')

Next == \E n \in Member : Step(n)

Spec == Init /\ [][Next]_<<log, signed>>
=============================================================================
