----------------------------- MODULE VoteRules -----------------------------
(***************************************************************************)
(* What one seat does to its view of one vote: the signatures it collects, *)
(* the declines, the withdrawal, the voices that outrun the card and the   *)
(* seal (proposals.rs, chain/governance.rs, the accept arms of             *)
(* net/ingest.rs).  Votes runs these rules on every seat of a republic,    *)
(* Reopen on one seat and its disk.                                        *)
(***************************************************************************)
EXTENDS Integers, FiniteSets

CONSTANTS
    Member,     \* the seats; names are ordered, so they are numbers
    Minter,     \* the seat that proposes: the id falls on its stride
    RuleM       \* m, the approval threshold

ASSUME MemberAssumption == Member \subseteq Nat /\ IsFiniteSet(Member) /\ Minter \in Member

ASSUME RuleAssumption == RuleM \in Nat \ {0} /\ RuleM <= Cardinality(Member)

Card == {"none", "open", "applied", "rejected", "withdrawn"}

InitSeat == [card |-> "none",   \* the record's state; rejected splits off withdrawn
             by   |-> Minter,   \* who delivered the card first
             decl |-> {},       \* decliners
             sh   |-> 0,        \* the height of the collected signatures, 0: none collected
             sigs |-> {},       \* pending_sigs
             ver  |-> {},       \* the signers verified among them
             own  |-> FALSE,    \* own_approvals holds the id
             park |-> {},       \* pending_declines
             parkW |-> FALSE,   \* pending_withdrawals
             held |-> FALSE,    \* seal_held
             head |-> 0]

Target(s) == s.head + 1

\* Approval can no longer reach the threshold beyond this many declines.
VetoRoom == Cardinality(Member) - RuleM

LowestNamed(S, k) == {x \in S : Cardinality({y \in S : y < x}) < k}

InOrder(S) == [i \in 1 .. Cardinality(S) |->
                  CHOOSE x \in S : Cardinality({y \in S : y < x}) = i - 1]

(***************************************************************************)
(* Signatures.                                                             *)
(***************************************************************************)
ApprovalVerifies(s, h) == h = Target(s) /\ s.card # "none"

\* collect_sig: a terminal card collects nothing; under its own name a seat
\* holds only a verified signature; a newer height clears the set, an older one
\* is ignored.  The verdict on a replaced signature goes with it.
CollectSig(s, n, b, h, verified) ==
    IF \/ s.card \notin {"none", "open"}
       \/ b = n /\ ~verified
       \/ h < s.sh
       \/ h = s.sh /\ b \in s.ver /\ ~verified
    THEN s
    ELSE [s EXCEPT !.sh   = h,
                   !.sigs = (IF h > s.sh THEN {} ELSE @) \cup {b},
                   !.ver  = IF h > s.sh THEN {} ELSE @ \ {b}]

\* The mark of a verified signature is its caller's, and set where a set of
\* signatures is kept, whether this one was collected into it or not.
MarkVerified(s, b) == IF s.sh > 0 THEN [s EXCEPT !.ver = @ \cup {b}] ELSE s

Collect(s, n, b, h, verified) ==
    LET t == CollectSig(s, n, b, h, verified)
    IN  IF verified THEN MarkVerified(t, b) ELSE t

\* A current decliner's signature never counts.
Counted(s) == s.sigs \ s.decl

Sealable(s) ==
    s.card = "open" /\ s.sh = Target(s) /\ Cardinality(Counted(s)) >= RuleM

\* A seal that has to wait for the pacing round is forgotten.
TryCommitFaulty(s, paced) ==
    IF ~Sealable(s) \/ ~paced THEN s
    ELSE [s EXCEPT !.card = "applied", !.head = @ + 1,
                   !.sh = 0, !.sigs = {}, !.ver = {}, !.held = FALSE]

\* A seal waits for the pacing round after the head moved, else it appends.
TryCommit(s, paced) ==
    IF ~Sealable(s) THEN s
    ELSE IF ~paced THEN [s EXCEPT !.held = TRUE]
    ELSE [s EXCEPT !.card = "applied", !.head = @ + 1,
                   !.sh = 0, !.sigs = {}, !.ver = {}, !.held = FALSE]

Sign(s, n) == Collect([s EXCEPT !.own = TRUE], n, n, Target(s), TRUE)

\* The applier's Approved arm: an approval kept in the log clears the
\* decline of the member it names.
ApplyApproved(s, b) == IF s.card = "open" THEN [s EXCEPT !.decl = @ \ {b}] ELSE s

(***************************************************************************)
(* Declines and the withdrawal.                                            *)
(***************************************************************************)

\* The own decision register survives the own decline.
RegisterDeclineFaulty(s, n, b) ==
    IF s.card = "none" THEN [s EXCEPT !.park = @ \cup {b}]
    ELSE IF s.card # "open" \/ b \in s.decl THEN s
    ELSE LET d == s.decl \cup {b}
         IN  [s EXCEPT !.decl = d, !.sigs = @ \ {b}, !.ver = @ \ {b},
                       !.card = IF Cardinality(d) > VetoRoom THEN "rejected" ELSE "open"]

\* The first vote of a peer counts: a decline over its collected signature is
\* ignored.
FirstVoteFaulty(s, n, b) ==
    IF s.card = "none" THEN [s EXCEPT !.park = @ \cup {b}]
    ELSE IF s.card # "open" \/ b \in s.decl \/ b \in s.sigs \ {n} THEN s
    ELSE LET d == s.decl \cup {b}
         IN  [s EXCEPT !.decl = d, !.sigs = @ \ {b}, !.ver = @ \ {b},
                       !.own  = @ /\ b # n,
                       !.card = IF Cardinality(d) > VetoRoom THEN "rejected" ELSE "open"]

\* The verdict on a retracted signature survives it.
VerdictSurvivesFaulty(s, n, b) ==
    IF s.card = "none" THEN [s EXCEPT !.park = @ \cup {b}]
    ELSE IF s.card # "open" \/ b \in s.decl THEN s
    ELSE LET d == s.decl \cup {b}
         IN  [s EXCEPT !.decl = d, !.sigs = @ \ {b}, !.own  = @ /\ b # n,
                       !.card = IF Cardinality(d) > VetoRoom THEN "rejected" ELSE "open"]

\* One member's voice: parked without a card, else it retracts the member's
\* signature (and the own decision) and may tip the card.
RegisterDecline(s, n, b) ==
    IF s.card = "none" THEN [s EXCEPT !.park = @ \cup {b}]
    ELSE IF s.card # "open" \/ b \in s.decl THEN s
    ELSE LET d == s.decl \cup {b}
         IN  [s EXCEPT !.decl = d, !.sigs = @ \ {b}, !.ver = @ \ {b},
                       !.own  = @ /\ b # n,
                       !.card = IF Cardinality(d) > VetoRoom THEN "rejected" ELSE "open"]

\* The voices of D, parked until the card came.  The park is drained one by
\* one and stops counting once the card is rejected.
DrainOrders(s) ==
    IF Cardinality(s.park) <= VetoRoom THEN {s.park}
    ELSE {D \in SUBSET s.park : Cardinality(D) = VetoRoom + 1}

RegisterParkedDeclines(s, n, D) ==
    IF s.card # "open" THEN [s EXCEPT !.park = {}]
    ELSE [s EXCEPT !.park = {}, !.decl = D, !.sigs = @ \ D, !.ver = @ \ D,
                   !.own  = @ /\ n \notin D,
                   !.card = IF Cardinality(D) > VetoRoom THEN "rejected" ELSE "open"]

\* Whoever delivered the card first is taken for the proposer.
RegisterWithdrawFaulty(s, b) ==
    IF s.card = "none" THEN [s EXCEPT !.parkW = TRUE]
    ELSE IF s.card # "open" \/ b # s.by THEN s
    ELSE [s EXCEPT !.card = "withdrawn", !.sh = 0, !.sigs = {}, !.ver = {},
                   !.own = FALSE, !.park = {}]

\* Only the seat on whose stride the id falls may pull the proposal back.
RegisterWithdraw(s, b) ==
    IF s.card = "none" THEN [s EXCEPT !.parkW = TRUE]
    ELSE IF s.card # "open" \/ b # Minter THEN s
    ELSE [s EXCEPT !.card = "withdrawn", !.sh = 0, !.sigs = {}, !.ver = {},
                   !.own = FALSE, !.park = {}]

\* A card that is new here: signatures that outran it are verified now, then
\* a parked withdrawal stands, then the parked voices D.
ReceiveProposed(s, n, from, D) ==
    IF s.card # "none" THEN s
    ELSE LET known == [s EXCEPT !.card = "open", !.by = from,
                                !.ver = IF s.sh = Target(s) THEN @ \cup s.sigs ELSE @]
             pulled == IF s.parkW
                       THEN RegisterWithdraw([known EXCEPT !.parkW = FALSE], Minter)
                       ELSE known
         IN  RegisterParkedDeclines(pulled, n, D)

\* An approval over its author's own link retracts the author's decline.
ClearDecline(s, from, b) ==
    IF b = from /\ s.card = "open" THEN [s EXCEPT !.decl = @ \ {b}] ELSE s

\* What deliver_gated asks before it keeps a vote.
Landed(s, b, h) == b \in s.sigs /\ s.sh = h

\* A collected approval leaves the decline of its author standing.
ReceiveApprovalFaulty(s, n, from, b, h, paced) ==
    IF h > Target(s) THEN s
    ELSE TryCommit(Collect(s, n, b, h, ApprovalVerifies(s, h)), paced)

\* The ingest of an approval: dropped beyond the next height, else collected
\* and tried.  It is kept in the own log (the applier runs) if the signature is
\* held afterwards: a dropped one too, where a replay left a set beyond the
\* next height.
ReceiveApproval(s, n, from, b, h, paced) ==
    LET c == ClearDecline(s, from, b)
        t == IF h > Target(s) THEN c
             ELSE TryCommit(Collect(c, n, b, h, ApprovalVerifies(c, h)), paced)
    IN  IF Landed(t, b, h) THEN ApplyApproved(t, b) ELSE t
=============================================================================
