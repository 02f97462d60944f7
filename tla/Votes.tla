------------------------------- MODULE Votes -------------------------------
(***************************************************************************)
(* One proposal from its card to its end: approvals, declines, the         *)
(* proposer's withdrawal, voices that outrun the card, and the re-serve    *)
(* of open governance to a seat that catches up, over every seat of a      *)
(* republic (VoteRules has what each of them does to its own view).        *)
(*                                                                         *)
(* Every seat's log is its outbox, and the delivery guarantee hands each   *)
(* receiver the events of one sender once and in order (module Delivery),  *)
(* so a link is the log of the sender and how much of it the receiver has  *)
(* got.  Links of different senders are not ordered against each other.    *)
(*                                                                         *)
(* The other blocks of the chain are a counter, head: what a foreign block *)
(* does to this vote is to move the height its signatures bind.  Which     *)
(* branch wins when two blocks take one height is the subject of Chain.    *)
(***************************************************************************)
EXTENDS VoteRules, Sequences

CONSTANTS
    MaxVotes,   \* bound: how many decisions the operators take in all
    MaxServes,  \* bound: how often open governance is re-served in all
    MaxHead     \* bound: how many foreign blocks each seat applies

ASSUME BoundAssumption == MaxVotes \in Nat /\ MaxServes \in Nat /\ MaxHead \in [Member -> Nat]

VARIABLES
    seat,       \* the vote as each seat sees it
    log,        \* the events each seat recorded as its own, in order
    got,        \* got[n][b]: how many events of b seat n has been handed
    sealed,     \* the blocks sealed for this proposal
    will,       \* each operator's newest decision: "none", "approve", "decline"
    votes,      \* how many decisions the operators have taken
    serves,     \* how many re-serves there were
    overtaken   \* the seats whose card arrived after a parked voice

vars == <<seat, log, got, sealed, will, votes, serves, overtaken>>

Event == [t : {"proposed", "declined", "withdrawn"}, by : Member]
            \cup [t : {"approved"}, by : Member, h : Nat]

(***************************************************************************)
(* Steps.  Step puts seat n into state t after recording the events ev;    *)
(* a seat that went from open to applied by its own seal made a block of   *)
(* the lowest-named m counted signers of u, its state just before.         *)
(***************************************************************************)
SealStep(n, u, t) ==
    sealed' = IF u.card = "open" /\ t.card = "applied"
              THEN sealed \cup {[by |-> n, h |-> t.head,
                                 signers |-> LowestNamed(Counted(u), RuleM)]}
              ELSE sealed

Step(n, t, ev) ==
    /\ seat' = [seat EXCEPT ![n] = t]
    /\ log'  = [log EXCEPT ![n] = @ \o ev]

Approved(b, h) == [t |-> "approved", by |-> b, h |-> h]
Says(what, b) == [t |-> what, by |-> b]

Init ==
    /\ seat = [n \in Member |-> InitSeat]
    /\ log = [n \in Member |-> <<>>]
    /\ got = [n \in Member |-> [b \in Member |-> 0]]
    /\ sealed = {} /\ overtaken = {} /\ serves = 0
    /\ will = [n \in Member |-> "none"]
    /\ votes = 0

\* The card, and the proposer's own signature where its config says so.
Propose(n) ==
    \E cosign, paced \in BOOLEAN :
        LET s == [seat[n] EXCEPT !.card = "open", !.by = n]
            u == IF cosign THEN Sign(s, n) ELSE s
            t == TryCommit(u, paced)
        IN  /\ n = Minter /\ log[n] = <<>>
            /\ Step(n, t, <<Says("proposed", n)>>
                             \o (IF cosign THEN <<Approved(n, Target(s))>> ELSE <<>>))
            /\ SealStep(n, u, t)
            /\ will' = [will EXCEPT ![n] = IF cosign THEN "approve" ELSE @]
            /\ UNCHANGED <<got, votes, serves, overtaken>>

Decide(n, w) ==
    /\ votes < MaxVotes
    /\ votes' = votes + 1
    /\ will' = [will EXCEPT ![n] = w]

\* An approve over the own standing decline retracts it.
CmdApprove(n) ==
    \E paced \in BOOLEAN :
        LET u == Sign([seat[n] EXCEPT !.decl = @ \ {n}], n)
            t == TryCommit(u, paced)
        IN  /\ seat[n].card = "open"
            /\ Decide(n, "approve")
            /\ Step(n, t, <<Approved(n, Target(seat[n]))>>)
            /\ SealStep(n, u, t)
            /\ UNCHANGED <<got, serves, overtaken>>

CmdDecline(n) ==
    /\ seat[n].card = "open" /\ n \notin seat[n].decl
    /\ Decide(n, "decline")
    /\ Step(n, RegisterDecline(seat[n], n, n), <<Says("declined", n)>>)
    /\ UNCHANGED <<got, sealed, serves, overtaken>>

CmdWithdraw(n) ==
    /\ seat[n].card = "open" /\ seat[n].by = n
    /\ Step(n, RegisterWithdraw(seat[n], n), <<Says("withdrawn", n)>>)
    /\ UNCHANGED <<got, sealed, will, votes, serves, overtaken>>

\* The next event of b reaches n (deliver_gated).
Deliver(n, b) ==
    LET s == seat[n]
        e == log[b][got[n][b] + 1]
    IN  /\ n # b /\ got[n][b] < Len(log[b])
        /\ got' = [got EXCEPT ![n][b] = @ + 1]
        /\ UNCHANGED <<log, will, votes, serves>>
        /\ \/ /\ e.t = "proposed"
              /\ \E D \in DrainOrders(s) :
                    seat' = [seat EXCEPT ![n] = ReceiveProposed(s, n, b, D)]
              /\ overtaken' = IF s.card = "none" /\ s.park # {}
                              THEN overtaken \cup {n} ELSE overtaken
              /\ UNCHANGED sealed
           \/ /\ e.t = "declined" /\ e.by = b
              /\ seat' = [seat EXCEPT ![n] = RegisterDecline(s, n, b)]
              /\ UNCHANGED <<sealed, overtaken>>
           \/ /\ e.t = "withdrawn" /\ e.by = b
              /\ seat' = [seat EXCEPT ![n] = RegisterWithdraw(s, b)]
              /\ UNCHANGED <<sealed, overtaken>>
           \/ /\ e.t = "approved"
              /\ \E paced \in BOOLEAN :
                    LET c == ClearDecline(s, b, e.by)
                        u == Collect(c, n, e.by, e.h, ApprovalVerifies(c, e.h))
                        t == ReceiveApproval(s, n, b, e.by, e.h, paced)
                    IN  seat' = [seat EXCEPT ![n] = t] /\ SealStep(n, u, t)
              /\ UNCHANGED overtaken

\* The delivery tick seals what the pacing round held back.
DrainHeldSeals(n) ==
    LET u == [seat[n] EXCEPT !.held = FALSE]
        t == TryCommit(u, TRUE)
    IN  /\ seat[n].held
        /\ Step(n, t, <<>>) /\ SealStep(n, u, t)
        /\ UNCHANGED <<got, will, votes, serves, overtaken>>

\* A foreign block moves the head; signatures bound below it are swept, and
\* the seat signs again what its operator had approved and is still open.
HeadMoves(n) ==
    \E paced \in BOOLEAN :
        LET s == [seat[n] EXCEPT !.head = @ + 1]
            swept == [s EXCEPT !.sh = 0, !.sigs = {}, !.ver = {}]
            again == s.sh > 0 /\ s.own /\ s.card = "open"
            u == IF again THEN Sign(swept, n) ELSE IF s.sh > 0 THEN swept ELSE s
            t == TryCommit(u, paced)
        IN  /\ seat[n].head < MaxHead[n]
            /\ Step(n, t, IF again THEN <<Approved(n, Target(s))>> ELSE <<>>)
            /\ SealStep(n, u, t)
            /\ UNCHANGED <<got, will, votes, serves, overtaken>>

\* A block of this proposal that fits on the head decides the card for good,
\* whatever it said before.
ReceiveBlock(n) ==
    /\ seat[n].card # "applied"
    /\ \E k \in sealed :
        /\ k.h = Target(seat[n])
        /\ seat' = [seat EXCEPT ![n].card = "applied", ![n].head = @ + 1, ![n].sh = 0,
                                ![n].sigs = {}, ![n].ver = {}]
    /\ UNCHANGED <<log, got, sealed, will, votes, serves, overtaken>>

\* serve_open_governance: the open card with its verified signatures, the own
\* withdrawal and the own decline, each recorded here as well as sent.
ServeOpenGovernance(n) ==
    LET s == seat[n]
        open == s.card = "open"
        sound == s.sigs \cap s.ver
        relayed == IF open THEN InOrder(sound) ELSE <<>>
        declines == n \in s.park \/ (n \in s.decl /\ s.card \in {"open", "rejected"})
        kept == IF open THEN [s EXCEPT !.decl = @ \ sound, !.own = @ \/ n \in sound] ELSE s
    IN  /\ serves < MaxServes /\ s.card # "none"
        /\ serves' = serves + 1
        /\ Step(n, IF declines THEN RegisterDecline(kept, n, n) ELSE kept,
                (IF open THEN <<Says("proposed", n)>> ELSE <<>>)
                   \o [i \in DOMAIN relayed |-> Approved(relayed[i], s.sh)]
                   \o (IF s.card = "withdrawn" /\ s.by = n THEN <<Says("withdrawn", n)>> ELSE <<>>)
                   \o (IF declines THEN <<Says("declined", n)>> ELSE <<>>))
        /\ UNCHANGED <<got, sealed, will, votes, overtaken>>

Next ==
    \E n \in Member :
        \/ Propose(n)
        \/ CmdApprove(n)
        \/ CmdDecline(n)
        \/ CmdWithdraw(n)
        \/ \E b \in Member : Deliver(n, b)
        \/ DrainHeldSeals(n)
        \/ HeadMoves(n)
        \/ ReceiveBlock(n)
        \/ ServeOpenGovernance(n)

Spec == Init /\ [][Next]_vars

(***************************************************************************)
(* Properties.                                                             *)
(***************************************************************************)
\* Until the card is over a verdict is only kept on a signature that is held,
\* and only heights up to the next are collected.
TypeOK ==
    /\ \A n \in Member :
        /\ seat[n].card \in {"none", "open"} => seat[n].ver \subseteq seat[n].sigs
        /\ seat[n].sh <= Target(seat[n])
    /\ seat \in [Member -> [card : Card, by : Member, decl : SUBSET Member, sh : Nat,
                            sigs : SUBSET Member, ver : SUBSET Member, own : BOOLEAN,
                            park : SUBSET Member, parkW : BOOLEAN, held : BOOLEAN, head : Nat]]
    /\ log \in [Member -> Seq(Event)]
    /\ got \in [Member -> [Member -> Nat]]
    /\ sealed \in SUBSET [by : Member, h : Nat, signers : SUBSET Member]
    /\ will \in [Member -> {"none", "approve", "decline"}]
    /\ votes \in Nat /\ serves \in Nat /\ overtaken \in SUBSET Member

\* What b has said for itself in the part of its log that n has been handed;
\* n knows its own operator's mind.
OwnVoice(e, b) == e.by = b /\ e.t \in {"approved", "declined"}
Heard(n, b) == {i \in 1 .. got[n][b] : OwnVoice(log[b][i], b)}
HeardDecline(n, b) ==
    IF n = b THEN will[n] = "decline"
    ELSE \E i \in Heard(n, b) : log[b][i].t = "declined" /\ \A j \in Heard(n, b) : j <= i

\* A re-serve handed n a signature of b, which may be older than b's decline.
Relayed(n, b) ==
    \E a \in Member \ {b} : \E i \in 1 .. got[n][a] :
        log[a][i].t = "approved" /\ log[a][i].by = b

\* No seat seals a block with the signature of a member whose decline, over
\* that member's own link, is the newest word the seat has had from it, unless
\* a third seat re-served that signature to it (register_decline, try_commit:
\* "last vote counts").
SealedOnStandingVotes ==
    [][\A k \in sealed' \ sealed : \A b \in k.signers :
            HeardDecline(k.by, b)' => Relayed(k.by, b)']_vars

\* A seat only ever signs what its operator decided last: a decline withdraws
\* the standing decision, so no later re-base or re-serve signs it again,
\* unless a peer re-served to the seat a signature of its own
\* (rebase_pending_approvals, serve_open_governance, own_approvals).
SignsOnlyItsDecision ==
    [][\A n \in Member : \A i \in DOMAIN log'[n] \ DOMAIN log[n] :
            log'[n][i].t = "approved" /\ log'[n][i].by = n
                => will'[n] = "approve" \/ Relayed(n, n)']_vars

AllDelivered == \A n, b \in Member : n = b \/ got[n][b] = Len(log[b])

\* Once everything is delivered, a seat whose card is open and was there before
\* the votes counts a member as declining exactly if its newest decision is a
\* decline, however approvals and declines crossed, unless a third seat
\* re-served a signature of that member.
NewestStanceKept ==
    AllDelivered => \A n \in Member \ overtaken : \A b \in Member :
        seat[n].card = "open" /\ ~Relayed(n, b) /\ ~Relayed(b, b)
            => (b \in seat[n].decl <=> will[b] = "decline")

\* A majority that is there is used: once everything is delivered, a seat that
\* holds enough counted signatures for an open card and did not seal (the card
\* came after them, and a card does not try the seal) is not the last word:
\* some seat sealed, or has the seal waiting for its pacing round
\* (receive_proposed, try_commit).  The signers must still be at the height they
\* signed for: one that moved on signs again, and a seat that gets there later
\* has dropped the signature.  A re-served signature is excepted: it clears its
\* author's decline after the seal was tried.
MajorityIsUsed ==
    AllDelivered /\ (\E n \in Member :
                        /\ Sealable(seat[n])
                        /\ \A b \in Counted(seat[n]) :
                            ~Relayed(n, b) /\ seat[b].head = seat[n].head)
        => sealed # {} \/ \E n \in Member : seat[n].held

\* A withdrawal reaches every seat: once everything is delivered nobody is left
\* holding the card open, whoever delivered it first and in whatever order the
\* card and the withdrawal came (register_withdraw).
WithdrawalEndsTheVote ==
    AllDelivered /\ seat[Minter].card = "withdrawn" => \A n \in Member : seat[n].card # "open"
=============================================================================
