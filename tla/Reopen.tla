------------------------------- MODULE Reopen -------------------------------
(***************************************************************************)
(* One seat, its vote on the card of another seat, and its disk: the log   *)
(* of its own and the kept peer events, the snapshots, a clean close, a    *)
(* kill, and opening the workspace again (events.rs, session.rs,           *)
(* net/ingest.rs).                                                         *)
(*                                                                         *)
(* The signatures, the own decision and the parked voices live in memory.  *)
(* A snapshot holds the card and not those, and only the records after the *)
(* snapshot are replayed, before the chain is adopted.                     *)
(*                                                                         *)
(* The peers say what they like in any order.  The chain is the counter    *)
(* head, as in Votes; it has a file of its own that is written before a    *)
(* block counts.                                                           *)
(***************************************************************************)
EXTENDS VoteRules, Sequences, SequencesExt

CONSTANTS
    Self,       \* the seat
    MaxHead,    \* bound: the height the chain grows to
    MaxLog,     \* bound: how many records of this vote the log gets
    MaxReorgs,  \* bound: how often another branch wins
    MaxOpens    \* bound: how often the seat is opened again

ASSUME ReopenAssumption ==
    /\ Self \in Member \ {Minter}
    /\ {MaxHead, MaxLog, MaxReorgs, MaxOpens} \subseteq Nat

VARIABLES
    seat,       \* the vote in memory
    log,        \* the records of this vote, in order
    snap,       \* the last snapshot: the card, and how many records it covers
    will,       \* the operator's newest decision: "none", "approve", "decline"
    reorgs, opens

vars == <<seat, log, snap, will, reorgs, opens>>

Peer == Member \ {Self}

\* A record: who it came from, whose voice it is, the height a signature binds.
Says(what, from, b) == [t |-> what, from |-> from, by |-> b, h |-> 0]
Approved(from, b, h) == [t |-> "approved", from |-> from, by |-> b, h |-> h]

Record == [t : {"proposed", "approved", "declined", "withdrawn"},
           from : Member, by : Member, h : Nat]

Init ==
    /\ seat = InitSeat
    /\ log = <<>>
    /\ snap = [at |-> 0, card |-> "none", by |-> Minter, decl |-> {}]
    /\ will = "none" /\ reorgs = 0 /\ opens = 0

Step(t, ev) ==
    /\ Len(log) < MaxLog
    /\ seat' = t
    /\ log' = log \o ev
    /\ UNCHANGED <<snap, opens>>

(***************************************************************************)
(* The live seat: what reaches it, and what it keeps of it.                *)
(***************************************************************************)
\* The card, then the drained voices that stand, or the withdrawal that
\* outran it.
KeptWithCard(t, from) ==
    LET stood == InOrder(t.decl)
    IN  <<Says("proposed", from, from)>>
           \o [i \in DOMAIN stood |-> Says("declined", stood[i], stood[i])]
           \o (IF t.card = "withdrawn" THEN <<Says("withdrawn", Minter, Minter)>> ELSE <<>>)

ReceiveCard(from) ==
    \E D \in DrainOrders(seat) :
        LET t == ReceiveProposed(seat, Self, from, D)
        IN  /\ seat.card = "none"
            /\ Step(t, KeptWithCard(t, from))
            /\ UNCHANGED <<will, reorgs>>

\* A signature of b over the link of from.  Only one that landed is kept; one
\* in this seat's name is a signature it once gave.
ReceiveVote(from, b, h) ==
    \E paced \in BOOLEAN :
        LET t == ReceiveApproval(seat, Self, from, b, h, paced)
        IN  /\ b = Self => \E i \in DOMAIN log : log[i] = Approved(Self, Self, h)
            /\ t # seat \/ Landed(t, b, h)
            /\ Step(t, IF Landed(t, b, h) THEN <<Approved(from, b, h)>> ELSE <<>>)
            /\ UNCHANGED <<will, reorgs>>

\* A registered voice is kept, a parked one is not.
ReceiveDecline(b) ==
    LET t == RegisterDecline(seat, Self, b)
    IN  /\ t # seat
        /\ Step(t, IF seat.card = "open" THEN <<Says("declined", b, b)>> ELSE <<>>)
        /\ UNCHANGED <<will, reorgs>>

ReceiveWithdrawal ==
    LET t == RegisterWithdraw(seat, Minter)
    IN  /\ t # seat
        /\ Step(t, IF seat.card = "open" THEN <<Says("withdrawn", Minter, Minter)>> ELSE <<>>)
        /\ UNCHANGED <<will, reorgs>>

CmdApprove ==
    \E paced \in BOOLEAN :
        LET u == Sign([seat EXCEPT !.decl = @ \ {Self}], Self)
        IN  /\ seat.card = "open"
            /\ Step(TryCommit(u, paced), <<Approved(Self, Self, Target(seat))>>)
            /\ will' = "approve"
            /\ UNCHANGED reorgs

CmdDecline ==
    /\ seat.card = "open" /\ Self \notin seat.decl
    /\ Step(RegisterDecline(seat, Self, Self), <<Says("declined", Self, Self)>>)
    /\ will' = "decline"
    /\ UNCHANGED reorgs

DrainHeldSeals ==
    /\ seat.held
    /\ Step(TryCommit([seat EXCEPT !.held = FALSE], TRUE), <<>>)
    /\ UNCHANGED <<will, reorgs>>

\* The head is h now and the signatures of the old one are dropped; the seat
\* signs again if it had approved and the card is open.
MoveTo(h, paced) ==
    LET s == [seat EXCEPT !.head = h, !.sh = 0, !.sigs = {}, !.ver = {}]
        resign == s.own /\ s.card = "open"
    IN  Step(TryCommit(IF resign THEN Sign(s, Self) ELSE s, paced),
             IF resign THEN <<Approved(Self, Self, Target(s))>> ELSE <<>>)

\* A foreign block: only a set of signatures below the next height is swept,
\* and only for such a set the seat signs again.
HeadMoves ==
    /\ seat.head < MaxHead
    /\ IF seat.sh > 0 /\ seat.sh < seat.head + 2
       THEN \E paced \in BOOLEAN : MoveTo(seat.head + 1, paced)
       ELSE Step([seat EXCEPT !.head = @ + 1], <<>>)
    /\ UNCHANGED <<will, reorgs>>

\* A branch that wins at an earlier height, and may be shorter, replaces the
\* blocks from there on; every set of signatures is dropped (try_reorg).  A
\* branch that holds or drops the block of this card is left to Chain.
Rebase ==
    /\ reorgs < MaxReorgs /\ reorgs' = reorgs + 1
    /\ seat.card # "applied"
    /\ \E h \in 1 .. seat.head, paced \in BOOLEAN : MoveTo(h, paced)
    /\ UNCHANGED will

\* A peer's block of this card.
ReceiveBlock ==
    /\ seat.card \notin {"none", "applied"} /\ seat.head < MaxHead
    /\ Step([seat EXCEPT !.card = "applied", !.head = @ + 1, !.sh = 0, !.sigs = {}, !.ver = {}],
            <<>>)
    /\ UNCHANGED <<will, reorgs>>

(***************************************************************************)
(* The disk.                                                               *)
(***************************************************************************)
\* The dump counts the record that is still to come.
SnapshotAheadFaulty == [at |-> Len(log) + 1, card |-> seat.card, by |-> seat.by, decl |-> seat.decl]

\* The dump leaves the decliners out.
SnapshotFaulty == [at |-> Len(log), card |-> seat.card, by |-> seat.by, decl |-> {}]

\* snapshot_now: the dump has the card and its decliners; the signatures, the
\* own decision and the parks are not in it.
SnapshotNow == [at |-> Len(log), card |-> seat.card, by |-> seat.by, decl |-> seat.decl]

\* Every thousandth record of any kind (a chat line, a block) is followed by a
\* snapshot: between the records of this vote it may come at any time.
TakeSnapshot ==
    /\ opens < MaxOpens /\ snap # SnapshotNow
    /\ snap' = SnapshotNow
    /\ UNCHANGED <<seat, log, will, reorgs, opens>>

\* An own name in the body makes the decision the seat's own.
ReplayEventFaulty(s, e) ==
    LET mine == e.by = Self
    IN  CASE e.t = "proposed" ->
                IF s.card # "none" THEN s ELSE [s EXCEPT !.card = "open", !.by = e.from]
          [] e.t = "approved" ->
                ApplyApproved(Collect([s EXCEPT !.own = @ \/ mine], Self, e.by, e.h, mine), e.by)
          [] e.t = "declined" -> RegisterDecline(s, Self, e.by)
          [] e.t = "withdrawn" -> RegisterWithdraw(s, e.by)

\* The applier on one record.  A signature in the own name under the own
\* envelope is the seat's decision; every other one waits for the chain.  A
\* kept voice never precedes its card, so nothing is parked here.
ReplayEvent(s, e) ==
    LET mine == e.by = Self /\ e.from = Self
    IN  CASE e.t = "proposed" ->
                IF s.card # "none" THEN s ELSE [s EXCEPT !.card = "open", !.by = e.from]
          [] e.t = "approved" ->
                ApplyApproved(Collect([s EXCEPT !.own = @ \/ mine], Self, e.by, e.h, mine), e.by)
          [] e.t = "declined" -> RegisterDecline(s, Self, e.by)
          [] e.t = "withdrawn" -> RegisterWithdraw(s, e.by)

\* replay_loaded: the snapshot, then the records after it.
ReplayLoaded(sn) ==
    FoldLeft(ReplayEvent,
             [InitSeat EXCEPT !.card = sn.card, !.by = sn.by, !.decl = sn.decl],
             SubSeq(log, sn.at + 1, Len(log)))

\* adopt_chain: the head, and the card if the chain holds its block.
AdoptChain(s) ==
    [s EXCEPT !.head = seat.head, !.card = IF seat.card = "applied" THEN "applied" ELSE @]

\* The replayed signatures are left as they are.
ReverifyFaulty(s) == s

\* reverify_all_pending: the replayed signatures, once the chain is there.
ReverifyAllPending(s) ==
    IF ApprovalVerifies(s, s.sh) THEN [s EXCEPT !.ver = @ \cup s.sigs] ELSE s

\* A clean close writes a snapshot of its own, a kill leaves the last one.
Reopen(clean) ==
    LET sn == IF clean THEN SnapshotNow ELSE snap
    IN  /\ opens < MaxOpens /\ opens' = opens + 1
        /\ snap' = sn
        /\ seat' = ReverifyAllPending(AdoptChain(ReplayLoaded(sn)))
        /\ UNCHANGED <<log, will, reorgs>>

Next ==
    \/ \E b \in Peer : ReceiveCard(b) \/ ReceiveDecline(b)
    \/ \E from \in Peer, b \in Member, h \in 1 .. MaxHead + 1 : ReceiveVote(from, b, h)
    \/ ReceiveWithdrawal \/ CmdApprove \/ CmdDecline
    \/ DrainHeldSeals \/ HeadMoves \/ Rebase \/ ReceiveBlock
    \/ TakeSnapshot
    \/ \E clean \in BOOLEAN : Reopen(clean)

Spec == Init /\ [][Next]_vars

(***************************************************************************)
(* Properties.                                                             *)
(***************************************************************************)
\* Types; a snapshot covers no more records than the log has.
TypeOK ==
    /\ seat \in [card : Card, by : Member, decl : SUBSET Member, sh : Nat,
                 sigs : SUBSET Member, ver : SUBSET Member, own : BOOLEAN,
                 park : SUBSET Member, parkW : BOOLEAN, held : BOOLEAN, head : Nat]
    /\ log \in Seq(Record)
    /\ snap \in [at : 0 .. Len(log), card : Card, by : Member, decl : SUBSET Member]
    /\ will \in {"none", "approve", "decline"}

\* b's signature for the next height is among the replayed records, in the own
\* name only if the seat recorded it itself, and b has not declined since.
Restorable(b) ==
    \E i \in snap.at + 1 .. Len(log) :
        /\ log[i].t = "approved" /\ log[i].by = b /\ log[i].h = Target(seat)
        /\ b = Self => log[i].from = Self
        /\ ~ \E j \in i + 1 .. Len(log) : log[j].t = "declined" /\ log[j].by = b

\* A replayed record binds a height beyond the next.
LeftALongerBranch ==
    \E i \in snap.at + 1 .. Len(log) : log[i].t = "approved" /\ log[i].h > Target(seat)

\* A vote survives a restart: every signature for the next height that the
\* replayed records hold and its author has not retracted counts again, and
\* the seat's own stays its decision (reverify_all_pending: "this is what makes
\* a restored vote count again").  Two things are excepted because they do not
\* come back: what a snapshot covers, and every vote if a replayed record
\* binds a height beyond the next, left behind by a longer branch.
RestoredVotesCount ==
    [][opens' # opens /\ seat'.card = "open" /\ ~LeftALongerBranch' =>
            \A b \in Member : Restorable(b)' =>
                /\ seat'.sh = Target(seat') /\ b \in seat'.sigs \cap seat'.ver
                /\ b = Self => seat'.own]_vars

\* The register of own decisions, which a re-base signs from without asking
\* while the card is open, holds an open vote only if the operator's newest
\* decision is to approve: not after a replay either, whatever peers re-served
\* in the seat's name in between (the applier's Approved arm: "Both sides must
\* be us").  Of a card that is over nothing is claimed: a decline that comes
\* after the replay has rejected the card leaves the register as it is.
DecisionIsOwn == seat.own /\ seat.card = "open" => will = "approve"

Closed == {"rejected", "withdrawn", "applied"}

\* A restart reopens no vote that was over, applies none that was not, and a
\* card that stays open keeps every decline that stood against it, wherever
\* the last snapshot lies (keep_peer_event, dump, register_decline).
NoVerdictLost ==
    [][opens' # opens =>
            /\ seat.card \in Closed => seat'.card \in Closed
            /\ seat'.card = "applied" <=> seat.card = "applied"
            /\ seat.card = "open" /\ seat'.card = "open" => seat.decl \subseteq seat'.decl]_vars
=============================================================================
