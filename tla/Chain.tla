------------------------------- MODULE Chain -------------------------------
(***************************************************************************)
(* The persistent commit-block chain of a republic: n seats, each running  *)
(* one single-threaded engine actor, vote on proposals and seal a block    *)
(* for a proposal once RuleM of them have signed it at the next height.    *)
(* Seats seal concurrently, so one height may be filled twice; the module  *)
(* models how every seat settles such a fork (crates/molt-engine/src/      *)
(* chain/sync.rs) and what happens to the votes (chain/governance.rs).     *)
(*                                                                         *)
(* A block's link hash covers its `prev`, so a block stands for its whole  *)
(* lineage.  The model takes the hash to be injective and represents a     *)
(* block by that lineage: a non-empty sequence of entries, its height the  *)
(* length.  A chain is its head block, and the genesis, which every seat   *)
(* adopted at the founding, is the empty sequence.  A member's signature   *)
(* covers the height and the change, not `prev` (chain_reorg.md R6), so it *)
(* is a triple <<member, id, height>>.                                     *)
(*                                                                         *)
(* Each handler of the actor is an operator from the seat's state to its   *)
(* next state, and an action applies it to one seat.  An operator whose    *)
(* name ends in "Faulty" is a plausible wrong version of the one below it: *)
(* it is used by no action and shows that a property can fail.             *)
(***************************************************************************)
EXTENDS Integers, FiniteSets, Sequences

CONSTANTS
    Member,         \* the seats; names are ordered, so they are numbers
    RuleM,          \* m, the approval threshold fixed by the genesis
    Proposal,       \* the ids that may be proposed, ordered
    Minter,         \* the seat whose id stride a proposal's id falls on
    SelfCosign,     \* the seats whose config signs their own proposals
    Voters,         \* the seats whose operator may come to approve a proposal
    HashLess(_, _)  \* the order of the link hashes of two blocks

ASSUME MemberAssumption == Member \subseteq Nat /\ IsFiniteSet(Member)

ASSUME RuleAssumption == RuleM \in Nat \ {0} /\ RuleM <= Cardinality(Member)

ASSUME ProposalAssumption ==
    /\ Proposal \subseteq Nat /\ IsFiniteSet(Proposal)
    /\ Minter \in [Proposal -> Member]
    /\ SelfCosign \subseteq Member
    /\ Voters \in [Proposal -> SUBSET Member]

\* What one block adds: the proposal it applies and the members attesting it.
Entry == [id : Proposal, by : {S \in SUBSET Member : Cardinality(S) = RuleM}]

\* The block at height h of a chain c, and the ids a chain has consumed.
BlockAt(c, h) == SubSeq(c, 1, h)
Prev(b) == SubSeq(b, 1, Len(b) - 1)
Ids(c) == {c[h].id : h \in DOMAIN c}

VARIABLES
    node,       \* the state of each seat's actor
    proposed,   \* the ids whose `Proposed` has been gossiped
    approvals,  \* every signature that has been gossiped (`Approved`)
    blocks      \* every block that has been broadcast or served (`Committed`)

vars == <<node, proposed, approvals, blocks>>

(***************************************************************************)
(* The state of one seat.  card: "none" (never heard of it), "open"        *)
(* (Proposed, with a known proposer), "applied" and "shadow" (Applied; a   *)
(* shadow was materialized from a block, its proposer unknown).            *)
(***************************************************************************)
CardState == {"none", "open", "applied", "shadow"}

PendingApproval == [height : Nat, sigs : SUBSET Member]

NoSigs == [height |-> 0, sigs |-> {}]

InitSeat == [chain |-> <<>>,                             \* blocks, head
             seen  |-> {},                               \* walk.seen, the cached walk's guard
             card  |-> [p \in Proposal |-> "none"],      \* proposals
             pend  |-> [p \in Proposal |-> NoSigs],      \* pending_sigs
             own   |-> {},                               \* own_approvals
             held  |-> {},                               \* seal_held
             paced |-> TRUE,                             \* the pacing round has passed
             buf   |-> {},                               \* pending_blocks, one per height
             fork  |-> {},                               \* fork_candidates, one per height
             top   |-> 0]                                \* the highest of peer_heights

Target(s) == Len(s.chain) + 1

(***************************************************************************)
(* Verification (verify.rs).  Signatures are unforgeable, so a block       *)
(* verifies when its id is not consumed below it and m members attest it;  *)
(* that every attestation is a signature really made is an invariant.      *)
(***************************************************************************)
VerifyNext(c, e) == e.id \notin Ids(c) /\ Cardinality(e.by) >= RuleM

WalkChain(c) == \A h \in 1 .. Len(c) : VerifyNext(BlockAt(c, h - 1), c[h])

(***************************************************************************)
(* Votes (governance.rs).                                                  *)
(***************************************************************************)

\* A terminal card collects nothing, a newer height clears the set, an older
\* one is ignored.
CollectSig(s, p, h, m) ==
    LET e == s.pend[p]
    IN  IF s.card[p] \in {"applied", "shadow"} \/ h < e.height
        THEN s
        ELSE [s EXCEPT !.pend[p] = [height |-> h,
                                    sigs   |-> IF h > e.height THEN {m}
                                                               ELSE e.sigs \cup {m}]]

\* Enough signatures at the next height for a proposal that is still open.
Sealable(s, p) ==
    /\ s.card[p] = "open"
    /\ s.pend[p].height = Target(s)
    /\ Cardinality(s.pend[p].sigs) >= RuleM

\* The cards the chain decides: an open one is applied, an unknown one is
\* materialized, and the collected signatures of both are dropped.
SettleCards(s) ==
    LET fresh == {p \in Ids(s.chain) : s.card[p] \in {"none", "open"}}
    IN  [s EXCEPT
            !.card = [p \in Proposal |->
                        IF p \notin fresh THEN s.card[p]
                        ELSE IF s.card[p] = "open" THEN "applied" ELSE "shadow"],
            !.pend = [p \in Proposal |-> IF p \in fresh THEN NoSigs ELSE s.pend[p]]]

\* Sign, as seat n, every proposal of P at the next height.  The head has
\* just moved, so a seal this makes possible waits for the pacing round.
ResignAll(s, n, P) ==
    LET t == [s EXCEPT !.pend = [p \in Proposal |->
                                    IF p \in P THEN [height |-> Target(s), sigs |-> {n}]
                                               ELSE s.pend[p]]]
    IN  [t EXCEPT !.held = t.held \cup {p \in P : Sealable(t, p)}]

\* The standing approvals of seat n that are still to be decided.
StandingOpen(s) == {p \in s.own : s.card[p] = "open"}

\* Signature sets bound to a height below the next one are dropped; this
\* seat's own decisions among them are expressed again at the new height.
RebasePendingApprovals(s, n) ==
    LET stale == {p \in Proposal : s.pend[p].sigs # {} /\ s.pend[p].height < Target(s)}
        swept == [s EXCEPT !.pend = [p \in Proposal |->
                                        IF p \in stale THEN NoSigs ELSE s.pend[p]]]
    IN  ResignAll(swept, n, stale \cap StandingOpen(s))

\* The chain grows to c, its new blocks applied one after the other.
Extend(s, n, c) ==
    RebasePendingApprovals(
        SettleCards([s EXCEPT !.chain = c, !.seen = Ids(c), !.paced = FALSE]), n)

\* The m lowest-named of the signers, so that two sealers that collected the
\* same signatures seal the same block.
LowestNamed(S) ==
    CHOOSE T \in SUBSET S : /\ Cardinality(T) = RuleM
                            /\ \A a \in T, b \in S \ T : a < b

\* Every collected signer is sealed in, not the m lowest-named.
SealedBlockFaulty(s, p) == Append(s.chain, [id |-> p, by |-> s.pend[p].sigs])

SealedBlock(s, p) == Append(s.chain, [id |-> p, by |-> LowestNamed(s.pend[p].sigs)])

\* Seal if the pacing round has passed since the head moved, else hold.
TryCommit(s, n, p) ==
    IF ~ Sealable(s, p) THEN s
    ELSE IF ~ s.paced THEN [s EXCEPT !.held = @ \cup {p}]
    ELSE Extend([s EXCEPT !.held = @ \ {p}], n, SealedBlock(s, p))

\* Sign p at the next height and remember the decision.
SignApproval(s, n, p) == CollectSig([s EXCEPT !.own = @ \cup {p}], p, Target(s), n)

(***************************************************************************)
(* Blocks (sync.rs).                                                       *)
(***************************************************************************)

\* One block per height, the latest wins.
Keep(S, b) == {c \in S : Len(c) # Len(b)} \cup {b}

\* The longest block that is reached from c through S height by height.
RunFrom(c, S) ==
    LET run == {d \in S : /\ Len(d) > Len(c)
                          /\ BlockAt(d, Len(c)) = c
                          /\ \A h \in Len(c) + 1 .. Len(d) :
                                /\ BlockAt(d, h) \in S
                                /\ VerifyNext(BlockAt(d, h - 1), d[h])}
    IN  IF run = {} THEN c ELSE CHOOSE d \in run : \A o \in run : Len(o) <= Len(d)

\* A block that links to the head is applied and the buffer drains behind it.
\* A buffered block that does not link ends the drain and is dropped.
ApplyNextBlock(s, n, b) ==
    IF ~ VerifyNext(s.chain, b[Len(b)]) THEN s
    ELSE LET c == RunFrom(b, s.buf)
         IN  [Extend(s, n, c) EXCEPT !.buf = {d \in s.buf : Len(d) > Len(c) + 1}]

\* Every card of a dropped block is forgotten.
ReturnToVoteFaulty(s, P) ==
    [s EXCEPT !.card = [p \in Proposal |-> IF p \in P THEN "none" ELSE s.card[p]]]

\* A dropped decision is a vote again; a card that was only materialized from
\* the dropped block has no vote behind it and is forgotten.
ReturnToVote(s, P) ==
    [s EXCEPT !.card = [p \in Proposal |->
                            IF p \notin P THEN s.card[p]
                            ELSE IF s.card[p] = "shadow" THEN "none" ELSE "open"]]

\* The blocks above the variant are not re-linked.
RelinkOntoVariantFaulty(s, n, c) ==
    RebasePendingApprovals(
        SettleCards([s EXCEPT !.chain = c, !.seen = Ids(c), !.paced = FALSE, !.fork = {}]), n)

\* The other branch decides the same: take its blocks and re-link ours above.
RelinkOntoVariant(s, n, c) ==
    LET linked == c \o SubSeq(s.chain, Len(c) + 1, Len(s.chain))
        adopted == SettleCards([s EXCEPT !.chain = linked, !.seen = Ids(linked),
                                         !.paced = FALSE, !.fork = {}])
    IN  IF ~ WalkChain(linked) THEN [s EXCEPT !.fork = {}]
        ELSE IF Len(linked) > Len(s.chain) THEN RebasePendingApprovals(adopted, n)
        ELSE adopted

\* The signatures collected on the dropped branch survive the re-base.
RebranchFaulty(s, n, c) ==
    LET adopted == SettleCards([s EXCEPT !.chain = c, !.seen = Ids(c),
                                         !.paced = FALSE, !.fork = {}])
    IN  RebasePendingApprovals(ReturnToVote(adopted, Ids(s.chain) \ Ids(c)), n)

\* The other branch decides otherwise: drop ours above the fork.
Rebranch(s, n, c) ==
    LET adopted == SettleCards([s EXCEPT !.chain = c, !.seen = Ids(c),
                                         !.paced = FALSE, !.fork = {}])
        voting  == ReturnToVote(adopted, Ids(s.chain) \ Ids(c))
        cleared == [voting EXCEPT !.pend = [p \in Proposal |-> NoSigs]]
    IN  IF ~ WalkChain(c) THEN [s EXCEPT !.fork = {}]
        ELSE ResignAll(cleared, n, StandingOpen(cleared))

\* The other branch is taken whatever its hash.
TryReorgFaulty(s, n) ==
    LET links == {c \in s.fork : Len(c) <= Len(s.chain) /\ Prev(c) = BlockAt(s.chain, Len(c) - 1)}
    IN  IF links = {} THEN s ELSE Rebranch(s, n, CHOOSE c \in links : TRUE)

\* The deep tie-break: at the lowest height f where a candidate links into
\* our chain, the branch with the smaller hash wins.
TryReorg(s, n) ==
    LET links == {c \in s.fork : /\ Len(c) <= Target(s)
                                 /\ Prev(c) = BlockAt(s.chain, Len(c) - 1)}
        first == CHOOSE c \in links : \A d \in links : Len(c) <= Len(d)
        f     == Len(first)
        run   == {c \in s.fork : /\ Len(c) >= f /\ BlockAt(c, f) = first
                                 /\ \A h \in f .. Len(c) : BlockAt(c, h) \in s.fork}
        other == CHOOSE c \in run : \A d \in run : Len(d) <= Len(c)
        same  == \A h \in f .. Len(other) : h <= Len(s.chain) => other[h].id = s.chain[h].id
    IN  IF links = {} \/ f > Len(s.chain) THEN s
        ELSE IF ~ HashLess(first, BlockAt(s.chain, f)) THEN [s EXCEPT !.fork = {}]
        ELSE IF same THEN RelinkOntoVariant(s, n, other)
        ELSE Rebranch(s, n, other)

StashAndReorg(s, n, b) == TryReorg([s EXCEPT !.fork = Keep(@, b)], n)

\* The displaced proposal keeps its Applied card.
SwapTipFaulty(s, n, b) ==
    RebasePendingApprovals(SettleCards([s EXCEPT !.chain = b, !.paced = FALSE]), n)

\* The contender takes the tip.  The cached walk is not touched, and no
\* signature is bound to a height that moved.
SwapTip(s, n, b) ==
    LET lost    == s.chain[Len(s.chain)].id
        adopted == SettleCards([s EXCEPT !.chain = b, !.paced = FALSE])
    IN  IF ~ WalkChain(b) THEN s
        ELSE RebasePendingApprovals(ReturnToVote(adopted, {lost}), n)

\* The block that was here first keeps a contended tip.
TieBreakFaulty(s, n, b) ==
    IF b = BlockAt(s.chain, Len(b)) \/ Len(b) = Len(s.chain) THEN s
    ELSE StashAndReorg(s, n, b)

\* A block at a height this seat has filled with another one.
TieBreak(s, n, b) ==
    LET ours    == BlockAt(s.chain, Len(b))
        shared  == Prev(b) = Prev(ours)
        same    == b[Len(b)].id = ours[Len(b)].id
        smaller == HashLess(b, ours)
    IN  IF b = ours THEN s
        ELSE IF shared /\ same
             THEN IF smaller THEN StashAndReorg(s, n, b) ELSE s
        ELSE IF ~ shared \/ Len(b) < Len(s.chain) THEN StashAndReorg(s, n, b)
        ELSE IF smaller THEN SwapTip(s, n, b) ELSE s

\* Note the height its sender claims, then extend, contend or buffer.
ReceiveBlockFrom(s0, n, b) ==
    LET s == [s0 EXCEPT !.top = IF Len(b) > @ THEN Len(b) ELSE @]
    IN  CASE Len(b) <= Len(s.chain) -> TieBreak(s, n, b)
          [] Len(b) = Target(s) /\ Prev(b) = s.chain -> ApplyNextBlock(s, n, b)
          [] Len(b) = Target(s) /\ Prev(b) # s.chain -> StashAndReorg(s, n, b)
          [] OTHER -> [s EXCEPT !.buf = Keep({c \in @ : Len(c) > Len(s.chain)}, b)]

(***************************************************************************)
(* The network delivers any gossiped message to any seat any number of     *)
(* times and in any order: peers resend until acknowledged and re-serve    *)
(* what they hold, so a message may be lost for ever, late or repeated.    *)
(***************************************************************************)

\* The own signatures that stand in a seat's state have been gossiped.
Standing(n, s) == {<<n, p, s.pend[p].height>> : p \in {q \in Proposal : n \in s.pend[q].sigs}}

\* A batch of blocks is applied one by one: an open vote is signed again at
\* every height the batch passes, until the block that decides it.
PassedBy(n, s, t) ==
    {<<n, x[1], x[2]>> : x \in
        {y \in {q \in StandingOpen(s) : s.pend[q].sigs # {}}
               \X (Len(s.chain) + 2 .. Len(t.chain)) :
            y[1] \notin Ids(BlockAt(t.chain, y[2] - 1))}}

\* Seat n moves to t, gossiping sigs besides what stands in t.  A block it
\* sealed is broadcast once it is on disk; one that is not broadcast is a
\* message nobody receives.
Step(n, t, sigs, bs) ==
    /\ node' = [node EXCEPT ![n] = t]
    /\ approvals' = approvals \cup sigs \cup Standing(n, t)
    /\ blocks' = blocks \cup bs

Sealed(s, t) == IF t.chain = s.chain THEN {} ELSE {t.chain}

Init ==
    /\ node = [n \in Member |-> InitSeat]
    /\ proposed = {}
    /\ approvals = {}
    /\ blocks = {}

\* The ids on seat n's stride past every id it has registered (next_id, which
\* never falls: the code would also skip the ids of forgotten cards).
Mintable(n) ==
    {p \in Proposal : Minter[p] = n /\ \A q \in Proposal : node[n].card[q] # "none" => q < p}

\* cmd_propose: mint, gossip and, if so configured, co-sign.
Propose(n, p) ==
    LET s == node[n]
        o == [s EXCEPT !.card[p] = "open"]
        t == IF n \in SelfCosign THEN TryCommit(SignApproval(o, n, p), n, p) ELSE o
        sigs == IF n \in SelfCosign THEN {<<n, p, Target(s)>>} ELSE {}
    IN  /\ p \in Mintable(n) /\ \A q \in Mintable(n) : p <= q
        /\ proposed' = proposed \cup {p}
        /\ Step(n, t, sigs, Sealed(s, t))

\* cmd_approve: refused while a peer is known to be ahead.
Approve(n, p) ==
    LET s == node[n]
        t == TryCommit(SignApproval(s, n, p), n, p)
    IN  /\ n \in Voters[p]
        /\ s.top <= Len(s.chain)
        /\ s.card[p] = "open"
        /\ Step(n, t, {<<n, p, Target(s)>>}, Sealed(s, t))
        /\ UNCHANGED proposed

\* An id the cached walk has seen consumed is a stale resend, a card that is
\* already here a repeated one.
ReceiveProposed(n, p) ==
    LET s == node[n]
    IN  /\ p \in proposed
        /\ p \notin s.seen
        /\ s.card[p] = "none"
        /\ Step(n, [s EXCEPT !.card[p] = "open"], {}, {})
        /\ UNCHANGED proposed

\* A signature for a height beyond the next block is dropped, and one under
\* the own name is held only if it verifies here and now.
ReceiveApproval(n, a) ==
    LET s == node[n]
        p == a[2]
        t == TryCommit(CollectSig(s, p, a[3], a[1]), n, p)
    IN  /\ a[3] <= Target(s)
        /\ a[1] = n => a[3] = Target(s) /\ s.card[p] = "open"
        /\ Step(n, t, {}, Sealed(s, t))
        /\ UNCHANGED proposed

ReceiveBlock(n, b) ==
    LET s == node[n]
        t == ReceiveBlockFrom(s, n, b)
        grown == Len(s.chain) <= Len(t.chain) /\ BlockAt(t.chain, Len(s.chain)) = s.chain
    IN  /\ Step(n, t, IF grown THEN PassedBy(n, s, t) ELSE {}, {})
        /\ UNCHANGED proposed

\* SEAL_PACE_SECS have gone by since the head moved.
PacingRoundPasses(n) ==
    /\ ~ node[n].paced
    /\ Step(n, [node[n] EXCEPT !.paced = TRUE], {}, {})
    /\ UNCHANGED proposed

\* The delivery tick: the held seals are tried in the order of their ids.
\* The first that lands moves the head, and the rest wait again.
DrainHeldSeals(n) ==
    LET s == [node[n] EXCEPT !.held = {}]
        ready == {p \in node[n].held : Sealable(s, p)}
        first == CHOOSE p \in ready : \A q \in ready : p <= q
        t == IF s.paced /\ ready # {} THEN TryCommit(s, n, first)
                                      ELSE [s EXCEPT !.held = ready]
    IN  /\ node[n].held # {}
        /\ Step(n, t, {}, Sealed(s, t))
        /\ UNCHANGED proposed

\* serve_chain_from, answering a peer's catch-up request: the blocks of the
\* own chain, the re-linked ones included, go out again.
ServeChain(n) ==
    /\ blocks' = blocks \cup {BlockAt(node[n].chain, h) : h \in 1 .. Len(node[n].chain)}
    /\ UNCHANGED <<node, proposed, approvals>>

Next ==
    \E n \in Member :
        \/ \E p \in Proposal : Propose(n, p) \/ Approve(n, p) \/ ReceiveProposed(n, p)
        \/ \E a \in approvals : ReceiveApproval(n, a)
        \/ \E b \in blocks : ReceiveBlock(n, b)
        \/ PacingRoundPasses(n)
        \/ DrainHeldSeals(n)
        \/ ServeChain(n)

Spec == Init /\ [][Next]_vars

(***************************************************************************)
(* Properties.                                                             *)
(***************************************************************************)

Chains == Seq(Entry)
Block == Chains \ {<<>>}

Seat == [chain : Chains, seen : SUBSET Proposal, card : [Proposal -> CardState],
         pend : [Proposal -> PendingApproval], own : SUBSET Proposal,
         held : SUBSET Proposal, paced : BOOLEAN, buf : SUBSET Block,
         fork : SUBSET Block, top : Nat]

TypeOK ==
    /\ node \in [Member -> Seat]
    /\ proposed \subseteq Proposal
    /\ approvals \subseteq Member \X Proposal \X Nat
    /\ blocks \subseteq Block

\* A card reads Applied exactly while the seat's chain holds its block:
\* appends, tip swaps, deep re-bases and relinks all keep the cards in step
\* (settle_cards_against_chain, after_block_applied, the R4 return to vote).
CardsMatchChain ==
    \A n \in Member, p \in Proposal :
        node[n].card[p] \in {"applied", "shadow"} <=> p \in Ids(node[n].chain)

\* No vote freezes: a collected set is never bound to a height beyond the
\* next block (such a set would refuse every later signature and no re-base
\* would sweep it, receive_approval), not even after a re-base onto a shorter
\* branch; and a decided proposal keeps no signatures.
NoFrozenVote ==
    \A n \in Member, p \in Proposal :
        LET s == node[n]
        IN  /\ s.pend[p].height <= Target(s)
            /\ p \in Ids(s.chain) => s.pend[p] = NoSigs

\* A decision this seat took part in is never forgotten with a displaced
\* block: its card is open again or applied, never gone (tie_break and
\* try_reorg remove materialized cards only).
OwnVotesKeepTheirCard ==
    \A n \in Member : \A p \in node[n].own : node[n].card[p] \in {"open", "applied"}

\* The chain of every seat is what ThresholdLog promises: decided once, m
\* real signatures for every height although re-linked blocks carry old
\* attestations over to a new predecessor, and no seat ever leaves a branch
\* for a worse one.
Log == INSTANCE ThresholdLog WITH log <- [n \in Member |-> node[n].chain],
                                  signed <- approvals
ImplementsThresholdLog == Log!Spec

\* Seat n, in state s, reads the whole chain c of a peer, block by block.
ReadsChain(s, n, c) ==
    LET f[h \in 0 .. Len(c)] ==
            IF h = 0 THEN s ELSE ReceiveBlockFrom(f[h - 1], n, BlockAt(c, h))
    IN  f[Len(c)]

\* Whatever forks concurrent sealing made, and whatever a seat still has in
\* its buffers of earlier ones, the rules settle them: two seats that read
\* each other's chain twice hold one chain (the claim of chain_reorg.md R1 that
\* every seat settles on the same branch; that anybody serves is not claimed).
ExchangeSettles ==
    \A n, k \in Member :
        LET n1 == ReadsChain(node[n], n, node[k].chain)
            k1 == ReadsChain(node[k], k, node[n].chain)
            n2 == ReadsChain(n1, n, k1.chain)
            k2 == ReadsChain(k1, k, n1.chain)
        IN  node[n].chain # node[k].chain => n2.chain = k2.chain

\* What tie_break says of the block it drops: "the displaced proposal returns
\* to pending and re-bases", and rebase_pending_approvals of an approval this
\* seat gave: it "is a decision that still stands, only its position moved -
\* so re-express it (the human is not asked again)".  So while the card of a
\* proposal this seat approved is open, its signature stands at the next
\* height.
StandingApprovalsSigned ==
    \A n \in Member :
        LET s == node[n]
        IN  \A p \in StandingOpen(s) : s.pend[p].height = Target(s) /\ n \in s.pend[p].sigs

\* What tie_break says of a card it forgets with the displaced block: "the
\* holder returns to "never heard of it", and the WP2 re-serve restores the
\* real card while the vote is open": a re-serve of a proposal that the chain
\* does not hold is not refused as consumed.
ForgottenCardCanReturn ==
    \A n \in Member : \A p \in proposed :
        node[n].card[p] = "none" /\ p \notin Ids(node[n].chain) => p \notin node[n].seen
=============================================================================
