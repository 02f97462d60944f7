# MoltRepublic: a TLA+ model of the republic and its chain

MoltRepublic lets people and agents run a *republic*: n seats that decide
together, m of n, what enters their shared record. The record is the persistent
commit-block chain. Every seat runs one engine (`crates/molt-engine`), a
single-threaded actor that handles commands of its operator and frames of its
peers one at a time. There is no leader and no consensus round: whoever holds m
signatures for the next height seals a block and broadcasts it. Two seats may
do so at the same time, so forks are part of normal life, and the interesting
code is the code that settles them without losing a decision or a vote. That
code is the core of this project; around it stand the votes that feed the
chain, the names of the proposals, the catch-up between the seats, and the
channel that carries it all.

## 1. Inventory

| Component (source under `src/crates/`) | State it keeps | Operations | Hard behaviour | What makes it correct |
|---|---|---|---|---|
| Chain sync and fork choice (`molt-engine/src/chain/sync.rs`) | blocks, head, catch-up buffer, fork candidates, peer heights | receive_block_from, apply_next_block, drain, tie_break, try_reorg, relink_onto_variant, serve_chain_from, request_catchup | two blocks at one height, blocks out of order, branches of different length, one decision under several attestations | one history: all seats end on one branch; nobody leaves a branch for a worse one; no decision twice |
| Voting and sealing (`chain/governance.rs`, `proposals.rs`) | cards, collected signatures, own decisions, held seals | propose, approve, receive_proposed, receive_approval, collect_sig, try_commit, drain_held_seals, rebase_pending_approvals | signatures bind a height that moves; resends and late votes; pacing | m real signatures of the same height; no vote freezes; no own decision forgotten |
| Verification (`chain/verify.rs`) | cached walk (head, consumed ids) | verify_next, walk_chain, describes | cached walk against a chain that was re-based | a chain that verifies has no double apply and m signers per block |
| Projection (`chain/projection.rs`) | cards, surfaces, relays, features | adopt_chain, settle_cards_against_chain, project_one | rebuild and increment must agree | cards match the chain |
| Checkpoints (`chain/checkpoint.rs`, `*_base.rs`) | blob, cut in flight | auto checkpoint, seal of a cut, adoption from a served blob | a cut under a moving head; a holder that cannot re-base below it | n-of-n, at the exact head |
| Membership and recovery (`chain/membership.rs`, `recovery.rs`) | pending recoveries, tickets, consents | propose/consent/seal of a restore, re-key | consent windows, replayed tickets, two restores of one seat | one restore per consent |
| Declines, withdrawals, parked votes (`proposals.rs`, `net/ingest.rs`) | decliners, parks | decline, withdraw, register_* | last vote counts, votes that outrun their card | the newest stance wins everywhere |
| Reopen and replay (`events.rs`, `session.rs`) | log tail, snapshot, chain file | record, apply, snapshot, reopen | crash between two writes; ephemeral state rebuilt from the log | what stood before the crash stands after it |
| Ingest and delivery (`net/ingest.rs`, `net/delivery.rs`, `molt-net/group_ack.rs`) | windows, acks, outbox | deliver, resend, acknowledge | loss, repetition, order across links | at least once, handled once |
| Group transport and epochs (`molt-net/group_runtime.rs`, `mls.rs`, `epoch_hold.rs`) | epoch, held frames | encrypt at send, hold, merge a commit | frames of a later epoch arrive first | held frames are not lost while a commit can still open them |
| Founding (`founding.rs`, `nostr_ritual.rs`, `ritual_member.rs`) | ritual phase | invite, attest, genesis | timeouts, aborts, late joiners | all or nobody holds the genesis |
| Vault, wallet, treasury | grants, receipts, DKG run | deposit, grant, run | displaced grants, stalled runs | release only by threshold |
| Proposal ids (`proposals.rs`, `chain/projection.rs`) | next_id | mint_proposal_id, minting_seat, every bump | two seats mint in one propagation window; a counter behind after a loss | an id names one change and tells its seat |
| Storage, relay runtime, files, chat, folds, backup, MCP, config, UI | files, connections, views | - | I/O | out of scope, see section 8 |

How they interact: an operator command or a delivered frame enters the actor;
voting writes cards and signatures and may seal; sealing appends to the chain,
which settles cards and re-bases every open vote; a foreign block takes the
same path through sync; `record` puts whatever the seat has to say (`Proposed`,
`Approved`, `Committed`) into the log, which is also the outbox of the
transport. Everything a handler does happens in one turn of the actor, so one
handler is one action; the interleavings are those of the seats and of the
network between them.

`PROJECT.json` lists every component with its status, and under `hazards` the
places where this code can go wrong in ways a test would hardly reach.

## 2. Modules

| Module | Role |
|---|---|
| `Chain` | sync, voting, sealing, verification and the cards of all seats, composed over an unreliable network |
| `ThresholdLog` | the abstract specification: what the chain promises, without saying how |
| `VoteRules` | what one seat does with the voices on one card: collecting, verifying, sealing, declines, withdrawal, parks |
| `Votes` | one card from proposal to its end, over all seats and the links between them |
| `Reopen` | one seat's vote and its disk: log, snapshots, kill, replay |
| `Sync` | asking for and serving blocks, checkpoint cuts, failed writes, crashes |
| `ProposalIds` | how seats name proposals |
| `Delivery` | one sender's envelopes over the broadcast channel: outbox, accept point, park, claim sheets |
| `AcceptWindow` | the accept window: the set `Delivery` works with, and the shifted words it is kept as |
| `Epochs` | the re-key commits of the MLS group, their races, the epoch hold |
| `MCChain`, `MCVotes`, `MCReopen`, `MCSync`, `MCProposalIds`, `MCDelivery`, `MCEpochs` | small instances |
| `Chain_proofs`, `ProposalIds_proofs`, `Delivery_proofs`, `Votes_proofs`, `Reopen_proofs`, `Sync_proofs`, `Epochs_proofs` | inductive invariants and theorems |
| `Chain_refinement` | the proof that `Chain` implements `ThresholdLog` |

The modules divide one system. `Votes` and `Sync` take from `Delivery` that a
receiver is handed one sender's events once and in order, and model a link as
the sender's log and a position in it. `Votes` takes from `Chain` that a block
moves the height; `Sync` takes from both that changes get sealed. `Chain` takes
from `ProposalIds` that strides are disjoint, and assumes less than `Delivery`
gives. An operator that ends in `Faulty` is a plausible wrong version used by no
action; the mutants in `PROJECT.json` put it in place of the right one to show
that a property can fail.

### Chain: state

`node[n]` is one seat's actor, a record:

| Field | Code |
|---|---|
| `chain` | `chain.blocks` and `chain.head`, without the genesis |
| `seen` | `chain.walk.seen`, the consumed ids of the cached walk |
| `card` | `proposals[id].state`: none, open (Proposed), applied, shadow (Applied, materialized from a block, `by` empty) |
| `pend` | `chain.pending_sigs`: the height and the signers |
| `own` | `chain.own_approvals` |
| `held`, `paced` | `chain.seal_held`; whether SEAL_PACE_SECS have passed since `head_moved_at` |
| `buf`, `fork` | `chain.pending_blocks`, `chain.fork_candidates`, one block per height |
| `top` | the highest of `chain.peer_heights` |

`proposed`, `approvals` and `blocks` are everything that was ever gossiped. A
message stays there for ever and may be delivered to any seat, at any time, any
number of times or never: loss, delay, repetition and reordering in one.

### Chain: representation

A block's link hash covers its `prev`, so a block determines its whole lineage.
The model takes the hash to be injective and makes the block *be* its lineage,
a non-empty sequence of entries (proposal, attesting members). "Links to the
head" is then "its prefix is my chain", "the hash at height h" is "the prefix of
length h". The order of the hashes is a constant operator, `HashLess`. A member
signs the height and the change, not `prev`, so a signature is a triple
`<<member, id, height>>`; that is what makes re-linking possible, and what makes
it worth checking.

### Chain: actions

| Action | Code |
|---|---|
| `Propose`, `Approve` | `propose_payload`, `cmd_approve`, with signing and the seal they may trigger |
| `ReceiveProposed`, `ReceiveApproval`, `ReceiveBlock` | the ingest arms and `receive_proposed`, `receive_approval`, `receive_block_from` |
| `PacingRoundPasses`, `DrainHeldSeals` | the clock, and the delivery tick's `drain_held_seals` |
| `ServeChain` | `serve_chain_from` |

Each handler is an operator from a seat's state to its next state with the name
the code gives it (`CollectSig`, `TryCommit`, `TieBreak`, `TryReorg`,
`RelinkOntoVariant` ...), and an action applies one.

### Chain: what is abstracted

* Proposals are surface changes (`ChainChange::Applied`) whose payload is a
  function of the id. Membership changes and the content checks of the surfaces
  (features, vault, wallet, file votes, superseded wiki patches) are left out;
  cuts are in `Sync`, declines in `Votes`.
* Signatures cannot be forged, so every signature in the network was made by its
  member. That a block's attestations are signatures really made is not assumed
  but checked (`ImplementsThresholdLog`).
* A batch of blocks drained from the buffer is applied in one operator
  (`Extend`); the signatures gossiped at the intermediate heights are added by
  `PassedBy`.
* `blocks` does not record senders, so a seat may be served its own block, and
  `top` is raised by blocks only. Both allow more behaviours, not fewer.
* The seals wait for a pacing round, as over a Nostr transport. (Without a
  transport the pace is zero; that is the loopback twin used by tests.)
* A seat may serve its chain at any time; requests are in `Sync`.

### Votes

`VoteRules` holds the handlers as operators from a seat's view of the card to
its next view, under the names the code gives them; `Votes` and `Reopen` build
their actions from it. `seat[n]` is the card as one seat sees it: its state, who delivered it, the
decliners, the signatures with the height they bind and which of them verified,
the own decision, the parks, the held seal and the height. The other blocks of
the chain are a counter per seat. Actions: `Propose`, `CmdApprove`,
`CmdDecline`, `CmdWithdraw` (operator), `Deliver` (the four arms of
`deliver_gated` with everything they call, the applier of `record` included),
`DrainHeldSeals`, `ReceiveBlock`/`HeadMoves` (a foreign block and the re-base),
`ServeOpenGovernance`. `will` and `overtaken` are history: each operator's
newest decision, and the seats whose card came after a parked voice. The mark of
a verified signature is set after `collect_sig` by its caller (`MarkVerified`),
also when nothing was collected: on a card that is over, or where the held set
is of a newer height, a mark may stand without its signature. Left out: the
park's capacity (its effect on the accept point is in `Delivery`), the payload
hash in a decline (ids are not re-used) and the wallet's init card, which one
decline kills (proposals.rs:1302).

### Reopen

One seat that is not the proposer, the vote in its memory (`seat`, as in
`Votes`), and its disk: `log`, the records of this vote, its own and the peer
events `keep_peer_event` puts there, and `snap`, the last snapshot with the
record it was taken at. Receiving and deciding are as in `Votes`, except that
the peers say anything in any order (`ReceiveCard`, `ReceiveVote`,
`ReceiveDecline`, `ReceiveWithdrawal`, `ReceiveBlock`); only a signature in the
seat's own name has to be one it gave. `TakeSnapshot` may come at any time, as
one follows every thousandth record of whatever kind. `Reopen` is a clean close
or a kill and the opening after it: the snapshot, the records after it through
the applier (`ReplayEvent`), then `AdoptChain` and `ReverifyAllPending`, in the
order of `open_stored_workspace`. `Rebase` is `try_reorg` onto a branch of any
length up to the own one. Abstracted: the chain is a counter with a file that
is always written (`Sync` has failing writes), the writer's queue has reached
the log (a kill before that is a kill one step earlier for what was not
announced), and the seat serves nothing (`Votes` does).

### Sync

As in `Chain` a block is its lineage; here the chain also has a `base`, the
height of the oldest block that is held. `seat[n]` keeps `pending_blocks`,
`fork_candidates`, `catchup_from`, `pending_served_blob`, the highest of
`peer_heights` and the peers served within the debounce; `disk[n]` is the chain
file. Actions: `Seal` and `SignCut`, `Deliver` (the `Committed`,
`CheckpointServed` and `ChainRequest` arms), `DebouncePasses`, `Reopen` (after a
crash with an empty memory; after a close with what `reset_workspace_state`
leaves behind). Every write of a chain that changed may fail (`durable`), and a
kill may fall between the chain file and the records of the same handler
(`SealKilled`, `DeliverKilled`): `adopt_committed_block` writes first and
records later, the record going through the writer's queue. After such a kill
what the handler was handed is handed over again; `silent` remembers the blocks
whose sealer did not announce them.

What a cut commits to (`Blob`) is the height and the set of what was decided:
`CheckpointState` keeps block order only within a surface and has no tip hash.
The changes of the model are taken to be of surfaces of their own, the worst
case. A signature under a cut counts for every chain with the same blob
(`Signed`), as `receive_checkpoint_proposal` compares only height and hash;
`voided` remembers a seal for which that mattered.

Abstracted: any seat may seal any change (voting and pacing are in `Chain` and
`Votes`), signatures under a cut reach every seat, a decision has one
attestation, a served blob fits its frame, a cut may be proposed at any time
rather than by the automatic trigger, and the wiki and vault bases are written.
A record that the writer's full queue drops (`storage-lagging`, events.rs:126)
is not told apart from the kill. `top` is raised by blocks and requests; the
`VoteRefused` arm, which raises it too, is left out.

### ProposalIds, Delivery, AcceptWindow, Epochs

* `ProposalIds`: the counter `next_id` of each seat and everything that pushes
  it: a mint, a card, a checkpoint cut, a verdict (parked if its card is
  unknown), a block, an adopted chain; the snapshot, the restart, and the rejoin
  after total loss, which starts over at 1. A restart takes the counter from the
  snapshot, the chain and the replayed records: `Proposed` and
  `MembershipProposed` push it, `CheckpointProposed` is replayed as nothing
  (`ReplayedIds`), and the cuts a seat had registered are gone. `forgot` is
  history: the own cuts whose id a restart left at or above the counter. A
  record is taken to be in the log when it is sent, which the outbox ensures as
  it reads the log, and a replayed membership id to be within the window.
* `Delivery`: the sender's log, cursor, per-receiver floor and ratchet, each
  with its disk copy; the receiver's window, ratchet, park and last claim sheet.
  Relays lose, repeat and reorder frames, and an envelope that cannot be framed
  is skipped. `Crash` and `CrashOfSender` keep only what was saved. The log holds
  foreign entries too (`Ackable` are the own), and declines (`Declines`): while
  the park for declines without a card is full (`DeclineParkTurns`), such an
  envelope is left unaccepted for the resend. A frame that no relay takes holds
  the publishing pass; that is a sender that does nothing.
* `AcceptWindow` has operators only: `IsAccepted` and `AcceptSeq` on the set,
  `BitIsAccepted` and `BitAccept` on the high mark and the words.
* `Epochs`: a group state is the sequence of commits merged (its branch), a
  frame carries the branch it was sealed under; the rewind slot, the exporter
  ring and the hold. `Lose` takes a device away, `Rekey`/`Join` bring the seat
  back, `Kill` returns a seat to the group it last saved. A drain of the hold is
  one step of the inbox task. The module ends with the decrypted frame: what the
  engine's accept windows make of it, two actor commands later, and their reset
  on a re-admission are not followed (section 4).

## 3. What is checked

| Run | Instance | Properties |
|---|---|---|
| `chain_shorter` | 2 seats, m = 1, 3 proposals, four blocks | `TypeOK`, `CardsMatchChain`, `NoFrozenVote`, `OwnVotesKeepTheirCard`, `ExchangeSettles`, `ImplementsThresholdLog` |
| `chain_converges` | 2 seats, m = 2, 3 proposals | `CardsMatchChain`, `ExchangeSettles` |
| `votes` | 3 seats, m = 2, three decisions | `TypeOK`, `MajorityIsUsed`, `NewestStanceKept`, `WithdrawalEndsTheVote`, `SealedOnStandingVotes`, `SignsOnlyItsDecision` |
| `reopen` | 1 of 3 seats, m = 2, four records, one restart | `TypeOK`, `DecisionIsOwn`, `RestoredVotesCount`, `NoVerdictLost` |
| `sync` | 2 seats, 2 changes and cuts, height 3, window 2 | `TypeOK`, `CutHistoryStands`, `LevelOrKnown` |
| `ids` | 3 seats, ids to 4 | `TypeOK`, `OneChangePerId`, `MinterIsKnown`, `MintIsNew` |
| `delivery` | 1 receiver, 4 log entries, 5 frames, windows of 2 seqs | `TypeOK`, `InOrderFromTheBaseline`, `ConfirmedIsHeard`, `OwedAckIsSent` |
| `delivery_arrives` | 1 receiver, 6 entries, windows of 2 words of 2 bits | `ReadsAsTheSet`, `FirstMissingGetsIn` |
| `epochs` | 4 seats, 2 commits, 2 frames | `TypeOK`, `EpochsConverge`, `EvictedCommitLoses`, `DrainLeavesNothingReadable` |
| `sync_lag` | as `sync`, no faults | `NobodyLags`, violated |
| `chain_standing` | 2 seats, m = 2, 2 proposals | `StandingApprovalsSigned`, violated |
| `chain_forgotten` | 3 seats, m = 1, 2 proposals | `ForgottenCardCanReturn`, violated |

### Chain

The state space is finite because an id is decided once. `FourBlocks` (a
CONSTRAINT of both passing runs) stops following a behaviour once the two seats hold more than four
blocks between them, which still has three blocks against one, two against two
and a third vote in flight. Three proposals are the fewest for which a re-base
onto a shorter branch can leave a vote behind; with m = 1 two seats already
attest one decision in two ways; m = n is where every lost race forces everybody
to sign again. `HashLess` ranks blocks by attesting names, then by descending
id, so that neither the first proposal nor the lowest seat always wins. There is
no symmetry: names and ids are ordered by the code.

* `CardsMatchChain`: a card reads Applied exactly while the chain holds its
  block. Four different paths (append, relink, tip swap, re-base) maintain it.
* `NoFrozenVote`: no signature set is bound to a height past the next block, and
  a decided proposal keeps none. A frozen set would refuse every later vote.
* `OwnVotesKeepTheirCard`: dropping a block forgets materialized cards only,
  never one this seat voted on.
* `ImplementsThresholdLog`: each seat's log moves only to an extension or to a
  branch that outranks it where they part; every entry is decided once and
  carries m signatures made for that very height; a seat signs only above a log
  that has not decided the proposal.
* `ExchangeSettles`: in every reachable state, whatever buffers and fork
  candidates earlier blocks left behind, two seats that read each other's chain
  from the bottom, twice, hold one chain. It is a statement about the rules of
  `receive_block_from`; that anybody serves its chain is not part of it (requests
  are deduplicated and debounced, see `Sync`). In the instance with m = n once
  is enough, in the one with m = 1 it is not.

### Votes

`Scenario` explores three decisions that cross while the heads stand still, two
decisions around a re-base, and two decisions around a re-serve. Three
seats with m = 2 have room for exactly one decline, so the second one rejects.
The first four properties below except, by name (`Relayed`), a signature that a
third seat re-served: it may be older than its author's decline and clears it
all the same (section 4).

* `NewestStanceKept`: with everything delivered, a seat that had the card before
  the votes counts exactly the members whose newest decision is a decline.
* `SealedOnStandingVotes`: no block carries the signature of a member whose
  newest word to the sealer was a decline.
* `SignsOnlyItsDecision`: a re-base signs again only what the operator decided
  last.
* `MajorityIsUsed`: the code does not try the seal when a card arrives after its
  signatures; some other seat then seals, or has its seal waiting. In the run,
  with three seats and m = 2, that other seat always got its card in time; the
  case that hangs on it takes four seats, which an instance of four seats
  without declines (too large to keep) and the theorem cover. The signers must still be at
  the height they signed for, and a re-served signature is excepted: it clears
  its author's decline after the seal was tried, so it can complete a majority
  nobody uses.
* `WithdrawalEndsTheVote`: nobody is left with an open card after a withdrawal.

### Reopen

`Scenario` follows four records with snapshots anywhere between them and one
block, or three records and a change of branches: a card, two votes and a
decline are enough for every order of snapshot, vote and retraction, and two
heights for a branch that is left.

* `RestoredVotesCount`: every signature for the next height that the replayed
  records hold, and that its author has not taken back since, counts after the
  restart, and an own one is still the seat's decision.
* `DecisionIsOwn`: the register a re-base signs from without asking holds an open
  vote only if the operator's newest decision is to approve, whatever the peers
  re-served in the seat's name and wherever a restart fell. Of a card that is
  over it claims nothing: a replay may reject a card that was open, and a decline
  after that leaves the register as it is. A re-base signs open cards only.
* `NoVerdictLost`: a vote that was over stays over, none that was not becomes
  applied, and a card that stays open keeps the declines against it.

### Sync

`Scenario` bounds the signatures under cuts to two and the logs to six, because
two seats split by a contended cut go on asking and serving for ever. One write
fails and one seat crashes or is closed. A window of two makes the buffers shed.
`TypeOK` says nothing of how the chain and a stashed blob compare: a chain that
passes the cut in the normal way leaves the stash behind until the next block or
blob looks at it.

* `CutHistoryStands`: no seat stands on a branch that beats history another seat
  dropped at its anchor; nothing could reconcile the two. It takes the n-of-n
  rule and the rule that only a durable seal is announced; each alone fails
  (both are mutants). It excepts behaviours in which a seat has served, or
  signed a cut of, a chain that is not on its disk, and those in which a cut was
  sealed with a signature given on another order of the same changes; without
  the second exception TLC shows one seat on <<3, 7>> and one pruned on
  <<7, 3, cut>>.
* `LevelOrKnown`: when everything sent has arrived the chains are equal, or one
  of six named obstacles stands (see section 4): a refused request or block, an
  outstanding request, a candidate below the anchor, a block that its sealer did
  not announce, a contended cut. It says that gaps, shed
  buffers, forks, cuts and lost writes are otherwise all made up for. It is
  stated for two seats; section 4 says what comes in between three.

### ProposalIds, Delivery, AcceptWindow, Epochs

Their `Scenario`s are unions of smaller explorations, each with one kind of
fault, since all faults at once exceed minutes.

* `OneChangePerId`, `MinterIsKnown`, `MintIsNew`: section 5. The first and the
  last except the id of a cut that a kill took out of the counter.
* `InOrderFromTheBaseline`: with neither valve nor kill, envelopes are applied in
  order, once, without a gap from the first on; what lies below the first is
  applied in order too, without a gap but for what had aged out of the window.
  The run's window holds two seqs, so aging happens. `ConfirmedIsHeard`: what the
  sender counts as confirmed was applied, through every kill.
  `OwedAckIsSent`: an armed acknowledgement is spent on a sheet.
  `FirstMissingGetsIn`: the first own envelope a receiver misses is applied when
  it is offered again, whatever was parked, shed, lost or released before; hence
  a resend always makes progress. Excepted are an envelope that has aged out
  below the window, and a decline while its park is full, which must stay
  unaccepted meanwhile. Its log is longer than the window, so aging happens, and
  it is written before the first frame goes out. After a kill only the second
  half is claimed; the `delivery_arrives` run has none.
* `ReadsAsTheSet`: for every window a receiver comes to hold and every seq that
  may come next, the shifted words answer what the set answers, before and after
  accepting it; the shifts are below, at and above word and window.
* `EpochsConverge`: two concurrent commits, in whatever order they reach each
  seat, leave all survivors on one branch, once nothing on the relays moves any
  of them. `EvictedCommitLoses`: of two commits, that of a device which the
  other evicts wins nowhere. Both except a seat that was killed after it made
  a commit, and speak of two commits (section 4).
  `DrainLeavesNothingReadable`: a commit that moves a seat's group opens
  everything that was held for the epoch it ends on, in whatever order and
  however often the hold keeps commits and frames, and gives up nothing it could
  read. The seats that
  are there at the start are interchangeable (`SYMMETRY`); digests are ordered.

The runs search their (constrained) state spaces completely. Deadlock is checked
for `Chain`; the other instances stop when their bounds are spent.

### Fairness

No run assumes any. What the code would have to guarantee for a liveness claim
about chains is that a served chain is served again; it does not: a request is
not repeated while its gap stands (sync.rs:171), a repeated one is dropped by the
debounce, and nobody asks when no block comes. So the progress the system owes is
stated as safety: what an exchange of chains leads to (`ExchangeSettles`), where
the chains stand once everything sent has arrived (`LevelOrKnown`), that an
offered envelope gets in (`FirstMissingGetsIn`), that an owed acknowledgement is
not swallowed (`OwedAckIsSent`), and that a majority is used once everything is
delivered (`MajorityIsUsed`).

## 4. Where the code and its comments disagree

With a run:

* `chain_standing`. The comment in `tie_break` says "the displaced proposal
  returns to pending and re-bases". It returns to pending, but
  `rebase_pending_approvals` only re-signs ids that have an entry in
  `pending_sigs`, and that entry was removed when the block was applied. A seat
  that had approved leaves the proposal open and unsigned at the new height.
  `try_reorg` re-signs these explicitly. Re-signing the displaced id in
  `SwapTip` makes the property hold.
* `chain_forgotten`. A card that was only materialized from the displaced block
  is dropped, and "the WP2 re-serve restores the real card while the vote is
  open". The swap leaves the cached walk alone, whose `seen` holds the
  displaced id, and `receive_proposed` refuses every id in it until the next
  append has rebuilt the walk.
* `sync_lag`. `note_peer_height` keeps the maximum a peer ever claimed. Seat 2
  builds two blocks, seat 1 one better block; seat 2 re-bases onto it, the
  chains are equal, and seat 1 is told for ever that a peer is ahead:
  `refuse_a_lagging_vote` refuses its approvals and declines, although "a vote cast while the
  peers are ahead is signed at a height the republic has left" does not apply.

Met while modelling, and stated as exceptions of the properties above unless
said otherwise; each of those was seen as a counterexample when the exception
was left out:

* Votes. A re-served approval clears the decline of the member it names,
  whoever sent it, because keeping it in the own log runs the applier
  (events.rs:376); ingest.rs:460 gates the same clear on `by == from`. A block
  is then sealed over a decline the sealer has heard, a seat may sign again what
  its operator declined, and a majority that the clearing completes is not used,
  as the seal was tried before (`Relayed`).
* Votes. A decline that outran its card is registered when the card comes, also
  after a newer approval of the same member (proposals.rs:1389); hence
  `overtaken` in `NewestStanceKept`.
* Votes. Declines reject on the seat that holds n - m + 1 of them at one time;
  another seat that saw one of them retracted in between keeps the card open for
  ever, against governance_tests.rs:404, "kill the proposal on every node".
* Reopen. A snapshot (on a clean close and every thousandth record) holds the
  card and its decliners, not the signatures nor the own decision, and only the
  records after it are replayed: the votes collected before a clean close are
  gone. proposal_store_tests.rs:48 says "a reopen must keep WHO proposed and
  WHAT was voted", and its tests reopen without a snapshot; events.rs:344 names
  the consequence for the own decision, "else the next re-base drops the
  standing decision". The request sent on opening does not bring them back, as
  one beyond the head is not served.
* Reopen. After a longer branch was left, the replay collects the signature of
  the higher, abandoned height and ignores the valid one below it; the set stays
  bound past the next block until the chain grows there. That is the freeze
  which governance.rs:1166 guards against on the wire.
* Reopen. `deliver_gated` clears a decline in memory (ingest.rs:464) also when
  the approval is then dropped and not recorded, so a replay brings the decline
  back and may reject a card that was open, although `apply` is documented as
  "The only mutator of workspace state" (events.rs:147).
* Reopen. A parked voice is acknowledged to its sender and kept in memory only:
  a restart before the card comes forgets it.
* Delivery. The claim sheet leaves before the window is saved; a kill in between
  leaves the receiver waiting, until the valve opens, for an envelope the sender
  counts as confirmed (delivery.rs:130, "resends + re-dedup absorb").
* Delivery. A lost claim sheet is not repeated for a duplicate, since the sheet
  has not changed (delivery.rs:313 against delivery.rs:351).
* Votes. A seat whose head has moved signs again for the new height, and a seat
  that gets there later has dropped the signature for the old one. With four
  seats and heads that move unevenly, one seat can count m signatures of which
  two signers are at another height; neither they nor anybody else seals before
  the next signature or block (`seat[b].head` in `MajorityIsUsed`).
* Epochs. The contest of commits is not transitive: with three commits on one
  epoch the evicted committer's can win in some order (mls.rs:942). A frame two
  epochs ahead is given up after the first advance (group_runtime.rs:1415), and
  so is one of the branch that lost. A
  committer killed before its group is saved cannot process its own commit and
  stays behind (delivery.rs:83), also on the evicted device's commit, if its own
  was the one that evicts it (`Bereft`).
* Epochs, read in the code and not modelled. A frame is decoded in the inbox task
  (group_runtime.rs:1274) and accepted by the engine two commands later (1300).
  An approval that seals in between may re-key and reset the accept window of a
  re-admitted seat (membership.rs:1096); a queued frame of its old device then
  marks its number in the new window, and the new device's frame of that number
  is dropped as a duplicate. The windows do not follow a rewind either, nor a
  kill that brings back a saved branch, and a decoded frame may still wait in the
  in-order park (delivery.rs:180). Hence no property of this project says that
  what a seat decrypts it applies.
* ProposalIds. `CheckpointProposed` is replayed as nothing (events.rs:490), so
  after a kill before the next snapshot a seat may mint the id of a cut it has
  gossiped for another change. A peer that still holds the cut refuses the card
  (governance.rs:1090, "refusing a surface proposal whose id names a chain
  change") until its head moves (`forgot`).
* Votes, Reopen. `receive_approval` and the applier set the verified mark after
  `collect_sig` whatever that did (governance.rs:1178, events.rs:362): on a card
  that is over, and in a replay that left a set above the height, a mark stands
  without a held signature. A seal counts held signatures (`Counted`) and a
  re-serve takes those that are both, so the stray mark has no effect.
* Sync. A cut sealed at a height where another seat sealed a smaller ordinary
  block splits the republic: the pruned holder takes the rival for a contender
  on a shared predecessor, fails to verify the swap and reverts it
  (sync.rs:600, "should not happen for a verified block"), the other side keeps
  the better block (`Contended`). The two then ask and serve every debounce,
  without end.
* Sync. A request that is outstanding is not repeated (sync.rs:171), nor one the
  debounce refused; a seat whose open request reached beyond every head asks no
  more when a gap appears at that height (`Outstanding`, `refused`).
  governance.rs:598 says losing a batch "costs a re-fetch and nothing else".
* Sync. Between three seats more can go astray. The links of two peers are not
  ordered, so a block further past the head than the window can come first; it
  is refused and nothing is asked for (sync.rs:113). The candidates of all
  peers share one set: if a candidate loses at the fork, or is by now a block
  of the own chain, the whole set is cleared (sync.rs:286), with the blocks of
  another branch that wins. Nobody asks for them before the next block comes.
  Hence `LevelOrKnown` is stated for two seats; each case was seen in simulated
  behaviours of three.
* Sync. A fork candidate at or below the anchor stays the lowest one, and
  nothing below the newer ones is asked for (`Pinned`).
* Sync. `serve_chain_from` and the signing of a cut do not ask whether the chain
  is durable, so a block that the seal held back is spread after all (`voided`;
  governance.rs:547, "broadcast only what is durable").
* Sync. The state hash under a cut does not depend on the order of blocks of
  different surfaces and has no tip hash (molt-core chain.rs:497), and
  `receive_checkpoint_proposal` compares height and hash only
  (checkpoint.rs:175): seats on two branches of the same changes sign one cut,
  and whoever seals it drops a history that the other still stands against
  (`Crossed`, `voided`).
* Sync. A kill between the chain file (governance.rs:543) and the `Committed`
  record (566) leaves a durable block that nobody is told of: on opening the
  seat asks for the height above it, which no peer has, and no peer asks
  (`silent`, `Untold`). The next block heals it.
* lib.rs:807 says `reset_workspace_state` clears the chain projection with the
  workspace; `fork_candidates`, `diverged` and `peer_heights` are not cleared.

## 5. What is proved

`Chain_proofs` proves, for every finite set of seats and proposals, every
threshold 1 <= m <= n, every configuration of self-signing and voting and every
hash order (not even that it is an order is used):

| Theorem | Statement |
|---|---|
| `Invariance` | `Spec => []Inv` |
| `TypeCorrect` | `Spec => []TypeOK` |
| `CardsFollowTheChain` | `Spec => []CardsMatchChain` |
| `VotesNeverFreeze` | `Spec => []NoFrozenVote` |
| `OwnVotesAreKept` | `Spec => []OwnVotesKeepTheirCard` |

The assumptions are the three named ASSUMEs of `Chain`: seats and ids are finite
sets of numbers, m is between 1 and the number of seats, the other parameters
have their types.

The inductive invariant `Inv` says of every seat that its state is well typed
with finite buffers, that its chain verifies, and the three properties above,
and of the messages that they are well typed. The properties alone are not
inductive. That the chain verifies is needed because a tip swap returns the
displaced proposal to the vote: only if ids do not repeat is it certain that the
rest of the chain does not decide it too. Finite buffers are needed because a
drain and a deep tie-break take the *longest* run of buffered blocks, which
exists only in a finite set. `m <= n` and the finiteness of `Member` give the m
lowest names that a sealer picks.

The proof has a lemma per handler operator (`CollectSigInv`, `SettleCardsInv`,
`RebaseInv`, `TryCommitInv`, `TieBreakInv` ...), each from a good seat to a good
seat, then a lemma per action, and `NextInv` combines them. Facts about
sequences and prefixes, and the existence of extremal elements of finite sets,
are stated once at the top.

`ProposalIds_proofs` proves, for every finite roster of numbered seats and every
bound:

| Theorem | Statement |
|---|---|
| `IdsInvariant` | `Spec => []IInv` |
| `NoCollision` | `Spec => []OneChangePerId`: two seats never give one id to two changes, and a device gives it twice only after it forgot a cut |
| `MintersAreKnown` | `Spec => []MinterIsKnown`: the stride inverts, so an id tells its seat |
| `MintsAreNew` | `Spec => []MintIsNew`: a seat's next id names nothing it knows of or has proposed, but for a forgotten cut |
| `IdsTyped` | `Spec => []TypeOK` |

`IInv` adds to the types that every minted id lies in the class of its seat, that
a device still holds the cards it minted, that it minted each id once (cuts it
forgot aside), and that its counter is above everything it knows of
(`MintIsNew`). The last two need
each other: a mint is new because what the device minted before is among the
cards it keeps, and a restart rebuilds the counter from exactly those, the chain
and the snapshot.
The arithmetic is in four lemmas on remainders (`RoundUp`: rounding a floor up
to a class ends in that class) and two on positions (a position in the sorted
roster is below n and tells the seat).

`Chain_refinement` proves, under the same assumptions as `Chain_proofs`:

| Theorem | Statement |
|---|---|
| `Refinement` | `Spec => ImplementsThresholdLog`: `Chain` implements the abstract log, step by step |
| `AttestationsAreReal` | `Spec => []SignInv` |

`ThresholdLog` asks that each entry carries m signatures made for that very
height. No handler says so: a relink carries attestations over to another
predecessor, a drain takes blocks from the buffer, a seal takes what was
collected. `SignInv` says of everything a seat holds (chain, buffers, collected
sets) and of every block in flight that its attestations were gossiped for that
id and height; with `Inv` it is inductive. `InitImplements` maps the initial
state, and every action is a step of the abstract log or leaves it alone.

`Delivery_proofs` proves, for any log, window, park, and any number of
receivers, losses, kills and openings of the valve:

| Theorem | Statement |
|---|---|
| `Invariance`, `TypeCorrect` | `Spec => []IInv`, `Spec => []TypeOK` |
| `Confirmed` | `Spec => []ConfirmedIsHeard` |
| `Ordered` | `Spec => []InOrderFromTheBaseline` |
| `AckOwed` | `Spec => OwedAckIsSent` |

`IInv` relates each window a receiver holds, has saved or has sent to what its
engine applied: every mark, and everything below the window, was applied or had
aged out. As long as there is neither kill nor valve the window is exactly what
the applied sequence makes it, which is what the order rests on. The last sheet
sent has to be part of it (`LastSheetCounts`), because the code sends nothing if
the sheet has not changed.

`Votes_proofs` proves, for any number of seats, threshold, decisions, foreign
blocks and re-serves:

| Theorem | Statement |
|---|---|
| `Invariance`, `TypeCorrect` | `Spec => []IInv`, `Spec => []TypeOK` |
| `Sealed` | `Spec => SealedOnStandingVotes` |
| `Signs` | `Spec => SignsOnlyItsDecision` |
| `NewestStance` | `Spec => []NewestStanceKept` |
| `Withdrawal` | `Spec => []WithdrawalEndsTheVote` |
| `MajorityUsed` | `Spec => []MajorityIsUsed` |

`IInv` says how a seat's view fits what it has been told (`Fits`): a member whose
newest word is a decline is parked, registered or forgiven only by a relayed
signature; a verified own signature is the operator's decision; each log ends in
its operator's decision (`VoicesTrue`); and a seat that was handed the withdrawal
has its card over, or the withdrawal parked (`WithdrawalsOK`). None of the properties is inductive
without the parks, as a decline may be heard before the card.

`MajorityUsed` needs an argument over all seats, `Used`, inductive beside `IInv`
while nothing is sealed. Of each seat (`Worthy`) it says that what it counts it
was told (`Sound`), and that if it could seal and has no seal waiting, then its
card came last (`Tried`): no counted signature is its own, and no counted signer
has ever declined. Of all of them (`Gathered`) it says that among any seats at
one height there is one that holds the signatures of all of them for the next
height, as far as it was told of them, unless the vote is over for it. That
seat is the one that was the last to come to the height: the others signed
before and their signatures reach it there, while theirs may have dropped its.
`Gathered` is what survives a head that moves. Suppose now that everything is
delivered, a seat counts m signers at its own height, and no seal waits. The
signer that `Gathered` names was told what everybody was told, so its card is
open and it counts all m, its own signature among them, and `Tried` says that it
cannot.

`Reopen_proofs` proves, for any number of seats, threshold, log, and any number
of snapshots, kills and openings:

| Theorem | Statement |
|---|---|
| `Invariance`, `TypeCorrect` | `Spec => []IInv`, `Spec => []TypeOK` |
| `OwnDecision` | `Spec => []DecisionIsOwn` |
| `VerdictsSurvive` | `Spec => NoVerdictLost` |
| `VotesSurvive` | `Spec => RestoredVotesCount` |

A kill may come at any moment, so the invariant is about a replay that has not
happened: `Mirrored` says that replaying the records over the last snapshot
would at this moment end in a seat that pairs with the one in memory (the same
card or a verdict, no decline less, no decision that is not the operator's).
Each action extends the replay by the records it writes. `VotesSurvive` then
follows a single signature from its record to the end of the replay.

`Sync_proofs` proves, for any set of seats, changes, window, bounds, and whatever
writes fail:

| Theorem | Statement |
|---|---|
| `Invariance`, `TypeCorrect` | `Spec => []IInv`, `Spec => []TypeOK` |
| `CutStands` | `Spec => []CutHistoryStands` |

The argument for `CutStands` does not look into the handlers. `Core` speaks of the
chains in memory, those on disk, the announced blocks and the signatures under
cuts: each chain of a seat is no worse than anything the seat signed or
announced, every height of it was either announced by someone who has signed
nothing worse than it or is original to the seat in that sense, and what lies
below each of its cuts was signed by all. It is kept by six abstract steps
(sign, grow, write down, announce, move to a better announced chain, fall back to
the disk), a lemma each; the handlers' lemmas (`TieBreakFacts`, `TryReorgFacts`,
`TryAdoptFacts` ...) show that they do nothing else. The disk has to be part of
it because a crash returns to it, and so the argument needs that only what is on
the disk is announced or signed, and that a cut is sealed on signatures for its
own order, which is what `voided` records: the steps are only claimed to keep
`Core` while it is false. A kill between the file and the record is two of the
steps, grow and write down, without the announcement. Everybody signed
the history below a cut, nobody's chain is worse than what it signed, so no
chain beats it. `MaxLen` bounds the heights, at an arbitrary value.

`Epochs_proofs` proves, for any number of seats, digests, frames, losses and
kills, any ring and any hold:

| Theorem | Statement |
|---|---|
| `Invariance`, `TypeCorrect` | `Spec => []IInv`, `Spec => []TypeOK` |
| `DrainReadsTheHold` | `Spec => DrainLeavesNothingReadable` |
| `OneEpoch` | `Spec => []EpochsConverge` |
| `EvictedLoses` | `Spec => []EvictedCommitLoses` |

`IInv` has four parts: `Types`; `Kept`, the hold within its bound; `NetInv`, that
every commit on the relays was made on commits that are there and that a digest
names one commit; and `Seated`, the invariant of one seat. The last says that a
branch, in memory and on disk, consists of published commits from where the
device joined (`Made`, `Rooted`), that the rewind slot is armed exactly if there
is a commit to take back (`Fit`), and of a committer that was not killed that it
is past its own commit and yields to a rival only if that one wins (`Author`,
`Yields`).

It is kept by one frame that opens, hence by a pass over the hold and by the
rounds of a drain. Both are folds, and the library's induction theorems do not
apply; the lemmas on them take a least index at which the claim fails instead
(`LeastNat`). That the rounds suffice follows from counting: each
but the last shortens the hold.
With two commits on one epoch, a settled seat that saw either has contested them
and stands on the winner; `TheirsWin` is decided by the eviction first and
is antisymmetric, so all stand on the same one.

The assumptions of all of these are the ASSUMEs of the modules: finite sets of
seats, 1 <= m <= n where there is a threshold, a window and a park that are not
empty, changes and seats that are numbers where the code orders them.

Only model-checked:

* `ExchangeSettles` and `FirstMissingGetsIn`: the first is what a fold of
  `receive_block_from` over a whole chain computes, an induction over data, and the
  second would take a stronger link between the park and the window than `IInv` has;
* `ReadsAsTheSet`: what the shifted words hold is bit arithmetic with remainders
  and powers of two at every position; the provers know nothing of `^`, and what
  they would need of it takes an induction;
* `LevelOrKnown`: it is about the end of an exchange of requests and answers
  between two seats, a liveness argument in the form of an invariant: it would
  take the whole history of both links.

## 6. Plan

1. Sync between three seats: what of `LevelOrKnown` remains if the candidates
   are kept per peer.
2. Replay composed with `Chain`: the card of a block that a re-base dropped,
   and the proposer's own card, over the log tail.
3. `Recovery`: consents, tickets and the Restored block, on top of `Epochs`.
4. `Founding`, then vault grants.

## 7. Running

    tlc -config Sync.cfg MCSync
    tlapm Chain_proofs.tla

Each run takes from seconds to three minutes with two workers, each proof module
one to a few minutes.

## 8. Not modelled

Cryptography, serialisation, file formats, sockets and the UI: the first is
assumed ideal, the others carry no state the properties speak of. The wiki and
kanban folds are functions of the chain's order. Most of the repository by
volume is of that kind (views, folds, MCP, transfers, UI), so the map covers a
small share of its lines, and a large one of `chain/` and `net/`. Founding,
recovery consents, the vault and the treasury run have protocols of their own
that are not modelled yet. `PROJECT.json` lists every component with its reason.
