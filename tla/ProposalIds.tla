---------------------------- MODULE ProposalIds ----------------------------
(***************************************************************************)
(* How the seats of a republic name their proposals.  There is no id       *)
(* server: seat k of n mints the ids congruent to k+1 modulo n, from a     *)
(* counter that every id it hears of pushes ahead (molt-engine             *)
(* proposals.rs, chain/governance.rs, chain/projection.rs).  An id is what *)
(* a vote names, so two changes under one id are two seats voting on       *)
(* different things.                                                       *)
(*                                                                         *)
(* A seat is a number, and the order of the numbers is the order of the    *)
(* names.                                                                  *)
(***************************************************************************)
EXTENDS Integers, FiniteSets

CONSTANTS
    Seat,
    Window,     \* PARKED_DECLINE_ID_WINDOW
    OpenMax,    \* OPEN_CARDS_PER_PROPOSER_MAX
    MaxId,      \* bound: the ids that are minted
    MaxLose     \* bound: how many devices are lost

ASSUME IdsAssumption ==
    /\ Seat \subseteq Nat /\ IsFiniteSet(Seat) /\ Seat # {}
    /\ Window \in Nat /\ OpenMax \in Nat /\ MaxId \in Nat /\ MaxLose \in Nat

VARIABLES
    next_id,    \* the lower bound of the next mint
    card,       \* the cards each seat has registered, in memory and in its log
    cut,        \* the checkpoint cuts it has registered, in memory only
    seen,       \* the ids its chain has consumed
    parked,     \* the ids of the cards whose decline or withdrawal outran them,
                \* in memory only
    snap,       \* next_id in its last snapshot
    inc,        \* which device of the seat it is
    minted,     \* every card that was ever proposed
    chain,      \* the cards sealed so far, by anybody
    forgot      \* history: the cuts whose id a kill took out of the counter

vars == <<next_id, card, cut, seen, parked, snap, inc, minted, chain, forgot>>

N == Cardinality(Seat)

\* A change under an id; the changes of a device are numbered.  A cut is a
\* change like any other, but has no card and no place among the consumed ids.
Card == [kind : {"card", "cut"}, id : Nat, by : Seat, inc : Nat, change : Nat]
IdsOf(cards) == {x.id : x \in cards}

\* seat_stride: the position in the sorted roster.
Position(n) == Cardinality({m \in Seat : m < n})

\* Seat k mints the class k.
OffByOneFaulty(n) ==
    LET floor == next_id[n]
        want == Position(n) % N
    IN  floor + (((want + N) - (floor % N)) % N)

\* mint_proposal_id: the floor, rounded up into the seat's class.
Mint(n) ==
    LET floor == next_id[n]
        want == (Position(n) + 1) % N
    IN  floor + (((want + N) - (floor % N)) % N)

\* minting_seat: whose class an id is of.
MintingSeat(id) == {m \in Seat : Position(m) = (((id % N) + N) - 1) % N}

Bump(n, id) == IF id >= next_id[n] THEN id + 1 ELSE next_id[n]

IsTop(x, S) == x \in S /\ \A y \in S : y <= x

Plausible(n, id) == id <= next_id[n] + Window

Init ==
    /\ next_id = [n \in Seat |-> 1] /\ snap = next_id
    /\ card = [n \in Seat |-> {}] /\ cut = card /\ seen = card /\ parked = card
    /\ inc = [n \in Seat |-> 0] /\ minted = {} /\ chain = {} /\ forgot = {}

Own(n) == {x \in minted : x.by = n /\ x.inc = inc[n]}

\* What seat n puts under its next id.
Fresh(n, kind) ==
    [kind |-> kind, id |-> Mint(n), by |-> n, inc |-> inc[n], change |-> Cardinality(Own(n))]

\* The own card counts only once it comes back from the channel.
ProposeFaulty(n) ==
    LET x == Fresh(n, "card")
    IN  /\ x.id <= MaxId
        /\ minted' = minted \cup {x}
        /\ UNCHANGED <<next_id, card, cut, seen, parked, snap, inc, chain, forgot>>

\* cmd_propose, also for membership changes and grants.
Propose(n) ==
    LET x == Fresh(n, "card")
    IN  /\ x.id <= MaxId
        /\ next_id' = [next_id EXCEPT ![n] = x.id + 1]
        /\ card' = [card EXCEPT ![n] = IF x.id \in IdsOf(@) THEN @ ELSE @ \cup {x}]
        /\ minted' = minted \cup {x}
        /\ UNCHANGED <<cut, seen, parked, snap, inc, chain, forgot>>

\* cmd_propose_checkpoint.
ProposeCut(n) ==
    LET x == Fresh(n, "cut")
    IN  /\ x.id <= MaxId
        /\ next_id' = [next_id EXCEPT ![n] = x.id + 1]
        /\ cut' = [cut EXCEPT ![n] = @ \cup {x}]
        /\ minted' = minted \cup {x}
        /\ UNCHANGED <<card, seen, parked, snap, inc, chain, forgot>>

\* receive_proposed: an implausible id and the card of a proposer with too many
\* open ones are refused; the counter moves past any other id; a consumed id
\* and an id that names another change are refused then.
ReceiveProposed(n, x) ==
    LET open == {y \in card[n] : y.by = x.by /\ y.id \notin seen[n]}
    IN  /\ x.kind = "card" /\ Plausible(n, x.id)
        /\ x.id \in IdsOf(card[n]) \/ Cardinality(open) < OpenMax
        /\ next_id' = [next_id EXCEPT ![n] = Bump(n, x.id)]
        /\ card' = [card EXCEPT ![n] = IF x.id \in seen[n] \cup IdsOf(@) \cup IdsOf(cut[n])
                                       THEN @ ELSE @ \cup {x}]
        /\ parked' = [parked EXCEPT ![n] = @ \ IdsOf(card'[n])]
        /\ UNCHANGED <<cut, seen, snap, inc, minted, chain, forgot>>

\* receive_checkpoint_proposal: the counter moves past the id, then the cut is
\* registered if it is one of the own head and its id names no other change.
ReceiveCut(n, x) ==
    /\ x.kind = "cut" /\ Plausible(n, x.id)
    /\ next_id' = [next_id EXCEPT ![n] = Bump(n, x.id)]
    /\ \/ UNCHANGED cut
       \/ /\ x.id \notin IdsOf(card[n]) \cup IdsOf(cut[n])
          /\ cut' = [cut EXCEPT ![n] = @ \cup {x}]
    /\ UNCHANGED <<card, seen, parked, snap, inc, minted, chain, forgot>>

\* register_decline, register_withdraw of a card that has not arrived: parked.
ReceiveVerdict(n, x) ==
    /\ x.kind = "card" /\ x.id \notin IdsOf(card[n]) /\ Plausible(n, x.id)
    /\ next_id' = [next_id EXCEPT ![n] = Bump(n, x.id)]
    /\ parked' = [parked EXCEPT ![n] = @ \cup {x.id}]
    /\ UNCHANGED <<card, cut, seen, snap, inc, minted, chain, forgot>>

\* A card that some seat holds is sealed; the chain takes an id once.  A head
\* that moves ends every cut below it.
Seal(n) ==
    /\ \E x \in card[n] :
        /\ x.id \notin IdsOf(chain) /\ seen[n] = IdsOf(chain)
        /\ chain' = chain \cup {x}
        /\ seen' = [seen EXCEPT ![n] = @ \cup {x.id}]
    /\ \E top \in seen'[n] :
        IsTop(top, seen'[n]) /\ next_id' = [next_id EXCEPT ![n] = Bump(n, top)]
    /\ cut' = [cut EXCEPT ![n] = {}]
    /\ UNCHANGED <<card, parked, snap, inc, minted, forgot>>

\* A block that consumes no id, a membership change or a cut: the head moves.
HeadMoves(n) ==
    /\ cut[n] # {} /\ cut' = [cut EXCEPT ![n] = {}]
    /\ UNCHANGED <<next_id, card, seen, parked, snap, inc, minted, chain, forgot>>

\* The blocks are adopted without a look at the counter.
AdoptFaulty(n) ==
    /\ seen[n] # IdsOf(chain)
    /\ seen' = [seen EXCEPT ![n] = IdsOf(chain)]
    /\ cut' = [cut EXCEPT ![n] = {}]
    /\ UNCHANGED <<next_id, card, parked, snap, inc, minted, chain, forgot>>

\* adopt_chain, append_committed_block: bump_next_id_past_chain.
Adopt(n) ==
    /\ seen[n] # IdsOf(chain)
    /\ seen' = [seen EXCEPT ![n] = IdsOf(chain)]
    /\ \E top \in seen'[n] :
        IsTop(top, seen'[n]) /\ next_id' = [next_id EXCEPT ![n] = Bump(n, top)]
    /\ cut' = [cut EXCEPT ![n] = {}]
    /\ UNCHANGED <<card, parked, snap, inc, minted, chain, forgot>>

Snapshot(n) ==
    /\ snap[n] # next_id[n]
    /\ snap' = [snap EXCEPT ![n] = next_id[n]]
    /\ UNCHANGED <<next_id, card, cut, seen, parked, inc, minted, chain, forgot>>

\* The ids of the records in the log: Proposed and MembershipProposed bring back
\* their card, CheckpointProposed is replayed as nothing.
ReplayedIds(n) == IdsOf(card[n])

\* A restart: the snapshot, the chain's ids, then the log's.
Reopen(n) ==
    /\ LET floors == {snap[n]} \cup {id + 1 : id \in seen[n] \cup ReplayedIds(n)}
       IN  \E top \in floors :
            IsTop(top, floors) /\ next_id' = [next_id EXCEPT ![n] = top]
    /\ parked' = [parked EXCEPT ![n] = {}] /\ cut' = [cut EXCEPT ![n] = {}]
    /\ forgot' = forgot \cup {x \in Own(n) : x.kind = "cut" /\ x.id >= next_id'[n]}
    /\ UNCHANGED <<card, seen, snap, inc, minted, chain>>

\* The new device counts from 0, the id of the folds.
FromZeroFaulty(n) ==
    /\ inc[n] < MaxLose /\ inc' = [inc EXCEPT ![n] = @ + 1]
    /\ next_id' = [next_id EXCEPT ![n] = 0] /\ snap' = [snap EXCEPT ![n] = 1]
    /\ card' = [card EXCEPT ![n] = {}] /\ seen' = [seen EXCEPT ![n] = {}]
    /\ parked' = [parked EXCEPT ![n] = {}] /\ cut' = [cut EXCEPT ![n] = {}]
    /\ UNCHANGED <<minted, chain, forgot>>

\* A device is lost and the seat comes back with nothing but the founding.
Rejoin(n) ==
    /\ inc[n] < MaxLose /\ inc' = [inc EXCEPT ![n] = @ + 1]
    /\ next_id' = [next_id EXCEPT ![n] = 1] /\ snap' = [snap EXCEPT ![n] = 1]
    /\ card' = [card EXCEPT ![n] = {}] /\ seen' = [seen EXCEPT ![n] = {}]
    /\ parked' = [parked EXCEPT ![n] = {}] /\ cut' = [cut EXCEPT ![n] = {}]
    /\ UNCHANGED <<minted, chain, forgot>>

Next ==
    \E n \in Seat :
        \/ Propose(n)
        \/ ProposeCut(n)
        \/ \E x \in minted :
            ReceiveProposed(n, x) \/ ReceiveCut(n, x) \/ ReceiveVerdict(n, x)
        \/ Seal(n)
        \/ HeadMoves(n)
        \/ Adopt(n)
        \/ Snapshot(n)
        \/ Reopen(n)
        \/ Rejoin(n)

Spec == Init /\ [][Next]_vars

(***************************************************************************)
(* Properties.                                                             *)
(***************************************************************************)
TypeOK ==
    /\ next_id \in [Seat -> Nat \ {0}] /\ snap \in [Seat -> Nat \ {0}]
    /\ inc \in [Seat -> Nat] /\ minted \subseteq Card /\ IsFiniteSet(minted)
    /\ card \in [Seat -> SUBSET {x \in minted : x.kind = "card"}]
    /\ cut \in [Seat -> SUBSET {x \in minted : x.kind = "cut"}]
    /\ forgot \subseteq {x \in minted : x.kind = "cut"} /\ chain \subseteq minted
    /\ seen \in [Seat -> SUBSET IdsOf(chain)] /\ parked \in [Seat -> SUBSET IdsOf(minted)]

\* Whatever the seats have heard of each other, two of them never give one id
\* to two changes (mint_proposal_id: "two seats minting inside one propagation
\* window can never collide").  A seat does so only after it lost its device, or
\* with the id of a cut that a kill took out of its counter, as the replay skips
\* CheckpointProposed.
OneChangePerId ==
    \A x, y \in minted :
        x.id = y.id => /\ x.by = y.by
                       /\ x.inc = y.inc => x = y \/ x \in forgot \/ y \in forgot

\* The next id a seat mints names no card, cut, decided change or parked verdict
\* it knows of, and nothing its device ever proposed but a forgotten cut, also
\* right after a restart (bump_next_id_past_chain: "a locally minted collision
\* could never seal").
MintIsNew ==
    \A n \in Seat :
        \A id \in seen[n] \cup parked[n] \cup IdsOf(card[n] \cup cut[n] \cup (Own(n) \ forgot)) :
            id < next_id[n]

\* Every node can tell from an id alone who minted it; who may withdraw a card
\* it has not seen hangs on that (minting_seat: "the inverse of
\* mint_proposal_id").
MinterIsKnown == \A x \in minted : MintingSeat(x.id) = {x.by}
=============================================================================
