-------------------------------- MODULE Sync --------------------------------
(***************************************************************************)
(* How a seat that is behind, or on another branch, asks for the blocks it *)
(* lacks and how the others serve them, with checkpoint cuts that drop     *)
(* history, writes that do not reach the disk, and crashes (chain/sync.rs, *)
(* chain/checkpoint.rs, the seal of chain/governance.rs, the ChainRequest  *)
(* arm of net/ingest.rs).                                                  *)
(*                                                                         *)
(* As in Chain, a block is its lineage: the sequence of the changes from   *)
(* the genesis (the empty sequence) up to it, its height the length.  A    *)
(* holder that pruned at a cut still has a chain, of which it holds only   *)
(* the blocks from base upward.  The state a cut commits to has the height *)
(* and what was decided, not in which order and not the hash of the tip:   *)
(* seats on two orders of the same changes sign one and the same cut.  The *)
(* link hash orders two blocks with one predecessor by their change.  How  *)
(* the votes on the changes come about is the subject of Chain and Votes:  *)
(* here any seat may seal any change.  Blocks, requests and blobs travel   *)
(* in the sender's log and are handed over once and in order (module       *)
(* Delivery).                                                              *)
(***************************************************************************)
EXTENDS Integers, FiniteSets, Sequences, FiniteSetsExt

CONSTANTS
    Member,     \* the seats
    Change,     \* what may be voted on; numbers, in the order of the hashes
    Cut,        \* the checkpoint cut, a number among them
    Window,     \* CATCHUP_BUFFER_WINDOW
    MaxLen,     \* bound: the height of the longest chain
    MaxFaults,  \* bound: how many chain writes fail
    MaxCrash,   \* bound: how often a seat crashes or is closed, and opens again
    MaxLog      \* bound: the length of a log when its seat acts on its own

ASSUME MemberAssumption == IsFiniteSet(Member)

ASSUME ChangeAssumption == Change \subseteq Nat /\ Cut \in Nat \ Change

ASSUME BoundAssumption ==
    /\ Window \in Nat \ {0}
    /\ {MaxLen, MaxFaults, MaxCrash, MaxLog} \subseteq Nat

VARIABLES
    seat,       \* the chain state of each seat
    disk,       \* the chain each seat has on its disk, and its base
    cutSigs,    \* the signatures for a cut, <<member, the chain it stood on>>
    log,        \* the events each seat recorded as its own, in order
    got,        \* got[n][b]: how many events of b seat n has been handed
    refused,    \* the seats whose request was refused as a repeated one, and
                \* those that refused a block beyond the window
    silent,     \* blocks that were sealed and not announced
    voided,     \* a seat has served, or signed a cut of, a chain not on its disk,
                \* or a cut was sealed on a signature for another order
    count       \* how many failed writes and reopenings there were

vars == <<seat, disk, cutSigs, log, got, refused, silent, voided, count>>

BlockAt(c, h) == SubSeq(c, 1, h)
Prev(b) == SubSeq(b, 1, Len(b) - 1)
Tip(b) == b[Len(b)]
Larger(a, b) == IF a > b THEN a ELSE b

\* CheckpointState: the height it was taken at and what had been decided.  The
\* changes are taken to be of surfaces of their own, within which order shows.
Blob(c) == [upto |-> Len(c), ids |-> {c[h] : h \in DOMAIN c} \ {Cut}]
NoBlob == Blob(<<>>)

\* A seat that comes up with chain c, pruned below base, and an empty RAM.
Fresh(c, base) ==
    [chain  |-> c,      \* blocks and head
     base   |-> base,   \* the height of blocks[0]
     pend   |-> {},     \* pending_blocks, one per height
     fork   |-> {},     \* fork_candidates, one per height
     catch  |-> 0,      \* catchup_from, 0: None
     asks   |-> FALSE,  \* this handler records a ChainRequest
     blob   |-> NoBlob, \* pending_served_blob
     top    |-> 0,      \* the highest of peer_heights
     served |-> {}]     \* the peers served within the debounce

Height(s) == Len(s.chain)

\* An id is applied once; a cut carries none.
VerifyNext(c, x) == x = Cut \/ \A h \in DOMAIN c : c[h] # x

\* A holder prunes at every cut it applies above height h.
Pruned(s, h) == Max({s.base} \cup {k \in h + 1 .. Height(s) : s.chain[k] = Cut})

(***************************************************************************)
(* Asking.                                                                 *)
(***************************************************************************)

\* Asked again whatever is outstanding is not asked again.
RequestCatchup(s, from) ==
    IF s.catch = from THEN s ELSE [s EXCEPT !.catch = from, !.asks = TRUE]

\* The head, then back by 1, 2, 4, ... down to the anchor.
KnownHeads(s) ==
    {BlockAt(s.chain, h) : h \in {k \in s.base .. Height(s) :
                                    Height(s) - k \in {0} \cup {2 ^ i : i \in 0 .. 14}}}

\* One above the highest sample this holder has too.
ServeFromFor(s, from, known) ==
    LET shared == {k \in known : /\ Len(k) \in s.base .. Height(s)
                                 /\ BlockAt(s.chain, Len(k)) = k}
    IN  IF shared = {} THEN from ELSE Max({Len(k) : k \in shared}) + 1

(***************************************************************************)
(* Buffers: one block per height; the highest is shed beyond the window.   *)
(***************************************************************************)
Keep(S, b) ==
    LET all == {c \in S : Len(c) # Len(b)} \cup {b}
    IN  IF Cardinality(all) <= Window THEN all
        ELSE {c \in all : \E d \in all : Len(d) > Len(c)}

\* The block that S holds at the height after c's, and so on while they link.
RunFrom(c, S) ==
    LET run == {d \in S : /\ Len(d) > Len(c) /\ BlockAt(d, Len(c)) = c
                          /\ \A h \in Len(c) + 1 .. Len(d) : BlockAt(d, h) \in S}
    IN  IF run = {} THEN c ELSE CHOOSE d \in run : \A o \in run : Len(o) <= Len(d)

(***************************************************************************)
(* A served checkpoint.                                                    *)
(***************************************************************************)

\* Once the anchor is buffered, the contiguous run from it is verified as a
\* whole: adopted if it starts with the cut of this blob and links, else the
\* blob is dropped.
TryAdoptFromBlob(s) ==
    LET a == s.blob.upto + 1
        at(h) == CHOOSE b \in s.pend : Len(b) = h
        held == {Len(b) : b \in s.pend}
        last == Max({h \in held : \A k \in a .. h : k \in held})
    IN  IF s.blob = NoBlob THEN s
        ELSE IF Height(s) > s.blob.upto THEN [s EXCEPT !.blob = NoBlob]
        ELSE IF a \notin held THEN s
        ELSE IF \/ Tip(at(a)) # Cut \/ Blob(Prev(at(a))) # s.blob
                \/ \E h \in a .. last : at(h) # BlockAt(at(last), h)
        THEN [s EXCEPT !.blob = NoBlob]
        ELSE [s EXCEPT !.chain = at(last), !.base = a, !.blob = NoBlob,
                       !.pend = {b \in @ : Len(b) > last},
                       !.catch = IF @ <= last THEN 0 ELSE @]

\* The first blob stays until it is used or fails.
ReceiveCheckpointBlob(s, blob) ==
    IF Height(s) >= blob.upto \/ s.blob # NoBlob THEN s
    ELSE TryAdoptFromBlob([s EXCEPT !.blob = blob])

(***************************************************************************)
(* Blocks.                                                                 *)
(***************************************************************************)

\* The block extends the chain, and the buffer drains behind it; a buffered
\* block that does not link is dropped.
ApplyNextBlock(s, b) ==
    IF ~VerifyNext(s.chain, Tip(b)) THEN s
    ELSE LET c == RunFrom(b, s.pend)
             t == [s EXCEPT !.chain = c,
                            !.catch = IF @ <= Len(c) THEN 0 ELSE @,
                            !.pend = {d \in @ : Len(d) > Len(c) + 1}]
         IN  [t EXCEPT !.base = Pruned(t, Height(s))]

\* The deep tie-break.  A run that does not link yet asks for what is below
\* it, never below the anchor; after the re-base the rest is asked for.
TryReorg(s) ==
    LET links == {c \in s.fork : /\ Len(c) \in s.base + 1 .. Height(s) + 1
                                 /\ Prev(c) = BlockAt(s.chain, Len(c) - 1)}
        lowest == Min({Len(c) : c \in s.fork})
        first == CHOOSE c \in links : \A d \in links : Len(c) <= Len(d)
        f == Len(first)
        t == [s EXCEPT !.chain = RunFrom(first, s.fork), !.fork = {}, !.catch = 0]
    IN  IF links = {}
        THEN IF lowest > s.base + 1
             THEN RequestCatchup(s, Larger(lowest - 1, s.base + 1)) ELSE s
        ELSE IF f > Height(s) THEN s
        ELSE IF s.chain[f] <= Tip(first) THEN [s EXCEPT !.fork = {}]
        ELSE RequestCatchup([t EXCEPT !.base = Pruned(t, f - 1)], Height(t) + 1)

StashAndReorg(s, b) == TryReorg([s EXCEPT !.fork = Keep(@, b)])

\* The swapped tip is not verified against the checkpoint.
TieBreakFaulty(s, b) ==
    LET h == Len(b)
        shared == h = s.base \/ Prev(b) = BlockAt(s.chain, h - 1)
        t == [s EXCEPT !.chain = b]
    IN  IF h < s.base \/ b = BlockAt(s.chain, h) THEN s
        ELSE IF ~shared \/ h < Height(s) THEN StashAndReorg(s, b)
        ELSE IF Tip(b) < s.chain[h] THEN [t EXCEPT !.base = Pruned(t, h - 1)]
        ELSE s

\* A contender for a height this seat has filled.  Whoever pruned holds
\* nothing below its anchor, takes any rival of the anchor for a block on a
\* shared predecessor, and cannot verify the swap.
TieBreak(s, b) ==
    LET h == Len(b)
        shared == h = s.base \/ Prev(b) = BlockAt(s.chain, h - 1)
        t == [s EXCEPT !.chain = b]
    IN  IF h < s.base \/ b = BlockAt(s.chain, h) THEN s
        ELSE IF ~shared \/ h < Height(s) THEN StashAndReorg(s, b)
        ELSE IF h > s.base /\ Tip(b) < s.chain[h] THEN [t EXCEPT !.base = Pruned(t, h - 1)]
        ELSE s

\* A block that neither the drain nor the stashed blob can reach.
Beyond(s, b) ==
    /\ Len(b) > Height(s) + Window
    /\ s.blob # NoBlob => Len(b) \notin s.blob.upto + 1 .. s.blob.upto + Window

\* The gap is not asked for.
BufferFaulty(s, b) ==
    IF Beyond(s, b) THEN s
    ELSE TryAdoptFromBlob([s EXCEPT !.pend = Keep({c \in @ : Len(c) > Height(s)}, b)])

\* A block beyond the next height is buffered and the gap is asked for; one
\* out of reach is refused.
Buffer(s, b) ==
    IF Beyond(s, b) THEN s
    ELSE RequestCatchup(
            TryAdoptFromBlob([s EXCEPT !.pend = Keep({c \in @ : Len(c) > Height(s)}, b)]),
            Height(s) + 1)

ReceiveBlockFrom(s, b) ==
    LET t == [s EXCEPT !.top = Larger(@, Len(b))]
    IN  IF Len(b) <= Height(t) THEN TieBreak(t, b)
        ELSE IF Len(b) > Height(t) + 1 THEN Buffer(t, b)
        ELSE IF Prev(b) = t.chain THEN ApplyNextBlock(t, b)
        ELSE StashAndReorg(t, b)

(***************************************************************************)
(* Steps.                                                                  *)
(***************************************************************************)
Committed(b) == [t |-> "committed", b |-> b, blob |-> NoBlob, from |-> 0, known |-> {}]
CheckpointServed(b) == [t |-> "blob", b |-> <<>>, blob |-> Blob(b), from |-> 0, known |-> {}]
ChainRequest(s) ==
    [t |-> "request", b |-> <<>>, blob |-> NoBlob, from |-> s.catch, known |-> KnownHeads(s)]

\* Seat n opens in s and asks for what it missed.
Opens(n, s) ==
    LET t == RequestCatchup(s, Height(s) + 1)
    IN  /\ count.crashes < MaxCrash /\ Len(log[n]) < MaxLog
        /\ seat' = [seat EXCEPT ![n] = [t EXCEPT !.asks = FALSE]]
        /\ log' = [log EXCEPT ![n] = Append(@, ChainRequest(t))]
        /\ count' = [count EXCEPT !.crashes = @ + 1]

\* Seat n is killed in a handler that has written the chain of s, before any
\* record of that handler is in the log, and opens again.
Killed(n, s) ==
    /\ s.chain # seat[n].chain \/ s.base # seat[n].base
    /\ disk' = [disk EXCEPT ![n] = [chain |-> s.chain, base |-> s.base]]
    /\ Opens(n, Fresh(s.chain, s.base))

\* Seat n ends a handler in s and records `events`; a chain that changed is
\* written, which may fail.
Step(n, s, events, durable) ==
    LET moved == s.chain # seat[n].chain \/ s.base # seat[n].base
    IN  /\ durable \/ (moved /\ count.faults < MaxFaults)
        /\ seat' = [seat EXCEPT ![n] = [s EXCEPT !.asks = FALSE]]
        /\ disk' = IF moved /\ durable
                   THEN [disk EXCEPT ![n] = [chain |-> s.chain, base |-> s.base]] ELSE disk
        /\ count' = IF durable THEN count ELSE [count EXCEPT !.faults = @ + 1]
        /\ log' = [log EXCEPT ![n] = @ \o events \o IF s.asks THEN <<ChainRequest(s)>> ELSE <<>>]

Init ==
    /\ seat = [n \in Member |-> Fresh(<<>>, 0)]
    /\ disk = [n \in Member |-> [chain |-> <<>>, base |-> 0]]
    /\ cutSigs = {}
    /\ log = [n \in Member |-> <<>>]
    /\ got = [n \in Member |-> [b \in Member |-> 0]]
    /\ refused = {} /\ silent = {} /\ voided = FALSE
    /\ count = [faults |-> 0, crashes |-> 0]

\* The chain of n is only in memory.
Unwritten(n) == disk[n].chain # seat[n].chain

\* cmd_propose_checkpoint and receive_checkpoint_proposal: a seat signs a cut
\* of the height and the state of its own chain, unattended.
SignCut(n) ==
    /\ Height(seat[n]) < MaxLen
    /\ cutSigs' = cutSigs \cup {<<n, seat[n].chain>>}
    /\ voided' = (voided \/ Unwritten(n))
    /\ UNCHANGED <<seat, disk, log, got, refused, silent, count>>

\* The seat m signed a cut of the state of c, on c or on another order of it.
Signed(m, c) == \E P \in {sig[2] : sig \in {q \in cutSigs : q[1] = m}} : Blob(P) = Blob(c)

\* A cut seals on one signature, like any change of a republic with m = 1.
MayCommitFaulty(s, x) ==
    /\ VerifyNext(s.chain, x)
    /\ x = Cut => \E m \in Member : Signed(m, s.chain)

\* A cut drops history that every seat has to be able to reproduce: n of n.
\* The m signatures under any other change may have reached any seat.
MayCommit(s, x) ==
    /\ VerifyNext(s.chain, x)
    /\ x = Cut => \A m \in Member : Signed(m, s.chain)

\* One of the signatures under the cut was given on another order.
Crossed(s, x) ==
    x = Cut /\ \E m \in Member : Signed(m, s.chain) /\ <<m, s.chain>> \notin cutSigs

\* A seal is announced whether or not it reached the disk.
AnnouncedFaulty(b, durable) == <<Committed(b)>>

\* What a seal announces: nothing, unless it is durable.
Announced(b, durable) == IF durable THEN <<Committed(b)>> ELSE <<>>

\* The chain of s with x on top.
Grown(s, x) ==
    LET t == [s EXCEPT !.chain = Append(@, x)]
    IN  [t EXCEPT !.base = Pruned(t, Height(s))]

Seal(n, x, durable) ==
    LET s == seat[n]
        u == Grown(s, x)
    IN  /\ Height(s) < MaxLen /\ Len(log[n]) < MaxLog
        /\ MayCommit(s, x)
        /\ Step(n, u, Announced(u.chain, durable), durable)
        /\ silent' = IF durable THEN silent ELSE silent \cup {u.chain}
        /\ voided' = (voided \/ Crossed(s, x))
        /\ UNCHANGED <<cutSigs, got, refused>>

\* The same, and the kill falls between the chain file and the Committed
\* record: the block is durable, and the seat never tells of it by itself.
SealKilled(n, x) ==
    LET s == seat[n]
        u == Grown(s, x)
    IN  /\ Height(s) < MaxLen
        /\ MayCommit(s, x)
        /\ Killed(n, u)
        /\ silent' = silent \cup {u.chain}
        /\ voided' = (voided \/ Crossed(s, x))
        /\ UNCHANGED <<cutSigs, got, refused>>

\* serve_chain_from: the blob if the request reaches below the anchor, then
\* every block from there upward.
ServeChainFrom(s, from) ==
    LET low == Larger(from, s.base)
        blocks == [i \in 1 .. Height(s) - low + 1 |-> Committed(BlockAt(s.chain, low + i - 1))]
    IN  IF from < s.base THEN <<CheckpointServed(BlockAt(s.chain, s.base - 1))>> \o blocks
        ELSE blocks

\* The ChainRequest arm: note where the requester stands, find the fork
\* point, and serve what is above it unless it was served just now.
ReceiveRequest(n, r, e) ==
    LET s == [seat[n] EXCEPT !.top = Larger(@, Max({Len(k) : k \in e.known}))]
        from == ServeFromFor(s, e.from, e.known)
        beyond == from > Height(s)
        recently == r \in s.served
    IN  IF beyond \/ recently
        THEN /\ Step(n, s, <<>>, TRUE)
             /\ refused' = IF recently /\ ~beyond THEN refused \cup {r} ELSE refused
             /\ UNCHANGED voided
        ELSE /\ Step(n, [s EXCEPT !.served = @ \cup {r}], ServeChainFrom(s, from), TRUE)
             /\ voided' = (voided \/ Unwritten(n))
             /\ UNCHANGED refused

\* What a block or a blob of a peer makes of a seat.
Received(s, e) ==
    IF e.t = "committed" THEN ReceiveBlockFrom(s, e.b) ELSE ReceiveCheckpointBlob(s, e.blob)

Deliver(n, r, durable) ==
    LET e == log[r][got[n][r] + 1]
    IN  /\ n # r /\ got[n][r] < Len(log[r])
        /\ got' = [got EXCEPT ![n][r] = @ + 1]
        /\ \/ /\ e.t # "request"
              /\ Step(n, Received(seat[n], e), <<>>, durable)
              /\ refused' = IF e.t = "committed" /\ Beyond(seat[n], e.b)
                             THEN refused \cup {n} ELSE refused
              /\ UNCHANGED voided
           \/ /\ e.t = "request" /\ durable
              /\ ReceiveRequest(n, r, e)
        /\ UNCHANGED <<cutSigs, silent>>

\* The kill falls between the chain file and the records of the handler, its
\* request among them; what was handed over is handed over again.
DeliverKilled(n, r) ==
    LET e == log[r][got[n][r] + 1]
    IN  /\ n # r /\ got[n][r] < Len(log[r])
        /\ e.t # "request"
        /\ Killed(n, Received(seat[n], e))
        /\ UNCHANGED <<cutSigs, got, refused, silent, voided>>

\* CHAIN_SERVE_DEBOUNCE_SECS have gone by at seat n.
DebouncePasses(n) ==
    /\ seat[n].served # {}
    /\ seat' = [seat EXCEPT ![n].served = {}]
    /\ UNCHANGED <<disk, cutSigs, log, got, refused, silent, voided, count>>

\* The workspace opens from its disk and asks for what it missed, after a
\* crash or, in the same process, after it was closed: the reset on closing
\* leaves the fork candidates and the peers' heights as they are.
Reopen(n, crashed) ==
    LET f == Fresh(disk[n].chain, disk[n].base)
    IN  /\ Opens(n, IF crashed THEN f ELSE [f EXCEPT !.fork = seat[n].fork, !.top = seat[n].top])
        /\ UNCHANGED <<disk, cutSigs, got, refused, silent, voided>>

Next ==
    \E n \in Member :
        \/ SignCut(n)
        \/ \E x \in Change \cup {Cut}, durable \in BOOLEAN : Seal(n, x, durable)
        \/ \E x \in Change \cup {Cut} : SealKilled(n, x)
        \/ \E r \in Member, durable \in BOOLEAN : Deliver(n, r, durable)
        \/ \E r \in Member : DeliverKilled(n, r)
        \/ DebouncePasses(n)
        \/ \E crashed \in BOOLEAN : Reopen(n, crashed)

Spec == Init /\ [][Next]_vars

(***************************************************************************)
(* Properties.                                                             *)
(***************************************************************************)
AllDelivered == \A n, b \in Member : n # b => got[n][b] = Len(log[b])

OnePerHeight(S) == \A b, c \in S : Len(b) = Len(c) => b = c

\* The buffers hold one block per height and never more than the window, a
\* pruned chain starts with its cut, and no request stays half made.
TypeOK ==
    \A n \in Member :
        LET s == seat[n]
        IN  /\ s.base \in 0 .. Height(s) /\ (s.base > 0 => s.chain[s.base] = Cut)
            /\ \A S \in {s.pend, s.fork} : OnePerHeight(S) /\ Cardinality(S) <= Window
            /\ ~s.asks

\* The lowest height at which two chains differ, if they do within both.
Forked(c, d) == {h \in 1 .. Min({Len(c), Len(d)}) : c[h] # d[h]}

\* A cut never splits the republic: no seat stands on a branch that beats, by
\* the tie-break, history that another seat dropped at its anchor.  No
\* re-base could reconcile the two (R2).  What stands for it is the n-of-n
\* signature under a cut and the rule that only a durable block is announced:
\* a seat that signed has not sealed a better branch, and has not forgotten
\* one.  It fails once a seat spreads or signs what its disk does not have,
\* and once a signature given on one order of the changes seals a cut of
\* another order, which the state hash cannot tell from it.
CutHistoryStands ==
    ~voided =>
        \A n, k \in Member :
            LET fork == Forked(seat[n].chain, seat[k].chain)
            IN  fork # {} /\ Min(fork) < seat[n].base
                    => seat[n].chain[Min(fork)] < seat[k].chain[Min(fork)]

\* A rival of a cut block at its height: the holder of the cut cannot take it.
Contended(n, k) ==
    LET h == seat[n].base
    IN  /\ h > 0
        /\ Height(seat[k]) >= h
        /\ BlockAt(seat[k].chain, h) # BlockAt(seat[n].chain, h)

\* A gap, or a branch that does not link yet, below which something has been
\* asked for and is not asked for again.
Outstanding(n) == seat[n].pend \cup seat[n].fork # {} /\ seat[n].catch # 0

\* A candidate at or below the anchor: nothing below the others is asked for.
Pinned(n) == \E c \in seat[n].fork : Len(c) <= seat[n].base

\* A block that its sealer did not announce and one of the two does not have.
Untold(n, k) ==
    LET holds(m) == {b \in silent : Len(b) <= Height(seat[m]) /\ BlockAt(seat[m].chain, Len(b)) = b}
    IN  holds(n) # holds(k)

\* Once everything that was sent has arrived, the chains are equal: gaps,
\* shed buffers, forks, cuts and writes lost in a crash are all made up for
\* by asking and serving (request_catchup, serve_chain_from, try_reorg,
\* try_adopt_from_blob).  The exceptions are named: a request refused as a
\* repeated one, a block refused as beyond the window, a request still
\* outstanding, a stale candidate below the anchor, a block whose sealer did not
\* announce it, because the write failed or a kill came before the record, and a
\* cut that a rival at its own height contends with.  It is a promise between
\* two seats: with more, the candidates of several branches share one set, and
\* the loss of one branch drops what another peer sent of its own, which nobody
\* asks for again.
LevelOrKnown ==
    AllDelivered /\ Cardinality(Member) <= 2 =>
        \A n, k \in Member :
            \/ seat[n].chain = seat[k].chain
            \/ {n, k} \cap refused # {}
            \/ \E m \in {n, k} : Outstanding(m) \/ Pinned(m)
            \/ Untold(n, k)
            \/ Contended(n, k) \/ Contended(k, n)

\* What refuse_a_lagging_vote takes the recorded heights for: "a vote cast
\* while the peers are ahead is signed at a height the republic has left".
\* So when everything has arrived and all chains are equal, nobody is told
\* that the peers are ahead.
NobodyLags ==
    AllDelivered /\ (\A n, k \in Member : seat[n].chain = seat[k].chain)
        => \A n \in Member : seat[n].top <= Height(seat[n])
=============================================================================
