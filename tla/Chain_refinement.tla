-------------------------- MODULE Chain_refinement --------------------------
(***************************************************************************)
(* Chain implements ThresholdLog, for every republic: the step of a seat   *)
(* is a step of the abstract log or leaves it alone.                       *)
(*                                                                         *)
(* ThresholdLog asks that every attestation in a chain is a signature      *)
(* really made for that height.  No handler checks this (it verifies       *)
(* signatures, which the model takes to be unforgeable), and a re-linked   *)
(* block carries its attestations over to another predecessor.  It is the  *)
(* invariant SignInv: whatever a seat holds - its chain, its buffered      *)
(* blocks, the signatures it has collected - and whatever is in flight is  *)
(* signed by members in approvals.                                         *)
(***************************************************************************)
EXTENDS Chain_proofs

\* The attestations of c are signatures of A, each for its height.
Signed(c, A) == \A h \in 1 .. Len(c) : \A m \in c[h].by : <<m, c[h].id, h>> \in A

\* The blocks a seat keeps besides its chain are signed.
BuffersSigned(s, A) == \A b \in s.buf \cup s.fork : Signed(b, A)

\* The collected signatures are in A; Backed leaves out those of seat n.
VotesSigned(s, A) ==
    \A p \in Proposal : \A m \in s.pend[p].sigs : <<m, p, s.pend[p].height>> \in A

Backed(s, n, A) ==
    \A p \in Proposal : \A m \in s.pend[p].sigs : m = n \/ <<m, p, s.pend[p].height>> \in A

\* What a seat holds is signed, and no signature is for the genesis.
SeatSigned(s, A) == Signed(s.chain, A) /\ BuffersSigned(s, A) /\ VotesSigned(s, A)

SignInv ==
    /\ \A n \in Member : SeatSigned(node[n], approvals)
    /\ \A b \in blocks : Signed(b, approvals)
    /\ \A a \in approvals : a[3] >= 1

\* A seat that has collected signatures has them for a height above genesis.
AboveGenesis(s) == \A p \in Proposal : s.pend[p].sigs # {} => s.pend[p].height >= 1

\* From s to t seat n keeps collected signatures, drops them or signs itself,
\* and takes in no block.
Moved(s, t, n) ==
    /\ t.buf \subseteq s.buf /\ t.fork \subseteq s.fork
    /\ \A p \in Proposal : \/ t.pend[p] = s.pend[p]
                           \/ t.pend[p].sigs = {}
                           \/ t.pend[p].sigs = {n} /\ t.pend[p].height >= 1

\* c is at least as good as d in the sense of ThresholdLog.
Better(c, d) == Log!Extends(c, d) \/ Log!Outranks(c, d)

-----------------------------------------------------------------------------
(***************************************************************************)
(* Signatures through the operators.                                       *)
(***************************************************************************)

\* More signatures sign no less.
LEMMA SignedMono ==
    ASSUME NEW A, NEW B, A \subseteq B, NEW c, Signed(c, A)
    PROVE  Signed(c, B)
BY DEF Signed

\* Moves compose.
LEMMA MovedTrans ==
    ASSUME NEW n, NEW s, NEW t, NEW u, Moved(s, t, n), Moved(t, u, n)
    PROVE  Moved(s, u, n)
BY DEF Moved

\* A move keeps what is signed signed, the own signatures aside.
LEMMA MovedSigned ==
    ASSUME NEW n, NEW A, NEW s, NEW t, Moved(s, t, n),
           BuffersSigned(s, A), Backed(s, n, A), AboveGenesis(s)
    PROVE  BuffersSigned(t, A) /\ Backed(t, n, A) /\ AboveGenesis(t)
<1>1. BuffersSigned(t, A)
    BY DEF BuffersSigned, Moved
<1>2. Backed(t, n, A) /\ AboveGenesis(t)
    BY DEF Moved, Backed, AboveGenesis
<1> QED BY <1>1, <1>2

\* Settling the cards only drops signatures.
LEMMA SettleCardsMoved ==
    ASSUME NEW s, SeatOK(s), NEW n
    PROVE  Moved(s, SettleCards(s), n) /\ SettleCards(s).chain = s.chain
<1> DEFINE u == SettleCards(s)
<1>1. \A p \in Proposal : u.pend[p] = s.pend[p] \/ u.pend[p] = NoSigs
    BY SettleCardsFields
<1>2. u.buf = s.buf /\ u.fork = s.fork /\ u.chain = s.chain
    BY DEF SeatOK, Seat, SettleCards
<1> QED BY <1>1, <1>2 DEF Moved, NoSigs

\* Returning decisions to the vote touches no signature.
LEMMA ReturnToVoteMoved ==
    ASSUME NEW s, SeatOK(s), NEW P, NEW n
    PROVE  Moved(s, ReturnToVote(s, P), n) /\ ReturnToVote(s, P).chain = s.chain
BY DEF SeatOK, Seat, ReturnToVote, Moved

\* Signing at the next height.
LEMMA ResignAllMoved ==
    ASSUME NEW s, s \in Seat, NEW n \in Member, NEW P \in SUBSET Proposal
    PROVE  Moved(s, ResignAll(s, n, P), n) /\ ResignAll(s, n, P).chain = s.chain
<1> DEFINE t == [s EXCEPT !.pend = [p \in Proposal |->
                                    IF p \in P THEN [height |-> Target(s), sigs |-> {n}]
                                               ELSE s.pend[p]]]
           H == t.held \cup {p \in P : Sealable(t, p)}
           u == [t EXCEPT !.held = H]
<1>1. Target(s) \in Nat /\ Target(s) >= 1
    BY IdsFacts DEF Target, Seat
<1>2. /\ t.buf = s.buf /\ t.fork = s.fork /\ t.chain = s.chain
      /\ t.pend = [p \in Proposal |-> IF p \in P THEN [height |-> Target(s), sigs |-> {n}]
                                                  ELSE s.pend[p]]
      /\ t \in Seat
    BY <1>1 DEF Seat, PendingApproval
<1>3. u = ResignAll(s, n, P)
    BY DEF ResignAll
<1> HIDE DEF t, H
<1>4. u.buf = s.buf /\ u.fork = s.fork /\ u.chain = s.chain /\ u.pend = t.pend
    BY <1>2 DEF Seat
<1> HIDE DEF u
<1>5. \A p \in Proposal : u.pend[p] = IF p \in P THEN [height |-> Target(s), sigs |-> {n}]
                                                 ELSE s.pend[p]
    BY <1>2, <1>4
<1>6. Moved(s, u, n)
    BY <1>1, <1>4, <1>5 DEF Moved
<1> QED BY <1>3, <1>4, <1>6

\* Re-basing drops what is stale and signs own decisions again.
LEMMA RebaseMoved ==
    ASSUME NEW s, s \in Seat, NEW n \in Member
    PROVE  /\ Moved(s, RebasePendingApprovals(s, n), n)
           /\ RebasePendingApprovals(s, n).chain = s.chain
<1> DEFINE stale == {p \in Proposal : s.pend[p].sigs # {} /\ s.pend[p].height < Target(s)}
           swept == [s EXCEPT !.pend = [p \in Proposal |->
                                          IF p \in stale THEN NoSigs ELSE s.pend[p]]]
           P == stale \cap StandingOpen(s)
<1>1. P \in SUBSET Proposal
    OBVIOUS
<1> HIDE DEF stale
<1>2. swept \in Seat /\ swept.chain = s.chain /\ Moved(s, swept, n)
    BY DEF Seat, PendingApproval, NoSigs, Moved
<1>3. RebasePendingApprovals(s, n) = ResignAll(swept, n, P)
    BY DEF RebasePendingApprovals, stale
<1> HIDE DEF swept, P
<1> QED BY <1>1, <1>2, <1>3, ResignAllMoved, MovedTrans

\* Growing the chain.
LEMMA ExtendMoved ==
    ASSUME NEW s, SeatOK(s), NEW n \in Member, NEW c \in Chains
    PROVE  Moved(s, Extend(s, n, c), n) /\ Extend(s, n, c).chain = c
<1> DEFINE t == [s EXCEPT !.chain = c, !.seen = Ids(c), !.paced = FALSE]
<1>1. t \in Seat /\ Moved(s, t, n) /\ t.chain = c /\ t.buf = s.buf /\ t.fork = s.fork
    BY IdsFacts DEF SeatOK, Seat, Moved
<1>2. SeatOK(t)
    BY <1>1 DEF SeatOK
<1> HIDE DEF t
<1>3. SeatOK(SettleCards(t)) /\ Moved(t, SettleCards(t), n) /\ SettleCards(t).chain = c
    BY <1>1, <1>2, SettleCardsMoved, SettleCardsFields
<1>4. Extend(s, n, c) = RebasePendingApprovals(SettleCards(t), n)
    BY DEF Extend, t
<1>5. SettleCards(t) \in Seat
    BY <1>3 DEF SeatOK
<1> QED BY <1>1, <1>3, <1>4, <1>5, RebaseMoved, MovedTrans

-----------------------------------------------------------------------------
(***************************************************************************)
(* Chains through the operators.                                           *)
(***************************************************************************)

\* A chain that begins with d extends it.
LEMMA PrefixExtends ==
    ASSUME NEW c \in Chains, NEW d \in Chains, Len(d) <= Len(c),
           \A i \in 1 .. Len(d) : c[i] = d[i]
    PROVE  Log!Extends(c, d)
<1>1. Len(d) \in 0 .. Len(c) /\ Len(c) \in Nat
    BY IdsFacts
<1>2. /\ BlockAt(c, Len(d)) \in Chains /\ Len(BlockAt(c, Len(d))) = Len(d)
      /\ \A i \in 1 .. Len(d) : BlockAt(c, Len(d))[i] = d[i]
    BY <1>1, BlockAtFacts
<1>3. BlockAt(c, Len(d)) = d
    BY <1>2, SameChain
<1> QED BY <1>3 DEF Log!Extends, BlockAt

\* Every chain extends itself.
LEMMA BetterRefl ==
    ASSUME NEW c \in Chains
    PROVE  Better(c, c)
<1>1. Len(c) \in Nat
    BY IdsFacts
<1> QED BY <1>1, PrefixExtends DEF Better

\* Two chains that agree below f, and where the first has the smaller hash.
LEMMA HashOutranks ==
    ASSUME NEW c \in Chains, NEW d \in Chains, NEW f \in Nat \ {0}, f <= Len(c), f <= Len(d),
           \A i \in 1 .. f - 1 : c[i] = d[i], HashLess(BlockAt(c, f), BlockAt(d, f))
    PROVE  Log!Outranks(c, d)
<1>1. Len(c) \in Nat /\ Len(d) \in Nat
    BY IdsFacts
<1>2. f - 1 \in 0 .. Len(c) /\ f - 1 \in 0 .. Len(d) /\ f \in 1 .. Len(d)
    BY <1>1
<1>3. /\ BlockAt(c, f - 1) \in Chains /\ Len(BlockAt(c, f - 1)) = f - 1
      /\ \A i \in 1 .. f - 1 : BlockAt(c, f - 1)[i] = c[i]
    BY <1>2, BlockAtFacts
<1>4. /\ BlockAt(d, f - 1) \in Chains /\ Len(BlockAt(d, f - 1)) = f - 1
      /\ \A i \in 1 .. f - 1 : BlockAt(d, f - 1)[i] = d[i]
    BY <1>2, BlockAtFacts
<1>5. BlockAt(c, f - 1) = BlockAt(d, f - 1)
    BY <1>3, <1>4, SameChain
<1> QED BY <1>2, <1>5 DEF Log!Outranks, BlockAt

\* A prefix of a signed chain is signed.
LEMMA PrefixSigned ==
    ASSUME NEW A, NEW c \in Chains, NEW h \in 0 .. Len(c), Signed(c, A)
    PROVE  Signed(BlockAt(c, h), A)
<1>1. Len(c) \in Nat
    BY IdsFacts
<1>2. Len(BlockAt(c, h)) = h /\ \A i \in 1 .. h : BlockAt(c, h)[i] = c[i]
    BY BlockAtFacts
<1> QED BY <1>1, <1>2 DEF Signed

\* A sealed block is attested by signatures collected for its height.
LEMMA SealedBlockSigned ==
    ASSUME NEW s, SeatInv(s), NEW A, Signed(s.chain, A), VotesSigned(s, A),
           NEW p \in Proposal, Sealable(s, p)
    PROVE  /\ Signed(SealedBlock(s, p), A)
           /\ Log!Extends(SealedBlock(s, p), s.chain)
<1> DEFINE e == [id |-> p, by |-> LowestNamed(s.pend[p].sigs)]
           c == Append(s.chain, e)
<1>1. s \in Seat /\ s.chain \in Chains
    BY DEF SeatInv, SeatOK, Seat
<1>2. s.pend[p].sigs \in SUBSET Member /\ Cardinality(s.pend[p].sigs) >= RuleM
    BY <1>1 DEF Seat, PendingApproval, Sealable
<1>3. LowestNamed(s.pend[p].sigs) \subseteq s.pend[p].sigs
    BY <1>2, LowestNamedType
<1>4. e \in Entry
    BY <1>2, LowestNamedType DEF Entry
<1>5. \A m \in e.by : <<m, e.id, Len(s.chain) + 1>> \in A
    BY <1>3 DEF VotesSigned, Sealable, Target
<1> HIDE DEF e
<1>6. /\ c \in Chains /\ Len(c) = Len(s.chain) + 1 /\ Len(s.chain) \in Nat
      /\ \A i \in 1 .. Len(s.chain) : c[i] = s.chain[i]
      /\ c[Len(s.chain) + 1] = e
    BY <1>1, <1>4, AppendProperties, IdsFacts DEF Chains
<1> HIDE DEF c
<1>7. Signed(c, A)
    BY <1>5, <1>6 DEF Signed
<1>8. Log!Extends(c, s.chain)
    BY <1>1, <1>6, PrefixExtends
<1>9. SealedBlock(s, p) = c
    BY DEF SealedBlock, c, e
<1> QED BY <1>7, <1>8, <1>9

\* try_commit.
LEMMA TryCommitMoved ==
    ASSUME NEW s, SeatInv(s), NEW n \in Member, NEW p \in Proposal, NEW A,
           Signed(s.chain, A), VotesSigned(s, A)
    PROVE  LET t == TryCommit(s, n, p)
           IN  Moved(s, t, n) /\ Signed(t.chain, A) /\ Log!Extends(t.chain, s.chain)
<1> DEFINE hold == [s EXCEPT !.held = @ \cup {p}]
           free == [s EXCEPT !.held = @ \ {p}]
           c == SealedBlock(s, p)
<1>1. s \in Seat /\ s.chain \in Chains
    BY DEF SeatInv, SeatOK, Seat
<1>2. /\ hold.chain = s.chain /\ Moved(s, hold, n) /\ Moved(s, s, n)
      /\ free \in Seat /\ free.chain = s.chain /\ Moved(s, free, n)
      /\ free.buf = s.buf /\ free.fork = s.fork
    BY <1>1 DEF Seat, Moved
<1>3. Log!Extends(s.chain, s.chain)
    BY <1>1, IdsFacts, PrefixExtends
<1> HIDE DEF hold, free, c
<1>4. CASE ~ Sealable(s, p)
    BY <1>2, <1>3, <1>4 DEF TryCommit
<1>5. CASE Sealable(s, p) /\ ~ s.paced
    BY <1>2, <1>3, <1>5 DEF TryCommit, hold
<1>6. CASE Sealable(s, p) /\ s.paced
    <2>1. c \in Chains /\ Signed(c, A) /\ Log!Extends(c, s.chain)
        BY <1>6, SealedBlockFacts, SealedBlockSigned DEF c, Block
    <2>2. SeatOK(free)
        BY <1>2 DEF SeatInv, SeatOK
    <2>3. Moved(free, Extend(free, n, c), n) /\ Extend(free, n, c).chain = c
        BY <2>1, <2>2, ExtendMoved
    <2>4. TryCommit(s, n, p) = Extend(free, n, c)
        BY <1>6 DEF TryCommit, free, c
    <2> QED BY <1>2, <2>1, <2>3, <2>4, MovedTrans
<1> QED BY <1>4, <1>5, <1>6

\* A drained buffer: the chain is b or a buffered block.
LEMMA RunFromSigned ==
    ASSUME NEW A, NEW b \in Chains, WalkChain(b), NEW S \in SUBSET Block, IsFiniteSet(S),
           Signed(b, A), \A d \in S : Signed(d, A)
    PROVE  Signed(RunFrom(b, S), A)
<1> DEFINE run == {d \in S : /\ Len(d) > Len(b)
                             /\ BlockAt(d, Len(b)) = b
                             /\ \A h \in Len(b) + 1 .. Len(d) :
                                   /\ BlockAt(d, h) \in S
                                   /\ VerifyNext(BlockAt(d, h - 1), d[h])}
           longest == CHOOSE d \in run : \A o \in run : Len(o) <= Len(d)
<1>1. RunFrom(b, S) = IF run = {} THEN b ELSE longest
    BY DEF RunFrom
<1>2. run \in SUBSET Block /\ IsFiniteSet(run) /\ run \subseteq S
    BY FS_Subset
<1> HIDE DEF run
<1>3. run # {} => longest \in run
    BY <1>2, LongestBlock
<1> HIDE DEF longest
<1> QED BY <1>1, <1>2, <1>3

\* apply_next_block.
LEMMA ApplyNextBlockMoved ==
    ASSUME NEW s, SeatInv(s), NEW n \in Member, NEW b \in Block, Prev(b) = s.chain,
           NEW A, Signed(b, A), Signed(s.chain, A), BuffersSigned(s, A)
    PROVE  LET t == ApplyNextBlock(s, n, b)
           IN  Moved(s, t, n) /\ Signed(t.chain, A) /\ Log!Extends(t.chain, s.chain)
<1> DEFINE c == RunFrom(b, s.buf)
           t == Extend(s, n, c)
           B == {d \in s.buf : Len(d) > Len(c) + 1}
           u == [t EXCEPT !.buf = B]
<1>1. s \in Seat /\ s.chain \in Chains /\ s.buf \in SUBSET Block /\ IsFiniteSet(s.buf) /\ SeatOK(s)
    BY DEF SeatInv, SeatOK, Seat
<1>2. CASE ~ VerifyNext(s.chain, b[Len(b)])
    <2>1. Moved(s, s, n)
        BY DEF Moved
    <2> QED BY <1>1, <1>2, <2>1, IdsFacts, PrefixExtends DEF ApplyNextBlock
<1>3. CASE VerifyNext(s.chain, b[Len(b)])
    <2>1. /\ b \in Chains /\ Len(b) \in Nat \ {0} /\ Len(s.chain) = Len(b) - 1
          /\ \A i \in 1 .. Len(b) - 1 : s.chain[i] = b[i]
        BY PrevFacts
    <2>2. WalkChain(b)
        <3>1. \A i \in 1 .. Len(b) - 1 : s.chain[i].id # b[Len(b)].id
            BY <1>1, <1>3, <2>1, IdsFacts DEF VerifyNext
        <3>2. \A i, j \in 1 .. Len(s.chain) : i < j => s.chain[i].id # s.chain[j].id
            BY <1>1, WalkDistinct DEF SeatInv
        <3>3. \A i, j \in 1 .. Len(b) : i < j => b[i].id # b[j].id
            BY <2>1, <3>1, <3>2
        <3> QED BY <2>1, <3>3, WalkDistinct
    <2>3. /\ c \in Chains /\ WalkChain(c) /\ Len(b) <= Len(c) /\ Len(c) \in Nat
          /\ \A i \in 1 .. Len(b) : c[i] = b[i]
        BY <1>1, <2>1, <2>2, RunFromFacts, IdsFacts
    <2>4. Signed(c, A)
        BY <1>1, <2>1, <2>2, RunFromSigned DEF BuffersSigned
    <2> HIDE DEF c
    <2>5. Log!Extends(c, s.chain)
        BY <1>1, <2>1, <2>3, PrefixExtends
    <2>6. /\ Moved(s, t, n) /\ t.chain = c
        BY <1>1, <2>3, ExtendMoved
    <2>7. t \in Seat
        <3>1. Ids(s.chain) \subseteq Ids(c) /\ Len(s.chain) <= Len(c)
            BY <1>1, <2>1, <2>3, PrefixIds
        <3> QED BY <2>3, <3>1, ExtendInv DEF SeatInv, SeatOK
    <2> HIDE DEF t
    <2>8. B \subseteq s.buf
        OBVIOUS
    <2> HIDE DEF B
    <2>9. u.chain = c /\ Moved(s, u, n)
        BY <2>6, <2>7, <2>8 DEF Seat, Moved
    <2>10. ApplyNextBlock(s, n, b) = u
        BY <1>3 DEF ApplyNextBlock, t, c, B
    <2> HIDE DEF u
    <2> QED BY <2>4, <2>5, <2>9, <2>10
<1> QED BY <1>2, <1>3

\* relink_onto_variant, at a fork where the variant has the smaller hash.
LEMMA RelinkMoved ==
    ASSUME NEW s, SeatInv(s), NEW n \in Member, NEW c \in Chains, NEW A,
           Signed(c, A), Signed(s.chain, A), NEW f \in Nat \ {0}, f <= Len(c), f <= Len(s.chain),
           \A i \in 1 .. f - 1 : c[i] = s.chain[i], HashLess(BlockAt(c, f), BlockAt(s.chain, f))
    PROVE  LET t == RelinkOntoVariant(s, n, c)
           IN  Moved(s, t, n) /\ Signed(t.chain, A) /\ Better(t.chain, s.chain)
<1> DEFINE linked == Linked(s, c)
           drop == [s EXCEPT !.fork = {}]
           t == [s EXCEPT !.chain = linked, !.seen = Ids(linked), !.paced = FALSE, !.fork = {}]
<1>1. s \in Seat /\ s.chain \in Chains /\ Len(s.chain) \in Nat /\ Len(c) \in Nat
    BY IdsFacts DEF SeatInv, SeatOK, Seat
<1>2. /\ linked \in Chains /\ Len(linked) \in Nat /\ Len(c) <= Len(linked)
      /\ \A i \in 1 .. Len(c) : linked[i] = c[i]
      /\ \A i \in Len(c) + 1 .. Len(linked) : i <= Len(s.chain) /\ linked[i] = s.chain[i]
    BY <1>1, LinkedFacts
<1> HIDE DEF linked
<1>3. Signed(linked, A)
    <2>1. SUFFICES ASSUME NEW h \in 1 .. Len(linked), NEW m \in linked[h].by
                   PROVE  <<m, linked[h].id, h>> \in A
        BY DEF Signed
    <2>2. CASE h <= Len(c)
        BY <1>1, <1>2, <2>2 DEF Signed
    <2>3. CASE ~ (h <= Len(c))
        BY <1>1, <1>2, <2>3 DEF Signed
    <2> QED BY <2>2, <2>3
<1>4. Log!Outranks(linked, s.chain)
    <2>1. f <= Len(linked) /\ \A i \in 1 .. f - 1 : linked[i] = s.chain[i]
        BY <1>1, <1>2
    <2>2. BlockAt(linked, f) = BlockAt(c, f)
        <3>1. /\ BlockAt(linked, f) \in Chains /\ Len(BlockAt(linked, f)) = f
              /\ \A i \in 1 .. f : BlockAt(linked, f)[i] = linked[i]
            BY <1>2, <2>1, BlockAtFacts
        <3>2. /\ BlockAt(c, f) \in Chains /\ Len(BlockAt(c, f)) = f
              /\ \A i \in 1 .. f : BlockAt(c, f)[i] = c[i]
            BY <1>1, BlockAtFacts
        <3>3. \A i \in 1 .. f : linked[i] = c[i]
            BY <1>1, <1>2
        <3> QED BY <3>1, <3>2, <3>3, SameChain
    <2> QED BY <1>1, <1>2, <2>1, <2>2, HashOutranks
<1>5. drop.chain = s.chain /\ Moved(s, drop, n)
    BY <1>1 DEF Seat, Moved
<1>6. /\ t \in Seat /\ t.chain = linked /\ Moved(s, t, n) /\ t.buf = s.buf /\ t.fork = {}
    BY <1>1, <1>2, IdsFacts DEF Seat, Moved
<1>7. SeatOK(t)
    BY <1>6, FS_EmptySet DEF SeatInv, SeatOK
<1> HIDE DEF t, drop
<1>8. /\ SettleCards(t) \in Seat /\ SettleCards(t).chain = linked /\ Moved(s, SettleCards(t), n)
    BY <1>6, <1>7, SettleCardsMoved, SettleCardsFields, MovedTrans DEF SeatOK
<1> DEFINE u == RebasePendingApprovals(SettleCards(t), n)
<1>9. u.chain = linked /\ Moved(s, u, n)
    BY <1>8, RebaseMoved, MovedTrans
<1> HIDE DEF u
<1>10. RelinkOntoVariant(s, n, c) =
          IF ~ WalkChain(linked) THEN drop
          ELSE IF Len(linked) > Len(s.chain) THEN u
          ELSE SettleCards(t)
    BY DEF RelinkOntoVariant, t, linked, Linked, drop, u
<1>11. Better(s.chain, s.chain) /\ Better(linked, s.chain)
    BY <1>1, <1>4, BetterRefl DEF Better
<1> QED BY <1>3, <1>5, <1>8, <1>9, <1>10, <1>11

\* A re-base onto another branch, at a fork where it has the smaller hash.
LEMMA RebranchMoved ==
    ASSUME NEW s, SeatInv(s), NEW n \in Member, NEW c \in Chains, NEW A,
           Signed(c, A), Signed(s.chain, A), Log!Outranks(c, s.chain)
    PROVE  LET t == Rebranch(s, n, c)
           IN  Moved(s, t, n) /\ Signed(t.chain, A) /\ Better(t.chain, s.chain)
<1> DEFINE drop == [s EXCEPT !.fork = {}]
           t == [s EXCEPT !.chain = c, !.seen = Ids(c), !.paced = FALSE, !.fork = {}]
           adopted == SettleCards(t)
           voting == ReturnToVote(adopted, Ids(s.chain) \ Ids(c))
           cleared == [voting EXCEPT !.pend = [p \in Proposal |-> NoSigs]]
<1>1. s \in Seat /\ s.chain \in Chains
    BY DEF SeatInv, SeatOK, Seat
<1>2. drop.chain = s.chain /\ Moved(s, drop, n)
    BY <1>1 DEF Seat, Moved
<1>3. t \in Seat /\ t.chain = c /\ Moved(s, t, n) /\ t.buf = s.buf /\ t.fork = {}
    BY <1>1, IdsFacts DEF Seat, Moved
<1>4. SeatOK(t)
    BY <1>3, FS_EmptySet DEF SeatInv, SeatOK
<1> HIDE DEF t, drop
<1>5. SeatOK(adopted) /\ adopted.chain = c /\ Moved(t, adopted, n)
    BY <1>3, <1>4, SettleCardsMoved, SettleCardsFields
<1> HIDE DEF adopted
<1>6. SeatOK(voting) /\ voting.chain = c /\ Moved(adopted, voting, n)
    BY <1>5, ReturnToVoteMoved, ReturnToVoteFields
<1> HIDE DEF voting
<1>7. cleared \in Seat /\ cleared.chain = c /\ Moved(voting, cleared, n)
    BY <1>6 DEF SeatOK, Seat, PendingApproval, NoSigs, Moved
<1>8. StandingOpen(cleared) \in SUBSET Proposal
    BY <1>7 DEF StandingOpen, Seat
<1> HIDE DEF cleared
<1> DEFINE u == ResignAll(cleared, n, StandingOpen(cleared))
<1>9. u.chain = c /\ Moved(cleared, u, n)
    BY <1>7, <1>8, ResignAllMoved
<1> HIDE DEF u
<1>10. Moved(s, u, n)
    BY <1>3, <1>5, <1>6, <1>7, <1>9, MovedTrans
<1>11. Rebranch(s, n, c) = IF ~ WalkChain(c) THEN drop ELSE u
    BY DEF Rebranch, t, adopted, voting, cleared, drop, u
<1>12. Better(s.chain, s.chain) /\ Better(c, s.chain)
    BY <1>1, BetterRefl DEF Better
<1> QED BY <1>2, <1>9, <1>10, <1>11, <1>12

\* The deep tie-break adopts only a branch with the smaller hash.
LEMMA TryReorgMoved ==
    ASSUME NEW s, SeatInv(s), NEW n \in Member, NEW A,
           Signed(s.chain, A), BuffersSigned(s, A)
    PROVE  LET t == TryReorg(s, n)
           IN  Moved(s, t, n) /\ Signed(t.chain, A) /\ Better(t.chain, s.chain)
<1> DEFINE first == ForkFirst(s)
           other == ForkOther(s)
           f == Len(first)
           drop == [s EXCEPT !.fork = {}]
<1>1. s \in Seat /\ s.chain \in Chains
    BY DEF SeatInv, SeatOK, Seat
<1>2. /\ Moved(s, s, n) /\ Better(s.chain, s.chain)
      /\ drop.chain = s.chain /\ Moved(s, drop, n)
    BY <1>1, BetterRefl DEF Seat, Moved
<1> HIDE DEF drop
<1>3. CASE ForkLinks(s) = {} \/ f > Len(s.chain)
    BY <1>2, <1>3, TryReorgUnfolds
<1>4. CASE ~ (ForkLinks(s) = {} \/ f > Len(s.chain)) /\ ~ HashLess(first, BlockAt(s.chain, f))
    BY <1>2, <1>4, TryReorgUnfolds DEF drop
<1>5. CASE ~ (ForkLinks(s) = {} \/ f > Len(s.chain)) /\ HashLess(first, BlockAt(s.chain, f))
    <2>1. /\ f \in Nat \ {0} /\ f <= Len(s.chain)
          /\ other \in s.fork /\ other \in Chains /\ Len(other) \in Nat
          /\ f <= Len(other) /\ BlockAt(other, f) = first
          /\ \A h \in 1 .. f - 1 : other[h] = s.chain[h]
        BY <1>5, ForkFacts
    <2>2. HashLess(BlockAt(other, f), BlockAt(s.chain, f)) /\ Signed(other, A)
        BY <1>5, <2>1 DEF BuffersSigned
    <2>3. TryReorg(s, n) = RelinkOntoVariant(s, n, other) \/ TryReorg(s, n) = Rebranch(s, n, other)
        BY <1>5, TryReorgUnfolds
    <2>4. Log!Outranks(other, s.chain)
        BY <1>1, <2>1, <2>2, HashOutranks
    <2> HIDE DEF first, other, f
    <2>5. LET t == RelinkOntoVariant(s, n, other)
          IN  Moved(s, t, n) /\ Signed(t.chain, A) /\ Better(t.chain, s.chain)
        BY <2>1, <2>2, RelinkMoved
    <2>6. LET t == Rebranch(s, n, other)
          IN  Moved(s, t, n) /\ Signed(t.chain, A) /\ Better(t.chain, s.chain)
        BY <2>1, <2>2, <2>4, RebranchMoved
    <2> QED BY <2>3, <2>5, <2>6
<1> QED BY <1>3, <1>4, <1>5

\* What a handler that takes in block b leaves behind: s is the seat before,
\* t after it, and all but the own votes is signed.
Taken(s, t, n, A) ==
    /\ Signed(t.chain, A) /\ BuffersSigned(t, A) /\ Backed(t, n, A) /\ AboveGenesis(t)
    /\ Better(t.chain, s.chain)

\* A stashed candidate.
LEMMA StashAndReorgMoved ==
    ASSUME NEW s, SeatInv(s), NEW n \in Member, NEW b \in Block, NEW A, Signed(b, A),
           Signed(s.chain, A), BuffersSigned(s, A), Backed(s, n, A), AboveGenesis(s)
    PROVE  Taken(s, StashAndReorg(s, n, b), n, A)
<1> DEFINE F == Keep(s.fork, b)
           t == [s EXCEPT !.fork = F]
           u == TryReorg(t, n)
<1>1. s \in Seat /\ F \in SUBSET Block /\ IsFiniteSet(F)
    BY KeepFacts DEF SeatInv, SeatOK, Seat
<1>2. \A d \in F : d \in s.fork \/ d = b
    BY DEF Keep
<1> HIDE DEF F
<1>3. t \in Seat /\ SameVotes(s, t) /\ t.fork = F /\ t.buf = s.buf
    BY <1>1 DEF Seat, SameVotes
<1> HIDE DEF t
<1>4. SeatInv(t)
    BY <1>1, <1>3, SameVotesInv DEF SeatInv, SeatOK
<1>5. BuffersSigned(t, A) /\ Backed(t, n, A) /\ AboveGenesis(t) /\ t.chain = s.chain
    BY <1>2, <1>3 DEF BuffersSigned, Backed, AboveGenesis, SameVotes
<1>6. Moved(t, u, n) /\ Signed(u.chain, A) /\ Better(u.chain, s.chain)
    BY <1>4, <1>5, TryReorgMoved
<1> HIDE DEF u
<1>7. BuffersSigned(u, A) /\ Backed(u, n, A) /\ AboveGenesis(u)
    BY <1>5, <1>6, MovedSigned
<1>8. StashAndReorg(s, n, b) = u
    BY DEF StashAndReorg, u, t, F
<1> QED BY <1>6, <1>7, <1>8 DEF Taken

\* A contender with the smaller hash takes the tip.
LEMMA SwapTipMoved ==
    ASSUME NEW s, SeatInv(s), NEW n \in Member, NEW b \in Block, NEW A, Signed(b, A),
           Signed(s.chain, A), Len(b) = Len(s.chain), Prev(b) = Prev(s.chain), HashLess(b, s.chain)
    PROVE  LET t == SwapTip(s, n, b)
           IN  Moved(s, t, n) /\ Signed(t.chain, A) /\ Better(t.chain, s.chain)
<1> DEFINE lost == s.chain[Len(s.chain)].id
           t == [s EXCEPT !.chain = b, !.paced = FALSE]
           adopted == SettleCards(t)
           voting == ReturnToVote(adopted, {lost})
           u == RebasePendingApprovals(voting, n)
<1>1. s \in Seat /\ s.chain \in Chains
    BY DEF SeatInv, SeatOK, Seat
<1>2. b \in Chains /\ Len(b) \in Nat \ {0}
    BY PrevFacts
<1>3. s.chain \in Block
    BY <1>1, <1>2, EmptySeq DEF Block, Chains
<1>4. \A i \in 1 .. Len(b) - 1 : b[i] = s.chain[i]
    BY <1>3, PrevFacts
<1>5. Log!Outranks(b, s.chain)
    <2>1. BlockAt(b, Len(b)) = b /\ BlockAt(s.chain, Len(b)) = s.chain
        <3>1. /\ BlockAt(b, Len(b)) \in Chains /\ Len(BlockAt(b, Len(b))) = Len(b)
              /\ \A i \in 1 .. Len(b) : BlockAt(b, Len(b))[i] = b[i]
            BY <1>2, BlockAtFacts
        <3>2. /\ BlockAt(s.chain, Len(b)) \in Chains /\ Len(BlockAt(s.chain, Len(b))) = Len(b)
              /\ \A i \in 1 .. Len(b) : BlockAt(s.chain, Len(b))[i] = s.chain[i]
            BY <1>1, <1>2, BlockAtFacts
        <3> QED BY <1>1, <1>2, <3>1, <3>2, SameChain
    <2> QED BY <1>1, <1>2, <1>4, <2>1, HashOutranks
<1> HIDE DEF lost
<1>6. t \in Seat /\ t.chain = b /\ t.buf = s.buf /\ t.fork = s.fork /\ Moved(s, t, n)
    BY <1>1, <1>2 DEF Seat, Moved
<1>7. SeatOK(t)
    BY <1>6 DEF SeatInv, SeatOK
<1> HIDE DEF t
<1>8. SeatOK(adopted) /\ adopted.chain = b /\ Moved(t, adopted, n)
    BY <1>6, <1>7, SettleCardsMoved, SettleCardsFields
<1> HIDE DEF adopted
<1>9. voting \in Seat /\ voting.chain = b /\ Moved(adopted, voting, n)
    BY <1>8, ReturnToVoteMoved, ReturnToVoteFields DEF SeatOK
<1> HIDE DEF voting
<1>10. u.chain = b /\ Moved(voting, u, n)
    BY <1>9, RebaseMoved
<1> HIDE DEF u
<1>11. Moved(s, u, n) /\ Moved(s, s, n)
    BY <1>6, <1>8, <1>9, <1>10, MovedTrans DEF Moved
<1>12. SwapTip(s, n, b) = IF ~ WalkChain(b) THEN s ELSE u
    BY DEF SwapTip, u, voting, adopted, t, lost
<1>13. Better(s.chain, s.chain) /\ Better(b, s.chain)
    BY <1>1, <1>5, BetterRefl DEF Better
<1> QED BY <1>10, <1>11, <1>12, <1>13

\* tie_break.
LEMMA TieBreakMoved ==
    ASSUME NEW s, SeatInv(s), NEW n \in Member, NEW b \in Block, Len(b) <= Len(s.chain),
           NEW A, Signed(b, A),
           Signed(s.chain, A), BuffersSigned(s, A), Backed(s, n, A), AboveGenesis(s)
    PROVE  Taken(s, TieBreak(s, n, b), n, A)
<1> DEFINE ours    == BlockAt(s.chain, Len(b))
           shared  == Prev(b) = Prev(ours)
           same    == b[Len(b)].id = ours[Len(b)].id
           smaller == HashLess(b, ours)
<1>1. s.chain \in Chains /\ Len(s.chain) \in Nat /\ Len(b) \in Nat \ {0}
    BY PrevFacts, IdsFacts DEF SeatInv, SeatOK, Seat
<1>2. TieBreak(s, n, b) =
        IF b = ours THEN s
        ELSE IF shared /\ same
             THEN IF smaller THEN StashAndReorg(s, n, b) ELSE s
        ELSE IF ~ shared \/ Len(b) < Len(s.chain) THEN StashAndReorg(s, n, b)
        ELSE IF smaller THEN SwapTip(s, n, b) ELSE s
    BY DEF TieBreak
<1>3. Taken(s, StashAndReorg(s, n, b), n, A)
    BY StashAndReorgMoved
<1>4. Taken(s, s, n, A)
    BY <1>1, BetterRefl DEF Taken
<1>5. ASSUME shared, ~ (Len(b) < Len(s.chain)), smaller PROVE Taken(s, SwapTip(s, n, b), n, A)
    <2>1. Len(b) = Len(s.chain)
        BY <1>1, <1>5
    <2>2. /\ Len(b) \in 0 .. Len(s.chain)
          /\ ours \in Chains /\ Len(ours) = Len(s.chain)
          /\ \A i \in 1 .. Len(ours) : ours[i] = s.chain[i]
        BY <1>1, <2>1, BlockAtFacts
    <2>3. ours = s.chain
        BY <1>1, <2>2, SameChain
    <2> DEFINE t == SwapTip(s, n, b)
    <2>4. Moved(s, t, n) /\ Signed(t.chain, A) /\ Better(t.chain, s.chain)
        BY <1>5, <2>1, <2>3, SwapTipMoved
    <2> HIDE DEF t
    <2>5. BuffersSigned(t, A) /\ Backed(t, n, A) /\ AboveGenesis(t)
        BY <2>4, MovedSigned
    <2> QED BY <2>4, <2>5 DEF Taken, t
<1> HIDE DEF ours, shared, same, smaller
<1> QED BY <1>2, <1>3, <1>4, <1>5

\* receive_block_from.
LEMMA ReceiveBlockFromMoved ==
    ASSUME NEW s, SeatInv(s), NEW n \in Member, NEW b \in Block, NEW A, Signed(b, A),
           Signed(s.chain, A), BuffersSigned(s, A), Backed(s, n, A), AboveGenesis(s)
    PROVE  Taken(s, ReceiveBlockFrom(s, n, b), n, A)
<1> DEFINE t == [s EXCEPT !.top = IF Len(b) > @ THEN Len(b) ELSE @]
           B == Keep({c \in t.buf : Len(c) > Len(t.chain)}, b)
           u == [t EXCEPT !.buf = B]
<1>1. s \in Seat /\ Len(b) \in Nat
    BY PrevFacts DEF SeatInv, SeatOK
<1>2. t \in Seat /\ SameVotes(s, t) /\ t.buf = s.buf /\ t.fork = s.fork
    BY <1>1 DEF Seat, SameVotes
<1>3. ReceiveBlockFrom(s, n, b) =
        CASE Len(b) <= Len(t.chain) -> TieBreak(t, n, b)
          [] Len(b) = Target(t) /\ Prev(b) = t.chain -> ApplyNextBlock(t, n, b)
          [] Len(b) = Target(t) /\ Prev(b) # t.chain -> StashAndReorg(t, n, b)
          [] OTHER -> u
    BY DEF ReceiveBlockFrom
<1> HIDE DEF t
<1>4. /\ SeatInv(t) /\ t.chain = s.chain
      /\ BuffersSigned(t, A) /\ Backed(t, n, A) /\ AboveGenesis(t)
    BY <1>2, SameVotesInv DEF SeatInv, SeatOK, BuffersSigned, Backed, AboveGenesis, SameVotes
<1>5. \A d \in B : d \in t.buf \/ d = b
    BY DEF Keep
<1> HIDE DEF B
<1>6. SameVotes(t, u) /\ u.buf = B /\ u.fork = t.fork
    BY <1>2 DEF Seat, SameVotes
<1> HIDE DEF u
<1>7. t.chain \in Chains /\ Len(t.chain) \in Nat
    BY <1>2, IdsFacts DEF Seat
<1>8. Taken(s, u, n, A)
    BY <1>4, <1>5, <1>6, <1>7, BetterRefl
       DEF Taken, BuffersSigned, Backed, AboveGenesis, SameVotes
<1>9. CASE Len(b) <= Len(t.chain)
    <2>1. Len(b) # Target(t)
        BY <1>1, <1>7, <1>9 DEF Target
    <2>2. Taken(t, TieBreak(t, n, b), n, A)
        BY <1>4, <1>9, TieBreakMoved
    <2> QED BY <1>3, <1>4, <1>9, <2>1, <2>2 DEF Taken
<1>10. CASE ~ (Len(b) <= Len(t.chain)) /\ Len(b) = Target(t) /\ Prev(b) = t.chain
    <2> DEFINE v == ApplyNextBlock(t, n, b)
    <2>1. Moved(t, v, n) /\ Signed(v.chain, A) /\ Log!Extends(v.chain, t.chain)
        BY <1>4, <1>10, ApplyNextBlockMoved
    <2>2. ReceiveBlockFrom(s, n, b) = v
        BY <1>3, <1>10
    <2> HIDE DEF v
    <2>3. BuffersSigned(v, A) /\ Backed(v, n, A) /\ AboveGenesis(v)
        BY <1>4, <2>1, MovedSigned
    <2> QED BY <1>4, <2>1, <2>2, <2>3 DEF Taken, Better
<1>11. CASE ~ (Len(b) <= Len(t.chain)) /\ Len(b) = Target(t) /\ Prev(b) # t.chain
    <2>1. Taken(t, StashAndReorg(t, n, b), n, A)
        BY <1>4, StashAndReorgMoved
    <2> QED BY <1>3, <1>4, <1>11, <2>1 DEF Taken
<1>12. CASE ~ (Len(b) <= Len(t.chain)) /\ Len(b) # Target(t)
    BY <1>3, <1>8, <1>12
<1> QED BY <1>9, <1>10, <1>11, <1>12

-----------------------------------------------------------------------------
(***************************************************************************)
(* The refinement.                                                         *)
(***************************************************************************)

\* Signatures that are in A are for heights above the genesis if all of A is,
\* and Backed asks less than VotesSigned.
LEMMA VotesSignedFacts ==
    ASSUME NEW A, \A a \in A : a[3] >= 1, NEW s, VotesSigned(s, A), NEW n
    PROVE  Backed(s, n, A) /\ AboveGenesis(s)
<1>1. Backed(s, n, A)
    BY DEF VotesSigned, Backed
<1>2. ASSUME NEW p \in Proposal, s.pend[p].sigs # {} PROVE s.pend[p].height >= 1
    <2>1. PICK m \in s.pend[p].sigs : TRUE
        BY <1>2
    <2>2. <<m, p, s.pend[p].height>> \in A
        BY <2>1 DEF VotesSigned
    <2> QED BY <2>2
<1> QED BY <1>1, <1>2 DEF AboveGenesis

\* A collected signature is one of A.
LEMMA CollectSigSigned ==
    ASSUME NEW s, s \in Seat, NEW p \in Proposal, NEW h \in Nat, NEW m, NEW A,
           <<m, p, h>> \in A, VotesSigned(s, A)
    PROVE  LET t == CollectSig(s, p, h, m)
           IN  VotesSigned(t, A) /\ t.buf = s.buf /\ t.fork = s.fork /\ t.chain = s.chain
<1> DEFINE e == s.pend[p]
           new == [height |-> h, sigs |-> IF h > e.height THEN {m} ELSE e.sigs \cup {m}]
           t == [s EXCEPT !.pend[p] = new]
<1>1. CASE s.card[p] \in {"applied", "shadow"} \/ h < e.height
    BY <1>1 DEF CollectSig
<1>2. CASE ~ (s.card[p] \in {"applied", "shadow"} \/ h < e.height)
    <2>1. /\ t.chain = s.chain /\ t.buf = s.buf /\ t.fork = s.fork
          /\ \A q \in Proposal : t.pend[q] = IF q = p THEN new ELSE s.pend[q]
        BY DEF Seat
    <2>2. CollectSig(s, p, h, m) = t
        BY <1>2 DEF CollectSig
    <2>3. e.height \in Nat
        BY DEF Seat, PendingApproval
    <2>4. new.height = h /\ \A x \in new.sigs : x = m \/ (h = e.height /\ x \in e.sigs)
        BY <1>2, <2>3
    <2> HIDE DEF t, new
    <2>5. VotesSigned(t, A)
        BY <2>1, <2>4 DEF VotesSigned
    <2> QED BY <2>1, <2>2, <2>5
<1> QED BY <1>1, <1>2

\* A verified chain whose attestations are signed is attested.
LEMMA SignedAttested ==
    ASSUME NEW c \in Chains, WalkChain(c), NEW A, Signed(c, A)
    PROVE  Log!Attested(c, A)
<1>1. \A x : Log!Ids(x) = Ids(x)
    BY DEF Ids, Log!Ids
<1>2. \A S : Log!Cardinality(S) = Cardinality(S)
    BY DEF Cardinality, Log!Cardinality, IsFiniteSet, Log!IsFiniteSet
<1> QED BY <1>1, <1>2 DEF Log!Attested, Signed, WalkChain, VerifyNext, BlockAt

\* An id the chain lacks may be signed for any height up to the next one.
LEMMA FreshMaySign ==
    ASSUME NEW c \in Chains, NEW n, NEW p, p \notin Ids(c),
           NEW h \in 1 .. Len(c) + 1
    PROVE  Log!MaySign(n, c, <<n, p, h>>)
<1>1. Len(c) \in Nat /\ h - 1 \in 0 .. Len(c)
    BY IdsFacts
<1>2. /\ BlockAt(c, h - 1) \in Chains /\ Len(BlockAt(c, h - 1)) = h - 1
      /\ \A i \in 1 .. h - 1 : BlockAt(c, h - 1)[i] = c[i]
    BY <1>1, BlockAtFacts
<1>3. Ids(BlockAt(c, h - 1)) \subseteq Ids(c)
    BY <1>1, <1>2, PrefixIds
<1>4. p \notin Log!Ids(SubSeq(c, 1, h - 1))
    BY <1>3 DEF Ids, Log!Ids, BlockAt
<1> QED BY <1>4 DEF Log!MaySign

\* A seat that moves to a better chain, all of it signed, gossiping what it may
\* sign, takes a step of the abstract log.
LEMMA StepImplements ==
    ASSUME Inv, SignInv, NEW n \in Member, NEW t, SeatInv(t), NEW sigs, sigs \subseteq Signature,
           NEW bs, Step(n, t, sigs, bs), Taken(node[n], t, n, approvals \cup sigs),
           \A b \in bs : Signed(b, approvals \cup sigs),
           \A a \in sigs : Log!MaySign(n, t.chain, a)
    PROVE  SignInv' /\ Log!Step(n)
<1> DEFINE A == approvals \cup sigs
<1>1. /\ t \in Seat /\ t.chain \in Chains /\ Len(t.chain) \in Nat /\ WalkChain(t.chain)
      /\ \A p \in Proposal : t.pend[p].height \in Nat
    BY IdsFacts DEF SeatInv, SeatOK, Seat, PendingApproval
<1>2. /\ \A k \in Member : node'[k] = IF k = n THEN t ELSE node[k]
      /\ approvals' = A \cup Standing(n, t) /\ blocks' = blocks \cup bs
    BY DEF Inv, Step
<1>3. A \subseteq approvals' /\ approvals \subseteq approvals'
    BY <1>2
<1>4. ASSUME NEW a \in Standing(n, t) PROVE Log!MaySign(n, t.chain, a)
    <2>1. PICK p \in Proposal : n \in t.pend[p].sigs /\ a = <<n, p, t.pend[p].height>>
        BY <1>4 DEF Standing
    <2>2. t.pend[p].height \in 1 .. Len(t.chain) + 1 /\ p \notin Ids(t.chain)
        BY <1>1, <2>1 DEF SeatInv, VotesInv, Target, NoSigs, Taken, AboveGenesis
    <2> QED BY <1>1, <2>1, <2>2, FreshMaySign
<1>5. \A a \in approvals' \ approvals : Log!MaySign(n, t.chain, a)
    BY <1>2, <1>4
<1>6. SeatSigned(t, approvals')
    <2>1. Signed(t.chain, approvals') /\ BuffersSigned(t, approvals')
        BY <1>3, SignedMono DEF Taken, BuffersSigned
    <2>2. ASSUME NEW p \in Proposal, NEW m \in t.pend[p].sigs
          PROVE  <<m, p, t.pend[p].height>> \in approvals'
        <3>1. CASE m = n
            BY <1>2, <2>2, <3>1 DEF Standing
        <3>2. CASE m # n
            BY <1>3, <2>2, <3>2 DEF Taken, Backed
        <3> QED BY <3>1, <3>2
    <2> QED BY <2>1, <2>2 DEF SeatSigned, VotesSigned
<1>7. ASSUME NEW k \in Member PROVE SeatSigned(node'[k], approvals')
    <2>1. SeatSigned(node[k], approvals)
        BY DEF SignInv
    <2>2. SeatSigned(node[k], approvals')
        BY <1>3, <2>1, SignedMono DEF SeatSigned, BuffersSigned, VotesSigned
    <2> QED BY <1>2, <1>6, <2>2
<1>8. \A b \in blocks' : Signed(b, approvals')
    BY <1>2, <1>3, SignedMono DEF SignInv
<1>9. \A a \in approvals' : a[3] >= 1
    <2>1. \A a \in approvals' \ approvals : a[3] \in 1 .. Len(t.chain) + 1
        BY <1>5 DEF Log!MaySign
    <2> QED BY <1>1, <2>1 DEF SignInv
<1>10. SignInv'
    BY <1>7, <1>8, <1>9 DEF SignInv, SeatSigned, Signed, BuffersSigned, VotesSigned
<1> DEFINE log == [k \in Member |-> node[k].chain]
           logN == [k \in Member |-> node'[k].chain]
<1>11. logN = [log EXCEPT ![n] = t.chain] /\ logN[n] = t.chain /\ log[n] = node[n].chain
    BY <1>2
<1>12. Log!Attested(t.chain, approvals')
    BY <1>1, <1>6, SignedAttested DEF SeatSigned
<1>13. Log!Extends(t.chain, node[n].chain) \/ Log!Outranks(t.chain, node[n].chain)
    BY DEF Taken, Better
<1>14. Log!Step(n)
    BY <1>3, <1>5, <1>11, <1>12, <1>13 DEF Log!Step
<1> QED BY <1>10, <1>14

\* try_commit, from a seat all of whose signatures are gossiped.
LEMMA CommitTaken ==
    ASSUME NEW A, \A a \in A : a[3] >= 1, NEW s, SeatInv(s), SeatSigned(s, A),
           NEW n \in Member, NEW p \in Proposal
    PROVE  Taken(s, TryCommit(s, n, p), n, A) /\ Log!Extends(TryCommit(s, n, p).chain, s.chain)
<1> DEFINE t == TryCommit(s, n, p)
<1>1. Signed(s.chain, A) /\ BuffersSigned(s, A) /\ VotesSigned(s, A)
    BY DEF SeatSigned
<1>2. Moved(s, t, n) /\ Signed(t.chain, A) /\ Log!Extends(t.chain, s.chain)
    BY <1>1, TryCommitMoved
<1> HIDE DEF t
<1>3. BuffersSigned(t, A) /\ Backed(t, n, A) /\ AboveGenesis(t)
    BY <1>1, <1>2, VotesSignedFacts, MovedSigned
<1> QED BY <1>2, <1>3 DEF Taken, Better, t

\* Signing an open proposal at the next height and sealing it if that suffices.
LEMMA SignCommitTaken ==
    ASSUME NEW A, \A a \in A : a[3] >= 1, NEW s, SeatInv(s), SeatSigned(s, A),
           NEW n \in Member, NEW p \in Proposal, s.card[p] = "open",
           <<n, p, Target(s)>> \in A
    PROVE  LET t == TryCommit(SignApproval(s, n, p), n, p)
           IN  Taken(s, t, n, A) /\ Log!MaySign(n, t.chain, <<n, p, Target(s)>>)
<1> DEFINE o == [s EXCEPT !.own = @ \cup {p}]
           u == SignApproval(s, n, p)
           t == TryCommit(u, n, p)
<1>1. s \in Seat /\ s.chain \in Chains /\ Len(s.chain) \in Nat /\ p \notin Ids(s.chain)
    BY IdsFacts DEF SeatInv, SeatOK, Seat, CardsInv
<1>2. o \in Seat /\ o.chain = s.chain /\ o.pend = s.pend /\ o.buf = s.buf /\ o.fork = s.fork
    BY <1>1 DEF Seat
<1>3. VotesSigned(o, A) /\ Target(s) \in Nat
    BY <1>1, <1>2 DEF SeatSigned, VotesSigned, Target
<1>4. u = CollectSig(o, p, Target(s), n)
    BY DEF SignApproval
<1> HIDE DEF o
<1>5. VotesSigned(u, A) /\ u.buf = s.buf /\ u.fork = s.fork /\ u.chain = s.chain
    BY <1>2, <1>3, <1>4, CollectSigSigned
<1>6. SeatInv(u)
    BY SignApprovalInv
<1> HIDE DEF u
<1>7. SeatSigned(u, A)
    BY <1>5 DEF SeatSigned, BuffersSigned
<1>8. Taken(u, t, n, A) /\ Log!Extends(t.chain, s.chain) /\ SeatInv(t)
    BY <1>5, <1>6, <1>7, CommitTaken, TryCommitInv
<1> HIDE DEF t
<1>9. Taken(s, t, n, A)
    BY <1>5, <1>8 DEF Taken
<1>10. Log!MaySign(n, t.chain, <<n, p, Target(s)>>)
    <2>1. Len(s.chain) <= Len(t.chain) /\ SubSeq(t.chain, 1, Len(s.chain)) = s.chain
        BY <1>8 DEF Log!Extends
    <2>2. Len(t.chain) \in Nat
        BY <1>8, IdsFacts DEF SeatInv, SeatOK, Seat
    <2>3. Target(s) \in 1 .. Len(t.chain) + 1 /\ Target(s) - 1 = Len(s.chain)
        BY <1>1, <2>1, <2>2 DEF Target
    <2>4. p \notin Log!Ids(s.chain)
        BY <1>1 DEF Ids, Log!Ids
    <2> QED BY <2>1, <2>3, <2>4 DEF Log!MaySign
<1> QED BY <1>9, <1>10 DEF t, u

\* One lemma per action: cmd_propose.
LEMMA ProposeImplements ==
    ASSUME Inv, SignInv, NEW n \in Member, NEW p \in Proposal, Propose(n, p)
    PROVE  SignInv' /\ Log!Step(n)
<1> DEFINE s == node[n]
           o == [s EXCEPT !.card[p] = "open"]
           t == IF n \in SelfCosign THEN TryCommit(SignApproval(o, n, p), n, p) ELSE o
           sigs == IF n \in SelfCosign THEN {<<n, p, Target(s)>>} ELSE {}
           A == approvals \cup sigs
<1>1. s.card[p] = "none"
    <2>1. s.card[p] # "none" => p < p
        BY DEF Propose, Mintable
    <2>2. p \in Nat
        BY ProposalAssumption
    <2> QED BY <2>1, <2>2
<1>2. SeatInv(s) /\ SeatSigned(s, approvals) /\ Step(n, t, sigs, Sealed(s, t))
    BY DEF Inv, SignInv, Propose
<1>3. Target(s) \in Nat /\ Target(s) >= 1 /\ s \in Seat
    BY <1>2, IdsFacts DEF SeatInv, SeatOK, Seat, Target
<1>4. sigs \subseteq Signature /\ \A a \in A : a[3] >= 1
    BY <1>3 DEF Signature, SignInv
<1> HIDE DEF s
<1>5. SeatInv(o) /\ o.card[p] = "open" /\ o.chain = s.chain
    BY <1>1, <1>2, OpenCardInv
<1>6. o.pend = s.pend /\ o.buf = s.buf /\ o.fork = s.fork
    BY <1>3 DEF Seat
<1> HIDE DEF o
<1>7. SeatSigned(o, A)
    BY <1>2, <1>5, <1>6, SignedMono DEF SeatSigned, BuffersSigned, VotesSigned
<1>8. Taken(s, t, n, A) /\ SeatInv(t) /\ \A a \in sigs : Log!MaySign(n, t.chain, a)
    <2>1. CASE n \in SelfCosign
        <3>1. <<n, p, Target(o)>> \in A /\ sigs = {<<n, p, Target(o)>>}
            BY <1>5, <2>1 DEF Target
        <3> HIDE DEF sigs
        <3>2. LET v == TryCommit(SignApproval(o, n, p), n, p)
              IN  Taken(o, v, n, A) /\ Log!MaySign(n, v.chain, <<n, p, Target(o)>>)
            BY <1>4, <1>5, <1>7, <3>1, SignCommitTaken
        <3>3. SeatInv(TryCommit(SignApproval(o, n, p), n, p))
            BY <1>5, SignApprovalInv, TryCommitInv
        <3> QED BY <1>5, <2>1, <3>1, <3>2, <3>3 DEF Taken
    <2>2. CASE n \notin SelfCosign
        <3>1. t = o /\ sigs = {}
            BY <2>2
        <3>2. Backed(o, n, A) /\ AboveGenesis(o)
            BY <1>4, <1>7, VotesSignedFacts DEF SeatSigned
        <3>3. Better(o.chain, s.chain)
            BY <1>5, BetterRefl DEF SeatInv, SeatOK, Seat
        <3> QED BY <1>5, <1>7, <3>1, <3>2, <3>3 DEF Taken, SeatSigned
    <2> QED BY <2>1, <2>2
<1> HIDE DEF t, sigs
<1>9. \A b \in Sealed(s, t) : Signed(b, A)
    BY <1>8 DEF Sealed, Taken
<1> QED BY <1>2, <1>4, <1>8, <1>9, StepImplements DEF s

\* cmd_approve.
LEMMA ApproveImplements ==
    ASSUME Inv, SignInv, NEW n \in Member, NEW p \in Proposal, Approve(n, p)
    PROVE  SignInv' /\ Log!Step(n)
<1> DEFINE s == node[n]
           t == TryCommit(SignApproval(s, n, p), n, p)
           sigs == {<<n, p, Target(s)>>}
           A == approvals \cup sigs
<1>1. /\ SeatInv(s) /\ SeatSigned(s, approvals) /\ s.card[p] = "open"
      /\ Step(n, t, sigs, Sealed(s, t))
    BY DEF Inv, SignInv, Approve
<1>2. Target(s) \in Nat /\ Target(s) >= 1
    BY <1>1, IdsFacts DEF SeatInv, SeatOK, Seat, Target
<1>3. sigs \subseteq Signature /\ \A a \in A : a[3] >= 1
    BY <1>2 DEF Signature, SignInv
<1>4. <<n, p, Target(s)>> \in A
    OBVIOUS
<1> HIDE DEF s
<1>5. SeatSigned(s, A)
    BY <1>1, SignedMono DEF SeatSigned, BuffersSigned, VotesSigned
<1> HIDE DEF A
<1>6. Taken(s, t, n, A) /\ \A a \in sigs : Log!MaySign(n, t.chain, a)
    BY <1>1, <1>3, <1>4, <1>5, SignCommitTaken
<1>7. SeatInv(t)
    BY <1>1, SignApprovalInv, TryCommitInv
<1> HIDE DEF t, sigs
<1>8. \A b \in Sealed(s, t) : Signed(b, A)
    BY <1>6 DEF Sealed, Taken
<1> QED BY <1>1, <1>3, <1>6, <1>7, <1>8, StepImplements DEF s, A

\* A seat that only changes what the abstract log does not speak of.
LEMMA SameVotesTaken ==
    ASSUME NEW A, \A a \in A : a[3] >= 1, NEW s, SeatInv(s), SeatSigned(s, A), NEW n,
           NEW t, t.chain = s.chain, t.pend = s.pend, t.buf = s.buf, t.fork = s.fork
    PROVE  Taken(s, t, n, A)
<1>1. Backed(s, n, A) /\ AboveGenesis(s)
    BY VotesSignedFacts DEF SeatSigned
<1>2. Better(s.chain, s.chain)
    BY BetterRefl DEF SeatInv, SeatOK, Seat
<1> QED BY <1>1, <1>2 DEF Taken, SeatSigned, BuffersSigned, Backed, AboveGenesis

\* receive_proposed.
LEMMA ReceiveProposedImplements ==
    ASSUME Inv, SignInv, NEW n \in Member, NEW p \in Proposal, ReceiveProposed(n, p)
    PROVE  SignInv' /\ Log!Step(n)
<1> DEFINE s == node[n]
           o == [s EXCEPT !.card[p] = "open"]
<1>1. SeatInv(s) /\ SeatSigned(s, approvals) /\ s.card[p] = "none" /\ Step(n, o, {}, {})
    BY DEF Inv, SignInv, ReceiveProposed
<1>2. SeatInv(o)
    BY <1>1, OpenCardInv
<1>3. o.chain = s.chain /\ o.pend = s.pend /\ o.buf = s.buf /\ o.fork = s.fork
    BY <1>1 DEF SeatInv, SeatOK, Seat
<1> HIDE DEF s, o
<1>4. Taken(s, o, n, approvals)
    BY <1>1, <1>3, SameVotesTaken DEF SignInv
<1>5. approvals \cup {} = approvals /\ {} \subseteq Signature
    OBVIOUS
<1> QED BY <1>1, <1>2, <1>4, <1>5, StepImplements DEF s

\* receive_approval.
LEMMA ReceiveApprovalImplements ==
    ASSUME Inv, SignInv, NEW n \in Member, NEW a \in approvals, ReceiveApproval(n, a)
    PROVE  SignInv' /\ Log!Step(n)
<1> DEFINE s == node[n]
           u == CollectSig(s, a[2], a[3], a[1])
           t == TryCommit(u, n, a[2])
<1>1. /\ SeatInv(s) /\ SeatSigned(s, approvals) /\ a[3] <= Target(s)
      /\ Step(n, t, {}, Sealed(s, t))
    BY DEF Inv, SignInv, ReceiveApproval
<1>2. a[1] \in Member /\ a[2] \in Proposal /\ a[3] \in Nat /\ <<a[1], a[2], a[3]>> \in approvals
    BY DEF Inv
<1>3. s \in Seat
    BY <1>1 DEF SeatInv, SeatOK
<1> HIDE DEF s
<1>4. SeatInv(u) /\ u.chain = s.chain
    BY <1>1, <1>2, CollectSigInv
<1>5. VotesSigned(u, approvals) /\ u.buf = s.buf /\ u.fork = s.fork
    BY <1>1, <1>2, <1>3, CollectSigSigned DEF SeatSigned
<1> HIDE DEF u
<1>6. SeatSigned(u, approvals)
    BY <1>1, <1>4, <1>5 DEF SeatSigned, BuffersSigned
<1>7. Taken(u, t, n, approvals) /\ SeatInv(t)
    BY <1>2, <1>4, <1>6, CommitTaken, TryCommitInv DEF SignInv
<1> HIDE DEF t
<1>8. Taken(s, t, n, approvals) /\ \A b \in Sealed(s, t) : Signed(b, approvals)
    BY <1>4, <1>7 DEF Taken, Sealed
<1>9. approvals \cup {} = approvals /\ {} \subseteq Signature
    OBVIOUS
<1> QED BY <1>1, <1>7, <1>8, <1>9, StepImplements DEF s

\* The delivery of a block, with the votes signed at the heights it passes.
LEMMA ReceiveBlockImplements ==
    ASSUME Inv, SignInv, NEW n \in Member, NEW b \in blocks, ReceiveBlock(n, b)
    PROVE  SignInv' /\ Log!Step(n)
<1> DEFINE s == node[n]
           t == ReceiveBlockFrom(s, n, b)
           grown == Len(s.chain) <= Len(t.chain) /\ BlockAt(t.chain, Len(s.chain)) = s.chain
           sigs == IF grown THEN PassedBy(n, s, t) ELSE {}
           A == approvals \cup sigs
<1>1. /\ SeatInv(s) /\ SeatSigned(s, approvals) /\ b \in Block /\ Signed(b, approvals)
      /\ Step(n, t, sigs, {})
    BY DEF Inv, SignInv, ReceiveBlock
<1>2. Backed(s, n, approvals) /\ AboveGenesis(s)
    BY <1>1, VotesSignedFacts DEF SignInv, SeatSigned
<1> HIDE DEF s
<1>3. SeatInv(t) /\ Taken(s, t, n, approvals)
    BY <1>1, <1>2, ReceiveBlockFromInv, ReceiveBlockFromMoved DEF SeatSigned
<1> HIDE DEF t, grown
<1>4. Taken(s, t, n, A)
    BY <1>3, SignedMono DEF Taken, BuffersSigned, Backed
<1>5. PassedBy(n, s, t) \subseteq Signature /\ \A a \in PassedBy(n, s, t) : Log!MaySign(n, t.chain, a)
    <2>1. /\ s.own \in SUBSET Proposal /\ Len(s.chain) \in Nat /\ Len(t.chain) \in Nat
        BY <1>1, <1>3, IdsFacts DEF SeatInv, SeatOK, Seat
    <2>2. SUFFICES ASSUME NEW a \in PassedBy(n, s, t)
                   PROVE  a \in Signature /\ Log!MaySign(n, t.chain, a)
        OBVIOUS
    <2>3. PICK p \in StandingOpen(s), h \in Len(s.chain) + 2 .. Len(t.chain) :
                a = <<n, p, h>> /\ p \notin Ids(BlockAt(t.chain, h - 1))
        BY <2>2 DEF PassedBy
    <2>4. p \in Proposal /\ h \in Nat /\ h \in 1 .. Len(t.chain) + 1
        BY <2>1, <2>3 DEF StandingOpen
    <2>5. p \notin Log!Ids(SubSeq(t.chain, 1, h - 1))
        BY <2>3 DEF Ids, Log!Ids, BlockAt
    <2> QED BY <2>3, <2>4, <2>5 DEF Signature, Log!MaySign
<1>6. sigs \subseteq Signature /\ \A a \in sigs : Log!MaySign(n, t.chain, a)
    BY <1>5
<1> HIDE DEF sigs
<1> DEFINE bs == {}
<1>7. /\ Taken(node[n], t, n, approvals \cup sigs) /\ SeatInv(t) /\ Step(n, t, sigs, bs)
      /\ \A d \in bs : Signed(d, approvals \cup sigs)
    BY <1>1, <1>3, <1>4 DEF s
<1> HIDE DEF bs, A
<1> QED BY <1>6, <1>7, StepImplements

\* The pacing round.
LEMMA PacingRoundPassesImplements ==
    ASSUME Inv, SignInv, NEW n \in Member, PacingRoundPasses(n)
    PROVE  SignInv' /\ Log!Step(n)
<1> DEFINE s == node[n]
           t == [s EXCEPT !.paced = TRUE]
<1>1. SeatInv(s) /\ SeatSigned(s, approvals) /\ Step(n, t, {}, {})
    BY DEF Inv, SignInv, PacingRoundPasses
<1>2. t \in Seat /\ SameVotes(s, t) /\ t.buf = s.buf /\ t.fork = s.fork
    BY <1>1 DEF SeatInv, SeatOK, Seat, SameVotes
<1> HIDE DEF s, t
<1>3. SeatInv(t)
    BY <1>1, <1>2, SameVotesInv DEF SeatInv, SeatOK
<1>4. Taken(s, t, n, approvals)
    BY <1>1, <1>2, SameVotesTaken DEF SignInv, SameVotes
<1>5. approvals \cup {} = approvals /\ {} \subseteq Signature
    OBVIOUS
<1> QED BY <1>1, <1>3, <1>4, <1>5, StepImplements DEF s

\* drain_held_seals.
LEMMA DrainHeldSealsImplements ==
    ASSUME Inv, SignInv, NEW n \in Member, DrainHeldSeals(n)
    PROVE  SignInv' /\ Log!Step(n)
<1> DEFINE s == [node[n] EXCEPT !.held = {}]
           ready == {p \in node[n].held : Sealable(s, p)}
           first == CHOOSE p \in ready : \A q \in ready : p <= q
           wait == [s EXCEPT !.held = ready]
           t == IF s.paced /\ ready # {} THEN TryCommit(s, n, first) ELSE wait
<1>1. SeatInv(node[n]) /\ SeatSigned(node[n], approvals) /\ Step(n, t, {}, Sealed(s, t))
    BY DEF Inv, SignInv, DrainHeldSeals
<1>2. node[n] \in Seat /\ ready \in SUBSET Proposal
    BY <1>1 DEF SeatInv, SeatOK, Seat
<1>3. s \in Seat /\ SameVotes(node[n], s) /\ s.buf = node[n].buf /\ s.fork = node[n].fork
    BY <1>2 DEF Seat, SameVotes
<1> HIDE DEF s
<1>4. SeatInv(s) /\ SeatSigned(s, approvals)
    BY <1>1, <1>3, SameVotesInv DEF SeatInv, SeatOK, SameVotes, SeatSigned, BuffersSigned, VotesSigned
<1>5. ready # {} => first \in Proposal
    <2> HIDE DEF ready
    <2>1. ready # {} => \E p \in ready : \A q \in ready : p <= q
        BY <1>2, LeastNat, ProposalAssumption
    <2> QED BY <1>2, <2>1
<1> HIDE DEF ready, first
<1>6. /\ wait \in Seat /\ SameVotes(s, wait) /\ wait.buf = s.buf /\ wait.fork = s.fork
    BY <1>2, <1>3 DEF Seat, SameVotes
<1> HIDE DEF wait
<1>7. SeatInv(wait) /\ Taken(s, wait, n, approvals)
    BY <1>4, <1>6, SameVotesInv, SameVotesTaken DEF SeatInv, SeatOK, SameVotes, SignInv
<1>8. SeatInv(t) /\ Taken(s, t, n, approvals)
    BY <1>4, <1>5, <1>7, TryCommitInv, CommitTaken DEF SignInv
<1> HIDE DEF t
<1>9. Taken(node[n], t, n, approvals) /\ \A b \in Sealed(s, t) : Signed(b, approvals)
    BY <1>3, <1>8 DEF Taken, SameVotes, Sealed
<1>10. /\ Taken(node[n], t, n, approvals \cup {}) /\ {} \subseteq Signature
       /\ \A b \in Sealed(s, t) : Signed(b, approvals \cup {})
       /\ \A a \in {} : Log!MaySign(n, t.chain, a)
    <2>1. approvals \cup {} = approvals
        OBVIOUS
    <2> QED BY <1>9, <2>1
<1>11. SeatInv(t) /\ Step(n, t, {}, Sealed(s, t))
    BY <1>1, <1>8
<1> QED BY <1>10, <1>11, StepImplements

\* serve_chain_from: the abstract log stands still.
LEMMA ServeChainImplements ==
    ASSUME Inv, SignInv, NEW n \in Member, ServeChain(n)
    PROVE  SignInv' /\ UNCHANGED <<[k \in Member |-> node[k].chain], approvals>>
<1> DEFINE c == node[n].chain
<1>1. c \in Chains /\ Len(c) \in Nat /\ Signed(c, approvals)
    BY IdsFacts DEF Inv, Seat, SignInv, SeatSigned
<1>2. \A h \in 1 .. Len(c) : Signed(BlockAt(c, h), approvals)
    BY <1>1, PrefixSigned
<1>3. /\ blocks' = blocks \cup {BlockAt(c, h) : h \in 1 .. Len(c)}
      /\ node' = node /\ approvals' = approvals
    BY DEF ServeChain
<1> HIDE DEF c
<1>4. \A b \in blocks' : Signed(b, approvals)
    BY <1>2, <1>3 DEF SignInv
<1> QED BY <1>3, <1>4 DEF SignInv, SeatSigned, Signed, BuffersSigned, VotesSigned

\* The attestation invariant holds initially, and initially the log is empty.
LEMMA InitImplements == Init => SignInv /\ Log!Init
<1>1. SUFFICES ASSUME Init PROVE SignInv /\ Log!Init
    OBVIOUS
<1>2. /\ InitSeat.chain = <<>> /\ InitSeat.buf = {} /\ InitSeat.fork = {}
      /\ \A p \in Proposal : InitSeat.pend[p].sigs = {}
    BY DEF InitSeat, NoSigs
<1>3. Len(<<>>) = 0
    BY EmptySeq
<1>4. SeatSigned(InitSeat, {})
    BY <1>2, <1>3 DEF SeatSigned, Signed, BuffersSigned, VotesSigned
<1>5. /\ \A n \in Member : node[n] = InitSeat
      /\ approvals = {} /\ blocks = {}
    BY <1>1 DEF Init
<1>6. SignInv
    BY <1>4, <1>5 DEF SignInv
<1>7. [n \in Member |-> node[n].chain] = [n \in Member |-> <<>>]
    BY <1>2, <1>5
<1>8. Log!Init
    BY <1>5, <1>7 DEF Log!Init
<1> QED BY <1>6, <1>8

\* Every step keeps the attestation invariant and is a step of the abstract
\* log or leaves it alone.
LEMMA NextImplements ==
    Inv /\ SignInv /\ [Next]_vars
        => SignInv' /\ [Log!Next]_<<[n \in Member |-> node[n].chain], approvals>>
<1> DEFINE Goal == SignInv' /\ [Log!Next]_<<[n \in Member |-> node[n].chain], approvals>>
<1>1. SUFFICES ASSUME Inv, SignInv, [Next]_vars PROVE Goal
    OBVIOUS
<1>2. CASE UNCHANGED vars
    BY <1>1, <1>2 DEF vars, SignInv, SeatSigned, Signed, BuffersSigned, VotesSigned
<1>3. CASE Next
    <2>1. PICK n \in Member :
            \/ \E p \in Proposal : Propose(n, p) \/ Approve(n, p) \/ ReceiveProposed(n, p)
            \/ \E a \in approvals : ReceiveApproval(n, a)
            \/ \E b \in blocks : ReceiveBlock(n, b)
            \/ PacingRoundPasses(n)
            \/ DrainHeldSeals(n)
            \/ ServeChain(n)
        BY <1>3 DEF Next
    <2>2. ASSUME SignInv' /\ Log!Step(n) PROVE Goal
        BY <2>2 DEF Log!Next
    <2>3. ASSUME NEW p \in Proposal, Propose(n, p) \/ Approve(n, p) \/ ReceiveProposed(n, p)
          PROVE  Goal
        BY <1>1, <2>2, <2>3, ProposeImplements, ApproveImplements, ReceiveProposedImplements
    <2>4. ASSUME NEW a \in approvals, ReceiveApproval(n, a) PROVE Goal
        BY <1>1, <2>2, <2>4, ReceiveApprovalImplements
    <2>5. ASSUME NEW b \in blocks, ReceiveBlock(n, b) PROVE Goal
        BY <1>1, <2>2, <2>5, ReceiveBlockImplements
    <2>6. ASSUME PacingRoundPasses(n) \/ DrainHeldSeals(n) PROVE Goal
        BY <1>1, <2>2, <2>6, PacingRoundPassesImplements, DrainHeldSealsImplements
    <2>7. ASSUME ServeChain(n) PROVE Goal
        BY <1>1, <2>7, ServeChainImplements
    <2> HIDE DEF Goal
    <2> QED BY <2>1, <2>3, <2>4, <2>5, <2>6, <2>7
<1> QED BY <1>1, <1>2, <1>3

\* In every republic each attestation that a seat holds, in its chain, its
\* buffers or its open votes, or that is in flight, is a signature its member
\* gossiped for that id and that height - the re-linked blocks included.
THEOREM AttestationsAreReal == Spec => []SignInv
<1>1. Init => SignInv
    BY InitImplements
<1>2. Inv /\ SignInv /\ [Next]_vars => SignInv'
    BY NextImplements
<1> QED BY <1>1, <1>2, Invariance, PTL DEF Spec

\* In every republic, under any order of the link hashes, Chain implements
\* ThresholdLog: each decision is taken once and attested by m real signatures
\* for its height, a seat leaves its chain only for an extension or for a
\* branch with the smaller hash where they part, and it signs a proposal only
\* above a chain that has not decided it.
THEOREM Refinement == Spec => ImplementsThresholdLog
<1>1. Init => Log!Init
    BY InitImplements
<1>2. Inv /\ SignInv /\ [Next]_vars
        => [Log!Next]_<<[n \in Member |-> node[n].chain], approvals>>
    BY NextImplements
<1> QED BY <1>1, <1>2, Invariance, AttestationsAreReal, PTL DEF Spec, ImplementsThresholdLog, Log!Spec
=============================================================================
