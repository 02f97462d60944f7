---------------------------- MODULE Chain_proofs ----------------------------
(***************************************************************************)
(* Proofs about Chain, for every republic: any finite set of seats, any    *)
(* threshold, any set of proposals and any order of the link hashes.       *)
(*                                                                         *)
(* All the state that a handler changes belongs to one seat, so the        *)
(* inductive invariant is a predicate of one seat's state, SeatInv, and    *)
(* each operator of Chain has a lemma saying that it preserves SeatInv.    *)
(***************************************************************************)
EXTENDS Chain, FiniteSetTheorems, SequenceTheorems, WellFoundedInduction, TLAPS

-----------------------------------------------------------------------------
(***************************************************************************)
(* Numbers and finite sets.                                                *)
(***************************************************************************)

\* A set of natural numbers has a least element.
LEMMA LeastNat ==
    ASSUME NEW T \in SUBSET Nat, T # {}
    PROVE  \E x \in T : \A y \in T : x <= y
<1>1. PICK x \in T : \A y \in T : ~ (<<y, x>> \in OpToRel(<, Nat))
    BY NatLessThanWellFounded, WFMin
<1>2. \A y \in T : ~ (y < x)
    BY <1>1 DEF OpToRel
<1> QED BY <1>2

\* A finite set of natural numbers has an upper bound.
LEMMA FiniteBounded ==
    ASSUME NEW S \in SUBSET Nat, IsFiniteSet(S)
    PROVE  \E k \in Nat : \A x \in S : x <= k
<1> DEFINE Bounded(T) == \E k \in Nat : \A x \in T : x <= k
           Bad == {j \in Nat : \E T \in SUBSET Nat : IsFiniteSet(T) /\ Cardinality(T) = j /\ ~ Bounded(T)}
<1>1. SUFFICES ASSUME ~ Bounded(S) PROVE FALSE
    OBVIOUS
<1>2. Cardinality(S) \in Bad
    BY <1>1, FS_CardinalityType
<1>3. PICK j \in Bad : \A i \in Bad : j <= i
    BY <1>2, LeastNat
<1>4. PICK T \in SUBSET Nat : IsFiniteSet(T) /\ Cardinality(T) = j /\ ~ Bounded(T)
    BY <1>3
<1>5. T # {}
    BY <1>4
<1>6. PICK x \in T : TRUE
    BY <1>5
<1>7. IsFiniteSet(T \ {x}) /\ Cardinality(T \ {x}) = j - 1
    BY <1>4, <1>6, FS_RemoveElement
<1>8. j - 1 \in Nat
    BY <1>7, FS_CardinalityType
<1>9. Bounded(T \ {x})
    BY <1>3, <1>7, <1>8
<1>10. PICK k \in Nat : \A y \in T \ {x} : y <= k
    BY <1>9
<1>11. \A y \in T : y <= k + x
    BY <1>10
<1>12. k + x \in Nat
    BY <1>6, <1>10
<1> QED BY <1>4, <1>11, <1>12

\* A non-empty finite set of blocks has a longest one.
LEMMA LongestBlock ==
    ASSUME NEW S \in SUBSET Block, IsFiniteSet(S), S # {}
    PROVE  \E c \in S : \A d \in S : Len(d) <= Len(c)
<1> DEFINE L == {Len(d) : d \in S}
<1>1. L \in SUBSET Nat
    BY LenProperties DEF Block, Chains
<1>2. IsFiniteSet(L)
    <2>1. [d \in S |-> Len(d)] \in Surjection(S, L)
        BY DEF Surjection
    <2> QED BY <2>1, FS_Surjection
<1>3. PICK k \in Nat : \A x \in L : x <= k
    BY <1>1, <1>2, FiniteBounded
<1> DEFINE D == {k - x : x \in L}
<1>4. D \in SUBSET Nat /\ D # {}
    <2>1. \A x \in L : k - x \in Nat
        BY <1>1, <1>3
    <2>2. PICK d \in S : TRUE
        OBVIOUS
    <2>3. k - Len(d) \in D
        BY <2>2
    <2> QED BY <2>1, <2>3
<1>5. PICK y \in D : \A z \in D : y <= z
    BY <1>4, LeastNat
<1>6. PICK c \in S : y = k - Len(c)
    BY <1>5
<1>7. \A d \in S : Len(d) \in Nat /\ k - Len(c) <= k - Len(d)
    BY <1>1, <1>5, <1>6
<1> QED BY <1>7

\* LowestNamed is defined: among enough signers, some m have the lowest names.
LEMMA LowestNamedType ==
    ASSUME NEW S \in SUBSET Member, Cardinality(S) >= RuleM
    PROVE  LowestNamed(S) \in SUBSET S /\ Cardinality(LowestNamed(S)) = RuleM
<1>1. IsFiniteSet(S) /\ Cardinality(S) \in Nat
    BY MemberAssumption, FS_Subset, FS_CardinalityType
<1> DEFINE Lowest(T) == \A a \in T, b \in S \ T : a < b
           Bad == {j \in Nat : j <= Cardinality(S)
                               /\ ~ \E T \in SUBSET S : Cardinality(T) = j /\ Lowest(T)}
<1>2. Bad = {}
    <2>1. SUFFICES ASSUME Bad # {} PROVE FALSE
        OBVIOUS
    <2>2. PICK j \in Bad : \A i \in Bad : j <= i
        BY <2>1, LeastNat
    <2>3. j # 0
        <3>1. {} \in SUBSET S /\ Cardinality({}) = 0 /\ Lowest({})
            BY FS_EmptySet
        <3> QED BY <2>2, <3>1
    <2>4. j - 1 \in Nat /\ j - 1 <= Cardinality(S) /\ j - 1 \notin Bad
        BY <1>1, <2>2, <2>3
    <2>5. PICK T \in SUBSET S : Cardinality(T) = j - 1 /\ Lowest(T)
        BY <2>4
    <2>6. S \ T # {}
        BY <1>1, <2>2, <2>5
    <2>7. PICK x \in S \ T : \A y \in S \ T : x <= y
        BY <2>6, LeastNat, MemberAssumption
    <2>8. T \cup {x} \in SUBSET S /\ Cardinality(T \cup {x}) = j
        <3>1. IsFiniteSet(T)
            BY <1>1, FS_Subset
        <3>2. Cardinality(T \cup {x}) = Cardinality(T) + 1
            BY <2>7, <3>1, FS_AddElement
        <3> QED BY <2>2, <2>5, <2>7, <3>2
    <2>9. Lowest(T \cup {x})
        BY <2>5, <2>7, MemberAssumption
    <2> QED BY <2>2, <2>8, <2>9
<1>3. \E T \in SUBSET S : Cardinality(T) = RuleM /\ Lowest(T)
    BY <1>1, <1>2, RuleAssumption
<1> QED BY <1>3 DEF LowestNamed

-----------------------------------------------------------------------------
(***************************************************************************)
(* Chains and their prefixes.                                              *)
(***************************************************************************)

\* The block at height h of a chain has the chain's first h entries.
LEMMA BlockAtFacts ==
    ASSUME NEW c \in Chains, NEW h \in 0 .. Len(c)
    PROVE  /\ BlockAt(c, h) \in Chains
           /\ Len(BlockAt(c, h)) = h
           /\ \A i \in 1 .. h : BlockAt(c, h)[i] = c[i]
<1>1. Len(c) \in Nat /\ \A i \in 1 .. Len(c) : c[i] \in Entry
    BY LenProperties, ElementOfSeq DEF Chains
<1>2. \A i \in 1 .. h : c[i] \in Entry
    BY <1>1
<1>3. h \in Int /\ 1 \in Int
    BY <1>1
<1>4. /\ SubSeq(c, 1, h) \in Seq(Entry)
      /\ Len(SubSeq(c, 1, h)) = IF 1 <= h THEN h - 1 + 1 ELSE 0
      /\ \A i \in 1 .. h - 1 + 1 : SubSeq(c, 1, h)[i] = c[1 + i - 1]
    BY <1>2, <1>3, SubSeqProperties
<1> QED BY <1>1, <1>3, <1>4 DEF BlockAt, Chains

\* The ids of a chain are those of its entries.
LEMMA IdsFacts ==
    ASSUME NEW c \in Chains
    PROVE  /\ Len(c) \in Nat
           /\ \A i \in 1 .. Len(c) : c[i] \in Entry /\ c[i].id \in Proposal
           /\ Ids(c) \subseteq Proposal
           /\ \A p : p \in Ids(c) <=> \E i \in 1 .. Len(c) : c[i].id = p
<1>1. Len(c) \in Nat /\ DOMAIN c = 1 .. Len(c) /\ \A i \in 1 .. Len(c) : c[i] \in Entry
    BY LenProperties, ElementOfSeq DEF Chains
<1> QED BY <1>1 DEF Ids, Entry

\* A chain verifies exactly when no id occurs twice in it.
LEMMA WalkDistinct ==
    ASSUME NEW c \in Chains
    PROVE  WalkChain(c) <=> \A i, j \in 1 .. Len(c) : i < j => c[i].id # c[j].id
<1>1. /\ Len(c) \in Nat
      /\ \A i \in 1 .. Len(c) : c[i] \in Entry
    BY IdsFacts
<1>2. \A j \in 1 .. Len(c) : Cardinality(c[j].by) >= RuleM
    BY <1>1, RuleAssumption DEF Entry
<1>3. ASSUME NEW j \in 1 .. Len(c)
      PROVE  c[j].id \notin Ids(BlockAt(c, j - 1)) <=> \A i \in 1 .. j - 1 : c[i].id # c[j].id
    <2>1. j - 1 \in 0 .. Len(c)
        BY <1>1
    <2>2. /\ BlockAt(c, j - 1) \in Chains /\ Len(BlockAt(c, j - 1)) = j - 1
          /\ \A i \in 1 .. j - 1 : BlockAt(c, j - 1)[i] = c[i]
        BY <2>1, BlockAtFacts
    <2>3. c[j].id \in Ids(BlockAt(c, j - 1)) <=>
             \E i \in 1 .. j - 1 : BlockAt(c, j - 1)[i].id = c[j].id
        BY <2>2, IdsFacts
    <2> QED BY <2>2, <2>3
<1>4. WalkChain(c) <=> \A j \in 1 .. Len(c) : \A i \in 1 .. j - 1 : c[i].id # c[j].id
    BY <1>2, <1>3 DEF WalkChain, VerifyNext
<1> QED BY <1>1, <1>4

\* A chain is decided by its length and its entries.
LEMMA SameChain ==
    ASSUME NEW c \in Chains, NEW d \in Chains, Len(c) = Len(d),
           \A i \in 1 .. Len(c) : c[i] = d[i]
    PROVE  c = d
BY SeqEqual DEF Chains

-----------------------------------------------------------------------------
(***************************************************************************)
(* The invariant of one seat.  It adds to the properties of Chain that the *)
(* chain verifies (a displaced tip is not decided twice, so its card may   *)
(* return to the vote) and that the two buffers are finite (so the longest *)
(* run of buffered blocks exists).                                         *)
(***************************************************************************)

SeatOK(s) == s \in Seat /\ IsFiniteSet(s.buf) /\ IsFiniteSet(s.fork)

CardsInv(s) == \A p \in Proposal : s.card[p] \in {"applied", "shadow"} <=> p \in Ids(s.chain)

VotesInv(s) ==
    \A p \in Proposal : /\ s.pend[p].height <= Target(s)
                        /\ p \in Ids(s.chain) => s.pend[p] = NoSigs

OwnInv(s) == \A p \in s.own : s.card[p] \in {"open", "applied"}

SeatInv(s) == SeatOK(s) /\ WalkChain(s.chain) /\ CardsInv(s) /\ VotesInv(s) /\ OwnInv(s)

\* Two states of a seat with the same chain, cards and votes.
SameVotes(s, t) ==
    s.chain = t.chain /\ s.card = t.card /\ s.pend = t.pend /\ s.own = t.own

\* A seat stays good while its chain, cards, votes and own decisions stay.
LEMMA SameVotesInv ==
    ASSUME NEW s, SeatInv(s), NEW t, SeatOK(t), SameVotes(s, t)
    PROVE  SeatInv(t)
BY DEF SeatInv, SameVotes, CardsInv, VotesInv, OwnInv, Target

\* A seat is good when it has just adopted the genesis.
LEMMA InitSeatInv == SeatInv(InitSeat)
<1>1. <<>> \in Chains /\ Len(<<>>) = 0
    BY EmptySeq DEF Chains
<1>2. InitSeat \in Seat
    BY <1>1 DEF InitSeat, Seat, CardState, PendingApproval, NoSigs
<1>3. SeatOK(InitSeat)
    BY <1>2, FS_EmptySet DEF SeatOK, InitSeat
<1>4. \A p : p \notin Ids(<<>>)
    BY <1>1, IdsFacts
<1>5. WalkChain(<<>>)
    BY <1>1 DEF WalkChain
<1>6. CardsInv(InitSeat) /\ VotesInv(InitSeat) /\ OwnInv(InitSeat)
    BY <1>1, <1>4 DEF CardsInv, VotesInv, OwnInv, InitSeat, NoSigs, Target
<1> QED BY <1>3, <1>5, <1>6 DEF SeatInv, InitSeat

\* What settling the cards writes.
LEMMA SettleCardsFields ==
    ASSUME NEW t, SeatOK(t)
    PROVE  LET u == SettleCards(t)
           IN  /\ SeatOK(u)
               /\ u.chain = t.chain /\ u.own = t.own
               /\ \A p \in Proposal :
                    /\ u.card[p] = IF p \in Ids(t.chain) /\ t.card[p] = "none" THEN "shadow"
                                   ELSE IF p \in Ids(t.chain) /\ t.card[p] = "open" THEN "applied"
                                   ELSE t.card[p]
                    /\ u.pend[p] = IF p \in Ids(t.chain) /\ t.card[p] \in {"none", "open"}
                                   THEN NoSigs ELSE t.pend[p]
<1> DEFINE u == SettleCards(t)
           fresh == {p \in Ids(t.chain) : t.card[p] \in {"none", "open"}}
           card == [p \in Proposal |->
                        IF p \notin fresh THEN t.card[p]
                        ELSE IF t.card[p] = "open" THEN "applied" ELSE "shadow"]
           pend == [p \in Proposal |-> IF p \in fresh THEN NoSigs ELSE t.pend[p]]
<1>1. t \in Seat
    BY DEF SeatOK
<1>2. u = [t EXCEPT !.card = card, !.pend = pend]
    BY DEF SettleCards
<1>3. \A p : p \in fresh <=> p \in Ids(t.chain) /\ t.card[p] \in {"none", "open"}
    OBVIOUS
<1> HIDE DEF fresh, u
<1>4. card \in [Proposal -> CardState] /\ pend \in [Proposal -> PendingApproval]
    BY <1>1 DEF Seat, CardState, PendingApproval, NoSigs
<1>5. \A p \in Proposal :
        /\ card[p] = IF p \notin fresh THEN t.card[p]
                     ELSE IF t.card[p] = "open" THEN "applied" ELSE "shadow"
        /\ pend[p] = IF p \in fresh THEN NoSigs ELSE t.pend[p]
    OBVIOUS
<1> HIDE DEF card, pend
<1>6. u \in Seat
    BY <1>1, <1>2, <1>4 DEF Seat
<1>7. /\ u.chain = t.chain /\ u.own = t.own /\ u.buf = t.buf /\ u.fork = t.fork
      /\ u.card = card /\ u.pend = pend
    BY <1>1, <1>2 DEF Seat
<1>8. SeatOK(u)
    BY <1>6, <1>7 DEF SeatOK
<1>9. \A p \in Proposal :
        /\ u.card[p] = IF p \in Ids(t.chain) /\ t.card[p] = "none" THEN "shadow"
                       ELSE IF p \in Ids(t.chain) /\ t.card[p] = "open" THEN "applied"
                       ELSE t.card[p]
        /\ u.pend[p] = IF p \in Ids(t.chain) /\ t.card[p] \in {"none", "open"}
                       THEN NoSigs ELSE t.pend[p]
    BY <1>3, <1>5, <1>7
<1> QED BY <1>7, <1>8, <1>9 DEF u

\* Settling the cards against a chain that keeps every decision.
LEMMA SettleCardsInv ==
    ASSUME NEW s, SeatInv(s), NEW t, SeatOK(t), WalkChain(t.chain),
           t.card = s.card, t.pend = s.pend, t.own = s.own,
           Ids(s.chain) \subseteq Ids(t.chain), Len(s.chain) <= Len(t.chain)
    PROVE  SeatInv(SettleCards(t)) /\ SettleCards(t).chain = t.chain
<1> DEFINE u == SettleCards(t)
<1>1. s \in Seat /\ t \in Seat /\ s.chain \in Chains /\ t.chain \in Chains
    BY DEF SeatInv, SeatOK, Seat
<1>2. Len(s.chain) \in Nat /\ Len(t.chain) \in Nat
    BY <1>1, IdsFacts
<1>3. \A p \in Proposal : t.card[p] \in CardState /\ s.pend[p] \in PendingApproval
    BY <1>1 DEF Seat
<1> HIDE DEF u
<1>4. /\ SeatOK(u) /\ u.chain = t.chain /\ u.own = t.own
      /\ \A p \in Proposal :
            /\ u.card[p] = IF p \in Ids(t.chain) /\ t.card[p] = "none" THEN "shadow"
                           ELSE IF p \in Ids(t.chain) /\ t.card[p] = "open" THEN "applied"
                           ELSE t.card[p]
            /\ u.pend[p] = IF p \in Ids(t.chain) /\ t.card[p] \in {"none", "open"}
                           THEN NoSigs ELSE t.pend[p]
    BY SettleCardsFields DEF u
<1>5. CardsInv(u)
    BY <1>3, <1>4 DEF CardsInv, SeatInv, CardState
<1>6. VotesInv(u)
    <2>1. SUFFICES ASSUME NEW p \in Proposal
                   PROVE  /\ u.pend[p].height <= Target(u)
                          /\ p \in Ids(u.chain) => u.pend[p] = NoSigs
        BY DEF VotesInv
    <2>2. s.pend[p].height \in Nat /\ s.pend[p].height <= Len(s.chain) + 1
        BY <1>3 DEF SeatInv, VotesInv, Target, PendingApproval
    <2>3. u.pend[p].height <= Target(u)
        BY <1>2, <1>4, <2>2 DEF Target, NoSigs
    <2>4. ASSUME p \in Ids(t.chain), t.card[p] \notin {"none", "open"} PROVE t.pend[p] = NoSigs
        BY <1>3, <2>4 DEF SeatInv, CardsInv, VotesInv, CardState
    <2> QED BY <1>4, <2>3, <2>4
<1>7. OwnInv(u)
    BY <1>1, <1>4 DEF OwnInv, SeatInv, Seat
<1> QED BY <1>4, <1>5, <1>6, <1>7 DEF SeatInv, u

\* Signing open proposals at the next height.
LEMMA ResignAllInv ==
    ASSUME NEW s, SeatInv(s), NEW n \in Member, NEW P \in SUBSET Proposal,
           \A p \in P : s.card[p] = "open"
    PROVE  SeatInv(ResignAll(s, n, P)) /\ ResignAll(s, n, P).chain = s.chain
<1> DEFINE t == [s EXCEPT !.pend = [p \in Proposal |->
                                    IF p \in P THEN [height |-> Target(s), sigs |-> {n}]
                                               ELSE s.pend[p]]]
           u == [t EXCEPT !.held = t.held \cup {p \in P : Sealable(t, p)}]
<1>1. s \in Seat /\ s.chain \in Chains
    BY DEF SeatInv, SeatOK, Seat
<1>2. Target(s) \in Nat
    BY <1>1, IdsFacts DEF Target
<1>3. t \in Seat
    BY <1>1, <1>2 DEF Seat, PendingApproval
<1>4. u \in Seat
    BY <1>3 DEF Seat
<1>5. /\ u.chain = s.chain /\ u.own = s.own /\ u.buf = s.buf /\ u.fork = s.fork /\ u.card = s.card
      /\ \A p \in Proposal : u.pend[p] = IF p \in P THEN [height |-> Target(s), sigs |-> {n}]
                                                    ELSE s.pend[p]
    BY <1>1, <1>3 DEF Seat
<1>6. SeatOK(u) /\ WalkChain(u.chain) /\ CardsInv(u) /\ OwnInv(u)
    BY <1>4, <1>5 DEF SeatInv, SeatOK, CardsInv, OwnInv
<1>7. \A p \in P : p \notin Ids(s.chain)
    BY DEF SeatInv, CardsInv
<1>8. VotesInv(u)
    BY <1>2, <1>5, <1>7 DEF SeatInv, VotesInv, Target
<1> HIDE DEF t
<1>9. u = ResignAll(s, n, P)
    BY DEF ResignAll, t
<1> QED BY <1>5, <1>6, <1>8, <1>9 DEF SeatInv

\* rebase_pending_approvals: the swept and re-signed votes are good again.
LEMMA RebaseInv ==
    ASSUME NEW s, SeatInv(s), NEW n \in Member
    PROVE  /\ SeatInv(RebasePendingApprovals(s, n))
           /\ RebasePendingApprovals(s, n).chain = s.chain
<1> DEFINE stale == {p \in Proposal : s.pend[p].sigs # {} /\ s.pend[p].height < Target(s)}
           swept == [s EXCEPT !.pend = [p \in Proposal |->
                                          IF p \in stale THEN NoSigs ELSE s.pend[p]]]
<1>1. s \in Seat /\ s.chain \in Chains
    BY DEF SeatInv, SeatOK, Seat
<1>2. Target(s) \in Nat
    BY <1>1, IdsFacts DEF Target
<1>3. swept \in Seat
    BY <1>1 DEF Seat, PendingApproval, NoSigs
<1>4. /\ swept.chain = s.chain /\ swept.own = s.own /\ swept.buf = s.buf
      /\ swept.fork = s.fork /\ swept.card = s.card
      /\ \A p \in Proposal : swept.pend[p] = IF p \in stale THEN NoSigs ELSE s.pend[p]
    BY <1>1 DEF Seat
<1>5. SeatOK(swept) /\ WalkChain(swept.chain) /\ CardsInv(swept) /\ OwnInv(swept)
    BY <1>3, <1>4 DEF SeatInv, SeatOK, CardsInv, OwnInv
<1>6. VotesInv(swept)
    BY <1>2, <1>4 DEF SeatInv, VotesInv, Target, NoSigs
<1>7. SeatInv(swept)
    BY <1>5, <1>6 DEF SeatInv
<1>8. \A p \in stale \cap StandingOpen(s) : swept.card[p] = "open"
    BY <1>4 DEF StandingOpen
<1> HIDE DEF swept
<1>9. SeatInv(ResignAll(swept, n, stale \cap StandingOpen(s)))
      /\ ResignAll(swept, n, stale \cap StandingOpen(s)).chain = swept.chain
    BY <1>7, <1>8, ResignAllInv
<1>10. RebasePendingApprovals(s, n) = ResignAll(swept, n, stale \cap StandingOpen(s))
    BY DEF RebasePendingApprovals, swept
<1> QED BY <1>4, <1>9, <1>10

\* A chain that grows.
LEMMA ExtendInv ==
    ASSUME NEW s, SeatInv(s), NEW n \in Member, NEW c \in Chains, WalkChain(c),
           Ids(s.chain) \subseteq Ids(c), Len(s.chain) <= Len(c)
    PROVE  SeatInv(Extend(s, n, c)) /\ Extend(s, n, c).chain = c
<1> DEFINE t == [s EXCEPT !.chain = c, !.seen = Ids(c), !.paced = FALSE]
<1>1. s \in Seat
    BY DEF SeatInv, SeatOK
<1>2. t \in Seat
    BY <1>1, IdsFacts DEF Seat
<1>3. /\ t.chain = c /\ t.card = s.card /\ t.pend = s.pend /\ t.own = s.own
      /\ t.buf = s.buf /\ t.fork = s.fork
    BY <1>1 DEF Seat
<1>4. SeatOK(t)
    BY <1>2, <1>3 DEF SeatInv, SeatOK
<1> HIDE DEF t
<1>5. SeatInv(SettleCards(t)) /\ SettleCards(t).chain = c
    BY <1>3, <1>4, SettleCardsInv
<1> QED BY <1>5, RebaseInv DEF Extend, t

-----------------------------------------------------------------------------
(***************************************************************************)
(* Votes.                                                                  *)
(***************************************************************************)

\* Collecting a signature for a height up to the next block.
LEMMA CollectSigInv ==
    ASSUME NEW s, SeatInv(s), NEW p \in Proposal, NEW m \in Member, NEW h \in Nat, h <= Target(s)
    PROVE  LET t == CollectSig(s, p, h, m)
           IN  SeatInv(t) /\ t.chain = s.chain /\ t.card = s.card /\ t.own = s.own
<1> DEFINE e == s.pend[p]
           new == [height |-> h, sigs |-> IF h > e.height THEN {m} ELSE e.sigs \cup {m}]
           t == [s EXCEPT !.pend[p] = new]
<1>1. CASE s.card[p] \in {"applied", "shadow"} \/ h < e.height
    BY <1>1 DEF CollectSig
<1>2. CASE ~ (s.card[p] \in {"applied", "shadow"} \/ h < e.height)
    <2>1. s \in Seat
        BY DEF SeatInv, SeatOK
    <2>2. new \in PendingApproval
        BY <2>1 DEF Seat, PendingApproval
    <2>3. t \in Seat
        BY <2>1, <2>2 DEF Seat
    <2>4. /\ t.chain = s.chain /\ t.card = s.card /\ t.own = s.own /\ t.buf = s.buf /\ t.fork = s.fork
          /\ \A q \in Proposal : t.pend[q] = IF q = p THEN new ELSE s.pend[q]
        BY <2>1 DEF Seat
    <2>5. p \notin Ids(s.chain)
        BY <1>2 DEF SeatInv, CardsInv
    <2>6. new.height = h
        OBVIOUS
    <2> HIDE DEF t, new
    <2>7. SeatOK(t) /\ WalkChain(t.chain) /\ CardsInv(t) /\ OwnInv(t)
        BY <2>3, <2>4 DEF SeatInv, SeatOK, CardsInv, OwnInv
    <2>8. VotesInv(t)
        BY <2>4, <2>5, <2>6 DEF SeatInv, VotesInv, Target
    <2>9. CollectSig(s, p, h, m) = t
        BY <1>2 DEF CollectSig, t, new
    <2> QED BY <2>4, <2>7, <2>8, <2>9 DEF SeatInv
<1> QED BY <1>1, <1>2

\* A seal extends the chain by a block of exactly m of the signers.
LEMMA SealedBlockFacts ==
    ASSUME NEW s, SeatInv(s), NEW p \in Proposal, Sealable(s, p)
    PROVE  LET c == SealedBlock(s, p)
           IN  /\ c \in Block /\ WalkChain(c)
               /\ Ids(s.chain) \subseteq Ids(c) /\ Len(s.chain) <= Len(c)
<1> DEFINE e == [id |-> p, by |-> LowestNamed(s.pend[p].sigs)]
           c == Append(s.chain, e)
<1>1. s \in Seat /\ s.chain \in Chains
    BY DEF SeatInv, SeatOK, Seat
<1>2. s.pend[p].sigs \in SUBSET Member /\ Cardinality(s.pend[p].sigs) >= RuleM
    BY <1>1 DEF Seat, PendingApproval, Sealable
<1>3. e \in Entry
    BY <1>2, LowestNamedType DEF Entry
<1>4. e.id = p
    OBVIOUS
<1> HIDE DEF e
<1>5. /\ c \in Chains /\ Len(c) = Len(s.chain) + 1 /\ Len(s.chain) \in Nat
      /\ \A i \in 1 .. Len(s.chain) : c[i] = s.chain[i]
      /\ c[Len(s.chain) + 1] = e
    BY <1>1, <1>3, AppendProperties, IdsFacts DEF Chains
<1> HIDE DEF c
<1>6. p \notin Ids(s.chain)
    BY DEF Sealable, SeatInv, CardsInv
<1>7. \A i \in 1 .. Len(s.chain) : s.chain[i].id # p
    BY <1>1, <1>6, IdsFacts
<1>8. \A i, j \in 1 .. Len(s.chain) : i < j => s.chain[i].id # s.chain[j].id
    BY <1>1, WalkDistinct DEF SeatInv
<1>9. \A i, j \in 1 .. Len(c) : i < j => c[i].id # c[j].id
    BY <1>4, <1>5, <1>7, <1>8
<1>10. WalkChain(c)
    BY <1>5, <1>9, WalkDistinct
<1>11. Ids(s.chain) \subseteq Ids(c)
    <2>1. \A q \in Ids(s.chain) : \E i \in 1 .. Len(c) : c[i].id = q
        BY <1>1, <1>5, IdsFacts
    <2> QED BY <1>5, <2>1, IdsFacts
<1>12. c # <<>>
    BY <1>5, EmptySeq
<1>13. SealedBlock(s, p) = c
    BY DEF SealedBlock, c, e
<1> QED BY <1>5, <1>10, <1>11, <1>12, <1>13 DEF Block

\* try_commit: sealing, holding or doing nothing keeps the seat good, and what
\* it seals is a block.
LEMMA TryCommitInv ==
    ASSUME NEW s, SeatInv(s), NEW n \in Member, NEW p \in Proposal
    PROVE  LET t == TryCommit(s, n, p)
           IN  SeatInv(t) /\ (t.chain # s.chain => t.chain \in Block)
<1> DEFINE hold == [s EXCEPT !.held = @ \cup {p}]
           free == [s EXCEPT !.held = @ \ {p}]
           c == SealedBlock(s, p)
<1>1. s \in Seat
    BY DEF SeatInv, SeatOK
<1>2. /\ hold \in Seat /\ SameVotes(s, hold) /\ hold.buf = s.buf /\ hold.fork = s.fork
      /\ free \in Seat /\ SameVotes(s, free) /\ free.buf = s.buf /\ free.fork = s.fork
    BY <1>1 DEF Seat, SameVotes
<1> HIDE DEF hold, free, c
<1>3. SeatInv(hold) /\ SeatInv(free)
    BY <1>2, SameVotesInv DEF SeatInv, SeatOK
<1>4. CASE ~ Sealable(s, p)
    BY <1>4 DEF TryCommit
<1>5. CASE Sealable(s, p) /\ ~ s.paced
    BY <1>2, <1>3, <1>5 DEF TryCommit, hold, SameVotes
<1>6. CASE Sealable(s, p) /\ s.paced
    <2>1. /\ c \in Block /\ WalkChain(c)
          /\ Ids(s.chain) \subseteq Ids(c) /\ Len(s.chain) <= Len(c)
        BY <1>6, SealedBlockFacts DEF c
    <2>2. c \in Chains /\ free.chain = s.chain
        BY <1>2, <2>1 DEF Block, SameVotes
    <2>3. SeatInv(Extend(free, n, c)) /\ Extend(free, n, c).chain = c
        BY <1>3, <2>1, <2>2, ExtendInv
    <2>4. TryCommit(s, n, p) = Extend(free, n, c)
        BY <1>6 DEF TryCommit, free, c
    <2> QED BY <2>1, <2>3, <2>4
<1> QED BY <1>4, <1>5, <1>6

\* Signing an open proposal.
LEMMA SignApprovalInv ==
    ASSUME NEW s, SeatInv(s), NEW n \in Member, NEW p \in Proposal, s.card[p] = "open"
    PROVE  SeatInv(SignApproval(s, n, p)) /\ SignApproval(s, n, p).chain = s.chain
<1> DEFINE t == [s EXCEPT !.own = @ \cup {p}]
<1>1. s \in Seat /\ s.chain \in Chains
    BY DEF SeatInv, SeatOK, Seat
<1>2. /\ t \in Seat /\ t.chain = s.chain /\ t.card = s.card /\ t.pend = s.pend
      /\ t.own = s.own \cup {p} /\ t.buf = s.buf /\ t.fork = s.fork
    BY <1>1 DEF Seat
<1> HIDE DEF t
<1>3. SeatInv(t)
    BY <1>2 DEF SeatInv, SeatOK, CardsInv, VotesInv, OwnInv, Target
<1>4. Target(s) \in Nat /\ Target(s) <= Target(t)
    BY <1>1, <1>2, IdsFacts DEF Target
<1> QED BY <1>2, <1>3, <1>4, CollectSigInv DEF SignApproval, t

-----------------------------------------------------------------------------
(***************************************************************************)
(* Blocks that extend the chain.                                           *)
(***************************************************************************)

\* A chain that begins with b holds b's ids.
LEMMA PrefixIds ==
    ASSUME NEW b \in Chains, NEW c \in Chains, Len(b) <= Len(c),
           \A i \in 1 .. Len(b) : c[i] = b[i]
    PROVE  Ids(b) \subseteq Ids(c)
<1>1. \A q \in Ids(b) : \E i \in 1 .. Len(c) : c[i].id = q
    BY IdsFacts
<1> QED BY <1>1, IdsFacts

\* The drain of a buffer returns a verified chain that begins with c.
LEMMA RunFromFacts ==
    ASSUME NEW c \in Chains, WalkChain(c), NEW S \in SUBSET Block, IsFiniteSet(S)
    PROVE  LET d == RunFrom(c, S)
           IN  /\ d \in Chains /\ WalkChain(d) /\ Len(c) <= Len(d)
               /\ \A i \in 1 .. Len(c) : d[i] = c[i]
<1> DEFINE run == {d \in S : /\ Len(d) > Len(c)
                             /\ BlockAt(d, Len(c)) = c
                             /\ \A h \in Len(c) + 1 .. Len(d) :
                                   /\ BlockAt(d, h) \in S
                                   /\ VerifyNext(BlockAt(d, h - 1), d[h])}
           longest == CHOOSE d \in run : \A o \in run : Len(o) <= Len(d)
<1>1. Len(c) \in Nat
    BY IdsFacts
<1>2. CASE run = {}
    BY <1>1, <1>2 DEF RunFrom
<1>3. CASE run # {}
    <2>1. run \in SUBSET Block /\ IsFiniteSet(run)
        BY FS_Subset
    <2>2. longest \in run
        <3> HIDE DEF run
        <3> QED BY <1>3, <2>1, LongestBlock
    <2>3. RunFrom(c, S) = longest
        BY <1>3 DEF RunFrom
    <2> HIDE DEF longest
    <2> DEFINE d == longest
    <2>4. /\ d \in Chains /\ Len(d) \in Nat /\ Len(d) > Len(c) /\ BlockAt(d, Len(c)) = c
          /\ \A h \in Len(c) + 1 .. Len(d) : VerifyNext(BlockAt(d, h - 1), d[h])
        BY <2>2, IdsFacts DEF Block
    <2> HIDE DEF run
    <2>5. \A i \in 1 .. Len(c) : d[i] = c[i]
        BY <1>1, <2>4, BlockAtFacts
    <2>6. ASSUME NEW h \in 1 .. Len(c) PROVE VerifyNext(BlockAt(d, h - 1), d[h])
        <3>1. h - 1 \in 0 .. Len(c) /\ h - 1 \in 0 .. Len(d)
            BY <1>1, <2>4
        <3>2. /\ BlockAt(d, h - 1) \in Chains /\ Len(BlockAt(d, h - 1)) = h - 1
              /\ \A i \in 1 .. h - 1 : BlockAt(d, h - 1)[i] = d[i]
            BY <2>4, <3>1, BlockAtFacts
        <3>3. /\ BlockAt(c, h - 1) \in Chains /\ Len(BlockAt(c, h - 1)) = h - 1
              /\ \A i \in 1 .. h - 1 : BlockAt(c, h - 1)[i] = c[i]
            BY <3>1, BlockAtFacts
        <3>4. BlockAt(d, h - 1) = BlockAt(c, h - 1)
            BY <1>1, <2>5, <3>2, <3>3, SameChain
        <3> QED BY <2>5, <3>4 DEF WalkChain
    <2>7. WalkChain(d)
        BY <1>1, <2>4, <2>6 DEF WalkChain
    <2> QED BY <1>1, <2>3, <2>4, <2>5, <2>7
<1> QED BY <1>2, <1>3

\* A predecessor and its block.
LEMMA PrevFacts ==
    ASSUME NEW b \in Block
    PROVE  /\ b \in Chains /\ Len(b) \in Nat \ {0} /\ b[Len(b)] \in Entry
           /\ Prev(b) \in Chains /\ Len(Prev(b)) = Len(b) - 1
           /\ \A i \in 1 .. Len(b) - 1 : Prev(b)[i] = b[i]
<1>1. b \in Chains /\ Len(b) \in Nat
    BY IdsFacts DEF Block
<1>2. Len(b) # 0
    BY EmptySeq DEF Block, Chains
<1>3. Len(b) - 1 \in 0 .. Len(b) /\ Len(b) \in 1 .. Len(b)
    BY <1>1, <1>2
<1>4. Prev(b) = BlockAt(b, Len(b) - 1)
    BY DEF Prev, BlockAt
<1> QED BY <1>1, <1>2, <1>3, <1>4, BlockAtFacts, IdsFacts

\* apply_next_block with the drain of the buffer behind it.
LEMMA ApplyNextBlockInv ==
    ASSUME NEW s, SeatInv(s), NEW n \in Member, NEW b \in Block, Prev(b) = s.chain
    PROVE  SeatInv(ApplyNextBlock(s, n, b))
<1> DEFINE c == RunFrom(b, s.buf)
           t == Extend(s, n, c)
           u == [t EXCEPT !.buf = {d \in s.buf : Len(d) > Len(c) + 1}]
<1>1. s \in Seat /\ s.chain \in Chains /\ s.buf \in SUBSET Block /\ IsFiniteSet(s.buf)
    BY DEF SeatInv, SeatOK, Seat
<1>2. CASE ~ VerifyNext(s.chain, b[Len(b)])
    BY <1>2 DEF ApplyNextBlock
<1>3. CASE VerifyNext(s.chain, b[Len(b)])
    <2>1. /\ b \in Chains /\ Len(b) \in Nat \ {0} /\ Len(s.chain) = Len(b) - 1
          /\ \A i \in 1 .. Len(b) - 1 : s.chain[i] = b[i]
        BY PrevFacts
    <2>2. \A i \in 1 .. Len(b) - 1 : s.chain[i].id # b[Len(b)].id
        BY <1>1, <1>3, <2>1, IdsFacts DEF VerifyNext
    <2>3. \A i, j \in 1 .. Len(s.chain) : i < j => s.chain[i].id # s.chain[j].id
        BY <1>1, WalkDistinct DEF SeatInv
    <2>4. \A i, j \in 1 .. Len(b) : i < j => b[i].id # b[j].id
        BY <2>1, <2>2, <2>3
    <2>5. WalkChain(b)
        BY <2>1, <2>4, WalkDistinct
    <2>6. /\ c \in Chains /\ WalkChain(c) /\ Len(b) <= Len(c) /\ Len(c) \in Nat
          /\ \A i \in 1 .. Len(b) : c[i] = b[i]
        BY <1>1, <2>1, <2>5, RunFromFacts, IdsFacts
    <2> HIDE DEF c
    <2>7. Len(s.chain) <= Len(c) /\ \A i \in 1 .. Len(s.chain) : c[i] = s.chain[i]
        BY <2>1, <2>6
    <2>8. Ids(s.chain) \subseteq Ids(c)
        BY <1>1, <2>6, <2>7, PrefixIds
    <2>9. SeatInv(t)
        BY <2>6, <2>7, <2>8, ExtendInv
    <2> HIDE DEF t
    <2>10. t \in Seat
        BY <2>9 DEF SeatInv, SeatOK
    <2> DEFINE B == {d \in s.buf : Len(d) > Len(c) + 1}
    <2>11. B \in SUBSET Block /\ IsFiniteSet(B)
        BY <1>1, FS_Subset
    <2> HIDE DEF B
    <2>12. [t EXCEPT !.buf = B] \in Seat /\ SameVotes(t, [t EXCEPT !.buf = B])
           /\ [t EXCEPT !.buf = B].buf = B /\ [t EXCEPT !.buf = B].fork = t.fork
        BY <2>10, <2>11 DEF Seat, SameVotes
    <2>13. SeatInv([t EXCEPT !.buf = B])
        BY <2>9, <2>11, <2>12, SameVotesInv DEF SeatInv, SeatOK
    <2>14. ApplyNextBlock(s, n, b) = [t EXCEPT !.buf = B]
        BY <1>3 DEF ApplyNextBlock, t, c, B
    <2> QED BY <2>13, <2>14
<1> QED BY <1>2, <1>3

-----------------------------------------------------------------------------
(***************************************************************************)
(* Forks.                                                                  *)
(***************************************************************************)

\* What returning dropped decisions to the vote writes.
LEMMA ReturnToVoteFields ==
    ASSUME NEW s, SeatOK(s), NEW P
    PROVE  LET t == ReturnToVote(s, P)
           IN  /\ SeatOK(t)
               /\ t.chain = s.chain /\ t.own = s.own /\ t.pend = s.pend
               /\ \A p \in Proposal : t.card[p] = IF p \notin P THEN s.card[p]
                                                  ELSE IF s.card[p] = "shadow" THEN "none" ELSE "open"
<1> DEFINE card == [p \in Proposal |-> IF p \notin P THEN s.card[p]
                                       ELSE IF s.card[p] = "shadow" THEN "none" ELSE "open"]
           t == [s EXCEPT !.card = card]
<1>1. s \in Seat
    BY DEF SeatOK
<1>2. card \in [Proposal -> CardState]
    BY <1>1 DEF Seat, CardState
<1>3. \A p \in Proposal : card[p] = IF p \notin P THEN s.card[p]
                                    ELSE IF s.card[p] = "shadow" THEN "none" ELSE "open"
    OBVIOUS
<1>4. ReturnToVote(s, P) = t
    BY DEF ReturnToVote
<1> HIDE DEF card
<1>5. /\ t \in Seat /\ t.card = card /\ t.chain = s.chain /\ t.own = s.own /\ t.pend = s.pend
      /\ t.buf = s.buf /\ t.fork = s.fork
    BY <1>1, <1>2 DEF Seat
<1> QED BY <1>3, <1>4, <1>5 DEF SeatOK

\* Dropping every fork candidate.
LEMMA DropForkInv ==
    ASSUME NEW s, SeatInv(s)
    PROVE  SeatInv([s EXCEPT !.fork = {}])
<1> DEFINE t == [s EXCEPT !.fork = {}]
<1>1. t \in Seat /\ SameVotes(s, t) /\ t.fork = {} /\ t.buf = s.buf
    BY DEF SeatInv, SeatOK, Seat, SameVotes
<1> HIDE DEF t
<1>2. SeatOK(t)
    BY <1>1, FS_EmptySet DEF SeatInv, SeatOK
<1> QED BY <1>1, <1>2, SameVotesInv DEF t

\* The chain that relink_onto_variant verifies: c's blocks, then our own at
\* their old heights.
Linked(s, c) == c \o SubSeq(s.chain, Len(c) + 1, Len(s.chain))

\* Every entry of a re-linked chain is an entry of c or of ours at its height.
LEMMA LinkedFacts ==
    ASSUME NEW s, s.chain \in Chains, NEW c \in Chains
    PROVE  /\ Linked(s, c) \in Chains /\ Len(Linked(s, c)) \in Nat
           /\ Len(s.chain) <= Len(Linked(s, c)) /\ Len(c) <= Len(Linked(s, c))
           /\ \A i \in 1 .. Len(c) : Linked(s, c)[i] = c[i]
           /\ \A i \in Len(c) + 1 .. Len(Linked(s, c)) :
                i <= Len(s.chain) /\ Linked(s, c)[i] = s.chain[i]
<1> DEFINE above == SubSeq(s.chain, Len(c) + 1, Len(s.chain))
           linked == c \o above
<1>2. /\ Len(c) \in Nat /\ Len(s.chain) \in Nat
      /\ \A i \in 1 .. Len(s.chain) : s.chain[i] \in Entry
    BY IdsFacts
<1>3. /\ above \in Seq(Entry)
      /\ Len(above) = IF Len(c) + 1 <= Len(s.chain) THEN Len(s.chain) - (Len(c) + 1) + 1 ELSE 0
      /\ \A i \in 1 .. Len(s.chain) - (Len(c) + 1) + 1 : above[i] = s.chain[Len(c) + 1 + i - 1]
    <2>1. \A i \in Len(c) + 1 .. Len(s.chain) : s.chain[i] \in Entry
        BY <1>2
    <2>2. Len(c) + 1 \in Int /\ Len(s.chain) \in Int
        BY <1>2
    <2> QED BY <2>1, <2>2, SubSeqProperties
<1> HIDE DEF above
<1>4. /\ linked \in Seq(Entry) /\ Len(linked) = Len(c) + Len(above)
      /\ \A i \in 1 .. Len(c) : linked[i] = c[i]
      /\ \A i \in Len(c) + 1 .. Len(linked) : linked[i] = above[i - Len(c)]
    <2>1. c \in Seq(Entry) /\ above \in Seq(Entry)
        BY <1>3 DEF Chains
    <2> QED BY <2>1, ConcatProperties
<1> HIDE DEF linked
<1>5. /\ linked \in Chains /\ Len(linked) \in Nat /\ Len(s.chain) <= Len(linked)
      /\ Len(c) <= Len(linked)
    BY <1>2, <1>3, <1>4, IdsFacts DEF Chains
<1>6. ASSUME NEW i \in Len(c) + 1 .. Len(linked)
      PROVE  i <= Len(s.chain) /\ linked[i] = s.chain[i]
    BY <1>2, <1>3, <1>4
<1> QED BY <1>4, <1>5, <1>6 DEF Linked, linked, above

\* A variant of our history, our own blocks re-linked above it.
LEMMA RelinkInv ==
    ASSUME NEW s, SeatInv(s), NEW n \in Member, NEW c \in Chains,
           \A h \in 1 .. Len(c) : h <= Len(s.chain) => c[h].id = s.chain[h].id
    PROVE  SeatInv(RelinkOntoVariant(s, n, c))
<1> DEFINE linked == Linked(s, c)
           t == [s EXCEPT !.chain = linked, !.seen = Ids(linked), !.paced = FALSE, !.fork = {}]
<1>1. s \in Seat /\ s.chain \in Chains
    BY DEF SeatInv, SeatOK, Seat
<1>2. Len(c) \in Nat /\ Len(s.chain) \in Nat
    BY <1>1, IdsFacts
<1>5. /\ linked \in Chains /\ Len(linked) \in Nat /\ Len(s.chain) <= Len(linked)
      /\ \A i \in 1 .. Len(c) : linked[i] = c[i]
      /\ \A i \in Len(c) + 1 .. Len(linked) : linked[i] = s.chain[i]
    BY <1>1, LinkedFacts
<1> HIDE DEF linked
<1>6. \A i \in 1 .. Len(s.chain) : linked[i].id = s.chain[i].id
    BY <1>2, <1>5
<1>7. Ids(s.chain) \subseteq Ids(linked)
    <2>1. \A q \in Ids(s.chain) : \E i \in 1 .. Len(linked) : linked[i].id = q
        BY <1>1, <1>2, <1>5, <1>6, IdsFacts
    <2> QED BY <1>5, <2>1, IdsFacts
<1>8. t \in Seat
    BY <1>1, <1>5, IdsFacts DEF Seat
<1>9. /\ t.chain = linked /\ t.card = s.card /\ t.pend = s.pend /\ t.own = s.own
      /\ t.buf = s.buf /\ t.fork = {}
    BY <1>1 DEF Seat
<1>10. SeatOK(t)
    BY <1>8, <1>9, FS_EmptySet DEF SeatInv, SeatOK
<1> HIDE DEF t
<1>11. ASSUME WalkChain(linked) PROVE SeatInv(SettleCards(t))
    BY <1>5, <1>7, <1>9, <1>10, <1>11, SettleCardsInv
<1>12. RelinkOntoVariant(s, n, c) =
          IF ~ WalkChain(linked) THEN [s EXCEPT !.fork = {}]
          ELSE IF Len(linked) > Len(s.chain) THEN RebasePendingApprovals(SettleCards(t), n)
          ELSE SettleCards(t)
    BY DEF RelinkOntoVariant, t, linked, Linked
<1> QED BY <1>11, <1>12, DropForkInv, RebaseInv

\* Another branch, shorter or longer: the decisions it lacks are votes again.
LEMMA RebranchInv ==
    ASSUME NEW s, SeatInv(s), NEW n \in Member, NEW c \in Chains
    PROVE  SeatInv(Rebranch(s, n, c))
<1> DEFINE t == [s EXCEPT !.chain = c, !.seen = Ids(c), !.paced = FALSE, !.fork = {}]
           adopted == SettleCards(t)
           voting == ReturnToVote(adopted, Ids(s.chain) \ Ids(c))
           cleared == [voting EXCEPT !.pend = [p \in Proposal |-> NoSigs]]
<1>1. s \in Seat /\ s.chain \in Chains
    BY DEF SeatInv, SeatOK, Seat
<1>2. t \in Seat
    BY <1>1, IdsFacts DEF Seat
<1>3. /\ t.chain = c /\ t.card = s.card /\ t.pend = s.pend /\ t.own = s.own
      /\ t.buf = s.buf /\ t.fork = {}
    BY <1>1 DEF Seat
<1>4. SeatOK(t)
    BY <1>2, <1>3, FS_EmptySet DEF SeatInv, SeatOK
<1> HIDE DEF t
<1>5. /\ SeatOK(adopted) /\ adopted.chain = c /\ adopted.own = s.own
      /\ \A p \in Proposal :
            adopted.card[p] = IF p \in Ids(c) /\ s.card[p] = "none" THEN "shadow"
                              ELSE IF p \in Ids(c) /\ s.card[p] = "open" THEN "applied"
                              ELSE s.card[p]
    BY <1>3, <1>4, SettleCardsFields
<1> HIDE DEF adopted
<1>6. /\ SeatOK(voting) /\ voting.chain = c /\ voting.own = s.own
      /\ \A p \in Proposal :
            voting.card[p] = IF p \notin Ids(s.chain) \ Ids(c) THEN adopted.card[p]
                             ELSE IF adopted.card[p] = "shadow" THEN "none" ELSE "open"
    BY <1>5, ReturnToVoteFields
<1> HIDE DEF voting
<1>7. /\ cleared \in Seat /\ cleared.chain = c /\ cleared.own = s.own /\ cleared.card = voting.card
      /\ cleared.buf = voting.buf /\ cleared.fork = voting.fork
      /\ \A p \in Proposal : cleared.pend[p] = NoSigs
    BY <1>6 DEF SeatOK, Seat, PendingApproval, NoSigs
<1> HIDE DEF cleared
<1>8. \A p \in Proposal : s.card[p] \in CardState
    BY <1>1 DEF Seat
<1>9. CardsInv(cleared)
    BY <1>5, <1>6, <1>7, <1>8 DEF SeatInv, CardsInv, CardState
<1>10. OwnInv(cleared)
    BY <1>1, <1>5, <1>6, <1>7, <1>8 DEF SeatInv, OwnInv, CardState, Seat
<1>11. Len(c) \in Nat
    BY IdsFacts
<1>12. VotesInv(cleared)
    BY <1>7, <1>11 DEF VotesInv, NoSigs, Target
<1>13. SeatOK(cleared)
    BY <1>6, <1>7 DEF SeatOK
<1>14. ASSUME WalkChain(c) PROVE SeatInv(cleared)
    BY <1>7, <1>9, <1>10, <1>12, <1>13, <1>14 DEF SeatInv
<1>15. /\ StandingOpen(cleared) \in SUBSET Proposal
       /\ \A p \in StandingOpen(cleared) : cleared.card[p] = "open"
    BY <1>7 DEF StandingOpen, Seat
<1>16. Rebranch(s, n, c) = IF ~ WalkChain(c) THEN [s EXCEPT !.fork = {}]
                           ELSE ResignAll(cleared, n, StandingOpen(cleared))
    BY DEF Rebranch, t, adopted, voting, cleared
<1> QED BY <1>14, <1>15, <1>16, DropForkInv, ResignAllInv

\* What try_reorg looks at: the candidates that link into our chain, the lowest
\* of them, the candidates above it, the longest branch.
ForkLinks(s) == {c \in s.fork : /\ Len(c) <= Target(s)
                                /\ Prev(c) = BlockAt(s.chain, Len(c) - 1)}
ForkFirst(s) == CHOOSE c \in ForkLinks(s) : \A d \in ForkLinks(s) : Len(c) <= Len(d)
ForkRun(s) == {c \in s.fork : /\ Len(c) >= Len(ForkFirst(s))
                              /\ BlockAt(c, Len(ForkFirst(s))) = ForkFirst(s)
                              /\ \A h \in Len(ForkFirst(s)) .. Len(c) : BlockAt(c, h) \in s.fork}
ForkOther(s) == CHOOSE c \in ForkRun(s) : \A d \in ForkRun(s) : Len(d) <= Len(c)
ForkSame(s) == \A h \in Len(ForkFirst(s)) .. Len(ForkOther(s)) :
                    h <= Len(s.chain) => ForkOther(s)[h].id = s.chain[h].id

\* try_reorg in these terms.
LEMMA TryReorgUnfolds ==
    ASSUME NEW s, NEW n
    PROVE  TryReorg(s, n) =
                IF ForkLinks(s) = {} \/ Len(ForkFirst(s)) > Len(s.chain) THEN s
                ELSE IF ~ HashLess(ForkFirst(s), BlockAt(s.chain, Len(ForkFirst(s))))
                THEN [s EXCEPT !.fork = {}]
                ELSE IF ForkSame(s) THEN RelinkOntoVariant(s, n, ForkOther(s))
                ELSE Rebranch(s, n, ForkOther(s))
BY DEF TryReorg, ForkLinks, ForkFirst, ForkRun, ForkOther, ForkSame

\* The other branch exists, and parts from our chain just below ForkFirst.
LEMMA ForkFacts ==
    ASSUME NEW s, SeatInv(s), ForkLinks(s) # {}, ~ (Len(ForkFirst(s)) > Len(s.chain))
    PROVE  LET first == ForkFirst(s)
               other == ForkOther(s)
               f == Len(first)
           IN  /\ f \in Nat \ {0} /\ f <= Len(s.chain)
               /\ other \in s.fork /\ other \in Chains /\ Len(other) \in Nat
               /\ f <= Len(other) /\ BlockAt(other, f) = first
               /\ \A h \in 1 .. f - 1 : other[h] = s.chain[h]
<1> DEFINE links == ForkLinks(s)
           first == ForkFirst(s)
           f     == Len(first)
           run   == ForkRun(s)
           other == ForkOther(s)
<1>1. /\ s \in Seat /\ s.chain \in Chains /\ Len(s.chain) \in Nat
      /\ s.fork \in SUBSET Block /\ IsFiniteSet(s.fork)
    BY IdsFacts DEF SeatInv, SeatOK, Seat
<1>2. first \in links
    <2>1. links \in SUBSET Block /\ links # {}
        BY <1>1 DEF ForkLinks
    <2> DEFINE L == {Len(c) : c \in links}
    <2>2. L \in SUBSET Nat /\ L # {}
        BY <2>1, PrevFacts
    <2>3. PICK x \in L : \A y \in L : x <= y
        BY <2>2, LeastNat
    <2>4. PICK c \in links : x = Len(c)
        BY <2>3
    <2>5. \A d \in links : Len(c) <= Len(d)
        BY <2>3, <2>4
    <2> QED BY <2>4, <2>5 DEF ForkFirst
<1>3. first \in s.fork /\ Prev(first) = BlockAt(s.chain, f - 1)
    BY <1>2 DEF ForkLinks
<1>4. first \in Block /\ f \in Nat \ {0} /\ f <= Len(s.chain)
    BY <1>1, <1>3, PrevFacts
<1>5. BlockAt(first, f) = first
    <2>1. f \in 0 .. Len(first) /\ first \in Chains
        BY <1>4, PrevFacts
    <2>2. BlockAt(first, f) \in Chains /\ Len(BlockAt(first, f)) = Len(first)
          /\ \A i \in 1 .. Len(first) : BlockAt(first, f)[i] = first[i]
        BY <2>1, BlockAtFacts
    <2> QED BY <2>1, <2>2, SameChain
<1>6. first \in run
    BY <1>3, <1>4, <1>5 DEF ForkRun
<1>7. run \in SUBSET Block /\ IsFiniteSet(run) /\ run # {}
    <2>1. run \subseteq s.fork
        BY DEF ForkRun
    <2> QED BY <1>1, <1>6, <2>1, FS_Subset
<1>8. other \in run
    BY <1>7, LongestBlock DEF ForkOther
<1>9. /\ other \in s.fork /\ other \in Chains /\ Len(other) \in Nat
      /\ f <= Len(other) /\ BlockAt(other, f) = first
    <2>1. other \in s.fork /\ Len(other) >= f /\ BlockAt(other, f) = first
        BY <1>8 DEF ForkRun
    <2>2. other \in Block
        BY <1>1, <2>1
    <2> QED BY <1>4, <2>1, <2>2, PrevFacts
<1>10. \A h \in 1 .. f - 1 : other[h] = s.chain[h]
    <2>1. f \in 0 .. Len(other) /\ f - 1 \in 0 .. Len(s.chain)
        BY <1>1, <1>4, <1>9
    <2>2. \A h \in 1 .. f : other[h] = first[h]
        BY <1>9, <2>1, BlockAtFacts
    <2>3. \A h \in 1 .. f - 1 : first[h] = Prev(first)[h]
        BY <1>4, PrevFacts
    <2>4. \A h \in 1 .. f - 1 : BlockAt(s.chain, f - 1)[h] = s.chain[h]
        BY <1>1, <2>1, BlockAtFacts
    <2> QED BY <1>3, <1>4, <2>2, <2>3, <2>4
<1> QED BY <1>4, <1>9, <1>10

\* The deep tie-break.
LEMMA TryReorgInv ==
    ASSUME NEW s, SeatInv(s), NEW n \in Member
    PROVE  SeatInv(TryReorg(s, n))
<1> DEFINE other == ForkOther(s)
           f == Len(ForkFirst(s))
<1>1. CASE ForkLinks(s) = {} \/ f > Len(s.chain)
    BY <1>1, TryReorgUnfolds
<1>2. CASE ~ (ForkLinks(s) = {} \/ f > Len(s.chain))
    <2>1. /\ f \in Nat \ {0} /\ other \in Chains /\ Len(other) \in Nat /\ f <= Len(other)
          /\ \A h \in 1 .. f - 1 : other[h] = s.chain[h]
        BY <1>2, ForkFacts
    <2>2. ASSUME ForkSame(s)
          PROVE  \A h \in 1 .. Len(other) : h <= Len(s.chain) => other[h].id = s.chain[h].id
        BY <2>1, <2>2 DEF ForkSame
    <2>3. ForkSame(s) => SeatInv(RelinkOntoVariant(s, n, other))
        BY <2>1, <2>2, RelinkInv
    <2>4. SeatInv(Rebranch(s, n, other))
        BY <2>1, RebranchInv
    <2> QED BY <1>2, <2>3, <2>4, DropForkInv, TryReorgUnfolds
<1> QED BY <1>1, <1>2

\* A buffer that keeps one block per height stays finite.
LEMMA KeepFacts ==
    ASSUME NEW S \in SUBSET Block, IsFiniteSet(S), NEW b \in Block
    PROVE  Keep(S, b) \in SUBSET Block /\ IsFiniteSet(Keep(S, b))
<1> DEFINE T == {c \in S : Len(c) # Len(b)}
<1>1. T \in SUBSET Block /\ IsFiniteSet(T)
    BY FS_Subset
<1> HIDE DEF T
<1>2. T \cup {b} \in SUBSET Block /\ IsFiniteSet(T \cup {b})
    BY <1>1, FS_AddElement
<1> QED BY <1>2 DEF Keep, T

\* A stashed fork candidate and the deep tie-break it triggers.
LEMMA StashAndReorgInv ==
    ASSUME NEW s, SeatInv(s), NEW n \in Member, NEW b \in Block
    PROVE  SeatInv(StashAndReorg(s, n, b))
<1> DEFINE F == Keep(s.fork, b)
           t == [s EXCEPT !.fork = F]
<1>1. s \in Seat /\ F \in SUBSET Block /\ IsFiniteSet(F)
    BY KeepFacts DEF SeatInv, SeatOK, Seat
<1> HIDE DEF F
<1>2. t \in Seat /\ SameVotes(s, t) /\ t.fork = F /\ t.buf = s.buf
    BY <1>1 DEF Seat, SameVotes
<1> HIDE DEF t
<1>3. SeatInv(t)
    BY <1>1, <1>2, SameVotesInv DEF SeatInv, SeatOK
<1> QED BY <1>3, TryReorgInv DEF StashAndReorg, t, F

\* The contender takes the tip: the displaced decision is in neither the
\* common prefix (the chain verifies) nor the new tip (another decision).
LEMMA SwapTipInv ==
    ASSUME NEW s, SeatInv(s), NEW n \in Member, NEW b \in Block,
           Len(b) = Len(s.chain), Prev(b) = Prev(s.chain),
           b[Len(b)].id # s.chain[Len(b)].id
    PROVE  SeatInv(SwapTip(s, n, b))
<1> DEFINE lost == s.chain[Len(s.chain)].id
           t == [s EXCEPT !.chain = b, !.paced = FALSE]
           adopted == SettleCards(t)
           voting == ReturnToVote(adopted, {lost})
<1>1. s \in Seat /\ s.chain \in Chains
    BY DEF SeatInv, SeatOK, Seat
<1>2. b \in Chains /\ Len(b) \in Nat \ {0}
    BY PrevFacts
<1>3. s.chain \in Block
    BY <1>1, <1>2, EmptySeq DEF Block, Chains
<1>4. \A i \in 1 .. Len(b) - 1 : b[i] = s.chain[i]
    BY <1>3, PrevFacts
<1>5. lost \in Ids(s.chain) /\ lost \in Proposal
    BY <1>1, <1>2, IdsFacts
<1>6. \A p : p \in Ids(s.chain) => p = lost \/ p \in Ids(b)
    <2>1. \A i \in 1 .. Len(b) : i = Len(b) \/ s.chain[i] = b[i]
        BY <1>2, <1>4
    <2> QED BY <1>1, <1>2, <2>1, IdsFacts
<1>7. lost \notin Ids(b)
    <2>1. \A i, j \in 1 .. Len(s.chain) : i < j => s.chain[i].id # s.chain[j].id
        BY <1>1, WalkDistinct DEF SeatInv
    <2>2. \A i \in 1 .. Len(b) : b[i].id # lost
        BY <1>2, <1>4, <2>1
    <2> QED BY <1>2, <2>2, IdsFacts
<1> HIDE DEF lost
<1>8. /\ t \in Seat /\ t.chain = b /\ t.card = s.card /\ t.pend = s.pend /\ t.own = s.own
      /\ t.buf = s.buf /\ t.fork = s.fork
    BY <1>1, <1>2 DEF Seat
<1> HIDE DEF t
<1>9. SeatOK(t)
    BY <1>8 DEF SeatInv, SeatOK
<1>10. /\ SeatOK(adopted) /\ adopted.chain = b /\ adopted.own = s.own
       /\ \A p \in Proposal :
            /\ adopted.card[p] = IF p \in Ids(b) /\ s.card[p] = "none" THEN "shadow"
                                 ELSE IF p \in Ids(b) /\ s.card[p] = "open" THEN "applied"
                                 ELSE s.card[p]
            /\ adopted.pend[p] = IF p \in Ids(b) /\ s.card[p] \in {"none", "open"}
                                 THEN NoSigs ELSE s.pend[p]
    BY <1>8, <1>9, SettleCardsFields
<1> HIDE DEF adopted
<1>11. /\ SeatOK(voting) /\ voting.chain = b /\ voting.own = s.own /\ voting.pend = adopted.pend
       /\ \A p \in Proposal :
            voting.card[p] = IF p \notin {lost} THEN adopted.card[p]
                             ELSE IF adopted.card[p] = "shadow" THEN "none" ELSE "open"
    BY <1>10, ReturnToVoteFields
<1> HIDE DEF voting
<1>12. \A p \in Proposal : s.card[p] \in CardState
    BY <1>1 DEF Seat
<1>13. CardsInv(voting)
    BY <1>5, <1>6, <1>7, <1>10, <1>11, <1>12 DEF SeatInv, CardsInv, CardState
<1>14. OwnInv(voting)
    BY <1>1, <1>5, <1>10, <1>11, <1>12 DEF SeatInv, OwnInv, CardState, Seat
<1>15. VotesInv(voting)
    BY <1>10, <1>11, <1>12 DEF SeatInv, VotesInv, CardsInv, CardState, NoSigs, Target
<1>16. ASSUME WalkChain(b) PROVE SeatInv(RebasePendingApprovals(voting, n))
    BY <1>11, <1>13, <1>14, <1>15, <1>16, RebaseInv DEF SeatInv
<1>17. SwapTip(s, n, b) = IF ~ WalkChain(b) THEN s ELSE RebasePendingApprovals(voting, n)
    BY DEF SwapTip, voting, adopted, t, lost
<1> QED BY <1>16, <1>17

\* tie_break: a contender for a filled height.
LEMMA TieBreakInv ==
    ASSUME NEW s, SeatInv(s), NEW n \in Member, NEW b \in Block, Len(b) <= Len(s.chain)
    PROVE  SeatInv(TieBreak(s, n, b))
<1> DEFINE ours    == BlockAt(s.chain, Len(b))
           shared  == Prev(b) = Prev(ours)
           same    == b[Len(b)].id = ours[Len(b)].id
           smaller == HashLess(b, ours)
<1>1. s.chain \in Chains /\ Len(s.chain) \in Nat /\ Len(b) \in Nat \ {0}
    BY PrevFacts, IdsFacts DEF SeatInv, SeatOK, Seat
<1>2. TieBreak(s, n, b) =
        IF b = ours THEN s
        ELSE IF shared /\ same
             THEN IF smaller THEN StashAndReorg(s, n, b) ELSE s
        ELSE IF ~ shared \/ Len(b) < Len(s.chain) THEN StashAndReorg(s, n, b)
        ELSE IF smaller THEN SwapTip(s, n, b) ELSE s
    BY DEF TieBreak
<1>3. SeatInv(StashAndReorg(s, n, b))
    BY StashAndReorgInv
<1>4. ASSUME shared, ~ same, ~ (Len(b) < Len(s.chain)) PROVE SeatInv(SwapTip(s, n, b))
    <2>1. Len(b) = Len(s.chain)
        BY <1>1, <1>4
    <2>2. /\ Len(b) \in 0 .. Len(s.chain)
          /\ ours \in Chains /\ Len(ours) = Len(s.chain)
          /\ \A i \in 1 .. Len(ours) : ours[i] = s.chain[i]
        BY <1>1, <2>1, BlockAtFacts
    <2>3. ours = s.chain
        BY <1>1, <2>2, SameChain
    <2> QED BY <1>4, <2>1, <2>3, SwapTipInv
<1> HIDE DEF ours, shared, same, smaller
<1> QED BY <1>2, <1>3, <1>4

\* receive_block_from, all of its branches.
LEMMA ReceiveBlockFromInv ==
    ASSUME NEW s, SeatInv(s), NEW n \in Member, NEW b \in Block
    PROVE  SeatInv(ReceiveBlockFrom(s, n, b))
<1> DEFINE t == [s EXCEPT !.top = IF Len(b) > @ THEN Len(b) ELSE @]
           B == Keep({c \in t.buf : Len(c) > Len(t.chain)}, b)
           u == [t EXCEPT !.buf = B]
<1>1. s \in Seat /\ Len(b) \in Nat
    BY PrevFacts DEF SeatInv, SeatOK
<1>2. t \in Seat /\ SameVotes(s, t) /\ t.buf = s.buf /\ t.fork = s.fork
    BY <1>1 DEF Seat, SameVotes
<1>3. ReceiveBlockFrom(s, n, b) =
        CASE Len(b) <= Len(t.chain) -> TieBreak(t, n, b)
          [] Len(b) = Target(t) /\ Prev(b) = t.chain -> ApplyNextBlock(t, n, b)
          [] Len(b) = Target(t) /\ Prev(b) # t.chain -> StashAndReorg(t, n, b)
          [] OTHER -> u
    BY DEF ReceiveBlockFrom
<1> HIDE DEF t
<1>4. SeatInv(t)
    BY <1>2, SameVotesInv DEF SeatInv, SeatOK
<1>5. B \in SUBSET Block /\ IsFiniteSet(B)
    <2> DEFINE C == {c \in t.buf : Len(c) > Len(t.chain)}
    <2>1. C \in SUBSET Block /\ IsFiniteSet(C)
        BY <1>4, FS_Subset DEF SeatInv, SeatOK, Seat
    <2> HIDE DEF C
    <2>2. Keep(C, b) \in SUBSET Block /\ IsFiniteSet(Keep(C, b))
        BY <2>1, KeepFacts
    <2> QED BY <2>2 DEF C
<1> HIDE DEF B
<1>6. u \in Seat /\ SameVotes(t, u) /\ u.buf = B /\ u.fork = t.fork
    BY <1>2, <1>5 DEF Seat, SameVotes
<1> HIDE DEF u
<1>7. SeatInv(u)
    BY <1>4, <1>5, <1>6, SameVotesInv DEF SeatInv, SeatOK
<1>8. t.chain \in Chains /\ Len(t.chain) \in Nat
    BY <1>2, IdsFacts DEF Seat
<1>9. CASE Len(b) <= Len(t.chain)
    <2>1. Len(b) # Target(t)
        BY <1>1, <1>8, <1>9 DEF Target
    <2> QED BY <1>3, <1>4, <1>9, <2>1, TieBreakInv
<1>10. CASE ~ (Len(b) <= Len(t.chain)) /\ Len(b) = Target(t) /\ Prev(b) = t.chain
    BY <1>3, <1>4, <1>10, ApplyNextBlockInv
<1>11. CASE ~ (Len(b) <= Len(t.chain)) /\ Len(b) = Target(t) /\ Prev(b) # t.chain
    BY <1>3, <1>4, <1>11, StashAndReorgInv
<1>12. CASE ~ (Len(b) <= Len(t.chain)) /\ Len(b) # Target(t)
    BY <1>3, <1>7, <1>12
<1> QED BY <1>9, <1>10, <1>11, <1>12

-----------------------------------------------------------------------------
(***************************************************************************)
(* The republic.                                                           *)
(***************************************************************************)

Inv ==
    /\ node \in [Member -> Seat]
    /\ \A n \in Member : SeatInv(node[n])
    /\ proposed \subseteq Proposal
    /\ approvals \subseteq Member \X Proposal \X Nat
    /\ blocks \subseteq Block

Signature == Member \X Proposal \X Nat

\* Chain's properties are parts of the invariant.
LEMMA InvProperties ==
    ASSUME Inv
    PROVE  TypeOK /\ CardsMatchChain /\ NoFrozenVote /\ OwnVotesKeepTheirCard
<1>1. TypeOK
    BY DEF Inv, TypeOK
<1>2. CardsMatchChain
    BY DEF Inv, SeatInv, CardsInv, CardsMatchChain
<1>3. NoFrozenVote
    BY DEF Inv, SeatInv, VotesInv, NoFrozenVote
<1>4. OwnVotesKeepTheirCard
    BY DEF Inv, SeatInv, OwnInv, OwnVotesKeepTheirCard
<1> QED BY <1>1, <1>2, <1>3, <1>4

\* A seat that moves to a good state and gossips well-formed messages.
LEMMA StepInv ==
    ASSUME Inv, NEW n \in Member, NEW t, SeatInv(t), NEW sigs, sigs \subseteq Signature,
           NEW bs, bs \subseteq Block, Step(n, t, sigs, bs), proposed' \subseteq Proposal
    PROVE  Inv'
<1>1. t \in Seat
    BY DEF SeatInv, SeatOK
<1>2. Standing(n, t) \subseteq Signature
    <2>1. \A p \in Proposal : t.pend[p].height \in Nat
        BY <1>1 DEF Seat, PendingApproval
    <2> QED BY <2>1 DEF Standing, Signature
<1>3. /\ node' \in [Member -> Seat]
      /\ \A k \in Member : node'[k] = IF k = n THEN t ELSE node[k]
    BY <1>1 DEF Inv, Step
<1>4. approvals' \subseteq Signature /\ blocks' \subseteq Block
    BY <1>2 DEF Inv, Step, Signature
<1> QED BY <1>3, <1>4 DEF Inv, Signature, SeatInv, SeatOK, CardsInv, VotesInv, OwnInv, Target

\* What a seat has just sealed is a block.
LEMMA SealedFacts ==
    ASSUME NEW s, NEW t, t.chain # s.chain => t.chain \in Block
    PROVE  Sealed(s, t) \subseteq Block
BY DEF Sealed

\* A card that was unknown opens.
LEMMA OpenCardInv ==
    ASSUME NEW s, SeatInv(s), NEW p \in Proposal, s.card[p] = "none"
    PROVE  LET o == [s EXCEPT !.card[p] = "open"]
           IN  SeatInv(o) /\ o.card[p] = "open" /\ o.chain = s.chain
<1> DEFINE o == [s EXCEPT !.card[p] = "open"]
<1>1. s \in Seat
    BY DEF SeatInv, SeatOK
<1>2. /\ o \in Seat /\ o.chain = s.chain /\ o.pend = s.pend /\ o.own = s.own
      /\ o.buf = s.buf /\ o.fork = s.fork
      /\ \A q \in Proposal : o.card[q] = IF q = p THEN "open" ELSE s.card[q]
    BY <1>1 DEF Seat, CardState
<1> HIDE DEF o
<1>3. SeatOK(o) /\ WalkChain(o.chain) /\ VotesInv(o)
    BY <1>2 DEF SeatInv, SeatOK, VotesInv, Target
<1>4. CardsInv(o)
    BY <1>2 DEF SeatInv, CardsInv
<1>5. OwnInv(o)
    BY <1>1, <1>2 DEF SeatInv, OwnInv, Seat
<1> QED BY <1>2, <1>3, <1>4, <1>5 DEF SeatInv, o

\* One lemma per action: cmd_propose.
LEMMA ProposeInv ==
    ASSUME Inv, NEW n \in Member, NEW p \in Proposal, Propose(n, p)
    PROVE  Inv'
<1> DEFINE s == node[n]
           o == [s EXCEPT !.card[p] = "open"]
           t == IF n \in SelfCosign THEN TryCommit(SignApproval(o, n, p), n, p) ELSE o
           sigs == IF n \in SelfCosign THEN {<<n, p, Target(s)>>} ELSE {}
<1>0. s.card[p] = "none"
    <2>1. p \in Mintable(n)
        BY DEF Propose
    <2>2. s.card[p] # "none" => p < p
        BY <2>1 DEF Mintable
    <2>3. p \in Nat
        BY ProposalAssumption
    <2>4. ~ (p < p)
        BY <2>3
    <2> QED BY <2>2, <2>4
<1>1. SeatInv(s) /\ s.card[p] = "none" /\ proposed' = proposed \cup {p}
      /\ Step(n, t, sigs, Sealed(s, t))
    BY <1>0 DEF Inv, Propose
<1>2. Target(s) \in Nat
    BY <1>1, IdsFacts DEF SeatInv, SeatOK, Seat, Target
<1>3. sigs \subseteq Signature
    BY <1>2 DEF Signature
<1> HIDE DEF s, sigs
<1>4. SeatInv(o) /\ o.card[p] = "open" /\ o.chain = s.chain
    BY <1>1, OpenCardInv
<1> HIDE DEF o
<1>5. SeatInv(SignApproval(o, n, p)) /\ SignApproval(o, n, p).chain = s.chain
    BY <1>4, SignApprovalInv
<1>6. SeatInv(t) /\ (t.chain # s.chain => t.chain \in Block)
    BY <1>4, <1>5, TryCommitInv
<1> HIDE DEF t
<1>7. Sealed(s, t) \subseteq Block
    BY <1>6, SealedFacts
<1>8. proposed' \subseteq Proposal
    BY <1>1 DEF Inv
<1> QED BY <1>1, <1>3, <1>6, <1>7, <1>8, StepInv

\* cmd_approve.
LEMMA ApproveInv ==
    ASSUME Inv, NEW n \in Member, NEW p \in Proposal, Approve(n, p)
    PROVE  Inv'
<1> DEFINE s == node[n]
           t == TryCommit(SignApproval(s, n, p), n, p)
           sigs == {<<n, p, Target(s)>>}
<1>1. SeatInv(s) /\ s.card[p] = "open" /\ proposed' = proposed
      /\ Step(n, t, sigs, Sealed(s, t))
    BY DEF Inv, Approve
<1>2. Target(s) \in Nat
    BY <1>1, IdsFacts DEF SeatInv, SeatOK, Seat, Target
<1>3. sigs \subseteq Signature
    BY <1>2 DEF Signature
<1> HIDE DEF s, sigs
<1>4. SeatInv(SignApproval(s, n, p)) /\ SignApproval(s, n, p).chain = s.chain
    BY <1>1, SignApprovalInv
<1>5. SeatInv(t) /\ (t.chain # s.chain => t.chain \in Block)
    BY <1>4, TryCommitInv
<1> HIDE DEF t
<1>6. Sealed(s, t) \subseteq Block
    BY <1>5, SealedFacts
<1> QED BY <1>1, <1>3, <1>5, <1>6, StepInv DEF Inv

\* receive_proposed.
LEMMA ReceiveProposedInv ==
    ASSUME Inv, NEW n \in Member, NEW p \in Proposal, ReceiveProposed(n, p)
    PROVE  Inv'
<1> DEFINE o == [node[n] EXCEPT !.card[p] = "open"]
<1>1. SeatInv(node[n]) /\ node[n].card[p] = "none" /\ proposed' = proposed /\ Step(n, o, {}, {})
    BY DEF Inv, ReceiveProposed
<1>2. SeatInv(o)
    BY <1>1, OpenCardInv
<1> HIDE DEF o
<1>3. proposed' \subseteq Proposal /\ {} \subseteq Signature /\ {} \subseteq Block
    BY <1>1 DEF Inv
<1> QED BY <1>1, <1>2, <1>3, StepInv

\* receive_approval.
LEMMA ReceiveApprovalInv ==
    ASSUME Inv, NEW n \in Member, NEW a \in approvals, ReceiveApproval(n, a)
    PROVE  Inv'
<1> DEFINE s == node[n]
           u == CollectSig(s, a[2], a[3], a[1])
           t == TryCommit(u, n, a[2])
<1>1. SeatInv(s) /\ a[3] <= Target(s) /\ proposed' = proposed /\ Step(n, t, {}, Sealed(s, t))
    BY DEF Inv, ReceiveApproval
<1>2. a[1] \in Member /\ a[2] \in Proposal /\ a[3] \in Nat
    BY DEF Inv
<1> HIDE DEF s
<1>3. SeatInv(u) /\ u.chain = s.chain
    BY <1>1, <1>2, CollectSigInv
<1> HIDE DEF u
<1>4. SeatInv(t) /\ (t.chain # s.chain => t.chain \in Block)
    BY <1>2, <1>3, TryCommitInv
<1> HIDE DEF t
<1>5. Sealed(s, t) \subseteq Block
    BY <1>4, SealedFacts
<1> QED BY <1>1, <1>4, <1>5, StepInv DEF Inv

\* The delivery of a block.
LEMMA ReceiveBlockInv ==
    ASSUME Inv, NEW n \in Member, NEW b \in blocks, ReceiveBlock(n, b)
    PROVE  Inv'
<1> DEFINE s == node[n]
           t == ReceiveBlockFrom(s, n, b)
           grown == Len(s.chain) <= Len(t.chain) /\ BlockAt(t.chain, Len(s.chain)) = s.chain
           sigs == IF grown THEN PassedBy(n, s, t) ELSE {}
<1>1. SeatInv(s) /\ b \in Block /\ proposed' = proposed /\ Step(n, t, sigs, {})
    BY DEF Inv, ReceiveBlock
<1>2. SeatInv(t)
    BY <1>1, ReceiveBlockFromInv
<1> HIDE DEF s, t, grown
<1>3. PassedBy(n, s, t) \subseteq Signature
    <2>1. s \in Seat /\ s.own \in SUBSET Proposal /\ s.chain \in Chains /\ Len(s.chain) \in Nat
        BY <1>1, IdsFacts DEF SeatInv, SeatOK, Seat
    <2>2. StandingOpen(s) \in SUBSET Proposal
        BY <2>1 DEF StandingOpen
    <2>3. Len(s.chain) + 2 .. Len(t.chain) \subseteq Nat
        BY <2>1
    <2> QED BY <2>2, <2>3 DEF PassedBy, Signature
<1>4. sigs \subseteq Signature
    BY <1>3
<1> HIDE DEF sigs
<1>5. proposed' \subseteq Proposal /\ {} \subseteq Block
    BY <1>1 DEF Inv
<1> QED BY <1>1, <1>2, <1>4, <1>5, StepInv

\* The pacing round.
LEMMA PacingRoundPassesInv ==
    ASSUME Inv, NEW n \in Member, PacingRoundPasses(n)
    PROVE  Inv'
<1> DEFINE t == [node[n] EXCEPT !.paced = TRUE]
<1>1. SeatInv(node[n]) /\ proposed' = proposed /\ Step(n, t, {}, {})
    BY DEF Inv, PacingRoundPasses
<1>2. t \in Seat /\ SameVotes(node[n], t) /\ t.buf = node[n].buf /\ t.fork = node[n].fork
    BY <1>1 DEF SeatInv, SeatOK, Seat, SameVotes
<1> HIDE DEF t
<1>3. SeatInv(t)
    BY <1>1, <1>2, SameVotesInv DEF SeatInv, SeatOK
<1> QED BY <1>1, <1>3, StepInv DEF Inv

\* drain_held_seals.
LEMMA DrainHeldSealsInv ==
    ASSUME Inv, NEW n \in Member, DrainHeldSeals(n)
    PROVE  Inv'
<1> DEFINE s == [node[n] EXCEPT !.held = {}]
           ready == {p \in node[n].held : Sealable(s, p)}
           first == CHOOSE p \in ready : \A q \in ready : p <= q
           wait == [s EXCEPT !.held = ready]
           t == IF s.paced /\ ready # {} THEN TryCommit(s, n, first) ELSE wait
<1>1. SeatInv(node[n]) /\ proposed' = proposed /\ Step(n, t, {}, Sealed(s, t))
    BY DEF Inv, DrainHeldSeals
<1>2. node[n] \in Seat /\ ready \in SUBSET Proposal
    BY <1>1 DEF SeatInv, SeatOK, Seat
<1>3. s \in Seat /\ SameVotes(node[n], s) /\ s.buf = node[n].buf /\ s.fork = node[n].fork
    BY <1>2 DEF Seat, SameVotes
<1> HIDE DEF s
<1>4. SeatInv(s)
    BY <1>1, <1>3, SameVotesInv DEF SeatInv, SeatOK
<1>5. ready # {} => first \in Proposal
    <2> HIDE DEF ready
    <2>1. ready # {} => \E p \in ready : \A q \in ready : p <= q
        BY <1>2, LeastNat, ProposalAssumption
    <2> QED BY <1>2, <2>1
<1> HIDE DEF ready, first
<1>6. /\ wait \in Seat /\ SameVotes(s, wait) /\ wait.buf = s.buf /\ wait.fork = s.fork
    BY <1>2, <1>3 DEF Seat, SameVotes
<1> HIDE DEF wait
<1>7. SeatInv(wait) /\ wait.chain = s.chain
    BY <1>4, <1>6, SameVotesInv DEF SeatInv, SeatOK, SameVotes
<1>8. SeatInv(t) /\ (t.chain # s.chain => t.chain \in Block)
    BY <1>4, <1>5, <1>7, TryCommitInv
<1> HIDE DEF t
<1>9. Sealed(s, t) \subseteq Block
    BY <1>8, SealedFacts
<1> QED BY <1>1, <1>8, <1>9, StepInv DEF Inv

\* serve_chain_from.
LEMMA ServeChainInv ==
    ASSUME Inv, NEW n \in Member, ServeChain(n)
    PROVE  Inv'
<1> DEFINE c == node[n].chain
<1>1. c \in Chains /\ Len(c) \in Nat
    BY IdsFacts DEF Inv, Seat
<1> HIDE DEF c
<1>2. \A h \in 1 .. Len(c) : BlockAt(c, h) \in Chains /\ Len(BlockAt(c, h)) = h
    BY <1>1, BlockAtFacts
<1>3. \A h \in 1 .. Len(c) : BlockAt(c, h) \in Block
    BY <1>1, <1>2, EmptySeq DEF Block
<1>4. blocks' \subseteq Block
    BY <1>3 DEF ServeChain, Inv, c
<1> QED BY <1>4 DEF ServeChain, Inv, SeatInv, SeatOK, CardsInv, VotesInv, OwnInv, Target

\* The invariant holds initially.
LEMMA InitInv == Init => Inv
<1>1. ASSUME Init PROVE Inv
    <2>1. InitSeat \in Seat
        BY InitSeatInv DEF SeatInv, SeatOK
    <2> QED BY <1>1, <2>1, InitSeatInv DEF Init, Inv
<1> QED BY <1>1

\* Every step of a seat preserves the invariant.
LEMMA NextInv == Inv /\ [Next]_vars => Inv'
<1>1. SUFFICES ASSUME Inv, [Next]_vars PROVE Inv'
    OBVIOUS
<1>2. CASE UNCHANGED vars
    BY <1>1, <1>2 DEF Inv, vars, SeatInv, SeatOK, CardsInv, VotesInv, OwnInv, Target
<1>3. CASE Next
    <2>1. PICK n \in Member :
            \/ \E p \in Proposal : Propose(n, p) \/ Approve(n, p) \/ ReceiveProposed(n, p)
            \/ \E a \in approvals : ReceiveApproval(n, a)
            \/ \E b \in blocks : ReceiveBlock(n, b)
            \/ PacingRoundPasses(n)
            \/ DrainHeldSeals(n)
            \/ ServeChain(n)
        BY <1>3 DEF Next
    <2>2. ASSUME NEW p \in Proposal, Propose(n, p) \/ Approve(n, p) \/ ReceiveProposed(n, p)
          PROVE  Inv'
        BY <1>1, <2>2, ProposeInv, ApproveInv, ReceiveProposedInv
    <2>3. ASSUME NEW a \in approvals, ReceiveApproval(n, a) PROVE Inv'
        BY <1>1, <2>3, ReceiveApprovalInv
    <2>4. ASSUME NEW b \in blocks, ReceiveBlock(n, b) PROVE Inv'
        BY <1>1, <2>4, ReceiveBlockInv
    <2>5. ASSUME PacingRoundPasses(n) \/ DrainHeldSeals(n) \/ ServeChain(n) PROVE Inv'
        BY <1>1, <2>5, PacingRoundPassesInv, DrainHeldSealsInv, ServeChainInv
    <2> QED BY <2>1, <2>2, <2>3, <2>4, <2>5
<1> QED BY <1>1, <1>2, <1>3

\* The inductive invariant holds throughout.
THEOREM Invariance == Spec => []Inv
<1>1. Init => Inv
    BY InitInv
<1>2. Inv /\ [Next]_vars => Inv'
    BY NextInv
<1> QED BY <1>1, <1>2, PTL DEF Spec

\* Every variable keeps its type: above all, a block is attested by exactly m
\* members, whatever set of signatures its sealer had collected.
THEOREM TypeCorrect == Spec => []TypeOK
<1>1. Inv => TypeOK
    BY InvProperties
<1> QED BY <1>1, Invariance, PTL

\* In every republic a card reads Applied exactly while the seat's chain holds
\* its block, through appends, relinks, tip swaps and re-bases.
THEOREM CardsFollowTheChain == Spec => []CardsMatchChain
<1>1. Inv => CardsMatchChain
    BY InvProperties
<1> QED BY <1>1, Invariance, PTL

\* In every republic no collected set of signatures is bound to a height past
\* the next block, and a decided proposal keeps none.
THEOREM VotesNeverFreeze == Spec => []NoFrozenVote
<1>1. Inv => NoFrozenVote
    BY InvProperties
<1> QED BY <1>1, Invariance, PTL

\* In every republic a seat keeps the card of every proposal it approved, even
\* when the block that decided it is displaced.
THEOREM OwnVotesAreKept == Spec => []OwnVotesKeepTheirCard
<1>1. Inv => OwnVotesKeepTheirCard
    BY InvProperties
<1> QED BY <1>1, Invariance, PTL
=============================================================================
