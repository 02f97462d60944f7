------------------------ MODULE ProposalIds_proofs ------------------------
(***************************************************************************)
(* For every roster: two seats never mint one id.                          *)
(***************************************************************************)
EXTENDS ProposalIds, FiniteSetTheorems, TLAPS

(***************************************************************************)
(* Remainders.  The provers know that a % n lies below n and that some     *)
(* multiple of n is missing to a; that the multiple is the only one is     *)
(* proved here.                                                            *)
(***************************************************************************)
LEMMA NoSmallMultiple ==
    ASSUME NEW n \in Nat \ {0}, NEW d \in Int, -n < n * d, n * d < n
    PROVE  d = 0
<1>1. CASE d >= 1
  <2>1. n * d >= n * 1
    BY <1>1
  <2> QED
    BY <2>1
<1>2. CASE d <= -1
  <2>1. n * d <= n * (-1)
    BY <1>2
  <2> QED
    BY <2>1
<1> QED
  BY <1>1, <1>2

LEMMA DivMod ==
    ASSUME NEW n \in Nat \ {0}, NEW a \in Int
    PROVE  a % n \in 0 .. n - 1 /\ a \div n \in Int /\ a = n * (a \div n) + (a % n)
OBVIOUS

LEMMA ModUnique ==
    ASSUME NEW n \in Nat \ {0}, NEW a \in Int, NEW q \in Int, NEW r \in 0 .. n - 1,
           a = n * q + r
    PROVE  a % n = r
<1>1. a % n \in 0 .. n - 1 /\ a \div n \in Int /\ a = n * (a \div n) + (a % n)
  BY DivMod
<1>2. n * (q - (a \div n)) = (a % n) - r
  BY <1>1
<1>3. q - (a \div n) = 0
  BY <1>1, <1>2, NoSmallMultiple
<1> QED
  BY <1>1, <1>2, <1>3

\* Rounding up a floor f to the class of w ends in the class of w.
LEMMA RoundUp ==
    ASSUME NEW n \in Nat \ {0}, NEW f \in Nat, NEW w \in 0 .. n - 1
    PROVE  LET id == f + (((w + n) - (f % n)) % n)
           IN  id \in Nat /\ id >= f /\ id % n = w
<1> DEFINE r == f % n
           b == (w + n) - r
           e == b % n
<1>1. r \in 0 .. n - 1 /\ f \div n \in Int /\ f = n * (f \div n) + r
  BY DivMod
<1>2. b \in Int
  BY <1>1
<1>3. e \in 0 .. n - 1 /\ b \div n \in Int /\ b = n * (b \div n) + e
  BY <1>2, DivMod
<1> HIDE DEF r, e
<1>4. f + e = n * (((f \div n) + 1) - (b \div n)) + w
  <2>1. f + e = (n * (f \div n) + n - n * (b \div n)) + w
    BY <1>1, <1>3
  <2>2. n * (((f \div n) + 1) - (b \div n)) = n * (f \div n) + n - n * (b \div n)
    BY <1>1, <1>3
  <2> QED
    BY <2>1, <2>2
<1>5. (f + e) % n = w
  <2> DEFINE q == ((f \div n) + 1) - (b \div n)
             a == f + e
  <2>1. q \in Int /\ a \in Int /\ a = n * q + w
    BY <1>1, <1>3, <1>4
  <2> HIDE DEF q, a
  <2>2. a % n = w
    BY <2>1, ModUnique
  <2> QED
    BY <2>2 DEF a
<1> QED
  BY <1>3, <1>5 DEF r, e

LEMMA SeatCount == N \in Nat \ {0}
  BY IdsAssumption, FS_CardinalityType, FS_EmptySet DEF N

LEMMA PositionRange ==
    ASSUME NEW n \in Seat
    PROVE  Position(n) \in 0 .. N - 1
<1> DEFINE Below == {m \in Seat : m < n}
<1>1. Below \subseteq Seat /\ n \notin Below
  BY IdsAssumption
<1>2. /\ IsFiniteSet(Below) /\ Cardinality(Below) <= N
      /\ Cardinality(Below) = N => Below = Seat
  BY <1>1, IdsAssumption, FS_Subset DEF N
<1>3. Cardinality(Below) \in Nat
  BY <1>2, FS_CardinalityType
<1> QED
  BY <1>1, <1>2, <1>3, SeatCount DEF Position

LEMMA PositionInjective ==
    ASSUME NEW n \in Seat, NEW m \in Seat, Position(n) = Position(m)
    PROVE  n = m
<1> DEFINE Below(x) == {s \in Seat : s < x}
<1>1. ASSUME NEW x \in Seat, NEW y \in Seat, x < y
      PROVE  Position(x) # Position(y)
  <2>a. x < y /\ ~(x < x) /\ \A s \in Seat : s < x => s < y
    <3>1. x \in Nat /\ y \in Nat /\ Seat \subseteq Nat
      BY IdsAssumption
    <3> QED
      BY <1>1, <3>1
  <2>1. Below(x) \subseteq Below(y) /\ x \in Below(y) /\ x \notin Below(x)
    BY <2>a, Zenon
  <2>2. IsFiniteSet(Below(y))
    BY IdsAssumption, FS_Subset
  <2>3. Cardinality(Below(x)) = Cardinality(Below(y)) => Below(x) = Below(y)
    BY <2>1, <2>2, FS_Subset
  <2> QED
    BY <2>1, <2>3 DEF Position
<1> QED
  BY <1>1, IdsAssumption

\* The class of a seat, and back.
Class(n) == (Position(n) + 1) % N

LEMMA ClassTellsTheSeat ==
    ASSUME NEW n \in Seat
    PROVE  Class(n) \in 0 .. N - 1 /\ (((Class(n) + N) - 1) % N) = Position(n)
<1>1. N \in Nat \ {0} /\ Position(n) \in 0 .. N - 1
  BY SeatCount, PositionRange
<1>2. CASE Position(n) + 1 < N
  <2>1. Class(n) = Position(n) + 1
    BY <1>1, <1>2, ModUnique, Position(n) + 1 = N * 0 + (Position(n) + 1) DEF Class
  <2>2. (Class(n) + N) - 1 = N * 1 + Position(n)
    BY <1>1, <2>1
  <2> QED
    BY <1>1, <1>2, <2>1, <2>2, ModUnique
<1>3. CASE Position(n) + 1 = N
  <2>1. Class(n) = 0
    BY <1>1, <1>3, ModUnique, N = N * 1 + 0 DEF Class
  <2>2. (Class(n) + N) - 1 = N * 0 + Position(n)
    BY <1>1, <1>3, <2>1
  <2> QED
    BY <1>1, <1>3, <2>1, <2>2, ModUnique
<1> QED
  BY <1>1, <1>2, <1>3

LEMMA ClassInjective ==
    ASSUME NEW n \in Seat, NEW m \in Seat, Class(n) = Class(m)
    PROVE  n = m
  BY ClassTellsTheSeat, PositionInjective

LEMMA MintInClass ==
    ASSUME NEW n \in Seat, next_id[n] \in Nat
    PROVE  Mint(n) \in Nat /\ Mint(n) >= next_id[n] /\ Mint(n) % N = Class(n)
  BY SeatCount, ClassTellsTheSeat, RoundUp DEF Mint, Class

(***************************************************************************)
(* The inductive invariant.  What a device minted lies below its counter,  *)
(* but for the cuts a kill made it forget; a restart finds the cards it    *)
(* minted in its log.  A lost device's cards carry an older inc.           *)
(***************************************************************************)
InClass == \A x \in minted : x.id % N = Class(x.by)

OwnKept ==
    \A x \in minted :
        /\ x.inc <= inc[x.by]
        /\ x.inc = inc[x.by] /\ x.kind = "card" => x \in card[x.by]

OneEach ==
    \A x, y \in minted :
        x.id = y.id /\ x.by = y.by /\ x.inc = y.inc => x = y \/ x \in forgot \/ y \in forgot

IInv == TypeOK /\ MintIsNew /\ InClass /\ OwnKept /\ OneEach

\* What the counter of n has to pass.
Known(n) == seen[n] \cup parked[n] \cup IdsOf(card[n] \cup cut[n] \cup (Own(n) \ forgot))

LEMMA MintIsNewKnown == MintIsNew <=> \A n \in Seat : \A id \in Known(n) : id < next_id[n]
  BY DEF MintIsNew, Known

LEMMA InitIInv == Init => IInv
<1> SUFFICES ASSUME Init PROVE IInv
  OBVIOUS
<1>1. IsFiniteSet({})
  BY FS_EmptySet
<1>2. TypeOK
  BY <1>1 DEF Init, TypeOK, IdsOf
<1>3. MintIsNew
  BY DEF Init, MintIsNew, IdsOf, Own
<1> QED
  BY <1>2, <1>3 DEF Init, IInv, InClass, OwnKept, OneEach

\* Ids are naturals.
LEMMA IdsAreNat ==
    ASSUME TypeOK
    PROVE  /\ IdsOf(minted) \subseteq Nat /\ IdsOf(chain) \subseteq Nat
           /\ \A n \in Seat : Known(n) \subseteq Nat /\ seen[n] \cup IdsOf(card[n]) \subseteq Nat
<1>1. IdsOf(minted) \subseteq Nat
  BY DEF TypeOK, IdsOf, Card
<1>2. IdsOf(chain) \subseteq IdsOf(minted)
  BY DEF TypeOK, IdsOf
<1>3. ASSUME NEW n \in Seat
      PROVE  Known(n) \subseteq Nat /\ seen[n] \cup IdsOf(card[n]) \subseteq Nat
  <2>1. card[n] \cup cut[n] \cup (Own(n) \ forgot) \subseteq minted
    BY DEF TypeOK, Own
  <2>2. IdsOf(card[n] \cup cut[n] \cup (Own(n) \ forgot)) \subseteq IdsOf(minted)
        /\ IdsOf(card[n]) \subseteq IdsOf(minted)
    BY <2>1 DEF IdsOf
  <2>3. seen[n] \subseteq IdsOf(chain) /\ parked[n] \subseteq IdsOf(minted)
    BY DEF TypeOK
  <2> QED
    BY <1>1, <1>2, <2>2, <2>3 DEF Known
<1> QED
  BY <1>1, <1>2, <1>3

LEMMA BumpPasses ==
    ASSUME NEW n \in Seat, next_id[n] \in Nat \ {0}, NEW id \in Nat
    PROVE  Bump(n, id) \in Nat \ {0} /\ Bump(n, id) > id /\ Bump(n, id) >= next_id[n]
  BY DEF Bump

\* A counter that moves up past the ids a seat learns of.
LEMMA CounterStep ==
    ASSUME TypeOK, MintIsNew, NEW n \in Seat, NEW S, S \subseteq Nat, NEW c \in Nat,
           next_id' = [next_id EXCEPT ![n] = c], c >= next_id[n], \A id \in S : id < c,
           Known(n)' \subseteq Known(n) \cup S,
           \A m \in Seat \ {n} : Known(m)' \subseteq Known(m)
    PROVE  MintIsNew'
<1>1. ASSUME NEW m \in Seat, NEW id \in Known(m)' PROVE id < next_id'[m]
  <2>1. CASE m # n
    <3>1. id \in Known(m) /\ next_id'[m] = next_id[m]
      BY <1>1, <2>1 DEF TypeOK
    <3> QED
      BY <3>1, MintIsNewKnown
  <2>2. CASE m = n
    <3>1. next_id'[n] = c
      BY DEF TypeOK
    <3>2. CASE id \in S
      BY <2>2, <3>1, <3>2
    <3>3. CASE id \in Known(n)
      <4>1. id < next_id[n] /\ id \in Nat /\ next_id[n] \in Nat
        BY <3>3, MintIsNewKnown, IdsAreNat DEF TypeOK
      <4> QED
        BY <2>2, <3>1, <4>1
    <3> QED
      BY <1>1, <2>2, <3>2, <3>3
  <2> QED
    BY <2>1, <2>2
<1> QED
  BY <1>1 DEF MintIsNew, Known

\* A change under a fresh id: what Propose and ProposeCut put on the table.
LEMMA FreshStep ==
    ASSUME IInv, NEW n \in Seat, NEW kind \in {"card", "cut"}, NEW x, x = Fresh(n, kind),
           next_id' = [next_id EXCEPT ![n] = x.id + 1],
           card' = [card EXCEPT ![n] = IF kind = "card" THEN card[n] \cup {x} ELSE card[n]],
           cut' = [cut EXCEPT ![n] = IF kind = "cut" THEN cut[n] \cup {x} ELSE cut[n]],
           minted' = minted \cup {x},
           UNCHANGED <<seen, parked, snap, inc, chain, forgot>>
    PROVE  IInv'
<1>1. TypeOK /\ MintIsNew /\ InClass /\ OwnKept /\ OneEach
  BY DEF IInv
<1>2. x.id \in Nat /\ x.id >= next_id[n] /\ x.id % N = Class(n) /\ next_id[n] \in Nat
  BY <1>1, MintInClass DEF TypeOK, Fresh
<1>3. x \in Card /\ x.by = n /\ x.inc = inc[n] /\ x.kind = kind
  <2>1. Own(n) \in SUBSET minted
    BY DEF Own
  <2>2. Cardinality(Own(n)) \in Nat
    BY <1>1, <2>1, FS_Subset, FS_CardinalityType DEF TypeOK
  <2> QED
    BY <1>1, <1>2, <2>2 DEF Card, TypeOK, Fresh
<1>4. TypeOK'
  <2>1. IsFiniteSet(minted')
    BY <1>1, FS_AddElement DEF TypeOK
  <2>2. next_id' \in [Seat -> Nat \ {0}]
    BY <1>1, <1>2 DEF TypeOK
  <2>3. card' \in [Seat -> SUBSET {y \in minted' : y.kind = "card"}]
    BY <1>1, <1>3 DEF TypeOK
  <2>4. cut' \in [Seat -> SUBSET {y \in minted' : y.kind = "cut"}]
    BY <1>1, <1>3 DEF TypeOK
  <2>5. parked' \in [Seat -> SUBSET IdsOf(minted')]
    BY <1>1 DEF TypeOK, IdsOf
  <2>6. /\ seen' \in [Seat -> SUBSET IdsOf(chain')] /\ snap' \in [Seat -> Nat \ {0}]
        /\ inc' \in [Seat -> Nat]
    BY <1>1 DEF TypeOK
  <2>7. /\ minted' \subseteq Card /\ chain' \subseteq minted'
        /\ forgot' \subseteq {y \in minted' : y.kind = "cut"}
    BY <1>1, <1>3 DEF TypeOK
  <2> QED
    BY <2>1, <2>2, <2>3, <2>4, <2>5, <2>6, <2>7 DEF TypeOK
<1>5. MintIsNew'
  <2>1. /\ card'[n] \cup cut'[n] \subseteq card[n] \cup cut[n] \cup {x}
        /\ \A m \in Seat \ {n} : card'[m] = card[m] /\ cut'[m] = cut[m]
    BY <1>1 DEF TypeOK
  <2>2. Own(n)' \subseteq Own(n) \cup {x} /\ \A m \in Seat \ {n} : Own(m)' = Own(m)
    BY <1>3 DEF Own
  <2>3. Known(n)' \subseteq Known(n) \cup {x.id}
    BY <2>1, <2>2 DEF Known, IdsOf
  <2>4. \A m \in Seat \ {n} : Known(m)' \subseteq Known(m)
    BY <2>1, <2>2 DEF Known, IdsOf
  <2>5. /\ {x.id} \subseteq Nat /\ x.id + 1 \in Nat /\ x.id + 1 >= next_id[n]
        /\ \A id \in {x.id} : id < x.id + 1
    BY <1>2
  <2> QED
    BY <1>1, <2>3, <2>4, <2>5, CounterStep
<1>6. InClass'
  BY <1>1, <1>2, <1>3 DEF InClass, Class, Position, N
<1>7. OwnKept'
  <2> SUFFICES ASSUME NEW y \in minted'
               PROVE  /\ y.inc <= inc[y.by]
                      /\ y.inc = inc[y.by] /\ y.kind = "card" => y \in card'[y.by]
    BY DEF OwnKept
  <2>1. CASE y = x
    BY <1>1, <1>3, <2>1 DEF TypeOK
  <2>2. CASE y \in minted
    BY <1>1, <2>2 DEF OwnKept, TypeOK, Card
  <2> QED
    BY <2>1, <2>2
<1>8. OneEach'
  <2>1. ASSUME NEW y \in minted, y.by = n, y.inc = inc[n], y.id = x.id PROVE y \in forgot
    <3>1. SUFFICES ASSUME y \notin forgot PROVE FALSE
      OBVIOUS
    <3>2. y \in Own(n) \ forgot
      BY <2>1, <3>1 DEF Own
    <3>3. x.id \in Known(n)
      BY <2>1, <3>2 DEF Known, IdsOf
    <3>4. x.id < next_id[n]
      BY <1>1, <3>3, MintIsNewKnown
    <3> QED
      BY <1>2, <3>4
  <2> QED
    BY <1>1, <1>3, <2>1 DEF OneEach
<1> QED
  BY <1>4, <1>5, <1>6, <1>7, <1>8 DEF IInv

LEMMA ProposeIInv ==
    ASSUME IInv, NEW n \in Seat, Propose(n)
    PROVE  IInv'
<1>1. PICK x : x = Fresh(n, "card")
  OBVIOUS
<1>2. /\ next_id' = [next_id EXCEPT ![n] = x.id + 1]
      /\ card' = [card EXCEPT ![n] = IF x.id \in IdsOf(card[n]) THEN card[n] ELSE card[n] \cup {x}]
      /\ minted' = minted \cup {x}
      /\ UNCHANGED <<cut, seen, parked, snap, inc, chain, forgot>>
  BY <1>1 DEF Propose
<1>3. x.id \notin IdsOf(card[n])
  <2>1. TypeOK /\ MintIsNew
    BY DEF IInv
  <2>2. x.id \in Nat /\ x.id >= next_id[n] /\ next_id[n] \in Nat
    BY <1>1, <2>1, MintInClass DEF TypeOK, Fresh
  <2>3. IdsOf(card[n]) \subseteq Known(n)
    BY DEF IdsOf, Known
  <2>4. \A id \in IdsOf(card[n]) : id < next_id[n]
    BY <2>1, <2>3, MintIsNewKnown
  <2> QED
    BY <2>2, <2>4
<1>4. cut' = [cut EXCEPT ![n] = cut[n]]
  BY <1>2 DEF IInv, TypeOK
<1> QED
  BY <1>1, <1>2, <1>3, <1>4, FreshStep

LEMMA ProposeCutIInv ==
    ASSUME IInv, NEW n \in Seat, ProposeCut(n)
    PROVE  IInv'
<1>1. PICK x : x = Fresh(n, "cut")
  OBVIOUS
<1>2. /\ next_id' = [next_id EXCEPT ![n] = x.id + 1]
      /\ cut' = [cut EXCEPT ![n] = cut[n] \cup {x}]
      /\ minted' = minted \cup {x}
      /\ UNCHANGED <<card, seen, parked, snap, inc, chain, forgot>>
  BY <1>1 DEF ProposeCut
<1>3. card' = [card EXCEPT ![n] = card[n]]
  BY <1>2 DEF IInv, TypeOK
<1> QED
  BY <1>1, <1>2, <1>3, FreshStep

\* The steps that propose nothing: only what they do to the counter matters.
LEMMA QuietStep ==
    ASSUME IInv, TypeOK', MintIsNew', minted' = minted, inc' = inc, forgot \subseteq forgot',
           \A n \in Seat : card[n] \subseteq card'[n]
    PROVE  IInv'
<1>1. InClass' /\ OneEach'
  BY DEF IInv, InClass, OneEach, Class, Position, N
<1>2. OwnKept'
  BY DEF IInv, OwnKept, TypeOK, Card
<1> QED
  BY <1>1, <1>2 DEF IInv

\* The steps in which a seat hears of the id of x.
LEMMA HearStep ==
    ASSUME IInv, NEW n \in Seat, NEW x \in minted, NEW C, NEW K, NEW P,
           C \subseteq {y \in card[n] \cup {x} : y.kind = "card"}, card[n] \subseteq C,
           K \subseteq {y \in cut[n] \cup {x} : y.kind = "cut"},
           P \subseteq parked[n] \cup {x.id},
           next_id' = [next_id EXCEPT ![n] = Bump(n, x.id)],
           card' = [card EXCEPT ![n] = C], cut' = [cut EXCEPT ![n] = K],
           parked' = [parked EXCEPT ![n] = P],
           UNCHANGED <<seen, snap, inc, minted, chain, forgot>>
    PROVE  IInv'
<1>1. TypeOK /\ MintIsNew
  BY DEF IInv
<1>2. x.id \in Nat /\ next_id[n] \in Nat \ {0} /\ x.id \in IdsOf(minted)
  BY <1>1 DEF TypeOK, Card, IdsOf
<1>3. Bump(n, x.id) \in Nat \ {0} /\ Bump(n, x.id) > x.id /\ Bump(n, x.id) >= next_id[n]
  BY <1>2, BumpPasses
<1>4. TypeOK'
  <2>1. next_id' \in [Seat -> Nat \ {0}]
    BY <1>1, <1>3 DEF TypeOK
  <2>2. card' \in [Seat -> SUBSET {y \in minted' : y.kind = "card"}]
    BY <1>1 DEF TypeOK
  <2>3. cut' \in [Seat -> SUBSET {y \in minted' : y.kind = "cut"}]
    BY <1>1 DEF TypeOK
  <2>4. parked' \in [Seat -> SUBSET IdsOf(minted')]
    BY <1>1, <1>2 DEF TypeOK
  <2> QED
    BY <1>1, <2>1, <2>2, <2>3, <2>4 DEF TypeOK
<1>5. /\ card'[n] = C /\ cut'[n] = K /\ parked'[n] = P
      /\ \A m \in Seat \ {n} : card'[m] = card[m] /\ cut'[m] = cut[m] /\ parked'[m] = parked[m]
  BY <1>1 DEF TypeOK
<1>6. MintIsNew'
  <2>1. \A m \in Seat : Own(m)' = Own(m)
    BY DEF Own
  <2>2. card'[n] \cup cut'[n] \subseteq card[n] \cup cut[n] \cup {x}
    BY <1>5
  <2>3. IdsOf(card'[n] \cup cut'[n] \cup (Own(n)' \ forgot'))
           \subseteq IdsOf(card[n] \cup cut[n] \cup (Own(n) \ forgot)) \cup {x.id}
    BY <2>1, <2>2 DEF IdsOf
  <2>4. Known(n)' \subseteq Known(n) \cup {x.id}
    BY <1>5, <2>3 DEF Known, IdsOf
  <2>5. \A m \in Seat \ {n} : Known(m)' \subseteq Known(m)
    BY <1>5, <2>1 DEF Known, IdsOf
  <2>6. /\ {x.id} \subseteq Nat /\ Bump(n, x.id) \in Nat /\ Bump(n, x.id) >= next_id[n]
        /\ \A id \in {x.id} : id < Bump(n, x.id)
    BY <1>2, <1>3
  <2> QED
    BY <1>1, <2>4, <2>5, <2>6, CounterStep
<1>7. \A m \in Seat : card[m] \subseteq card'[m]
  BY <1>5
<1> QED
  BY <1>4, <1>6, <1>7, QuietStep

LEMMA ReceiveProposedIInv ==
    ASSUME IInv, NEW n \in Seat, NEW x \in minted, ReceiveProposed(n, x)
    PROVE  IInv'
<1>1. PICK C : C = IF x.id \in seen[n] \cup IdsOf(card[n]) \cup IdsOf(cut[n])
                   THEN card[n] ELSE card[n] \cup {x}
  OBVIOUS
<1>2. /\ next_id' = [next_id EXCEPT ![n] = Bump(n, x.id)]
      /\ card' = [card EXCEPT ![n] = C]
      /\ parked' = [parked EXCEPT ![n] = parked[n] \ IdsOf(card'[n])]
      /\ UNCHANGED <<cut, seen, snap, inc, minted, chain, forgot>> /\ x.kind = "card"
  BY <1>1 DEF ReceiveProposed
<1>3. /\ C \subseteq {y \in card[n] \cup {x} : y.kind = "card"} /\ card[n] \subseteq C
      /\ cut[n] \subseteq {y \in cut[n] \cup {x} : y.kind = "cut"} /\ cut' = [cut EXCEPT ![n] = cut[n]]
  BY <1>1, <1>2 DEF IInv, TypeOK
<1>4. PICK P : P = parked[n] \ IdsOf(card'[n]) /\ P \subseteq parked[n] \cup {x.id}
  OBVIOUS
<1>5. parked' = [parked EXCEPT ![n] = P] /\ UNCHANGED <<seen, snap, inc, minted, chain, forgot>>
  BY <1>2, <1>4
<1>6. PICK K : K = cut[n]
  OBVIOUS
<1>7. /\ K \subseteq {y \in cut[n] \cup {x} : y.kind = "cut"} /\ cut' = [cut EXCEPT ![n] = K]
      /\ next_id' = [next_id EXCEPT ![n] = Bump(n, x.id)] /\ card' = [card EXCEPT ![n] = C]
  BY <1>2, <1>3, <1>6
<1>8. C \subseteq {y \in card[n] \cup {x} : y.kind = "card"} /\ card[n] \subseteq C
  BY <1>3
<1>9. P \subseteq parked[n] \cup {x.id}
  BY <1>4
<1> QED
  BY <1>5, <1>7, <1>8, <1>9, HearStep

LEMMA ReceiveCutIInv ==
    ASSUME IInv, NEW n \in Seat, NEW x \in minted, ReceiveCut(n, x)
    PROVE  IInv'
<1>1. TypeOK
  BY DEF IInv
<1>2. /\ next_id' = [next_id EXCEPT ![n] = Bump(n, x.id)] /\ x.kind = "cut"
      /\ cut' = cut \/ cut' = [cut EXCEPT ![n] = cut[n] \cup {x}]
      /\ UNCHANGED <<card, seen, parked, snap, inc, minted, chain, forgot>>
  BY DEF ReceiveCut
<1>3. PICK K : /\ K \subseteq {y \in cut[n] \cup {x} : y.kind = "cut"}
               /\ cut' = [cut EXCEPT ![n] = K]
  <2>1. CASE cut' = cut
    <3>1. cut' = [cut EXCEPT ![n] = cut[n]] /\ cut[n] \subseteq {y \in cut[n] \cup {x} : y.kind = "cut"}
      BY <1>1, <2>1 DEF TypeOK
    <3> QED
      BY <3>1
  <2>2. CASE cut' = [cut EXCEPT ![n] = cut[n] \cup {x}]
    <3>1. cut[n] \cup {x} \subseteq {y \in cut[n] \cup {x} : y.kind = "cut"}
      BY <1>1, <1>2 DEF TypeOK
    <3> QED
      BY <2>2, <3>1
  <2> QED
    BY <1>2, <2>1, <2>2
<1>4. /\ card' = [card EXCEPT ![n] = card[n]] /\ parked' = [parked EXCEPT ![n] = parked[n]]
      /\ card[n] \subseteq {y \in card[n] \cup {x} : y.kind = "card"}
  BY <1>1, <1>2 DEF TypeOK
<1> QED
  BY <1>2, <1>3, <1>4, HearStep

LEMMA ReceiveVerdictIInv ==
    ASSUME IInv, NEW n \in Seat, NEW x \in minted, ReceiveVerdict(n, x)
    PROVE  IInv'
<1>1. /\ next_id' = [next_id EXCEPT ![n] = Bump(n, x.id)]
      /\ parked' = [parked EXCEPT ![n] = parked[n] \cup {x.id}]
      /\ UNCHANGED <<card, cut, seen, snap, inc, minted, chain, forgot>>
  BY DEF ReceiveVerdict
<1>2. /\ card' = [card EXCEPT ![n] = card[n]] /\ cut' = [cut EXCEPT ![n] = cut[n]]
      /\ card[n] \subseteq {y \in card[n] \cup {x} : y.kind = "card"}
      /\ cut[n] \subseteq {y \in cut[n] \cup {x} : y.kind = "cut"}
  BY <1>1 DEF IInv, TypeOK
<1>3. PICK C, K, P : C = card[n] /\ K = cut[n] /\ P = parked[n] \cup {x.id}
  OBVIOUS
<1>4. /\ parked' = [parked EXCEPT ![n] = P] /\ P \subseteq parked[n] \cup {x.id}
      /\ UNCHANGED <<seen, snap, inc, minted, chain, forgot>>
  BY <1>1, <1>3
<1>5. /\ C \subseteq {y \in card[n] \cup {x} : y.kind = "card"} /\ card[n] \subseteq C
      /\ K \subseteq {y \in cut[n] \cup {x} : y.kind = "cut"}
      /\ card' = [card EXCEPT ![n] = C] /\ cut' = [cut EXCEPT ![n] = K]
  BY <1>2, <1>3
<1>6. next_id' = [next_id EXCEPT ![n] = Bump(n, x.id)]
  BY <1>1
<1> QED
  BY <1>4, <1>5, <1>6, HearStep

\* Seal and Adopt: the chain grows, and the counter passes its top.
LEMMA ChainStep ==
    ASSUME IInv, NEW n \in Seat, NEW S,
           S \subseteq IdsOf(chain'), chain \subseteq chain', chain' \subseteq minted,
           seen' = [seen EXCEPT ![n] = S], cut' = [cut EXCEPT ![n] = {}],
           NEW top \in S, IsTop(top, S), next_id' = [next_id EXCEPT ![n] = Bump(n, top)],
           UNCHANGED <<card, parked, snap, inc, minted, forgot>>
    PROVE  IInv'
<1>1. TypeOK /\ MintIsNew
  BY DEF IInv
<1>2. IdsOf(chain) \subseteq IdsOf(chain') /\ IdsOf(chain') \subseteq IdsOf(minted)
  BY DEF IdsOf
<1>3. S \subseteq Nat /\ next_id[n] \in Nat \ {0}
  BY <1>1, <1>2, IdsAreNat DEF TypeOK
<1>4. Bump(n, top) \in Nat \ {0} /\ Bump(n, top) > top /\ Bump(n, top) >= next_id[n]
  BY <1>3, BumpPasses
<1>5. TypeOK'
  <2>1. next_id' \in [Seat -> Nat \ {0}]
    BY <1>1, <1>4 DEF TypeOK
  <2>2. seen' \in [Seat -> SUBSET IdsOf(chain')]
    BY <1>1, <1>2 DEF TypeOK
  <2>3. cut' \in [Seat -> SUBSET {y \in minted' : y.kind = "cut"}]
    BY <1>1 DEF TypeOK
  <2> QED
    BY <1>1, <2>1, <2>2, <2>3 DEF TypeOK
<1>6. MintIsNew'
  <2>1. /\ seen'[n] = S /\ cut'[n] = {}
        /\ \A m \in Seat \ {n} : seen'[m] = seen[m] /\ cut'[m] = cut[m]
    BY <1>1 DEF TypeOK
  <2>2. \A m \in Seat : Own(m)' = Own(m)
    BY DEF Own
  <2>3. Known(n)' \subseteq Known(n) \cup S
    BY <2>1, <2>2 DEF Known, IdsOf
  <2>4. \A m \in Seat \ {n} : Known(m)' \subseteq Known(m)
    BY <2>1, <2>2 DEF Known, IdsOf
  <2>5. \A id \in S : id < Bump(n, top)
    <3> SUFFICES ASSUME NEW id \in S PROVE id < Bump(n, top)
      OBVIOUS
    <3>1. id \in Nat /\ top \in Nat /\ id <= top
      BY <1>3 DEF IsTop
    <3> QED
      BY <1>4, <3>1
  <2> QED
    BY <1>1, <1>3, <1>4, <2>3, <2>4, <2>5, CounterStep
<1> QED
  BY <1>5, <1>6, QuietStep

LEMMA SealIInv ==
    ASSUME IInv, NEW n \in Seat, Seal(n)
    PROVE  IInv'
<1>1. TypeOK
  BY DEF IInv
<1>2. PICK x \in card[n] : /\ seen[n] = IdsOf(chain)
                           /\ chain' = chain \cup {x}
                           /\ seen' = [seen EXCEPT ![n] = seen[n] \cup {x.id}]
  BY DEF Seal
<1>3. seen'[n] = seen[n] \cup {x.id}
  BY <1>1, <1>2 DEF TypeOK
<1>4. PICK top \in seen'[n] : IsTop(top, seen'[n]) /\ next_id' = [next_id EXCEPT ![n] = Bump(n, top)]
  BY DEF Seal
<1>5. UNCHANGED <<card, parked, snap, inc, minted, forgot>> /\ cut' = [cut EXCEPT ![n] = {}]
  BY DEF Seal
<1>6. seen[n] \cup {x.id} \subseteq IdsOf(chain') /\ chain \subseteq chain' /\ chain' \subseteq minted
  BY <1>1, <1>2 DEF TypeOK, IdsOf
<1> QED
  BY <1>2, <1>3, <1>4, <1>5, <1>6, ChainStep

LEMMA AdoptIInv ==
    ASSUME IInv, NEW n \in Seat, Adopt(n)
    PROVE  IInv'
<1>1. TypeOK
  BY DEF IInv
<1>2. seen' = [seen EXCEPT ![n] = IdsOf(chain)] /\ chain' = chain
  BY DEF Adopt
<1>3. seen'[n] = IdsOf(chain)
  BY <1>1, <1>2 DEF TypeOK
<1>4. PICK top \in seen'[n] : IsTop(top, seen'[n]) /\ next_id' = [next_id EXCEPT ![n] = Bump(n, top)]
  BY DEF Adopt
<1>5. UNCHANGED <<card, parked, snap, inc, minted, forgot>> /\ cut' = [cut EXCEPT ![n] = {}]
  BY DEF Adopt
<1>6. IdsOf(chain) \subseteq IdsOf(chain') /\ chain \subseteq chain' /\ chain' \subseteq minted
  BY <1>1, <1>2 DEF TypeOK
<1> QED
  BY <1>2, <1>3, <1>4, <1>5, <1>6, ChainStep

\* HeadMoves and Snapshot: nobody learns of an id.
LEMMA StillStep ==
    ASSUME IInv, NEW n \in Seat,
           \/ snap' = [snap EXCEPT ![n] = next_id[n]] /\ cut' = cut
           \/ snap' = snap /\ cut' = [cut EXCEPT ![n] = {}],
           UNCHANGED <<next_id, card, seen, parked, inc, minted, chain, forgot>>
    PROVE  IInv'
<1>1. TypeOK /\ MintIsNew
  BY DEF IInv
<1>2. TypeOK'
  BY <1>1 DEF TypeOK
<1>3. \A m \in Seat : cut'[m] \subseteq cut[m] /\ Own(m)' = Own(m)
  BY <1>1 DEF TypeOK, Own
<1>4. MintIsNew'
  <2>1. \A m \in Seat : Known(m)' \subseteq Known(m)
    BY <1>3 DEF Known, IdsOf
  <2>2. \A m \in Seat : \A id \in Known(m)' : id < next_id'[m]
    BY <1>1, <2>1, MintIsNewKnown
  <2> QED
    BY <2>2 DEF MintIsNew, Known
<1> QED
  BY <1>2, <1>4, QuietStep

LEMMA ReopenIInv ==
    ASSUME IInv, NEW n \in Seat, Reopen(n)
    PROVE  IInv'
<1> DEFINE floors == {snap[n]} \cup {id + 1 : id \in seen[n] \cup IdsOf(card[n])}
<1>1. PICK top \in floors : IsTop(top, floors) /\ next_id' = [next_id EXCEPT ![n] = top]
  BY DEF Reopen, ReplayedIds
<1>2. /\ parked' = [parked EXCEPT ![n] = {}] /\ cut' = [cut EXCEPT ![n] = {}]
      /\ forgot' = forgot \cup {x \in Own(n) : x.kind = "cut" /\ x.id >= next_id'[n]}
      /\ UNCHANGED <<card, seen, snap, inc, minted, chain>>
  BY DEF Reopen
<1>3. TypeOK /\ MintIsNew /\ OwnKept
  BY DEF IInv
<1>4. seen[n] \cup IdsOf(card[n]) \subseteq Nat /\ snap[n] \in Nat \ {0}
  BY <1>3, IdsAreNat DEF TypeOK
<1>5. floors \subseteq Nat \ {0}
  BY <1>4
<1>6. TypeOK'
  <2>1. next_id' \in [Seat -> Nat \ {0}]
    BY <1>1, <1>3, <1>5 DEF TypeOK
  <2>2. parked' \in [Seat -> SUBSET IdsOf(minted')]
    BY <1>2, <1>3 DEF TypeOK
  <2>3. cut' \in [Seat -> SUBSET {y \in minted' : y.kind = "cut"}]
    BY <1>2, <1>3 DEF TypeOK
  <2>4. forgot' \subseteq {y \in minted' : y.kind = "cut"}
    BY <1>2, <1>3 DEF TypeOK, Own
  <2> QED
    BY <1>2, <1>3, <2>1, <2>2, <2>3, <2>4 DEF TypeOK
<1>7. /\ next_id'[n] = top /\ parked'[n] = {} /\ cut'[n] = {}
      /\ \A m \in Seat \ {n} : /\ next_id'[m] = next_id[m] /\ parked'[m] = parked[m]
                               /\ cut'[m] = cut[m]
  BY <1>1, <1>2, <1>3 DEF TypeOK
<1>8. \A m \in Seat : Own(m)' = Own(m)
  BY <1>2 DEF Own
<1>9. \A id \in seen[n] \cup IdsOf(card[n]) : id < top
  <2> SUFFICES ASSUME NEW id \in seen[n] \cup IdsOf(card[n]) PROVE id < top
    OBVIOUS
  <2>1. id + 1 \in floors
    OBVIOUS
  <2>2. id + 1 <= top /\ id \in Nat /\ top \in Nat
    BY <1>1, <1>4, <1>5, <2>1 DEF IsTop
  <2> QED
    BY <2>2
<1>10. \A x \in Own(n) \ forgot' : x.id < top
  <2> SUFFICES ASSUME NEW x \in Own(n) \ forgot' PROVE x.id < top
    OBVIOUS
  <2>1. x \in minted /\ x.by = n /\ x.inc = inc[n] /\ x \in Card
    BY <1>3 DEF Own, TypeOK
  <2>2. CASE x.kind = "card"
    <3>1. x \in card[n]
      BY <1>3, <2>1, <2>2 DEF OwnKept
    <3> QED
      BY <1>9, <3>1 DEF IdsOf
  <2>3. CASE x.kind = "cut"
    <3>1. ~(x.id >= top)
      BY <1>2, <1>7, <2>3
    <3>2. x.id \in Nat /\ top \in Nat
      BY <1>1, <1>5, <2>1 DEF Card
    <3> QED
      BY <3>1, <3>2
  <2> QED
    BY <2>1, <2>2, <2>3 DEF Card
<1>11. MintIsNew'
  <2>1. ASSUME NEW m \in Seat, NEW id \in Known(m)' PROVE id < next_id'[m]
    <3>1. CASE m = n
      <4>1. id \in seen[n] \cup IdsOf(card[n]) \/ \E x \in Own(n) \ forgot' : id = x.id
        BY <1>2, <1>7, <1>8, <2>1, <3>1 DEF Known, IdsOf
      <4> QED
        BY <1>7, <1>9, <1>10, <3>1, <4>1
    <3>2. CASE m # n
      <4>1. Known(m)' \subseteq Known(m)
        BY <1>2, <1>7, <1>8, <3>2 DEF Known, IdsOf
      <4> QED
        BY <1>3, <1>7, <2>1, <3>2, <4>1, MintIsNewKnown
    <3> QED
      BY <3>1, <3>2
  <2> QED
    BY <2>1 DEF MintIsNew, Known
<1> QED
  BY <1>2, <1>6, <1>11, QuietStep

LEMMA RejoinIInv ==
    ASSUME IInv, NEW n \in Seat, Rejoin(n)
    PROVE  IInv'
<1>1. /\ inc' = [inc EXCEPT ![n] = inc[n] + 1]
      /\ next_id' = [next_id EXCEPT ![n] = 1] /\ snap' = [snap EXCEPT ![n] = 1]
      /\ card' = [card EXCEPT ![n] = {}] /\ seen' = [seen EXCEPT ![n] = {}]
      /\ parked' = [parked EXCEPT ![n] = {}] /\ cut' = [cut EXCEPT ![n] = {}]
      /\ UNCHANGED <<minted, chain, forgot>>
  BY DEF Rejoin
<1>2. TypeOK /\ MintIsNew /\ InClass /\ OwnKept /\ OneEach
  BY DEF IInv
<1>3. TypeOK'
  BY <1>1, <1>2 DEF TypeOK
<1>4. MintIsNew'
  <2>1. /\ card'[n] = {} /\ cut'[n] = {} /\ seen'[n] = {} /\ parked'[n] = {}
        /\ \A m \in Seat \ {n} : /\ card'[m] = card[m] /\ cut'[m] = cut[m] /\ seen'[m] = seen[m]
                                 /\ parked'[m] = parked[m] /\ next_id'[m] = next_id[m]
                                 /\ inc'[m] = inc[m]
    BY <1>1, <1>2 DEF TypeOK
  <2>2. Own(n)' = {}
    <3>1. SUFFICES ASSUME NEW x \in minted, x.by = n, x.inc = inc'[n] PROVE FALSE
      BY <1>1 DEF Own
    <3>2. x.inc <= inc[n] /\ inc'[n] = inc[n] + 1 /\ inc[n] \in Nat
      BY <1>1, <1>2, <3>1 DEF OwnKept, TypeOK
    <3> QED
      BY <1>2, <3>1, <3>2
  <2>3. Known(n)' = {}
    BY <2>1, <2>2 DEF Known, IdsOf
  <2>4. \A m \in Seat \ {n} : Known(m)' = Known(m)
    BY <1>1, <2>1 DEF Known, IdsOf, Own
  <2>5. \A m \in Seat : \A id \in Known(m)' : id < next_id'[m]
    BY <1>2, <2>1, <2>3, <2>4, MintIsNewKnown
  <2> QED
    BY <2>5 DEF MintIsNew, Known
<1>5. InClass' /\ OneEach'
  BY <1>1, <1>2 DEF InClass, OneEach, Class, Position, N
<1>6. OwnKept'
  <2> SUFFICES ASSUME NEW y \in minted
               PROVE  /\ y.inc <= inc'[y.by]
                      /\ y.inc = inc'[y.by] /\ y.kind = "card" => y \in card'[y.by]
    BY <1>1 DEF OwnKept
  <2>1. y.by \in Seat /\ y.inc \in Nat /\ y.inc <= inc[y.by] /\ inc[y.by] \in Nat
    BY <1>2 DEF OwnKept, TypeOK, Card
  <2>2. CASE y.by = n
    BY <1>1, <1>2, <2>1, <2>2 DEF TypeOK
  <2>3. CASE y.by # n
    BY <1>1, <1>2, <2>1, <2>3 DEF OwnKept, TypeOK
  <2> QED
    BY <2>2, <2>3
<1> QED
  BY <1>3, <1>4, <1>5, <1>6 DEF IInv

LEMMA StepIInv == IInv /\ [Next]_vars => IInv'
<1> SUFFICES ASSUME IInv, [Next]_vars PROVE IInv'
  OBVIOUS
<1>1. CASE UNCHANGED vars
  BY <1>1 DEF vars, IInv, TypeOK, MintIsNew, InClass, OwnKept, OneEach, Class, Position, N, Card, Own
<1>2. CASE Next
  <2>1. PICK n \in Seat :
            \/ Propose(n) \/ ProposeCut(n)
            \/ \E x \in minted : ReceiveProposed(n, x) \/ ReceiveCut(n, x) \/ ReceiveVerdict(n, x)
            \/ Seal(n) \/ HeadMoves(n) \/ Adopt(n) \/ Snapshot(n) \/ Reopen(n) \/ Rejoin(n)
    BY <1>2 DEF Next
  <2>2. CASE HeadMoves(n) \/ Snapshot(n)
    BY <2>2, StillStep DEF HeadMoves, Snapshot
  <2> QED
    BY <2>1, <2>2, ProposeIInv, ProposeCutIInv, ReceiveProposedIInv, ReceiveCutIInv,
       ReceiveVerdictIInv, SealIInv, AdoptIInv, ReopenIInv, RejoinIInv
<1> QED
  BY <1>1, <1>2

\* Every reachable state satisfies the invariant.
THEOREM IdsInvariant == Spec => []IInv
<1>1. Init => IInv
  BY InitIInv
<1>2. IInv /\ [Next]_vars => IInv'
  BY StepIInv
<1> QED
  BY <1>1, <1>2, PTL DEF Spec

\* Two seats never give one id to two changes, whatever the size of the roster
\* and whatever they have heard of each other; one device does so only with the
\* id of a cut that a kill made it forget (mint_proposal_id, the replay).
THEOREM NoCollision == Spec => []OneChangePerId
<1>1. IInv => OneChangePerId
  <2> SUFFICES ASSUME IInv, NEW x \in minted, NEW y \in minted, x.id = y.id
               PROVE  /\ x.by = y.by
                      /\ x.inc = y.inc => x = y \/ x \in forgot \/ y \in forgot
    BY DEF OneChangePerId
  <2>1. x.by \in Seat /\ y.by \in Seat /\ Class(x.by) = Class(y.by)
    BY DEF IInv, TypeOK, Card, InClass
  <2>2. x.by = y.by
    BY <2>1, ClassInjective
  <2> QED
    BY <2>2 DEF IInv, OneEach
<1> QED
  BY <1>1, IdsInvariant, PTL

\* A seat mints no id it has heard of or that its device gave before, but for
\* the cuts a kill made it forget, also right after a restart
\* (bump_next_id_past_chain, the replay of the log).
THEOREM MintsAreNew == Spec => []MintIsNew
<1>1. IInv => MintIsNew
  BY DEF IInv
<1> QED
  BY <1>1, IdsInvariant, PTL

\* minting_seat inverts mint_proposal_id.
THEOREM MintersAreKnown == Spec => []MinterIsKnown
<1>1. IInv => MinterIsKnown
  <2> SUFFICES ASSUME IInv, NEW x \in minted
               PROVE  MintingSeat(x.id) = {x.by}
    BY DEF MinterIsKnown
  <2>1. x.by \in Seat /\ x.id % N = Class(x.by)
    BY DEF IInv, TypeOK, Card, InClass
  <2>2. (((x.id % N) + N) - 1) % N = Position(x.by)
    BY <2>1, ClassTellsTheSeat
  <2> QED
    BY <2>1, <2>2, PositionInjective DEF MintingSeat
<1> QED
  BY <1>1, IdsInvariant, PTL

\* The state keeps its types.
THEOREM IdsTyped == Spec => []TypeOK
<1>1. IInv => TypeOK
  BY DEF IInv
<1> QED
  BY <1>1, IdsInvariant, PTL
=============================================================================
