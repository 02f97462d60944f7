--------------------------- MODULE Delivery_proofs ---------------------------
(***************************************************************************)
(* Proofs about Delivery, for any log, any window, any park and any number *)
(* of receivers, losses, kills and openings of the valve.                  *)
(*                                                                         *)
(* The state of a receiver is read together with H, what its engine has    *)
(* applied so far.  Good(r, H, strict) is the invariant of one receiver:   *)
(* every window it holds, saves or sends stands on H, and while strict (no *)
(* kill, no valve) the window is exactly what H makes it and H is in       *)
(* order.                                                                  *)
(***************************************************************************)
EXTENDS Delivery, FiniteSetTheorems, SequenceTheorems, WellFoundedInduction, TLAPS

-----------------------------------------------------------------------------
(***************************************************************************)
(* Numbers.                                                                *)
(***************************************************************************)

\* A set of natural numbers has a least element.
LEMMA LeastNat ==
    ASSUME NEW T \in SUBSET Nat, T # {}
    PROVE  \E x \in T : \A y \in T : x <= y
<1>1. PICK x \in T : \A y \in T : ~ (<<y, x>> \in OpToRel(<, Nat))
    BY NatLessThanWellFounded, WFMin
<1>2. \A y \in T : ~ (y < x)
    BY <1>1 DEF OpToRel
<1> QED BY <1>2

\* Min is the least element.
LEMMA MinFacts ==
    ASSUME NEW T \in SUBSET Nat, T # {}
    PROVE  Min(T) \in T /\ \A y \in T : Min(T) <= y
<1>1. \E x \in T : \A y \in T : x <= y
    BY LeastNat
<1> QED BY <1>1 DEF Min

\* Max is the greatest element of a bounded set.
LEMMA MaxFacts ==
    ASSUME NEW T \in SUBSET Nat, T # {}, NEW k \in Nat, \A x \in T : x <= k
    PROVE  Max(T) \in T /\ \A y \in T : y <= Max(T)
<1> DEFINE D == {k - x : x \in T}
<1>1. D \in SUBSET Nat /\ D # {}
    <2>1. \A x \in T : k - x \in Nat
        OBVIOUS
    <2>2. PICK x \in T : TRUE
        OBVIOUS
    <2>3. k - x \in D
        BY <2>2
    <2> QED BY <2>1, <2>3
<1>2. PICK d \in D : \A e \in D : d <= e
    BY <1>1, LeastNat
<1>3. PICK x \in T : d = k - x
    BY <1>2
<1>4. \A y \in T : k - x <= k - y
    BY <1>2, <1>3
<1>5. \A y \in T : x >= y
    BY <1>4
<1>6. \E z \in T : \A y \in T : z >= y
    BY <1>5
<1>7. Max(T) \in T /\ \A y \in T : Max(T) >= y
    BY <1>6 DEF Max
<1> QED BY <1>7

\* The width of the window is a number.
LEMMA WidthNat == Width \in Nat
BY WindowAssumption DEF Width

\* The own envelopes are positions of the log.
LEMMA AckableFacts ==
    /\ LogEnd \in Nat
    /\ \A x \in Seqs : x \in Nat /\ 1 <= x /\ x <= LogEnd
    /\ \A x \in Ackable : x \in Seqs /\ x \in Nat /\ 1 <= x
BY DeliveryAssumption DEF Seqs

\* prev_seq is 0 or the own envelope just before s.
LEMMA PrevFacts ==
    ASSUME NEW s \in Seqs
    PROVE  /\ Prev(s) \in Nat /\ Prev(s) < s
           /\ Prev(s) # 0 => Prev(s) \in Ackable
           /\ \A x \in Ackable : x < s => x <= Prev(s) /\ Prev(s) # 0
<1> DEFINE T == {0} \cup {x \in Ackable : x < s}
<1>1. s \in Nat /\ 1 <= s
    BY AckableFacts
<1>2. T \in SUBSET Nat /\ T # {} /\ \A x \in T : x <= s /\ x < s
    BY <1>1, AckableFacts
<1>3. Max(T) \in T /\ \A y \in T : y <= Max(T)
    BY <1>1, <1>2, MaxFacts
<1>4. Prev(s) = Max(T)
    BY DEF Prev
<1>5. \A x : x \in T <=> x = 0 \/ (x \in Ackable /\ x < s)
    OBVIOUS
<1> HIDE DEF T
<1> QED BY <1>1, <1>2, <1>3, <1>4, <1>5, AckableFacts

-----------------------------------------------------------------------------
(***************************************************************************)
(* The drain.                                                              *)
(***************************************************************************)

\* The function that the fold of Drain chooses, and the equation it solves:
\* the value at a set of rounds is one more round after the others.
Rounds(st, f, D) ==
    f = [s \in D |-> IF s = {} THEN st
                     ELSE TakeReady(f[s \ {Max(s)}], [i \in 1 .. Cardinality(st.r.park) |-> i][Max(s)])]

\* Drain is that function at the set of all its rounds.
LEMMA DrainUnfolds ==
    ASSUME NEW st
    PROVE  LET N == Cardinality(st.r.park)
           IN  Drain(st) = (CHOOSE f : Rounds(st, f, SUBSET (1 .. N)))[1 .. N]
BY DEF Drain, FoldLeft, MapThenFoldSet, Rounds

\* A set of rounds has a last one.
LEMMA LastRound ==
    ASSUME NEW N \in Nat, NEW s \in SUBSET (1 .. N), s # {}
    PROVE  /\ Max(s) \in s /\ IsFiniteSet(s)
           /\ IsFiniteSet(s \ {Max(s)}) /\ Cardinality(s \ {Max(s)}) = Cardinality(s) - 1
<1>1. Max(s) \in s
    BY MaxFacts
<1>2. IsFiniteSet(s)
    <2>1. IsFiniteSet(1 .. N)
        BY FS_Interval
    <2> QED BY <2>1, FS_Subset
<1> QED BY <1>1, <1>2, FS_RemoveElement

\* The equation has a solution on the sets of up to k rounds, for every k:
\* one for k + 1 is built from one for k.
LEMMA RoundsExist ==
    ASSUME NEW st, Cardinality(st.r.park) \in Nat
    PROVE  \E f : Rounds(st, f, SUBSET (1 .. Cardinality(st.r.park)))
<1> DEFINE N == Cardinality(st.r.park)
           D(k) == {s \in SUBSET (1 .. N) : Cardinality(s) <= k}
           Bad == {k \in Nat : ~ \E f : Rounds(st, f, D(k))}
           Body(f, s) == IF s = {} THEN st
                         ELSE TakeReady(f[s \ {Max(s)}], [i \in 1 .. N |-> i][Max(s)])
<1>0. \A s \in SUBSET (1 .. N) : IsFiniteSet(s) /\ Cardinality(s) \in Nat /\ Cardinality(s) <= N
    <2>1. IsFiniteSet(1 .. N) /\ Cardinality(1 .. N) = N
        BY FS_Interval
    <2> QED BY <2>1, FS_Subset, FS_CardinalityType
<1>1. Bad = {}
    <2>1. SUFFICES ASSUME Bad # {} PROVE FALSE
        OBVIOUS
    <2>2. PICK k \in Bad : \A j \in Bad : k <= j
        BY <2>1, LeastNat
    <2>3. k # 0
        <3> DEFINE f == [s \in D(0) |-> st]
        <3>1. \A s \in D(0) : s = {}
            BY <1>0, FS_EmptySet
        <3>2. Rounds(st, f, D(0))
            BY <3>1 DEF Rounds
        <3> QED BY <2>2, <3>2
    <2>4. PICK g : Rounds(st, g, D(k - 1))
        <3>1. k - 1 \in Nat /\ k - 1 \notin Bad
            <4> HIDE DEF Bad
            <4>1. k \in Nat
                BY <2>2 DEF Bad
            <4> QED BY <2>2, <2>3, <4>1
        <3> HIDE DEF D
        <3> QED BY <3>1
    <2>5. g = [s \in D(k - 1) |-> Body(g, s)]
        BY <2>4 DEF Rounds
    <2> DEFINE f == [s \in D(k) |-> Body(g, s)]
    <2>6. ASSUME NEW s \in D(k), s # {} PROVE s \ {Max(s)} \in D(k - 1)
        <3>1. /\ Max(s) \in s /\ Cardinality(s \ {Max(s)}) = Cardinality(s) - 1
            BY <2>6, LastRound
        <3> QED BY <1>0, <2>2, <3>1
    <2>7. \A s \in D(k - 1) : f[s] = g[s]
        <3>1. \A s \in D(k - 1) : s \in D(k)
            BY <1>0, <2>2
        <3> HIDE DEF D, Body
        <3> QED BY <2>5, <3>1
    <2>8. ASSUME NEW s \in D(k) PROVE Body(g, s) = Body(f, s)
        <3>1. CASE s = {}
            BY <3>1
        <3>2. CASE s # {}
            <4>1. f[s \ {Max(s)}] = g[s \ {Max(s)}]
                BY <2>6, <2>7, <3>2
            <4> HIDE DEF f
            <4> QED BY <4>1
        <3> QED BY <3>1, <3>2
    <2>9. f = [s \in D(k) |-> Body(f, s)]
        <3> HIDE DEF Body, D
        <3> QED BY <2>8
    <2>10. Rounds(st, f, D(k))
        <3> HIDE DEF f
        <3> QED BY <2>9 DEF Rounds
    <2> QED BY <2>2, <2>10
<1>2. D(N) = SUBSET (1 .. N)
    BY <1>0
<1>3. \E f : Rounds(st, f, D(N))
    BY <1>1
<1> QED BY <1>2, <1>3

\* What holds before the drain and is kept by each round holds after it.
LEMMA DrainKeeps ==
    ASSUME NEW st, Cardinality(st.r.park) \in Nat, NEW G, st \in G,
           \A x \in G : \A i : TakeReady(x, i) \in G
    PROVE  Drain(st) \in G
<1> DEFINE N == Cardinality(st.r.park)
           f == CHOOSE g : Rounds(st, g, SUBSET (1 .. N))
           Bad == {k \in Nat : \E s \in SUBSET (1 .. N) : Cardinality(s) = k /\ f[s] \notin G}
<1>1. Rounds(st, f, SUBSET (1 .. N))
    BY RoundsExist
<1>2. \A s \in SUBSET (1 .. N) :
        f[s] = IF s = {} THEN st ELSE TakeReady(f[s \ {Max(s)}], [i \in 1 .. N |-> i][Max(s)])
    <2> HIDE DEF f
    <2> QED BY <1>1 DEF Rounds
<1> HIDE DEF f
<1>3. Bad = {}
    <2>1. SUFFICES ASSUME Bad # {} PROVE FALSE
        OBVIOUS
    <2>2. PICK k \in Bad : \A j \in Bad : k <= j
        BY <2>1, LeastNat
    <2>3. PICK s \in SUBSET (1 .. N) : Cardinality(s) = k /\ f[s] \notin G
        BY <2>2
    <2>4. s # {}
        BY <1>2, <2>3
    <2> DEFINE t == s \ {Max(s)}
    <2>5. IsFiniteSet(t) /\ Cardinality(t) = k - 1 /\ t \in SUBSET (1 .. N)
        BY <2>3, <2>4, LastRound
    <2>6. k - 1 \in Nat
        BY <2>5, FS_CardinalityType
    <2>7. f[t] \in G
        BY <2>2, <2>5, <2>6
    <2>8. f[s] \in G
        BY <1>2, <2>3, <2>4, <2>7
    <2> QED BY <2>3, <2>8
<1>4. 1 .. N \in SUBSET (1 .. N) /\ Cardinality(1 .. N) \in Nat
    <2>1. IsFiniteSet(1 .. N)
        BY FS_Interval
    <2> QED BY <2>1, FS_CardinalityType
<1>5. f[1 .. N] \in G
    BY <1>3, <1>4
<1> QED BY <1>5, DrainUnfolds DEF f

-----------------------------------------------------------------------------
(***************************************************************************)
(* The invariant of one receiver.                                          *)
(***************************************************************************)
Recv == [win : Window, winDisk : Window, used : SUBSET Nat, usedDisk : SUBSET Nat,
         park : SUBSET Seqs, full : BOOLEAN, due : BOOLEAN, sheet : Window]

Applied(H) == {H[i] : i \in DOMAIN H}

\* What a window marks was applied, and lies in its width.
Stands(w, H) ==
    /\ w.high > 0 => w.high \in Applied(H)
    /\ \A s \in w.marks : s \in Applied(H) /\ w.high - s \in 0 .. Width

\* v is w, later.
Covers(v, w) ==
    w.high <= v.high /\ \A s \in Seqs : IsAccepted(w, s) => IsAccepted(v, s)

\* The window forgets nothing that was applied, until it ages out.
Exact(w, H) ==
    \A x \in Applied(H) : x <= w.high /\ (x >= w.high - Width => x \in w.marks)

\* Between the baseline and the high mark everything was applied; and whoever
\* was let in below the baseline had all of its predecessors, or they had aged.
NoGap(w, H) ==
    H # <<>> => \A x \in Ackable \ Applied(H) :
        /\ x < H[1] \/ w.high < x
        /\ \A y \in Applied(H) : y < H[1] /\ x < y => x < w.high - Width

\* InOrderFromTheBaseline, of one receiver.
Pair(H, i, j) ==
    LET a == H[i]
        b == H[j]
        base == H[1]
    IN  i < j => /\ a # b
                 /\ b < a => b < base /\ a >= base
                 /\ (b # base /\ Prev(b) # 0) =>
                        \E k \in 1 .. j - 1 :
                            \/ H[k] = Prev(b)
                            \/ b < base /\ Prev(b) < H[k] - Width

InOrder(H) == \A i, j \in DOMAIN H : Pair(H, i, j)

Strict(w, H) == Exact(w, H) /\ NoGap(w, H) /\ InOrder(H)

Own(L) == {s \in Ackable : s <= L}

Good(r, H, L, strict) ==
    /\ \A s \in r.park : s \in Own(L)
    /\ \A s \in Applied(H) : s \in Own(L)
    /\ Stands(r.win, H) /\ Stands(r.winDisk, H) /\ Stands(r.sheet, H)
    /\ Covers(r.win, r.sheet)
    /\ strict => Strict(r.win, H)

\* Accepting one more seq: the high mark, the marks, and nothing is taken back.
LEMMA AcceptFacts ==
    ASSUME NEW w \in Window, NEW b \in Seqs
    PROVE  LET v == AcceptSeq(w, b)
           IN  /\ v \in Window /\ v.high \in Nat /\ v.high >= w.high /\ v.high >= b
               /\ v.high = b \/ v.high = w.high
               /\ \A x \in Seqs : x \in v.marks <=> (x \in w.marks \/ x = b) /\ x >= v.high - Width
               /\ Covers(v, w)
<1> DEFINE v == AcceptSeq(w, b)
<1>0. w.high \in Nat /\ b \in Nat /\ w.marks \in SUBSET Seqs /\ b \in Seqs /\ 1 <= b /\ Width \in Nat
    BY AckableFacts, WidthNat DEF Window
<1>1. v = [high |-> v.high, marks |-> {x \in w.marks \cup {b} : x >= v.high - Width}]
      /\ v.high = IF b > w.high THEN b ELSE w.high
    BY <1>0 DEF AcceptSeq
<1>2. v.high \in Nat /\ v.high >= w.high /\ v.high >= b /\ (v.high = b \/ v.high = w.high) /\ v.high > 0
    BY <1>0, <1>1
<1>3. \A x : x \in v.marks <=> (x \in w.marks \/ x = b) /\ x >= v.high - Width
    <2> HIDE DEF v
    <2> QED BY <1>1
<1>4. v \in Window
    <2> HIDE DEF v
    <2>1. {x \in w.marks \cup {b} : x >= v.high - Width} \in SUBSET Seqs
        BY <1>0
    <2>2. v.marks = {x \in w.marks \cup {b} : x >= v.high - Width}
        BY <1>1
    <2> QED BY <1>1, <1>2, <2>1, <2>2 DEF Window
<1>5. Covers(v, w)
    <2> HIDE DEF v
    <2>1. \A s \in Seqs : s \in Nat
        BY AckableFacts
    <2> QED BY <1>0, <1>2, <1>3, <2>1 DEF Covers, IsAccepted
<1> HIDE DEF v
<1>6. \A x \in Seqs : x \in v.marks <=> (x \in w.marks \/ x = b) /\ x >= v.high - Width
    BY <1>3
<1> QED BY <1>2, <1>4, <1>5, <1>6 DEF v

\* One more envelope applied.
LEMMA AppliedAppend ==
    ASSUME NEW H \in Seq(Seqs), NEW b \in Seqs
    PROVE  LET K == Append(H, b)
           IN  /\ K \in Seq(Seqs) /\ Len(K) = Len(H) + 1 /\ Len(H) \in Nat
               /\ DOMAIN K = 1 .. Len(H) + 1 /\ DOMAIN H = 1 .. Len(H)
               /\ \A i \in 1 .. Len(H) : K[i] = H[i]
               /\ K[Len(H) + 1] = b
               /\ \A x : x \in Applied(K) <=> x \in Applied(H) \/ x = b
               /\ \A x \in Applied(H) : x \in Seqs /\ x \in Nat /\ 1 <= x
<1> DEFINE K == Append(H, b)
<1>1. /\ K \in Seq(Seqs) /\ Len(K) = Len(H) + 1 /\ Len(H) \in Nat
      /\ DOMAIN K = 1 .. Len(H) + 1 /\ DOMAIN H = 1 .. Len(H)
      /\ \A i \in 1 .. Len(H) : K[i] = H[i]
      /\ K[Len(H) + 1] = b
    OBVIOUS
<1> HIDE DEF K
<1>2. ASSUME NEW x PROVE x \in Applied(K) <=> x \in Applied(H) \/ x = b
    <2>1. ASSUME x \in Applied(K) PROVE x \in Applied(H) \/ x = b
        <3>1. PICK i \in 1 .. Len(H) + 1 : x = K[i]
            BY <1>1, <2>1 DEF Applied
        <3>2. i = Len(H) + 1 \/ i \in 1 .. Len(H)
            BY <1>1, <3>1
        <3> QED BY <1>1, <3>1, <3>2 DEF Applied
    <2>2. ASSUME x \in Applied(H) PROVE x \in Applied(K)
        <3>1. PICK i \in 1 .. Len(H) : x = H[i]
            BY <1>1, <2>2 DEF Applied
        <3>2. i \in 1 .. Len(H) + 1 /\ K[i] = x
            BY <1>1, <3>1
        <3> QED BY <1>1, <3>2 DEF Applied
    <2>3. b \in Applied(K)
        <3>1. Len(H) + 1 \in 1 .. Len(H) + 1
            BY <1>1
        <3> QED BY <1>1, <3>1 DEF Applied
    <2> QED BY <2>1, <2>2, <2>3
<1>3. ASSUME NEW x \in Applied(H) PROVE x \in Seqs /\ x \in Nat /\ 1 <= x
    <2>1. PICK i \in 1 .. Len(H) : x = H[i]
        BY <1>1 DEF Applied
    <2> QED BY <1>1, <2>1, AckableFacts
<1> QED BY <1>1, <1>2, <1>3 DEF K

\* A window stands on what it stood on, and on the seq it accepts.
LEMMA StandsAppend ==
    ASSUME NEW H \in Seq(Seqs), NEW b \in Seqs, NEW w \in Window, Stands(w, H)
    PROVE  Stands(w, Append(H, b)) /\ Stands(AcceptSeq(w, b), Append(H, b))
<1> DEFINE K == Append(H, b)
           v == AcceptSeq(w, b)
<1>1. \A x : x \in Applied(K) <=> x \in Applied(H) \/ x = b
    BY AppliedAppend
<1>2. /\ v \in Window /\ v.high \in Nat /\ v.high >= w.high /\ v.high >= b
      /\ v.high = b \/ v.high = w.high
      /\ \A x \in Seqs : x \in v.marks <=> (x \in w.marks \/ x = b) /\ x >= v.high - Width
    BY AcceptFacts
<1> HIDE DEF K, v
<1>3. Stands(w, K)
    BY <1>1 DEF Stands
<1>4. Stands(v, K)
    <2>0. b \in Nat /\ 1 <= b /\ w.high \in Nat /\ Width \in Nat
        BY AckableFacts, WidthNat DEF Window
    <2>1. v.high > 0 => v.high \in Applied(K)
        BY <1>1, <1>2, <2>0 DEF Stands
    <2>2. ASSUME NEW s \in v.marks PROVE s \in Applied(K) /\ v.high - s \in 0 .. Width
        <3>1. s \in Seqs /\ s \in Nat
            BY <1>2, AckableFacts DEF Window
        <3>2. (s \in w.marks \/ s = b) /\ s >= v.high - Width
            BY <1>2, <3>1, <2>2
        <3>3. s \in w.marks => s \in Applied(H) /\ w.high - s \in 0 .. Width
            BY DEF Stands
        <3>4. s <= v.high
            BY <1>2, <2>0, <3>1, <3>2, <3>3
        <3> QED BY <1>1, <1>2, <2>0, <3>1, <3>2, <3>3, <3>4
    <2> QED BY <2>1, <2>2 DEF Stands
<1> QED BY <1>3, <1>4 DEF K, v

\* cmd_net_delivered lets an envelope in that is not in the window and whose
\* predecessor is: what is strict stays strict.
LEMMA StrictAppend ==
    ASSUME NEW H \in Seq(Seqs), NEW b \in Ackable, NEW w \in Window, Stands(w, H),
           Strict(w, H), ~IsAccepted(w, b), \A x \in Applied(H) : x \in Ackable,
           Prev(b) = 0 \/ w.high = 0 \/ IsAccepted(w, Prev(b))
    PROVE  Strict(AcceptSeq(w, b), Append(H, b))
<1> DEFINE K == Append(H, b)
           v == AcceptSeq(w, b)
           n == Len(H)
<1>0. b \in Seqs /\ b \in Nat /\ 1 <= b /\ w.high \in Nat /\ Width \in Nat
    BY AckableFacts, WidthNat DEF Window
<1>1. /\ K \in Seq(Seqs) /\ Len(K) = n + 1 /\ n \in Nat
      /\ DOMAIN K = 1 .. n + 1 /\ DOMAIN H = 1 .. n
      /\ \A i \in 1 .. n : K[i] = H[i]
      /\ K[n + 1] = b
      /\ \A x : x \in Applied(K) <=> x \in Applied(H) \/ x = b
      /\ \A x \in Applied(H) : x \in Seqs /\ x \in Nat /\ 1 <= x
    BY <1>0, AppliedAppend
<1>2. /\ v \in Window /\ v.high \in Nat /\ v.high >= w.high /\ v.high >= b
      /\ v.high = b \/ v.high = w.high
      /\ \A x \in Seqs : x \in v.marks <=> (x \in w.marks \/ x = b) /\ x >= v.high - Width
    BY <1>0, AcceptFacts
<1>3. /\ Prev(b) \in Nat /\ Prev(b) < b
      /\ \A x \in Ackable : x < b => x <= Prev(b) /\ Prev(b) # 0
    BY <1>0, PrevFacts
<1> HIDE DEF K, v, n
<1>4. \A x \in Applied(H) : x <= w.high /\ (x >= w.high - Width => x \in w.marks)
    BY DEF Strict, Exact
<1>5. b \notin Applied(H)
    BY <1>0, <1>1, <1>4 DEF IsAccepted
<1>6. Exact(v, K)
    BY <1>0, <1>1, <1>2, <1>4 DEF Exact
<1>7. CASE n = 0
    <2>1. \A x : x \notin Applied(H)
        BY <1>1, <1>7 DEF Applied
    <2>2. v.high = b
        BY <1>0, <1>2, <2>1 DEF Stands
    <2>3. K[1] = b
        BY <1>1, <1>7
    <2>4. \A x \in Applied(K) : x = b
        BY <1>1, <2>1
    <2>5. NoGap(v, K)
        BY <1>0, <2>2, <2>3, <2>4, <1>1, AckableFacts DEF NoGap
    <2>6. InOrder(K)
        BY <1>1, <1>7 DEF InOrder, Pair
    <2> QED BY <1>6, <2>5, <2>6 DEF Strict, K, v
<1>8. CASE n > 0
    <2> DEFINE base == H[1]
    <2>1. base \in Applied(H) /\ K[1] = base /\ K # <<>> /\ H # <<>>
        <3>1. 1 \in 1 .. n
            BY <1>1, <1>8
        <3> QED BY <1>1, <3>1 DEF Applied
    <2>2. base \in Nat /\ base <= w.high /\ 1 <= base
        BY <1>1, <1>4, <2>1
    <2> HIDE DEF base
    <2>3. \A x \in Ackable : x \notin Applied(H) =>
            /\ x < base \/ w.high < x
            /\ \A y \in Applied(H) : y < base /\ x < y => x < w.high - Width
        BY <2>1 DEF Strict, NoGap, base
    <2>4. w.high \in Applied(H) /\ w.high > 0
        BY <1>0, <2>2 DEF Stands
    <2>5. b < base \/ w.high < b
        BY <1>5, <2>3
    <2>6. b >= w.high - Width
        BY <1>0, <2>4 DEF IsAccepted
    <2>7. Prev(b) # 0 => Prev(b) \in w.marks \/ Prev(b) < w.high - Width
        BY <2>4, <1>0 DEF IsAccepted
    <2>8. \A s \in w.marks : s \in Applied(H)
        BY DEF Stands
    <2>9. NoGap(v, K)
        <3>1. ASSUME NEW x \in Ackable, x \notin Applied(K)
              PROVE  x < base \/ v.high < x
            <4>0. x \in Nat /\ x \notin Applied(H) /\ x # b
                BY <1>1, <3>1, AckableFacts
            <4>1. x < base \/ w.high < x
                BY <2>3, <4>0
            <4>2. CASE w.high < x
                <5>1. w.high < b => w.high <= Prev(b) /\ Prev(b) # 0
                    BY <1>3, <2>4
                <5>2. Prev(b) \in w.marks => Prev(b) <= w.high
                    BY <1>4, <2>8
                <5>3. w.high < b => Prev(b) <= w.high
                    BY <1>0, <1>3, <5>1, <5>2, <2>7
                <5>4. ~ (w.high < b /\ x < b)
                    BY <1>3, <5>3, <4>2, <4>0, <1>0
                <5> QED BY <5>4, <4>0, <1>0, <1>2, <4>2
            <4> QED BY <4>1, <4>2
        <3>2. ASSUME NEW x \in Ackable, x \notin Applied(K), NEW y \in Applied(K), y < base, x < y
              PROVE  x < v.high - Width
            <4>0. x \in Nat /\ x \notin Applied(H) /\ x # b
                BY <1>1, <3>2, AckableFacts
            <4>1. CASE y \in Applied(H)
                <5>1. x < w.high - Width
                    BY <2>3, <4>0, <3>2, <4>1
                <5> QED BY <5>1, <4>0, <1>0, <1>2
            <4>2. CASE y = b
                <5>1. x <= Prev(b) /\ Prev(b) # 0
                    BY <1>3, <3>2, <4>2
                <5>2. CASE Prev(b) < w.high - Width
                    BY <5>1, <5>2, <4>0, <1>0, <1>2, <1>3
                <5>3. CASE Prev(b) \in w.marks
                    <6>1. Prev(b) \in Applied(H) /\ Prev(b) < base
                        BY <2>8, <5>3, <1>3, <3>2, <4>2, <1>0, <2>2
                    <6>2. x # Prev(b)
                        BY <6>1, <4>0
                    <6>3. x < Prev(b)
                        BY <5>1, <6>2, <4>0, <1>3
                    <6>4. x < w.high - Width
                        BY <2>3, <4>0, <6>1, <6>3
                    <6> QED BY <6>4, <4>0, <1>0, <1>2
                <5> QED BY <5>1, <5>2, <5>3, <2>7
            <4> QED BY <4>1, <4>2, <1>1
        <3> QED BY <3>1, <3>2, <2>1 DEF NoGap
    <2>10. InOrder(K)
        <3>1. SUFFICES ASSUME NEW i \in 1 .. n + 1, NEW j \in 1 .. n + 1, i < j PROVE Pair(K, i, j)
            BY <1>1 DEF InOrder, Pair
        <3>2. i \in 1 .. n
            BY <1>1, <3>1
        <3>3. CASE j \in 1 .. n
            <4>1. Pair(H, i, j)
                BY <3>2, <3>3, <1>1 DEF Strict, InOrder
            <4>2. \A k \in 1 .. j - 1 : K[k] = H[k]
                BY <1>1, <3>3
            <4>3. K[1] = H[1] /\ K[i] = H[i] /\ K[j] = H[j]
                BY <1>1, <1>8, <3>2, <3>3
            <4> QED BY <4>1, <4>2, <4>3 DEF Pair
        <3>4. CASE j = n + 1
            <4> DEFINE a == H[i]
            <4>1. a \in Applied(H) /\ K[i] = a /\ K[j] = b /\ K[1] = base
                BY <1>1, <3>2, <3>4, <2>1 DEF Applied
            <4>2. a \in Nat /\ a <= w.high
                BY <1>1, <1>4, <4>1
            <4> HIDE DEF a
            <4>3. a # b
                BY <1>5, <4>1
            <4>4. ASSUME b < a PROVE b < base /\ a >= base
                <5>1. b < base
                    BY <2>5, <4>2, <4>4, <1>0
                <5>2. ~ (a < base)
                    BY <2>3, <1>5, <4>1, <4>4, <2>6, <1>0
                <5> QED BY <5>1, <5>2, <4>2, <2>2
            <4>5. ASSUME Prev(b) # 0
                  PROVE  \E k \in 1 .. n : H[k] = Prev(b) \/ (b < base /\ Prev(b) < H[k] - Width)
                <5>1. CASE Prev(b) \in w.marks
                    <6>1. Prev(b) \in Applied(H)
                        BY <5>1, <2>8
                    <6> QED BY <6>1, <1>1 DEF Applied
                <5>2. CASE Prev(b) < w.high - Width
                    <6>1. ~ (w.high < b)
                        BY <1>3, <2>4, <5>2, <1>0
                    <6>2. b < base
                        BY <2>5, <6>1
                    <6>3. PICK k \in 1 .. n : H[k] = w.high
                        BY <2>4, <1>1 DEF Applied
                    <6> QED BY <6>2, <6>3, <5>2
                <5> QED BY <2>7, <4>5, <5>1, <5>2
            <4>6. Prev(b) # 0 => \E k \in 1 .. j - 1 : K[k] = Prev(b) \/ (b < base /\ Prev(b) < K[k] - Width)
                <5>1. j - 1 = n
                    BY <3>4, <1>1
                <5>2. \A k \in 1 .. n : K[k] = H[k]
                    BY <1>1
                <5> QED BY <4>5, <5>1, <5>2
            <4> QED BY <4>1, <4>3, <4>4, <4>6 DEF Pair
        <3> QED BY <3>1, <3>3, <3>4, <1>1
    <2> QED BY <1>6, <2>9, <2>10 DEF Strict, K, v
<1> QED BY <1>1, <1>7, <1>8

\* One envelope let in, and the receiver is as good as before.
LEMMA GoodAppend ==
    ASSUME NEW r \in Recv, NEW H \in Seq(Seqs), NEW L \in Nat, NEW strict \in BOOLEAN,
           Good(r, H, L, strict), NEW b \in Own(L), ~IsAccepted(r.win, b),
           strict => Prev(b) = 0 \/ r.win.high = 0 \/ IsAccepted(r.win, Prev(b))
    PROVE  LET q == [r EXCEPT !.win = AcceptSeq(@, b), !.due = TRUE]
           IN  q \in Recv /\ Good(q, Append(H, b), L, strict)
<1> DEFINE v == AcceptSeq(r.win, b)
           K == Append(H, b)
           q == [r EXCEPT !.win = AcceptSeq(@, b), !.due = TRUE]
<1>1. b \in Ackable /\ b \in Seqs /\ r.win \in Window /\ r.winDisk \in Window /\ r.sheet \in Window
    BY AckableFacts DEF Own, Recv
<1>2. v \in Window /\ Covers(v, r.win) /\ v.high \in Nat /\ r.win.high <= v.high
    BY <1>1, AcceptFacts DEF Window
<1> HIDE DEF v
<1>3. /\ q \in Recv /\ q.win = v /\ q.winDisk = r.winDisk /\ q.sheet = r.sheet /\ q.park = r.park
    BY <1>1, <1>2 DEF Recv, v
<1> HIDE DEF q
<1>4. \A x : x \in Applied(K) <=> x \in Applied(H) \/ x = b
    BY <1>1, AppliedAppend
<1>5. Stands(v, K) /\ Stands(r.winDisk, K) /\ Stands(r.sheet, K)
    BY <1>1, StandsAppend DEF Good, v
<1>6. Covers(v, r.sheet)
    <2>1. Covers(r.win, r.sheet)
        BY DEF Good
    <2>2. r.sheet.high \in Nat /\ r.win.high \in Nat
        BY <1>1 DEF Window
    <2> QED BY <1>2, <2>1, <2>2 DEF Covers
<1>7. strict => Strict(v, K)
    <2>1. \A x \in Applied(H) : x \in Ackable
        BY DEF Good, Own
    <2> QED BY <1>1, <2>1, StrictAppend DEF Good, v
<1> HIDE DEF K
<1>8. Good(q, K, L, strict)
    BY <1>3, <1>4, <1>5, <1>6, <1>7 DEF Good
<1> QED BY <1>3, <1>8 DEF q, K

-----------------------------------------------------------------------------
(***************************************************************************)
(* The steps of a receiver.  Reach(r, H, L, strict) are the receivers a    *)
(* step of r may go through, with what they apply on the way.              *)
(***************************************************************************)
Reach(r, H, L, strict) ==
    {x \in [r : Recv, out : Seq(Seqs)] :
        /\ Good(x.r, H \o x.out, L, strict)
        /\ x.r.sheet = r.sheet
        /\ r.due => x.r.due}

\* deliver_gated.
LEMMA DeliverGatedGood ==
    ASSUME NEW r, NEW H \in Seq(Seqs), NEW L \in Nat, NEW strict \in BOOLEAN,
           NEW x \in Reach(r, H, L, strict), NEW b \in Own(L),
           strict => Prev(b) = 0 \/ x.r.win.high = 0 \/ IsAccepted(x.r.win, Prev(b))
    PROVE  DeliverGated(x, b) \in Reach(r, H, L, strict)
<1> DEFINE y == DeliverGated(x, b)
<1>1. /\ x \in [r : Recv, out : Seq(Seqs)] /\ Good(x.r, H \o x.out, L, strict)
      /\ x.r.sheet = r.sheet /\ (r.due => x.r.due) /\ x.r \in Recv /\ x.out \in Seq(Seqs)
    BY DEF Reach
<1>4. CASE b \in Declines /\ x.r.full
    BY <1>4 DEF DeliverGated
<1>2. CASE ~ (b \in Declines /\ x.r.full) /\ IsAccepted(x.r.win, b)
    <2>1. /\ y = [x EXCEPT !.r.due = TRUE]
        BY <1>2 DEF DeliverGated
    <2> HIDE DEF y
    <2>2. /\ y.r \in Recv /\ y.out = x.out /\ y.r.win = x.r.win /\ y.r.winDisk = x.r.winDisk
          /\ y.r.sheet = x.r.sheet /\ y.r.park = x.r.park /\ y.r.due = TRUE
          /\ y \in [r : Recv, out : Seq(Seqs)]
        BY <1>1, <2>1 DEF Recv
    <2>3. Good(y.r, H \o y.out, L, strict)
        BY <1>1, <2>2 DEF Good
    <2> QED BY <1>1, <2>2, <2>3 DEF Reach, y
<1>3. CASE ~ (b \in Declines /\ x.r.full) /\ ~IsAccepted(x.r.win, b)
    <2> DEFINE q == [x.r EXCEPT !.win = AcceptSeq(@, b), !.due = TRUE]
    <2>1. y = [r |-> q, out |-> Append(x.out, b)]
        BY <1>3 DEF DeliverGated
    <2>2. q.sheet = x.r.sheet /\ q.due = TRUE
        BY <1>1 DEF Recv
    <2>3. b \in Seqs
        BY AckableFacts DEF Own
    <2>4. H \o x.out \in Seq(Seqs) /\ Append(x.out, b) \in Seq(Seqs)
        BY <1>1, <2>3
    <2>5. H \o Append(x.out, b) = Append(H \o x.out, b)
        BY <1>1, <2>3
    <2>6. q \in Recv /\ Good(q, Append(H \o x.out, b), L, strict)
        BY <1>1, <1>3, <2>4, GoodAppend
    <2> HIDE DEF q, y
    <2>7. y.r = q /\ y.out = Append(x.out, b) /\ y \in [r : Recv, out : Seq(Seqs)]
        BY <2>1, <2>4, <2>6
    <2> QED BY <1>1, <2>2, <2>5, <2>6, <2>7 DEF Reach, y
<1> QED BY <1>2, <1>3, <1>4

\* Taking an envelope out of the park, to deliver it.
Unpark(x, b) == [x EXCEPT !.r.park = @ \ {b}]

\* What is taken out of the park may be delivered, and no more has changed.
LEMMA UnparkGood ==
    ASSUME NEW r, NEW H \in Seq(Seqs), NEW L \in Nat, NEW strict \in BOOLEAN,
           NEW x \in Reach(r, H, L, strict), NEW b \in x.r.park
    PROVE  LET z == Unpark(x, b)
           IN  z \in Reach(r, H, L, strict) /\ z.r.win = x.r.win /\ b \in Own(L)
<1> DEFINE z == Unpark(x, b)
<1>1. /\ x \in [r : Recv, out : Seq(Seqs)] /\ Good(x.r, H \o x.out, L, strict)
      /\ x.r.sheet = r.sheet /\ (r.due => x.r.due) /\ x.r \in Recv /\ x.out \in Seq(Seqs)
    BY DEF Reach
<1>2. /\ z.r \in Recv /\ z.out = x.out /\ z.r.win = x.r.win /\ z.r.winDisk = x.r.winDisk
      /\ z.r.sheet = x.r.sheet /\ z.r.park = x.r.park \ {b} /\ z.r.due = x.r.due
      /\ z \in [r : Recv, out : Seq(Seqs)]
    BY <1>1 DEF Recv, Unpark
<1> HIDE DEF z
<1>3. Good(z.r, H \o z.out, L, strict)
    BY <1>1, <1>2 DEF Good
<1>4. b \in Own(L)
    BY <1>1 DEF Good
<1> QED BY <1>1, <1>2, <1>3, <1>4 DEF Reach, z

\* take_ready_parked.
LEMMA TakeReadyGood ==
    ASSUME NEW r, NEW H \in Seq(Seqs), NEW L \in Nat, NEW strict \in BOOLEAN,
           NEW x \in Reach(r, H, L, strict), NEW i
    PROVE  TakeReady(x, i) \in Reach(r, H, L, strict)
<1>1. CASE Ready(x.r) = {}
    BY <1>1 DEF TakeReady
<1>2. CASE Ready(x.r) # {}
    <2>0. PICK s : s = Min(Ready(x.r))
        OBVIOUS
    <2> DEFINE z == Unpark(x, s)
    <2>1. Ready(x.r) \in SUBSET Nat
        <3>1. \A t \in Ready(x.r) : t \in x.r.park
            BY DEF Ready
        <3>2. x.r.park \in SUBSET Seqs
            BY DEF Reach, Recv
        <3> QED BY <3>1, <3>2, AckableFacts
    <2>2. s \in Ready(x.r)
        BY <1>2, <2>0, <2>1, MinFacts
    <2>3. s \in x.r.park /\ (Prev(s) = 0 \/ IsAccepted(x.r.win, Prev(s)))
        BY <2>2 DEF Ready
    <2>4. TakeReady(x, i) = DeliverGated(z, s)
        BY <1>2, <2>0 DEF TakeReady, Unpark
    <2>5. z \in Reach(r, H, L, strict) /\ z.r.win = x.r.win /\ s \in Own(L)
        BY <2>3, UnparkGood
    <2> HIDE DEF z
    <2>6. DeliverGated(z, s) \in Reach(r, H, L, strict)
        BY <2>3, <2>5, DeliverGatedGood
    <2> QED BY <2>4, <2>6
<1> QED BY <1>1, <1>2

\* The drain, as far as it gets.
LEMMA DrainGood ==
    ASSUME NEW r, NEW H \in Seq(Seqs), NEW L \in Nat, NEW strict \in BOOLEAN,
           NEW x \in Reach(r, H, L, strict)
    PROVE  Drain(x) \in Reach(r, H, L, strict)
<1>1. Cardinality(x.r.park) \in Nat
    <2>1. IsFiniteSet(1 .. LogEnd)
        BY AckableFacts, FS_Interval
    <2>2. x.r.park \in SUBSET (1 .. LogEnd)
        BY DEF Reach, Recv, Seqs
    <2>3. IsFiniteSet(x.r.park)
        BY <2>1, <2>2, FS_Subset
    <2> QED BY <2>3, FS_CardinalityType
<1>2. \A y \in Reach(r, H, L, strict) : \A i : TakeReady(y, i) \in Reach(r, H, L, strict)
    BY TakeReadyGood
<1> HIDE DEF Reach
<1> QED BY <1>1, <1>2, DrainKeeps

\* The park takes in no more than the arriving envelope.
LEMMA ParkOrderedFacts ==
    ASSUME NEW r \in Recv, NEW s \in Seqs
    PROVE  LET q == ParkOrdered(r, s)
           IN  /\ q \in Recv /\ q.win = r.win /\ q.winDisk = r.winDisk /\ q.sheet = r.sheet
               /\ \A x \in q.park : x \in r.park \/ x = s
               /\ r.due => q.due
BY DEF ParkOrdered, Recv

\* A receiver that applied nothing yet in this step.
LEMMA ReachStart ==
    ASSUME NEW r \in Recv, NEW H \in Seq(Seqs), NEW L \in Nat, NEW strict \in BOOLEAN,
           Good(r, H, L, strict)
    PROVE  [r |-> r, out |-> <<>>] \in Reach(r, H, L, strict)
<1>1. H \o <<>> = H /\ <<>> \in Seq(Seqs)
    OBVIOUS
<1> QED BY <1>1 DEF Reach

\* cmd_net_delivered.
LEMMA NetDeliveredGood ==
    ASSUME NEW r \in Recv, NEW H \in Seq(Seqs), NEW L \in Nat, NEW strict \in BOOLEAN,
           Good(r, H, L, strict), NEW s \in Own(L)
    PROVE  NetDelivered(r, s) \in Reach(r, H, L, strict)
<1> DEFINE x == [r |-> r, out |-> <<>>]
<1>1. x \in Reach(r, H, L, strict) /\ x.r = r
    BY ReachStart
<1>2. CASE Prev(s) # 0 /\ r.win.high > 0 /\ ~IsAccepted(r.win, Prev(s))
    <2> DEFINE q == ParkOrdered(r, s)
    <2>1. NetDelivered(r, s) = [r |-> q, out |-> <<>>]
        BY <1>2 DEF NetDelivered
    <2>2. s \in Seqs
        BY AckableFacts DEF Own
    <2>3. /\ q \in Recv /\ q.win = r.win /\ q.winDisk = r.winDisk /\ q.sheet = r.sheet
          /\ \A t \in q.park : t \in r.park \/ t = s
          /\ r.due => q.due
        BY <2>2, ParkOrderedFacts
    <2> HIDE DEF q
    <2>4. Good(q, H, L, strict)
        BY <2>3 DEF Good
    <2>5. [r |-> q, out |-> <<>>] \in Reach(q, H, L, strict)
        BY <2>3, <2>4, ReachStart
    <2> QED BY <2>1, <2>3, <2>5 DEF Reach
<1>3. CASE ~ (Prev(s) # 0 /\ r.win.high > 0 /\ ~IsAccepted(r.win, Prev(s)))
    <2>1. NetDelivered(r, s) = Drain(DeliverGated(x, s))
        BY <1>3 DEF NetDelivered
    <2>2. r.win.high \in Nat
        BY DEF Recv, Window
    <2> HIDE DEF x
    <2>3. DeliverGated(x, s) \in Reach(r, H, L, strict)
        BY <1>1, <1>3, <2>2, DeliverGatedGood
    <2> QED BY <2>1, <2>3, DrainGood
<1> QED BY <1>2, <1>3

-----------------------------------------------------------------------------
(***************************************************************************)
(* The invariant.                                                          *)
(***************************************************************************)
Holds(w, s) == s <= w.high /\ IsAccepted(w, s)

\* The sender learns nothing from w: the first own envelope above the floor
\* is not in it.
Blocked(w, fl) ==
    \A s \in Ackable : fl < s => \E t \in Ackable : fl < t /\ t <= s /\ ~Holds(w, t)

ReceiversGood ==
    \A n \in Receiver : Good(recv[n], heard[n], len, crashes = 0 /\ valves = 0)

\* A sheet on its way stands on what its author applied; without a kill the
\* author's last sheet says at least as much.
SheetsStand ==
    \A k \in sheets : /\ Stands(k.w, heard[k.n])
                      /\ crashes = 0 => Covers(recv[k.n].sheet, k.w)

\* The last sheet is on its way, or the sender has nothing to learn from it.
LastSheetCounts ==
    crashes = 0 /\ lostSheets = 0 => \A n \in Receiver :
        \/ Blocked(recv[n].sheet, floor[n])
        \/ \E k \in sheets : k.n = n /\ k.w = recv[n].sheet

IInv ==
    /\ TypeOK /\ crashes \in Nat /\ valves \in Nat /\ lostSheets \in Nat
    /\ \A f \in frames : f.s \in Own(len)
    /\ ReceiversGood /\ SheetsStand /\ ConfirmedIsHeard /\ LastSheetCounts

\* Stated on a longer log or with less strictness, Good holds all the more.
LEMMA GoodMono ==
    ASSUME NEW r, NEW H, NEW L \in Nat, NEW M \in Nat, L <= M,
           NEW strict \in BOOLEAN, NEW weak \in BOOLEAN, weak => strict,
           Good(r, H, L, strict)
    PROVE  Good(r, H, M, weak)
<1>1. \A s \in Own(L) : s \in Own(M)
    BY AckableFacts DEF Own
<1> QED BY <1>1 DEF Good

\* What was applied stays applied.
LEMMA AppliedConcat ==
    ASSUME NEW H \in Seq(Seqs), NEW K \in Seq(Seqs)
    PROVE  /\ H \o K \in Seq(Seqs)
           /\ \A x \in Applied(H) : x \in Applied(H \o K)
<1>1. H \o K \in Seq(Seqs) /\ DOMAIN H = 1 .. Len(H) /\ DOMAIN (H \o K) = 1 .. Len(H) + Len(K)
      /\ Len(H) \in Nat /\ Len(K) \in Nat
    OBVIOUS
<1>2. \A i \in 1 .. Len(H) : (H \o K)[i] = H[i] /\ i \in 1 .. Len(H) + Len(K)
    BY <1>1
<1> QED BY <1>1, <1>2 DEF Applied

\* A window still stands when more is applied.
LEMMA StandsMono ==
    ASSUME NEW w, NEW H, NEW K, Stands(w, H), \A x \in Applied(H) : x \in Applied(K)
    PROVE  Stands(w, K)
BY DEF Stands

\* A later window holds what an earlier one held, and covering is transitive.
LEMMA CoversFacts ==
    ASSUME NEW u \in Window, NEW v \in Window, NEW w \in Window, Covers(u, v)
    PROVE  /\ Covers(v, w) => Covers(u, w)
           /\ \A s \in Seqs : Holds(v, s) => Holds(u, s)
<1>1. u.high \in Nat /\ v.high \in Nat /\ w.high \in Nat
    BY DEF Window
<1>2. \A s \in Seqs : s \in Nat
    BY AckableFacts
<1> QED BY <1>1, <1>2 DEF Covers, Holds

\* The floor moves forward over envelopes the window holds, and as far as
\* the log and the window allow.
LEMMA FloorFacts ==
    ASSUME NEW w, len \in Nat, NEW old \in 0 .. len
    PROVE  LET f == AdvanceAckedFloor(w, old)
           IN  /\ f \in old .. len
               /\ \A s \in Ackable : old < s /\ s <= f => Holds(w, s)
               /\ \A g \in old .. len :
                    (\A s \in Ackable : old < s /\ s <= g => Holds(w, s)) => g <= f
<1> DEFINE T == {old} \cup {f \in old .. len :
                    \A s \in Ackable : old < s /\ s <= f => Holds(w, s)}
           m == Max(T)
<1>1. AdvanceAckedFloor(w, old) = m
    BY DEF AdvanceAckedFloor, Holds
<1>2. \A f : f \in T <=> f = old \/ (f \in old .. len /\ \A s \in Ackable : old < s /\ s <= f => Holds(w, s))
    OBVIOUS
<1>3. old \in T /\ T # {}
    OBVIOUS
<1> HIDE DEF T
<1>4. T \in SUBSET Nat
    BY <1>2
<1>5. \A f \in T : f <= len
    BY <1>2
<1>6. m \in T /\ \A y \in T : y <= m
    BY <1>3, <1>4, <1>5, MaxFacts
<1> HIDE DEF m
<1>7. m \in old .. len
    BY <1>2, <1>6
<1>8. \A s \in Ackable : old < s /\ s <= m => Holds(w, s)
    BY <1>2, <1>6, <1>7, AckableFacts
<1>9. \A g \in old .. len : (\A s \in Ackable : old < s /\ s <= g => Holds(w, s)) => g <= m
    BY <1>2, <1>6
<1> QED BY <1>1, <1>7, <1>8, <1>9

\* What a standing window holds was applied, or lies below what was.
LEMMA HoldsIsHeard ==
    ASSUME NEW w \in Window, NEW H, Stands(w, H), NEW s \in Seqs, Holds(w, s)
    PROVE  s \in Applied(H) \/ \E b \in Applied(H) : s < b - Width
BY DEF Holds, IsAccepted, Stands, Window

\* A sheet the floor has advanced over teaches nothing more.
LEMMA AdvancedIsBlocked ==
    ASSUME NEW w \in Window, len \in Nat, w.high <= len, NEW old \in 0 .. len
    PROVE  Blocked(w, AdvanceAckedFloor(w, old))
<1> DEFINE f == AdvanceAckedFloor(w, old)
<1>1. /\ f \in old .. len
      /\ \A s \in Ackable : old < s /\ s <= f => Holds(w, s)
      /\ \A g \in old .. len :
            (\A s \in Ackable : old < s /\ s <= g => Holds(w, s)) => g <= f
    BY FloorFacts
<1> HIDE DEF f
<1>2. ASSUME NEW s \in Ackable, f < s, \A t \in Ackable : f < t /\ t <= s => Holds(w, t)
      PROVE  FALSE
    <2>1. s \in Nat /\ w.high \in Nat
        BY AckableFacts DEF Window
    <2>2. Holds(w, s)
        BY <1>2, <2>1
    <2>3. s \in old .. len
        BY <1>1, <1>2, <2>1, <2>2 DEF Holds
    <2>4. ASSUME NEW t \in Ackable, old < t, t <= s PROVE Holds(w, t)
        <3>1. t \in Nat
            BY AckableFacts
        <3> QED BY <1>1, <1>2, <2>4, <3>1
    <2>5. s <= f
        BY <1>1, <2>3, <2>4
    <2> QED BY <1>1, <1>2, <2>1, <2>5
<1> QED BY <1>2 DEF Blocked, f

\* Nothing to learn from a later window: the floor an earlier one leads to
\* passes no own envelope, and there is still nothing to learn.
LEMMA BlockedStays ==
    ASSUME NEW u \in Window, NEW w \in Window, Covers(u, w), len \in Nat,
           NEW old \in 0 .. len, Blocked(u, old)
    PROVE  /\ Blocked(u, AdvanceAckedFloor(w, old))
           /\ ~ \E s \in Ackable : old < s /\ s <= AdvanceAckedFloor(w, old)
<1> DEFINE f == AdvanceAckedFloor(w, old)
<1>1. /\ f \in old .. len
      /\ \A s \in Ackable : old < s /\ s <= f => Holds(w, s)
    BY FloorFacts
<1> HIDE DEF f
<1>2. \A s \in Seqs : Holds(w, s) => Holds(u, s)
    BY CoversFacts
<1>3. ASSUME NEW s \in Ackable, old < s, s <= f PROVE FALSE
    <2>1. PICK t \in Ackable : old < t /\ t <= s /\ ~Holds(u, t)
        BY <1>3 DEF Blocked
    <2>2. t \in Seqs /\ t \in Nat /\ s \in Nat
        BY AckableFacts
    <2> QED BY <1>1, <1>2, <1>3, <2>1, <2>2
<1>4. ASSUME NEW s \in Ackable, f < s
      PROVE  \E t \in Ackable : f < t /\ t <= s /\ ~Holds(u, t)
    <2>1. s \in Nat
        BY AckableFacts
    <2>2. PICK t \in Ackable : old < t /\ t <= s /\ ~Holds(u, t)
        BY <1>1, <1>4, <2>1 DEF Blocked
    <2>3. t \in Nat
        BY AckableFacts
    <2> QED BY <1>1, <1>3, <2>2, <2>3
<1> QED BY <1>3, <1>4 DEF Blocked, f

\* The receivers are typed as Recv says.
LEMMA TypeFacts ==
    ASSUME TypeOK
    PROVE  /\ len \in Nat /\ recv \in [Receiver -> Recv] /\ heard \in [Receiver -> Seq(Seqs)]
           /\ floor \in [Receiver -> 0 .. len]
           /\ \A k \in sheets : k.n \in Receiver /\ k.w \in Window /\ k = [n |-> k.n, w |-> k.w]
<1>1. len \in Nat /\ recv \in [Receiver -> Recv] /\ heard \in [Receiver -> Seq(Seqs)]
      /\ floor \in [Receiver -> 0 .. len]
    BY AckableFacts DEF TypeOK, Recv
<1>2. sheets \in SUBSET [n : Receiver, w : Window]
    BY DEF TypeOK
<1> QED BY <1>1, <1>2

\* The marks of a standing window lie in its width: the receivers' part of
\* TypeOK follows from the rest of the invariant.
LEMMA WidthOK ==
    ASSUME NEW r, NEW H, NEW L, NEW strict, Good(r, H, L, strict)
    PROVE  \A s \in r.win.marks : r.win.high - s \in 0 .. Width
BY DEF Good, Stands

\* A step of the sender, or a foreign envelope: no receiver moves.
LEMMA SenderStep ==
    ASSUME IInv, TypeOK',
           recv' = recv, heard' = heard, sheets' = sheets, floor' = floor,
           len <= len', crashes' \in Nat, crashes <= crashes',
           valves' = valves, lostSheets' = lostSheets,
           \A f \in frames' : f.s \in Own(len')
    PROVE  IInv'
<1>1. len \in Nat /\ len' \in Nat /\ crashes \in Nat
    BY AckableFacts DEF IInv, TypeOK
<1>2. ReceiversGood'
    <2>1. ASSUME NEW n \in Receiver
          PROVE  Good(recv[n], heard[n], len', crashes' = 0 /\ valves = 0)
        <3>1. Good(recv[n], heard[n], len, crashes = 0 /\ valves = 0)
            BY DEF IInv, ReceiversGood
        <3>2. crashes' = 0 => crashes = 0
            BY <1>1
        <3> QED BY <1>1, <3>1, <3>2, GoodMono
    <2>2. ASSUME NEW n \in Receiver
          PROVE  Good(recv'[n], heard'[n], len', crashes' = 0 /\ valves' = 0)
        <3>1. recv'[n] = recv[n] /\ heard'[n] = heard[n] /\ (valves' = 0) = (valves = 0)
            OBVIOUS
        <3> QED BY <2>1, <3>1
    <2> QED BY <2>2 DEF ReceiversGood
<1>3. SheetsStand'
    BY <1>1 DEF IInv, SheetsStand
<1>4. ConfirmedIsHeard'
    BY DEF IInv, ConfirmedIsHeard, HeardSet
<1>5. LastSheetCounts'
    BY <1>1 DEF IInv, LastSheetCounts
<1>6. valves' \in Nat /\ lostSheets' \in Nat
    BY DEF IInv
<1> QED BY <1>2, <1>3, <1>4, <1>5, <1>6 DEF IInv

\* The log grows.
LEMMA RecordInv == ASSUME IInv, Record PROVE IInv'
<1>1. len \in Nat /\ len' = len + 1 /\ len' \in 0 .. LogEnd
    BY AckableFacts DEF IInv, TypeOK, Record
<1>2. TypeOK'
    <2>1. floor' \in [Receiver -> 0 .. len']
        BY <1>1 DEF IInv, TypeOK, Record
    <2> QED BY <1>1, <2>1 DEF IInv, TypeOK, Record
<1>3. \A f \in frames' : f.s \in Own(len')
    BY <1>1, AckableFacts DEF IInv, Own, Record
<1> QED BY <1>1, <1>2, <1>3, SenderStep DEF IInv, Record, bounds

\* One envelope of the pass.
LEMMA PublishInv == ASSUME IInv, Publish PROVE IInv'
<1>1. /\ len \in Nat /\ through \in Nat /\ through < len /\ through' = through + 1 /\ len' = len
      /\ through \in 0 .. len /\ cursor \in 0 .. through /\ cursor' = cursor /\ gen \in Nat
    BY AckableFacts DEF IInv, TypeOK, Publish
<1>2. /\ frames' \in SUBSET [g : Nat, s : Seqs, to : SUBSET Receiver]
      /\ gen' \in Nat /\ gen' >= gen
      /\ \A f \in frames' : f.s \in Own(len')
    <2>1. CASE through + 1 \notin Ackable
        BY <1>1, <2>1 DEF IInv, TypeOK, Publish
    <2>3. CASE frames' = frames /\ gen' = gen
        BY <1>1, <2>3 DEF IInv, TypeOK, Publish
    <2>2. CASE through + 1 \in Ackable /\ ~ (frames' = frames /\ gen' = gen)
        <3>1. PICK L \in SUBSET Receiver :
                frames' = frames \cup {[g |-> gen, s |-> through + 1, to |-> Receiver \ L]}
                /\ gen' = gen + 1
            BY <2>2 DEF Publish
        <3>2. through + 1 \in Own(len') /\ through + 1 \in Seqs
            BY <1>1, <2>2, AckableFacts DEF Own
        <3>3. frames \in SUBSET [g : Nat, s : Seqs, to : SUBSET Receiver]
            BY DEF IInv, TypeOK
        <3>4. \A f \in frames : f.s \in Own(len')
            BY <1>1 DEF IInv
        <3>5. [g |-> gen, s |-> through + 1, to |-> Receiver \ L]
                \in [g : Nat, s : Seqs, to : SUBSET Receiver]
            BY <1>1, <3>2
        <3> QED BY <1>1, <3>1, <3>2, <3>3, <3>4, <3>5
    <2> QED BY <2>1, <2>2, <2>3
<1>3. TypeOK'
    <2>1. through' \in 0 .. len' /\ cursor' \in 0 .. through'
        BY <1>1
    <2>2. genDisk' \in 0 .. gen'
        BY <1>1, <1>2 DEF IInv, TypeOK, Publish
    <2> QED BY <1>2, <2>1, <2>2 DEF IInv, TypeOK, Publish
<1>4. crashes' \in Nat /\ crashes <= crashes'
    BY DEF IInv, Publish
<1> QED BY <1>1, <1>2, <1>3, <1>4, SenderStep DEF Publish

\* The end of a pass.
LEMMA PersistCursorInv == ASSUME IInv, PersistCursor PROVE IInv'
<1>1. TypeOK'
    BY AckableFacts DEF IInv, TypeOK, PersistCursor
<1>2. len \in Nat
    BY AckableFacts DEF IInv, TypeOK
<1> QED BY <1>1, <1>2, SenderStep DEF IInv, PersistCursor, bounds

\* The rewind starts from a position of the log.
LEMMA RewindInv == ASSUME IInv, Rewind PROVE IInv'
<1>1. GroupFloor \in 0 .. len
    <2> DEFINE T == {floor[n] : n \in ackSeen}
    <2>1. ackSeen \in SUBSET Receiver /\ ackSeen # {} /\ floor \in [Receiver -> 0 .. len] /\ len \in Nat
        BY AckableFacts DEF IInv, TypeOK, Rewind
    <2>2. \A x \in T : x \in 0 .. len
        BY <2>1
    <2>3. T # {} /\ T \in SUBSET Nat
        BY <2>1, <2>2
    <2> HIDE DEF T
    <2>4. Min(T) \in T
        BY <2>3, MinFacts
    <2>5. GroupFloor = Min(T)
        BY DEF GroupFloor, T
    <2> QED BY <2>2, <2>4, <2>5
<1>2. TypeOK'
    BY <1>1, AckableFacts DEF IInv, TypeOK, Rewind
<1>3. len \in Nat
    BY AckableFacts DEF IInv, TypeOK
<1> QED BY <1>2, <1>3, SenderStep DEF IInv, Rewind, bounds

\* The sender's ratchet goes to disk.
LEMMA PersistMlsOfSenderInv == ASSUME IInv, PersistMlsOfSender PROVE IInv'
<1>1. TypeOK'
    BY DEF IInv, TypeOK, PersistMlsOfSender
<1>2. len \in Nat
    BY AckableFacts DEF IInv, TypeOK
<1> QED BY <1>1, <1>2, SenderStep DEF IInv, PersistMlsOfSender, bounds

\* The sender is killed.
LEMMA CrashOfSenderInv == ASSUME IInv, CrashOfSender PROVE IInv'
<1>1. TypeOK'
    BY AckableFacts DEF IInv, TypeOK, CrashOfSender
<1>2. len \in Nat /\ crashes \in Nat
    BY AckableFacts DEF IInv, TypeOK
<1> QED BY <1>1, <1>2, SenderStep DEF IInv, CrashOfSender

\* A receiver applies something.
LEMMA ReceiverStep ==
    ASSUME IInv, NEW n \in Receiver, NEW r, r.sheet = recv[n].sheet,
           NEW x \in Reach(r, heard[n], len, crashes = 0 /\ valves' = 0),
           recv' = [recv EXCEPT ![n] = x.r], heard' = [heard EXCEPT ![n] = @ \o x.out],
           UNCHANGED <<sender, frames, sheets, lostSheets, crashes>>,
           valves' \in Nat, valves <= valves'
    PROVE  IInv'
<1>0. /\ len \in Nat /\ recv \in [Receiver -> Recv] /\ heard \in [Receiver -> Seq(Seqs)]
      /\ floor \in [Receiver -> 0 .. len]
      /\ \A k \in sheets : k.n \in Receiver /\ k.w \in Window
    BY TypeFacts DEF IInv
<1>1. /\ x.r \in Recv /\ x.out \in Seq(Seqs) /\ x.r.sheet = recv[n].sheet
      /\ Good(x.r, heard[n] \o x.out, len, crashes = 0 /\ valves' = 0)
    BY DEF Reach
<1>2. /\ \A m \in Receiver : recv'[m] = IF m = n THEN x.r ELSE recv[m]
      /\ \A m \in Receiver : heard'[m] = IF m = n THEN heard[n] \o x.out ELSE heard[m]
      /\ len' = len /\ floor' = floor /\ sheets' = sheets /\ crashes' = crashes
      /\ lostSheets' = lostSheets
    BY <1>0 DEF sender
<1>3. \A m \in Receiver : \A y \in Applied(heard[m]) : y \in Applied(heard'[m])
    <2>1. \A y \in Applied(heard[n]) : y \in Applied(heard[n] \o x.out)
        BY <1>0, <1>1, AppliedConcat
    <2> QED BY <1>2, <2>1
<1>4. \A m \in Receiver : recv'[m].sheet = recv[m].sheet
    BY <1>1, <1>2
<1>5. ReceiversGood'
    <2>1. ASSUME NEW m \in Receiver
          PROVE  Good(recv'[m], heard'[m], len, crashes = 0 /\ valves' = 0)
        <3>1. CASE m = n
            BY <1>1, <1>2, <3>1
        <3>2. CASE m # n
            <4>1. Good(recv[m], heard[m], len, crashes = 0 /\ valves = 0)
                BY DEF IInv, ReceiversGood
            <4>2. valves' = 0 => valves = 0
                BY DEF IInv
            <4>3. Good(recv[m], heard[m], len, crashes = 0 /\ valves' = 0)
                BY <4>1, <4>2 DEF Good
            <4> QED BY <1>2, <3>2, <4>3
        <3> QED BY <3>1, <3>2
    <2> QED BY <1>2, <2>1 DEF ReceiversGood
<1>6. TypeOK'
    <2>1. heard[n] \o x.out \in Seq(Seqs)
        BY <1>0, <1>1
    <2>2. heard' \in [Receiver -> Seq(Seqs)]
        BY <1>0, <2>1
    <2>3. recv' \in [Receiver -> Recv]
        BY <1>0, <1>1
    <2>4. \A m \in Receiver : \A s \in recv'[m].win.marks : recv'[m].win.high - s \in 0 .. Width
        BY <1>5 DEF ReceiversGood, Good, Stands
    <2> QED BY <2>2, <2>3, <2>4 DEF IInv, TypeOK, Recv, sender
<1>7. SheetsStand'
    <2>1. ASSUME NEW k \in sheets
          PROVE  Stands(k.w, heard'[k.n]) /\ (crashes = 0 => Covers(recv'[k.n].sheet, k.w))
        <3>1. k.n \in Receiver /\ Stands(k.w, heard[k.n]) /\ (crashes = 0 => Covers(recv[k.n].sheet, k.w))
            BY <1>0 DEF IInv, SheetsStand
        <3>2. Stands(k.w, heard'[k.n])
            BY <1>3, <3>1, StandsMono
        <3> QED BY <1>4, <3>1, <3>2
    <2> QED BY <1>2, <2>1 DEF SheetsStand
<1>8. ConfirmedIsHeard'
    <2>1. \A m \in Receiver : HeardSet(m) = Applied(heard[m]) /\ HeardSet(m)' = Applied(heard'[m])
        BY DEF HeardSet, Applied
    <2> QED BY <1>2, <1>3, <2>1 DEF IInv, ConfirmedIsHeard
<1>9. LastSheetCounts'
    BY <1>2, <1>4 DEF IInv, LastSheetCounts
<1>10. \A f \in frames' : f.s \in Own(len')
    BY <1>2 DEF IInv
<1>11. crashes' \in Nat /\ lostSheets' \in Nat
    BY <1>2 DEF IInv
<1> QED BY <1>5, <1>6, <1>7, <1>8, <1>9, <1>10, <1>11 DEF IInv

\* A frame reaches the engine.
LEMMA ReceiveInv == ASSUME IInv, NEW n \in Receiver, Receive(n) PROVE IInv'
<1>0. len \in Nat /\ recv \in [Receiver -> Recv] /\ heard \in [Receiver -> Seq(Seqs)]
    BY TypeFacts DEF IInv
<1>1. PICK f \in frames :
        LET got == NetDelivered([recv[n] EXCEPT !.used = @ \cup {f.g}], f.s)
        IN  /\ recv' = [recv EXCEPT ![n] = got.r]
            /\ heard' = [heard EXCEPT ![n] = @ \o got.out]
            /\ UNCHANGED <<sender, frames, sheets, bounds>>
    BY DEF Receive
<1>2. PICK q : q = [recv[n] EXCEPT !.used = @ \cup {f.g}]
    OBVIOUS
<1>3. f.s \in Own(len) /\ f.g \in Nat
    BY DEF IInv, TypeOK
<1>4. /\ q \in Recv /\ q.win = recv[n].win /\ q.winDisk = recv[n].winDisk
      /\ q.sheet = recv[n].sheet /\ q.park = recv[n].park
    BY <1>0, <1>2, <1>3 DEF Recv
<1>5. Good(q, heard[n], len, crashes = 0 /\ valves = 0)
    BY <1>4 DEF IInv, ReceiversGood, Good
<1>6. PICK x : x = NetDelivered(q, f.s)
    OBVIOUS
<1>7. x \in Reach(q, heard[n], len, crashes = 0 /\ valves = 0)
    BY <1>0, <1>3, <1>4, <1>5, <1>6, NetDeliveredGood
<1>8. /\ recv' = [recv EXCEPT ![n] = x.r] /\ heard' = [heard EXCEPT ![n] = @ \o x.out]
      /\ UNCHANGED <<sender, frames, sheets, lostSheets, crashes>> /\ valves' = valves
    BY <1>1, <1>2, <1>6 DEF bounds
<1>9. x \in Reach(q, heard[n], len, crashes = 0 /\ valves' = 0)
    BY <1>7, <1>8
<1>10. valves' \in Nat /\ valves <= valves'
    BY <1>8 DEF IInv
<1> QED BY <1>4, <1>8, <1>9, <1>10, ReceiverStep

\* The valve opens: from here on nothing is promised about the order.
LEMMA ReleaseInv == ASSUME IInv, NEW n \in Receiver, ReleaseStaleParked(n) PROVE IInv'
<1>0. len \in Nat /\ recv \in [Receiver -> Recv] /\ heard \in [Receiver -> Seq(Seqs)] /\ valves \in Nat
    BY TypeFacts DEF IInv
<1>1. PICK s \in recv[n].park :
        LET got == DeliverGated([r |-> [recv[n] EXCEPT !.park = @ \ {s}], out |-> <<>>], s)
        IN  /\ valves' = valves + 1
            /\ recv' = [recv EXCEPT ![n] = got.r]
            /\ heard' = [heard EXCEPT ![n] = @ \o got.out]
            /\ UNCHANGED <<sender, frames, sheets, lost, lostSheets, crashes>>
    BY DEF ReleaseStaleParked
<1>2. PICK q : q = [recv[n] EXCEPT !.park = @ \ {s}]
    OBVIOUS
<1>3. /\ q \in Recv /\ q.win = recv[n].win /\ q.winDisk = recv[n].winDisk
      /\ q.sheet = recv[n].sheet /\ \A t \in q.park : t \in recv[n].park
    BY <1>0, <1>2 DEF Recv
<1>4. Good(recv[n], heard[n], len, crashes = 0 /\ valves = 0)
    BY DEF IInv, ReceiversGood
<1>5. s \in Own(len) /\ Good(q, heard[n], len, FALSE)
    BY <1>3, <1>4 DEF Good
<1>6. PICK y : y = [r |-> q, out |-> <<>>]
    OBVIOUS
<1>7. y \in Reach(q, heard[n], len, FALSE)
    BY <1>0, <1>3, <1>5, <1>6, ReachStart
<1>8. PICK x : x = DeliverGated(y, s)
    OBVIOUS
<1>9. x \in Reach(q, heard[n], len, FALSE)
    BY <1>0, <1>5, <1>7, <1>8, DeliverGatedGood
<1>10. /\ recv' = [recv EXCEPT ![n] = x.r] /\ heard' = [heard EXCEPT ![n] = @ \o x.out]
       /\ UNCHANGED <<sender, frames, sheets, lostSheets, crashes>> /\ valves' = valves + 1
    BY <1>1, <1>2, <1>6, <1>8
<1>11. valves' \in Nat /\ valves <= valves' /\ valves' # 0
    BY <1>0, <1>10
<1>12. x \in Reach(q, heard[n], len, crashes = 0 /\ valves' = 0)
    <2>1. (crashes = 0 /\ valves' = 0) = FALSE
        BY <1>11
    <2> QED BY <1>9, <2>1
<1> QED BY <1>3, <1>10, <1>11, <1>12, ReceiverStep

\* A receiver's own bookkeeping: what it applied, and what the sender has,
\* stay as they are.
LEMMA QuietStep ==
    ASSUME IInv, NEW n \in Receiver, NEW q \in Recv,
           recv' = [recv EXCEPT ![n] = q], UNCHANGED <<sender, frames, heard, valves>>,
           crashes' \in Nat, crashes <= crashes', lostSheets' \in Nat,
           Good(q, heard[n], len, crashes' = 0 /\ valves = 0),
           \A k \in sheets' : k \in [n : Receiver, w : Window] /\ Stands(k.w, heard[k.n]),
           crashes' = 0 => \A k \in sheets' : Covers(recv'[k.n].sheet, k.w),
           LastSheetCounts'
    PROVE  IInv'
<1>0. len \in Nat /\ recv \in [Receiver -> Recv] /\ heard \in [Receiver -> Seq(Seqs)] /\ crashes \in Nat
    BY TypeFacts DEF IInv
<1>1. /\ \A m \in Receiver : recv'[m] = IF m = n THEN q ELSE recv[m]
      /\ heard' = heard /\ len' = len /\ floor' = floor /\ frames' = frames /\ valves' = valves
    BY <1>0 DEF sender
<1>2. ReceiversGood'
    <2>1. ASSUME NEW m \in Receiver
          PROVE  Good(recv'[m], heard[m], len, crashes' = 0 /\ valves = 0)
        <3>1. CASE m = n
            BY <1>1, <3>1
        <3>2. CASE m # n
            <4>1. Good(recv[m], heard[m], len, crashes = 0 /\ valves = 0)
                BY DEF IInv, ReceiversGood
            <4>2. crashes' = 0 => crashes = 0
                BY <1>0
            <4>3. Good(recv[m], heard[m], len, crashes' = 0 /\ valves = 0)
                BY <4>1, <4>2 DEF Good
            <4> QED BY <1>1, <3>2, <4>3
        <3> QED BY <3>1, <3>2
    <2> QED BY <1>1, <2>1 DEF ReceiversGood
<1>3. TypeOK'
    <2>1. recv' \in [Receiver -> Recv]
        BY <1>0
    <2>2. \A m \in Receiver : \A s \in recv'[m].win.marks : recv'[m].win.high - s \in 0 .. Width
        BY <1>2 DEF ReceiversGood, Good, Stands
    <2>3. sheets' \in SUBSET [n : Receiver, w : Window]
        OBVIOUS
    <2> QED BY <2>1, <2>2, <2>3 DEF IInv, TypeOK, Recv, sender
<1>4. SheetsStand'
    BY <1>1 DEF SheetsStand
<1>5. ConfirmedIsHeard'
    BY <1>1 DEF IInv, ConfirmedIsHeard, HeardSet
<1>6. \A f \in frames' : f.s \in Own(len')
    BY <1>1 DEF IInv
<1>7. valves' \in Nat
    BY <1>1 DEF IInv
<1> QED BY <1>2, <1>3, <1>4, <1>5, <1>6, <1>7 DEF IInv

\* A receiver's sheets on their way, as the invariant has them.
LEMMA SheetFacts ==
    ASSUME IInv, NEW k \in sheets
    PROVE  /\ k \in [n : Receiver, w : Window] /\ k.n \in Receiver /\ k.w \in Window
           /\ Stands(k.w, heard[k.n]) /\ k.w.high \in Nat /\ k.w.high <= len
           /\ crashes = 0 => Covers(recv[k.n].sheet, k.w)
<1>1. k \in [n : Receiver, w : Window]
    BY DEF IInv, TypeOK
<1>2. k.n \in Receiver /\ k.w \in Window /\ k.w.high \in Nat
    BY <1>1 DEF Window
<1>3. Stands(k.w, heard[k.n]) /\ (crashes = 0 => Covers(recv[k.n].sheet, k.w))
    BY DEF IInv, SheetsStand
<1>4. \A s \in Applied(heard[k.n]) : s <= len
    BY <1>2 DEF IInv, ReceiversGood, Good, Own
<1>5. k.w.high <= len
    <2>1. len \in Nat
        BY TypeFacts DEF IInv
    <2> QED BY <1>2, <1>3, <1>4, <2>1 DEF Stands
<1> QED BY <1>1, <1>2, <1>3, <1>5

\* The two debounced saves, and the park for declines.
LEMMA SaveInv ==
    ASSUME IInv, NEW n \in Receiver, SaveAccepted(n) \/ PersistMls(n) \/ DeclineParkTurns(n)
    PROVE  IInv'
<1>0. len \in Nat /\ recv \in [Receiver -> Recv] /\ crashes \in Nat /\ lostSheets \in Nat
    BY TypeFacts DEF IInv
<1>1. UNCHANGED <<sender, frames, heard, sheets, bounds>>
    BY DEF SaveAccepted, PersistMls, DeclineParkTurns
<1>2. PICK q \in Recv :
        /\ recv' = [recv EXCEPT ![n] = q] /\ q.win = recv[n].win /\ q.sheet = recv[n].sheet
        /\ q.park = recv[n].park /\ q.winDisk \in {recv[n].win, recv[n].winDisk}
    <2>1. CASE SaveAccepted(n)
        <3> DEFINE q == [recv[n] EXCEPT !.winDisk = recv[n].win]
        <3>1. q \in Recv /\ q.win = recv[n].win /\ q.sheet = recv[n].sheet
              /\ q.park = recv[n].park /\ q.winDisk = recv[n].win
            BY <1>0 DEF Recv
        <3>2. recv' = [recv EXCEPT ![n] = q]
            BY <2>1 DEF SaveAccepted
        <3> QED BY <3>1, <3>2
    <2>2. CASE PersistMls(n)
        <3> DEFINE q == [recv[n] EXCEPT !.usedDisk = recv[n].used]
        <3>1. q \in Recv /\ q.win = recv[n].win /\ q.sheet = recv[n].sheet
              /\ q.park = recv[n].park /\ q.winDisk = recv[n].winDisk
            BY <1>0 DEF Recv
        <3>2. recv' = [recv EXCEPT ![n] = q]
            BY <2>2 DEF PersistMls
        <3> QED BY <3>1, <3>2
    <2>3. CASE DeclineParkTurns(n)
        <3> DEFINE q == [recv[n] EXCEPT !.full = ~@]
        <3>1. q \in Recv /\ q.win = recv[n].win /\ q.sheet = recv[n].sheet
              /\ q.park = recv[n].park /\ q.winDisk = recv[n].winDisk
            BY <1>0 DEF Recv
        <3>2. recv' = [recv EXCEPT ![n] = q]
            BY <2>3 DEF DeclineParkTurns
        <3> QED BY <3>1, <3>2
    <2> QED BY <2>1, <2>2, <2>3
<1>3. /\ sheets' = sheets /\ crashes' = crashes /\ lostSheets' = lostSheets /\ floor' = floor
      /\ \A m \in Receiver : recv'[m].sheet = recv[m].sheet
    BY <1>0, <1>1, <1>2 DEF sender, bounds
<1>4. Good(q, heard[n], len, crashes' = 0 /\ valves = 0)
    <2>1. Good(recv[n], heard[n], len, crashes' = 0 /\ valves = 0)
        BY <1>3 DEF IInv, ReceiversGood
    <2> QED BY <1>2, <2>1 DEF Good
<1>5. \A k \in sheets' : k \in [n : Receiver, w : Window] /\ Stands(k.w, heard[k.n])
    BY <1>3, SheetFacts
<1>6. crashes' = 0 => \A k \in sheets' : Covers(recv'[k.n].sheet, k.w)
    BY <1>3, SheetFacts
<1>7. LastSheetCounts'
    BY <1>3 DEF IInv, LastSheetCounts
<1>8. UNCHANGED <<sender, frames, heard, valves>>
    BY <1>1 DEF bounds
<1>9. crashes' \in Nat /\ crashes <= crashes' /\ lostSheets' \in Nat
    BY <1>0, <1>3
<1> QED BY <1>2, <1>4, <1>5, <1>6, <1>7, <1>8, <1>9, QuietStep

\* A receiver is killed: what it comes back with stands on what it applied.
LEMMA CrashInv == ASSUME IInv, NEW n \in Receiver, Crash(n) PROVE IInv'
<1>0. len \in Nat /\ recv \in [Receiver -> Recv] /\ crashes \in Nat /\ lostSheets \in Nat
    BY TypeFacts DEF IInv
<1>1. crashes' = crashes + 1 /\ UNCHANGED <<sender, frames, heard, sheets, lost, lostSheets, valves>>
    BY DEF Crash
<1> DEFINE q == [InitRecv EXCEPT
                    !.win = recv[n].winDisk, !.winDisk = recv[n].winDisk,
                    !.used = recv[n].usedDisk, !.usedDisk = recv[n].usedDisk]
<1>2. NoWindow \in Window /\ NoWindow.high = 0 /\ NoWindow.marks = {}
    BY DEF NoWindow, Window
<1>3. InitRecv \in Recv /\ InitRecv.sheet = NoWindow /\ InitRecv.park = {}
    BY <1>2 DEF InitRecv, Recv
<1>4. recv' = [recv EXCEPT ![n] = q]
    BY DEF Crash
<1>5. recv[n] \in Recv /\ recv[n].winDisk \in Window
    BY <1>0 DEF Recv
<1>6. /\ q \in Recv /\ q.win = recv[n].winDisk /\ q.winDisk = recv[n].winDisk
      /\ q.sheet = NoWindow /\ q.park = {}
    BY <1>3, <1>5 DEF Recv
<1> HIDE DEF q
<1>7. crashes' \in Nat /\ crashes' # 0 /\ crashes <= crashes'
    BY <1>0, <1>1
<1>8. Good(q, heard[n], len, crashes' = 0 /\ valves = 0)
    <2>1. Good(recv[n], heard[n], len, crashes = 0 /\ valves = 0)
        BY DEF IInv, ReceiversGood
    <2>2. Stands(NoWindow, heard[n])
        BY <1>2 DEF Stands
    <2>3. Covers(recv[n].winDisk, NoWindow)
        BY <1>2, <1>5 DEF Covers, IsAccepted, Window
    <2> QED BY <1>6, <1>7, <2>1, <2>2, <2>3 DEF Good
<1>9. sheets' = sheets /\ lostSheets' \in Nat
    BY <1>0, <1>1
<1>10. \A k \in sheets' : k \in [n : Receiver, w : Window] /\ Stands(k.w, heard[k.n])
    BY <1>9, SheetFacts
<1>11. LastSheetCounts'
    BY <1>7 DEF LastSheetCounts
<1> QED BY <1>1, <1>4, <1>6, <1>7, <1>8, <1>9, <1>10, <1>11, QuietStep

\* A sheet is written: it says what the window says, which is all that the
\* earlier ones said.
LEMMA FlushInv == ASSUME IInv, NEW n \in Receiver, FlushGroupAck(n) PROVE IInv'
<1>0. len \in Nat /\ recv \in [Receiver -> Recv] /\ crashes \in Nat /\ lostSheets \in Nat
    BY TypeFacts DEF IInv
<1> DEFINE news == recv[n].win # NoWindow /\ recv[n].win # recv[n].sheet
           sheet == IF news THEN recv[n].win ELSE recv[n].sheet
           q == [recv[n] EXCEPT !.due = FALSE, !.sheet = sheet]
           k0 == [n |-> n, w |-> recv[n].win]
<1>1. /\ recv' = [recv EXCEPT ![n] = q]
      /\ \/ news /\ sheets' = sheets \cup {k0} /\ UNCHANGED lostSheets
         \/ ~news /\ UNCHANGED <<sheets, lostSheets>>
         \/ news /\ lostSheets' = lostSheets + 1 /\ UNCHANGED sheets
      /\ UNCHANGED <<sender, frames, heard, lost, crashes, valves>>
    <2>1. recv' = [recv EXCEPT ![n].due = FALSE, ![n].sheet = IF news THEN recv[n].win ELSE @]
        BY DEF FlushGroupAck
    <2>2. recv' = [recv EXCEPT ![n] = q]
        BY <1>0, <2>1 DEF Recv
    <2> QED BY <2>2 DEF FlushGroupAck
<1>2. recv[n] \in Recv /\ recv[n].win \in Window /\ recv[n].sheet \in Window
    BY <1>0 DEF Recv
<1>3. k0 \in [n : Receiver, w : Window] /\ k0.n = n /\ k0.w = recv[n].win
    BY <1>2
<1> HIDE DEF k0, news
<1>4. sheet \in Window /\ (sheet = recv[n].win \/ sheet = recv[n].sheet) /\ (news => sheet = recv[n].win)
      /\ (~news => sheet = recv[n].sheet)
    BY <1>2
<1> HIDE DEF sheet
<1>5. /\ q \in Recv /\ q.win = recv[n].win /\ q.winDisk = recv[n].winDisk
      /\ q.sheet = sheet /\ q.park = recv[n].park
    BY <1>2, <1>4 DEF Recv
<1> HIDE DEF q
<1>6. Good(recv[n], heard[n], len, crashes = 0 /\ valves = 0)
    BY DEF IInv, ReceiversGood
<1>7. Stands(recv[n].win, heard[n]) /\ Covers(recv[n].win, recv[n].sheet)
    BY <1>6 DEF Good
<1>8. Covers(recv[n].win, recv[n].win) /\ Covers(recv[n].sheet, recv[n].sheet)
    BY <1>2 DEF Covers, Window
<1>9. Covers(sheet, recv[n].sheet) /\ Covers(recv[n].win, sheet)
    BY <1>4, <1>7, <1>8
<1>10. crashes' = crashes /\ valves' = valves /\ floor' = floor
    BY <1>1 DEF sender
<1>11. Good(q, heard[n], len, crashes' = 0 /\ valves = 0)
    <2>1. Stands(sheet, heard[n])
        BY <1>4, <1>6 DEF Good
    <2> QED BY <1>5, <1>6, <1>9, <1>10, <2>1 DEF Good
<1>12. \A k \in sheets' : k \in sheets \/ (k = k0 /\ news)
    BY <1>1
<1>13. \A k \in sheets' : k \in [n : Receiver, w : Window] /\ Stands(k.w, heard[k.n])
    BY <1>3, <1>7, <1>12, SheetFacts
<1>14. \A m \in Receiver : recv'[m] = IF m = n THEN q ELSE recv[m]
    BY <1>0, <1>1
<1>15. ASSUME crashes' = 0, NEW k \in sheets' PROVE Covers(recv'[k.n].sheet, k.w)
    <2>1. CASE k \in sheets
        <3>1. k.n \in Receiver /\ k.w \in Window /\ Covers(recv[k.n].sheet, k.w)
            BY <1>10, <1>15, <2>1, SheetFacts
        <3>2. CASE k.n = n
            <4>1. Covers(sheet, k.w)
                BY <1>2, <1>4, <1>9, <3>1, <3>2, CoversFacts
            <4> QED BY <1>5, <1>14, <3>2, <4>1
        <3> QED BY <1>14, <3>1, <3>2
    <2>2. CASE k = k0 /\ news
        BY <1>3, <1>4, <1>5, <1>8, <1>14, <2>2
    <2> QED BY <1>12, <2>1, <2>2
<1>16. lostSheets' \in Nat /\ crashes' \in Nat /\ crashes <= crashes'
    BY <1>0, <1>1, <1>10
<1>17. LastSheetCounts'
    <2>1. SUFFICES ASSUME crashes = 0, lostSheets' = 0, NEW m \in Receiver
                   PROVE  \/ Blocked(recv'[m].sheet, floor[m])
                          \/ \E k \in sheets' : k.n = m /\ k.w = recv'[m].sheet
        BY <1>10 DEF LastSheetCounts
    <2>2. lostSheets = 0
        BY <1>0, <1>1, <2>1
    <2>3. \/ Blocked(recv[m].sheet, floor[m])
          \/ \E k \in sheets : k.n = m /\ k.w = recv[m].sheet
        BY <2>1, <2>2 DEF IInv, LastSheetCounts
    <2>4. sheets \subseteq sheets'
        BY <1>1
    <2>5. CASE m = n /\ news
        <3>1. k0 \in sheets'
            BY <1>0, <1>1, <2>1, <2>2, <2>5
        <3>2. recv'[m].sheet = recv[n].win
            BY <1>4, <1>5, <1>14, <2>5
        <3> QED BY <1>3, <2>5, <3>1, <3>2
    <2>6. CASE ~ (m = n /\ news)
        <3>1. recv'[m].sheet = recv[m].sheet
            BY <1>4, <1>5, <1>14, <2>6
        <3> QED BY <2>3, <2>4, <3>1
    <2> QED BY <2>5, <2>6
<1>18. UNCHANGED <<sender, frames, heard, valves>>
    BY <1>1
<1> QED BY <1>1, <1>5, <1>11, <1>13, <1>15, <1>16, <1>17, <1>18, QuietStep

\* The sender counts a sheet: the floor moves over what was applied, and the
\* author's last sheet is still on its way or has nothing left to say.
LEMMA ApplyGroupAckInv == ASSUME IInv, ApplyGroupAck PROVE IInv'
<1>0. /\ len \in Nat /\ recv \in [Receiver -> Recv] /\ heard \in [Receiver -> Seq(Seqs)]
      /\ floor \in [Receiver -> 0 .. len] /\ crashes \in Nat
    BY TypeFacts DEF IInv
<1>1. PICK k \in sheets :
        /\ sheets' = sheets \ {k}
        /\ floor' = [floor EXCEPT ![k.n] = AdvanceAckedFloor(k.w, @)]
        /\ ackSeen' = ackSeen \cup {k.n}
        /\ UNCHANGED <<len, cursor, through, gen, genDisk, frames, recv, heard, bounds>>
    BY DEF ApplyGroupAck
<1>2. /\ k.n \in Receiver /\ k.w \in Window /\ Stands(k.w, heard[k.n])
      /\ k.w.high \in Nat /\ k.w.high <= len
      /\ crashes = 0 => Covers(recv[k.n].sheet, k.w)
    BY SheetFacts
<1> DEFINE old == floor[k.n]
           f == AdvanceAckedFloor(k.w, old)
<1>3. old \in 0 .. len
    BY <1>0, <1>2
<1>4. f \in old .. len /\ \A s \in Ackable : old < s /\ s <= f => Holds(k.w, s)
    <2> HIDE DEF old
    <2> QED BY <1>0, <1>3, FloorFacts
<1>5. \A m \in Receiver : floor'[m] = IF m = k.n THEN f ELSE floor[m]
    BY <1>0, <1>1
<1> HIDE DEF f
<1>6. f \in 0 .. len
    BY <1>0, <1>3, <1>4
<1>7. floor' \in [Receiver -> 0 .. len]
    <2>1. floor' = [floor EXCEPT ![k.n] = f]
        BY <1>1 DEF f
    <2> QED BY <1>0, <1>6, <2>1
<1>8. TypeOK'
    <2>1. ackSeen' \in SUBSET Receiver
        BY <1>1, <1>2 DEF IInv, TypeOK
    <2>2. sheets' \in SUBSET [n : Receiver, w : Window]
        BY <1>1 DEF IInv, TypeOK
    <2> QED BY <1>1, <1>7, <2>1, <2>2 DEF IInv, TypeOK
<1>9. ReceiversGood'
    BY <1>1 DEF IInv, ReceiversGood, bounds
<1>10. SheetsStand'
    BY <1>1 DEF IInv, SheetsStand, bounds
<1>11. ConfirmedIsHeard'
    <2>1. SUFFICES ASSUME NEW n \in Receiver, NEW s \in Ackable, s <= floor'[n]
                   PROVE  s \in HeardSet(n) \/ \E b \in HeardSet(n) : s < b - Width
        BY <1>1 DEF ConfirmedIsHeard, HeardSet
    <2>2. HeardSet(n) = Applied(heard[n])
        BY DEF HeardSet, Applied
    <2>3. s \in Seqs /\ s \in Nat
        BY AckableFacts
    <2>4. CASE s <= floor[n]
        BY <2>4 DEF IInv, ConfirmedIsHeard
    <2>5. CASE ~ (s <= floor[n])
        <3>1. n = k.n /\ s <= f /\ old < s
            BY <1>3, <1>5, <2>1, <2>3, <2>5
        <3>2. Holds(k.w, s)
            BY <1>4, <3>1
        <3> QED BY <1>2, <2>2, <2>3, <3>1, <3>2, HoldsIsHeard
    <2> QED BY <2>4, <2>5
<1>12. LastSheetCounts'
    <2>1. SUFFICES ASSUME crashes = 0, lostSheets = 0, NEW m \in Receiver
                   PROVE  \/ Blocked(recv[m].sheet, floor'[m])
                          \/ \E j \in sheets' : j.n = m /\ j.w = recv[m].sheet
        BY <1>1 DEF LastSheetCounts, bounds
    <2>2. \/ Blocked(recv[m].sheet, floor[m])
          \/ \E j \in sheets : j.n = m /\ j.w = recv[m].sheet
        BY <2>1 DEF IInv, LastSheetCounts
    <2>3. CASE m # k.n
        BY <1>1, <1>5, <2>2, <2>3
    <2>4. CASE m = k.n
        <3>1. floor'[m] = f /\ recv[m].sheet \in Window
            BY <1>0, <1>5, <2>4 DEF Recv
        <3>2. CASE k.w = recv[m].sheet
            <4>1. Blocked(k.w, f)
                <5> HIDE DEF old
                <5> QED BY <1>0, <1>2, <1>3, AdvancedIsBlocked DEF f
            <4> QED BY <3>1, <3>2, <4>1
        <3>3. CASE k.w # recv[m].sheet /\ \E j \in sheets : j.n = m /\ j.w = recv[m].sheet
            <4>1. PICK j \in sheets : j.n = m /\ j.w = recv[m].sheet
                BY <3>3
            <4>2. j # k
                BY <3>3, <4>1
            <4> QED BY <1>1, <4>1, <4>2
        <3>4. CASE Blocked(recv[m].sheet, floor[m])
            <4>1. Covers(recv[m].sheet, k.w) /\ Blocked(recv[m].sheet, old)
                BY <1>2, <2>1, <2>4, <3>4
            <4>2. Blocked(recv[m].sheet, f)
                <5> HIDE DEF old
                <5> QED BY <1>0, <1>2, <1>3, <3>1, <4>1, BlockedStays DEF f
            <4> QED BY <3>1, <4>2
        <3> QED BY <2>2, <3>2, <3>3, <3>4
    <2> QED BY <2>3, <2>4
<1>13. \A g \in frames' : g.s \in Own(len')
    BY <1>1 DEF IInv
<1>14. crashes' \in Nat /\ valves' \in Nat /\ lostSheets' \in Nat
    BY <1>1 DEF IInv, bounds
<1> QED BY <1>8, <1>9, <1>10, <1>11, <1>12, <1>13, <1>14 DEF IInv

\* At the start nothing was sent, heard or confirmed.
LEMMA InitInv == ASSUME Init PROVE IInv
<1>1. NoWindow \in Window /\ NoWindow.high = 0 /\ NoWindow.marks = {}
    BY DEF NoWindow, Window
<1>2. InitRecv \in Recv /\ InitRecv.win = NoWindow /\ InitRecv.winDisk = NoWindow
      /\ InitRecv.sheet = NoWindow /\ InitRecv.park = {}
    BY <1>1 DEF InitRecv, Recv
<1>3. \A n \in Receiver : recv[n] = InitRecv /\ heard[n] = <<>> /\ floor[n] = 0
    BY DEF Init
<1>4. TypeOK
    <2>1. recv \in [Receiver -> Recv]
        BY <1>2 DEF Init
    <2>2. \A n \in Receiver : recv[n].win.marks = {}
        BY <1>1, <1>2, <1>3
    <2>3. <<>> \in Seq(Seqs) /\ heard \in [Receiver -> Seq(Seqs)]
        BY DEF Init
    <2>4. len \in 0 .. LogEnd /\ cursor \in 0 .. through /\ through \in 0 .. len
          /\ floor \in [Receiver -> 0 .. len] /\ gen \in Nat /\ genDisk \in 0 .. gen
        BY AckableFacts DEF Init
    <2> QED BY <2>1, <2>2, <2>3, <2>4 DEF TypeOK, Recv, Init
<1>5. \A x : x \notin Applied(<<>>)
    BY DEF Applied
<1>6. Stands(NoWindow, <<>>) /\ Covers(NoWindow, NoWindow)
    BY <1>1 DEF Stands, Covers
<1>7. Strict(NoWindow, <<>>)
    BY <1>5 DEF Strict, Exact, NoGap, InOrder
<1>8. Good(InitRecv, <<>>, len, crashes = 0 /\ valves = 0)
    BY <1>2, <1>5, <1>6, <1>7 DEF Good
<1>9. ReceiversGood
    BY <1>3, <1>8 DEF ReceiversGood
<1>10. ConfirmedIsHeard
    BY <1>3, AckableFacts DEF ConfirmedIsHeard
<1>11. LastSheetCounts
    <2>1. \A s \in Ackable : ~Holds(NoWindow, s)
        BY <1>1 DEF Holds, IsAccepted
    <2>2. Blocked(NoWindow, 0)
        BY <2>1, AckableFacts DEF Blocked
    <2> QED BY <1>2, <1>3, <2>2 DEF LastSheetCounts
<1> QED BY <1>4, <1>9, <1>10, <1>11 DEF Init, IInv, SheetsStand

\* Every step keeps the invariant.
LEMMA NextInv == ASSUME IInv, [Next]_vars PROVE IInv'
<1>1. CASE UNCHANGED vars
    BY <1>1 DEF vars, IInv, TypeOK, ReceiversGood, SheetsStand, ConfirmedIsHeard, HeardSet,
                LastSheetCounts
<1>2. CASE Next
    BY <1>2, RecordInv, PublishInv, PersistCursorInv, RewindInv, ApplyGroupAckInv,
       PersistMlsOfSenderInv, CrashOfSenderInv, ReceiveInv, ReleaseInv, FlushInv, SaveInv, CrashInv
       DEF Next
<1> QED BY <1>1, <1>2

\* The inductive invariant of Delivery.
THEOREM Invariance == Spec => []IInv
<1>1. Init => IInv
    BY InitInv
<1>2. IInv /\ [Next]_vars => IInv'
    BY NextInv
<1> QED BY <1>1, <1>2, PTL DEF Spec

\* The type invariant of Delivery: the cursor never runs ahead of the log,
\* the floors are positions of it, and the marks lie in the window's width.
THEOREM TypeCorrect == Spec => []TypeOK
<1>1. IInv => TypeOK
    BY DEF IInv
<1> QED BY <1>1, Invariance, PTL

\* For any log, any window and any number of kills, losses and openings of
\* the valve: what apply_group_ack holds for confirmed was applied by the
\* receiver's engine, or had aged out below what it applied.
THEOREM Confirmed == Spec => []ConfirmedIsHeard
<1>1. IInv => ConfirmedIsHeard
    BY DEF IInv
<1> QED BY <1>1, Invariance, PTL

\* For any log, any park and whatever the relays lose, repeat and reorder: as
\* long as nobody was killed and the valve stayed shut, every engine hears the
\* sender in order and without a gap from the envelope it starts with
\* (cmd_net_delivered, park_ordered, take_ready_parked).
THEOREM Ordered == Spec => []InOrderFromTheBaseline
<1>1. IInv => InOrderFromTheBaseline
    <2>1. SUFFICES ASSUME IInv, crashes = 0, valves = 0, NEW n \in Receiver,
                          NEW i \in DOMAIN heard[n], NEW j \in DOMAIN heard[n]
                   PROVE  Pair(heard[n], i, j)
        BY DEF InOrderFromTheBaseline, Pair
    <2>2. InOrder(heard[n])
        BY <2>1 DEF IInv, ReceiversGood, Good, Strict
    <2> QED BY <2>2 DEF InOrder
<1> QED BY <1>1, Invariance, PTL

-----------------------------------------------------------------------------
(***************************************************************************)
(* The armed ack.                                                          *)
(***************************************************************************)

\* Nothing but the flush disarms an ack, except a kill.
LEMMA OnlyFlushDisarms ==
    ASSUME IInv, Next, NEW n \in Receiver, recv[n].due, ~recv'[n].due, crashes' = 0
    PROVE  FlushGroupAck(n)
<1>0. /\ len \in Nat /\ recv \in [Receiver -> Recv] /\ heard \in [Receiver -> Seq(Seqs)]
      /\ crashes \in Nat /\ valves \in Nat
    BY TypeFacts DEF IInv
<1>1. ~ (recv' = recv)
    OBVIOUS
<1>2. PICK m \in Receiver :
        \/ Receive(m) \/ ReleaseStaleParked(m) \/ FlushGroupAck(m)
        \/ DeclineParkTurns(m) \/ SaveAccepted(m) \/ PersistMls(m) \/ Crash(m)
    BY <1>1 DEF Next, Record, Publish, PersistCursor, Rewind, ApplyGroupAck, PersistMlsOfSender,
                CrashOfSender
<1>3. ~Crash(m)
    BY <1>0 DEF Crash
<1>4. ~SaveAccepted(m) /\ ~PersistMls(m) /\ ~DeclineParkTurns(m)
    BY <1>0 DEF SaveAccepted, PersistMls, DeclineParkTurns, Recv
<1>5. ASSUME Receive(m) PROVE FALSE
    <2>1. PICK f \in frames :
            recv' = [recv EXCEPT ![m] = NetDelivered([recv[m] EXCEPT !.used = @ \cup {f.g}], f.s).r]
        BY <1>5 DEF Receive
    <2>2. PICK q : q = [recv[m] EXCEPT !.used = @ \cup {f.g}]
        OBVIOUS
    <2>3. f.s \in Own(len) /\ f.g \in Nat
        BY DEF IInv, TypeOK
    <2>4. /\ q \in Recv /\ q.win = recv[m].win /\ q.winDisk = recv[m].winDisk
          /\ q.sheet = recv[m].sheet /\ q.park = recv[m].park /\ q.due = recv[m].due
        BY <1>0, <2>2, <2>3 DEF Recv
    <2>5. Good(q, heard[m], len, crashes = 0 /\ valves = 0)
        BY <2>4 DEF IInv, ReceiversGood, Good
    <2>6. NetDelivered(q, f.s) \in Reach(q, heard[m], len, crashes = 0 /\ valves = 0)
        BY <1>0, <2>3, <2>4, <2>5, NetDeliveredGood
    <2>7. q.due => NetDelivered(q, f.s).r.due
        BY <2>6 DEF Reach
    <2> QED BY <1>0, <2>1, <2>2, <2>4, <2>7
<1>6. ASSUME ReleaseStaleParked(m) PROVE FALSE
    <2>1. PICK s \in recv[m].park :
            recv' = [recv EXCEPT ![m] =
                DeliverGated([r |-> [recv[m] EXCEPT !.park = @ \ {s}], out |-> <<>>], s).r]
        BY <1>6 DEF ReleaseStaleParked
    <2>2. recv[m].due => DeliverGated([r |-> [recv[m] EXCEPT !.park = @ \ {s}], out |-> <<>>], s).r.due
        BY <1>0 DEF DeliverGated, Recv
    <2> QED BY <1>0, <2>1, <2>2
<1>7. ASSUME FlushGroupAck(m), m # n PROVE FALSE
    BY <1>0, <1>7 DEF FlushGroupAck
<1> QED BY <1>2, <1>3, <1>4, <1>5, <1>6, <1>7

\* As long as no sheet was lost and nobody was killed, the ack that a delivery
\* arms is spent on a sheet, unless a sheet is on its way already or the sender
\* has nothing to learn (deliver_gated, flush_group_ack): the comparison with
\* the last sheet never swallows news.
THEOREM AckOwed == Spec => OwedAckIsSent
<1>1. ASSUME IInv, IInv', [Next]_vars
      PROVE  [\A n \in Receiver :
                recv[n].due /\ ~recv'[n].due /\ crashes' = 0 /\ lostSheets' = 0 =>
                    \/ \E k \in sheets' : k.n = n
                    \/ ~ \E s \in Ackable :
                            floor[n] < s /\ s <= AdvanceAckedFloor(recv[n].win, floor[n])]_vars
    <2>1. SUFFICES ASSUME Next, NEW n \in Receiver, recv[n].due, ~recv'[n].due,
                          crashes' = 0, lostSheets' = 0
                   PROVE  \/ \E k \in sheets' : k.n = n
                          \/ ~ \E s \in Ackable :
                                floor[n] < s /\ s <= AdvanceAckedFloor(recv[n].win, floor[n])
        BY <1>1
    <2>2. FlushGroupAck(n)
        BY <1>1, <2>1, OnlyFlushDisarms
    <2>3. /\ len \in Nat /\ recv \in [Receiver -> Recv] /\ floor \in [Receiver -> 0 .. len]
          /\ lostSheets \in Nat
        BY <1>1, TypeFacts DEF IInv
    <2>4. crashes = 0 /\ floor' = floor
        BY <2>1, <2>2 DEF FlushGroupAck, sender
    <2> DEFINE news == recv[n].win # NoWindow /\ recv[n].win # recv[n].sheet
    <2>5. CASE news
        <3>1. sheets' = sheets \cup {[n |-> n, w |-> recv[n].win]}
            BY <2>1, <2>2, <2>3, <2>5 DEF FlushGroupAck
        <3>2. [n |-> n, w |-> recv[n].win].n = n
            OBVIOUS
        <3> QED BY <3>1, <3>2
    <2>6. CASE ~news
        <3>1. sheets' = sheets /\ lostSheets' = lostSheets /\ recv'[n].sheet = recv[n].sheet
            BY <2>2, <2>3, <2>6 DEF FlushGroupAck, Recv
        <3>2. recv[n].win \in Window /\ floor[n] \in 0 .. len /\ Covers(recv[n].win, recv[n].win)
            BY <2>3 DEF Recv, Window, Covers
        <3>3. CASE Blocked(recv[n].win, floor[n])
            BY <2>3, <3>2, <3>3, BlockedStays
        <3>4. CASE recv[n].win = NoWindow
            <4>1. \A s \in Ackable : ~Holds(NoWindow, s)
                BY DEF Holds, IsAccepted, NoWindow
            <4>2. Blocked(recv[n].win, floor[n])
                <5>1. \A s \in Ackable : s \in Nat
                    BY AckableFacts
                <5> QED BY <3>4, <4>1, <5>1 DEF Blocked
            <4> QED BY <3>3, <4>2
        <3>5. CASE recv[n].win = recv[n].sheet
            <4>1. \/ Blocked(recv[n].sheet, floor[n])
                  \/ \E k \in sheets : k.n = n /\ k.w = recv[n].sheet
                BY <1>1, <2>1, <2>4, <3>1 DEF IInv, LastSheetCounts
            <4> QED BY <3>1, <3>3, <3>5, <4>1
        <3> QED BY <2>6, <3>4, <3>5
    <2> QED BY <2>5, <2>6
<1> QED BY <1>1, Invariance, PTL DEF Spec, OwedAckIsSent

=============================================================================
