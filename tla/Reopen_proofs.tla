---------------------------- MODULE Reopen_proofs ----------------------------
(***************************************************************************)
(* Proofs about Reopen, for any number of seats, any threshold, any log    *)
(* and any number of snapshots, kills and openings.                        *)
(*                                                                         *)
(* The seat that a replay would produce is followed beside the seat in     *)
(* memory: a Run is the replay of the log, record by record, and Mirror    *)
(* says what its last state and the seat in memory have to do with each    *)
(* other.                                                                  *)
(***************************************************************************)
EXTENDS Reopen, FiniteSetTheorems, SequenceTheorems, WellFoundedInduction, TLAPS

Seat == [card : Card, by : Member, decl : SUBSET Member, sh : Nat,
         sigs : SUBSET Member, ver : SUBSET Member, own : BOOLEAN,
         park : SUBSET Member, parkW : BOOLEAN, held : BOOLEAN, head : Nat]

Decision == {"none", "approve", "decline"}

\* What holds of a seat, replayed or not, whose operator decided w.
Sound(s, w) ==
    /\ s.card = "none" => s.own = FALSE /\ s.decl = {}
    /\ s.card = "open" => Cardinality(s.decl) <= VetoRoom
    /\ s.card = "open" /\ s.own => w = "approve" /\ Self \notin s.decl

\* The replayed seat r knows a card if the seat s does, takes it for over if s
\* does, and holds every decline that stands at s.
Mirror(r, s) ==
    /\ (r.card = "none") = (s.card = "none")
    /\ s.card = "open" => r.card \in {"open", "rejected"}
    /\ s.card = "rejected" => r.card = "rejected"
    /\ s.card = "withdrawn" => r.card \in {"withdrawn", "rejected"}
    /\ r.card = "applied" => s.card = "applied"
    /\ s.card = "open" /\ r.card = "open" => \A b \in s.decl : b \in r.decl

\* Both are seats that are sound and mirror each other.
Pair(r, s, w) ==
    /\ r \in Seat /\ s \in Seat /\ Sound(r, w) /\ Sound(s, w) /\ Mirror(r, s)

\* The seat a snapshot is read as.
Base(sn) == [InitSeat EXCEPT !.card = sn.card, !.by = sn.by, !.decl = sn.decl]

\* r[i] is the seat after the records up to i of the log L.
Run(sn, L, r) ==
    /\ r[sn.at] = Base(sn)
    /\ \A i \in sn.at + 1 .. Len(L) : r[i] = ReplayEvent(r[i - 1], L[i])

\* Whatever is replayed now mirrors the seat.
Mirrored == \A r : Run(snap, log, r) => Pair(r[Len(log)], seat, will)

IInv == TypeOK /\ Mirrored

-----------------------------------------------------------------------------
(***************************************************************************)
(* Numbers.                                                                *)
(***************************************************************************)

\* A set of natural numbers has a least element.
LEMMA LeastNat ==
    ASSUME NEW T \in SUBSET Nat, T # {}
    PROVE  \E x \in T : \A y \in T : x <= y
<1>1. PICK x \in T : \A y \in T : ~ (<<y, x>> \in OpToRel(<, Nat))
    BY NatLessThanWellFounded, WFMin
<1>2. \A y \in T : ~ (y < x)
    BY <1>1 DEF OpToRel
<1> QED BY <1>2

\* Max is the greatest element of a bounded set.
LEMMA MaxFacts ==
    ASSUME NEW T \in SUBSET Nat, T # {}, NEW k \in Nat, \A x \in T : x <= k
    PROVE  Max(T) \in T /\ \A y \in T : y <= Max(T)
<1> DEFINE D == {k - x : x \in T}
<1>1. D \in SUBSET Nat /\ D # {}
    <2>1. \A x \in T : k - x \in Nat
        OBVIOUS
    <2>2. PICK x \in T : TRUE
        OBVIOUS
    <2>3. k - x \in D
        BY <2>2
    <2> QED BY <2>1, <2>3
<1>2. PICK d \in D : \A e \in D : d <= e
    BY <1>1, LeastNat
<1>3. PICK x \in T : d = k - x
    BY <1>2
<1>4. \A y \in T : k - x <= k - y
    BY <1>2, <1>3
<1>5. \A y \in T : x >= y
    BY <1>4
<1>6. \E z \in T : \A y \in T : z >= y
    BY <1>5
<1>7. Max(T) \in T /\ \A y \in T : Max(T) >= y
    BY <1>6 DEF Max
<1> QED BY <1>7

-----------------------------------------------------------------------------
(***************************************************************************)
(* The replay.                                                             *)
(***************************************************************************)

\* The function that the fold of ReplayLoaded chooses, and the equation it
\* solves: the value at a set of records is the last of them after the others.
Folding(st, L, f, D) ==
    f = [s \in D |-> IF s = {} THEN st ELSE ReplayEvent(f[s \ {Max(s)}], L[Max(s)])]

\* ReplayLoaded is that function at the set of all records it is given.
LEMMA ReplayUnfolds ==
    ASSUME NEW sn
    PROVE  LET L == SubSeq(log, sn.at + 1, Len(log))
           IN  ReplayLoaded(sn) = (CHOOSE f : Folding(Base(sn), L, f, SUBSET DOMAIN L))[DOMAIN L]
BY DEF ReplayLoaded, FoldLeft, MapThenFoldSet, Folding, Base

\* A set of records has a last one.
LEMMA LastRecord ==
    ASSUME NEW N \in Nat, NEW s \in SUBSET (1 .. N), s # {}
    PROVE  /\ Max(s) \in s /\ IsFiniteSet(s)
           /\ IsFiniteSet(s \ {Max(s)}) /\ Cardinality(s \ {Max(s)}) = Cardinality(s) - 1
<1>1. Max(s) \in s
    BY MaxFacts
<1>2. IsFiniteSet(s)
    <2>1. IsFiniteSet(1 .. N)
        BY FS_Interval
    <2> QED BY <2>1, FS_Subset
<1> QED BY <1>1, <1>2, FS_RemoveElement

\* The equation has a solution on the sets of up to k records, for every k:
\* one for k + 1 is built from one for k.
LEMMA FoldingExists ==
    ASSUME NEW st, NEW L, NEW N \in Nat
    PROVE  \E f : Folding(st, L, f, SUBSET (1 .. N))
<1> DEFINE D(k) == {s \in SUBSET (1 .. N) : Cardinality(s) <= k}
           Bad == {k \in Nat : ~ \E f : Folding(st, L, f, D(k))}
           Body(f, s) == IF s = {} THEN st
                         ELSE ReplayEvent(f[s \ {Max(s)}], L[Max(s)])
<1>0. \A s \in SUBSET (1 .. N) : IsFiniteSet(s) /\ Cardinality(s) \in Nat /\ Cardinality(s) <= N
    <2>1. IsFiniteSet(1 .. N) /\ Cardinality(1 .. N) = N
        BY FS_Interval
    <2> QED BY <2>1, FS_Subset, FS_CardinalityType
<1>1. Bad = {}
    <2>1. SUFFICES ASSUME Bad # {} PROVE FALSE
        OBVIOUS
    <2>2. PICK k \in Bad : \A j \in Bad : k <= j
        BY <2>1, LeastNat
    <2>3. k # 0
        <3> DEFINE f == [s \in D(0) |-> st]
        <3>1. \A s \in D(0) : s = {}
            BY <1>0, FS_EmptySet
        <3>2. Folding(st, L, f, D(0))
            BY <3>1 DEF Folding
        <3> QED BY <2>2, <3>2
    <2>4. PICK g : Folding(st, L, g, D(k - 1))
        <3>1. k - 1 \in Nat /\ k - 1 \notin Bad
            <4> HIDE DEF Bad
            <4>1. k \in Nat
                BY <2>2 DEF Bad
            <4> QED BY <2>2, <2>3, <4>1
        <3> HIDE DEF D
        <3> QED BY <3>1
    <2>5. g = [s \in D(k - 1) |-> Body(g, s)]
        BY <2>4 DEF Folding
    <2> DEFINE f == [s \in D(k) |-> Body(g, s)]
    <2>6. ASSUME NEW s \in D(k), s # {} PROVE s \ {Max(s)} \in D(k - 1)
        <3>1. /\ Max(s) \in s /\ Cardinality(s \ {Max(s)}) = Cardinality(s) - 1
            BY <2>6, LastRecord
        <3>2. s \in SUBSET (1 .. N) /\ Cardinality(s) <= k /\ Cardinality(s) \in Nat /\ k \in Nat
            BY <1>0, <2>2
        <3>3. Cardinality(s \ {Max(s)}) <= k - 1
            BY <3>1, <3>2
        <3>4. s \ {Max(s)} \in SUBSET (1 .. N)
            BY <3>2
        <3> QED BY <3>3, <3>4
    <2>7. \A s \in D(k - 1) : f[s] = g[s]
        <3>1. \A s \in D(k - 1) : s \in D(k)
            BY <1>0, <2>2
        <3> HIDE DEF D, Body
        <3> QED BY <2>5, <3>1
    <2>8. ASSUME NEW s \in D(k) PROVE Body(g, s) = Body(f, s)
        <3>1. CASE s = {}
            BY <3>1
        <3>2. CASE s # {}
            <4>1. f[s \ {Max(s)}] = g[s \ {Max(s)}]
                BY <2>6, <2>7, <3>2
            <4> HIDE DEF f
            <4> QED BY <4>1
        <3> QED BY <3>1, <3>2
    <2>9. f = [s \in D(k) |-> Body(f, s)]
        <3> HIDE DEF Body, D
        <3> QED BY <2>8
    <2>10. Folding(st, L, f, D(k))
        <3> HIDE DEF f
        <3> QED BY <2>9 DEF Folding
    <2> QED BY <2>2, <2>10
<1>2. D(N) = SUBSET (1 .. N)
    BY <1>0
<1>3. \E f : Folding(st, L, f, D(N))
    BY <1>1
<1> QED BY <1>2, <1>3

\* A log has a run, and the fold ends where the run does.
LEMMA RunExists ==
    ASSUME NEW sn, NEW K \in Seq(Record), sn.at \in 0 .. Len(K)
    PROVE  LET L == SubSeq(K, sn.at + 1, Len(K))
           IN  \E r : /\ Run(sn, K, r)
                      /\ r[Len(K)] = (CHOOSE f : Folding(Base(sn), L, f, SUBSET DOMAIN L))[DOMAIN L]
<1> DEFINE at == sn.at
           L == SubSeq(K, at + 1, Len(K))
           N == Len(K) - at
           f == CHOOSE g : Folding(Base(sn), L, g, SUBSET (1 .. N))
           r == [i \in at .. Len(K) |-> f[1 .. (i - at)]]
<1>0. at \in Nat /\ Len(K) \in Nat /\ at <= Len(K) /\ N \in Nat
    OBVIOUS
<1>1. DOMAIN L = 1 .. N /\ \A i \in 1 .. N : L[i] = K[at + i]
    BY <1>0
<1>2. Folding(Base(sn), L, f, SUBSET (1 .. N))
    BY <1>0, FoldingExists
<1>3. (CHOOSE g : Folding(Base(sn), L, g, SUBSET DOMAIN L))[DOMAIN L] = f[1 .. N]
    BY <1>1
<1> HIDE DEF f, L
<1>4. \A s \in SUBSET (1 .. N) :
        f[s] = IF s = {} THEN Base(sn) ELSE ReplayEvent(f[s \ {Max(s)}], L[Max(s)])
    BY <1>2 DEF Folding
<1> HIDE DEF N
<1>5. \A k \in 1 .. N : Max(1 .. k) = k /\ (1 .. k) \ {k} = 1 .. (k - 1)
    <2>1. ASSUME NEW k \in 1 .. N PROVE Max(1 .. k) = k
        <3>1. k \in Nat /\ 1 .. k \in SUBSET Nat /\ k \in 1 .. k /\ \A x \in 1 .. k : x <= k
            BY <1>0
        <3>2. Max(1 .. k) \in 1 .. k /\ \A y \in 1 .. k : y <= Max(1 .. k)
            BY <3>1, MaxFacts
        <3> QED BY <3>1, <3>2
    <2> QED BY <1>0, <2>1
<1>6. ASSUME NEW k \in 1 .. N PROVE f[1 .. k] = ReplayEvent(f[1 .. (k - 1)], L[k])
    <2>1. 1 .. k \in SUBSET (1 .. N) /\ 1 .. k # {}
        <3>1. k \in Nat /\ 1 <= k /\ k <= N
            BY <1>0
        <3>2. \A x \in 1 .. k : x \in 1 .. N
            BY <1>0, <3>1
        <3>3. 1 \in 1 .. k
            BY <3>1
        <3> QED BY <3>2, <3>3
    <2> QED BY <1>4, <1>5, <2>1
<1>7. f[1 .. 0] = Base(sn)
    <2>1. 1 .. 0 = {} /\ {} \in SUBSET (1 .. N)
        BY <1>0
    <2> QED BY <1>4, <2>1
<1>8. r[at] = Base(sn)
    BY <1>0, <1>7
<1>9. ASSUME NEW i \in at + 1 .. Len(K) PROVE r[i] = ReplayEvent(r[i - 1], K[i])
    <2>1. i - at \in 1 .. N /\ at + (i - at) = i /\ (i - at) - 1 = (i - 1) - at
          /\ i \in at .. Len(K) /\ i - 1 \in at .. Len(K)
        BY <1>0 DEF N
    <2>2. r[i] = f[1 .. (i - at)] /\ r[i - 1] = f[1 .. ((i - at) - 1)]
        BY <2>1
    <2>3. L[i - at] = K[i]
        BY <1>1, <2>1
    <2> HIDE DEF r, at
    <2> QED BY <1>6, <2>1, <2>2, <2>3
<1>10. r[Len(K)] = f[1 .. N]
    BY <1>0 DEF N
<1> HIDE DEF r
<1> QED BY <1>3, <1>8, <1>9, <1>10 DEF Run, L

\* The replay is the last state of a run over the log.
LEMMA ReplayRun ==
    ASSUME NEW sn, log \in Seq(Record), sn.at \in 0 .. Len(log)
    PROVE  \E r : Run(sn, log, r) /\ ReplayLoaded(sn) = r[Len(log)]
BY RunExists, ReplayUnfolds

-----------------------------------------------------------------------------
(***************************************************************************)
(* The rules of one seat.                                                  *)
(***************************************************************************)

\* The members can be counted.
LEMMA Counting ==
    /\ IsFiniteSet(Member) /\ Cardinality(Member) \in Nat /\ VetoRoom \in Nat
    /\ \A S \in SUBSET Member : IsFiniteSet(S) /\ Cardinality(S) \in Nat
<1>1. IsFiniteSet(Member) /\ Cardinality(Member) \in Nat
    BY MemberAssumption, FS_CardinalityType
<1>2. VetoRoom \in Nat
    BY <1>1, RuleAssumption DEF VetoRoom
<1>3. \A S \in SUBSET Member : IsFiniteSet(S) /\ Cardinality(S) \in Nat
    BY <1>1, FS_Subset, FS_CardinalityType
<1> QED BY <1>1, <1>2, <1>3

\* What Collect does, t being the seat after it.
Collected(t, s, n, b, h, verified) ==
    /\ t \in Seat
    /\ t.card = s.card /\ t.by = s.by /\ t.decl = s.decl /\ t.own = s.own
    /\ t.park = s.park /\ t.parkW = s.parkW /\ t.held = s.held /\ t.head = s.head
    /\ \A x \in t.ver : x \in s.ver \/ (x = b /\ verified)

\* Collect changes the signatures and their verdicts only.
LEMMA CollectFacts ==
    ASSUME NEW s \in Seat, NEW n \in Member, NEW b \in Member, NEW h \in Nat,
           NEW verified \in BOOLEAN
    PROVE  Collected(Collect(s, n, b, h, verified), s, n, b, h, verified)
<1> DEFINE keep == IF h > s.sh THEN {} ELSE s.sigs
           mark == IF h > s.sh THEN {} ELSE s.ver \ {b}
           q == [s EXCEPT !.sh   = h,
                          !.sigs = keep \cup {b},
                          !.ver  = mark]
<1>1. PICK c : c = CollectSig(s, n, b, h, verified)
    OBVIOUS
<1>2. PICK t : t = Collect(s, n, b, h, verified)
    OBVIOUS
<1>3. c = s \/ c = q
    BY <1>1 DEF CollectSig
<1>4. /\ keep \in SUBSET Member /\ mark \in SUBSET Member
      /\ \A x \in mark : x \in s.ver
    BY DEF Seat
<1> HIDE DEF keep, mark
<1>5. /\ q \in Seat
      /\ q.card = s.card /\ q.by = s.by /\ q.decl = s.decl /\ q.own = s.own
      /\ q.park = s.park /\ q.parkW = s.parkW /\ q.held = s.held /\ q.head = s.head
      /\ \A x \in q.ver : x \in s.ver
    BY <1>4 DEF Seat
<1> HIDE DEF q
<1>6. /\ c \in Seat
      /\ c.card = s.card /\ c.by = s.by /\ c.decl = s.decl /\ c.own = s.own
      /\ c.park = s.park /\ c.parkW = s.parkW /\ c.held = s.held /\ c.head = s.head
      /\ \A x \in c.ver : x \in s.ver
    BY <1>3, <1>5
<1>7. t = c \/ (verified /\ t = [c EXCEPT !.ver = @ \cup {b}])
    BY <1>1, <1>2 DEF Collect, MarkVerified
<1>8. CASE t = c
    BY <1>2, <1>6, <1>8 DEF Collected
<1>9. CASE verified /\ t = [c EXCEPT !.ver = @ \cup {b}]
    <2>1. /\ t \in Seat
          /\ t.card = c.card /\ t.by = c.by /\ t.decl = c.decl /\ t.own = c.own
          /\ t.park = c.park /\ t.parkW = c.parkW /\ t.held = c.held /\ t.head = c.head
          /\ t.ver = c.ver \cup {b}
        BY <1>6, <1>9 DEF Seat
    <2> QED BY <1>2, <1>6, <1>9, <2>1 DEF Collected
<1> QED BY <1>7, <1>8, <1>9

\* The seal takes the card out of the vote.
LEMMA TryCommitFacts ==
    ASSUME NEW s \in Seat, NEW paced \in BOOLEAN
    PROVE  LET t == TryCommit(s, paced)
           IN  /\ t \in Seat
               /\ t.by = s.by /\ t.decl = s.decl /\ t.own = s.own /\ t.park = s.park /\ t.parkW = s.parkW
               /\ \/ t.card = s.card /\ t.head = s.head /\ t.sh = s.sh /\ t.sigs = s.sigs /\ t.ver = s.ver
                  \/ /\ s.card = "open" /\ t.card = "applied" /\ t.head = s.head + 1 /\ t.sh = 0
                     /\ t.sigs = {} /\ t.ver = {}
<1>1. CASE ~Sealable(s)
    BY <1>1 DEF TryCommit
<1>2. CASE Sealable(s) /\ ~paced
    BY <1>2 DEF TryCommit, Seat
<1>3. CASE Sealable(s) /\ paced
    <2> DEFINE q == [s EXCEPT !.card = "applied", !.head = @ + 1,
                              !.sh = 0, !.sigs = {}, !.ver = {}, !.held = FALSE]
    <2>1. TryCommit(s, paced) = q
        BY <1>3 DEF TryCommit
    <2>2. s.card = "open"
        BY <1>3 DEF Sealable
    <2>3. /\ q \in Seat /\ q.by = s.by /\ q.decl = s.decl /\ q.own = s.own /\ q.park = s.park
          /\ q.parkW = s.parkW /\ q.card = "applied" /\ q.head = s.head + 1 /\ q.sh = 0
          /\ q.sigs = {} /\ q.ver = {}
        <3>1. "applied" \in Card /\ s.head + 1 \in Nat
            BY DEF Card, Seat
        <3>2. q \in Seat
            BY <3>1 DEF Seat
        <3>3. /\ q.by = s.by /\ q.decl = s.decl /\ q.own = s.own /\ q.park = s.park
              /\ q.parkW = s.parkW /\ q.card = "applied" /\ q.head = s.head + 1 /\ q.sh = 0
              /\ q.sigs = {} /\ q.ver = {}
            BY DEF Seat
        <3> QED BY <3>2, <3>3
    <2> QED BY <2>1, <2>2, <2>3
<1> QED BY <1>1, <1>2, <1>3

\* The fields a clear of one decline leaves.
LEMMA UndeclineFacts ==
    ASSUME NEW s \in Seat, NEW b
    PROVE  LET t == [s EXCEPT !.decl = @ \ {b}]
           IN  /\ t \in Seat /\ t.decl = s.decl \ {b}
               /\ t.card = s.card /\ t.by = s.by /\ t.sh = s.sh /\ t.sigs = s.sigs /\ t.ver = s.ver
               /\ t.own = s.own /\ t.park = s.park /\ t.parkW = s.parkW /\ t.head = s.head
BY DEF Seat

\* What RegisterDecline does.
Declined(t, s, n, b) ==
    /\ t \in Seat
    /\ t.by = s.by /\ t.sh = s.sh /\ t.parkW = s.parkW /\ t.head = s.head
    /\ \/ /\ s.card = "none" /\ t.card = "none" /\ t.park = s.park \cup {b}
          /\ t.decl = s.decl /\ t.sigs = s.sigs /\ t.ver = s.ver /\ t.own = s.own
       \/ s.card # "none" /\ (s.card # "open" \/ b \in s.decl) /\ t = s
       \/ /\ s.card = "open" /\ b \notin s.decl /\ t.card = IF Cardinality(s.decl \cup {b}) > VetoRoom THEN "rejected" ELSE "open"
          /\ t.park = s.park /\ t.decl = s.decl \cup {b}
          /\ t.sigs = s.sigs \ {b} /\ t.ver = s.ver \ {b} /\ (t.own <=> s.own /\ b # n)

\* RegisterDecline parks the voice, drops it, or counts it.
LEMMA RegisterDeclineFacts ==
    ASSUME NEW s \in Seat, NEW n \in Member, NEW b \in Member
    PROVE  Declined(RegisterDecline(s, n, b), s, n, b)
<1>1. CASE s.card = "none"
    <2> DEFINE q == [s EXCEPT !.park = @ \cup {b}]
    <2>1. RegisterDecline(s, n, b) = q
        BY <1>1 DEF RegisterDecline
    <2>2. q \in Seat /\ q.by = s.by /\ q.sh = s.sh /\ q.parkW = s.parkW /\ q.head = s.head
          /\ q.card = s.card /\ q.park = s.park \cup {b}
          /\ q.decl = s.decl /\ q.sigs = s.sigs /\ q.ver = s.ver /\ q.own = s.own
        BY DEF Seat
    <2> HIDE DEF q
    <2> QED BY <1>1, <2>1, <2>2 DEF Declined
<1>2. CASE s.card # "none" /\ (s.card # "open" \/ b \in s.decl)
    BY <1>2 DEF RegisterDecline, Declined
<1>3. CASE s.card = "open" /\ b \notin s.decl
    <2> DEFINE d == s.decl \cup {b}
               c == IF Cardinality(d) > VetoRoom THEN "rejected" ELSE "open"
               q == [s EXCEPT !.decl = d, !.sigs = @ \ {b}, !.ver = @ \ {b},
                              !.own  = @ /\ b # n, !.card = c]
    <2>1. RegisterDecline(s, n, b) = q
        BY <1>3 DEF RegisterDecline
    <2>2. c \in Card /\ c = IF Cardinality(s.decl \cup {b}) > VetoRoom THEN "rejected" ELSE "open"
        BY DEF Card
    <2>3. d \in SUBSET Member
        BY DEF Seat
    <2> HIDE DEF c, d
    <2>4. q \in Seat
        BY <2>2, <2>3 DEF Seat
    <2>5. q.by = s.by /\ q.sh = s.sh /\ q.parkW = s.parkW /\ q.head = s.head /\ q.card = c
          /\ q.park = s.park /\ q.decl = d /\ q.sigs = s.sigs \ {b} /\ q.ver = s.ver \ {b}
          /\ (q.own <=> s.own /\ b # n)
        BY DEF Seat
    <2> HIDE DEF q
    <2> QED BY <1>3, <2>1, <2>2, <2>4, <2>5 DEF Declined, d
<1> QED BY <1>1, <1>2, <1>3

\* What RegisterWithdraw does.
Pulled(t, s, b) ==
    /\ t \in Seat /\ t.by = s.by /\ t.decl = s.decl /\ t.head = s.head
    /\ \/ /\ s.card = "none" /\ t.card = "none" /\ t.parkW = TRUE
          /\ t.sh = s.sh /\ t.sigs = s.sigs /\ t.ver = s.ver /\ t.own = s.own /\ t.park = s.park
       \/ s.card # "none" /\ (s.card # "open" \/ b # Minter) /\ t = s
       \/ /\ s.card = "open" /\ b = Minter /\ t.card = "withdrawn" /\ t.parkW = s.parkW
          /\ t.sh = 0 /\ t.sigs = {} /\ t.ver = {} /\ t.own = FALSE /\ t.park = {}

\* RegisterWithdraw parks the withdrawal, drops it, or ends the vote.
LEMMA RegisterWithdrawFacts ==
    ASSUME NEW s \in Seat, NEW b
    PROVE  Pulled(RegisterWithdraw(s, b), s, b)
<1>1. CASE s.card = "none"
    <2> DEFINE q == [s EXCEPT !.parkW = TRUE]
    <2>1. RegisterWithdraw(s, b) = q
        BY <1>1 DEF RegisterWithdraw
    <2>2. q \in Seat /\ q.by = s.by /\ q.decl = s.decl /\ q.head = s.head /\ q.card = s.card
          /\ q.parkW = TRUE /\ q.sh = s.sh /\ q.sigs = s.sigs /\ q.ver = s.ver /\ q.own = s.own
          /\ q.park = s.park
        BY DEF Seat
    <2> HIDE DEF q
    <2> QED BY <1>1, <2>1, <2>2 DEF Pulled
<1>2. CASE s.card # "none" /\ (s.card # "open" \/ b # Minter)
    BY <1>2 DEF RegisterWithdraw, Pulled
<1>3. CASE s.card = "open" /\ b = Minter
    <2> DEFINE q == [s EXCEPT !.card = "withdrawn", !.sh = 0, !.sigs = {}, !.ver = {},
                              !.own = FALSE, !.park = {}]
    <2>1. RegisterWithdraw(s, b) = q
        BY <1>3 DEF RegisterWithdraw
    <2>2. "withdrawn" \in Card
        BY DEF Card
    <2>3. q \in Seat
        BY <2>2 DEF Seat
    <2>4. q.by = s.by /\ q.decl = s.decl /\ q.head = s.head /\ q.card = "withdrawn"
          /\ q.parkW = s.parkW /\ q.sh = 0 /\ q.sigs = {} /\ q.ver = {} /\ q.own = FALSE
          /\ q.park = {}
        BY DEF Seat
    <2> HIDE DEF q
    <2> QED BY <1>3, <2>1, <2>3, <2>4 DEF Pulled
<1> QED BY <1>1, <1>2, <1>3

\* The card is known: signatures that outran it are verified.
Known(s, from) == [s EXCEPT !.card = "open", !.by = from,
                            !.ver = IF s.sh = Target(s) THEN @ \cup s.sigs ELSE @]

\* The card opens.  Nothing is said yet of the voices that wait in the park.
LEMMA KnownFacts ==
    ASSUME NEW s \in Seat, NEW from \in Member
    PROVE  LET t == Known(s, from)
           IN  /\ t \in Seat /\ t.card = "open" /\ t.by = from
               /\ t.decl = s.decl /\ t.sh = s.sh /\ t.sigs = s.sigs /\ t.own = s.own
               /\ t.park = s.park /\ t.parkW = s.parkW /\ t.head = s.head
<1> DEFINE v == IF s.sh = Target(s) THEN s.ver \cup s.sigs ELSE s.ver
           q == [s EXCEPT !.card = "open", !.by = from, !.ver = v]
<1>1. Known(s, from) = q
    BY DEF Known
<1>2. v \in SUBSET Member /\ "open" \in Card
    BY DEF Seat, Card
<1> HIDE DEF v
<1>3. q \in Seat
    BY <1>2 DEF Seat
<1>4. /\ q.card = "open" /\ q.by = from /\ q.ver = v
      /\ q.decl = s.decl /\ q.sh = s.sh /\ q.sigs = s.sigs /\ q.own = s.own
      /\ q.park = s.park /\ q.parkW = s.parkW /\ q.head = s.head
    BY DEF Seat
<1> HIDE DEF q
<1> QED BY <1>1, <1>2, <1>3, <1>4

\* What the drained park leaves of an open card, and of one that is withdrawn.
Drained(t, s, n, D) ==
    /\ t \in Seat /\ t.by = s.by /\ t.sh = s.sh /\ t.parkW = s.parkW /\ t.head = s.head
    /\ t.park = {}
    /\ s.card # "open" => (/\ t.card = s.card /\ t.decl = s.decl /\ t.sigs = s.sigs
                           /\ t.ver = s.ver /\ t.own = s.own)
    /\ s.card = "open" => (/\ t.decl = D /\ t.sigs = s.sigs \ D /\ t.ver = s.ver \ D
                           /\ (t.own <=> (s.own /\ n \notin D))
                           /\ t.card = IF Cardinality(D) > VetoRoom THEN "rejected" ELSE "open")

\* register_parked_declines.
LEMMA ParkedFacts ==
    ASSUME NEW s \in Seat, NEW n \in Member, NEW D \in SUBSET Member
    PROVE  Drained(RegisterParkedDeclines(s, n, D), s, n, D)
<1>1. CASE s.card # "open"
    <2> DEFINE q == [s EXCEPT !.park = {}]
    <2>1. RegisterParkedDeclines(s, n, D) = q
        BY <1>1 DEF RegisterParkedDeclines
    <2>2. /\ q \in Seat /\ q.by = s.by /\ q.sh = s.sh /\ q.parkW = s.parkW /\ q.head = s.head
          /\ q.park = {} /\ q.card = s.card /\ q.decl = s.decl /\ q.sigs = s.sigs
          /\ q.ver = s.ver /\ q.own = s.own
        BY DEF Seat
    <2> HIDE DEF q
    <2> QED BY <1>1, <2>1, <2>2 DEF Drained
<1>2. CASE s.card = "open"
    <2> DEFINE c == IF Cardinality(D) > VetoRoom THEN "rejected" ELSE "open"
               q == [s EXCEPT !.park = {}, !.decl = D, !.sigs = @ \ D, !.ver = @ \ D,
                              !.own  = @ /\ n \notin D, !.card = c]
    <2>1. RegisterParkedDeclines(s, n, D) = q
        BY <1>2 DEF RegisterParkedDeclines
    <2>2. c \in Card
        BY DEF Card
    <2>3. c = IF Cardinality(D) > VetoRoom THEN "rejected" ELSE "open"
        OBVIOUS
    <2> HIDE DEF c
    <2>4. q \in Seat
        BY <2>2 DEF Seat
    <2>5. /\ q.by = s.by /\ q.sh = s.sh /\ q.parkW = s.parkW /\ q.head = s.head
          /\ q.park = {} /\ q.card = c /\ q.decl = D /\ q.sigs = s.sigs \ D
          /\ q.ver = s.ver \ D /\ (q.own <=> (s.own /\ n \notin D))
        BY DEF Seat
    <2> HIDE DEF q
    <2> QED BY <1>2, <2>1, <2>3, <2>4, <2>5 DEF Drained
<1> QED BY <1>1, <1>2

-----------------------------------------------------------------------------
(***************************************************************************)
(* What a rule keeps of Sound.                                             *)
(***************************************************************************)

\* Self is a member, and not the minter.
LEMMA SelfFacts == Self \in Member /\ Minter \in Member /\ Self # Minter
BY ReopenAssumption, MemberAssumption

\* Fewer declines leave the room they left.
LEMMA FewerDeclines ==
    ASSUME NEW D \in SUBSET Member, NEW E \in SUBSET Member, \A b \in D : b \in E
    PROVE  /\ Cardinality(D) \in Nat /\ Cardinality(E) \in Nat /\ VetoRoom \in Nat
           /\ Cardinality(D) <= Cardinality(E)
<1>1. D \subseteq E /\ IsFiniteSet(E)
    BY Counting
<1> QED BY <1>1, Counting, FS_Subset

\* A seat with no more declines, no own decision it had not, and a card that is
\* the same or sealed stays sound.
LEMMA SoundLess ==
    ASSUME NEW s \in Seat, NEW t \in Seat, NEW w, Sound(s, w),
           \A b \in t.decl : b \in s.decl, t.own => s.own,
           t.card = s.card \/ t.card \notin {"none", "open"}
    PROVE  Sound(t, w)
<1>1. t.decl \in SUBSET Member /\ s.decl \in SUBSET Member /\ s.own \in BOOLEAN /\ t.own \in BOOLEAN
    BY DEF Seat
<1>2. /\ Cardinality(t.decl) \in Nat /\ Cardinality(s.decl) \in Nat /\ VetoRoom \in Nat
      /\ Cardinality(t.decl) <= Cardinality(s.decl)
    BY <1>1, FewerDeclines
<1>3. t.card = "open" => Cardinality(t.decl) <= VetoRoom
    BY <1>2 DEF Sound
<1>4. t.card = "none" => t.own = FALSE /\ t.decl = {}
    BY <1>1 DEF Sound
<1>5. t.card = "open" /\ t.own => w = "approve" /\ Self \notin t.decl
    BY DEF Sound
<1> QED BY <1>3, <1>4, <1>5 DEF Sound

-----------------------------------------------------------------------------
(***************************************************************************)
(* One record of the replay.                                               *)
(***************************************************************************)

\* An own signature under the own envelope.
Mine(e) == e.by = Self /\ e.from = Self

\* A card's record opens the card, if there is none.
Opened(t, s) ==
    /\ t \in Seat
    /\ \/ s.card # "none" /\ t = s
       \/ /\ s.card = "none" /\ t.card = "open" /\ t.decl = s.decl /\ t.own = s.own
          /\ t.sigs = s.sigs /\ t.ver = s.ver /\ t.sh = s.sh

\* A card of the log.
LEMMA ReplayProposed ==
    ASSUME NEW s \in Seat, NEW e \in Record, e.t = "proposed"
    PROVE  Opened(ReplayEvent(s, e), s)
<1>1. CASE s.card # "none"
    BY <1>1 DEF ReplayEvent, Opened
<1>2. CASE s.card = "none"
    <2> DEFINE q == [s EXCEPT !.card = "open", !.by = e.from]
    <2>1. ReplayEvent(s, e) = q
        BY <1>2 DEF ReplayEvent
    <2>2. e.from \in Member /\ "open" \in Card
        BY DEF Record, Card
    <2>3. q \in Seat
        BY <2>2 DEF Seat
    <2>4. q.card = "open" /\ q.decl = s.decl /\ q.own = s.own /\ q.sigs = s.sigs
          /\ q.ver = s.ver /\ q.sh = s.sh
        BY DEF Seat
    <2> HIDE DEF q
    <2> QED BY <1>2, <2>1, <2>3, <2>4 DEF Opened
<1> QED BY <1>1, <1>2

\* An approval's record: the signature is collected, an own one is the own
\* decision, and the decline of its author goes.
Noted(t, s, e) ==
    /\ t \in Seat /\ t.card = s.card /\ (t.own <=> (s.own \/ Mine(e)))
    /\ t.decl = IF s.card = "open" THEN s.decl \ {e.by} ELSE s.decl
    /\ \A b \in t.ver : b \in s.ver \/ Mine(e)

\* An approval of the log.
LEMMA ReplayApproved ==
    ASSUME NEW s \in Seat, NEW e \in Record, e.t = "approved"
    PROVE  /\ Noted(ReplayEvent(s, e), s, e)
           /\ \E p \in Seat :
                /\ p.card = s.card /\ p.sh = s.sh /\ p.sigs = s.sigs /\ p.ver = s.ver
                /\ \E c \in Seat :
                    /\ c = Collect(p, Self, e.by, e.h, Mine(e))
                    /\ LET t == ReplayEvent(s, e)
                       IN  t.sh = c.sh /\ t.sigs = c.sigs /\ t.ver = c.ver
<1>1. PICK mine \in BOOLEAN : mine = Mine(e)
    BY DEF Mine
<1>2. e.by \in Member /\ e.h \in Nat
    BY DEF Record
<1>3. PICK p : p = [s EXCEPT !.own = @ \/ mine]
    OBVIOUS
<1>4. /\ p \in Seat /\ p.card = s.card /\ p.sh = s.sh /\ p.sigs = s.sigs /\ p.ver = s.ver
      /\ p.decl = s.decl /\ (p.own <=> (s.own \/ mine))
    BY <1>3 DEF Seat
<1>5. PICK c : c = Collect(p, Self, e.by, e.h, mine)
    OBVIOUS
<1>6. Collected(c, p, Self, e.by, e.h, mine)
    BY <1>2, <1>4, <1>5, CollectFacts, SelfFacts
<1>7. c \in Seat /\ c.card = s.card /\ c.decl = s.decl /\ (c.own <=> (s.own \/ mine))
    BY <1>4, <1>6 DEF Collected
<1>8. \A b \in c.ver : b \in s.ver \/ mine
    BY <1>4, <1>6 DEF Collected
<1>9. PICK t : t = ApplyApproved(c, e.by)
    OBVIOUS
<1>10. ReplayEvent(s, e) = t
    BY <1>1, <1>3, <1>5, <1>9 DEF ReplayEvent, Mine
<1>11. /\ t \in Seat /\ t.card = c.card /\ t.own = c.own /\ t.sigs = c.sigs /\ t.ver = c.ver
       /\ t.sh = c.sh /\ t.decl = IF s.card = "open" THEN s.decl \ {e.by} ELSE s.decl
    <2>1. CASE c.card = "open"
        <3>1. t = [c EXCEPT !.decl = @ \ {e.by}]
            BY <1>9, <2>1 DEF ApplyApproved
        <3>2. /\ t \in Seat /\ t.card = c.card /\ t.own = c.own /\ t.sigs = c.sigs
              /\ t.ver = c.ver /\ t.sh = c.sh /\ t.decl = c.decl \ {e.by}
            BY <1>7, <3>1 DEF Seat
        <3> QED BY <1>7, <2>1, <3>2
    <2>2. CASE c.card # "open"
        BY <1>7, <1>9, <2>2 DEF ApplyApproved
    <2> QED BY <2>1, <2>2
<1>12. Noted(t, s, e)
    BY <1>1, <1>7, <1>8, <1>11 DEF Noted
<1> QED BY <1>1, <1>4, <1>5, <1>7, <1>10, <1>11, <1>12

\* A decline and a withdrawal of the log.
LEMMA ReplayVoices ==
    ASSUME NEW s \in Seat, NEW e \in Record
    PROVE  /\ e.t = "declined" => Declined(ReplayEvent(s, e), s, Self, e.by)
           /\ e.t = "withdrawn" => Pulled(ReplayEvent(s, e), s, e.by)
<1>1. e.by \in Member
    BY DEF Record
<1>2. ASSUME e.t = "declined" PROVE ReplayEvent(s, e) = RegisterDecline(s, Self, e.by)
    BY <1>2 DEF ReplayEvent
<1>3. ASSUME e.t = "withdrawn" PROVE ReplayEvent(s, e) = RegisterWithdraw(s, e.by)
    BY <1>3 DEF ReplayEvent
<1> QED BY <1>1, <1>2, <1>3, SelfFacts, RegisterDeclineFacts, RegisterWithdrawFacts

-----------------------------------------------------------------------------
(***************************************************************************)
(* What the rules keep of Mirror.  In each lemma r is the replayed seat, s *)
(* the seat in memory and t what becomes of s.                             *)
(***************************************************************************)

\* A seat that keeps its card or is sealed, and gains no decline, needs no record.
LEMMA PairQuiet ==
    ASSUME NEW r, NEW s, NEW w, NEW t \in Seat, Pair(r, s, w),
           \A b \in t.decl : b \in s.decl, t.own => s.own,
           t.card = s.card \/ (s.card # "none" /\ t.card = "applied")
    PROVE  Pair(r, t, w)
<1>1. Sound(t, w)
    BY SoundLess DEF Pair
<1>2. Mirror(r, t)
    BY DEF Pair, Mirror
<1> QED BY <1>1, <1>2 DEF Pair

\* The record of an approval that the seat took in, clearing the decline of its
\* author.
LEMMA PairApproved ==
    ASSUME NEW r, NEW s, NEW w, NEW v, NEW t \in Seat, NEW e \in Record, Pair(r, s, w),
           e.t = "approved",
           \A b \in t.decl : b \in s.decl,
           t.card = "open" => e.by \notin t.decl,
           t.own => s.own \/ Mine(e),
           t.card = s.card \/ (s.card = "open" /\ t.card = "applied"),
           Mine(e) => s.card = "open" /\ v = "approve",
           ~Mine(e) => v = w
    PROVE  Pair(ReplayEvent(r, e), t, v)
<1>1. PICK q : q = ReplayEvent(r, e)
    OBVIOUS
<1>2. Noted(q, r, e)
    BY <1>1, ReplayApproved DEF Pair
<1>3. /\ q \in Seat /\ q.card = r.card /\ (q.own <=> (r.own \/ Mine(e)))
      /\ q.decl = IF r.card = "open" THEN r.decl \ {e.by} ELSE r.decl
    BY <1>2 DEF Noted, Pair, Sound
<1>4. r \in Seat /\ s \in Seat /\ Sound(r, w) /\ Sound(s, w) /\ Mirror(r, s)
    BY DEF Pair
<1>5. /\ t.decl \in SUBSET Member /\ s.decl \in SUBSET Member /\ q.decl \in SUBSET Member
      /\ r.decl \in SUBSET Member
      /\ t.own \in BOOLEAN /\ s.own \in BOOLEAN /\ r.own \in BOOLEAN /\ q.own \in BOOLEAN
    BY <1>3, <1>4 DEF Seat
<1>6. /\ Cardinality(t.decl) <= Cardinality(s.decl) /\ Cardinality(q.decl) <= Cardinality(r.decl)
      /\ Cardinality(t.decl) \in Nat /\ Cardinality(s.decl) \in Nat /\ VetoRoom \in Nat
      /\ Cardinality(q.decl) \in Nat /\ Cardinality(r.decl) \in Nat
    <2>1. \A b \in q.decl : b \in r.decl
        BY <1>3
    <2> QED BY <1>5, <2>1, FewerDeclines
<1>7. Mirror(q, t)
    BY <1>3, <1>4 DEF Mirror
<1>8. Sound(q, v)
    <2>1. q.card = "none" => q.own = FALSE /\ q.decl = {}
        BY <1>3, <1>4, <1>5 DEF Sound, Mirror
    <2>2. q.card = "open" => Cardinality(q.decl) <= VetoRoom
        BY <1>3, <1>4, <1>6 DEF Sound
    <2>3. q.card = "open" /\ q.own => v = "approve" /\ Self \notin q.decl
        BY <1>3, <1>4 DEF Sound, Mine
    <2> QED BY <1>3, <2>1, <2>2, <2>3 DEF Sound
<1>9. Sound(t, v)
    <2>1. t.card = "none" => t.own = FALSE /\ t.decl = {}
        BY <1>4, <1>5 DEF Sound
    <2>2. t.card = "open" => Cardinality(t.decl) <= VetoRoom
        BY <1>4, <1>6 DEF Sound
    <2>3. t.card = "open" /\ t.own => v = "approve" /\ Self \notin t.decl
        BY <1>4 DEF Sound, Mine
    <2> QED BY <2>1, <2>2, <2>3 DEF Sound
<1> QED BY <1>1, <1>3, <1>7, <1>8, <1>9 DEF Pair

\* A decline that counts at the seat, and its record.  Where the replay has
\* that decline already, it has room for it.
LEMMA PairDeclined ==
    ASSUME NEW r, NEW s, NEW w, NEW v, NEW b \in Member, NEW e \in Record, Pair(r, s, w),
           e.t = "declined", e.by = b, s.card = "open", b \notin s.decl,
           b # Self => v = w
    PROVE  Pair(ReplayEvent(r, e), RegisterDecline(s, Self, b), v)
<1>1. PICK q : q = ReplayEvent(r, e)
    OBVIOUS
<1>2. PICK t : t = RegisterDecline(s, Self, b)
    OBVIOUS
<1>3. r \in Seat /\ s \in Seat /\ Sound(r, w) /\ Sound(s, w) /\ Mirror(r, s)
    BY DEF Pair
<1>4. Declined(q, r, Self, b)
    BY <1>1, <1>3, ReplayVoices
<1>5. Declined(t, s, Self, b)
    BY <1>2, <1>3, RegisterDeclineFacts, SelfFacts
<1>6. /\ t \in Seat /\ t.card = IF Cardinality(s.decl \cup {b}) > VetoRoom THEN "rejected" ELSE "open"
      /\ t.decl = s.decl \cup {b}
      /\ t.sigs = s.sigs \ {b} /\ t.ver = s.ver \ {b} /\ (t.own <=> s.own /\ b # Self)
    BY <1>5 DEF Declined
<1>7. r.card \in {"open", "rejected"}
    BY <1>3 DEF Mirror
<1>8. /\ s.decl \cup {b} \in SUBSET Member /\ r.decl \cup {b} \in SUBSET Member
      /\ r.own \in BOOLEAN /\ s.own \in BOOLEAN /\ t.own \in BOOLEAN
    BY <1>3, <1>6 DEF Seat
<1>9. /\ Cardinality(s.decl \cup {b}) \in Nat /\ Cardinality(r.decl \cup {b}) \in Nat
      /\ VetoRoom \in Nat
    BY <1>8, Counting
<1>10. Sound(t, v)
    <2>2. t.card # "none" /\ (t.card = "open" => Cardinality(t.decl) <= VetoRoom)
        BY <1>6, <1>9
    <2>3. t.card = "open" /\ t.own => v = "approve" /\ Self \notin t.decl
        BY <1>3, <1>6 DEF Sound
    <2> QED BY <2>2, <2>3 DEF Sound
<1>11. CASE r.card = "rejected"
    <2>1. q = r
        BY <1>4, <1>11 DEF Declined
    <2>2. Sound(q, v) /\ Mirror(q, t)
        BY <1>3, <1>6, <1>11, <2>1 DEF Sound, Mirror
    <2> QED BY <1>1, <1>2, <1>3, <1>6, <1>10, <2>1, <2>2 DEF Pair
<1>12. CASE r.card = "open" /\ b \in r.decl
    <2>1. q = r
        BY <1>4, <1>12 DEF Declined
    <2>2. \A x \in s.decl \cup {b} : x \in r.decl
        BY <1>3, <1>12 DEF Mirror
    <2>3. Cardinality(s.decl \cup {b}) <= Cardinality(r.decl) /\ Cardinality(r.decl) \in Nat
        <3>1. r.decl \in SUBSET Member
            BY <1>3 DEF Seat
        <3> QED BY <1>8, <2>2, <3>1, FewerDeclines
    <2>4. Cardinality(r.decl) <= VetoRoom
        BY <1>3, <1>12 DEF Sound
    <2>5. t.card = "open"
        BY <1>6, <1>9, <2>3, <2>4
    <2>6. Mirror(q, t)
        BY <1>6, <1>12, <2>1, <2>2, <2>5 DEF Mirror
    <2>7. Sound(q, v)
        BY <1>3, <1>12, <2>1 DEF Sound
    <2> QED BY <1>1, <1>2, <1>3, <1>6, <1>10, <2>1, <2>6, <2>7 DEF Pair
<1>13. CASE r.card = "open" /\ b \notin r.decl
    <2>1. /\ q \in Seat /\ q.card = IF Cardinality(r.decl \cup {b}) > VetoRoom THEN "rejected" ELSE "open"
          /\ q.decl = r.decl \cup {b}
          /\ q.sigs = r.sigs \ {b} /\ q.ver = r.ver \ {b} /\ (q.own <=> r.own /\ b # Self)
        BY <1>4, <1>13 DEF Declined
    <2>2. \A x \in s.decl \cup {b} : x \in r.decl \cup {b}
        BY <1>3, <1>13 DEF Mirror
    <2>3. Cardinality(s.decl \cup {b}) <= Cardinality(r.decl \cup {b})
        BY <1>8, <2>2, FewerDeclines
    <2>4. t.card = "rejected" => q.card = "rejected"
        BY <1>6, <1>9, <2>1, <2>3
    <2>5. Mirror(q, t)
        BY <1>6, <2>1, <2>2, <2>4 DEF Mirror
    <2>7. q.card # "none" /\ (q.card = "open" => Cardinality(q.decl) <= VetoRoom)
        BY <1>9, <2>1
    <2>8. q.card = "open" /\ q.own => v = "approve" /\ Self \notin q.decl
        BY <1>3, <1>13, <2>1 DEF Sound
    <2>9. Sound(q, v)
        BY <2>7, <2>8 DEF Sound
    <2> QED BY <1>1, <1>2, <1>6, <1>10, <2>1, <2>5, <2>9 DEF Pair
<1> QED BY <1>7, <1>11, <1>12, <1>13

\* A withdrawal that ends the vote at the seat, and its record.
LEMMA PairWithdrawn ==
    ASSUME NEW r, NEW s, NEW w, NEW t \in Seat, NEW e \in Record, Pair(r, s, w),
           e.t = "withdrawn", e.by = Minter, s.card = "open",
           t.card = "withdrawn", t.ver = {}
    PROVE  Pair(ReplayEvent(r, e), t, w)
<1>1. PICK q : q = ReplayEvent(r, e)
    OBVIOUS
<1>2. Pulled(q, r, Minter)
    BY <1>1, ReplayVoices DEF Pair
<1>3. r \in Seat /\ Sound(r, w) /\ r.card \in {"open", "rejected"}
    BY DEF Pair, Mirror
<1>4. Sound(t, w)
    BY DEF Sound
<1>5. CASE r.card = "open"
    <2>1. q \in Seat /\ q.card = "withdrawn" /\ q.ver = {}
        BY <1>2, <1>5 DEF Pulled
    <2>2. Sound(q, w) /\ Mirror(q, t)
        BY <2>1 DEF Sound, Mirror
    <2> QED BY <1>1, <1>4, <2>1, <2>2 DEF Pair
<1>6. CASE r.card = "rejected"
    <2>1. q = r
        BY <1>2, <1>6 DEF Pulled
    <2>2. Mirror(q, t)
        BY <1>6, <2>1 DEF Mirror
    <2> QED BY <1>1, <1>3, <1>4, <2>1, <2>2 DEF Pair
<1> QED BY <1>3, <1>5, <1>6

-----------------------------------------------------------------------------
(***************************************************************************)
(* Steps.                                                                  *)
(***************************************************************************)

\* TypeOK in terms of Seat and Decision.
LEMMA TypeFacts ==
    TypeOK <=> /\ seat \in Seat
               /\ log \in Seq(Record)
               /\ snap \in [at : 0 .. Len(log), card : Card, by : Member, decl : SUBSET Member]
               /\ will \in Decision
BY DEF TypeOK, Seat, Decision

\* There is a replay, and it mirrors the seat.
LEMMA ThereIsAPair ==
    ASSUME IInv
    PROVE  /\ \E r : Pair(r, seat, will)
           /\ seat \in Seat /\ Sound(seat, will) /\ log \in Seq(Record) /\ will \in Decision
           /\ snap.at \in 0 .. Len(log)
<1>1. /\ log \in Seq(Record) /\ will \in Decision
      /\ snap \in [at : 0 .. Len(log), card : Card, by : Member, decl : SUBSET Member]
    BY TypeFacts DEF IInv
<1>2. snap.at \in 0 .. Len(log)
    BY <1>1
<1>3. PICK r : Run(snap, log, r)
    BY <1>1, <1>2, ReplayRun
<1>4. Pair(r[Len(log)], seat, will)
    BY <1>3 DEF IInv, Mirrored
<1> QED BY <1>1, <1>2, <1>4 DEF Pair

\* r goes on over the records ev after k records.
Continues(r, k, ev) == \A j \in 1 .. Len(ev) : r[k + j] = ReplayEvent(r[k + j - 1], ev[j])

\* A run over a longer log is a run over the shorter one, and goes on from there.
LEMMA RunPrefix ==
    ASSUME NEW sn, NEW L \in Seq(Record), NEW ev \in Seq(Record), NEW r,
           sn.at \in 0 .. Len(L), Run(sn, L \o ev, r)
    PROVE  Run(sn, L, r) /\ Continues(r, Len(L), ev)
<1>1. /\ Len(L \o ev) = Len(L) + Len(ev) /\ Len(L) \in Nat /\ Len(ev) \in Nat /\ sn.at \in Nat
      /\ sn.at <= Len(L)
    OBVIOUS
<1>2. \A i \in 1 .. Len(L) : (L \o ev)[i] = L[i]
    OBVIOUS
<1>3. \A j \in 1 .. Len(ev) : (L \o ev)[Len(L) + j] = ev[j]
    OBVIOUS
<1>4. \A i \in sn.at + 1 .. Len(L) + Len(ev) : r[i] = ReplayEvent(r[i - 1], (L \o ev)[i])
    BY <1>1 DEF Run
<1>5. ASSUME NEW i \in sn.at + 1 .. Len(L) PROVE r[i] = ReplayEvent(r[i - 1], L[i])
    <2>1. i \in sn.at + 1 .. Len(L) + Len(ev) /\ i \in 1 .. Len(L)
        BY <1>1
    <2> QED BY <1>2, <1>4, <2>1
<1>6. ASSUME NEW j \in 1 .. Len(ev)
      PROVE  r[Len(L) + j] = ReplayEvent(r[Len(L) + j - 1], ev[j])
    <2>1. Len(L) + j \in sn.at + 1 .. Len(L) + Len(ev)
        BY <1>1
    <2> QED BY <1>3, <1>4, <2>1
<1>7. r[sn.at] = Base(sn)
    BY DEF Run
<1> QED BY <1>5, <1>6, <1>7 DEF Run, Continues

\* A step of the live seat: the records ev are added, and a replay that goes on
\* over them mirrors the new seat.
LEMMA LiveStep ==
    ASSUME IInv, snap' = snap, NEW ev \in Seq(Record), log' = log \o ev, will' \in Decision,
           \A r : Pair(r[Len(log)], seat, will) /\ Continues(r, Len(log), ev)
                  => Pair(r[Len(log) + Len(ev)], seat', will')
    PROVE  IInv'
<1>1. /\ log \in Seq(Record) /\ snap.at \in 0 .. Len(log)
    BY ThereIsAPair
<1>2. /\ log' \in Seq(Record) /\ Len(log') = Len(log) + Len(ev) /\ Len(log) \in Nat /\ Len(ev) \in Nat
    BY <1>1
<1>3. snap' \in [at : 0 .. Len(log'), card : Card, by : Member, decl : SUBSET Member]
    <2>1. snap \in [at : 0 .. Len(log), card : Card, by : Member, decl : SUBSET Member]
        BY TypeFacts DEF IInv
    <2>2. snap.at \in 0 .. Len(log')
        BY <1>1, <1>2
    <2> QED BY <2>1, <2>2
<1>4. ASSUME NEW r, Run(snap', log', r) PROVE Pair(r[Len(log')], seat', will')
    <2>1. Run(snap, log \o ev, r)
        BY <1>4
    <2>2. Run(snap, log, r) /\ Continues(r, Len(log), ev)
        BY <1>1, <2>1, RunPrefix
    <2>3. Pair(r[Len(log)], seat, will)
        BY <2>2 DEF IInv, Mirrored
    <2> QED BY <1>2, <2>2, <2>3
<1>5. Mirrored'
    BY <1>4 DEF Mirrored
<1>6. snap'.at \in 0 .. Len(log')
    BY <1>3
<1>7. \E r : Run(snap', log', r)
    <2>1. ASSUME NEW L \in Seq(Record), NEW sn, sn.at \in 0 .. Len(L) PROVE \E r : Run(sn, L, r)
        BY <2>1, RunExists
    <2> QED BY <1>2, <1>6, <2>1
<1>8. seat' \in Seat
    BY <1>5, <1>7 DEF Mirrored, Pair, Sound
<1>9. TypeOK'
    BY <1>2, <1>3, <1>8, TypeFacts DEF TypeOK, Seat, Decision
<1> QED BY <1>5, <1>9 DEF IInv

\* A step without a record.
LEMMA QuietStep ==
    ASSUME IInv, snap' = snap, log' = log, will' \in Decision,
           \A r : Pair(r, seat, will) => Pair(r, seat', will')
    PROVE  IInv'
<1>1. log \in Seq(Record)
    BY ThereIsAPair
<1>2. PICK ev : ev = <<>> /\ ev \in Seq(Record)
    <2>1. <<>> \in Seq(Record)
        OBVIOUS
    <2> QED BY <2>1
<1>3. log' = log \o ev /\ Len(ev) = 0 /\ Len(log) + Len(ev) = Len(log)
    BY <1>1, <1>2
<1>4. ASSUME NEW r, Pair(r[Len(log)], seat, will), Continues(r, Len(log), ev)
      PROVE  Pair(r[Len(log) + Len(ev)], seat', will')
    BY <1>3, <1>4
<1> QED BY <1>2, <1>3, <1>4, LiveStep

\* A step with one record.
LEMMA RecordStep ==
    ASSUME IInv, snap' = snap, NEW e \in Record, log' = log \o <<e>>, will' \in Decision,
           \A r : Pair(r, seat, will) => Pair(ReplayEvent(r, e), seat', will')
    PROVE  IInv'
<1>1. log \in Seq(Record)
    BY ThereIsAPair
<1>2. PICK ev : ev = <<e>> /\ ev \in Seq(Record)
    <2>1. <<e>> \in Seq(Record)
        OBVIOUS
    <2> QED BY <2>1
<1>3. log' = log \o ev /\ Len(ev) = 1 /\ ev[1] = e /\ Len(log) \in Nat /\ Len(log) + 1 - 1 = Len(log)
    BY <1>1, <1>2
<1>4. ASSUME NEW r, Pair(r[Len(log)], seat, will), Continues(r, Len(log), ev)
      PROVE  Pair(r[Len(log) + Len(ev)], seat', will')
    <2>1. 1 \in 1 .. Len(ev)
        BY <1>3
    <2>2. r[Len(log) + 1] = ReplayEvent(r[Len(log) + 1 - 1], ev[1])
        BY <1>4, <2>1 DEF Continues
    <2>3. r[Len(log) + 1] = ReplayEvent(r[Len(log)], e)
        BY <1>3, <2>2
    <2> QED BY <1>3, <1>4, <2>3
<1> QED BY <1>2, <1>3, <1>4, LiveStep

\* The records, and what is in them.
LEMMA RecordFacts ==
    ASSUME NEW from \in Member, NEW b \in Member, NEW h \in Nat
    PROVE  /\ Approved(from, b, h) \in Record
           /\ Approved(from, b, h).t = "approved" /\ Approved(from, b, h).by = b
           /\ Approved(from, b, h).from = from /\ Approved(from, b, h).h = h
           /\ \A what \in {"proposed", "declined", "withdrawn"} :
                /\ Says(what, from, b) \in Record
                /\ Says(what, from, b).t = what /\ Says(what, from, b).by = b
<1>1. \A what \in {"proposed", "declined", "withdrawn"} :
        /\ Says(what, from, b) \in Record
        /\ Says(what, from, b).t = what /\ Says(what, from, b).by = b
    BY DEF Says, Record
<1>2. /\ Approved(from, b, h) \in Record
      /\ Approved(from, b, h).t = "approved" /\ Approved(from, b, h).by = b
      /\ Approved(from, b, h).from = from /\ Approved(from, b, h).h = h
    BY DEF Approved, Record
<1> QED BY <1>1, <1>2

\* What the ingest of an approval of b leaves.
Ingested(t, s, b, h) ==
    /\ t \in Seat /\ t.own = s.own
    /\ \A x \in t.decl : x \in s.decl
    /\ t.card = s.card \/ (s.card = "open" /\ t.card = "applied")
    /\ Landed(t, b, h) => t.card = s.card /\ (t.card = "open" => b \notin t.decl)

\* The ingest of an approval.
LEMMA ReceiveApprovalFacts ==
    ASSUME NEW s \in Seat, NEW from \in Member, NEW b \in Member, NEW h \in Nat, NEW paced \in BOOLEAN
    PROVE  Ingested(ReceiveApproval(s, Self, from, b, h, paced), s, b, h)
<1>1. PICK c : c = ClearDecline(s, from, b)
    OBVIOUS
<1>2. /\ c \in Seat /\ c.card = s.card /\ c.own = s.own /\ c.sigs = s.sigs /\ c.ver = s.ver /\ c.sh = s.sh
      /\ \A x \in c.decl : x \in s.decl
      /\ s.card # "open" => c = s
    <2>1. CASE b = from /\ s.card = "open"
        <3>1. c = [s EXCEPT !.decl = @ \ {b}]
            BY <1>1, <2>1 DEF ClearDecline
        <3> QED BY <2>1, <3>1, UndeclineFacts
    <2>2. CASE ~(b = from /\ s.card = "open")
        <3>1. c = s
            BY <1>1, <2>2 DEF ClearDecline
        <3> QED BY <3>1
    <2> QED BY <2>1, <2>2
<1>3. PICK x : x = IF h > Target(s) THEN c
                   ELSE TryCommit(Collect(c, Self, b, h, ApprovalVerifies(c, h)), paced)
    OBVIOUS
<1>4. /\ x \in Seat /\ x.own = s.own
      /\ \A y \in x.decl : y \in s.decl
      /\ x.card = s.card \/ (s.card = "open" /\ x.card = "applied" /\ x.sigs = {})
    <2>1. CASE h > Target(s)
        BY <1>2, <1>3, <2>1
    <2>2. CASE ~(h > Target(s))
        <3>1. PICK v \in BOOLEAN : v = ApprovalVerifies(c, h)
            BY DEF ApprovalVerifies
        <3>2. PICK u : u = Collect(c, Self, b, h, v)
            OBVIOUS
        <3>3. Collected(u, c, Self, b, h, v)
            BY <1>2, <3>2, CollectFacts, SelfFacts
        <3>4. u \in Seat /\ u.card = s.card /\ u.own = s.own /\ u.decl = c.decl
            BY <1>2, <3>3 DEF Collected
        <3>6. x = TryCommit(u, paced)
            BY <1>3, <2>2, <3>1, <3>2
        <3>7. /\ x \in Seat /\ x.decl = u.decl /\ x.own = u.own
              /\ \/ x.card = u.card /\ x.sigs = u.sigs /\ x.ver = u.ver
                 \/ u.card = "open" /\ x.card = "applied" /\ x.sigs = {} /\ x.ver = {}
            BY <3>4, <3>6, TryCommitFacts
        <3> QED BY <1>2, <3>4, <3>7
    <2> QED BY <2>1, <2>2
<1>5. PICK t : t = ReceiveApproval(s, Self, from, b, h, paced)
    OBVIOUS
<1>6. t = IF Landed(x, b, h) THEN ApplyApproved(x, b) ELSE x
    BY <1>1, <1>3, <1>5 DEF ReceiveApproval
<1>7. CASE Landed(x, b, h)
    <2>1. x.card = s.card
        BY <1>4, <1>7 DEF Landed
    <2>2. CASE x.card = "open"
        <3>1. t = [x EXCEPT !.decl = @ \ {b}]
            BY <1>6, <1>7, <2>2 DEF ApplyApproved
        <3>2. /\ t \in Seat /\ t.decl = x.decl \ {b} /\ t.card = x.card /\ t.sigs = x.sigs
              /\ t.ver = x.ver /\ t.own = x.own
            BY <1>4, <3>1, UndeclineFacts
        <3>3. Ingested(t, s, b, h)
            BY <1>4, <2>1, <3>2 DEF Ingested
        <3> QED BY <1>5, <3>3
    <2>3. CASE x.card # "open"
        <3>1. t = x
            BY <1>6, <2>3 DEF ApplyApproved
        <3>2. Ingested(t, s, b, h)
            BY <1>4, <2>1, <2>3, <3>1 DEF Ingested
        <3> QED BY <1>5, <3>2
    <2> QED BY <2>2, <2>3
<1>8. CASE ~Landed(x, b, h)
    <2>1. t = x
        BY <1>6, <1>8
    <2>2. Ingested(t, s, b, h)
        BY <1>4, <1>8, <2>1 DEF Ingested
    <2> QED BY <1>5, <2>2
<1> QED BY <1>7, <1>8

\* The own signature.
LEMMA SignFacts ==
    ASSUME NEW s \in Seat
    PROVE  LET t == Sign(s, Self)
           IN  /\ t \in Seat /\ t.card = s.card /\ t.decl = s.decl /\ t.own = TRUE
<1>1. PICK p : p = [s EXCEPT !.own = TRUE]
    OBVIOUS
<1>2. /\ p \in Seat /\ p.card = s.card /\ p.decl = s.decl /\ p.own = TRUE
      /\ p.sigs = s.sigs /\ p.ver = s.ver
    BY <1>1 DEF Seat
<1>3. PICK h \in Nat : h = Target(s)
    BY DEF Target, Seat
<1>4. PICK t : t = Collect(p, Self, Self, h, TRUE)
    OBVIOUS
<1>5. Sign(s, Self) = t
    BY <1>1, <1>3, <1>4 DEF Sign
<1>6. Collected(t, p, Self, Self, h, TRUE)
    BY <1>2, <1>4, CollectFacts, SelfFacts
<1>8. t \in Seat /\ t.card = s.card /\ t.decl = s.decl /\ t.own = TRUE
    BY <1>2, <1>6 DEF Collected
<1> QED BY <1>5, <1>8

\* A seal, tried, of a seat u.
LEMMA SealFacts ==
    ASSUME NEW u \in Seat, NEW paced \in BOOLEAN
    PROVE  LET t == TryCommit(u, paced)
           IN  /\ t \in Seat /\ t.decl = u.decl /\ t.own = u.own
               /\ t.card = u.card \/ (u.card = "open" /\ t.card = "applied")
<1>1. PICK t : t = TryCommit(u, paced)
    OBVIOUS
<1>2. /\ t \in Seat /\ t.decl = u.decl /\ t.own = u.own
      /\ \/ t.card = u.card /\ t.sigs = u.sigs /\ t.ver = u.ver
         \/ u.card = "open" /\ t.card = "applied" /\ t.sigs = {} /\ t.ver = {}
    BY <1>1, TryCommitFacts
<1> QED BY <1>1, <1>2

-----------------------------------------------------------------------------
(***************************************************************************)
(* The actions keep the invariant.                                         *)
(***************************************************************************)


\* A vote of another member, or an own one that comes back.
LEMMA ReceiveVoteInv ==
    ASSUME IInv, NEW from \in Peer, NEW b \in Member, NEW h \in 1 .. MaxHead + 1,
           ReceiveVote(from, b, h)
    PROVE  IInv'
<1>1. from \in Member /\ from # Self /\ h \in Nat
    BY ReopenAssumption DEF Peer
<1>2. seat \in Seat /\ Sound(seat, will) /\ will \in Decision
    BY ThereIsAPair
<1>3. PICK paced \in BOOLEAN :
        LET t == ReceiveApproval(seat, Self, from, b, h, paced)
        IN  /\ Step(t, IF Landed(t, b, h) THEN <<Approved(from, b, h)>> ELSE <<>>)
            /\ UNCHANGED <<will, reorgs>>
    BY DEF ReceiveVote
<1>4. PICK t : t = ReceiveApproval(seat, Self, from, b, h, paced)
    OBVIOUS
<1>5. Ingested(t, seat, b, h)
    BY <1>1, <1>2, <1>4, ReceiveApprovalFacts
<1>6. /\ t \in Seat /\ t.own = seat.own
      /\ \A x \in t.decl : x \in seat.decl
      /\ t.card = seat.card \/ (seat.card = "open" /\ t.card = "applied")
      /\ Landed(t, b, h) => t.card = seat.card /\ (t.card = "open" => b \notin t.decl)
    BY <1>2, <1>5 DEF Ingested, Sound
<1>7. /\ seat' = t /\ will' = will /\ snap' = snap
      /\ log' = log \o (IF Landed(t, b, h) THEN <<Approved(from, b, h)>> ELSE <<>>)
    BY <1>3, <1>4 DEF Step
<1>8. CASE Landed(t, b, h)
    <2>1. PICK e : e = Approved(from, b, h)
        OBVIOUS
    <2>2. e \in Record /\ e.t = "approved" /\ e.by = b /\ e.from = from
        BY <1>1, <2>1, RecordFacts
    <2>3. ~Mine(e)
        BY <1>1, <2>2 DEF Mine
    <2>4. ASSUME NEW r, Pair(r, seat, will) PROVE Pair(ReplayEvent(r, e), t, will)
        BY <1>6, <1>8, <2>2, <2>3, <2>4, PairApproved
    <2>5. log' = log \o <<e>>
        BY <1>7, <1>8, <2>1
    <2> QED BY <1>2, <1>7, <2>2, <2>4, <2>5, RecordStep
<1>9. CASE ~Landed(t, b, h)
    <2>1. log' = log
        BY <1>7, <1>9, ThereIsAPair
    <2>2. ASSUME NEW r, Pair(r, seat, will) PROVE Pair(r, t, will)
        BY <1>6, <2>2, PairQuiet
    <2> QED BY <1>2, <1>7, <2>1, <2>2, QuietStep
<1> QED BY <1>8, <1>9

\* The decline of another member.
LEMMA ReceiveDeclineInv ==
    ASSUME IInv, NEW b \in Peer, ReceiveDecline(b)
    PROVE  IInv'
<1>1. b \in Member /\ b # Self
    BY DEF Peer
<1>2. seat \in Seat /\ Sound(seat, will) /\ will \in Decision /\ log \in Seq(Record)
    BY ThereIsAPair
<1>3. PICK t : t = RegisterDecline(seat, Self, b)
    OBVIOUS
<1>4. Declined(t, seat, Self, b)
    BY <1>1, <1>2, <1>3, RegisterDeclineFacts, SelfFacts
<1>5. /\ t # seat /\ seat' = t /\ will' = will /\ snap' = snap
      /\ log' = log \o (IF seat.card = "open" THEN <<Says("declined", b, b)>> ELSE <<>>)
    BY <1>3 DEF ReceiveDecline, Step
<1>6. CASE seat.card = "open"
    <2>1. PICK e : e = Says("declined", b, b)
        OBVIOUS
    <2>2. e \in Record /\ e.t = "declined" /\ e.by = b
        BY <1>1, <2>1, RecordFacts
    <2>3. b \notin seat.decl
        BY <1>4, <1>5, <1>6 DEF Declined
    <2>4. ASSUME NEW r, Pair(r, seat, will) PROVE Pair(ReplayEvent(r, e), t, will)
        BY <1>1, <1>3, <1>6, <2>2, <2>3, <2>4, PairDeclined
    <2>5. log' = log \o <<e>>
        BY <1>5, <1>6, <2>1
    <2> QED BY <1>2, <1>5, <2>2, <2>4, <2>5, RecordStep
<1>7. CASE seat.card # "open"
    <2>1. log' = log
        BY <1>2, <1>5, <1>7
    <2>2. /\ t \in Seat /\ t.card = seat.card /\ t.decl = seat.decl /\ t.own = seat.own
          /\ t.sigs = seat.sigs /\ t.ver = seat.ver
        BY <1>4, <1>5, <1>7 DEF Declined
    <2>4. ASSUME NEW r, Pair(r, seat, will) PROVE Pair(r, t, will)
        BY <2>2, <2>4, PairQuiet
    <2> QED BY <1>2, <1>5, <2>1, <2>4, QuietStep
<1> QED BY <1>6, <1>7

\* The own decline.
LEMMA CmdDeclineInv ==
    ASSUME IInv, CmdDecline
    PROVE  IInv'
<1>1. seat \in Seat /\ Sound(seat, will)
    BY ThereIsAPair
<1>2. PICK t : t = RegisterDecline(seat, Self, Self)
    OBVIOUS
<1>3. PICK e : e = Says("declined", Self, Self)
    OBVIOUS
<1>4. /\ seat.card = "open" /\ Self \notin seat.decl /\ seat' = t /\ will' = "decline" /\ snap' = snap
      /\ log' = log \o <<e>>
    BY <1>2, <1>3 DEF CmdDecline, Step
<1>5. e \in Record /\ e.t = "declined" /\ e.by = Self /\ Self \in Member
    BY <1>3, RecordFacts, SelfFacts
<1>6. PICK v \in Decision : v = "decline"
    BY DEF Decision
<1>7. ASSUME NEW r, Pair(r, seat, will) PROVE Pair(ReplayEvent(r, e), t, v)
    BY <1>2, <1>4, <1>5, <1>7, PairDeclined
<1> QED BY <1>4, <1>5, <1>6, <1>7, RecordStep

\* The own approval.
LEMMA CmdApproveInv ==
    ASSUME IInv, CmdApprove
    PROVE  IInv'
<1>1. seat \in Seat /\ Sound(seat, will)
    BY ThereIsAPair
<1>2. PICK s : s = [seat EXCEPT !.decl = @ \ {Self}]
    OBVIOUS
<1>3. /\ s \in Seat /\ s.card = seat.card /\ s.decl = seat.decl \ {Self}
      /\ s.sigs = seat.sigs /\ s.ver = seat.ver
    BY <1>1, <1>2, UndeclineFacts
<1>4. PICK u : u = Sign(s, Self)
    OBVIOUS
<1>5. /\ u \in Seat /\ u.card = s.card /\ u.decl = s.decl /\ u.own = TRUE
    BY <1>1, <1>3, <1>4, SignFacts DEF Sound
<1>6. PICK h \in Nat : h = Target(seat)
    BY <1>1 DEF Target, Seat
<1>7. PICK e : e = Approved(Self, Self, h)
    OBVIOUS
<1>8. PICK paced \in BOOLEAN :
        /\ seat.card = "open" /\ Step(TryCommit(u, paced), <<e>>) /\ will' = "approve"
    BY <1>2, <1>4, <1>6, <1>7 DEF CmdApprove
<1>9. PICK t : t = TryCommit(u, paced)
    OBVIOUS
<1>10. /\ t \in Seat /\ t.decl = u.decl /\ t.own = TRUE
       /\ t.card = u.card \/ (u.card = "open" /\ t.card = "applied")
    BY <1>5, <1>9, SealFacts
<1>11. seat' = t /\ snap' = snap /\ log' = log \o <<e>> /\ will' = "approve" /\ seat.card = "open"
    BY <1>8, <1>9 DEF Step
<1>12. e \in Record /\ e.t = "approved" /\ e.by = Self /\ Mine(e)
    BY <1>7, RecordFacts, SelfFacts DEF Mine
<1>13. PICK v \in Decision : v = "approve"
    BY DEF Decision
<1>14. ASSUME NEW r, Pair(r, seat, will) PROVE Pair(ReplayEvent(r, e), t, v)
    <2>1. /\ \A b \in t.decl : b \in seat.decl /\ e.by \notin t.decl
          /\ t.card = seat.card \/ (seat.card = "open" /\ t.card = "applied")
        BY <1>3, <1>5, <1>10, <1>12
    <2> QED BY <1>10, <1>11, <1>12, <1>13, <1>14, <2>1, PairApproved
<1> QED BY <1>11, <1>12, <1>13, <1>14, RecordStep

\* The withdrawal.
LEMMA ReceiveWithdrawalInv ==
    ASSUME IInv, ReceiveWithdrawal
    PROVE  IInv'
<1>1. seat \in Seat /\ Sound(seat, will) /\ will \in Decision /\ log \in Seq(Record)
    BY ThereIsAPair
<1>2. PICK t : t = RegisterWithdraw(seat, Minter)
    OBVIOUS
<1>3. Pulled(t, seat, Minter)
    BY <1>1, <1>2, RegisterWithdrawFacts
<1>4. /\ t # seat /\ seat' = t /\ will' = will /\ snap' = snap
      /\ log' = log \o (IF seat.card = "open" THEN <<Says("withdrawn", Minter, Minter)>> ELSE <<>>)
    BY <1>2 DEF ReceiveWithdrawal, Step
<1>5. CASE seat.card = "open"
    <2>1. PICK e : e = Says("withdrawn", Minter, Minter)
        OBVIOUS
    <2>2. e \in Record /\ e.t = "withdrawn" /\ e.by = Minter
        BY <2>1, RecordFacts, SelfFacts
    <2>3. t \in Seat /\ t.card = "withdrawn" /\ t.ver = {}
        BY <1>3, <1>4, <1>5 DEF Pulled
    <2>4. ASSUME NEW r, Pair(r, seat, will) PROVE Pair(ReplayEvent(r, e), t, will)
        BY <1>5, <2>2, <2>3, <2>4, PairWithdrawn
    <2>5. log' = log \o <<e>>
        BY <1>4, <1>5, <2>1
    <2> QED BY <1>1, <1>4, <2>2, <2>4, <2>5, RecordStep
<1>6. CASE seat.card # "open"
    <2>1. log' = log
        BY <1>1, <1>4, <1>6
    <2>2. /\ t \in Seat /\ t.card = seat.card /\ t.decl = seat.decl /\ t.own = seat.own
          /\ t.sigs = seat.sigs /\ t.ver = seat.ver
        BY <1>3, <1>4, <1>6 DEF Pulled
    <2>4. ASSUME NEW r, Pair(r, seat, will) PROVE Pair(r, t, will)
        BY <2>2, <2>4, PairQuiet
    <2> QED BY <1>1, <1>4, <2>1, <2>4, QuietStep
<1> QED BY <1>5, <1>6

\* A seal that waited.
LEMMA DrainHeldSealsInv ==
    ASSUME IInv, DrainHeldSeals
    PROVE  IInv'
<1>1. seat \in Seat /\ Sound(seat, will) /\ will \in Decision /\ log \in Seq(Record)
    BY ThereIsAPair
<1>2. PICK s : s = [seat EXCEPT !.held = FALSE]
    OBVIOUS
<1>3. /\ s \in Seat /\ s.card = seat.card /\ s.decl = seat.decl /\ s.own = seat.own
      /\ s.sigs = seat.sigs /\ s.ver = seat.ver
    BY <1>1, <1>2 DEF Seat
<1>4. PICK t : t = TryCommit(s, TRUE)
    OBVIOUS
<1>5. /\ t \in Seat /\ t.decl = s.decl /\ t.own = s.own
      /\ t.card = s.card \/ (s.card = "open" /\ t.card = "applied")
    BY <1>1, <1>3, <1>4, SealFacts DEF Sound
<1>6. seat' = t /\ snap' = snap /\ log' = log /\ will' = will
    BY <1>1, <1>2, <1>4 DEF DrainHeldSeals, Step
<1>7. ASSUME NEW r, Pair(r, seat, will) PROVE Pair(r, t, will)
    BY <1>3, <1>5, <1>7, PairQuiet
<1> QED BY <1>1, <1>6, <1>7, QuietStep

\* The head moves: the seat signs again if the vote is open and it approved, and
\* then it did not decline.
LEMMA MoveToInv ==
    ASSUME IInv, NEW h \in Nat, NEW paced \in BOOLEAN, MoveTo(h, paced), will' = will
    PROVE  IInv'
<1>1. seat \in Seat /\ Sound(seat, will) /\ will \in Decision /\ log \in Seq(Record)
    BY ThereIsAPair
<1>2. PICK s : s = [seat EXCEPT !.head = h, !.sh = 0, !.sigs = {}, !.ver = {}]
    OBVIOUS
<1>3. /\ s \in Seat /\ s.card = seat.card /\ s.decl = seat.decl /\ s.own = seat.own
      /\ s.sigs = {} /\ s.ver = {}
    BY <1>1, <1>2 DEF Seat
<1>4. CASE s.own /\ s.card = "open"
    <2>1. PICK u : u = Sign(s, Self)
        OBVIOUS
    <2>2. /\ u \in Seat /\ u.card = s.card /\ u.decl = s.decl /\ u.own = TRUE
        BY <1>3, <2>1, SignFacts
    <2>3. PICK t : t = TryCommit(u, paced)
        OBVIOUS
    <2>4. /\ t \in Seat /\ t.decl = u.decl /\ t.own = TRUE
          /\ t.card = u.card \/ (u.card = "open" /\ t.card = "applied")
        BY <2>2, <2>3, SealFacts
    <2>5. PICK k \in Nat : k = Target(s)
        BY <1>3 DEF Target, Seat
    <2>6. PICK e : e = Approved(Self, Self, k)
        OBVIOUS
    <2>7. e \in Record /\ e.t = "approved" /\ e.by = Self /\ Mine(e)
        BY <2>6, RecordFacts, SelfFacts DEF Mine
    <2>8. seat' = t /\ snap' = snap /\ log' = log \o <<e>>
        BY <1>2, <1>4, <2>1, <2>3, <2>5, <2>6 DEF MoveTo, Step
    <2>9. will = "approve" /\ Self \notin seat.decl
        BY <1>1, <1>3, <1>4 DEF Sound
    <2>10. ASSUME NEW r, Pair(r, seat, will) PROVE Pair(ReplayEvent(r, e), t, will)
        BY <1>3, <1>4, <2>2, <2>4, <2>7, <2>9, <2>10, PairApproved
    <2> QED BY <1>1, <2>7, <2>8, <2>10, RecordStep
<1>5. CASE ~(s.own /\ s.card = "open")
    <2>1. PICK t : t = TryCommit(s, paced)
        OBVIOUS
    <2>2. /\ t \in Seat /\ t.decl = s.decl /\ t.own = s.own
          /\ t.card = s.card \/ (s.card = "open" /\ t.card = "applied")
        BY <1>3, <2>1, SealFacts
    <2>3. seat' = t /\ snap' = snap /\ log' = log
        BY <1>1, <1>2, <1>5, <2>1 DEF MoveTo, Step
    <2>4. ASSUME NEW r, Pair(r, seat, will) PROVE Pair(r, t, will)
        BY <1>3, <2>2, <2>4, PairQuiet
    <2> QED BY <1>1, <2>3, <2>4, QuietStep
<1> QED BY <1>4, <1>5

\* Foreign blocks, a branch that wins, and the block of this card.
LEMMA BlocksInv ==
    ASSUME IInv, HeadMoves \/ Rebase \/ ReceiveBlock
    PROVE  IInv'
<1>1. seat \in Seat /\ Sound(seat, will) /\ will \in Decision /\ log \in Seq(Record)
      /\ seat.head \in Nat /\ seat.head + 1 \in Nat
    <2>1. seat \in Seat /\ Sound(seat, will) /\ will \in Decision /\ log \in Seq(Record)
        BY ThereIsAPair
    <2> QED BY <2>1 DEF Seat
<1>2. CASE HeadMoves
    <2>1. will' = will
        BY <1>2 DEF HeadMoves
    <2>2. CASE seat.sh > 0 /\ seat.sh < seat.head + 2
        <3>1. PICK paced \in BOOLEAN : MoveTo(seat.head + 1, paced)
            BY <1>2, <2>2 DEF HeadMoves
        <3> QED BY <1>1, <2>1, <3>1, MoveToInv
    <2>3. CASE ~(seat.sh > 0 /\ seat.sh < seat.head + 2)
        <3>1. PICK t : t = [seat EXCEPT !.head = @ + 1]
            OBVIOUS
        <3>2. /\ t \in Seat /\ t.card = seat.card /\ t.decl = seat.decl /\ t.own = seat.own
              /\ t.sigs = seat.sigs /\ t.ver = seat.ver
            BY <1>1, <3>1 DEF Seat
        <3>3. seat' = t /\ snap' = snap /\ log' = log
            BY <1>1, <1>2, <2>3, <3>1 DEF HeadMoves, Step
        <3>5. ASSUME NEW r, Pair(r, seat, will) PROVE Pair(r, t, will)
            BY <3>2, <3>5, PairQuiet
        <3> QED BY <1>1, <2>1, <3>3, <3>5, QuietStep
    <2> QED BY <2>2, <2>3
<1>3. CASE Rebase
    <2>1. PICK h \in 1 .. seat.head, paced \in BOOLEAN : MoveTo(h, paced)
        BY <1>3 DEF Rebase
    <2>2. will' = will /\ h \in Nat
        BY <1>1, <1>3, <2>1 DEF Rebase
    <2> QED BY <2>1, <2>2, MoveToInv
<1>4. CASE ReceiveBlock
    <2>1. PICK t : t = [seat EXCEPT !.card = "applied", !.head = @ + 1, !.sh = 0, !.sigs = {}, !.ver = {}]
        OBVIOUS
    <2>2. "applied" \in Card
        BY DEF Card
    <2>3. t \in Seat
        BY <1>1, <2>1, <2>2 DEF Seat
    <2>4. t.card = "applied" /\ t.decl = seat.decl /\ t.own = seat.own /\ t.sigs = {} /\ t.ver = {}
        BY <1>1, <2>1 DEF Seat
    <2>5. seat' = t /\ snap' = snap /\ log' = log /\ will' = will /\ seat.card # "none"
        BY <1>1, <1>4, <2>1 DEF ReceiveBlock, Step
    <2>6. ASSUME NEW r, Pair(r, seat, will) PROVE Pair(r, t, will)
        BY <2>3, <2>4, <2>5, <2>6, PairQuiet
    <2> QED BY <1>1, <2>5, <2>6, QuietStep
<1> QED BY <1>2, <1>3, <1>4

-----------------------------------------------------------------------------
(***************************************************************************)
(* The disk.                                                               *)
(***************************************************************************)

\* A snapshot is read as a seat of its own.
LEMMA BaseFacts ==
    ASSUME NEW sn, sn.card \in Card, sn.by \in Member, sn.decl \in SUBSET Member
    PROVE  /\ Base(sn) \in Seat /\ Base(sn).card = sn.card /\ Base(sn).decl = sn.decl
           /\ Base(sn).own = FALSE /\ Base(sn).sigs = {} /\ Base(sn).ver = {} /\ Base(sn).sh = 0
<1>1. InitSeat \in Seat
    BY SelfFacts DEF InitSeat, Seat, Card
<1>2. Base(sn) \in Seat
    BY <1>1 DEF Base, Seat
<1>3. /\ Base(sn).card = sn.card /\ Base(sn).decl = sn.decl
      /\ Base(sn).own = FALSE /\ Base(sn).sigs = {} /\ Base(sn).ver = {} /\ Base(sn).sh = 0
    BY DEF Base, InitSeat
<1> QED BY <1>2, <1>3

\* A snapshot taken now mirrors the seat.
LEMMA SnapshotPair ==
    ASSUME IInv
    PROVE  /\ Pair(Base(SnapshotNow), seat, will) /\ SnapshotNow.at = Len(log)
           /\ SnapshotNow \in [at : 0 .. Len(log), card : Card, by : Member, decl : SUBSET Member]
<1>1. seat \in Seat /\ Sound(seat, will) /\ log \in Seq(Record)
    BY ThereIsAPair
<1>2. /\ SnapshotNow.card = seat.card /\ SnapshotNow.decl = seat.decl /\ SnapshotNow.by = seat.by
      /\ SnapshotNow.at = Len(log)
    BY DEF SnapshotNow
<1>3. seat.card \in Card /\ seat.by \in Member /\ seat.decl \in SUBSET Member /\ Len(log) \in 0 .. Len(log)
    BY <1>1 DEF Seat
<1>4. PICK b : b = Base(SnapshotNow)
    OBVIOUS
<1>5. /\ b \in Seat /\ b.card = seat.card /\ b.decl = seat.decl
      /\ b.own = FALSE /\ b.sigs = {} /\ b.ver = {}
    BY <1>2, <1>3, <1>4, BaseFacts
<1>6. Sound(b, will)
    BY <1>1, <1>5 DEF Sound
<1>7. Mirror(b, seat)
    BY <1>5 DEF Mirror
<1>8. Pair(b, seat, will)
    BY <1>1, <1>5, <1>6, <1>7 DEF Pair
<1>9. SnapshotNow \in [at : 0 .. Len(log), card : Card, by : Member, decl : SUBSET Member]
    BY <1>3 DEF SnapshotNow
<1> QED BY <1>2, <1>4, <1>8, <1>9

\* A snapshot between two records.
LEMMA TakeSnapshotInv ==
    ASSUME IInv, TakeSnapshot
    PROVE  IInv'
<1>1. snap' = SnapshotNow /\ seat' = seat /\ log' = log /\ will' = will
    BY DEF TakeSnapshot
<1>2. TypeOK'
    <2>1. /\ seat \in Seat /\ log \in Seq(Record) /\ will \in Decision
        BY TypeFacts DEF IInv
    <2> QED BY <1>1, <2>1, SnapshotPair DEF TypeOK, Seat, Decision
<1>3. ASSUME NEW r, Run(snap', log', r) PROVE Pair(r[Len(log')], seat', will')
    BY <1>1, <1>3, SnapshotPair DEF Run
<1>4. Mirrored'
    BY <1>3 DEF Mirrored
<1> QED BY <1>2, <1>4 DEF IInv

\* Two runs over one log are one.
LEMMA RunUnique ==
    ASSUME NEW sn, NEW L \in Seq(Record), sn.at \in 0 .. Len(L), NEW r, NEW q,
           Run(sn, L, r), Run(sn, L, q)
    PROVE  r[Len(L)] = q[Len(L)]
<1> DEFINE Bad == {i \in Nat : i \in sn.at .. Len(L) /\ r[i] # q[i]}
<1>0. sn.at \in Nat /\ Len(L) \in Nat /\ sn.at <= Len(L)
    OBVIOUS
<1>1. Bad = {}
    <2>1. SUFFICES ASSUME Bad # {} PROVE FALSE
        OBVIOUS
    <2>2. PICK k \in Bad : \A j \in Bad : k <= j
        BY <2>1, LeastNat
    <2>3. k \in Nat /\ k \in sn.at .. Len(L) /\ r[k] # q[k]
        BY <2>2
    <2>4. k # sn.at
        BY <2>3 DEF Run
    <2>5. k \in sn.at + 1 .. Len(L) /\ k - 1 \in Nat /\ k - 1 \in sn.at .. Len(L)
        BY <1>0, <2>3, <2>4
    <2>6. r[k - 1] = q[k - 1]
        <3>1. k - 1 \notin Bad
            BY <2>2, <2>3, <2>5
        <3> QED BY <2>5, <3>1
    <2>7. r[k] = ReplayEvent(r[k - 1], L[k]) /\ q[k] = ReplayEvent(q[k - 1], L[k])
        BY <2>5 DEF Run
    <2> QED BY <2>3, <2>6, <2>7
<1>2. Len(L) \in Nat /\ Len(L) \in sn.at .. Len(L)
    BY <1>0
<1> QED BY <1>1, <1>2

\* What opening the workspace again starts from: a replayed seat q that mirrors
\* the seat there was, and that every run over the log ends in.
LEMMA ReopenFacts ==
    ASSUME IInv, NEW clean \in BOOLEAN, Reopen(clean)
    PROVE  /\ \E q : /\ Pair(q, seat, will) /\ q = ReplayLoaded(snap')
                     /\ seat' = ReverifyAllPending(AdoptChain(q))
                     /\ \A r : Run(snap', log', r) => r[Len(log')] = q
           /\ log' = log /\ will' = will
           /\ snap' \in [at : 0 .. Len(log), card : Card, by : Member, decl : SUBSET Member]
<1>1. log \in Seq(Record) /\ log' = log /\ will' = will
    BY ThereIsAPair DEF Reopen
<1>2. PICK sn : sn = IF clean THEN SnapshotNow ELSE snap
    OBVIOUS
<1>3. snap' = sn /\ seat' = ReverifyAllPending(AdoptChain(ReplayLoaded(sn)))
    BY <1>2 DEF Reopen
<1>4. sn \in [at : 0 .. Len(log), card : Card, by : Member, decl : SUBSET Member]
    BY <1>2, SnapshotPair, TypeFacts DEF IInv
<1>5. sn.at \in 0 .. Len(log)
    BY <1>4
<1>6. PICK p : Run(sn, log, p) /\ ReplayLoaded(sn) = p[Len(log)]
    BY <1>1, <1>5, ReplayRun
<1>7. Pair(p[Len(log)], seat, will)
    <2>1. CASE clean
        <3>1. p[Len(log)] = Base(SnapshotNow)
            BY <1>2, <1>6, <2>1, SnapshotPair DEF Run
        <3> QED BY <3>1, SnapshotPair
    <2>2. CASE ~clean
        BY <1>2, <1>6, <2>2 DEF IInv, Mirrored
    <2> QED BY <2>1, <2>2
<1>8. PICK q : q = p[Len(log)]
    OBVIOUS
<1>9. ASSUME NEW r, Run(snap', log', r) PROVE r[Len(log')] = q
    <2>1. PICK L : L = log
        OBVIOUS
    <2>2. L \in Seq(Record) /\ sn.at \in 0 .. Len(L) /\ Run(sn, L, r) /\ Run(sn, L, p)
        BY <1>1, <1>3, <1>5, <1>6, <1>9, <2>1
    <2>3. r[Len(L)] = p[Len(L)]
        BY <2>2, RunUnique
    <2> QED BY <1>1, <1>8, <2>1, <2>3
<1>10. Pair(q, seat, will) /\ q = ReplayLoaded(snap') /\ seat' = ReverifyAllPending(AdoptChain(q))
    BY <1>3, <1>6, <1>7, <1>8
<1> QED BY <1>1, <1>3, <1>4, <1>9, <1>10

\* The chain is adopted and the replayed signatures are verified.
LEMMA AdoptFacts ==
    ASSUME NEW q \in Seat, seat \in Seat
    PROVE  LET t == ReverifyAllPending(AdoptChain(q))
           IN  /\ t \in Seat /\ t.decl = q.decl /\ t.own = q.own /\ t.sigs = q.sigs /\ t.sh = q.sh
               /\ t.head = seat.head
               /\ t.card = IF seat.card = "applied" THEN "applied" ELSE q.card
               /\ q.sh = Target(t) /\ t.card # "none" => \A b \in q.sigs : b \in t.ver
<1>1. PICK c : c = IF seat.card = "applied" THEN "applied" ELSE q.card
    OBVIOUS
<1>2. c \in Card /\ seat.head \in Nat
    BY <1>1 DEF Card, Seat
<1>3. PICK a : a = [q EXCEPT !.head = seat.head, !.card = c]
    OBVIOUS
<1>4. AdoptChain(q) = a
    BY <1>1, <1>3 DEF AdoptChain
<1>5. a \in Seat
    BY <1>2, <1>3 DEF Seat
<1>6. /\ a.decl = q.decl /\ a.own = q.own /\ a.sigs = q.sigs /\ a.sh = q.sh /\ a.ver = q.ver
      /\ a.head = seat.head /\ a.card = c
    BY <1>3 DEF Seat
<1>7. CASE ApprovalVerifies(a, a.sh)
    <2>1. PICK t : t = [a EXCEPT !.ver = a.ver \cup a.sigs]
        OBVIOUS
    <2>2. ReverifyAllPending(AdoptChain(q)) = t
        BY <1>4, <1>7, <2>1 DEF ReverifyAllPending
    <2>3. a.ver \cup a.sigs \in SUBSET Member
        BY <1>5 DEF Seat
    <2>4. t \in Seat
        BY <1>5, <2>1, <2>3 DEF Seat
    <2>5. /\ t.decl = a.decl /\ t.own = a.own /\ t.sigs = a.sigs /\ t.sh = a.sh
          /\ t.head = a.head /\ t.card = a.card /\ t.ver = a.ver \cup a.sigs
        BY <1>5, <2>1 DEF Seat
    <2> QED BY <1>1, <1>6, <2>2, <2>4, <2>5
<1>8. CASE ~ApprovalVerifies(a, a.sh)
    <2>1. ReverifyAllPending(AdoptChain(q)) = a
        BY <1>4, <1>8 DEF ReverifyAllPending
    <2>2. q.sh # Target(a) \/ a.card = "none"
        BY <1>6, <1>8 DEF ApprovalVerifies
    <2> QED BY <1>1, <1>5, <1>6, <2>1, <2>2
<1> QED BY <1>7, <1>8

\* Opening the workspace again.
LEMMA ReopenInv ==
    ASSUME IInv, NEW clean \in BOOLEAN, Reopen(clean)
    PROVE  IInv'
<1>1. PICK q : /\ Pair(q, seat, will)
               /\ seat' = ReverifyAllPending(AdoptChain(q))
               /\ \A r : Run(snap', log', r) => r[Len(log')] = q
    BY ReopenFacts
<1>2. /\ log' = log /\ will' = will /\ log \in Seq(Record) /\ will \in Decision
      /\ snap' \in [at : 0 .. Len(log), card : Card, by : Member, decl : SUBSET Member]
    BY ReopenFacts, ThereIsAPair
<1>3. q \in Seat /\ seat \in Seat /\ Sound(q, will) /\ Mirror(q, seat)
    BY <1>1 DEF Pair
<1>4. PICK t : t = ReverifyAllPending(AdoptChain(q))
    OBVIOUS
<1>5. /\ t \in Seat /\ t.decl = q.decl /\ t.own = q.own /\ t.sigs = q.sigs
      /\ t.card = IF seat.card = "applied" THEN "applied" ELSE q.card
    BY <1>3, <1>4, AdoptFacts
<1>7. Sound(t, will)
    BY <1>3, <1>5 DEF Sound
<1>8. Mirror(q, t)
    BY <1>3, <1>5 DEF Mirror
<1>9. Pair(q, t, will)
    BY <1>3, <1>5, <1>7, <1>8 DEF Pair
<1>10. Mirrored'
    BY <1>1, <1>2, <1>4, <1>9 DEF Mirrored
<1>11. TypeOK'
    BY <1>1, <1>2, <1>4, <1>5 DEF TypeOK, Seat, Decision
<1> QED BY <1>10, <1>11 DEF IInv

-----------------------------------------------------------------------------
(***************************************************************************)
(* The card and what waited for it.                                        *)
(***************************************************************************)

\* Some j members of S have names below the others'.
LEMMA LowestSet ==
    ASSUME NEW S \in SUBSET Member, NEW j \in Nat, j <= Cardinality(S)
    PROVE  \E T \in SUBSET S : Cardinality(T) = j /\ \A a \in T, b \in S \ T : a < b
<1>1. IsFiniteSet(S) /\ Cardinality(S) \in Nat
    BY Counting
<1> DEFINE Lowest(T) == \A a \in T, b \in S \ T : a < b
           Bad == {i \in Nat : i <= Cardinality(S)
                               /\ ~ \E T \in SUBSET S : Cardinality(T) = i /\ Lowest(T)}
<1>2. SUFFICES ASSUME j \in Bad PROVE FALSE
    OBVIOUS
<1>3. PICK k \in Bad : \A i \in Bad : k <= i
    BY <1>2, LeastNat
<1>4. k # 0
    <2>1. {} \in SUBSET S /\ Cardinality({}) = 0 /\ Lowest({})
        BY FS_EmptySet
    <2> QED BY <1>3, <2>1
<1>5. k - 1 \in Nat /\ k - 1 <= Cardinality(S) /\ k - 1 \notin Bad
    BY <1>1, <1>3, <1>4
<1>6. PICK T \in SUBSET S : Cardinality(T) = k - 1 /\ Lowest(T)
    BY <1>5
<1>7. S \ T # {}
    BY <1>1, <1>3, <1>6
<1>8. PICK x \in S \ T : \A y \in S \ T : x <= y
    BY <1>7, LeastNat, MemberAssumption
<1>9. T \cup {x} \in SUBSET S /\ Cardinality(T \cup {x}) = k
    <2>1. IsFiniteSet(T)
        BY <1>1, FS_Subset
    <2>2. Cardinality(T \cup {x}) = Cardinality(T) + 1
        BY <1>8, <2>1, FS_AddElement
    <2> QED BY <1>3, <1>6, <1>8, <2>2
<1>10. Lowest(T \cup {x})
    BY <1>6, <1>8, MemberAssumption
<1> QED BY <1>3, <1>9, <1>10

\* InOrder lists members of S.
LEMMA InOrderFacts ==
    ASSUME NEW S \in SUBSET Member
    PROVE  /\ DOMAIN InOrder(S) = 1 .. Cardinality(S) /\ Cardinality(S) \in Nat
           /\ \A i \in 1 .. Cardinality(S) : InOrder(S)[i] \in S
<1>1. IsFiniteSet(S) /\ Cardinality(S) \in Nat
    BY Counting
<1>2. ASSUME NEW i \in 1 .. Cardinality(S) PROVE InOrder(S)[i] \in S
    <2>1. i - 1 \in Nat /\ i - 1 <= Cardinality(S) /\ i - 1 # Cardinality(S)
        BY <1>1
    <2>2. PICK T \in SUBSET S : Cardinality(T) = i - 1 /\ \A a \in T, b \in S \ T : a < b
        BY <2>1, LowestSet
    <2>3. S \ T # {}
        BY <2>1, <2>2
    <2>4. PICK x \in S \ T : \A y \in S \ T : x <= y
        BY <2>3, LeastNat, MemberAssumption
    <2>5. \A y \in S : y < x <=> y \in T
        BY <2>2, <2>4, MemberAssumption
    <2>6. {y \in S : y < x} = T
        BY <2>5
    <2>7. \E z \in S : Cardinality({y \in S : y < z}) = i - 1
        BY <2>2, <2>4, <2>6
    <2> QED BY <2>7 DEF InOrder
<1>3. DOMAIN InOrder(S) = 1 .. Cardinality(S)
    BY DEF InOrder
<1> QED BY <1>1, <1>2, <1>3

\* InOrder lists every member of S.
LEMMA InOrderAll ==
    ASSUME NEW S \in SUBSET Member, NEW b \in S
    PROVE  \E i \in 1 .. Cardinality(S) : InOrder(S)[i] = b
<1> DEFINE Below(x) == {y \in S : y < x}
<1>1. IsFiniteSet(S) /\ Cardinality(S) \in Nat
    BY Counting
<1>2. ASSUME NEW x \in S PROVE Below(x) \in SUBSET Member /\ IsFiniteSet(Below(x)) /\ Cardinality(Below(x)) \in Nat
    BY Counting
<1>3. ASSUME NEW x \in S, NEW z \in S, x < z PROVE Cardinality(Below(x)) < Cardinality(Below(z))
    <2>1. \A y \in Below(x) : y \in Below(z)
        BY <1>3, MemberAssumption
    <2>2. x \in Below(z) /\ x \notin Below(x)
        BY <1>3, MemberAssumption
    <2>3. Below(x) \in SUBSET Below(z) /\ Below(x) # Below(z)
        BY <2>1, <2>2
    <2> HIDE DEF Below
    <2>4. Cardinality(Below(x)) <= Cardinality(Below(z)) /\ Cardinality(Below(x)) # Cardinality(Below(z))
        BY <1>2, <2>3, FS_Subset
    <2> QED BY <1>2, <2>4
<1>4. Cardinality(Below(b)) < Cardinality(S)
    <2>1. Below(b) \in SUBSET S /\ Below(b) # S
        <3>1. b \notin Below(b)
            BY MemberAssumption
        <3> QED BY <3>1
    <2> HIDE DEF Below
    <2> QED BY <1>1, <1>2, <2>1, FS_Subset
<1>5. PICK i : i = Cardinality(Below(b)) + 1
    OBVIOUS
<1>6. i \in 1 .. Cardinality(S) /\ i - 1 = Cardinality(Below(b))
    <2>1. PICK c \in Nat : c = Cardinality(Below(b))
        BY <1>2
    <2>2. c < Cardinality(S) /\ i = c + 1
        BY <1>4, <1>5, <2>1
    <2>3. i \in 1 .. Cardinality(S) /\ i - 1 = c
        BY <1>1, <2>2
    <2> QED BY <2>1, <2>3
<1>7. PICK x : x = CHOOSE z \in S : Cardinality(Below(z)) = i - 1
    OBVIOUS
<1>8. x \in S /\ Cardinality(Below(x)) = Cardinality(Below(b))
    BY <1>6, <1>7
<1>9. x = b
    <2>1. x \in Nat /\ b \in Nat
        BY <1>8, MemberAssumption
    <2>2. ~(x < b) /\ ~(b < x)
        BY <1>2, <1>3, <1>8
    <2> QED BY <2>1, <2>2
<1>10. InOrder(S)[i] = x
    BY <1>6, <1>7 DEF InOrder
<1> QED BY <1>6, <1>9, <1>10

\* What a card that arrives leaves: withdrawn at once, or with the parked
\* voices D.
Arrived(t, s, D) ==
    /\ t \in Seat /\ t.own = FALSE
    /\ \/ t.card = "withdrawn" /\ t.decl = {}
       \/ /\ t.decl = D
          /\ t.card = IF Cardinality(D) > VetoRoom THEN "rejected" ELSE "open"

\* receive_proposed of a card that is new here.
LEMMA ReceiveProposedFacts ==
    ASSUME NEW s \in Seat, NEW w, Sound(s, w), NEW from \in Member, NEW D \in DrainOrders(s),
           s.card = "none"
    PROVE  Arrived(ReceiveProposed(s, Self, from, D), s, D) /\ D \in SUBSET Member
<1>1. PICK k : k = Known(s, from)
    OBVIOUS
<1>2. /\ k \in Seat /\ k.card = "open"
      /\ k.decl = s.decl /\ k.sigs = s.sigs /\ k.own = s.own
    BY <1>1, KnownFacts
<1>3. D \in SUBSET Member /\ s.decl = {} /\ s.own = FALSE
    BY DEF DrainOrders, Seat, Sound
<1>4. PICK p : p = IF s.parkW THEN RegisterWithdraw([k EXCEPT !.parkW = FALSE], Minter) ELSE k
    OBVIOUS
<1>5. PICK t : t = RegisterParkedDeclines(p, Self, D)
    OBVIOUS
<1>6. ReceiveProposed(s, Self, from, D) = t
    BY <1>1, <1>4, <1>5 DEF ReceiveProposed, Known
<1>7. CASE s.parkW
    <2>1. PICK j : j = [k EXCEPT !.parkW = FALSE]
        OBVIOUS
    <2>2. j \in Seat /\ j.card = "open" /\ j.decl = {}
        BY <1>2, <1>3, <2>1 DEF Seat
    <2>3. Pulled(p, j, Minter)
        BY <1>4, <1>7, <2>1, <2>2, RegisterWithdrawFacts
    <2>4. p \in Seat /\ p.card = "withdrawn" /\ p.decl = {} /\ p.ver = {} /\ p.own = FALSE
        BY <2>2, <2>3 DEF Pulled
    <2>5. Drained(t, p, Self, D)
        BY <1>3, <1>5, <2>4, ParkedFacts, SelfFacts
    <2>6. t \in Seat /\ t.card = "withdrawn" /\ t.decl = {} /\ t.ver = {} /\ t.own = FALSE
        BY <2>4, <2>5 DEF Drained
    <2> QED BY <1>3, <1>6, <2>6 DEF Arrived
<1>8. CASE ~s.parkW
    <2>1. p = k
        BY <1>4, <1>8
    <2>2. Drained(t, k, Self, D)
        BY <1>2, <1>3, <1>5, <2>1, ParkedFacts, SelfFacts
    <2>3. /\ t \in Seat /\ t.decl = D /\ t.sigs = s.sigs \ D /\ t.ver = k.ver \ D
          /\ (t.own <=> (s.own /\ Self \notin D))
          /\ t.card = IF Cardinality(D) > VetoRoom THEN "rejected" ELSE "open"
        BY <1>2, <2>2 DEF Drained
    <2>5. t.own = FALSE
        BY <1>3, <2>3 DEF Seat
    <2> QED BY <1>3, <1>6, <2>3, <2>5 DEF Arrived
<1> QED BY <1>7, <1>8

\* The records of a card and the voices S that stood with it.
LEMMA CardRecords ==
    ASSUME NEW t, NEW S \in SUBSET Member, t.decl = S, NEW from \in Member
    PROVE  LET ev == KeptWithCard(t, from)
               k == Cardinality(S)
           IN  /\ ev \in Seq(Record) /\ k \in Nat
               /\ Len(ev) = k + (IF t.card = "withdrawn" THEN 2 ELSE 1)
               /\ ev[1] = Says("proposed", from, from)
               /\ \A i \in 1 .. k : ev[i + 1] = Says("declined", InOrder(S)[i], InOrder(S)[i])
               /\ t.card = "withdrawn" => ev[k + 2] = Says("withdrawn", Minter, Minter)
<1>1. PICK p, wd : p = Says("proposed", from, from) /\ wd = Says("withdrawn", Minter, Minter)
    OBVIOUS
<1>2. p \in Record /\ wd \in Record
    BY <1>1, RecordFacts, SelfFacts
<1>3. PICK o : o = InOrder(S)
    OBVIOUS
<1>4. PICK k : k = Cardinality(S)
    OBVIOUS
<1>5. DOMAIN o = 1 .. k /\ k \in Nat /\ \A i \in 1 .. k : o[i] \in Member
    BY <1>3, <1>4, InOrderFacts
<1>6. PICK d : d = [i \in 1 .. k |-> Says("declined", o[i], o[i])]
    OBVIOUS
<1>7. ASSUME NEW i \in 1 .. k PROVE Says("declined", o[i], o[i]) \in Record
    <2>1. PICK b \in Member : b = o[i]
        BY <1>5
    <2>2. Says("declined", b, b) \in Record
        BY RecordFacts
    <2> QED BY <2>1, <2>2
<1>8. d \in Seq(Record) /\ Len(d) = k /\ \A i \in 1 .. k : d[i] = Says("declined", o[i], o[i])
    BY <1>5, <1>6, <1>7
<1>9. PICK z : z = IF t.card = "withdrawn" THEN <<wd>> ELSE <<>>
    OBVIOUS
<1>10. /\ z \in Seq(Record) /\ Len(z) = (IF t.card = "withdrawn" THEN 1 ELSE 0)
       /\ t.card = "withdrawn" => z[1] = wd
    BY <1>2, <1>9
<1>11. PICK x : x = <<p>> /\ x \in Seq(Record) /\ Len(x) = 1 /\ x[1] = p
    <2>1. <<p>> \in Seq(Record) /\ Len(<<p>>) = 1 /\ <<p>>[1] = p
        BY <1>2
    <2> QED BY <2>1
<1>12. PICK y : y = x \o d
    OBVIOUS
<1>13. /\ y \in Seq(Record) /\ Len(y) = k + 1 /\ y[1] = p
       /\ \A i \in 1 .. k : y[i + 1] = d[i]
    BY <1>5, <1>8, <1>11, <1>12
<1>14. PICK ev : ev = y \o z
    OBVIOUS
<1>15. ev \in Seq(Record) /\ Len(ev) = k + 1 + Len(z) /\ \A i \in 1 .. k + 1 : ev[i] = y[i]
    BY <1>5, <1>10, <1>13, <1>14
<1>16. ASSUME t.card = "withdrawn" PROVE ev[k + 2] = wd
    <2>1. Len(z) = 1 /\ z[1] = wd /\ Len(y) + 1 = k + 2 /\ 1 \in 1 .. Len(z)
        BY <1>5, <1>10, <1>13, <1>16
    <2>2. y \in Seq(Record) /\ z \in Seq(Record)
        BY <1>10, <1>13
    <2>3. \A j \in 1 .. Len(z) : (y \o z)[Len(y) + j] = z[j]
        BY <2>2
    <2>4. (y \o z)[Len(y) + 1] = z[1]
        BY <2>1, <2>3
    <2> QED BY <1>14, <2>1, <2>4
<1>17. KeptWithCard(t, from) = ev
    BY <1>1, <1>3, <1>5, <1>6, <1>9, <1>11, <1>12, <1>14 DEF KeptWithCard
<1>18. \A i \in 1 .. k : i + 1 \in 1 .. k + 1
    BY <1>5
<1>19. \A i \in 1 .. k : ev[i + 1] = Says("declined", o[i], o[i])
    BY <1>8, <1>13, <1>15, <1>18
<1>20. ev[1] = p /\ Len(ev) = k + (IF t.card = "withdrawn" THEN 2 ELSE 1)
    BY <1>5, <1>10, <1>13, <1>15
<1> QED BY <1>1, <1>3, <1>4, <1>5, <1>15, <1>16, <1>17, <1>19, <1>20

\* The replay of a card after i of the voices o that stood with it.
Tallied(q, w, o, i) ==
    /\ q \in Seat /\ Sound(q, w) /\ q.own = FALSE /\ q.card \in {"open", "rejected"}
    /\ q.card = "open" => \A j \in 1 .. i : o[j] \in q.decl

\* One more voice.
LEMMA OneMoreVoice ==
    ASSUME NEW q, NEW w, NEW o, NEW i \in Nat, Tallied(q, w, o, i), NEW b \in Member, b = o[i + 1]
    PROVE  Tallied(ReplayEvent(q, Says("declined", b, b)), w, o, i + 1)
<1>1. PICK e : e = Says("declined", b, b)
    OBVIOUS
<1>2. e \in Record /\ e.t = "declined" /\ e.by = b
    BY <1>1, RecordFacts
<1>3. /\ q \in Seat /\ Sound(q, w) /\ q.own = FALSE /\ q.card \in {"open", "rejected"}
      /\ q.card = "open" => \A j \in 1 .. i : o[j] \in q.decl
    BY DEF Tallied
<1>4. PICK t : t = ReplayEvent(q, e)
    OBVIOUS
<1>5. Declined(t, q, Self, b)
    BY <1>2, <1>3, <1>4, ReplayVoices
<1>6. \A j \in 1 .. i + 1 : j \in 1 .. i \/ j = i + 1
    OBVIOUS
<1>7. CASE q.card = "rejected"
    <2>1. t = q
        BY <1>5, <1>7 DEF Declined
    <2> QED BY <1>1, <1>3, <1>4, <1>7, <2>1 DEF Tallied
<1>8. CASE q.card = "open" /\ b \in q.decl
    <2>1. t = q
        BY <1>5, <1>8 DEF Declined
    <2>2. \A j \in 1 .. i + 1 : o[j] \in q.decl
        BY <1>3, <1>6, <1>8
    <2> QED BY <1>1, <1>3, <1>4, <2>1, <2>2 DEF Tallied
<1>9. CASE q.card = "open" /\ b \notin q.decl
    <2>1. /\ t \in Seat /\ t.card = IF Cardinality(q.decl \cup {b}) > VetoRoom THEN "rejected" ELSE "open"
          /\ t.decl = q.decl \cup {b} /\ t.sigs = q.sigs \ {b} /\ t.ver = q.ver \ {b}
          /\ (t.own <=> q.own /\ b # Self)
        BY <1>5, <1>9 DEF Declined
    <2>2. q.decl \cup {b} \in SUBSET Member
        BY <1>3 DEF Seat
    <2>3. Cardinality(q.decl \cup {b}) \in Nat /\ VetoRoom \in Nat
        BY <2>2, Counting
    <2>4. t.own = FALSE
        BY <1>3, <2>1 DEF Seat
    <2>6. t.card \in {"open", "rejected"} /\ (t.card = "open" => Cardinality(t.decl) <= VetoRoom)
        BY <2>1, <2>3
    <2>7. Sound(t, w)
        BY <2>4, <2>6 DEF Sound
    <2>8. \A j \in 1 .. i + 1 : o[j] \in t.decl
        BY <1>3, <1>6, <1>9, <2>1
    <2> QED BY <1>1, <1>4, <2>1, <2>4, <2>6, <2>7, <2>8 DEF Tallied
<1> QED BY <1>3, <1>7, <1>8, <1>9

\* A card that is new to the replay.
LEMMA CardOpens ==
    ASSUME NEW q \in Seat, NEW w, Sound(q, w), q.card = "none", NEW o, NEW from \in Member
    PROVE  Tallied(ReplayEvent(q, Says("proposed", from, from)), w, o, 0)
<1>1. PICK e : e = Says("proposed", from, from)
    OBVIOUS
<1>2. e \in Record /\ e.t = "proposed"
    BY <1>1, RecordFacts
<1>3. PICK t : t = ReplayEvent(q, e)
    OBVIOUS
<1>4. Opened(t, q)
    BY <1>2, <1>3, ReplayProposed
<1>5. q.decl = {} /\ q.own = FALSE
    BY DEF Sound
<1>6. t \in Seat /\ t.card = "open" /\ t.decl = {} /\ t.own = FALSE /\ t.sigs = q.sigs /\ t.ver = q.ver
    BY <1>4, <1>5 DEF Opened
<1>7. Cardinality({}) = 0 /\ VetoRoom \in Nat
    BY FS_EmptySet, Counting
<1>8. Sound(t, w)
    BY <1>5, <1>6, <1>7 DEF Sound
<1>9. \A j \in 1 .. 0 : FALSE
    OBVIOUS
<1> QED BY <1>1, <1>3, <1>6, <1>8, <1>9 DEF Tallied

\* All voices, one after the other.
LEMMA AllVoices ==
    ASSUME NEW r, NEW w, NEW o, NEW k \in Nat, NEW n \in Nat, Tallied(r[n + 1], w, o, 0),
           \A i \in 1 .. k : o[i] \in Member,
           \A i \in 1 .. k : r[n + 1 + i] = ReplayEvent(r[n + i], Says("declined", o[i], o[i]))
    PROVE  Tallied(r[n + 1 + k], w, o, k)
<1> DEFINE Bad == {i \in Nat : i <= k /\ ~Tallied(r[n + 1 + i], w, o, i)}
<1>1. Bad = {}
    <2>1. SUFFICES ASSUME Bad # {} PROVE FALSE
        OBVIOUS
    <2>2. PICK i \in Bad : \A j \in Bad : i <= j
        BY <2>1, LeastNat
    <2>3. i \in Nat /\ i <= k /\ ~Tallied(r[n + 1 + i], w, o, i)
        BY <2>2
    <2>4. i # 0
        BY <2>3
    <2>5. i - 1 \in Nat /\ i - 1 <= k /\ i \in 1 .. k /\ n + 1 + (i - 1) = n + i /\ (i - 1) + 1 = i
        BY <2>3, <2>4
    <2>6. Tallied(r[n + i], w, o, i - 1)
        <3>1. i - 1 \notin Bad
            BY <2>2, <2>3, <2>5
        <3>2. Tallied(r[n + 1 + (i - 1)], w, o, i - 1)
            BY <2>5, <3>1
        <3> QED BY <2>5, <3>2
    <2>7. PICK b \in Member : b = o[i]
        BY <2>5
    <2>8. PICK m \in Nat : m = i - 1 /\ m + 1 = i
        BY <2>5
    <2>9. Tallied(ReplayEvent(r[n + i], Says("declined", b, b)), w, o, m + 1)
        BY <2>6, <2>7, <2>8, OneMoreVoice
    <2> QED BY <2>3, <2>5, <2>7, <2>8, <2>9
<1>2. k \notin Bad
    BY <1>1
<1> QED BY <1>2

\* The card, its parked voices and the parked withdrawal.
LEMMA ReceiveCardInv ==
    ASSUME IInv, NEW from \in Peer, ReceiveCard(from)
    PROVE  IInv'
<1>1. from \in Member
    BY DEF Peer
<1>2. seat \in Seat /\ Sound(seat, will) /\ will \in Decision /\ log \in Seq(Record)
    BY ThereIsAPair
<1>3. PICK D \in DrainOrders(seat) :
        LET t == ReceiveProposed(seat, Self, from, D)
        IN  seat.card = "none" /\ Step(t, KeptWithCard(t, from)) /\ UNCHANGED <<will, reorgs>>
    BY DEF ReceiveCard
<1>4. PICK t : t = ReceiveProposed(seat, Self, from, D)
    OBVIOUS
<1>5. Arrived(t, seat, D) /\ D \in SUBSET Member /\ seat.card = "none"
    <2>1. PICK s, w : s = seat /\ w = will
        OBVIOUS
    <2>2. s \in Seat /\ Sound(s, w) /\ D \in DrainOrders(s) /\ s.card = "none"
        BY <1>2, <1>3, <2>1
    <2>3. Arrived(ReceiveProposed(s, Self, from, D), s, D) /\ D \in SUBSET Member
        BY <1>1, <2>2, ReceiveProposedFacts
    <2> QED BY <1>4, <2>1, <2>2, <2>3
<1>6. PICK S : S = t.decl
    OBVIOUS
<1>7. PICK ev : ev = KeptWithCard(t, from)
    OBVIOUS
<1>8. PICK k : k = Cardinality(S)
    OBVIOUS
<1>9. PICK o : o = InOrder(S)
    OBVIOUS
<1>10. S \in SUBSET Member /\ t \in Seat
    BY <1>5, <1>6 DEF Arrived, Seat
<1>11. /\ ev \in Seq(Record) /\ k \in Nat
       /\ Len(ev) = k + (IF t.card = "withdrawn" THEN 2 ELSE 1)
       /\ ev[1] = Says("proposed", from, from)
       /\ \A i \in 1 .. k : ev[i + 1] = Says("declined", o[i], o[i])
       /\ t.card = "withdrawn" => ev[k + 2] = Says("withdrawn", Minter, Minter)
    BY <1>1, <1>6, <1>7, <1>8, <1>9, <1>10, CardRecords
<1>12. seat' = t /\ snap' = snap /\ log' = log \o ev /\ will' = will
    BY <1>3, <1>4, <1>7 DEF Step
<1>13. PICK n : n = Len(log)
    OBVIOUS
<1>14. n \in Nat
    BY <1>2, <1>13
<1>15. ASSUME NEW r, Pair(r[n], seat, will), Continues(r, n, ev)
       PROVE  Pair(r[n + Len(ev)], t, will)
    <2>1. r[n] \in Seat /\ Sound(r[n], will) /\ r[n].card = "none"
        BY <1>5, <1>15 DEF Pair, Mirror
    <2>2. \A j \in 1 .. Len(ev) : r[n + j] = ReplayEvent(r[n + j - 1], ev[j])
        BY <1>15 DEF Continues
    <2>3. r[n + 1] = ReplayEvent(r[n], Says("proposed", from, from))
        <3>1. 1 \in 1 .. Len(ev) /\ n + 1 - 1 = n
            BY <1>11, <1>14
        <3> QED BY <1>11, <2>2, <3>1
    <2>4. ASSUME NEW i \in 1 .. k
          PROVE  r[n + 1 + i] = ReplayEvent(r[n + i], Says("declined", o[i], o[i]))
        <3>1. i + 1 \in 1 .. Len(ev) /\ n + (i + 1) = n + 1 + i /\ n + (i + 1) - 1 = n + i
            BY <1>11, <1>14
        <3>2. r[n + (i + 1)] = ReplayEvent(r[n + (i + 1) - 1], ev[i + 1])
            BY <2>2, <3>1
        <3> QED BY <1>11, <3>1, <3>2
    <2>5. PICK w : w = will
        OBVIOUS
    <2>6. Tallied(r[n + 1], w, o, 0)
        BY <1>1, <2>1, <2>3, <2>5, CardOpens
    <2>7. \A i \in 1 .. k : o[i] \in Member
        BY <1>8, <1>9, <1>10, InOrderFacts
    <2>8. Tallied(r[n + 1 + k], w, o, k)
        BY <1>11, <1>14, <2>4, <2>6, <2>7, AllVoices
    <2>9. PICK q : q = r[n + 1 + k]
        OBVIOUS
    <2>10. /\ q \in Seat /\ Sound(q, w) /\ q.own = FALSE /\ q.card \in {"open", "rejected"}
           /\ q.card = "open" => \A b \in S : b \in q.decl
        <3>1. \A b \in S : \E i \in 1 .. k : o[i] = b
            BY <1>8, <1>9, <1>10, InOrderAll
        <3> QED BY <2>8, <2>9, <3>1 DEF Tallied
    <2>11. CASE t.card = "withdrawn"
        <3>1. S = {}
            BY <1>5, <1>6, <2>11 DEF Arrived
        <3>2. k = 0 /\ Len(ev) = 2
            BY <1>8, <1>11, <2>11, <3>1, FS_EmptySet
        <3>3. PICK e : e = Says("withdrawn", Minter, Minter)
            OBVIOUS
        <3>4. e \in Record /\ e.t = "withdrawn" /\ e.by = Minter
            BY <3>3, RecordFacts, SelfFacts
        <3>5. r[n + 2] = ReplayEvent(q, e)
            <4>1. 2 \in 1 .. Len(ev) /\ n + 2 - 1 = n + 1 /\ n + 1 + k = n + 1 /\ k + 2 = 2
                BY <1>14, <3>2
            <4> QED BY <1>11, <2>2, <2>9, <2>11, <3>3, <4>1
        <3>6. PICK z : z = ReplayEvent(q, e)
            OBVIOUS
        <3>7. Pulled(z, q, Minter)
            BY <2>10, <3>4, <3>6, ReplayVoices
        <3>8. Sound(t, w)
            BY <2>11, <3>1 DEF Sound
        <3>9. CASE q.card = "open"
            <4>1. z \in Seat /\ z.card = "withdrawn" /\ z.ver = {}
                BY <3>7, <3>9 DEF Pulled
            <4>2. Sound(z, w) /\ Mirror(z, t)
                BY <2>11, <4>1 DEF Sound, Mirror
            <4> QED BY <1>10, <2>5, <3>2, <3>5, <3>6, <3>8, <4>1, <4>2 DEF Pair
        <3>10. CASE q.card = "rejected"
            <4>1. z = q
                BY <3>7, <3>10 DEF Pulled
            <4>2. Mirror(z, t)
                BY <2>11, <3>10, <4>1 DEF Mirror
            <4> QED BY <1>10, <2>5, <2>10, <3>2, <3>5, <3>6, <3>8, <4>1, <4>2 DEF Pair
        <3> QED BY <2>10, <3>9, <3>10
    <2>12. CASE t.card # "withdrawn"
        <3>1. /\ S = D /\ t.own = FALSE
              /\ t.card = IF Cardinality(S) > VetoRoom THEN "rejected" ELSE "open"
            BY <1>5, <1>6, <2>12 DEF Arrived
        <3>2. Cardinality(S) \in Nat /\ VetoRoom \in Nat
            BY <1>10, Counting
        <3>3. Sound(t, w)
            BY <1>6, <3>1, <3>2 DEF Sound
        <3>4. t.card = "rejected" => q.card = "rejected"
            <4>1. CASE q.card = "open"
                <5>1. q.decl \in SUBSET Member
                    BY <2>10 DEF Seat
                <5>2. Cardinality(S) <= Cardinality(q.decl) /\ Cardinality(q.decl) \in Nat
                    BY <1>10, <2>10, <4>1, <5>1, FewerDeclines
                <5>3. Cardinality(q.decl) <= VetoRoom
                    BY <2>10, <4>1 DEF Sound
                <5> QED BY <3>1, <3>2, <5>2, <5>3
            <4> QED BY <2>10, <4>1
        <3>5. Mirror(q, t)
            BY <1>6, <2>10, <3>1, <3>4 DEF Mirror
        <3>6. n + Len(ev) = n + 1 + k
            BY <1>11, <1>14, <2>12
        <3> QED BY <1>10, <2>5, <2>9, <2>10, <3>3, <3>5, <3>6 DEF Pair
    <2> QED BY <2>11, <2>12
<1>16. ASSUME NEW r, Pair(r[Len(log)], seat, will), Continues(r, Len(log), ev)
       PROVE  Pair(r[Len(log) + Len(ev)], seat', will')
    BY <1>12, <1>13, <1>15, <1>16
<1> QED BY <1>2, <1>11, <1>12, <1>16, LiveStep

-----------------------------------------------------------------------------
(***************************************************************************)
(* The invariant, and what follows from it.                                *)
(***************************************************************************)

\* Nothing has happened yet.
LEMMA InitInv == Init => IInv
<1> SUFFICES ASSUME Init PROVE IInv
    OBVIOUS
<1>1. /\ seat = InitSeat /\ log = <<>> /\ will = "none"
      /\ snap = [at |-> 0, card |-> "none", by |-> Minter, decl |-> {}]
    BY DEF Init
<1>2. InitSeat \in Seat /\ InitSeat.ver = {} /\ InitSeat.card = "none" /\ InitSeat.own = FALSE /\ InitSeat.decl = {}
    BY SelfFacts DEF InitSeat, Seat, Card
<1>3. log \in Seq(Record) /\ Len(log) = 0 /\ "none" \in Card
    BY <1>1 DEF Card
<1>4. snap \in [at : 0 .. Len(log), card : Card, by : Member, decl : SUBSET Member]
    BY <1>1, <1>3, SelfFacts
<1>5. TypeOK
    BY <1>1, <1>2, <1>3, <1>4, TypeFacts DEF Decision
<1>6. PICK b : b = Base(snap)
    OBVIOUS
<1>7. b \in Seat /\ b.card = "none" /\ b.decl = {} /\ b.own = FALSE /\ b.sigs = {} /\ b.ver = {}
    BY <1>1, <1>4, <1>6, BaseFacts
<1>8. Pair(b, seat, will)
    BY <1>1, <1>2, <1>7 DEF Pair, Sound, Mirror
<1>9. Mirrored
    BY <1>1, <1>3, <1>6, <1>8 DEF Mirrored, Run
<1> QED BY <1>5, <1>9 DEF IInv

\* Every step keeps the invariant.
LEMMA NextInv == IInv /\ [Next]_vars => IInv'
<1> SUFFICES ASSUME IInv, [Next]_vars PROVE IInv'
    OBVIOUS
<1>1. CASE \E b \in Peer : ReceiveCard(b) \/ ReceiveDecline(b)
    BY <1>1, ReceiveCardInv, ReceiveDeclineInv
<1>2. CASE \E from \in Peer, b \in Member, h \in 1 .. MaxHead + 1 : ReceiveVote(from, b, h)
    BY <1>2, ReceiveVoteInv
<1>3. CASE ReceiveWithdrawal \/ CmdApprove \/ CmdDecline
    BY <1>3, ReceiveWithdrawalInv, CmdApproveInv, CmdDeclineInv
<1>4. CASE DrainHeldSeals \/ HeadMoves \/ Rebase \/ ReceiveBlock
    BY <1>4, DrainHeldSealsInv, BlocksInv
<1>5. CASE TakeSnapshot
    BY <1>5, TakeSnapshotInv
<1>6. CASE \E clean \in BOOLEAN : Reopen(clean)
    BY <1>6, ReopenInv
<1>7. CASE UNCHANGED vars
    BY <1>7 DEF vars, IInv, TypeOK, Mirrored
<1> QED BY <1>1, <1>2, <1>3, <1>4, <1>5, <1>6, <1>7 DEF Next

\* The replay of the log over the last snapshot mirrors the seat in memory at
\* every moment, so it does at the moment of a kill.
THEOREM Invariance == Spec => []IInv
BY InitInv, NextInv, PTL DEF Spec

\* Every variable keeps its type, and a snapshot covers no more records than
\* the log has (snapshot_now, replay_loaded).
THEOREM TypeCorrect == Spec => []TypeOK
<1>1. IInv => TypeOK
    BY DEF IInv
<1> QED BY <1>1, Invariance, PTL

\* The register of own decisions holds an open vote only if the operator's
\* newest decision is to approve, after any number of replays.
THEOREM OwnDecision == Spec => []DecisionIsOwn
<1>1. IInv => DecisionIsOwn
    <2> SUFFICES ASSUME IInv PROVE DecisionIsOwn
        OBVIOUS
    <2>1. Sound(seat, will)
        BY ThereIsAPair
    <2> QED BY <2>1 DEF DecisionIsOwn, Sound
<1> QED BY <1>1, Invariance, PTL

\* Only opening the workspace again counts as such.
LEMMA OnlyReopen ==
    ASSUME [Next]_vars, opens' # opens
    PROVE  \E clean \in BOOLEAN : Reopen(clean)
<1>1. ASSUME NEW b \in Peer, ReceiveCard(b) \/ ReceiveDecline(b) PROVE FALSE
    BY <1>1 DEF ReceiveCard, ReceiveDecline, Step
<1>2. ASSUME NEW from \in Peer, NEW b \in Member, NEW h \in 1 .. MaxHead + 1, ReceiveVote(from, b, h)
      PROVE  FALSE
    BY <1>2 DEF ReceiveVote, Step
<1>3. ASSUME ReceiveWithdrawal \/ CmdApprove \/ CmdDecline PROVE FALSE
    BY <1>3 DEF ReceiveWithdrawal, CmdApprove, CmdDecline, Step
<1>4. ASSUME DrainHeldSeals \/ HeadMoves \/ Rebase \/ ReceiveBlock PROVE FALSE
    BY <1>4 DEF DrainHeldSeals, HeadMoves, Rebase, ReceiveBlock, MoveTo, Step
<1>5. ~TakeSnapshot /\ ~UNCHANGED vars
    BY DEF TakeSnapshot, vars
<1> QED BY <1>1, <1>2, <1>3, <1>4, <1>5 DEF Next

\* A restart reopens no vote that was over, applies none that was not, and
\* keeps every decline that stood against an open card, wherever the last
\* snapshot lies.
THEOREM VerdictsSurvive == Spec => NoVerdictLost
<1> DEFINE Goal == opens' # opens =>
            /\ seat.card \in Closed => seat'.card \in Closed
            /\ seat'.card = "applied" <=> seat.card = "applied"
            /\ seat.card = "open" /\ seat'.card = "open" => seat.decl \subseteq seat'.decl
<1>1. ASSUME IInv, [Next]_vars PROVE Goal
    <2> SUFFICES ASSUME opens' # opens PROVE Goal
        OBVIOUS
    <2>1. PICK clean \in BOOLEAN : Reopen(clean)
        BY <1>1, OnlyReopen
    <2>2. PICK q : Pair(q, seat, will) /\ seat' = ReverifyAllPending(AdoptChain(q))
        BY <1>1, <2>1, ReopenFacts
    <2>3. q \in Seat /\ seat \in Seat /\ Mirror(q, seat)
        BY <2>2 DEF Pair
    <2>4. PICK t : t = ReverifyAllPending(AdoptChain(q))
        OBVIOUS
    <2>5. t.decl = q.decl /\ t.card = IF seat.card = "applied" THEN "applied" ELSE q.card
        BY <2>3, <2>4, AdoptFacts
    <2>6. /\ seat.card \in Closed => t.card \in Closed
          /\ (t.card = "applied") = (seat.card = "applied")
          /\ seat.card = "open" /\ t.card = "open" => seat.decl \subseteq t.decl
        BY <2>3, <2>5 DEF Mirror, Closed
    <2> QED BY <2>2, <2>4, <2>6
<1>2. IInv /\ [Next]_vars => [Goal]_vars
    BY <1>1
<1>3. Spec => [][Goal]_vars
    BY <1>2, Invariance, PTL DEF Spec
<1> QED BY <1>3 DEF NoVerdictLost

-----------------------------------------------------------------------------
(***************************************************************************)
(* The votes that come back.                                               *)
(***************************************************************************)

\* No signature beyond the height T, and a replay verifies the own ones only.
Fits(s, T) == s \in Seat /\ (\A x \in s.ver : x = Self) /\ s.sh <= T

Live(s) == s.card \in {"none", "open"}

\* b's signature for T is held, the own one as the own decision.
Holds(s, b, T) == b \in s.sigs /\ s.sh = T /\ (b = Self => s.own = TRUE)

\* The record is b's signature for T, and the own one under the own envelope.
VoteOf(e, b, T) == e.t = "approved" /\ e.by = b /\ e.h = T /\ (b = Self => e.from = Self)

DeclineOf(e, b) == e.t = "declined" /\ e.by = b

\* What Collect does to a set that holds no height beyond T: the height
\* stays within T, and the signatures of T stay.
LEMMA CollectWithin ==
    ASSUME NEW s \in Seat, NEW x \in Member, NEW h \in Nat, NEW v \in BOOLEAN, NEW T \in Nat,
           NEW c, c = Collect(s, Self, x, h, v), s.sh <= T, h <= T
    PROVE  /\ c.sh <= T
           /\ s.sh = T => c.sh = T /\ \A b \in s.sigs : b \in c.sigs
           /\ (/\ Live(s) /\ h = T /\ (x = Self => v)
               /\ (\A b \in s.ver : b = Self)) => c.sh = T /\ x \in c.sigs
<1>0. s.sh \in Nat /\ s.sigs \in SUBSET Member /\ s.ver \in SUBSET Member
    BY DEF Seat
<1>1. PICK d : d = CollectSig(s, Self, x, h, v)
    OBVIOUS
<1>2. c = d \/ c = [d EXCEPT !.ver = @ \cup {x}]
    BY <1>1 DEF Collect, MarkVerified
<1>3. CASE \/ s.card \notin {"none", "open"}
           \/ x = Self /\ ~v
           \/ h < s.sh
           \/ h = s.sh /\ x \in s.ver /\ ~v
    <2>1. d = s
        BY <1>1, <1>3 DEF CollectSig
    <2>2. c.sh = s.sh /\ c.sigs = s.sigs
        BY <1>2, <2>1 DEF Seat
    <2> QED BY <1>0, <1>3, <2>2 DEF Live
<1>4. CASE ~ (\/ s.card \notin {"none", "open"}
              \/ x = Self /\ ~v
              \/ h < s.sh
              \/ h = s.sh /\ x \in s.ver /\ ~v)
    <2>1. PICK keep, mark : /\ keep = IF h > s.sh THEN {} ELSE s.sigs
                            /\ mark = IF h > s.sh THEN {} ELSE s.ver \ {x}
        OBVIOUS
    <2>2. d = [s EXCEPT !.sh = h, !.sigs = keep \cup {x}, !.ver = mark]
        BY <1>1, <1>4, <2>1 DEF CollectSig
    <2>3. c.sh = h /\ c.sigs = keep \cup {x}
        BY <1>2, <2>2 DEF Seat
    <2>4. s.sh = T => h = T /\ keep = s.sigs
        BY <1>0, <1>4, <2>1
    <2> QED BY <2>3, <2>4
<1> QED BY <1>3, <1>4

\* One record of the replay, none of whose signatures is beyond T.
LEMMA ReplayWithin ==
    ASSUME NEW T \in Nat, NEW s, Fits(s, T), NEW e \in Record, e.t = "approved" => e.h <= T,
           NEW t, t = ReplayEvent(s, e)
    PROVE  /\ Fits(t, T) /\ (Live(t) => Live(s))
           /\ \A b \in Member : Live(s) /\ VoteOf(e, b, T) => Holds(t, b, T)
           /\ \A b \in Member : Live(t) /\ Holds(s, b, T) /\ ~DeclineOf(e, b) => Holds(t, b, T)
<1>0. /\ s \in Seat /\ s.sh <= T /\ (\A x \in s.ver : x = Self) /\ s.sh \in Nat
      /\ e.by \in Member /\ e.h \in Nat
      /\ e.t \in {"proposed", "approved", "declined", "withdrawn"}
    BY DEF Fits, Seat, Record
<1>1. CASE e.t = "proposed"
    <2>1. Opened(t, s)
        BY <1>0, <1>1, ReplayProposed
    <2>2. Fits(t, T) /\ (Live(t) => Live(s))
        BY <1>0, <2>1 DEF Opened, Fits, Live
    <2>3. \A b \in Member : ~VoteOf(e, b, T) /\ (Holds(s, b, T) => Holds(t, b, T))
        BY <1>1, <2>1 DEF Opened, Holds, VoteOf
    <2> QED BY <2>2, <2>3
<1>2. CASE e.t = "approved"
    <2>1. Noted(t, s, e)
        BY <1>0, <1>2, ReplayApproved
    <2>2. PICK p \in Seat :
                /\ p.card = s.card /\ p.sh = s.sh /\ p.sigs = s.sigs /\ p.ver = s.ver
                /\ \E c \in Seat :
                    /\ c = Collect(p, Self, e.by, e.h, Mine(e))
                    /\ t.sh = c.sh /\ t.sigs = c.sigs /\ t.ver = c.ver
        BY <1>0, <1>2, ReplayApproved
    <2>3. PICK c \in Seat : /\ c = Collect(p, Self, e.by, e.h, Mine(e))
                            /\ t.sh = c.sh /\ t.sigs = c.sigs /\ t.ver = c.ver
        BY <2>2
    <2>4. PICK v \in BOOLEAN : v = Mine(e)
        BY DEF Mine
    <2>5. /\ c.sh <= T
          /\ p.sh = T => c.sh = T /\ \A b \in p.sigs : b \in c.sigs
          /\ (/\ Live(p) /\ e.h = T /\ (e.by = Self => v)
              /\ (\A b \in p.ver : b = Self)) => c.sh = T /\ e.by \in c.sigs
        <3>1. p.sh <= T /\ e.h <= T /\ c = Collect(p, Self, e.by, e.h, v)
            BY <1>0, <1>2, <2>2, <2>3, <2>4
        <3> QED BY <1>0, <3>1, CollectWithin
    <2>6. t \in Seat /\ t.card = s.card /\ (t.own <=> (s.own \/ v)) /\ (\A x \in t.ver : x = Self)
        <3>1. \A x \in c.ver : x \in p.ver \/ x = Self
            <4>1. Collected(c, p, Self, e.by, e.h, v)
                BY <1>0, <2>3, <2>4, CollectFacts, SelfFacts
            <4> QED BY <2>4, <4>1 DEF Collected, Mine
        <3> QED BY <1>0, <2>1, <2>2, <2>3, <2>4, <3>1 DEF Noted
    <2>7. Fits(t, T) /\ (Live(t) => Live(s))
        BY <2>3, <2>5, <2>6 DEF Fits, Live
    <2>8. ASSUME NEW b \in Member, Live(s), VoteOf(e, b, T) PROVE Holds(t, b, T)
        <3>1. e.h = T /\ e.by = b /\ (b = Self => v)
            BY <2>4, <2>8 DEF VoteOf, Mine
        <3>2. Live(p) /\ \A x \in p.ver : x = Self
            BY <1>0, <2>2, <2>8 DEF Live
        <3>3. t.sh = T /\ b \in t.sigs
            BY <2>3, <2>5, <3>1, <3>2
        <3>4. t.own \in BOOLEAN
            BY <2>6 DEF Seat
        <3> QED BY <2>6, <3>1, <3>3, <3>4 DEF Holds
    <2>9. ASSUME NEW b \in Member, Holds(s, b, T) PROVE Holds(t, b, T)
        <3>1. t.own \in BOOLEAN
            BY <2>6 DEF Seat
        <3> QED BY <2>2, <2>3, <2>5, <2>6, <2>9, <3>1 DEF Holds
    <2> QED BY <2>7, <2>8, <2>9
<1>3. CASE e.t = "declined"
    <2>1. Declined(t, s, Self, e.by)
        BY <1>0, <1>3, ReplayVoices
    <2>2. t \in Seat /\ t.sh = s.sh
        BY <2>1 DEF Declined
    <2>3. (\A x \in t.ver : x = Self) /\ (Live(t) => Live(s))
        BY <1>0, <2>1 DEF Declined, Live
    <2>4. Fits(t, T)
        BY <1>0, <2>2, <2>3 DEF Fits
    <2>5. ASSUME NEW b \in Member, Holds(s, b, T), ~DeclineOf(e, b) PROVE Holds(t, b, T)
        <3>1. b # e.by
            BY <1>3, <2>5 DEF DeclineOf
        <3>2. t.own \in BOOLEAN /\ s.own \in BOOLEAN
            BY <1>0, <2>2 DEF Seat
        <3> QED BY <2>1, <2>5, <3>1, <3>2 DEF Declined, Holds
    <2>6. \A b \in Member : ~VoteOf(e, b, T)
        BY <1>3 DEF VoteOf
    <2> QED BY <2>3, <2>4, <2>5, <2>6
<1>4. CASE e.t = "withdrawn"
    <2>1. Pulled(t, s, e.by)
        BY <1>0, <1>4, ReplayVoices
    <2>2. Fits(t, T) /\ (Live(t) => Live(s))
        BY <1>0, <2>1 DEF Pulled, Fits, Live
    <2>3. \A b \in Member : ~VoteOf(e, b, T)
        BY <1>4 DEF VoteOf
    <2>4. ASSUME NEW b \in Member, Live(t), Holds(s, b, T) PROVE Holds(t, b, T)
        BY <2>1, <2>4 DEF Pulled, Live, Holds
    <2> QED BY <2>2, <2>3, <2>4
<1> QED BY <1>0, <1>1, <1>2, <1>3, <1>4

\* The replay over a log with no signature beyond T: its seats fit T, and if
\* the card is live at the end it was live throughout.
LEMMA RunWithin ==
    ASSUME NEW T \in Nat, NEW L \in Seq(Record),
           NEW sn \in [at : 0 .. Len(L), card : Card, by : Member, decl : SUBSET Member],
           NEW r, Run(sn, L, r),
           \A i \in sn.at + 1 .. Len(L) : L[i].t = "approved" => L[i].h <= T
    PROVE  \A j \in sn.at .. Len(L) : Fits(r[j], T) /\ (Live(r[Len(L)]) => Live(r[j]))
<1>0. sn.at \in Nat /\ Len(L) \in Nat /\ sn.at <= Len(L)
    OBVIOUS
<1>1. Fits(r[sn.at], T)
    <2>1. Base(sn) \in Seat /\ Base(sn).sh = 0 /\ Base(sn).ver = {}
        BY BaseFacts
    <2> QED BY <2>1 DEF Run, Fits
<1>2. ASSUME NEW j \in sn.at + 1 .. Len(L), Fits(r[j - 1], T)
      PROVE  Fits(r[j], T) /\ (Live(r[j]) => Live(r[j - 1]))
    <2>1. L[j] \in Record /\ (L[j].t = "approved" => L[j].h <= T) /\ r[j] = ReplayEvent(r[j - 1], L[j])
        BY <1>0 DEF Run
    <2> QED BY <1>2, <2>1, ReplayWithin
<1>3. \A j \in sn.at .. Len(L) : Fits(r[j], T)
    <2> DEFINE Bad == {j \in Nat : j \in sn.at .. Len(L) /\ ~Fits(r[j], T)}
    <2>1. Bad = {}
        <3>1. SUFFICES ASSUME Bad # {} PROVE FALSE
            OBVIOUS
        <3>2. PICK k \in Bad : \A j \in Bad : k <= j
            BY <3>1, LeastNat
        <3>3. k \in Nat /\ k \in sn.at .. Len(L) /\ ~Fits(r[k], T)
            BY <3>2
        <3>4. k # sn.at
            BY <1>1, <3>3
        <3>5. k \in sn.at + 1 .. Len(L) /\ k - 1 \in Nat /\ k - 1 \in sn.at .. Len(L) /\ k - 1 < k
            BY <1>0, <3>3, <3>4
        <3>6. k - 1 \notin Bad
            BY <3>2, <3>3, <3>5
        <3>7. Fits(r[k - 1], T)
            BY <3>5, <3>6
        <3> QED BY <1>2, <3>3, <3>5, <3>7
    <2>2. \A j \in sn.at .. Len(L) : j \in Nat
        BY <1>0
    <2> QED BY <2>1, <2>2
<1>4. ASSUME Live(r[Len(L)]) PROVE \A j \in sn.at .. Len(L) : Live(r[j])
    <2> DEFINE Bad == {d \in Nat : Len(L) - d \in sn.at .. Len(L) /\ ~Live(r[Len(L) - d])}
    <2>1. Bad = {}
        <3>1. SUFFICES ASSUME Bad # {} PROVE FALSE
            OBVIOUS
        <3>2. PICK d \in Bad : \A j \in Bad : d <= j
            BY <3>1, LeastNat
        <3>3. d \in Nat /\ Len(L) - d \in sn.at .. Len(L) /\ ~Live(r[Len(L) - d])
            BY <3>2
        <3>4. d # 0
            BY <1>0, <1>4, <3>3
        <3>5. PICK k : k = Len(L) - d + 1
            OBVIOUS
        <3>6. /\ k \in sn.at + 1 .. Len(L) /\ k - 1 = Len(L) - d /\ k = Len(L) - (d - 1)
              /\ d - 1 \in Nat /\ d - 1 < d /\ k \in sn.at .. Len(L) /\ k - 1 \in sn.at .. Len(L)
            BY <1>0, <3>3, <3>4, <3>5
        <3>7. d - 1 \notin Bad
            <4>1. \A j \in Bad : d <= j
                BY <3>2
            <4>2. ~ (d <= d - 1)
                BY <3>3
            <4> HIDE DEF Bad
            <4> QED BY <4>1, <4>2
        <3>8. Live(r[k])
            BY <3>6, <3>7
        <3> QED BY <1>2, <1>3, <3>3, <3>6, <3>8
    <2>2. ASSUME NEW j \in sn.at .. Len(L) PROVE Live(r[j])
        <3>1. PICK d : d = Len(L) - j
            OBVIOUS
        <3>2. d \in Nat /\ Len(L) - d = j
            BY <1>0, <3>1
        <3> QED BY <2>1, <3>2
    <2> QED BY <2>2
<1> QED BY <1>3, <1>4

\* A signature for T that is not retracted in what follows of the log is there
\* at the end of the replay, if the card is.
LEMMA VoteStays ==
    ASSUME NEW T \in Nat, NEW L \in Seq(Record),
           NEW sn \in [at : 0 .. Len(L), card : Card, by : Member, decl : SUBSET Member],
           NEW r, Run(sn, L, r),
           \A i \in sn.at + 1 .. Len(L) : L[i].t = "approved" => L[i].h <= T,
           Live(r[Len(L)]),
           NEW b \in Member, NEW i \in sn.at + 1 .. Len(L), VoteOf(L[i], b, T),
           \A j \in i + 1 .. Len(L) : ~DeclineOf(L[j], b)
    PROVE  Holds(r[Len(L)], b, T)
<1>0. sn.at \in Nat /\ Len(L) \in Nat /\ i \in Nat /\ sn.at < i /\ i <= Len(L)
    OBVIOUS
<1>1. \A j \in sn.at .. Len(L) : Fits(r[j], T) /\ Live(r[j])
    BY RunWithin
<1>2. ASSUME NEW j \in sn.at + 1 .. Len(L)
      PROVE  /\ Fits(r[j - 1], T) /\ Live(r[j - 1]) /\ Live(r[j]) /\ L[j] \in Record
             /\ (L[j].t = "approved" => L[j].h <= T) /\ r[j] = ReplayEvent(r[j - 1], L[j])
    <2>1. j - 1 \in sn.at .. Len(L) /\ j \in sn.at .. Len(L) /\ j \in 1 .. Len(L)
        BY <1>0
    <2> QED BY <1>1, <2>1 DEF Run
<1>3. Holds(r[i], b, T)
    <2>1. PICK s, e, t : s = r[i - 1] /\ e = L[i] /\ t = r[i]
        OBVIOUS
    <2>2. /\ Fits(s, T) /\ Live(s) /\ e \in Record /\ (e.t = "approved" => e.h <= T)
          /\ t = ReplayEvent(s, e) /\ VoteOf(e, b, T)
        BY <1>2, <2>1
    <2> QED BY <2>1, <2>2, ReplayWithin
<1>4. ASSUME NEW j \in i + 1 .. Len(L), Holds(r[j - 1], b, T) PROVE Holds(r[j], b, T)
    <2>1. PICK s, e, t : s = r[j - 1] /\ e = L[j] /\ t = r[j]
        OBVIOUS
    <2>2. j \in sn.at + 1 .. Len(L)
        BY <1>0
    <2>3. /\ Fits(s, T) /\ Live(t) /\ e \in Record /\ (e.t = "approved" => e.h <= T)
          /\ t = ReplayEvent(s, e) /\ Holds(s, b, T) /\ ~DeclineOf(e, b)
        BY <1>2, <1>4, <2>1, <2>2
    <2> QED BY <2>1, <2>3, ReplayWithin
<1> DEFINE Bad == {j \in Nat : j \in i .. Len(L) /\ ~Holds(r[j], b, T)}
<1>5. Bad = {}
    <2>1. SUFFICES ASSUME Bad # {} PROVE FALSE
        OBVIOUS
    <2>2. PICK k \in Bad : \A j \in Bad : k <= j
        BY <2>1, LeastNat
    <2>3. k \in Nat /\ k \in i .. Len(L) /\ ~Holds(r[k], b, T)
        BY <2>2
    <2>4. k # i
        BY <1>3, <2>3
    <2>5. k \in i + 1 .. Len(L) /\ k - 1 \in Nat /\ k - 1 \in i .. Len(L) /\ k - 1 < k
        BY <1>0, <2>3, <2>4
    <2>6. k - 1 \notin Bad
        BY <2>2, <2>3, <2>5
    <2>7. Holds(r[k - 1], b, T)
        BY <2>5, <2>6
    <2> QED BY <1>4, <2>3, <2>5, <2>7
<1>6. Len(L) \in Nat /\ Len(L) \in i .. Len(L)
    BY <1>0
<1> QED BY <1>5, <1>6

\* A vote survives a restart: every signature for the next height that the
\* replayed records hold, and that its author has not retracted, counts again
\* after the seat is opened, unless a replayed record binds a height beyond
\* the next; the seat's own stays its decision.
THEOREM VotesSurvive == Spec => RestoredVotesCount
<1> DEFINE Goal == opens' # opens /\ seat'.card = "open" /\ ~LeftALongerBranch' =>
            \A b \in Member : Restorable(b)' =>
                /\ seat'.sh = Target(seat') /\ b \in seat'.sigs \cap seat'.ver
                /\ b = Self => seat'.own
<1>1. ASSUME IInv, [Next]_vars PROVE Goal
    <2> SUFFICES ASSUME opens' # opens, seat'.card = "open", ~LeftALongerBranch',
                        NEW b \in Member, Restorable(b)'
                 PROVE  /\ seat'.sh = Target(seat') /\ b \in seat'.sigs \cap seat'.ver
                        /\ b = Self => seat'.own
        OBVIOUS
    <2>1. PICK clean \in BOOLEAN : Reopen(clean)
        BY <1>1, OnlyReopen
    <2>2. PICK q : /\ Pair(q, seat, will) /\ q = ReplayLoaded(snap')
                   /\ seat' = ReverifyAllPending(AdoptChain(q))
                   /\ \A r : Run(snap', log', r) => r[Len(log')] = q
        BY <1>1, <2>1, ReopenFacts
    <2>3. /\ log' = log /\ log \in Seq(Record)
          /\ snap' \in [at : 0 .. Len(log), card : Card, by : Member, decl : SUBSET Member]
        BY <1>1, <2>1, ReopenFacts, ThereIsAPair
    <2>4. PICK sn, L : sn = snap' /\ L = log
        OBVIOUS
    <2>5. L \in Seq(Record) /\ sn \in [at : 0 .. Len(L), card : Card, by : Member, decl : SUBSET Member]
        BY <2>3, <2>4
    <2>6. PICK r : Run(sn, L, r) /\ r[Len(L)] = q
        <3>1. sn.at \in 0 .. Len(log)
            BY <2>4, <2>5
        <3>2. PICK r : Run(sn, log, r) /\ ReplayLoaded(sn) = r[Len(log)]
            BY <2>3, <3>1, ReplayRun
        <3> QED BY <2>2, <2>4, <3>2
    <2>7. q \in Seat /\ seat \in Seat
        BY <2>2 DEF Pair
    <2>8. PICK t : t = ReverifyAllPending(AdoptChain(q))
        OBVIOUS
    <2>9. /\ t \in Seat /\ t.own = q.own /\ t.sigs = q.sigs /\ t.sh = q.sh
          /\ t.card = IF seat.card = "applied" THEN "applied" ELSE q.card
          /\ q.sh = Target(t) /\ t.card # "none" => \A x \in q.sigs : x \in t.ver
        BY <2>7, <2>8, AdoptFacts
    <2>10. t = seat' /\ t.card = "open" /\ Live(q)
        BY <2>2, <2>8, <2>9 DEF Live
    <2>11. PICK T : T = Target(t)
        OBVIOUS
    <2>12. T \in Nat
        BY <2>9, <2>11 DEF Target, Seat
    <2>13. \A i \in sn.at + 1 .. Len(L) : L[i].t = "approved" => L[i].h <= T
        <3>1. \A i \in sn.at + 1 .. Len(L) : ~ (L[i].t = "approved" /\ L[i].h > T)
            BY <2>3, <2>4, <2>10, <2>11 DEF LeftALongerBranch
        <3>2. ASSUME NEW i \in sn.at + 1 .. Len(L) PROVE L[i].h \in Nat
            <4>1. i \in 1 .. Len(L)
                BY <2>5
            <4>2. L[i] \in Record
                BY <2>5, <4>1
            <4> QED BY <4>2 DEF Record
        <3> QED BY <2>12, <3>1, <3>2
    <2>14. PICK i \in sn.at + 1 .. Len(L) :
              /\ L[i].t = "approved" /\ L[i].by = b /\ L[i].h = T
              /\ b = Self => L[i].from = Self
              /\ ~ \E j \in i + 1 .. Len(L) : L[j].t = "declined" /\ L[j].by = b
        BY <2>3, <2>4, <2>10, <2>11 DEF Restorable
    <2>15. VoteOf(L[i], b, T) /\ \A j \in i + 1 .. Len(L) : ~DeclineOf(L[j], b)
        BY <2>14 DEF VoteOf, DeclineOf
    <2>16. Holds(q, b, T)
        BY <2>5, <2>6, <2>10, <2>12, <2>13, <2>15, VoteStays
    <2>17. t.sh = T /\ b \in t.sigs /\ b \in t.ver /\ (b = Self => t.own)
        BY <2>9, <2>10, <2>11, <2>16 DEF Holds
    <2> QED BY <2>10, <2>11, <2>17
<1>2. IInv /\ [Next]_vars => [Goal]_vars
    BY <1>1
<1>3. Spec => [][Goal]_vars
    BY <1>2, Invariance, PTL DEF Spec
<1> QED BY <1>3 DEF RestoredVotesCount

=============================================================================
