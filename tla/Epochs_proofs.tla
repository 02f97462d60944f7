---------------------------- MODULE Epochs_proofs ----------------------------
(***************************************************************************)
(* Proofs about Epochs, for any number of seats, commits, frames, losses   *)
(* and kills, any ring and any hold.                                       *)
(*                                                                         *)
(* SeatInv is the invariant of one seat; it is kept by every frame that    *)
(* opens, hence by a pass over the hold and by the drain.  NetInv is the   *)
(* invariant of what is on the relays.                                     *)
(***************************************************************************)
EXTENDS Epochs, FiniteSetTheorems, SequenceTheorems, WellFoundedInduction, TLAPS

-----------------------------------------------------------------------------
(***************************************************************************)
(* The inductive invariant.                                                *)
(***************************************************************************)

Commit == [d : Digest, by : Member, re : Member]
CommitFrame == [k : {"commit"}, c : Commit, inc : Nat, on : Seq(Commit)]
AppFrame == [k : {"app"}, by : Member, no : Nat, on : Seq(Commit)]
Frame == CommitFrame \cup AppFrame

Device ==
    [branch : Seq(Commit), armed : BOOLEAN, base : Nat, used : SUBSET AppFrame,
     hold : Seq(Frame),
     disk : [branch : Seq(Commit), armed : BOOLEAN, used : SUBSET AppFrame]]

\* The commits and the application frames of a set of frames.
CommitsOf(N) == {f \in N : f.k = "commit"}
AppsOf(N) == {f \in N : f.k = "app"}

\* Every commit of the branch b stands in N, made on what is before it in b.
Made(b, N) ==
    \A k \in 1 .. Len(b) : \E f \in CommitsOf(N) : f.c = b[k] /\ f.on = SubSeq(b, 1, k - 1)

\* A branch starts where the device did, and the rewind slot is armed exactly
\* when it has a commit of its own to take back.
Fit(s) ==
    /\ Len(s.branch) >= s.base /\ Len(s.disk.branch) >= s.base
    /\ s.armed => Len(s.branch) > s.base
    /\ Len(s.branch) > s.base => s.armed
    /\ s.disk.armed => Len(s.disk.branch) > s.base
    /\ Len(s.disk.branch) > s.base => s.disk.armed

Grounded(s, N) ==
    /\ Made(s.branch, N) /\ Made(s.disk.branch, N)
    /\ s.used \subseteq N /\ s.disk.used \subseteq N

\* A device that never joined has been there from the first epoch.
Rooted(s, i) == i = 0 => s.base = 0

\* A committer is past the epoch of its commit, and if there are but two
\* commits it has moved to the rival of its own only if that one wins.
Author(n, s, N) == \A f \in CommitsOf(N) : f.c.by = n => Len(s.branch) > Len(f.on)

Yields(n, s, N) ==
    \A f, g \in CommitsOf(N) :
        /\ f.c.by = n /\ f # g /\ f.on = g.on /\ CommitsOf(N) \subseteq {f, g}
        /\ s.branch = Append(g.on, g.c)
        => TheirsWin(f.c, g.c)

\* One seat: n with device s and incarnation i; Z were killed.
SeatBase(s, N, i) == s \in Device /\ Fit(s) /\ Grounded(s, N) /\ Rooted(s, i)

SeatInv(n, s, N, i, Z) ==
    /\ SeatBase(s, N, i)
    /\ n \notin Z /\ i = 0 => Author(n, s, N) /\ Yields(n, s, N)

\* Each digest has one commit.
Distinct(N) == \A f, g \in CommitsOf(N) : f.c.d = g.c.d => f = g

NetInv(N) ==
    /\ N \subseteq Frame /\ IsFiniteSet(N)
    /\ \A f \in N : Made(f.on, N)
    /\ Distinct(N)

Types ==
    /\ node \in [Member -> Device] /\ lost \in [Member -> SUBSET Frame]
    /\ gone \in SUBSET Member /\ inc \in [Member -> Nat]
    /\ loses \in 0 .. MaxLose /\ killed \in SUBSET Member

\* The hold keeps to its bound, and what is held or lost was on the relays.
Kept ==
    \A n \in Member :
        /\ ToSet(node[n].hold) \subseteq net /\ Len(node[n].hold) <= HoldMax
        /\ lost[n] \subseteq net

Seated == \A n \in Member : SeatInv(n, node[n], net, inc[n], killed)

IInv == Types /\ Kept /\ NetInv(net) /\ Seated

-----------------------------------------------------------------------------
(***************************************************************************)
(* Numbers and sequences.                                                  *)
(***************************************************************************)

\* A set of natural numbers has a least element.
LEMMA LeastNat ==
    ASSUME NEW T \in SUBSET Nat, T # {}
    PROVE  \E x \in T : \A y \in T : x <= y
<1>1. PICK x \in T : \A y \in T : ~ (<<y, x>> \in OpToRel(<, Nat))
    BY NatLessThanWellFounded, WFMin
<1>2. \A y \in T : ~ (y < x)
    BY <1>1 DEF OpToRel
<1> QED BY <1>2

\* Max is the greatest element of a bounded set.
LEMMA MaxFacts ==
    ASSUME NEW T \in SUBSET Nat, T # {}, NEW k \in Nat, \A x \in T : x <= k
    PROVE  Max(T) \in T /\ \A y \in T : y <= Max(T)
<1> DEFINE D == {k - x : x \in T}
<1>1. D \in SUBSET Nat /\ D # {}
    <2>1. \A x \in T : k - x \in Nat
        OBVIOUS
    <2>2. PICK x \in T : TRUE
        OBVIOUS
    <2>3. k - x \in D
        BY <2>2
    <2> QED BY <2>1, <2>3
<1>2. PICK d \in D : \A e \in D : d <= e
    BY <1>1, LeastNat
<1>3. PICK x \in T : d = k - x
    BY <1>2
<1>4. \A y \in T : k - x <= k - y
    BY <1>2, <1>3
<1>5. \A y \in T : x >= y
    BY <1>4
<1>6. \E z \in T : \A y \in T : z >= y
    BY <1>5
<1>7. Max(T) \in T /\ \A y \in T : Max(T) >= y
    BY <1>6 DEF Max
<1> QED BY <1>7

\* A nonempty set of positions has a last one.
LEMMA LastPosition ==
    ASSUME NEW N \in Nat, NEW s \in SUBSET (1 .. N), s # {}
    PROVE  /\ Max(s) \in s /\ IsFiniteSet(s)
           /\ IsFiniteSet(s \ {Max(s)}) /\ Cardinality(s \ {Max(s)}) = Cardinality(s) - 1
<1>1. Max(s) \in s
    BY MaxFacts
<1>2. IsFiniteSet(s)
    <2>1. IsFiniteSet(1 .. N)
        BY FS_Interval
    <2> QED BY <2>1, FS_Subset
<1> QED BY <1>1, <1>2, FS_RemoveElement

\* A prefix is shorter and agrees in every place.
LEMMA PrefixFacts ==
    ASSUME NEW T, NEW s \in Seq(T), NEW t \in Seq(T)
    PROVE  /\ IsPrefix(s, t) => Len(s) <= Len(t) /\ \A i \in 1 .. Len(s) : s[i] = t[i]
           /\ Len(s) <= Len(t) /\ (\A i \in 1 .. Len(s) : s[i] = t[i]) => IsPrefix(s, t)
<1>1. Len(s) \in Nat /\ Len(t) \in Nat
    OBVIOUS
<1>2. SubSeq(s, 1, Len(s)) = s
    BY SubSeqFull
<1>3. ASSUME Len(s) <= Len(t)
      PROVE  /\ Len(SubSeq(t, 1, Len(s))) = Len(s) /\ SubSeq(t, 1, Len(s)) \in Seq(T)
             /\ \A i \in 1 .. Len(s) : SubSeq(t, 1, Len(s))[i] = t[i]
    BY <1>1, <1>3
<1>4. ASSUME IsPrefix(s, t) PROVE Len(s) <= Len(t) /\ \A i \in 1 .. Len(s) : s[i] = t[i]
    BY <1>2, <1>3, <1>4 DEF IsPrefix
<1>5. ASSUME Len(s) <= Len(t), \A i \in 1 .. Len(s) : s[i] = t[i] PROVE IsPrefix(s, t)
    <2>1. s = SubSeq(t, 1, Len(s))
        BY <1>3, <1>5, SeqEqual
    <2> QED BY <1>2, <1>5, <2>1 DEF IsPrefix
<1> QED BY <1>4, <1>5

\* What Append does.
LEMMA AppendFacts ==
    ASSUME NEW T, NEW s \in Seq(T), NEW x \in T
    PROVE  /\ Append(s, x) \in Seq(T) /\ Len(Append(s, x)) = Len(s) + 1
           /\ \A i \in 1 .. Len(s) : Append(s, x)[i] = s[i]
           /\ Append(s, x)[Len(s) + 1] = x
           /\ ToSet(Append(s, x)) = ToSet(s) \cup {x}
<1>1. /\ Append(s, x) \in Seq(T) /\ Len(Append(s, x)) = Len(s) + 1
      /\ \A i \in 1 .. Len(s) : Append(s, x)[i] = s[i]
      /\ Append(s, x)[Len(s) + 1] = x
    OBVIOUS
<1>2. DOMAIN s = 1 .. Len(s) /\ DOMAIN Append(s, x) = 1 .. Len(s) + 1 /\ Len(s) \in Nat
    OBVIOUS
<1>3. ASSUME NEW y PROVE y \in ToSet(Append(s, x)) => y \in ToSet(s) \cup {x}
    <2>1. SUFFICES ASSUME NEW i \in 1 .. Len(s) + 1, y = Append(s, x)[i]
                   PROVE  y \in ToSet(s) \cup {x}
        BY <1>2 DEF ToSet
    <2>2. i \in 1 .. Len(s) \/ i = Len(s) + 1
        BY <1>2
    <2> QED BY <1>1, <1>2, <2>1, <2>2 DEF ToSet
<1>4. ASSUME NEW y PROVE y \in ToSet(s) \cup {x} => y \in ToSet(Append(s, x))
    <2>1. CASE y = x
        <3>1. Len(s) + 1 \in 1 .. Len(s) + 1
            BY <1>2
        <3> QED BY <1>1, <1>2, <2>1, <3>1 DEF ToSet
    <2>2. CASE y \in ToSet(s)
        <3>1. PICK i \in 1 .. Len(s) : y = s[i]
            BY <1>2, <2>2 DEF ToSet
        <3>2. i \in 1 .. Len(s) + 1 /\ y = Append(s, x)[i]
            BY <1>1, <1>2, <3>1
        <3> QED BY <1>2, <3>2 DEF ToSet
    <2> QED BY <2>1, <2>2
<1> QED BY <1>1, <1>3, <1>4

\* Equal extensions extend equal sequences.
LEMMA SameAppend ==
    ASSUME NEW T, NEW a \in Seq(T), NEW b \in Seq(T), NEW x \in T, NEW y \in T,
           Append(a, x) = Append(b, y)
    PROVE  a = b /\ x = y
<1>1. Len(a) = Len(b) /\ Len(a) \in Nat
    BY AppendFacts
<1>2. x = y
    BY <1>1, AppendFacts
<1>3. \A i \in 1 .. Len(a) : a[i] = b[i]
    BY <1>1, AppendFacts
<1> QED BY <1>1, <1>2, <1>3, SeqEqual

\* The same for branches: a branch and the commit on top of it determine each other.
LEMMA SameBranch ==
    \A a, b \in Seq(Commit), x, y \in Commit : Append(a, x) = Append(b, y) => a = b /\ x = y
<1> SUFFICES ASSUME NEW a \in Seq(Commit), NEW b \in Seq(Commit),
                    NEW x \in Commit, NEW y \in Commit, Append(a, x) = Append(b, y)
             PROVE  a = b /\ x = y
    OBVIOUS
<1> QED BY SameAppend

\* The elements of a sequence.
LEMMA ToSetFacts ==
    ASSUME NEW T, NEW s \in Seq(T)
    PROVE  /\ ToSet(s) \subseteq T
           /\ \A x : x \in ToSet(s) => \E i \in 1 .. Len(s) : s[i] = x
           /\ \A i \in 1 .. Len(s) : s[i] \in ToSet(s)
<1>1. DOMAIN s = 1 .. Len(s)
    OBVIOUS
<1> QED BY <1>1 DEF ToSet

\* Where a pass and the drain start.
PassStart(st) ==
    [s |-> [st EXCEPT !.hold = <<>>], kept |-> <<>>, progress |-> FALSE]

DrainStart(st) == [s |-> st, gaveUp |-> {}, done |-> FALSE]

Ticks(st) == [i \in 1 .. Len(st.hold) + 1 |-> i]

-----------------------------------------------------------------------------
(***************************************************************************)
(* One pass over the hold.                                                 *)
(***************************************************************************)

\* The function that the fold of Pass chooses, and the equation it solves:
\* the value at a set of positions is the last of them after the others.
Passing(n, st, L, f, D) ==
    f = [s \in D |-> IF s = {} THEN st ELSE Offer(n, f[s \ {Max(s)}], L[Max(s)])]

\* Pass is that function at the set of all positions.
LEMMA PassingUnfolds ==
    ASSUME NEW n, NEW st
    PROVE  Pass(st, n) =
              (CHOOSE f : Passing(n, PassStart(st), st.hold, f, SUBSET DOMAIN st.hold))[DOMAIN st.hold]
BY DEF Pass, PassStart, FoldLeft, MapThenFoldSet, Passing

\* The equation has a solution on the sets of up to k positions, for every k:
\* one for k + 1 is built from one for k.
LEMMA PassingExists ==
    ASSUME NEW n, NEW st, NEW L, NEW N \in Nat
    PROVE  \E f : Passing(n, st, L, f, SUBSET (1 .. N))
<1> DEFINE D(k) == {s \in SUBSET (1 .. N) : Cardinality(s) <= k}
           Bad == {k \in Nat : ~ \E f : Passing(n, st, L, f, D(k))}
           Body(f, s) == IF s = {} THEN st ELSE Offer(n, f[s \ {Max(s)}], L[Max(s)])
<1>0. \A s \in SUBSET (1 .. N) : IsFiniteSet(s) /\ Cardinality(s) \in Nat /\ Cardinality(s) <= N
    <2>1. IsFiniteSet(1 .. N) /\ Cardinality(1 .. N) = N
        BY FS_Interval
    <2> QED BY <2>1, FS_Subset, FS_CardinalityType
<1>1. Bad = {}
    <2>1. SUFFICES ASSUME Bad # {} PROVE FALSE
        OBVIOUS
    <2>2. PICK k \in Bad : \A j \in Bad : k <= j
        BY <2>1, LeastNat
    <2>3. k # 0
        <3> DEFINE f == [s \in D(0) |-> st]
        <3>1. \A s \in D(0) : s = {}
            BY <1>0, FS_EmptySet
        <3>2. Passing(n, st, L, f, D(0))
            BY <3>1 DEF Passing
        <3> QED BY <2>2, <3>2
    <2>4. PICK g : Passing(n, st, L, g, D(k - 1))
        <3>1. k - 1 \in Nat /\ k - 1 \notin Bad
            <4> HIDE DEF Bad
            <4>1. k \in Nat
                BY <2>2 DEF Bad
            <4> QED BY <2>2, <2>3, <4>1
        <3> HIDE DEF D
        <3> QED BY <3>1
    <2>5. g = [s \in D(k - 1) |-> Body(g, s)]
        BY <2>4 DEF Passing
    <2> DEFINE f == [s \in D(k) |-> Body(g, s)]
    <2>6. ASSUME NEW s \in D(k), s # {} PROVE s \ {Max(s)} \in D(k - 1)
        <3>1. /\ Max(s) \in s /\ Cardinality(s \ {Max(s)}) = Cardinality(s) - 1
            BY <2>6, LastPosition
        <3>2. s \in SUBSET (1 .. N) /\ Cardinality(s) <= k /\ Cardinality(s) \in Nat /\ k \in Nat
            BY <1>0, <2>2
        <3>3. Cardinality(s \ {Max(s)}) <= k - 1
            BY <3>1, <3>2
        <3>4. s \ {Max(s)} \in SUBSET (1 .. N)
            BY <3>2
        <3> QED BY <3>3, <3>4
    <2>7. \A s \in D(k - 1) : f[s] = g[s]
        <3>1. \A s \in D(k - 1) : s \in D(k)
            BY <1>0, <2>2
        <3> HIDE DEF D, Body
        <3> QED BY <2>5, <3>1
    <2>8. ASSUME NEW s \in D(k) PROVE Body(g, s) = Body(f, s)
        <3>1. CASE s = {}
            BY <3>1
        <3>2. CASE s # {}
            <4>1. f[s \ {Max(s)}] = g[s \ {Max(s)}]
                BY <2>6, <2>7, <3>2
            <4> HIDE DEF f
            <4> QED BY <4>1
        <3> QED BY <3>1, <3>2
    <2>9. f = [s \in D(k) |-> Body(f, s)]
        <3> HIDE DEF Body, D
        <3> QED BY <2>8
    <2>10. Passing(n, st, L, f, D(k))
        <3> HIDE DEF f
        <3> QED BY <2>9 DEF Passing
    <2> QED BY <2>2, <2>10
<1>2. D(N) = SUBSET (1 .. N)
    BY <1>0
<1>3. \E f : Passing(n, st, L, f, D(N))
    BY <1>1
<1> QED BY <1>2, <1>3

\* r[i] is what the first i steps of Pass come to.
PassRun(n, st, L, r) ==
    /\ r[0] = st
    /\ \A i \in 1 .. Len(L) : r[i] = Offer(n, r[i - 1], L[i])

\* Every list has a run, and the fold ends where it does.
LEMMA PassRunExists ==
    ASSUME NEW n, NEW st, NEW T, NEW L \in Seq(T)
    PROVE  \E r : /\ PassRun(n, st, L, r)
                  /\ r[Len(L)] = (CHOOSE f : Passing(n, st, L, f, SUBSET DOMAIN L))[DOMAIN L]
<1> DEFINE N == Len(L)
           f == CHOOSE g : Passing(n, st, L, g, SUBSET (1 .. N))
           r == [i \in 0 .. N |-> f[1 .. i]]
<1>1. DOMAIN L = 1 .. N /\ N \in Nat
    OBVIOUS
<1>2. Passing(n, st, L, f, SUBSET (1 .. N))
    BY <1>1, PassingExists
<1>3. (CHOOSE g : Passing(n, st, L, g, SUBSET DOMAIN L))[DOMAIN L] = f[1 .. N]
    BY <1>1
<1> HIDE DEF f
<1>4. \A s \in SUBSET (1 .. N) : f[s] = IF s = {} THEN st ELSE Offer(n, f[s \ {Max(s)}], L[Max(s)])
    BY <1>2 DEF Passing
<1> HIDE DEF N
<1>5. ASSUME NEW k \in 1 .. N PROVE Max(1 .. k) = k /\ (1 .. k) \ {k} = 1 .. (k - 1)
    <2>1. k \in Nat /\ 1 .. k \in SUBSET Nat /\ k \in 1 .. k /\ \A x \in 1 .. k : x <= k
        BY <1>1
    <2>2. Max(1 .. k) \in 1 .. k /\ \A y \in 1 .. k : y <= Max(1 .. k)
        BY <2>1, MaxFacts
    <2> QED BY <2>1, <2>2
<1>6. ASSUME NEW k \in 1 .. N PROVE f[1 .. k] = Offer(n, f[1 .. (k - 1)], L[k])
    <2>1. 1 .. k \in SUBSET (1 .. N) /\ 1 .. k # {}
        <3>1. k \in Nat /\ 1 <= k /\ k <= N
            BY <1>1
        <3>2. \A x \in 1 .. k : x \in 1 .. N
            BY <1>1, <3>1
        <3>3. 1 \in 1 .. k
            BY <3>1
        <3> QED BY <3>2, <3>3
    <2> QED BY <1>4, <1>5, <2>1
<1>7. f[1 .. 0] = st
    <2>1. 1 .. 0 = {} /\ {} \in SUBSET (1 .. N)
        BY <1>1
    <2> QED BY <1>4, <2>1
<1>8. r[0] = st /\ r[N] = f[1 .. N]
    BY <1>1, <1>7
<1>9. ASSUME NEW i \in 1 .. N PROVE r[i] = Offer(n, r[i - 1], L[i])
    <2>1. i \in 0 .. N /\ i - 1 \in 0 .. N
        BY <1>1
    <2>2. r[i] = f[1 .. i] /\ r[i - 1] = f[1 .. (i - 1)]
        BY <2>1
    <2> HIDE DEF r
    <2> QED BY <1>6, <2>2
<1> HIDE DEF r
<1> QED BY <1>3, <1>8, <1>9 DEF PassRun, N

-----------------------------------------------------------------------------
(***************************************************************************)
(* The rounds of the drain.                                                *)
(***************************************************************************)

\* The function that the fold of DrainUntilNoProgress chooses, and the equation it solves:
\* the value at a set of positions is the last of them after the others.
Draining(n, st, L, f, D) ==
    f = [s \in D |-> IF s = {} THEN st ELSE Round(n, f[s \ {Max(s)}])]

\* DrainUntilNoProgress is that function at the set of all positions.
LEMMA DrainingUnfolds ==
    ASSUME NEW n, NEW st
    PROVE  DrainUntilNoProgress(st, n) =
              (CHOOSE f : Draining(n, DrainStart(st), Ticks(st), f, SUBSET DOMAIN Ticks(st)))[DOMAIN Ticks(st)]
BY DEF DrainUntilNoProgress, DrainStart, Ticks, FoldLeft, MapThenFoldSet, Draining

\* The equation has a solution on the sets of up to k positions, for every k:
\* one for k + 1 is built from one for k.
LEMMA DrainingExists ==
    ASSUME NEW n, NEW st, NEW L, NEW N \in Nat
    PROVE  \E f : Draining(n, st, L, f, SUBSET (1 .. N))
<1> DEFINE D(k) == {s \in SUBSET (1 .. N) : Cardinality(s) <= k}
           Bad == {k \in Nat : ~ \E f : Draining(n, st, L, f, D(k))}
           Body(f, s) == IF s = {} THEN st ELSE Round(n, f[s \ {Max(s)}])
<1>0. \A s \in SUBSET (1 .. N) : IsFiniteSet(s) /\ Cardinality(s) \in Nat /\ Cardinality(s) <= N
    <2>1. IsFiniteSet(1 .. N) /\ Cardinality(1 .. N) = N
        BY FS_Interval
    <2> QED BY <2>1, FS_Subset, FS_CardinalityType
<1>1. Bad = {}
    <2>1. SUFFICES ASSUME Bad # {} PROVE FALSE
        OBVIOUS
    <2>2. PICK k \in Bad : \A j \in Bad : k <= j
        BY <2>1, LeastNat
    <2>3. k # 0
        <3> DEFINE f == [s \in D(0) |-> st]
        <3>1. \A s \in D(0) : s = {}
            BY <1>0, FS_EmptySet
        <3>2. Draining(n, st, L, f, D(0))
            BY <3>1 DEF Draining
        <3> QED BY <2>2, <3>2
    <2>4. PICK g : Draining(n, st, L, g, D(k - 1))
        <3>1. k - 1 \in Nat /\ k - 1 \notin Bad
            <4> HIDE DEF Bad
            <4>1. k \in Nat
                BY <2>2 DEF Bad
            <4> QED BY <2>2, <2>3, <4>1
        <3> HIDE DEF D
        <3> QED BY <3>1
    <2>5. g = [s \in D(k - 1) |-> Body(g, s)]
        BY <2>4 DEF Draining
    <2> DEFINE f == [s \in D(k) |-> Body(g, s)]
    <2>6. ASSUME NEW s \in D(k), s # {} PROVE s \ {Max(s)} \in D(k - 1)
        <3>1. /\ Max(s) \in s /\ Cardinality(s \ {Max(s)}) = Cardinality(s) - 1
            BY <2>6, LastPosition
        <3>2. s \in SUBSET (1 .. N) /\ Cardinality(s) <= k /\ Cardinality(s) \in Nat /\ k \in Nat
            BY <1>0, <2>2
        <3>3. Cardinality(s \ {Max(s)}) <= k - 1
            BY <3>1, <3>2
        <3>4. s \ {Max(s)} \in SUBSET (1 .. N)
            BY <3>2
        <3> QED BY <3>3, <3>4
    <2>7. \A s \in D(k - 1) : f[s] = g[s]
        <3>1. \A s \in D(k - 1) : s \in D(k)
            BY <1>0, <2>2
        <3> HIDE DEF D, Body
        <3> QED BY <2>5, <3>1
    <2>8. ASSUME NEW s \in D(k) PROVE Body(g, s) = Body(f, s)
        <3>1. CASE s = {}
            BY <3>1
        <3>2. CASE s # {}
            <4>1. f[s \ {Max(s)}] = g[s \ {Max(s)}]
                BY <2>6, <2>7, <3>2
            <4> HIDE DEF f
            <4> QED BY <4>1
        <3> QED BY <3>1, <3>2
    <2>9. f = [s \in D(k) |-> Body(f, s)]
        <3> HIDE DEF Body, D
        <3> QED BY <2>8
    <2>10. Draining(n, st, L, f, D(k))
        <3> HIDE DEF f
        <3> QED BY <2>9 DEF Draining
    <2> QED BY <2>2, <2>10
<1>2. D(N) = SUBSET (1 .. N)
    BY <1>0
<1>3. \E f : Draining(n, st, L, f, D(N))
    BY <1>1
<1> QED BY <1>2, <1>3

\* r[i] is what the first i steps of DrainUntilNoProgress come to.
DrainRun(n, st, L, r) ==
    /\ r[0] = st
    /\ \A i \in 1 .. Len(L) : r[i] = Round(n, r[i - 1])

\* Every list has a run, and the fold ends where it does.
LEMMA DrainRunExists ==
    ASSUME NEW n, NEW st, NEW T, NEW L \in Seq(T)
    PROVE  \E r : /\ DrainRun(n, st, L, r)
                  /\ r[Len(L)] = (CHOOSE f : Draining(n, st, L, f, SUBSET DOMAIN L))[DOMAIN L]
<1> DEFINE N == Len(L)
           f == CHOOSE g : Draining(n, st, L, g, SUBSET (1 .. N))
           r == [i \in 0 .. N |-> f[1 .. i]]
<1>1. DOMAIN L = 1 .. N /\ N \in Nat
    OBVIOUS
<1>2. Draining(n, st, L, f, SUBSET (1 .. N))
    BY <1>1, DrainingExists
<1>3. (CHOOSE g : Draining(n, st, L, g, SUBSET DOMAIN L))[DOMAIN L] = f[1 .. N]
    BY <1>1
<1> HIDE DEF f
<1>4. \A s \in SUBSET (1 .. N) : f[s] = IF s = {} THEN st ELSE Round(n, f[s \ {Max(s)}])
    BY <1>2 DEF Draining
<1> HIDE DEF N
<1>5. ASSUME NEW k \in 1 .. N PROVE Max(1 .. k) = k /\ (1 .. k) \ {k} = 1 .. (k - 1)
    <2>1. k \in Nat /\ 1 .. k \in SUBSET Nat /\ k \in 1 .. k /\ \A x \in 1 .. k : x <= k
        BY <1>1
    <2>2. Max(1 .. k) \in 1 .. k /\ \A y \in 1 .. k : y <= Max(1 .. k)
        BY <2>1, MaxFacts
    <2> QED BY <2>1, <2>2
<1>6. ASSUME NEW k \in 1 .. N PROVE f[1 .. k] = Round(n, f[1 .. (k - 1)])
    <2>1. 1 .. k \in SUBSET (1 .. N) /\ 1 .. k # {}
        <3>1. k \in Nat /\ 1 <= k /\ k <= N
            BY <1>1
        <3>2. \A x \in 1 .. k : x \in 1 .. N
            BY <1>1, <3>1
        <3>3. 1 \in 1 .. k
            BY <3>1
        <3> QED BY <3>2, <3>3
    <2> QED BY <1>4, <1>5, <2>1
<1>7. f[1 .. 0] = st
    <2>1. 1 .. 0 = {} /\ {} \in SUBSET (1 .. N)
        BY <1>1
    <2> QED BY <1>4, <2>1
<1>8. r[0] = st /\ r[N] = f[1 .. N]
    BY <1>1, <1>7
<1>9. ASSUME NEW i \in 1 .. N PROVE r[i] = Round(n, r[i - 1])
    <2>1. i \in 0 .. N /\ i - 1 \in 0 .. N
        BY <1>1
    <2>2. r[i] = f[1 .. i] /\ r[i - 1] = f[1 .. (i - 1)]
        BY <2>1
    <2> HIDE DEF r
    <2> QED BY <1>6, <2>2
<1> HIDE DEF r
<1> QED BY <1>3, <1>8, <1>9 DEF DrainRun, N

-----------------------------------------------------------------------------
(***************************************************************************)
(* One frame.                                                              *)
(***************************************************************************)

\* A frame is a commit or an application frame, and its parts are typed.
LEMMA FrameFacts ==
    ASSUME NEW N, N \subseteq Frame
    PROVE  /\ CommitsOf(N) \subseteq CommitFrame /\ AppsOf(N) \subseteq AppFrame
           /\ CommitsOf(N) \subseteq N /\ AppsOf(N) \subseteq N
           /\ N \subseteq CommitsOf(N) \cup AppsOf(N)
           /\ \A f \in CommitsOf(N) : f.k = "commit" /\ f \notin AppsOf(N)
           /\ \A f \in AppsOf(N) : f.k = "app" /\ f \notin CommitsOf(N)
           /\ \A f \in N : f.on \in Seq(Commit)
<1>1. \A f \in Frame : f.k = "commit" => f \in CommitFrame
    BY DEF Frame, CommitFrame, AppFrame
<1>2. \A f \in Frame : f.k = "app" => f \in AppFrame
    BY DEF Frame, CommitFrame, AppFrame
<1>3. \A f \in Frame : f.k = "app" \/ f.k = "commit"
    BY DEF Frame, CommitFrame, AppFrame
<1>4. \A f \in Frame : f.on \in Seq(Commit)
    BY DEF Frame, CommitFrame, AppFrame
<1> QED BY <1>1, <1>2, <1>3, <1>4 DEF CommitsOf, AppsOf

\* The parts of a commit.
LEMMA CommitFacts ==
    ASSUME NEW f \in CommitFrame
    PROVE  /\ f.c \in Commit /\ f.on \in Seq(Commit) /\ f.inc \in Nat /\ f.k = "commit"
           /\ f.c.by \in Member /\ f.c.re \in Member /\ f.c.d \in Digest
BY DEF CommitFrame, Commit

\* The parts of an application frame.
LEMMA AppFacts ==
    ASSUME NEW f \in AppFrame
    PROVE  f.k = "app" /\ f.by \in Member /\ f.no \in Nat /\ f.on \in Seq(Commit)
BY DEF AppFrame

\* The parts of a device.
LEMMA DeviceFacts ==
    ASSUME NEW s \in Device
    PROVE  /\ s.branch \in Seq(Commit) /\ Len(s.branch) \in Nat /\ s.base \in Nat
           /\ s.armed \in BOOLEAN /\ s.used \in SUBSET AppFrame /\ s.hold \in Seq(Frame)
           /\ s.disk.branch \in Seq(Commit) /\ Len(s.disk.branch) \in Nat
           /\ s.disk.used \in SUBSET AppFrame /\ s.disk.armed \in BOOLEAN
BY DEF Device

\* What opens is sealed under a prefix of the branch, in the ring.
LEMMA OpensFacts ==
    ASSUME NEW s \in Device, NEW f, f.on \in Seq(Commit), Opens(s, f)
    PROVE  /\ Len(f.on) \in Nat /\ Len(f.on) <= Len(s.branch) /\ Len(f.on) >= s.base
           /\ \A i \in 1 .. Len(f.on) : f.on[i] = s.branch[i]
           /\ ToSet(f.on) \subseteq ToSet(s.branch)
<1>1. s.branch \in Seq(Commit)
    BY DeviceFacts
<1>2. Len(f.on) <= Len(s.branch) /\ \A i \in 1 .. Len(f.on) : f.on[i] = s.branch[i]
    BY <1>1, PrefixFacts DEF Opens
<1>3. Len(f.on) >= s.base /\ Len(f.on) \in Nat /\ Len(s.branch) \in Nat
    BY <1>1 DEF Opens
<1>4. ASSUME NEW x \in ToSet(f.on) PROVE x \in ToSet(s.branch)
    <2>1. PICK i \in 1 .. Len(f.on) : f.on[i] = x
        BY ToSetFacts
    <2>2. i \in 1 .. Len(s.branch) /\ s.branch[i] = x
        BY <1>2, <1>3, <2>1
    <2> QED BY <1>1, <2>2, ToSetFacts
<1> QED BY <1>2, <1>3, <1>4

\* What Merge sets and what it leaves.
LEMMA MergeFields ==
    ASSUME NEW s \in Device, NEW f \in CommitFrame
    PROVE  LET t == Merge(s, f)
           IN  /\ t \in Device /\ t.branch = Append(f.on, f.c) /\ t.armed = TRUE
               /\ t.base = s.base /\ t.used = s.used /\ t.hold = s.hold /\ t.disk = s.disk
<1>1. Append(f.on, f.c) \in Seq(Commit)
    BY CommitFacts, AppendFacts
<1> QED BY <1>1 DEF Merge, Device

\* What a decrypted frame sets and what it leaves.
LEMMA SpendFields ==
    ASSUME NEW s \in Device, NEW f \in AppFrame
    PROVE  LET t == [s EXCEPT !.used = @ \cup {f}]
           IN  /\ t \in Device /\ t.branch = s.branch /\ t.armed = s.armed /\ t.base = s.base
               /\ t.hold = s.hold /\ t.disk = s.disk /\ t.used = s.used \cup {f}
<1>1. s.used \cup {f} \in SUBSET AppFrame
    BY DeviceFacts
<1> QED BY <1>1 DEF Device

-----------------------------------------------------------------------------
(***************************************************************************)
(* A seat that takes a frame which opens.                                  *)
(***************************************************************************)

\* A commit's branch is made of commits, and so is the one it leads to.
LEMMA MadeAppend ==
    ASSUME NEW N, N \subseteq Frame, NEW f \in CommitsOf(N), Made(f.on, N)
    PROVE  Made(Append(f.on, f.c), N)
<1>1. f.on \in Seq(Commit) /\ f.c \in Commit /\ Len(f.on) \in Nat
    BY FrameFacts, CommitFacts
<1>2. PICK b : b = Append(f.on, f.c)
    OBVIOUS
<1>3. /\ b \in Seq(Commit) /\ Len(b) = Len(f.on) + 1 /\ b[Len(f.on) + 1] = f.c
      /\ \A i \in 1 .. Len(f.on) : b[i] = f.on[i]
    BY <1>1, <1>2, AppendFacts
<1>4. ASSUME NEW k \in 1 .. Len(b)
      PROVE  \E g \in CommitsOf(N) : g.c = b[k] /\ g.on = SubSeq(b, 1, k - 1)
    <2>1. k \in Nat /\ 1 <= k /\ k - 1 <= Len(f.on)
        BY <1>1, <1>3
    <2>2. SubSeq(b, 1, k - 1) = SubSeq(f.on, 1, k - 1)
        <3>1. /\ SubSeq(b, 1, k - 1) \in Seq(Commit) /\ Len(SubSeq(b, 1, k - 1)) = k - 1
              /\ \A i \in 1 .. k - 1 : SubSeq(b, 1, k - 1)[i] = b[i]
            BY <1>1, <1>3, <2>1
        <3>2. /\ SubSeq(f.on, 1, k - 1) \in Seq(Commit) /\ Len(SubSeq(f.on, 1, k - 1)) = k - 1
              /\ \A i \in 1 .. k - 1 : SubSeq(f.on, 1, k - 1)[i] = f.on[i]
            BY <1>1, <2>1
        <3>3. \A i \in 1 .. k - 1 : b[i] = f.on[i]
            BY <1>1, <1>3, <2>1
        <3> QED BY <3>1, <3>2, <3>3, SeqEqual
    <2>3. CASE k = Len(f.on) + 1
        <3>1. SubSeq(f.on, 1, k - 1) = f.on
            BY <1>1, <2>3, SubSeqFull
        <3> QED BY <1>3, <2>2, <2>3, <3>1
    <2>4. CASE k # Len(f.on) + 1
        <3>1. k \in 1 .. Len(f.on)
            BY <1>1, <2>1, <2>4
        <3>2. b[k] = f.on[k]
            BY <1>3, <3>1
        <3> QED BY <2>2, <3>1, <3>2 DEF Made
    <2> QED BY <2>3, <2>4
<1> QED BY <1>2, <1>4 DEF Made

\* The exactly-one rule of contest: of two commits with their own digests one
\* wins, whichever a seat has merged.
LEMMA OneWins ==
    ASSUME NEW c \in Commit, NEW e \in Commit, c.d # e.d
    PROVE  (TheirsWin(c, e) \/ TheirsWin(e, c)) /\ ~(TheirsWin(c, e) /\ TheirsWin(e, c))
<1>1. c.d \in Nat /\ e.d \in Nat
    BY EpochsAssumption DEF Commit
<1>2. c.d < e.d \/ e.d < c.d
    BY <1>1
<1>3. ~(c.d < e.d /\ e.d < c.d)
    BY <1>1
<1> QED BY <1>2, <1>3, Zenon DEF TheirsWin

\* A commit does not win against itself.
LEMMA NotAgainstItself ==
    ASSUME NEW c \in Commit PROVE ~TheirsWin(c, c)
<1>1. c.d \in Nat
    BY EpochsAssumption DEF Commit
<1>2. ~(c.d < c.d)
    BY <1>1
<1> QED BY <1>2 DEF TheirsWin

\* A commit that merges keeps the invariant of the seat, but for what it says
\* of committers.
LEMMA MergeBase ==
    ASSUME NEW N, N \subseteq Frame, \A g \in N : Made(g.on, N),
           NEW s, NEW i \in Nat, SeatBase(s, N, i), NEW f \in CommitsOf(N), Opens(s, f)
    PROVE  SeatBase(Merge(s, f), N, i)
<1>1. /\ N \subseteq Frame /\ f \in CommitFrame /\ f.c \in Commit /\ f.on \in Seq(Commit)
      /\ f.c.re \in Member /\ f \in N
    BY FrameFacts, CommitFacts
<1>2. s \in Device
    BY DEF SeatBase
<1>3. /\ Len(f.on) \in Nat /\ Len(f.on) <= Len(s.branch) /\ Len(f.on) >= s.base
      /\ \A j \in 1 .. Len(f.on) : f.on[j] = s.branch[j]
      /\ ToSet(f.on) \subseteq ToSet(s.branch)
    BY <1>1, <1>2, OpensFacts
<1>4. PICK t : t = Merge(s, f)
    OBVIOUS
<1>5. /\ t \in Device /\ t.branch = Append(f.on, f.c) /\ t.armed = TRUE
      /\ t.base = s.base /\ t.used = s.used /\ t.hold = s.hold /\ t.disk = s.disk
    BY <1>1, <1>2, <1>4, MergeFields
<1>6. /\ t.branch \in Seq(Commit) /\ Len(t.branch) = Len(f.on) + 1
      /\ \A j \in 1 .. Len(f.on) : t.branch[j] = f.on[j]
      /\ ToSet(t.branch) = ToSet(f.on) \cup {f.c}
    BY <1>1, <1>5, AppendFacts
<1>7. Fit(t)
    BY <1>2, <1>3, <1>5, <1>6, DeviceFacts DEF Fit, SeatBase
<1>8. Grounded(t, N)
    <2>1. Made(t.branch, N)
        BY <1>1, <1>5, MadeAppend
    <2> QED BY <1>5, <2>1 DEF Grounded, SeatBase
<1>9. Rooted(t, i)
    BY <1>5 DEF Rooted, SeatBase
<1> QED BY <1>4, <1>5, <1>7, <1>8, <1>9 DEF SeatBase

\* A commit that merges at a seat keeps its invariant.
LEMMA MergeInv ==
    ASSUME NEW N, NetInv(N), NEW n \in Member, NEW s, NEW i \in Nat, NEW Z,
           SeatInv(n, s, N, i, Z), NEW f \in CommitsOf(N), Opens(s, f), MergesHere(s, n, f)
    PROVE  SeatInv(n, Merge(s, f), N, i, Z)
<1>1. /\ N \subseteq Frame /\ f \in CommitFrame /\ f.c \in Commit /\ f.on \in Seq(Commit)
      /\ f.c.re \in Member /\ f \in N
    BY FrameFacts, CommitFacts DEF NetInv
<1>2. s \in Device
    BY DEF SeatInv, SeatBase
<1>3. /\ Len(f.on) \in Nat /\ Len(f.on) <= Len(s.branch) /\ Len(f.on) >= s.base
      /\ \A j \in 1 .. Len(f.on) : f.on[j] = s.branch[j]
      /\ ToSet(f.on) \subseteq ToSet(s.branch)
    BY <1>1, <1>2, OpensFacts
<1>4. PICK t : t = Merge(s, f)
    OBVIOUS
<1>5. /\ t \in Device /\ t.branch = Append(f.on, f.c) /\ t.armed = TRUE
      /\ t.base = s.base /\ t.used = s.used /\ t.hold = s.hold /\ t.disk = s.disk
    BY <1>1, <1>2, <1>4, MergeFields
<1>6. /\ t.branch \in Seq(Commit) /\ Len(t.branch) = Len(f.on) + 1
      /\ \A j \in 1 .. Len(f.on) : t.branch[j] = f.on[j]
      /\ ToSet(t.branch) = ToSet(f.on) \cup {f.c}
    BY <1>1, <1>5, AppendFacts
<1>7. SeatBase(t, N, i)
    BY <1>1, <1>4, MergeBase DEF NetInv, SeatInv
<1>12. ASSUME n \notin Z, i = 0 PROVE Author(n, t, N) /\ Yields(n, t, N)
    <2>1. Author(n, s, N) /\ Yields(n, s, N)
        BY <1>12 DEF SeatInv, SeatBase
    <2>2. Len(t.branch) >= Len(s.branch)
        BY <1>1, <1>2, <1>3, <1>6, DeviceFacts DEF MergesHere, Epoch
    <2>3. Author(n, t, N)
        <3>1. ASSUME NEW g \in CommitsOf(N), g.c.by = n PROVE Len(t.branch) > Len(g.on)
            <4>1. Len(s.branch) > Len(g.on)
                BY <2>1, <3>1 DEF Author
            <4>2. Len(g.on) \in Nat /\ Len(s.branch) \in Nat /\ Len(t.branch) \in Nat
                BY <1>1, <1>2, <1>5, FrameFacts, CommitFacts, DeviceFacts
            <4> QED BY <2>2, <4>1, <4>2
        <3> QED BY <3>1 DEF Author
    <2>4. ASSUME NEW a \in CommitsOf(N), NEW b \in CommitsOf(N),
                 a.c.by = n, a # b, a.on = b.on, CommitsOf(N) \subseteq {a, b},
                 t.branch = Append(b.on, b.c)
          PROVE  TheirsWin(a.c, b.c)
        <3>1. /\ a.c \in Commit /\ b.c \in Commit /\ a.on \in Seq(Commit) /\ b.on \in Seq(Commit)
            BY <1>1, FrameFacts, CommitFacts
        <3>2. f.on = b.on /\ f.c = b.c
            <4>1. Append(f.on, f.c) = Append(b.on, b.c)
                BY <1>5, <2>4
            <4>2. f.on \in Seq(Commit) /\ b.on \in Seq(Commit) /\ f.c \in Commit /\ b.c \in Commit
                BY <1>1, <3>1
            <4> QED BY <4>1, <4>2, SameBranch, SMTT(30)
        <3>3. Len(s.branch) > Len(a.on)
            BY <2>1, <2>4 DEF Author
        <3>4. f.on # s.branch
            BY <1>2, <1>3, <2>4, <3>2, <3>3, DeviceFacts
        <3>5. Len(f.on) = Len(s.branch) - 1 /\ TheirsWin(Last(s.branch), f.c)
            BY <3>4 DEF MergesHere, Epoch
        <3>6. PICK g \in CommitsOf(N) : g.c = Last(s.branch)
            <4>1. Made(s.branch, N) /\ Len(s.branch) \in Nat /\ Len(s.branch) \in 1 .. Len(s.branch)
                BY <1>2, <1>3, <3>5, DeviceFacts DEF SeatInv, SeatBase, Grounded
            <4> QED BY <4>1 DEF Made, Last
        <3>7. CASE g = a
            BY <3>2, <3>5, <3>6, <3>7
        <3>8. CASE g = b
            <4>1. TheirsWin(b.c, b.c)
                BY <3>2, <3>5, <3>6, <3>8
            <4> QED BY <3>1, <4>1, NotAgainstItself
        <3> QED BY <2>4, <3>6, <3>7, <3>8
    <2>5. Yields(n, t, N)
        BY <2>4 DEF Yields
    <2> QED BY <2>3, <2>5
<1> QED BY <1>4, <1>7, <1>12 DEF SeatInv

\* A frame that decrypts keeps the invariant of the seat.
LEMMA SpendInv ==
    ASSUME NEW N, NetInv(N), NEW n \in Member, NEW s, NEW i \in Nat, NEW Z,
           SeatInv(n, s, N, i, Z), NEW f \in N, Decrypts(s, n, f)
    PROVE  SeatInv(n, [s EXCEPT !.used = @ \cup {f}], N, i, Z)
<1>1. s \in Device /\ f \in AppFrame
    BY FrameFacts DEF NetInv, Decrypts, AppsOf, SeatInv, SeatBase
<1>2. PICK t : t = [s EXCEPT !.used = @ \cup {f}]
    OBVIOUS
<1>3. /\ t \in Device /\ t.branch = s.branch /\ t.armed = s.armed /\ t.base = s.base
      /\ t.hold = s.hold /\ t.disk = s.disk /\ t.used = s.used \cup {f}
    BY <1>1, <1>2, SpendFields
<1>4. Fit(t) /\ Grounded(t, N) /\ Rooted(t, i)
    BY <1>3 DEF SeatInv, SeatBase, Fit, Grounded, Rooted
<1>5. ASSUME n \notin Z, i = 0 PROVE Author(n, t, N) /\ Yields(n, t, N)
    BY <1>3, <1>5 DEF SeatInv, Author, Yields
<1> QED BY <1>2, <1>3, <1>4, <1>5 DEF SeatInv, SeatBase

\* How a seat moves while it takes frames: it keeps its base and its disk, and
\* neither its epoch nor what it has spent goes back.
Moves(s, t) ==
    /\ t.base = s.base /\ t.disk = s.disk
    /\ Len(t.branch) >= Len(s.branch) /\ s.used \subseteq t.used

\* An application frame of another seat was spent, unless its epoch is past.
Read(n, s, f) == f \in AppFrame /\ f.by # n => f \in s.used \/ Len(s.branch) > Len(f.on)

\* What was read stays read.
LEMMA ReadStays ==
    ASSUME NEW n, NEW s \in Device, NEW t \in Device, Moves(s, t),
           NEW f \in Frame, Read(n, s, f)
    PROVE  Read(n, t, f)
<1>1. Len(f.on) \in Nat
    BY DEF Frame, CommitFrame, AppFrame
<1> QED BY <1>1, DeviceFacts DEF Moves, Read

\* Moves is transitive.
LEMMA MovesOn ==
    ASSUME NEW s \in Device, NEW t \in Device, NEW u \in Device, Moves(s, t), Moves(t, u)
    PROVE  Moves(s, u)
BY DeviceFacts DEF Moves

\* What a seat that takes the frame f comes to.
Taken(n, st, N, i, Z, f, a) ==
    /\ SeatInv(n, a, N, i, Z) /\ Moves(st, a) /\ a.hold = st.hold
    /\ Read(n, a, f)

\* A frame that opens is taken.
LEMMA IngestFacts ==
    ASSUME NEW N, NetInv(N), NEW n \in Member, NEW st,
           NEW i \in Nat, NEW Z, SeatInv(n, st, N, i, Z),
           NEW f \in N, Opens(st, f), NEW a, a = Ingest(st, n, f)
    PROVE  Taken(n, st, N, i, Z, f, a)
<1>0. /\ st \in Device /\ N \subseteq Frame /\ f \in Frame /\ f.on \in Seq(Commit)
    BY FrameFacts DEF SeatInv, SeatBase, NetInv
<1>1. /\ Len(f.on) \in Nat /\ Len(f.on) <= Len(st.branch) /\ Len(st.branch) \in Nat
      /\ \A j \in 1 .. Len(f.on) : f.on[j] = st.branch[j]
    BY <1>0, OpensFacts, DeviceFacts
<1>2. CASE MergesHere(st, n, f)
    <2>1. f \in CommitsOf(N) /\ f \in CommitFrame /\ f \notin AppFrame
        BY <1>0, <1>2, FrameFacts, AppFacts DEF MergesHere, CommitsOf
    <2>2. PICK t : t = Merge(st, f)
        OBVIOUS
    <2>3. /\ t \in Device /\ t.branch = Append(f.on, f.c)
          /\ t.base = st.base /\ t.used = st.used /\ t.hold = st.hold /\ t.disk = st.disk
        BY <1>0, <2>1, <2>2, MergeFields
    <2>4. Ingest(st, n, f) = t
        BY <1>2, <2>2 DEF Ingest
    <2>6. SeatInv(n, t, N, i, Z)
        BY <1>0, <1>2, <2>1, <2>2, MergeInv
    <2>7. Len(t.branch) >= Len(st.branch)
        <3>1. Len(t.branch) = Len(f.on) + 1
            BY <1>0, <2>1, <2>3, CommitFacts, AppendFacts
        <3> QED BY <1>1, <1>2, <3>1 DEF MergesHere, Epoch
    <2> QED BY <2>1, <2>3, <2>4, <2>6, <2>7 DEF Moves, Read, Taken
<1>3. CASE ~MergesHere(st, n, f) /\ Decrypts(st, n, f)
    <2>1. f \in AppFrame
        BY <1>0, <1>3, FrameFacts DEF Decrypts, AppsOf
    <2>2. PICK t : t = [st EXCEPT !.used = @ \cup {f}]
        OBVIOUS
    <2>3. Ingest(st, n, f) = t
        BY <1>3, <2>2 DEF Ingest
    <2>4. SeatInv(n, t, N, i, Z)
        BY <1>0, <1>3, <2>2, SpendInv
    <2>5. /\ t.branch = st.branch /\ t.base = st.base /\ t.hold = st.hold /\ t.disk = st.disk
          /\ t.used = st.used \cup {f}
        BY <1>0, <2>1, <2>2, SpendFields
    <2> QED BY <1>1, <2>3, <2>4, <2>5 DEF Moves, Read, Taken
<1>4. CASE ~MergesHere(st, n, f) /\ ~Decrypts(st, n, f)
    <2>1. Ingest(st, n, f) = st
        BY <1>4 DEF Ingest
    <2>2. Moves(st, st)
        BY <1>1 DEF Moves
    <2>3. Read(n, st, f)
        <3>1. SUFFICES ASSUME f \in AppFrame, f.by # n, f \notin st.used
                       PROVE  Len(st.branch) > Len(f.on)
            BY DEF Read
        <3>2. f.on # st.branch
            BY <1>4, <3>1, AppFacts DEF Decrypts
        <3>3. Len(f.on) # Len(st.branch)
            BY <1>0, <1>1, <3>2, DeviceFacts, SeqEqual
        <3> QED BY <1>1, <3>3
    <2> QED BY <2>1, <2>2, <2>3 DEF Taken
<1> QED BY <1>2, <1>3, <1>4

\* What a seat is with another hold.
LEMMA HoldFields ==
    ASSUME NEW s \in Device, NEW h \in Seq(Frame)
    PROVE  LET t == [s EXCEPT !.hold = h]
           IN  /\ t \in Device /\ t.hold = h /\ t.branch = s.branch /\ t.armed = s.armed
               /\ t.base = s.base /\ t.used = s.used /\ t.disk = s.disk
BY DEF Device

\* The hold is no part of the invariant of a seat.
LEMMA HoldInv ==
    ASSUME NEW n, NEW s, NEW N, NEW i, NEW Z, SeatInv(n, s, N, i, Z),
           NEW h \in Seq(Frame)
    PROVE  SeatInv(n, [s EXCEPT !.hold = h], N, i, Z)
<1>1. PICK t : t = [s EXCEPT !.hold = h]
    OBVIOUS
<1>2. /\ t \in Device /\ t.hold = h /\ t.branch = s.branch /\ t.armed = s.armed
      /\ t.base = s.base /\ t.used = s.used /\ t.disk = s.disk
    BY <1>1, HoldFields DEF SeatInv, SeatBase
<1>3. SeatInv(n, t, N, i, Z)
    BY <1>2 DEF SeatInv, SeatBase, Fit, Grounded, Rooted, Author, Yields
<1> QED BY <1>1, <1>3

\* The same, with how the seat moved.
LEMMA HoldGood ==
    ASSUME NEW n, NEW st, NEW N, NEW i, NEW Z, SeatInv(n, st, N, i, Z),
           NEW h \in Seq(Frame), NEW t, t = [st EXCEPT !.hold = h]
    PROVE  /\ SeatInv(n, t, N, i, Z) /\ t.hold = h
           /\ t.branch = st.branch /\ t.base = st.base
           /\ Moves(st, t) /\ Moves(t, st)
<1>1. st \in Device
    BY DEF SeatInv, SeatBase
<1>2. /\ t \in Device /\ t.hold = h /\ t.branch = st.branch
      /\ t.base = st.base /\ t.used = st.used /\ t.disk = st.disk
    BY <1>1, HoldFields
<1>3. SeatInv(n, t, N, i, Z)
    BY HoldInv
<1>4. Moves(st, t) /\ Moves(t, st)
    BY <1>1, <1>2, DeviceFacts DEF Moves
<1> QED BY <1>2, <1>3, <1>4

-----------------------------------------------------------------------------
(***************************************************************************)
(* What a pass over the hold does.                                         *)
(***************************************************************************)

\* A pass that started with st, after the first k frames of the hold.
PassAt(n, st, N, i, Z, a, k) ==
    /\ a \in [s : Device, kept : Seq(Frame), progress : BOOLEAN]
    /\ SeatInv(n, a.s, N, i, Z) /\ a.s.hold = <<>> /\ Moves(st, a.s)
    /\ ToSet(a.kept) \subseteq ToSet(st.hold)
    /\ Len(a.kept) <= k /\ (a.progress => Len(a.kept) < k)
    /\ ~a.progress => /\ a.s = [st EXCEPT !.hold = <<>>]
                      /\ \A j \in 1 .. k : ~Opens(st, st.hold[j])
    /\ \A j \in 1 .. k : \/ st.hold[j] \in ToSet(a.kept)
                         \/ Read(n, a.s, st.hold[j])

\* One frame more.
LEMMA OfferStep ==
    ASSUME NEW N, NetInv(N), NEW n \in Member, NEW st,
           NEW i \in Nat, NEW Z, SeatInv(n, st, N, i, Z),
           ToSet(st.hold) \subseteq N,
           NEW k \in 1 .. Len(st.hold), NEW a, PassAt(n, st, N, i, Z, a, k - 1)
    PROVE  PassAt(n, st, N, i, Z, Offer(n, a, st.hold[k]), k)
<1>0. /\ st \in Device /\ st.hold \in Seq(Frame) /\ Len(st.hold) \in Nat
      /\ N \subseteq Frame
    BY DeviceFacts DEF SeatInv, SeatBase, NetInv
<1>1. PICK f : f = st.hold[k]
    OBVIOUS
<1>2. f \in ToSet(st.hold) /\ f \in N /\ f \in Frame
    BY <1>0, <1>1, ToSetFacts
<1>3. /\ a \in [s : Device, kept : Seq(Frame), progress : BOOLEAN]
      /\ SeatInv(n, a.s, N, i, Z) /\ a.s.hold = <<>> /\ Moves(st, a.s)
      /\ ToSet(a.kept) \subseteq ToSet(st.hold)
      /\ Len(a.kept) <= k - 1 /\ (a.progress => Len(a.kept) < k - 1)
      /\ \A j \in 1 .. k - 1 : st.hold[j] \in ToSet(a.kept) \/ Read(n, a.s, st.hold[j])
    BY DEF PassAt
<1>4. a.s \in Device /\ a.kept \in Seq(Frame) /\ Len(a.kept) \in Nat
    BY <1>3
<1>5. \A j \in 1 .. k : (j \in 1 .. k - 1 \/ j = k) /\ st.hold[j] \in Frame
    BY <1>0
<1>6. PICK b : b = Offer(n, a, f)
    OBVIOUS
<1>7. CASE Opens(a.s, f)
    <2>1. b = [s |-> Ingest(a.s, n, f), kept |-> a.kept, progress |-> TRUE]
        BY <1>6, <1>7 DEF Offer
    <2>2. PICK c : c = Ingest(a.s, n, f)
        OBVIOUS
    <2>3. /\ SeatInv(n, c, N, i, Z) /\ Moves(a.s, c) /\ c.hold = a.s.hold
          /\ Read(n, c, f)
        <3>1. PICK u : u = a.s
            OBVIOUS
        <3>2. SeatInv(n, u, N, i, Z) /\ Opens(u, f) /\ c = Ingest(u, n, f)
            BY <1>3, <1>7, <2>2, <3>1
        <3>3. Taken(n, u, N, i, Z, f, c)
            BY <1>2, <3>2, IngestFacts
        <3> QED BY <3>1, <3>3 DEF Taken
    <2>4. c \in Device
        BY <2>3 DEF SeatInv, SeatBase
    <2>5. b.s = c /\ b.kept = a.kept /\ b.progress = TRUE
          /\ b \in [s : Device, kept : Seq(Frame), progress : BOOLEAN]
        BY <1>4, <2>1, <2>2, <2>4
    <2>6. Moves(st, c)
        BY <1>0, <1>3, <1>4, <2>3, <2>4, MovesOn
    <2>7. ASSUME NEW j \in 1 .. k
          PROVE  st.hold[j] \in ToSet(b.kept) \/ Read(n, b.s, st.hold[j])
        <3>1. CASE j = k
            BY <1>1, <2>3, <2>5, <3>1
        <3>2. CASE j \in 1 .. k - 1
            BY <1>3, <1>4, <1>5, <2>3, <2>4, <2>5, <3>2, ReadStays
        <3> QED BY <1>5, <3>1, <3>2
    <2>8. Len(b.kept) <= k /\ Len(b.kept) < k
        BY <1>3, <1>4, <2>5
    <2>9. PassAt(n, st, N, i, Z, b, k)
        BY <1>3, <2>3, <2>5, <2>6, <2>7, <2>8 DEF PassAt
    <2> QED BY <1>1, <1>6, <2>9
<1>8. CASE ~Opens(a.s, f)
    <2>1. b = [a EXCEPT !.kept = Append(a.kept, f)]
        BY <1>3, <1>6, <1>8 DEF Offer
    <2>2. /\ Append(a.kept, f) \in Seq(Frame) /\ Len(Append(a.kept, f)) = Len(a.kept) + 1
          /\ ToSet(Append(a.kept, f)) = ToSet(a.kept) \cup {f}
        BY <1>2, <1>4, AppendFacts
    <2>3. b.s = a.s /\ b.kept = Append(a.kept, f) /\ b.progress = a.progress
          /\ b \in [s : Device, kept : Seq(Frame), progress : BOOLEAN]
        BY <1>3, <2>1, <2>2
    <2>4. ToSet(b.kept) \subseteq ToSet(st.hold)
        BY <1>2, <1>3, <2>2, <2>3
    <2>5. Len(b.kept) <= k /\ (b.progress => Len(b.kept) < k)
        BY <1>3, <1>4, <2>2, <2>3
    <2>6. ASSUME ~b.progress
          PROVE  /\ b.s = [st EXCEPT !.hold = <<>>]
                 /\ \A j \in 1 .. k : ~Opens(st, st.hold[j])
        <3>1. /\ a.s = [st EXCEPT !.hold = <<>>]
              /\ \A j \in 1 .. k - 1 : ~Opens(st, st.hold[j])
            BY <2>3, <2>6 DEF PassAt
        <3>2. a.s.branch = st.branch /\ a.s.base = st.base
            <4>0. PICK h : h = <<>>
                OBVIOUS
            <4>1. h \in Seq(Frame)
                BY <4>0
            <4>2. PICK u : u = a.s
                OBVIOUS
            <4>3. u = [st EXCEPT !.hold = h]
                BY <3>1, <4>0, <4>2
            <4>4. u.branch = st.branch /\ u.base = st.base
                BY <4>1, <4>3, HoldGood
            <4> QED BY <4>2, <4>4
        <3>3. ~Opens(st, f)
            BY <1>8, <3>2 DEF Opens, Epoch
        <3> QED BY <1>1, <1>5, <2>3, <3>1, <3>3
    <2>7. ASSUME NEW j \in 1 .. k
          PROVE  st.hold[j] \in ToSet(b.kept) \/ Read(n, b.s, st.hold[j])
        BY <1>1, <1>3, <1>5, <2>2, <2>3
    <2>8. PassAt(n, st, N, i, Z, b, k)
        BY <1>3, <2>3, <2>4, <2>5, <2>6, <2>7 DEF PassAt
    <2> QED BY <1>1, <1>6, <2>8
<1> QED BY <1>7, <1>8

\* The whole pass.
LEMMA PassFacts ==
    ASSUME NEW N, NetInv(N), NEW n \in Member, NEW st,
           NEW i \in Nat, NEW Z, SeatInv(n, st, N, i, Z),
           ToSet(st.hold) \subseteq N
    PROVE  PassAt(n, st, N, i, Z, Pass(st, n), Len(st.hold))
<1>0. st \in Device /\ st.hold \in Seq(Frame) /\ Len(st.hold) \in Nat
    BY DeviceFacts DEF SeatInv, SeatBase
<1>1. PICK r : PassRun(n, PassStart(st), st.hold, r) /\ Pass(st, n) = r[Len(st.hold)]
    <2>1. PICK L : L = st.hold
        OBVIOUS
    <2>2. PICK u : u = PassStart(st)
        OBVIOUS
    <2>3. Pass(st, n) = (CHOOSE f : Passing(n, u, L, f, SUBSET DOMAIN L))[DOMAIN L]
        BY <2>1, <2>2, PassingUnfolds
    <2>4. L \in Seq(Frame)
        BY <1>0, <2>1
    <2>5. PICK r : /\ PassRun(n, u, L, r)
                   /\ r[Len(L)] = (CHOOSE f : Passing(n, u, L, f, SUBSET DOMAIN L))[DOMAIN L]
        BY <2>4, PassRunExists
    <2> QED BY <2>1, <2>2, <2>3, <2>5
<1>2. PassAt(n, st, N, i, Z, r[0], 0)
    <2>1. <<>> \in Seq(Frame) /\ Len(<<>>) = 0 /\ ToSet(<<>>) = {}
        BY DEF ToSet
    <2>2. PICK t : t = [st EXCEPT !.hold = <<>>]
        OBVIOUS
    <2>3. SeatInv(n, t, N, i, Z) /\ t.hold = <<>> /\ Moves(st, t)
        <3>1. PICK h : h = <<>>
            OBVIOUS
        <3>2. h \in Seq(Frame) /\ t = [st EXCEPT !.hold = h]
            BY <2>2, <3>1
        <3>3. SeatInv(n, t, N, i, Z) /\ t.hold = h /\ Moves(st, t)
            BY <3>2, HoldGood
        <3> QED BY <3>1, <3>3
    <2>4. r[0] = [s |-> t, kept |-> <<>>, progress |-> FALSE]
        BY <1>1, <2>2 DEF PassRun, PassStart
    <2>5. r[0].s = t /\ r[0].kept = <<>> /\ r[0].progress = FALSE
          /\ r[0] \in [s : Device, kept : Seq(Frame), progress : BOOLEAN]
        BY <2>1, <2>3, <2>4 DEF SeatInv, SeatBase
    <2> QED BY <2>1, <2>2, <2>3, <2>5 DEF PassAt
<1> DEFINE Bad == {k \in 0 .. Len(st.hold) : ~PassAt(n, st, N, i, Z, r[k], k)}
<1>3. Bad = {}
    <2>1. SUFFICES ASSUME Bad # {} PROVE FALSE
        OBVIOUS
    <2>2. PICK k \in Bad : \A j \in Bad : k <= j
        <3>1. Bad \in SUBSET Nat
            BY <1>0
        <3> HIDE DEF Bad
        <3> QED BY <2>1, <3>1, LeastNat
    <2>3. k \in 0 .. Len(st.hold) /\ k # 0 /\ ~PassAt(n, st, N, i, Z, r[k], k)
        BY <1>2, <2>2
    <2>4. k - 1 \in 0 .. Len(st.hold) /\ k - 1 \notin Bad /\ k \in 1 .. Len(st.hold)
        <3> HIDE DEF Bad
        <3> QED BY <1>0, <2>2, <2>3
    <2>5. PassAt(n, st, N, i, Z, r[k - 1], k - 1)
        BY <2>4
    <2>6. r[k] = Offer(n, r[k - 1], st.hold[k])
        BY <1>1, <2>4 DEF PassRun
    <2>7. PassAt(n, st, N, i, Z, Offer(n, r[k - 1], st.hold[k]), k)
        <3> HIDE DEF Bad
        <3> QED BY <2>4, <2>5, OfferStep
    <2> QED BY <2>3, <2>6, <2>7
<1>4. Len(st.hold) \in 0 .. Len(st.hold)
    BY <1>0
<1> QED BY <1>1, <1>3, <1>4

-----------------------------------------------------------------------------
(***************************************************************************)
(* What the drain does.                                                    *)
(***************************************************************************)

\* The drain that started with st, after k rounds.
DrainAt(n, st, N, i, Z, d, k) ==
    /\ d \in [s : Device, gaveUp : SUBSET Frame, done : BOOLEAN]
    /\ SeatInv(n, d.s, N, i, Z) /\ Moves(st, d.s)
    /\ ToSet(d.s.hold) \subseteq N /\ d.gaveUp \subseteq N
    /\ d.done => /\ d.s.hold = <<>>
                 /\ \A f \in d.gaveUp : ~Opens(d.s, f)
                 /\ \A f \in ToSet(st.hold) : f \in d.gaveUp \/ Read(n, d.s, f)
    /\ ~d.done => /\ Len(d.s.hold) + k <= Len(st.hold)
                  /\ \A f \in ToSet(st.hold) :
                        f \in ToSet(d.s.hold) \/ Read(n, d.s, f)

\* One round more.
LEMMA RoundStep ==
    ASSUME NEW N, NetInv(N), NEW n \in Member, NEW st,
           NEW i \in Nat, NEW Z, SeatInv(n, st, N, i, Z),
           ToSet(st.hold) \subseteq N,
           NEW k \in Nat, NEW d, DrainAt(n, st, N, i, Z, d, k)
    PROVE  DrainAt(n, st, N, i, Z, Round(n, d), k + 1)
<1>0. /\ st \in Device /\ st.hold \in Seq(Frame) /\ Len(st.hold) \in Nat
      /\ N \subseteq Frame /\ \A f \in ToSet(st.hold) : f \in Frame
    BY DeviceFacts DEF SeatInv, SeatBase, NetInv
<1>1. /\ d \in [s : Device, gaveUp : SUBSET Frame, done : BOOLEAN]
      /\ SeatInv(n, d.s, N, i, Z) /\ Moves(st, d.s)
      /\ ToSet(d.s.hold) \subseteq N /\ d.gaveUp \subseteq N
    BY DEF DrainAt
<1>2. CASE d.done
    <2>1. Round(n, d) = d
        BY <1>2 DEF Round
    <2> QED BY <1>2, <2>1 DEF DrainAt
<1>3. CASE ~d.done
    <2>1. /\ Len(d.s.hold) + k <= Len(st.hold)
          /\ \A f \in ToSet(st.hold) : f \in ToSet(d.s.hold) \/ Read(n, d.s, f)
        BY <1>3 DEF DrainAt
    <2>2. PICK L : L = Len(d.s.hold)
        OBVIOUS
    <2>3. PICK a : a = Pass(d.s, n)
        OBVIOUS
    <2>4. PassAt(n, d.s, N, i, Z, a, L)
        BY <1>1, <2>2, <2>3, PassFacts
    <2>5. /\ a \in [s : Device, kept : Seq(Frame), progress : BOOLEAN]
          /\ SeatInv(n, a.s, N, i, Z) /\ a.s.hold = <<>> /\ Moves(d.s, a.s)
          /\ ToSet(a.kept) \subseteq ToSet(d.s.hold)
          /\ (a.progress => Len(a.kept) < L)
          /\ \A j \in 1 .. L : d.s.hold[j] \in ToSet(a.kept) \/ Read(n, a.s, d.s.hold[j])
        BY <2>4 DEF PassAt
    <2>6. /\ a.kept \in Seq(Frame) /\ Len(a.kept) \in Nat /\ a.s \in Device
          /\ d.s \in Device /\ d.s.hold \in Seq(Frame) /\ L \in Nat
        BY <1>1, <2>2, <2>5, DeviceFacts
    <2>7. Moves(st, a.s)
        BY <1>0, <1>1, <2>5, <2>6, MovesOn
    <2>8. ASSUME NEW f \in ToSet(st.hold) PROVE f \in ToSet(a.kept) \/ Read(n, a.s, f)
        <3>1. CASE Read(n, d.s, f)
            BY <1>0, <2>5, <2>6, <3>1, ReadStays
        <3>2. CASE f \in ToSet(d.s.hold)
            <4>1. PICK j \in 1 .. Len(d.s.hold) : d.s.hold[j] = f
                BY <2>6, <3>2, ToSetFacts
            <4> QED BY <2>2, <2>5, <4>1
        <3> QED BY <2>1, <3>1, <3>2
    <2>9. ToSet(a.kept) \subseteq N /\ ToSet(a.kept) \in SUBSET Frame
        BY <1>0, <1>1, <2>5
    <2>10. CASE a.progress
        <3>1. PICK t : t = [a.s EXCEPT !.hold = a.kept]
            OBVIOUS
        <3>2. /\ SeatInv(n, t, N, i, Z) /\ t.hold = a.kept
              /\ Moves(a.s, t) /\ t.branch = a.s.branch
            <4>1. PICK u : u = a.s
                OBVIOUS
            <4>2. PICK h : h = a.kept
                OBVIOUS
            <4>3. t = [u EXCEPT !.hold = h] /\ SeatInv(n, u, N, i, Z) /\ h \in Seq(Frame)
                BY <2>5, <2>6, <3>1, <4>1, <4>2
            <4>4. /\ SeatInv(n, t, N, i, Z) /\ t.hold = h
                  /\ Moves(u, t) /\ t.branch = u.branch
                BY <4>3, HoldGood
            <4> QED BY <4>1, <4>2, <4>4
        <3>3. t \in Device
            BY <3>2 DEF SeatInv, SeatBase
        <3>4. PICK e : e = Round(n, d)
            OBVIOUS
        <3>5. e = [d EXCEPT !.s = t]
            BY <1>3, <2>3, <2>10, <3>1, <3>4 DEF Round
        <3>6. e.s = t /\ e.gaveUp = d.gaveUp /\ e.done = d.done
              /\ e \in [s : Device, gaveUp : SUBSET Frame, done : BOOLEAN]
            BY <1>1, <3>3, <3>5
        <3>7. Moves(st, t)
            BY <1>0, <2>6, <2>7, <3>2, <3>3, MovesOn
        <3>8. \A f \in ToSet(st.hold) : f \in ToSet(t.hold) \/ Read(n, t, f)
            BY <1>0, <2>6, <2>8, <3>2, <3>3, ReadStays
        <3>9. Len(t.hold) + (k + 1) <= Len(st.hold)
            BY <1>0, <2>1, <2>2, <2>5, <2>6, <2>10, <3>2
        <3>10. DrainAt(n, st, N, i, Z, e, k + 1)
            BY <1>1, <1>3, <2>9, <3>2, <3>6, <3>7, <3>8, <3>9 DEF DrainAt
        <3> QED BY <3>4, <3>10
    <2>11. CASE ~a.progress
        <3>1. PICK e : e = Round(n, d)
            OBVIOUS
        <3>2. e = [s |-> a.s, gaveUp |-> ToSet(a.kept), done |-> TRUE]
            BY <1>3, <2>3, <2>11, <3>1 DEF Round
        <3>3. e.s = a.s /\ e.gaveUp = ToSet(a.kept) /\ e.done = TRUE
              /\ e \in [s : Device, gaveUp : SUBSET Frame, done : BOOLEAN]
            BY <2>5, <2>9, <3>2
        <3>4. /\ a.s = [d.s EXCEPT !.hold = <<>>]
              /\ \A j \in 1 .. L : ~Opens(d.s, d.s.hold[j])
            BY <2>4, <2>11 DEF PassAt
        <3>5. a.s.branch = d.s.branch /\ a.s.base = d.s.base
            <4>0. PICK h : h = <<>>
                OBVIOUS
            <4>1. h \in Seq(Frame)
                BY <4>0
            <4>2. PICK u : u = a.s
                OBVIOUS
            <4>3. PICK w : w = d.s
                OBVIOUS
            <4>4. u = [w EXCEPT !.hold = h] /\ SeatInv(n, w, N, i, Z)
                BY <1>1, <3>4, <4>0, <4>2, <4>3
            <4>5. u.branch = w.branch /\ u.base = w.base
                BY <4>1, <4>4, HoldGood
            <4> QED BY <4>2, <4>3, <4>5
        <3>6. ASSUME NEW f \in ToSet(a.kept) PROVE ~Opens(a.s, f)
            <4>1. PICK j \in 1 .. Len(d.s.hold) : d.s.hold[j] = f
                BY <2>5, <2>6, ToSetFacts
            <4>2. ~Opens(d.s, f)
                BY <2>2, <3>4, <4>1
            <4> QED BY <3>5, <4>2 DEF Opens, Epoch
        <3>7. ToSet(a.s.hold) \subseteq N
            BY <2>5 DEF ToSet
        <3>8. DrainAt(n, st, N, i, Z, e, k + 1)
            BY <2>5, <2>7, <2>8, <2>9, <3>3, <3>6, <3>7 DEF DrainAt
        <3> QED BY <3>1, <3>8
    <2> QED BY <2>10, <2>11
<1> QED BY <1>1, <1>2, <1>3

\* The whole drain: it ends with an empty hold.
LEMMA DrainFacts ==
    ASSUME NEW N, NetInv(N), NEW n \in Member, NEW st,
           NEW i \in Nat, NEW Z, SeatInv(n, st, N, i, Z),
           ToSet(st.hold) \subseteq N
    PROVE  LET d == DrainUntilNoProgress(st, n)
           IN  /\ DrainAt(n, st, N, i, Z, d, Len(st.hold) + 1) /\ d.done
<1>0. st \in Device /\ st.hold \in Seq(Frame) /\ Len(st.hold) \in Nat
    BY DeviceFacts DEF SeatInv, SeatBase
<1>1. PICK M : M = Len(st.hold) + 1
    OBVIOUS
<1>2. Ticks(st) \in Seq(Nat) /\ Len(Ticks(st)) = M /\ M \in Nat
    BY <1>0, <1>1 DEF Ticks
<1>3. PICK r : DrainRun(n, DrainStart(st), Ticks(st), r) /\ DrainUntilNoProgress(st, n) = r[M]
    BY <1>2, DrainingUnfolds, DrainRunExists
<1>4. DrainAt(n, st, N, i, Z, r[0], 0)
    <2>1. r[0] = [s |-> st, gaveUp |-> {}, done |-> FALSE]
        BY <1>3 DEF DrainRun, DrainStart
    <2>2. r[0].s = st /\ r[0].gaveUp = {} /\ r[0].done = FALSE
          /\ r[0] \in [s : Device, gaveUp : SUBSET Frame, done : BOOLEAN]
        BY <1>0, <2>1
    <2>3. Moves(st, st)
        BY <1>0, DeviceFacts DEF Moves
    <2>4. Len(st.hold) + 0 <= Len(st.hold)
        BY <1>0
    <2> QED BY <2>2, <2>3, <2>4 DEF DrainAt
<1> DEFINE Bad == {k \in 0 .. M : ~DrainAt(n, st, N, i, Z, r[k], k)}
<1>5. Bad = {}
    <2>1. SUFFICES ASSUME Bad # {} PROVE FALSE
        OBVIOUS
    <2>2. PICK k \in Bad : \A j \in Bad : k <= j
        <3>1. Bad \in SUBSET Nat
            BY <1>2
        <3> HIDE DEF Bad
        <3> QED BY <2>1, <3>1, LeastNat
    <2>3. k \in 0 .. M /\ k # 0 /\ ~DrainAt(n, st, N, i, Z, r[k], k)
        BY <1>4, <2>2
    <2>4. k - 1 \in 0 .. M /\ k - 1 \notin Bad /\ k \in 1 .. M /\ k - 1 \in Nat /\ (k - 1) + 1 = k
        <3> HIDE DEF Bad
        <3> QED BY <1>2, <2>2, <2>3
    <2>5. DrainAt(n, st, N, i, Z, r[k - 1], k - 1)
        BY <2>4
    <2>6. r[k] = Round(n, r[k - 1])
        BY <1>2, <1>3, <2>4 DEF DrainRun
    <2>7. DrainAt(n, st, N, i, Z, Round(n, r[k - 1]), (k - 1) + 1)
        <3> HIDE DEF Bad
        <3> QED BY <2>4, <2>5, RoundStep
    <2> QED BY <2>3, <2>4, <2>6, <2>7
<1>6. M \in 0 .. M
    BY <1>2
<1>7. PICK d : d = r[M]
    OBVIOUS
<1>8. DrainAt(n, st, N, i, Z, d, M)
    BY <1>5, <1>6, <1>7
<1>9. d.done
    <2>1. SUFFICES ASSUME ~d.done PROVE FALSE
        OBVIOUS
    <2>2. Len(d.s.hold) + M <= Len(st.hold)
        BY <1>8, <2>1 DEF DrainAt
    <2>3. d.s.hold \in Seq(Frame)
        BY <1>8 DEF DrainAt, Device
    <2>4. Len(d.s.hold) \in Nat
        BY <2>3
    <2>5. PICK x : x = Len(d.s.hold)
        OBVIOUS
    <2>6. PICK y : y = Len(st.hold)
        OBVIOUS
    <2>7. x \in Nat /\ y \in Nat /\ x + (y + 1) <= y
        BY <1>0, <1>1, <2>2, <2>4, <2>5, <2>6
    <2> HIDE DEF Bad
    <2> QED BY <2>7
<1> QED BY <1>1, <1>3, <1>7, <1>8, <1>9

-----------------------------------------------------------------------------
(***************************************************************************)
(* New frames on the relays.                                               *)
(***************************************************************************)

\* A commit with a digest of its own is in no branch that was made before it.
LEMMA FreshNotIn ==
    ASSUME NEW N, NEW b \in Seq(Commit), Made(b, N), NEW c,
           \A f \in CommitsOf(N) : f.c.d # c.d
    PROVE  c \notin ToSet(b)
<1>1. SUFFICES ASSUME c \in ToSet(b) PROVE FALSE
    OBVIOUS
<1>2. PICK k \in 1 .. Len(b) : b[k] = c
    BY <1>1, ToSetFacts
<1>3. PICK f \in CommitsOf(N) : f.c = b[k]
    BY <1>2 DEF Made
<1> QED BY <1>2, <1>3

\* What was made stays made.
LEMMA MadeMore ==
    ASSUME NEW N, NEW M, N \subseteq M, NEW b, Made(b, N)
    PROVE  Made(b, M)
BY DEF Made, CommitsOf

\* A seat keeps its invariant when frames are added, but for what it says of
\* committers.
LEMMA BaseMore ==
    ASSUME NEW N, NEW M, N \subseteq M, NEW s, NEW i, SeatBase(s, N, i)
    PROVE  SeatBase(s, M, i)
<1>2. Grounded(s, M)
    BY MadeMore DEF SeatBase, Grounded
<1> QED BY <1>2 DEF SeatBase

\* An application frame changes nothing for anybody.
LEMMA AppMore ==
    ASSUME NEW N, NEW g, g.k = "app", NEW n, NEW s, NEW i, NEW Z,
           SeatInv(n, s, N, i, Z)
    PROVE  SeatInv(n, s, N \cup {g}, i, Z)
<1>1. CommitsOf(N \cup {g}) = CommitsOf(N)
    BY DEF CommitsOf
<1>2. SeatBase(s, N \cup {g}, i)
    BY BaseMore DEF SeatInv
<1> QED BY <1>1, <1>2 DEF SeatInv, Author, Yields

\* Nor does a new commit for the seats that did not make it.
LEMMA CommitMore ==
    ASSUME NEW N, N \subseteq Frame, NEW g \in CommitFrame, g \notin N,
           \A f \in CommitsOf(N) : f.c.d # g.c.d,
           NEW n, n # g.c.by, NEW s, NEW i, NEW Z, SeatInv(n, s, N, i, Z)
    PROVE  SeatInv(n, s, N \cup {g}, i, Z)
<1>1. CommitsOf(N \cup {g}) = CommitsOf(N) \cup {g}
    BY CommitFacts DEF CommitsOf
<1>2. SeatBase(s, N \cup {g}, i)
    BY BaseMore DEF SeatInv
<1>3. ASSUME n \notin Z, i = 0 PROVE Author(n, s, N \cup {g})
    BY <1>1, <1>3 DEF SeatInv, Author
<1>4. ASSUME n \notin Z, i = 0,
             NEW a \in CommitsOf(N \cup {g}), NEW b \in CommitsOf(N \cup {g}),
             a.c.by = n, a # b, a.on = b.on, CommitsOf(N \cup {g}) \subseteq {a, b},
             s.branch = Append(b.on, b.c)
      PROVE  TheirsWin(a.c, b.c)
    <2>1. b = g
        BY <1>1, <1>4
    <2>2. g.on \in Seq(Commit) /\ g.c \in Commit /\ s.branch \in Seq(Commit)
        BY CommitFacts, DeviceFacts DEF SeatInv, SeatBase
    <2>3. g.c \in ToSet(s.branch)
        BY <1>4, <2>1, <2>2, AppendFacts
    <2>4. Made(s.branch, N)
        BY DEF SeatInv, SeatBase, Grounded
    <2> QED BY <2>2, <2>3, <2>4, FreshNotIn
<1>5. ASSUME n \notin Z, i = 0 PROVE Yields(n, s, N \cup {g})
    BY <1>4, <1>5 DEF Yields
<1> QED BY <1>2, <1>3, <1>5 DEF SeatInv

\* The seat that makes a commit merges it at once.
LEMMA OwnCommit ==
    ASSUME NEW N, NetInv(N), NEW g \in CommitFrame, g \notin N,
           \A f \in CommitsOf(N) : f.c.d # g.c.d,
           NEW n \in Member, n = g.c.by, NEW s, g.on = s.branch, NEW i \in Nat, NEW Z,
           SeatInv(n, s, N, i, Z)
    PROVE  SeatInv(n, Merge(s, g), N \cup {g}, i, Z)
<1>0. /\ s \in Device /\ s.branch \in Seq(Commit) /\ Len(s.branch) \in Nat /\ g \in Frame
      /\ g.on \in Seq(Commit) /\ g.c \in Commit /\ N \subseteq Frame /\ g.k = "commit"
      /\ s.base \in Nat
    BY CommitFacts, DeviceFacts DEF SeatInv, SeatBase, NetInv, Frame
<1>1. PICK M : M = N \cup {g}
    OBVIOUS
<1>2. M \subseteq Frame /\ N \subseteq M /\ CommitsOf(M) = CommitsOf(N) \cup {g} /\ g \in CommitsOf(M)
    BY <1>0, <1>1 DEF CommitsOf
<1>3. SeatBase(s, M, i)
    BY <1>2, BaseMore DEF SeatInv
<1>4. Made(s.branch, N)
    BY DEF SeatInv, SeatBase, Grounded
<1>5. \A f \in M : Made(f.on, M)
    <2>1. ASSUME NEW f \in M PROVE Made(f.on, N)
        BY <1>1, <1>4 DEF NetInv
    <2> QED BY <1>2, <2>1, MadeMore
<1>6. Opens(s, g)
    <2>1. IsPrefix(g.on, s.branch)
        BY <1>0, PrefixFacts
    <2>2. Len(s.branch) >= s.base
        BY DEF SeatInv, SeatBase, Fit
    <2> QED BY <1>0, <2>1, <2>2, EpochsAssumption DEF Opens, Epoch
<1>7. SeatBase(Merge(s, g), M, i)
    BY <1>2, <1>3, <1>5, <1>6, MergeBase
<1>8. PICK t : t = Merge(s, g)
    OBVIOUS
<1>9. t \in Device /\ t.branch = Append(g.on, g.c) /\ Len(t.branch) = Len(s.branch) + 1
    <2>1. t \in Device /\ t.branch = Append(g.on, g.c)
        BY <1>0, <1>8, MergeFields
    <2>2. Len(Append(g.on, g.c)) = Len(g.on) + 1
        BY <1>0, AppendFacts
    <2> QED BY <2>1, <2>2
<1>10. ASSUME n \notin Z, i = 0 PROVE Author(n, t, M)
    <2>1. ASSUME NEW f \in CommitsOf(M), f.c.by = n PROVE Len(t.branch) > Len(f.on)
        <3>0. Len(f.on) \in Nat
            BY <1>2, FrameFacts
        <3>1. CASE f = g
            BY <1>0, <1>9, <3>1
        <3>2. CASE f # g
            <4>1. Len(s.branch) > Len(f.on)
                BY <1>2, <1>10, <2>1, <3>2 DEF SeatInv, Author
            <4> QED BY <1>0, <1>9, <3>0, <4>1
        <3> QED BY <3>1, <3>2
    <2> QED BY <2>1 DEF Author
<1>11. ASSUME n \notin Z, i = 0,
              NEW a \in CommitsOf(M), NEW b \in CommitsOf(M),
              a.c.by = n, a # b, a.on = b.on, CommitsOf(M) \subseteq {a, b},
              t.branch = Append(b.on, b.c)
       PROVE  TheirsWin(a.c, b.c)
    <2>1. a.c \in Commit /\ b.c \in Commit /\ b.on \in Seq(Commit)
        BY <1>2, FrameFacts, CommitFacts
    <2>2. Append(b.on, b.c) = Append(g.on, g.c)
        BY <1>9, <1>11
    <2>3. b.on = g.on /\ b.c = g.c
        <3>1. g.on \in Seq(Commit) /\ g.c \in Commit
            BY <1>0
        <3> QED BY <2>1, <2>2, <3>1, SameBranch, SMTT(30)
    <2>4. b = g
        BY <1>2, <2>3
    <2>5. a \in CommitsOf(N)
        BY <1>2, <1>11, <2>4
    <2>6. Len(s.branch) > Len(a.on)
        BY <1>11, <2>5 DEF SeatInv, Author
    <2> QED BY <1>0, <1>11, <2>3, <2>6
<1>12. ASSUME n \notin Z, i = 0 PROVE Yields(n, t, M)
    BY <1>11, <1>12 DEF Yields
<1> QED BY <1>1, <1>7, <1>8, <1>10, <1>12 DEF SeatInv

\* A new commit keeps the invariant of the relays.
LEMMA NetCommit ==
    ASSUME NEW N, NetInv(N), NEW g \in CommitFrame, g \notin N,
           \A f \in CommitsOf(N) : f.c.d # g.c.d, Made(g.on, N)
    PROVE  NetInv(N \cup {g})
<1>1. PICK M : M = N \cup {g}
    OBVIOUS
<1>2. /\ N \subseteq Frame /\ g \in Frame /\ g.k = "commit"
    BY CommitFacts DEF NetInv, Frame
<1>3. /\ M \subseteq Frame /\ IsFiniteSet(M) /\ N \subseteq M
      /\ CommitsOf(M) = CommitsOf(N) \cup {g} /\ AppsOf(M) = AppsOf(N)
    <2>1. IsFiniteSet(M)
        BY <1>1, FS_AddElement DEF NetInv
    <2> QED BY <1>1, <1>2, <2>1 DEF CommitsOf, AppsOf
<1>4. \A f \in M : Made(f.on, M)
    <2>1. ASSUME NEW f \in M PROVE Made(f.on, N)
        BY <1>1 DEF NetInv
    <2> QED BY <1>3, <2>1, MadeMore
<1>5. Distinct(M)
    BY <1>3 DEF NetInv, Distinct
<1> QED BY <1>1, <1>3, <1>4, <1>5 DEF NetInv

\* So does a new application frame.
LEMMA NetApp ==
    ASSUME NEW N, NetInv(N), NEW g \in AppFrame, Made(g.on, N)
    PROVE  NetInv(N \cup {g})
<1>1. PICK M : M = N \cup {g}
    OBVIOUS
<1>2. /\ N \subseteq Frame /\ g \in Frame /\ g.k = "app"
    BY AppFacts DEF NetInv, Frame
<1>3. /\ M \subseteq Frame /\ IsFiniteSet(M) /\ N \subseteq M
      /\ CommitsOf(M) = CommitsOf(N) /\ AppsOf(M) = AppsOf(N) \cup {g}
    <2>1. IsFiniteSet(M)
        BY <1>1, FS_AddElement DEF NetInv
    <2> QED BY <1>1, <1>2, <2>1 DEF CommitsOf, AppsOf
<1>4. \A f \in M : Made(f.on, M)
    <2>1. ASSUME NEW f \in M PROVE Made(f.on, N)
        BY <1>1 DEF NetInv
    <2> QED BY <1>3, <2>1, MadeMore
<1>5. Distinct(M)
    BY <1>3 DEF NetInv, Distinct
<1> QED BY <1>1, <1>3, <1>4, <1>5 DEF NetInv

-----------------------------------------------------------------------------
(***************************************************************************)
(* The invariant is kept: one lemma per action.                            *)
(***************************************************************************)

\* The parts of the invariant at one seat.
LEMMA SeatFacts ==
    ASSUME IInv, NEW n \in Member
    PROVE  /\ node[n] \in Device /\ SeatInv(n, node[n], net, inc[n], killed)
           /\ inc[n] \in Nat
           /\ lost[n] \in SUBSET Frame /\ lost[n] \subseteq net
           /\ node[n].hold \in Seq(Frame) /\ Len(node[n].hold) \in Nat
           /\ ToSet(node[n].hold) \subseteq net /\ Len(node[n].hold) <= HoldMax
           /\ node[n].branch \in Seq(Commit) /\ Made(node[n].branch, net)
           /\ NetInv(net) /\ net \subseteq Frame
<1>1. node[n] \in Device /\ SeatInv(n, node[n], net, inc[n], killed)
    BY DEF IInv, Types, Seated
<1>2. /\ inc[n] \in Nat
      /\ lost[n] \in SUBSET Frame /\ lost[n] \subseteq net
    BY <1>1 DEF IInv, Types, Kept, SeatInv, SeatBase
<1>3. /\ node[n].hold \in Seq(Frame) /\ Len(node[n].hold) \in Nat
      /\ node[n].branch \in Seq(Commit) /\ Made(node[n].branch, net)
    BY <1>1, DeviceFacts DEF SeatInv, SeatBase, Grounded
<1>4. ToSet(node[n].hold) \subseteq net /\ Len(node[n].hold) <= HoldMax
    BY DEF IInv, Kept
<1> QED BY <1>1, <1>2, <1>3, <1>4 DEF IInv, NetInv

\* The first state.
LEMMA InitInv == Init => IInv
<1>1. SUFFICES ASSUME Init PROVE IInv
    OBVIOUS
<1>2. PICK dv : dv = [NewDevice(<<>>) EXCEPT !.base = 0]
    OBVIOUS
<1>3. <<>> \in Seq(Commit) /\ <<>> \in Seq(Frame) /\ Len(<<>>) = 0
    OBVIOUS
<1>5. /\ dv.branch = <<>> /\ dv.armed = FALSE /\ dv.base = 0 /\ dv.used = {} /\ dv.hold = <<>>
      /\ dv.disk = [branch |-> <<>>, armed |-> FALSE, used |-> {}]
    BY <1>2 DEF NewDevice
<1>6. dv \in Device
    <2>1. dv = [branch |-> <<>>, armed |-> FALSE, base |-> 0, used |-> {}, hold |-> <<>>,
                disk |-> [branch |-> <<>>, armed |-> FALSE, used |-> {}]]
        BY <1>2 DEF NewDevice
    <2>2. [branch |-> <<>>, armed |-> FALSE, used |-> {}]
            \in [branch : Seq(Commit), armed : BOOLEAN, used : SUBSET AppFrame]
        BY <1>3
    <2> QED BY <1>3, <2>1, <2>2 DEF Device
<1>7. /\ node = [n \in Member |-> dv] /\ gone = Down /\ inc = [n \in Member |-> 0]
      /\ net = {} /\ lost = [n \in Member |-> {}]
      /\ loses = 0 /\ killed = {}
    BY <1>1, <1>2 DEF Init
<1>8. Types
    BY <1>6, <1>7, EpochsAssumption DEF Types
<1>9. Kept
    BY <1>3, <1>5, <1>7, EpochsAssumption DEF Kept, ToSet
<1>10. NetInv(net)
    BY <1>7, FS_EmptySet DEF NetInv, Distinct, CommitsOf
<1>11. Seated
    <2>1. Made(dv.branch, {}) /\ Made(dv.disk.branch, {})
        BY <1>3, <1>5 DEF Made
    <2>2. Fit(dv) /\ Grounded(dv, {})
        BY <1>3, <1>5, <2>1 DEF Fit, Grounded
    <2>3. Rooted(dv, 0)
        BY <1>5 DEF Rooted
    <2>5. \A n \in Member : Author(n, dv, {}) /\ Yields(n, dv, {})
        BY DEF Author, Yields, CommitsOf
    <2>6. ASSUME NEW n \in Member PROVE SeatInv(n, dv, {}, 0, {})
        BY <1>6, <2>2, <2>3, <2>5 DEF SeatInv, SeatBase
    <2> QED BY <1>7, <2>6 DEF Seated
<1> QED BY <1>8, <1>9, <1>10, <1>11 DEF IInv

\* Send.
LEMMA SendInv ==
    ASSUME IInv, NEW n \in Member, Send(n)
    PROVE  IInv'
<1>1. PICK g : g = [k |-> "app", by |-> n, no |-> Cardinality(Frames) + 1, on |-> node[n].branch]
    OBVIOUS
<1>2. net' = net \cup {g} /\ UNCHANGED <<node, gone, inc, lost, loses, killed>>
    BY <1>1 DEF Send
<1>3. g \in AppFrame /\ g.k = "app" /\ g.on = node[n].branch
    <2>1. IsFiniteSet(net) /\ Frames \subseteq net
        BY DEF IInv, NetInv, Frames
    <2>2. Cardinality(Frames) + 1 \in Nat
        BY <2>1, FS_Subset, FS_CardinalityType
    <2> QED BY <1>1, <2>2, SeatFacts DEF AppFrame
<1>4. Types' /\ Kept'
    BY <1>2 DEF IInv, Types, Kept
<1>6. NetInv(net')
    BY <1>2, <1>3, SeatFacts, NetApp
<1>8. Seated'
    <2>1. ASSUME NEW m \in Member PROVE SeatInv(m, node[m], net \cup {g}, inc[m], killed)
        BY <1>3, SeatFacts, AppMore
    <2> QED BY <1>2, <2>1 DEF Seated
<1> QED BY <1>4, <1>6, <1>8 DEF IInv

\* Rekey.
LEMMA RekeyInv ==
    ASSUME IInv, NEW n \in Member, NEW r \in Member, Rekey(n, r)
    PROVE  IInv'
<1>1. PICK d \in Digest \ {f.c.d : f \in Commits} :
        LET f == [k |-> "commit", c |-> [d |-> d, by |-> n, re |-> r], inc |-> inc[r],
                  on |-> node[n].branch]
        IN  net' = net \cup {f} /\ node' = [node EXCEPT ![n] = Merge(@, f)]
    BY DEF Rekey
<1>2. PICK g : g = [k |-> "commit", c |-> [d |-> d, by |-> n, re |-> r], inc |-> inc[r],
                    on |-> node[n].branch]
    OBVIOUS
<1>3. /\ net' = net \cup {g} /\ node' = [node EXCEPT ![n] = Merge(node[n], g)]
      /\ r \in gone /\ UNCHANGED <<gone, inc, lost, loses, killed>>
    BY <1>1, <1>2 DEF Rekey
<1>4. /\ g \in CommitFrame /\ g \in Frame /\ g.c.by = n /\ g.c.re = r /\ g.c.d = d
      /\ g.inc = inc[r] /\ g.on = node[n].branch /\ g.k = "commit"
    <2>1. [d |-> d, by |-> n, re |-> r] \in Commit
        BY DEF Commit
    <2> QED BY <1>2, <2>1, SeatFacts DEF CommitFrame, Frame
<1>5. \A f \in CommitsOf(net) : f.c.d # g.c.d
    BY <1>1, <1>4 DEF Commits, CommitsOf
<1>6. g \notin net
    BY <1>4, <1>5 DEF CommitsOf
<1>7. node \in [Member -> Device]
    BY DEF IInv, Types
<1>8. PICK t : t = Merge(node[n], g)
    OBVIOUS
<1>9. /\ t \in Device /\ t.hold = node[n].hold
    BY <1>4, <1>8, SeatFacts, MergeFields
<1>10. node'[n] = t /\ \A m \in Member : m # n => node'[m] = node[m]
    BY <1>3, <1>7, <1>8
<1>11. Types'
    BY <1>3, <1>7, <1>8, <1>9 DEF IInv, Types
<1>12. Kept'
    <2>1. ASSUME NEW m \in Member PROVE node'[m].hold = node[m].hold
        BY <1>9, <1>10
    <2> QED BY <1>3, <2>1 DEF IInv, Kept
<1>13. NetInv(net')
    <2>1. Made(g.on, net) /\ NetInv(net)
        BY <1>4, SeatFacts
    <2> QED BY <1>3, <1>4, <1>5, <1>6, <2>1, NetCommit
<1>15. Seated'
    <2>1. ASSUME NEW m \in Member
          PROVE  SeatInv(m, node'[m], net \cup {g}, inc[m], killed)
        <3>1. CASE m = n
            <4>1. SeatInv(n, Merge(node[n], g), net \cup {g}, inc[n], killed)
                BY <1>4, <1>5, <1>6, SeatFacts, OwnCommit
            <4> QED BY <1>8, <1>10, <3>1, <4>1
        <3>2. CASE m # n
            <4>1. SeatInv(m, node[m], net \cup {g}, inc[m], killed)
                BY <1>4, <1>5, <1>6, <3>2, SeatFacts, CommitMore
            <4> QED BY <1>10, <3>2, <4>1
        <3> QED BY <3>1, <3>2
    <2> QED BY <1>3, <2>1 DEF Seated
<1> QED BY <1>11, <1>12, <1>13, <1>15 DEF IInv

\* Join.
LEMMA JoinInv ==
    ASSUME IInv, NEW r \in Member, Join(r)
    PROVE  IInv'
<1>1. PICK f \in Commits : /\ f.c.re = r /\ f.inc = inc[r]
                           /\ node' = [node EXCEPT ![r] = NewDevice(Append(f.on, f.c))]
    BY DEF Join
<1>2. /\ r \in gone /\ gone' = gone \ {r} /\ inc' = [inc EXCEPT ![r] = @ + 1]
      /\ lost' = [lost EXCEPT ![r] = {}]
      /\ UNCHANGED <<net, loses, killed>>
    BY DEF Join
<1>3. /\ f \in CommitsOf(net) /\ f \in net /\ f \in CommitFrame /\ f.on \in Seq(Commit)
      /\ f.c \in Commit /\ net \subseteq Frame /\ inc[r] \in Nat
    BY <1>1, SeatFacts, FrameFacts, CommitFacts DEF Commits, CommitsOf
<1>4. PICK b : b = Append(f.on, f.c)
    OBVIOUS
<1>5. b \in Seq(Commit) /\ Len(b) = Len(f.on) + 1 /\ Len(f.on) \in Nat /\ b[Len(f.on) + 1] = f.c
    BY <1>3, <1>4, AppendFacts
<1>6. PICK dv : dv = NewDevice(b)
    OBVIOUS
<1>7. /\ dv.branch = b /\ dv.armed = FALSE /\ dv.base = Len(b) /\ dv.used = {} /\ dv.hold = <<>>
      /\ dv.disk = [branch |-> b, armed |-> FALSE, used |-> {}]
    BY <1>6 DEF NewDevice
<1>8. dv \in Device
    <2>1. <<>> \in Seq(Frame)
        OBVIOUS
    <2>3. [branch |-> b, armed |-> FALSE, used |-> {}]
            \in [branch : Seq(Commit), armed : BOOLEAN, used : SUBSET AppFrame]
        BY <1>5
    <2>4. Len(b) \in Nat
        BY <1>5
    <2> QED BY <1>5, <1>6, <2>1, <2>3, <2>4 DEF Device, NewDevice
<1>9. node \in [Member -> Device] /\ inc \in [Member -> Nat]
      /\ lost \in [Member -> SUBSET Frame]
    BY DEF IInv, Types
<1>10. /\ node'[r] = dv /\ inc'[r] = inc[r] + 1 /\ lost'[r] = {}
       /\ \A m \in Member : m # r => /\ node'[m] = node[m] /\ inc'[m] = inc[m]
                                     /\ lost'[m] = lost[m]
    BY <1>1, <1>2, <1>4, <1>6, <1>9
<1>11. Types'
    <2>1. node' \in [Member -> Device]
        BY <1>1, <1>4, <1>6, <1>8, <1>9
    <2>2. inc' \in [Member -> Nat]
        BY <1>2, <1>9
    <2>3. lost' \in [Member -> SUBSET Frame]
        BY <1>2, <1>9
    <2> QED BY <1>2, <2>1, <2>2, <2>3 DEF IInv, Types
<1>12. Kept'
    <2>1. ToSet(dv.hold) = {} /\ Len(dv.hold) = 0 /\ 0 <= HoldMax
        BY <1>7, EpochsAssumption DEF ToSet
    <2>2. ASSUME NEW m \in Member
          PROVE  /\ ToSet(node'[m].hold) \subseteq net' /\ Len(node'[m].hold) <= HoldMax
                 /\ lost'[m] \subseteq net'
        <3>1. CASE m = r
            BY <1>10, <2>1, <3>1
        <3>2. CASE m # r
            BY <1>2, <1>10, <3>2, SeatFacts
        <3> QED BY <3>1, <3>2
    <2> QED BY <2>2 DEF Kept
<1>13. NetInv(net')
    BY <1>2 DEF IInv
<1>15. SeatInv(r, dv, net, inc[r] + 1, killed)
    <2>1. Made(b, net)
        BY <1>3, <1>4, SeatFacts, MadeAppend DEF NetInv
    <2>2. Fit(dv) /\ Grounded(dv, net)
        BY <1>5, <1>7, <2>1 DEF Fit, Grounded
    <2>3. Rooted(dv, inc[r] + 1) /\ inc[r] + 1 # 0
        BY <1>3 DEF Rooted
    <2> QED BY <1>8, <2>2, <2>3 DEF SeatInv, SeatBase
<1>16. Seated'
    <2>1. ASSUME NEW m \in Member PROVE SeatInv(m, node'[m], net', inc'[m], killed')
        <3>1. CASE m = r
            BY <1>2, <1>10, <1>15, <3>1
        <3>2. CASE m # r
            BY <1>2, <1>10, <3>2, SeatFacts
        <3> QED BY <3>1, <3>2
    <2> QED BY <2>1 DEF Seated
<1> QED BY <1>11, <1>12, <1>13, <1>16 DEF IInv

\* Lose.
LEMMA LoseInv ==
    ASSUME IInv, NEW r \in Member, Lose(r)
    PROVE  IInv'
<1>1. /\ gone' = gone \cup {r} /\ loses' = loses + 1 /\ loses < MaxLose
      /\ UNCHANGED <<node, inc, net, lost, killed>>
    BY DEF Lose
<1>2. Types'
    BY <1>1, EpochsAssumption DEF IInv, Types
<1>3. Kept' /\ NetInv(net') /\ Seated'
    BY <1>1 DEF IInv, Kept, Seated
<1> QED BY <1>2, <1>3 DEF IInv

\* A step of one seat that changes its device only.
LEMMA DeviceStep ==
    ASSUME IInv, NEW n \in Member, NEW dv \in Device, node' = [node EXCEPT ![n] = dv],
           ToSet(dv.hold) \subseteq net, Len(dv.hold) <= HoldMax,
           UNCHANGED <<gone, inc, net, lost, loses>>, killed' \in SUBSET Member,
           SeatInv(n, dv, net, inc[n], killed'),
           \A m \in Member : m # n =>
                SeatInv(m, node[m], net, inc[m], killed')
    PROVE  IInv'
<1>1. node \in [Member -> Device]
    BY DEF IInv, Types
<1>2. node'[n] = dv /\ \A m \in Member : m # n => node'[m] = node[m]
    BY <1>1
<1>3. Types'
    BY <1>1 DEF IInv, Types
<1>4. Kept'
    BY <1>2 DEF IInv, Kept
<1>5. NetInv(net')
    BY DEF IInv
<1>6. Seated'
    BY <1>2 DEF Seated
<1> QED BY <1>3, <1>4, <1>5, <1>6 DEF IInv

\* PersistMls.
LEMMA PersistMlsInv ==
    ASSUME IInv, NEW n \in Member, PersistMls(n)
    PROVE  IInv'
<1>1. PICK s : s = node[n]
    OBVIOUS
<1>2. PICK now : now = [branch |-> s.branch, armed |-> s.armed, used |-> s.used]
    OBVIOUS
<1>3. s \in Device /\ SeatInv(n, s, net, inc[n], killed)
    BY <1>1, SeatFacts
<1>4. PICK t : t = [s EXCEPT !.disk = now]
    OBVIOUS
<1>5. /\ t \in Device /\ t.branch = s.branch /\ t.armed = s.armed /\ t.base = s.base
      /\ t.used = s.used /\ t.hold = s.hold /\ t.disk = now
    <2>1. now \in [branch : Seq(Commit), armed : BOOLEAN, used : SUBSET AppFrame]
        BY <1>2, <1>3, DeviceFacts
    <2> QED BY <1>3, <1>4, <2>1 DEF Device
<1>6. now.branch = s.branch /\ now.armed = s.armed /\ now.used = s.used
    BY <1>2
<1>7. /\ node' = [node EXCEPT ![n] = t]
      /\ UNCHANGED <<gone, inc, net, lost, loses, killed>>
    <2>1. node \in [Member -> Device]
        BY DEF IInv, Types
    <2> QED BY <1>1, <1>2, <1>4, <2>1 DEF PersistMls
<1>8. SeatInv(n, t, net, inc[n], killed)
    <2>1. Fit(t) /\ Grounded(t, net)
        BY <1>3, <1>5, <1>6 DEF SeatInv, SeatBase, Fit, Grounded
    <2>2. Rooted(t, inc[n])
        BY <1>3, <1>5, <1>6 DEF SeatInv, SeatBase, Rooted
    <2>4. n \notin killed /\ inc[n] = 0 => Author(n, t, net) /\ Yields(n, t, net)
        BY <1>3, <1>5 DEF SeatInv, Author, Yields
    <2> QED BY <1>5, <2>1, <2>2, <2>4 DEF SeatInv, SeatBase
<1>9. ToSet(t.hold) \subseteq net /\ Len(t.hold) <= HoldMax
    BY <1>1, <1>5, SeatFacts
<1>10. killed' \in SUBSET Member /\ killed' = killed
    BY <1>7 DEF IInv, Types
<1> QED BY <1>5, <1>7, <1>8, <1>9, <1>10, SeatFacts, DeviceStep

\* Kill.
LEMMA KillInv ==
    ASSUME IInv, NEW n \in Member, Kill(n)
    PROVE  IInv'
<1>1. PICK s : s = node[n]
    OBVIOUS
<1>2. s \in Device /\ SeatInv(n, s, net, inc[n], killed)
    BY <1>1, SeatFacts
<1>3. PICK t : t = [s EXCEPT !.branch = s.disk.branch, !.armed = s.disk.armed,
                             !.used = s.disk.used, !.hold = <<>>]
    OBVIOUS
<1>4. /\ t \in Device /\ t.branch = s.disk.branch /\ t.armed = s.disk.armed /\ t.base = s.base
      /\ t.used = s.disk.used /\ t.hold = <<>> /\ t.disk = s.disk
    <2>1. <<>> \in Seq(Frame)
        OBVIOUS
    <2> QED BY <1>2, <1>3, <2>1, DeviceFacts DEF Device
<1>5. /\ node' = [node EXCEPT ![n] = t] /\ killed' = killed \cup {n}
      /\ UNCHANGED <<gone, inc, net, lost, loses>>
    <2>1. node \in [Member -> Device]
        BY DEF IInv, Types
    <2> QED BY <1>1, <1>3, <2>1 DEF Kill
<1>6. SeatInv(n, t, net, inc[n], killed')
    <2>1. Fit(t) /\ Grounded(t, net)
        BY <1>2, <1>4 DEF SeatInv, SeatBase, Fit, Grounded
    <2>2. Rooted(t, inc[n])
        BY <1>2, <1>4 DEF SeatInv, SeatBase, Rooted
    <2>3. n \in killed'
        BY <1>5
    <2> QED BY <1>4, <2>1, <2>2, <2>3 DEF SeatInv, SeatBase
<1>7. ASSUME NEW m \in Member PROVE m # n => SeatInv(m, node[m], net, inc[m], killed')
    <2>1. SeatInv(m, node[m], net, inc[m], killed)
        BY SeatFacts
    <2>2. m \notin killed' => m \notin killed
        BY <1>5
    <2> QED BY <2>1, <2>2 DEF SeatInv, SeatBase
<1>8. ToSet(t.hold) \subseteq net /\ Len(t.hold) <= HoldMax
    BY <1>4, EpochsAssumption DEF ToSet
<1>9. killed' \in SUBSET Member
    BY <1>5 DEF IInv, Types
<1> QED BY <1>4, <1>5, <1>6, <1>7, <1>8, <1>9, DeviceStep

\* What Install writes, the seat having kept its invariant.
LEMMA InstallInv ==
    ASSUME IInv, NEW n \in Member, NEW got, Install(n, got),
           SeatInv(n, got.s, net, inc[n], killed),
           ToSet(got.s.hold) \subseteq net, Len(got.s.hold) <= HoldMax,
           got.gaveUp \subseteq net, UNCHANGED <<gone, inc, net, loses, killed>>
    PROVE  IInv'
<1>1. PICK s : s = got.s
    OBVIOUS
<1>3. SeatInv(n, s, net, inc[n], killed) /\ s \in Device
    BY <1>1 DEF SeatInv, SeatBase
<1>4. node \in [Member -> Device] /\ lost \in [Member -> SUBSET Frame] /\ net \subseteq Frame
    BY SeatFacts DEF IInv, Types
<1>5. node' = [node EXCEPT ![n] = s] /\ lost' = [lost EXCEPT ![n] = lost[n] \cup got.gaveUp]
    BY <1>1, <1>4 DEF Install
<1>6. /\ node'[n] = s /\ lost'[n] = lost[n] \cup got.gaveUp
      /\ \A m \in Member : m # n => node'[m] = node[m] /\ lost'[m] = lost[m]
    BY <1>4, <1>5
<1>7. Types'
    <2>1. lost[n] \cup got.gaveUp \in SUBSET Frame
        BY <1>4, SeatFacts
    <2> QED BY <1>3, <1>4, <1>5, <2>1 DEF IInv, Types
<1>8. Kept'
    BY <1>1, <1>6 DEF IInv, Kept
<1>9. NetInv(net')
    BY DEF IInv
<1>10. Seated'
    <2>1. ASSUME NEW m \in Member PROVE SeatInv(m, node'[m], net', inc'[m], killed')
        <3>1. CASE m = n
            BY <1>3, <1>6, <3>1
        <3>2. CASE m # n
            BY <1>6, <3>2, SeatFacts
        <3> QED BY <3>1, <3>2
    <2> QED BY <2>1 DEF Seated
<1> QED BY <1>7, <1>8, <1>9, <1>10 DEF IInv

\* A seat with another hold of frames of N, and what it gave up for it.
Holds(s, N, held) ==
    /\ \E h \in Seq(Frame) : /\ held.s = [s EXCEPT !.hold = h]
                             /\ ToSet(h) \subseteq N /\ Len(h) <= HoldMax
    /\ held.gaveUp \subseteq N

\* What a full or a free hold becomes.
LEMMA HoldFrameFacts ==
    ASSUME NEW s \in Device, NEW N, N \subseteq Frame, NEW f \in N, ToSet(s.hold) \subseteq N,
           Len(s.hold) <= HoldMax, NEW held, held = HoldFrame(s, f)
    PROVE  Holds(s, N, held)
<1>0. s.hold \in Seq(Frame) /\ Len(s.hold) \in Nat /\ HoldMax \in Nat /\ HoldMax >= 1 /\ f \in Frame
    BY DeviceFacts, EpochsAssumption
<1>1. CASE Len(s.hold) >= HoldMax
    <2>1. s.hold # <<>> /\ Len(s.hold) >= 1
        BY <1>0, <1>1
    <2>2. PICK u : u = Tail(s.hold)
        OBVIOUS
    <2>3. /\ u \in Seq(Frame) /\ Len(u) = Len(s.hold) - 1
          /\ \A j \in 1 .. Len(u) : u[j] = s.hold[j + 1]
        BY <1>0, <2>1, <2>2, HeadTailProperties
    <2>4. ToSet(u) \subseteq N
        <3>1. ASSUME NEW x \in ToSet(u) PROVE x \in N
            <4>1. PICK j \in 1 .. Len(u) : u[j] = x
                BY <2>3, ToSetFacts
            <4>2. j + 1 \in 1 .. Len(s.hold) /\ s.hold[j + 1] = x
                BY <1>0, <2>3, <4>1
            <4> QED BY <1>0, <4>2, ToSetFacts
        <3> QED BY <3>1
    <2>5. PICK h : h = Append(u, f)
        OBVIOUS
    <2>6. h \in Seq(Frame) /\ Len(h) = Len(s.hold) /\ ToSet(h) = ToSet(u) \cup {f}
        BY <1>0, <2>3, <2>5, AppendFacts
    <2>7. held.s = [s EXCEPT !.hold = h] /\ held.gaveUp = {Head(s.hold)}
        BY <1>1, <2>2, <2>5 DEF HoldFrame
    <2>8. Head(s.hold) \in N
        <3>1. Head(s.hold) = s.hold[1] /\ 1 \in 1 .. Len(s.hold)
            BY <1>0, <2>1
        <3> QED BY <1>0, <3>1, ToSetFacts
    <2> QED BY <2>4, <2>6, <2>7, <2>8 DEF Holds
<1>2. CASE ~(Len(s.hold) >= HoldMax)
    <2>1. PICK h : h = Append(s.hold, f)
        OBVIOUS
    <2>2. h \in Seq(Frame) /\ Len(h) = Len(s.hold) + 1 /\ ToSet(h) = ToSet(s.hold) \cup {f}
        BY <1>0, <2>1, AppendFacts
    <2>3. held.s = [s EXCEPT !.hold = h] /\ held.gaveUp = {}
        BY <1>2, <2>1 DEF HoldFrame
    <2>4. Len(h) <= HoldMax
        BY <1>0, <1>2, <2>2
    <2> QED BY <2>2, <2>3, <2>4 DEF Holds
<1> QED BY <1>1, <1>2

\* A step that merges a commit ends with the drain of the hold.
Drained(n, st, d) ==
    /\ SeatInv(n, st, net, inc[n], killed) /\ st.hold = node[n].hold
    /\ Moves(node[n], st) /\ d = DrainUntilNoProgress(st, n)
    /\ DrainAt(n, st, net, inc[n], killed, d, Len(st.hold) + 1) /\ d.done

\* The three outcomes of a frame that arrives.
LEMMA ReceiveCases ==
    ASSUME IInv, NEW n \in Member, NEW f \in net, Receive(n, f)
    PROVE  \E got :
            /\ Install(n, got) /\ SeatInv(n, got.s, net, inc[n], killed)
            /\ ToSet(got.s.hold) \subseteq net /\ Len(got.s.hold) <= HoldMax
            /\ got.gaveUp \subseteq net
            /\ \/ got.s.branch = node[n].branch
               \/ \E st : Drained(n, st, got)
<1>1. PICK st : st = node[n]
    OBVIOUS
<1>2. SeatInv(n, st, net, inc[n], killed) /\ st \in Device
    BY <1>1, SeatFacts
<1>3. /\ NetInv(net) /\ inc[n] \in Nat /\ net \subseteq Frame
      /\ ToSet(node[n].hold) \subseteq net /\ Len(node[n].hold) <= HoldMax /\ node[n] \in Device
    BY SeatFacts
<1>4. CASE ~Opens(node[n], f)
    <2>1. PICK held : held = HoldFrame(node[n], f)
        OBVIOUS
    <2>3. Install(n, held)
        BY <1>1, <1>4, <2>1 DEF Receive
    <2>4. /\ \E h \in Seq(Frame) : /\ held.s = [node[n] EXCEPT !.hold = h]
                                   /\ ToSet(h) \subseteq net /\ Len(h) <= HoldMax
          /\ held.gaveUp \subseteq net
        <3>1. PICK s : s = node[n]
            OBVIOUS
        <3>2. s \in Device /\ ToSet(s.hold) \subseteq net /\ Len(s.hold) <= HoldMax
              /\ held = HoldFrame(s, f)
            BY <1>3, <2>1, <3>1
        <3>3. Holds(s, net, held)
            BY <1>3, <3>2, HoldFrameFacts
        <3> QED BY <3>1, <3>3 DEF Holds
    <2>5. PICK h \in Seq(Frame) : /\ held.s = [node[n] EXCEPT !.hold = h]
                                  /\ ToSet(h) \subseteq net /\ Len(h) <= HoldMax
        BY <2>4
    <2>6. PICK t : t = [st EXCEPT !.hold = h]
        OBVIOUS
    <2>7. /\ SeatInv(n, t, net, inc[n], killed) /\ t.hold = h
          /\ t.branch = st.branch
        BY <1>2, <2>6, HoldGood
    <2>8. t = held.s
        BY <1>1, <2>5, <2>6
    <2> QED BY <1>1, <2>3, <2>4, <2>5, <2>7, <2>8
<1>5. CASE Opens(node[n], f)
    <2>1. PICK c : c = Ingest(st, n, f)
        OBVIOUS
    <2>2. Taken(n, st, net, inc[n], killed, f, c)
        BY <1>1, <1>2, <1>3, <1>5, <2>1, IngestFacts
    <2>3. /\ SeatInv(n, c, net, inc[n], killed) /\ Moves(node[n], c)
          /\ c.hold = node[n].hold
        BY <1>1, <2>2 DEF Taken
    <2>4. CASE MergesHere(node[n], n, f)
        <3>1. PICK got : got = DrainUntilNoProgress(c, n)
            OBVIOUS
        <3>2. Install(n, got)
            BY <1>1, <1>5, <2>1, <2>4, <3>1 DEF Receive
        <3>3. DrainAt(n, c, net, inc[n], killed, got, Len(c.hold) + 1) /\ got.done
            BY <1>3, <2>3, <3>1, DrainFacts
        <3>4. Drained(n, c, got)
            BY <2>3, <3>1, <3>3 DEF Drained
        <3>5. /\ SeatInv(n, got.s, net, inc[n], killed)
              /\ got.s.hold = <<>> /\ got.gaveUp \subseteq net
            BY <3>3 DEF DrainAt
        <3>6. ToSet(got.s.hold) \subseteq net /\ Len(got.s.hold) <= HoldMax
            BY <3>5, EpochsAssumption DEF ToSet
        <3> QED BY <3>2, <3>4, <3>5, <3>6
    <2>5. CASE ~MergesHere(node[n], n, f)
        <3>1. PICK got : got = [s |-> c, gaveUp |-> {}]
            OBVIOUS
        <3>2. Install(n, got)
            BY <1>1, <1>5, <2>1, <2>5, <3>1 DEF Receive
        <3>3. got.s = c /\ got.gaveUp = {}
            BY <3>1
        <3>4. c.branch = node[n].branch
            <4>1. CASE Decrypts(node[n], n, f)
                <5>1. f \in AppFrame
                    BY <1>3, <4>1, FrameFacts DEF Decrypts, AppsOf
                <5>2. c = [st EXCEPT !.used = @ \cup {f}]
                    BY <1>1, <2>1, <2>5, <4>1 DEF Ingest
                <5> QED BY <1>1, <1>2, <5>1, <5>2, SpendFields
            <4>2. CASE ~Decrypts(node[n], n, f)
                BY <1>1, <2>1, <2>5, <4>2 DEF Ingest
            <4> QED BY <4>1, <4>2
        <3> QED BY <1>3, <2>3, <3>2, <3>3, <3>4
    <2> QED BY <2>4, <2>5
<1> QED BY <1>4, <1>5

\* ReceiveAny.
LEMMA ReceiveInv ==
    ASSUME IInv, NEW n \in Member, ReceiveAny(n)
    PROVE  IInv'
<1>1. PICK f \in net : Receive(n, f)
    BY DEF ReceiveAny
<1>2. PICK got :
            /\ Install(n, got) /\ SeatInv(n, got.s, net, inc[n], killed)
            /\ ToSet(got.s.hold) \subseteq net /\ Len(got.s.hold) <= HoldMax
            /\ got.gaveUp \subseteq net
    BY <1>1, ReceiveCases
<1>3. UNCHANGED <<gone, inc, net, loses, killed>>
    BY DEF ReceiveAny
<1> QED BY <1>2, <1>3, InstallInv

\* Every step keeps the invariant.
LEMMA NextInv ==
    ASSUME IInv, [Next]_vars
    PROVE  IInv'
<1>1. CASE Next
    <2>1. PICK n \in Member : \/ ReceiveAny(n) \/ Send(n) \/ (\E r \in Member : Rekey(n, r))
                              \/ Join(n) \/ Lose(n) \/ PersistMls(n) \/ Kill(n)
        BY <1>1 DEF Next
    <2> QED BY <2>1, ReceiveInv, SendInv, RekeyInv, JoinInv, LoseInv, PersistMlsInv, KillInv
<1>2. CASE UNCHANGED vars
    BY <1>2 DEF vars, IInv, Types, Kept, Seated
<1> QED BY <1>1, <1>2

-----------------------------------------------------------------------------
(***************************************************************************)
(* The theorems.                                                           *)
(***************************************************************************)

\* The inductive invariant holds in every reachable state.
THEOREM Invariance == Spec => []IInv
<1>1. Init => IInv
    BY InitInv
<1>2. IInv /\ [Next]_vars => IInv'
    BY NextInv
<1> QED BY <1>1, <1>2, PTL DEF Spec

\* Whatever is received, lost, saved or killed, the rewind slot is armed only
\* with a commit of the device's own to take back, the hold keeps to its bound,
\* and what a seat holds, spends or gives up was on the relays.
THEOREM TypeCorrect == Spec => []TypeOK
<1>1. ASSUME IInv PROVE TypeOK
    <2>1. ASSUME NEW n \in Member
          PROVE  /\ \A i \in DOMAIN node[n].branch :
                        node[n].branch[i] \in [d : Digest, by : Member, re : Member]
                 /\ node[n].armed => Epoch(node[n]) > node[n].base
                 /\ ToSet(node[n].hold) \subseteq net /\ Len(node[n].hold) <= HoldMax
                 /\ node[n].used \subseteq Frames
                 /\ lost[n] \subseteq net
        <3>1. node[n] \in Device /\ SeatInv(n, node[n], net, inc[n], killed)
            BY <1>1, SeatFacts
        <3>2. \A i \in DOMAIN node[n].branch :
                    node[n].branch[i] \in [d : Digest, by : Member, re : Member]
            <4>1. PICK b : b = node[n].branch
                OBVIOUS
            <4>2. b \in Seq(Commit)
                BY <3>1, <4>1, DeviceFacts
            <4>3. \A i \in DOMAIN b : b[i] \in Commit
                BY <4>2
            <4> QED BY <4>1, <4>3 DEF Commit
        <3>3. node[n].armed => Epoch(node[n]) > node[n].base
            BY <3>1 DEF SeatInv, SeatBase, Fit, Epoch
        <3>4. \A f \in AppFrame : f.k = "app"
            BY AppFacts
        <3>5. node[n].used \subseteq Frames
            BY <3>1, <3>4, DeviceFacts DEF SeatInv, SeatBase, Grounded, Frames
        <3> QED BY <1>1, <3>1, <3>2, <3>3, <3>5, SeatFacts, DeviceFacts
    <2> QED BY <1>1, <2>1 DEF TypeOK, IInv, Types
<1> QED BY <1>1, Invariance, PTL

\* A commit that moves a seat's group lets it read all that was held for the
\* epoch it ends on: the rounds of drain_until_no_progress are enough for any
\* hold, any order of commits and frames in it and any number of rivals.
THEOREM DrainReadsTheHold == Spec => DrainLeavesNothingReadable
<1> DEFINE Whole ==
        \A n \in Member :
            killed' = killed /\ inc' = inc /\ node'[n].branch # node[n].branch =>
                /\ \A f \in lost'[n] \ lost[n] : ~Opens(node'[n], f)
                /\ \A f \in ToSet(node[n].hold) \cap Frames :
                    f.on = node'[n].branch /\ f.by # n => f \in node'[n].used
<1>1. ASSUME IInv, Next PROVE Whole
    <2>1. SUFFICES ASSUME NEW n \in Member, killed' = killed, inc' = inc,
                          node'[n].branch # node[n].branch
                   PROVE  /\ \A f \in lost'[n] \ lost[n] : ~Opens(node'[n], f)
                          /\ \A f \in ToSet(node[n].hold) \cap Frames :
                              f.on = node'[n].branch /\ f.by # n => f \in node'[n].used
        OBVIOUS
    <2>2. PICK m \in Member : \/ ReceiveAny(m) \/ Send(m) \/ (\E r \in Member : Rekey(m, r))
                              \/ Join(m) \/ Lose(m) \/ PersistMls(m) \/ Kill(m)
        BY <1>1 DEF Next
    <2>3. /\ node \in [Member -> Device] /\ inc \in [Member -> Nat] /\ lost \in [Member -> SUBSET Frame]
          /\ net \subseteq Frame
        BY <1>1, SeatFacts DEF IInv, Types
    <2>4. CASE ReceiveAny(m)
        <3>1. PICK g \in net : Receive(m, g)
            BY <2>4 DEF ReceiveAny
        <3>2. PICK got :
                /\ Install(m, got) /\ SeatInv(m, got.s, net, inc[m], killed)
                /\ \/ got.s.branch = node[m].branch
                   \/ \E st : Drained(m, st, got)
            BY <1>1, <3>1, ReceiveCases
        <3>3. m = n /\ node'[n] = got.s /\ lost'[n] = lost[n] \cup got.gaveUp
            BY <2>1, <2>3, <3>2 DEF Install
        <3>4. PICK st : Drained(n, st, got)
            BY <2>1, <3>2, <3>3
        <3>5. /\ \A f \in got.gaveUp : ~Opens(got.s, f)
              /\ \A f \in ToSet(node[n].hold) : f \in got.gaveUp \/ Read(n, got.s, f)
            BY <3>4 DEF Drained, DrainAt
        <3>6. got.s \in Device /\ Fit(got.s)
            BY <3>2 DEF SeatInv, SeatBase, SeatInv, SeatBase
        <3>7. ASSUME NEW f \in ToSet(node[n].hold) \cap Frames, f.on = got.s.branch, f.by # n
              PROVE  f \in got.s.used
            <4>0. f \in AppFrame
                BY <2>3, FrameFacts DEF Frames, AppsOf
            <4>1. PICK t : t = got.s
                OBVIOUS
            <4>2. Opens(t, f)
                <5>1. t.branch \in Seq(Commit) /\ Len(t.branch) \in Nat /\ t.base \in Nat
                    BY <3>6, <4>1, DeviceFacts
                <5>2. IsPrefix(t.branch, t.branch)
                    BY <5>1, PrefixFacts
                <5>3. Len(t.branch) >= t.base
                    BY <3>6, <4>1 DEF Fit
                <5> QED BY <3>7, <4>1, <5>1, <5>2, <5>3, EpochsAssumption DEF Opens, Epoch
            <4>3. Read(n, t, f)
                BY <3>5, <4>1, <4>2
            <4>4. ~(Len(t.branch) > Len(f.on))
                BY <3>6, <3>7, <4>1, DeviceFacts
            <4> QED BY <3>7, <4>0, <4>1, <4>3, <4>4 DEF Read
        <3> QED BY <3>3, <3>5, <3>7
    <2>5. CASE \E r \in Member : Rekey(m, r)
        <3>1. PICK r \in Member : Rekey(m, r)
            BY <2>5
        <3>2. PICK d \in Digest \ {f.c.d : f \in Commits} :
                LET f == [k |-> "commit", c |-> [d |-> d, by |-> m, re |-> r], inc |-> inc[r],
                          on |-> node[m].branch]
                IN  node' = [node EXCEPT ![m] = Merge(@, f)]
            BY <3>1 DEF Rekey
        <3>3. PICK g : g = [k |-> "commit", c |-> [d |-> d, by |-> m, re |-> r], inc |-> inc[r],
                            on |-> node[m].branch]
            OBVIOUS
        <3>4. g \in CommitFrame /\ g.c.d = d /\ g.c \in Commit /\ g.on \in Seq(Commit)
            <4>1. [d |-> d, by |-> m, re |-> r] \in Commit
                BY DEF Commit
            <4> QED BY <1>1, <3>3, <4>1, SeatFacts DEF CommitFrame
        <3>5. n = m /\ node'[n] = Merge(node[n], g)
            BY <2>1, <2>3, <3>2, <3>3
        <3>6. node'[n].branch = Append(g.on, g.c)
            <4>1. node[n] \in Device
                BY <2>3
            <4>2. PICK s : s = node[n]
                OBVIOUS
            <4>3. PICK t : t = Merge(s, g)
                OBVIOUS
            <4>4. t.branch = Append(g.on, g.c)
                BY <3>4, <4>1, <4>2, <4>3, MergeFields
            <4> QED BY <3>5, <4>2, <4>3, <4>4
        <3>7. ASSUME NEW f \in ToSet(node[n].hold) \cap Frames PROVE f.on # node'[n].branch
            <4>1. f \in net /\ f.on \in Seq(Commit)
                BY <2>3, FrameFacts DEF Frames
            <4>2. Made(f.on, net)
                BY <1>1, <4>1 DEF IInv, NetInv
            <4>3. \A h \in CommitsOf(net) : h.c.d # g.c.d
                BY <3>2, <3>4 DEF CommitsOf, Commits
            <4>4. g.c \notin ToSet(f.on)
                BY <3>4, <4>1, <4>2, <4>3, FreshNotIn
            <4>5. g.c \in ToSet(Append(g.on, g.c))
                BY <3>4, AppendFacts
            <4> QED BY <3>6, <4>4, <4>5
        <3>8. lost' = lost
            BY <3>1 DEF Rekey
        <3> QED BY <3>7, <3>8
    <2>6. CASE Send(m) \/ Lose(m)
        BY <2>1, <2>6 DEF Send, Lose
    <2>7. CASE PersistMls(m)
        <3>1. node'[n].branch = node[n].branch
            BY <2>3, <2>7 DEF PersistMls, Device
        <3> QED BY <2>1, <3>1
    <2>8. CASE Join(m)
        <3>1. inc'[m] = inc[m] + 1 /\ inc[m] \in Nat
            BY <2>3, <2>8 DEF Join
        <3> QED BY <2>1, <3>1
    <2>9. CASE Kill(m)
        BY <2>1, <2>9 DEF Kill
    <2> QED BY <2>2, <2>4, <2>5, <2>6, <2>7, <2>8, <2>9
<1>2. ASSUME UNCHANGED vars PROVE Whole
    BY <1>2 DEF vars
<1>3. IInv /\ [Next]_vars => [Whole]_vars
    BY <1>1
<1> QED BY <1>3, Invariance, PTL DEF Spec, DrainLeavesNothingReadable

-----------------------------------------------------------------------------
(***************************************************************************)
(* The races.                                                              *)
(***************************************************************************)

\* A settled seat stands on no epoch that a commit was made on: it has merged
\* it, and its own commit it has never left but for a better one.
LEMMA NoneAhead ==
    ASSUME IInv, Settled, NEW n \in Survivors \ Bereft, NEW f \in CommitsOf(net)
    PROVE  f.on # node[n].branch
<1>1. SUFFICES ASSUME f.on = node[n].branch PROVE FALSE
    OBVIOUS
<1>2. /\ n \in Member /\ n \in Survivors /\ n \notin Bereft /\ inc[n] = 0
      /\ f \in Commits /\ f.k = "commit"
    BY DEF Survivors, CommitsOf, Commits
<1>3. PICK s : s = node[n]
    OBVIOUS
<1>4. s \in Device /\ SeatInv(n, s, net, inc[n], killed)
    BY <1>2, <1>3, SeatFacts
<1>5. s.branch \in Seq(Commit) /\ Len(s.branch) \in Nat /\ s.base \in Nat
    BY <1>4, DeviceFacts
<1>6. CASE f.c.by = n
    <2>1. n \notin killed
        BY <1>2, <1>6 DEF Bereft
    <2>2. Len(s.branch) > Len(f.on)
        BY <1>2, <1>4, <1>6, <2>1 DEF SeatInv, Author
    <2> QED BY <1>1, <1>3, <1>5, <2>2
<1>7. CASE f.c.by # n
    <2>1. IsPrefix(f.on, s.branch)
        BY <1>1, <1>3, <1>5, PrefixFacts
    <2>2. Len(s.branch) >= s.base
        BY <1>4 DEF SeatInv, SeatBase, Fit
    <2>3. Opens(s, f)
        BY <1>1, <1>3, <1>5, <2>1, <2>2, EpochsAssumption DEF Opens, Epoch
    <2>4. MergesHere(s, n, f)
        BY <1>1, <1>2, <1>3, <1>7 DEF MergesHere
    <2> QED BY <1>2, <1>3, <2>3, <2>4 DEF Settled
<1> QED BY <1>6, <1>7

\* Of two commits on one epoch a settled seat stands on the one that wins.
LEMMA BetterStays ==
    ASSUME IInv, Settled, NEW n \in Survivors \ Bereft,
           NEW f \in CommitsOf(net), NEW g \in CommitsOf(net), f # g, f.on = g.on,
           CommitsOf(net) \subseteq {f, g}, node[n].branch = Append(g.on, g.c)
    PROVE  ~TheirsWin(g.c, f.c)
<1>1. /\ n \in Member /\ n \in Survivors /\ n \notin Bereft /\ inc[n] = 0
      /\ f \in Commits /\ f.k = "commit"
    BY DEF Survivors, CommitsOf, Commits
<1>2. PICK s : s = node[n]
    OBVIOUS
<1>3. /\ s \in Device /\ SeatInv(n, s, net, inc[n], killed) /\ NetInv(net)
      /\ net \subseteq Frame
    BY <1>1, <1>2, SeatFacts
<1>4. s.branch \in Seq(Commit) /\ Len(s.branch) \in Nat /\ s.base \in Nat
    BY <1>3, DeviceFacts
<1>5. f.c \in Commit /\ g.c \in Commit /\ g.on \in Seq(Commit) /\ Len(g.on) \in Nat
    BY <1>3, FrameFacts, CommitFacts
<1>6. /\ Len(s.branch) = Len(g.on) + 1 /\ s.branch[Len(g.on) + 1] = g.c
      /\ \A i \in 1 .. Len(g.on) : s.branch[i] = g.on[i]
    BY <1>2, <1>5, AppendFacts
<1>7. CASE f.c.by = n
    <2>1. n \notin killed
        BY <1>1, <1>7 DEF Bereft
    <2>2. TheirsWin(f.c, g.c)
        BY <1>1, <1>2, <1>3, <1>7, <2>1 DEF SeatInv, Yields
    <2>3. f.c.d # g.c.d
        BY <1>3 DEF NetInv, Distinct
    <2> QED BY <1>5, <2>2, <2>3, OneWins
<1>8. CASE f.c.by # n
    <2>1. SUFFICES ASSUME TheirsWin(g.c, f.c) PROVE FALSE
        OBVIOUS
    <2>2. s.base = 0
        BY <1>1, <1>3 DEF SeatInv, SeatBase, Rooted
    <2>3. s.armed
        BY <1>3, <1>5, <1>6, <2>2 DEF SeatInv, SeatBase, Fit
    <2>4. IsPrefix(g.on, s.branch)
        BY <1>4, <1>5, <1>6, PrefixFacts
    <2>5. Opens(s, f)
        BY <1>4, <1>5, <1>6, <2>2, <2>4, EpochsAssumption DEF Opens, Epoch
    <2>6. Last(s.branch) = g.c
        BY <1>6 DEF Last
    <2>7. Len(f.on) = Epoch(s) - 1
        BY <1>5, <1>6 DEF Epoch
    <2>8. MergesHere(s, n, f)
        BY <1>1, <1>8, <2>1, <2>3, <2>6, <2>7 DEF MergesHere
    <2> QED BY <1>1, <1>2, <2>5, <2>8 DEF Settled
<1> QED BY <1>7, <1>8

\* Two commits are all there are.
LEMMA OnlyTwo ==
    ASSUME NEW C, IsFiniteSet(C), Cardinality(C) <= 2, NEW f \in C, NEW g \in C, f # g
    PROVE  C \subseteq {f, g}
<1>1. SUFFICES ASSUME NEW h \in C, h # f, h # g PROVE FALSE
    OBVIOUS
<1>2. /\ IsFiniteSet(C \ {f}) /\ Cardinality(C \ {f}) = Cardinality(C) - 1
    BY FS_RemoveElement
<1>3. /\ IsFiniteSet((C \ {f}) \ {g}) /\ Cardinality((C \ {f}) \ {g}) = Cardinality(C) - 2
    <2>1. g \in C \ {f}
        OBVIOUS
    <2>2. /\ IsFiniteSet((C \ {f}) \ {g})
          /\ Cardinality((C \ {f}) \ {g}) = Cardinality(C \ {f}) - 1
        BY <1>2, <2>1, FS_RemoveElement
    <2> QED BY <1>2, <2>2, FS_CardinalityType
<1>4. Cardinality((C \ {f}) \ {g}) \in Nat /\ Cardinality(C) \in Nat
    BY <1>3, FS_CardinalityType
<1>5. Cardinality((C \ {f}) \ {g}) = 0
    BY <1>3, <1>4
<1>6. (C \ {f}) \ {g} = {}
    BY <1>3, <1>5, FS_EmptySet
<1> QED BY <1>1, <1>6

\* With two commits on one epoch a branch ends with one of them.
LEMMA EndsThere ==
    ASSUME NEW N, N \subseteq Frame, NEW f \in CommitsOf(N), NEW g \in CommitsOf(N),
           f.on = g.on, CommitsOf(N) \subseteq {f, g},
           NEW b \in Seq(Commit), Made(b, N), Len(b) > Len(g.on)
    PROVE  Len(b) = Len(g.on) + 1
<1>1. Len(g.on) \in Nat /\ Len(b) \in Nat
    BY FrameFacts
<1>2. SUFFICES ASSUME Len(b) >= Len(g.on) + 2 PROVE FALSE
    BY <1>1
<1>3. PICK k \in Nat : k = Len(g.on) + 2
    BY <1>1
<1>4. k \in 1 .. Len(b) /\ k - 1 \in 1 .. Len(b)
    BY <1>1, <1>2, <1>3
<1>5. PICK h \in CommitsOf(N) : h.on = SubSeq(b, 1, k - 1)
    BY <1>4 DEF Made
<1>6. Len(h.on) = k - 1
    BY <1>4, <1>5
<1>7. h.on = g.on
    BY <1>5
<1> QED BY <1>1, <1>3, <1>6, <1>7

\* No settled seat is behind another on its branch.
LEMMA NotBehind ==
    ASSUME IInv, Settled, NEW n \in Survivors \ Bereft, NEW m \in Member,
           \A i \in 1 .. Len(node[n].branch) : node[n].branch[i] = node[m].branch[i]
    PROVE  Len(node[n].branch) >= Len(node[m].branch)
<1>1. PICK b : b = node[n].branch
    OBVIOUS
<1>2. PICK e : e = node[m].branch
    OBVIOUS
<1>3. n \in Member
    BY DEF Survivors
<1>4. b \in Seq(Commit) /\ e \in Seq(Commit) /\ Made(e, net)
    BY <1>1, <1>2, <1>3, SeatFacts
<1>5. Len(b) \in Nat /\ Len(e) \in Nat
    BY <1>4
<1>6. SUFFICES ASSUME Len(b) < Len(e) PROVE FALSE
    BY <1>1, <1>2, <1>5
<1>7. PICK k \in Nat : k = Len(b) + 1
    BY <1>5
<1>8. k \in 1 .. Len(e)
    BY <1>5, <1>6, <1>7
<1>9. PICK f \in CommitsOf(net) : f.on = SubSeq(e, 1, k - 1)
    BY <1>4, <1>8 DEF Made
<1>10. SubSeq(e, 1, k - 1) = b
    <2>1. \A i \in 1 .. Len(b) : b[i] = e[i]
        BY <1>1, <1>2
    <2>2. PICK p : p = SubSeq(e, 1, Len(b))
        OBVIOUS
    <2>3. p \in Seq(Commit) /\ Len(p) = Len(b) /\ \A i \in 1 .. Len(b) : p[i] = e[i]
        BY <1>4, <1>5, <1>6, <2>2
    <2>4. p = b
        BY <1>4, <2>1, <2>3, SeqEqual
    <2> QED BY <1>5, <1>7, <2>2, <2>4
<1> QED BY <1>1, <1>9, <1>10, NoneAhead

\* Of two commits on one epoch no two settled seats stand on different ones.
LEMMA NotApart ==
    ASSUME IInv, Settled, NEW n \in Survivors \ Bereft, NEW m \in Survivors \ Bereft,
           NEW f \in CommitsOf(net), NEW g \in CommitsOf(net), f.c # g.c, f.on = g.on,
           CommitsOf(net) \subseteq {f, g},
           node[n].branch = Append(f.on, f.c), node[m].branch = Append(g.on, g.c)
    PROVE  FALSE
<1>1. n \in Member /\ f # g
    BY DEF Survivors
<1>2. NetInv(net) /\ net \subseteq Frame
    BY <1>1, SeatFacts
<1>3. f.c \in Commit /\ g.c \in Commit
    BY <1>2, FrameFacts, CommitFacts
<1>4. f.c.d # g.c.d
    BY <1>1, <1>2 DEF NetInv, Distinct
<1>5. ~TheirsWin(g.c, f.c)
    BY <1>1, BetterStays
<1>6. ~TheirsWin(f.c, g.c)
    BY <1>1, BetterStays
<1> QED BY <1>3, <1>4, <1>5, <1>6, OneWins

\* A branch that agrees with the epoch p before its last commit is p with it.
LEMMA LastOn ==
    ASSUME NEW b \in Seq(Commit), NEW k \in 1 .. Len(b), Len(b) = k,
           NEW p, p = SubSeq(b, 1, k - 1)
    PROVE  p \in Seq(Commit) /\ Len(p) = k - 1 /\ b = Append(p, b[k])
<1>1. k \in Nat /\ k - 1 \in Nat /\ Len(b) \in Nat
    OBVIOUS
<1>2. p \in Seq(Commit) /\ Len(p) = k - 1 /\ \A i \in 1 .. k - 1 : p[i] = b[i]
    BY <1>1
<1>3. b[k] \in Commit
    OBVIOUS
<1>4. PICK x : x = b[k]
    OBVIOUS
<1>5. PICK q : q = Append(p, x)
    OBVIOUS
<1>6. /\ q \in Seq(Commit) /\ Len(q) = k /\ q[k] = x
      /\ \A i \in 1 .. k - 1 : q[i] = p[i]
    BY <1>1, <1>2, <1>3, <1>4, <1>5, AppendFacts
<1>7. \A i \in 1 .. Len(b) : q[i] = b[i]
    BY <1>1, <1>2, <1>4, <1>6
<1>8. q = b
    BY <1>6, <1>7, SeqEqual
<1> QED BY <1>2, <1>4, <1>5, <1>8

\* Settled seats stand on one branch: where two branches first differ there are
\* two commits on one epoch, and both branches end there.
LEMMA OneBranch ==
    ASSUME IInv, Settled, Cardinality(Commits) <= 2,
           NEW n \in Survivors \ Bereft, NEW m \in Survivors \ Bereft
    PROVE  node[n].branch = node[m].branch
<1>1. n \in Member /\ m \in Member
    BY DEF Survivors
<1>2. PICK b : b = node[n].branch
    OBVIOUS
<1>3. PICK e : e = node[m].branch
    OBVIOUS
<1>4. /\ b \in Seq(Commit) /\ e \in Seq(Commit) /\ Made(b, net) /\ Made(e, net)
      /\ NetInv(net) /\ net \subseteq Frame
    BY <1>1, <1>2, <1>3, SeatFacts
<1>5. Len(b) \in Nat /\ Len(e) \in Nat
    BY <1>4
<1> DEFINE Apart == {k \in Nat : k \in 1 .. Len(b) /\ k \in 1 .. Len(e) /\ b[k] # e[k]}
<1>6. Apart = {}
    <2>1. SUFFICES ASSUME Apart # {} PROVE FALSE
        OBVIOUS
    <2>2. Apart \in SUBSET Nat
        OBVIOUS
    <2>3. PICK k \in Apart : \A j \in Apart : k <= j
        <3> HIDE DEF Apart
        <3> QED BY <2>1, <2>2, LeastNat
    <2>4. k \in Nat /\ k \in 1 .. Len(b) /\ k \in 1 .. Len(e) /\ b[k] # e[k]
        BY <2>3
    <2>5. \A i \in 1 .. k - 1 : b[i] = e[i]
        <3>1. SUFFICES ASSUME NEW i \in 1 .. k - 1, b[i] # e[i] PROVE FALSE
            OBVIOUS
        <3>2. i \in Nat /\ i \in 1 .. Len(b) /\ i \in 1 .. Len(e) /\ i < k
            BY <1>5, <2>4
        <3>3. i \in Apart
            BY <3>1, <3>2
        <3> QED BY <2>3, <2>4, <3>2, <3>3
    <2>6. PICK f \in CommitsOf(net) : f.c = b[k] /\ f.on = SubSeq(b, 1, k - 1)
        BY <1>4, <2>4 DEF Made
    <2>7. PICK g \in CommitsOf(net) : g.c = e[k] /\ g.on = SubSeq(e, 1, k - 1)
        BY <1>4, <2>4 DEF Made
    <2>8. f.on = g.on /\ Len(g.on) = k - 1
        <3>1. PICK p : p = SubSeq(b, 1, k - 1)
            OBVIOUS
        <3>2. PICK q : q = SubSeq(e, 1, k - 1)
            OBVIOUS
        <3>3. /\ p \in Seq(Commit) /\ Len(p) = k - 1 /\ \A i \in 1 .. k - 1 : p[i] = b[i]
              /\ q \in Seq(Commit) /\ Len(q) = k - 1 /\ \A i \in 1 .. k - 1 : q[i] = e[i]
            BY <1>4, <1>5, <2>4, <3>1, <3>2
        <3>4. p = q
            BY <2>5, <3>3, SeqEqual
        <3> QED BY <2>6, <2>7, <3>1, <3>2, <3>3, <3>4
    <2>9. f.c # g.c /\ f # g
        BY <2>4, <2>6, <2>7
    <2>10. CommitsOf(net) \subseteq {f, g}
        <3>1. CommitsOf(net) = Commits
            BY DEF CommitsOf, Commits
        <3>2. IsFiniteSet(CommitsOf(net))
            BY <1>4, FS_Subset DEF NetInv, CommitsOf
        <3> QED BY <2>9, <3>1, <3>2, OnlyTwo
    <2>11. Len(b) = k
        <3>1. Len(b) > Len(g.on)
            BY <1>5, <2>4, <2>8
        <3> QED BY <1>4, <1>5, <2>4, <2>8, <2>10, <3>1, EndsThere
    <2>12. Len(e) = k
        <3>1. Len(e) > Len(g.on)
            BY <1>5, <2>4, <2>8
        <3> QED BY <1>4, <1>5, <2>4, <2>8, <2>10, <3>1, EndsThere
    <2>13. b = Append(f.on, f.c)
        BY <1>4, <2>4, <2>6, <2>11, LastOn
    <2>14. e = Append(g.on, g.c)
        BY <1>4, <2>4, <2>7, <2>12, LastOn
    <2> QED BY <1>2, <1>3, <2>8, <2>9, <2>10, <2>13, <2>14, NotApart
<1>7. ASSUME NEW k \in 1 .. Len(b), k \in 1 .. Len(e) PROVE b[k] = e[k]
    <2>1. k \in Nat
        OBVIOUS
    <2> QED BY <1>6, <1>7, <2>1
<1>8. Len(b) = Len(e)
    <2>1. CASE Len(b) <= Len(e)
        <3>1. \A i \in 1 .. Len(b) : b[i] = e[i]
            BY <1>5, <1>7, <2>1
        <3>2. Len(b) >= Len(e)
            BY <1>1, <1>2, <1>3, <3>1, NotBehind
        <3> QED BY <1>5, <2>1, <3>2
    <2>2. CASE Len(e) <= Len(b)
        <3>1. \A i \in 1 .. Len(e) : e[i] = b[i]
            BY <1>5, <1>7, <2>2
        <3>2. Len(e) >= Len(b)
            BY <1>1, <1>2, <1>3, <3>1, NotBehind
        <3> QED BY <1>5, <2>2, <3>2
    <2> QED BY <1>5, <2>1, <2>2
<1>9. b = e
    BY <1>4, <1>7, <1>8, SeqEqual
<1> QED BY <1>2, <1>3, <1>9

\* Whatever the order in which two commits reached each seat, and whichever
\* seats were killed and came back to an older group, seats that have nothing
\* left to merge are on one epoch: for any number of seats.
THEOREM OneEpoch == Spec => []EpochsConverge
<1>1. ASSUME IInv PROVE EpochsConverge
    BY <1>1, OneBranch DEF EpochsConverge
<1> QED BY <1>1, Invariance, PTL

\* The commit of a device that the rival commit evicts is on no settled seat's
\* branch: for any number of seats and any arrival order.
THEOREM EvictedLoses == Spec => []EvictedCommitLoses
<1>1. ASSUME IInv PROVE EvictedCommitLoses
    <2>1. SUFFICES ASSUME Settled, Cardinality(Commits) <= 2, NEW n \in Survivors \ Bereft,
                          NEW f \in Commits, NEW g \in Commits, Rivals(f, g),
                          IsPrefix(Append(g.on, g.c), node[n].branch)
                   PROVE  FALSE
        BY DEF EvictedCommitLoses
    <2>2. CommitsOf(net) = Commits /\ n \in Member
        BY DEF CommitsOf, Commits, Survivors
    <2>3. PICK b : b = node[n].branch
        OBVIOUS
    <2>4. b \in Seq(Commit) /\ Made(b, net) /\ NetInv(net) /\ net \subseteq Frame
        BY <1>1, <2>2, <2>3, SeatFacts
    <2>5. f # g /\ f.on = g.on
        BY <2>1 DEF Rivals
    <2>6. TheirsWin(g.c, f.c)
        <3>1. f.c.re = g.c.by /\ g.c.re # f.c.by
            BY <2>1 DEF Rivals
        <3> QED BY <3>1, Zenon DEF TheirsWin
    <2>7. CommitsOf(net) \subseteq {f, g}
        <3>1. IsFiniteSet(CommitsOf(net))
            BY <2>4, FS_Subset DEF NetInv, CommitsOf
        <3> QED BY <2>1, <2>2, <2>5, <3>1, OnlyTwo
    <2>8. g.on \in Seq(Commit) /\ g.c \in Commit /\ Len(g.on) \in Nat
        BY <2>2, <2>4, FrameFacts, CommitFacts
    <2>9. PICK q : q = Append(g.on, g.c)
        OBVIOUS
    <2>10. q \in Seq(Commit) /\ Len(q) = Len(g.on) + 1
        BY <2>8, <2>9, AppendFacts
    <2>11. Len(q) <= Len(b) /\ \A i \in 1 .. Len(q) : q[i] = b[i]
        <3>1. IsPrefix(q, b)
            BY <2>1, <2>3, <2>9
        <3> QED BY <2>4, <2>10, <3>1, PrefixFacts
    <2>12. Len(b) \in Nat /\ Len(b) > Len(g.on)
        BY <2>4, <2>8, <2>10, <2>11
    <2>13. Len(b) = Len(g.on) + 1
        BY <2>2, <2>4, <2>5, <2>7, <2>12, EndsThere
    <2>14. b = q
        BY <2>4, <2>10, <2>11, <2>13, SeqEqual
    <2> QED BY <1>1, <2>1, <2>2, <2>3, <2>5, <2>6, <2>7, <2>9, <2>14, BetterStays
<1> QED BY <1>1, Invariance, PTL

=============================================================================
