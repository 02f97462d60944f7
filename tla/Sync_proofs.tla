---------------------------- MODULE Sync_proofs ----------------------------
(***************************************************************************)
(* Proofs about Sync: the buffers and the anchor keep their shape, and no  *)
(* seat stands on a branch that beats history another seat dropped at a    *)
(* cut.                                                                    *)
(*                                                                         *)
(* The second result does not look into the handlers.  They are shown to   *)
(* do six things to what the argument is about, which is the chains in     *)
(* memory (ch), those on disk (dk), the announced blocks (an) and the      *)
(* signatures under cuts (sg): sign a cut, grow a chain, write it down,    *)
(* announce a part of it, move to an announced chain that is better, and   *)
(* fall back to the disk.  Core is what these six keep.                    *)
(***************************************************************************)
EXTENDS Sync, FiniteSetTheorems, SequenceTheorems, WellFoundedInduction, TLAPS

Sealed == Change \cup {Cut}

\* The lineages within the bound.
Block == {b \in Seq(Sealed) : Len(b) <= MaxLen}

-----------------------------------------------------------------------------
(***************************************************************************)
(* The order of chains.                                                    *)
(***************************************************************************)

\* b starts like c, up to the height h.
Same(b, c, h) == h <= Len(b) /\ \A i \in 1 .. h : b[i] = c[i]

\* c leaves P at the height h, and wins the tie-break there.
TopsAt(c, h, P) == h <= Len(P) /\ (\A i \in 1 .. h - 1 : c[i] = P[i]) /\ c[h] < P[h]

Beats(c, P) == \E h \in 1 .. Len(c) : TopsAt(c, h, P)

Extends(c, P) == Same(c, P, Len(P))

AtLeast(c, P) == Extends(c, P) \/ Beats(c, P)

\* The changes are numbers.
LEMMA SealedNat == Sealed \subseteq Nat /\ Cut \in Sealed /\ MaxLen \in Nat /\ Window \in Nat \ {0}
BY ChangeAssumption, BoundAssumption DEF Sealed

\* The entries of a block are numbers.
LEMMA BlockFacts ==
    ASSUME NEW b \in Block
    PROVE  b \in Seq(Sealed) /\ Len(b) \in Nat /\ Len(b) <= MaxLen /\ \A i \in 1 .. Len(b) : b[i] \in Nat
<1>1. b \in Seq(Sealed) /\ Len(b) \in Nat /\ Len(b) <= MaxLen
    BY DEF Block
<1>2. \A i \in 1 .. Len(b) : b[i] \in Sealed
    BY <1>1
<1> QED BY <1>1, <1>2, SealedNat

\* A better chain is not topped by the worse one.
LEMMA NotTopped ==
    ASSUME NEW c \in Block, NEW P \in Block, AtLeast(P, c), NEW h \in 1 .. Len(c)
    PROVE  ~TopsAt(c, h, P)
<1>1. /\ Len(c) \in Nat /\ Len(P) \in Nat /\ \A i \in 1 .. Len(c) : c[i] \in Nat
      /\ \A i \in 1 .. Len(P) : P[i] \in Nat
    BY BlockFacts
<1>2. SUFFICES ASSUME TopsAt(c, h, P) PROVE FALSE
    OBVIOUS
<1>3. h <= Len(P) /\ (\A i \in 1 .. h - 1 : c[i] = P[i]) /\ c[h] < P[h]
    BY <1>2 DEF TopsAt
<1>4. h \in Nat /\ h \in 1 .. Len(P) /\ c[h] \in Nat /\ P[h] \in Nat
    BY <1>1, <1>3
<1>5. CASE Extends(P, c)
    <2>1. P[h] = c[h]
        BY <1>1, <1>5 DEF Extends, Same
    <2> QED BY <1>3, <1>4, <2>1
<1>6. CASE Beats(P, c)
    <2>1. PICK k \in 1 .. Len(P) : TopsAt(P, k, c)
        BY <1>6 DEF Beats
    <2>2. k <= Len(c) /\ (\A i \in 1 .. k - 1 : P[i] = c[i]) /\ P[k] < c[k]
        BY <2>1 DEF TopsAt
    <2>3. k \in Nat /\ k \in 1 .. Len(c) /\ c[k] \in Nat /\ P[k] \in Nat
        BY <1>1, <2>2
    <2>4. CASE k < h
        BY <1>1, <1>3, <2>2, <2>3, <2>4
    <2>5. CASE h < k
        BY <1>1, <1>3, <1>4, <2>2, <2>3, <2>5
    <2>6. CASE h = k
        BY <1>3, <1>4, <2>2, <2>6
    <2> QED BY <1>4, <2>3, <2>4, <2>5, <2>6
<1> QED BY <1>5, <1>6 DEF AtLeast

\* The order is transitive.
LEMMA BetterStill ==
    ASSUME NEW c \in Block, NEW d \in Block, NEW e \in Block, AtLeast(c, d), AtLeast(d, e)
    PROVE  AtLeast(c, e)
<1>1. /\ Len(c) \in Nat /\ Len(d) \in Nat /\ Len(e) \in Nat
      /\ \A i \in 1 .. Len(c) : c[i] \in Nat
      /\ \A i \in 1 .. Len(d) : d[i] \in Nat
      /\ \A i \in 1 .. Len(e) : e[i] \in Nat
    BY BlockFacts
<1>2. CASE Extends(c, d) /\ Extends(d, e)
    BY <1>1, <1>2 DEF Extends, Same, AtLeast
<1>3. CASE Extends(c, d) /\ Beats(d, e)
    <2>1. PICK h \in 1 .. Len(d) : TopsAt(d, h, e)
        BY <1>3 DEF Beats
    <2>2. h \in 1 .. Len(c) /\ \A i \in 1 .. h : c[i] = d[i]
        BY <1>1, <1>3 DEF Extends, Same
    <2>3. h \in 1 .. h /\ \A i \in 1 .. h - 1 : i \in 1 .. h
        BY <1>1
    <2>4. TopsAt(c, h, e)
        BY <2>1, <2>2, <2>3 DEF TopsAt
    <2> QED BY <2>2, <2>4 DEF AtLeast, Beats
<1>4. CASE Beats(c, d) /\ Extends(d, e)
    <2>1. PICK h \in 1 .. Len(c) : TopsAt(c, h, d)
        BY <1>4 DEF Beats
    <2>2. h <= Len(d) /\ (\A i \in 1 .. h - 1 : c[i] = d[i]) /\ c[h] < d[h]
        BY <2>1 DEF TopsAt
    <2>3. Len(e) <= Len(d) /\ \A i \in 1 .. Len(e) : d[i] = e[i]
        BY <1>4 DEF Extends, Same
    <2>4. CASE h <= Len(e)
        <3>1. TopsAt(c, h, e)
            <4>1. h \in 1 .. Len(e) /\ \A i \in 1 .. h - 1 : i \in 1 .. Len(e)
                BY <1>1, <2>4
            <4> QED BY <2>2, <2>3, <2>4, <4>1 DEF TopsAt
        <3> QED BY <3>1 DEF AtLeast, Beats
    <2>5. CASE Len(e) < h
        <3>1. Len(e) <= Len(c) /\ \A i \in 1 .. Len(e) : i \in 1 .. h - 1
            BY <1>1, <2>5
        <3>2. Extends(c, e)
            BY <2>2, <2>3, <3>1 DEF Extends, Same
        <3> QED BY <3>2 DEF AtLeast
    <2> QED BY <1>1, <2>4, <2>5
<1>5. CASE Beats(c, d) /\ Beats(d, e)
    <2>1. PICK h \in 1 .. Len(c) : TopsAt(c, h, d)
        BY <1>5 DEF Beats
    <2>2. PICK k \in 1 .. Len(d) : TopsAt(d, k, e)
        BY <1>5 DEF Beats
    <2>3. h <= Len(d) /\ (\A i \in 1 .. h - 1 : c[i] = d[i]) /\ c[h] < d[h]
        BY <2>1 DEF TopsAt
    <2>4. k <= Len(e) /\ (\A i \in 1 .. k - 1 : d[i] = e[i]) /\ d[k] < e[k]
        BY <2>2 DEF TopsAt
    <2>5. /\ c[h] \in Nat /\ d[h] \in Nat /\ d[k] \in Nat /\ e[k] \in Nat
          /\ h \in Nat /\ k \in Nat /\ 1 <= h /\ 1 <= k /\ h <= Len(c) /\ k <= Len(d)
        BY <1>1, <2>3, <2>4
    <2>6. CASE h < k
        <3>1. TopsAt(c, h, e)
            <4>1. h <= Len(e) /\ h \in 1 .. k - 1 /\ \A i \in 1 .. h - 1 : i \in 1 .. k - 1
                BY <1>1, <2>4, <2>5, <2>6
            <4> QED BY <2>3, <2>4, <4>1 DEF TopsAt
        <3> QED BY <3>1 DEF AtLeast, Beats
    <2>7. CASE h = k
        <3>1. c[h] < e[h]
            BY <2>3, <2>4, <2>5, <2>7
        <3>2. TopsAt(c, h, e)
            BY <2>3, <2>4, <2>7, <3>1 DEF TopsAt
        <3> QED BY <3>2 DEF AtLeast, Beats
    <2>8. CASE k < h
        <3>1. TopsAt(c, k, e)
            <4>1. k \in 1 .. h - 1 /\ \A i \in 1 .. k - 1 : i \in 1 .. h - 1
                BY <2>5, <2>8
            <4> QED BY <2>3, <2>4, <4>1 DEF TopsAt
        <3>2. k \in 1 .. Len(c)
            BY <1>1, <2>5, <2>8
        <3> QED BY <3>1, <3>2 DEF AtLeast, Beats
    <2> QED BY <2>5, <2>6, <2>7, <2>8
<1> QED BY <1>2, <1>3, <1>4, <1>5 DEF AtLeast

\* A chain is no worse than itself or a part of it.
LEMMA PartOf ==
    ASSUME NEW c \in Block, NEW b \in Block, Same(c, b, Len(b))
    PROVE  AtLeast(c, b)
BY DEF AtLeast, Extends

\* Where two chains agree, they top the same.
LEMMA SameTops ==
    ASSUME NEW b, NEW c, NEW h \in Nat \ {0}, \A i \in 1 .. h : b[i] = c[i], NEW P
    PROVE  TopsAt(b, h, P) <=> TopsAt(c, h, P)
<1>1. h \in 1 .. h /\ \A i \in 1 .. h - 1 : i \in 1 .. h
    OBVIOUS
<1> QED BY <1>1 DEF TopsAt

-----------------------------------------------------------------------------
(***************************************************************************)
(* What the six things keep.                                               *)
(***************************************************************************)

\* Nothing that j signed is topped by c at h.
Original(j, c, h, sg) == \A P \in Block : <<j, P>> \in sg => ~TopsAt(c, h, P)

\* A seat announced c up to h, and has signed nothing that c tops there.
Public(c, h, an, sg) ==
    \E m \in Member : (\E b \in an[m] : Same(b, c, h)) /\ Original(m, c, h, sg)

\* Every seat signed what lies below a cut of c.
CutsSigned(c, sg) ==
    \A h \in 1 .. Len(c) : c[h] = Cut =>
        \E P \in Block : /\ Len(P) = h - 1 /\ Same(P, c, h - 1)
                         /\ \A m \in Member : <<m, P>> \in sg

\* One chain of the seat j: where it came from, what it is no worse than, and
\* what its cuts rest on.
ChainOK(j, c, an, sg) ==
    /\ \A h \in 1 .. Len(c) : Public(c, h, an, sg) \/ Original(j, c, h, sg)
    /\ \A P \in Block : <<j, P>> \in sg => AtLeast(c, P)
    /\ \A b \in an[j] : AtLeast(c, b)
    /\ CutsSigned(c, sg)

Core(ch, dk, an, sg) ==
    /\ ch \in [Member -> Block] /\ dk \in [Member -> Block]
    /\ an \in [Member -> SUBSET Block] /\ sg \in SUBSET (Member \X Block)
    /\ \A j \in Member : ChainOK(j, ch[j], an, sg) /\ ChainOK(j, dk[j], an, sg)
    /\ \A j \in Member : \A b \in an[j] : CutsSigned(b, sg) /\ \A h \in 1 .. Len(b) : Public(b, h, an, sg)

\* Nobody is on a branch that beats what everybody signed.
LEMMA NobodyBeats ==
    ASSUME NEW ch, NEW dk, NEW an, NEW sg, Core(ch, dk, an, sg),
           NEW P \in Block, \A m \in Member : <<m, P>> \in sg,
           NEW k \in Member
    PROVE  ~Beats(ch[k], P)
<1>1. SUFFICES ASSUME NEW h \in 1 .. Len(ch[k]), TopsAt(ch[k], h, P) PROVE FALSE
    BY DEF Beats
<1>2. Public(ch[k], h, an, sg) \/ Original(k, ch[k], h, sg)
    BY DEF Core, ChainOK
<1>3. \E m \in Member : Original(m, ch[k], h, sg)
    BY <1>2 DEF Public
<1> QED BY <1>1, <1>3 DEF Original

\* The announced part of the state only grows.
LEMMA PublicGrows ==
    ASSUME NEW an, NEW bn, \A m \in Member : an[m] \subseteq bn[m],
           NEW sg, NEW c, NEW h, Public(c, h, an, sg)
    PROVE  Public(c, h, bn, sg)
BY DEF Public

\* A chain keeps its standing up to the height where it is kept.
LEMMA PublicPart ==
    ASSUME NEW an, NEW sg, NEW b, NEW c, NEW h \in Nat \ {0}, \A i \in 1 .. h : b[i] = c[i]
    PROVE  /\ Public(c, h, an, sg) => Public(b, h, an, sg)
           /\ \A j : Original(j, c, h, sg) => Original(j, b, h, sg)
<1>1. \A P : TopsAt(b, h, P) <=> TopsAt(c, h, P)
    BY SameTops
<1>2. \A j : Original(j, c, h, sg) => Original(j, b, h, sg)
    BY <1>1 DEF Original
<1>3. \A d : Same(d, c, h) => Same(d, b, h)
    BY DEF Same
<1> QED BY <1>2, <1>3 DEF Public

\* And its cuts theirs.
LEMMA CutsPart ==
    ASSUME NEW sg, NEW c \in Block, NEW b \in Block, Same(c, b, Len(b)), CutsSigned(c, sg)
    PROVE  CutsSigned(b, sg)
<1>0. Len(b) \in Nat /\ Len(c) \in Nat /\ Len(b) <= Len(c) /\ \A i \in 1 .. Len(b) : c[i] = b[i]
    BY BlockFacts DEF Same
<1>1. SUFFICES ASSUME NEW h \in 1 .. Len(b), b[h] = Cut
               PROVE  \E P \in Block : /\ Len(P) = h - 1 /\ Same(P, b, h - 1)
                                       /\ \A m \in Member : <<m, P>> \in sg
    BY DEF CutsSigned
<1>2. h \in 1 .. Len(c) /\ c[h] = Cut /\ \A i \in 1 .. h - 1 : i \in 1 .. Len(b)
    BY <1>0, <1>1
<1>3. PICK P \in Block : Len(P) = h - 1 /\ Same(P, c, h - 1) /\ \A m \in Member : <<m, P>> \in sg
    BY <1>2 DEF CutsSigned
<1>4. Same(P, b, h - 1)
    BY <1>0, <1>2, <1>3 DEF Same
<1> QED BY <1>3, <1>4

\* What the signature of n under its own chain does to a chain that has a
\* standing already.
LEMMA PublicSigned ==
    ASSUME NEW ch, NEW dk, NEW an, NEW sg, Core(ch, dk, an, sg), NEW n \in Member,
           NEW c \in Block, NEW h \in 1 .. Len(c), Public(c, h, an, sg)
    PROVE  Public(c, h, an, sg \cup {<<n, ch[n]>>})
<1>0. PICK m \in Member : (\E b \in an[m] : Same(b, c, h)) /\ Original(m, c, h, sg)
    BY DEF Public
<1>1. PICK b \in an[m] : Same(b, c, h) /\ Original(m, c, h, sg)
    BY <1>0
<1>2. Original(m, c, h, sg \cup {<<n, ch[n]>>})
    <2>1. SUFFICES ASSUME NEW P \in Block, <<m, P>> \in sg \cup {<<n, ch[n]>>} PROVE ~TopsAt(c, h, P)
        BY DEF Original
    <2>2. CASE <<m, P>> \in sg
        BY <1>1, <2>2 DEF Original
    <2>3. CASE <<m, P>> = <<n, ch[n]>>
        <3>1. m = n /\ P = ch[m]
            BY <2>3
        <3>2. AtLeast(P, b) /\ b \in Block
            BY <3>1 DEF Core, ChainOK
        <3>3. h \in Nat \ {0} /\ h \in 1 .. Len(b) /\ \A i \in 1 .. h : b[i] = c[i]
            BY <1>1, <3>2, BlockFacts DEF Same
        <3>4. ~TopsAt(b, h, P)
            BY <3>2, <3>3, NotTopped
        <3> QED BY <3>3, <3>4, SameTops
    <2> QED BY <2>1, <2>2, <2>3
<1> QED BY <1>1, <1>2 DEF Public

\* n signs a cut of its chain, which is on its disk.
LEMMA CoreSigns ==
    ASSUME NEW ch, NEW dk, NEW an, NEW sg, Core(ch, dk, an, sg), NEW n \in Member, dk[n] = ch[n]
    PROVE  Core(ch, dk, an, sg \cup {<<n, ch[n]>>})
<1>1. PICK tg : tg = sg \cup {<<n, ch[n]>>}
    OBVIOUS
<1>2. /\ ch \in [Member -> Block] /\ dk \in [Member -> Block]
      /\ an \in [Member -> SUBSET Block] /\ sg \in SUBSET (Member \X Block)
    BY DEF Core
<1>3. tg \in SUBSET (Member \X Block)
    BY <1>1, <1>2
<1>4. ASSUME NEW c, CutsSigned(c, sg) PROVE CutsSigned(c, tg)
    BY <1>1, <1>4 DEF CutsSigned
<1>5. ASSUME NEW c \in Block, NEW h \in 1 .. Len(c), Public(c, h, an, sg) PROVE Public(c, h, an, tg)
    BY <1>1, <1>5, PublicSigned
<1>6. ASSUME NEW j \in Member, NEW c \in Block, ChainOK(j, c, an, sg), j = n => c = ch[n]
      PROVE  ChainOK(j, c, an, tg)
    <2>1. ASSUME NEW h \in 1 .. Len(c) PROVE Public(c, h, an, tg) \/ Original(j, c, h, tg)
        <3>1. CASE Public(c, h, an, sg)
            BY <1>5, <3>1
        <3>2. CASE Original(j, c, h, sg)
            <4>1. SUFFICES ASSUME NEW P \in Block, <<j, P>> \in tg PROVE ~TopsAt(c, h, P)
                BY DEF Original
            <4>2. CASE <<j, P>> \in sg
                BY <3>2, <4>2 DEF Original
            <4>3. CASE <<j, P>> = <<n, ch[n]>>
                <5>1. P = c
                    BY <1>6, <4>3
                <5>2. AtLeast(P, c)
                    <6>1. Len(c) \in Nat
                        BY BlockFacts
                    <6> QED BY <5>1, <6>1 DEF AtLeast, Extends, Same
                <5> QED BY <5>2, NotTopped
            <4> QED BY <1>1, <4>1, <4>2, <4>3
        <3> QED BY <1>6, <3>1, <3>2 DEF ChainOK
    <2>2. ASSUME NEW P \in Block, <<j, P>> \in tg PROVE AtLeast(c, P)
        <3>1. CASE <<j, P>> \in sg
            BY <1>6, <3>1 DEF ChainOK
        <3>2. CASE <<j, P>> = <<n, ch[n]>>
            <4>1. P = c /\ Len(c) \in Nat
                BY <1>6, <3>2, BlockFacts
            <4> QED BY <4>1 DEF AtLeast, Extends, Same
        <3> QED BY <1>1, <2>2, <3>1, <3>2
    <2>3. (\A b \in an[j] : AtLeast(c, b)) /\ CutsSigned(c, tg)
        BY <1>4, <1>6 DEF ChainOK
    <2> QED BY <2>1, <2>2, <2>3 DEF ChainOK
<1>7. ASSUME NEW j \in Member PROVE ChainOK(j, ch[j], an, tg) /\ ChainOK(j, dk[j], an, tg)
    <2>1. ChainOK(j, ch[j], an, sg) /\ ChainOK(j, dk[j], an, sg) /\ ch[j] \in Block /\ dk[j] \in Block
        BY <1>2 DEF Core
    <2> QED BY <1>6, <2>1
<1>8. ASSUME NEW j \in Member, NEW b \in an[j]
      PROVE  CutsSigned(b, tg) /\ \A h \in 1 .. Len(b) : Public(b, h, an, tg)
    <2>1. CutsSigned(b, sg) /\ (\A h \in 1 .. Len(b) : Public(b, h, an, sg)) /\ b \in Block
        BY <1>2 DEF Core
    <2> QED BY <1>4, <1>5, <2>1
<1>9. Core(ch, dk, an, tg)
    BY <1>2, <1>3, <1>7, <1>8 DEF Core
<1> QED BY <1>1, <1>9

\* The chain of n grows by one block, in memory; a cut is signed by everybody.
LEMMA CoreGrows ==
    ASSUME NEW ch, NEW dk, NEW an, NEW sg, Core(ch, dk, an, sg), NEW n \in Member,
           NEW x \in Sealed, Len(ch[n]) < MaxLen,
           x = Cut => \A m \in Member : <<m, ch[n]>> \in sg
    PROVE  Core([ch EXCEPT ![n] = Append(ch[n], x)], dk, an, sg)
<1>1. PICK c, d : c = ch[n] /\ d = Append(c, x)
    OBVIOUS
<1>2. /\ ch \in [Member -> Block] /\ dk \in [Member -> Block]
      /\ an \in [Member -> SUBSET Block] /\ sg \in SUBSET (Member \X Block)
    BY DEF Core
<1>3. c \in Block /\ ChainOK(n, c, an, sg)
    BY <1>1, <1>2 DEF Core
<1>4. c \in Seq(Sealed) /\ Len(c) \in Nat /\ MaxLen \in Nat /\ Len(c) < MaxLen
    BY <1>1, <1>3, BlockFacts, SealedNat
<1>5. d \in Seq(Sealed) /\ Len(d) = Len(c) + 1 /\ d[Len(d)] = x /\ \A i \in 1 .. Len(c) : d[i] = c[i]
    BY <1>1, <1>4
<1>6. d \in Block
    BY <1>4, <1>5 DEF Block
<1>7. Same(d, c, Len(c))
    BY <1>4, <1>5 DEF Same
<1>8. AtLeast(d, c)
    BY <1>7 DEF AtLeast, Extends
<1>9. ASSUME NEW h \in 1 .. Len(d) PROVE Public(d, h, an, sg) \/ Original(n, d, h, sg)
    <2>1. CASE h <= Len(c)
        <3>1. h \in Nat \ {0} /\ h \in 1 .. Len(c) /\ \A i \in 1 .. h : d[i] = c[i]
            BY <1>4, <1>5, <2>1
        <3>2. Public(c, h, an, sg) \/ Original(n, c, h, sg)
            BY <1>3, <3>1 DEF ChainOK
        <3> QED BY <3>1, <3>2, PublicPart
    <2>2. CASE h > Len(c)
        <3>1. h = Len(c) + 1
            BY <1>4, <1>5, <2>2
        <3>2. SUFFICES ASSUME NEW P \in Block, <<n, P>> \in sg, TopsAt(d, h, P) PROVE FALSE
            BY DEF Original
        <3>3. AtLeast(c, P) /\ Len(P) \in Nat
            BY <1>3, <3>2, BlockFacts DEF ChainOK
        <3>4. h <= Len(P) /\ \A i \in 1 .. h - 1 : d[i] = P[i]
            BY <3>2 DEF TopsAt
        <3>5. ~Extends(c, P)
            BY <1>4, <3>1, <3>3, <3>4 DEF Extends, Same
        <3>6. PICK k \in 1 .. Len(c) : TopsAt(c, k, P)
            BY <3>3, <3>5 DEF AtLeast, Beats
        <3>7. c[k] < P[k] /\ k \in 1 .. Len(P) /\ k \in 1 .. h - 1
            BY <1>4, <3>1, <3>3, <3>4, <3>6 DEF TopsAt
        <3>8. c[k] = P[k] /\ c[k] \in Nat
            BY <1>3, <1>5, <3>4, <3>7, BlockFacts
        <3> QED BY <3>7, <3>8
    <2> QED BY <1>4, <1>5, <2>1, <2>2
<1>10. \A P \in Block : <<n, P>> \in sg => AtLeast(d, P)
    BY <1>3, <1>6, <1>8, BetterStill DEF ChainOK
<1>11. \A b \in an[n] : AtLeast(d, b)
    <2>1. \A b \in an[n] : AtLeast(c, b) /\ b \in Block
        BY <1>2, <1>3 DEF ChainOK
    <2> QED BY <1>3, <1>6, <1>8, <2>1, BetterStill
<1>12. CutsSigned(d, sg)
    <2>1. SUFFICES ASSUME NEW h \in 1 .. Len(d), d[h] = Cut
                   PROVE  \E P \in Block : /\ Len(P) = h - 1 /\ Same(P, d, h - 1)
                                           /\ \A m \in Member : <<m, P>> \in sg
        BY DEF CutsSigned
    <2>2. CASE h <= Len(c)
        <3>1. h \in 1 .. Len(c) /\ c[h] = Cut /\ \A i \in 1 .. h - 1 : d[i] = c[i]
            BY <1>4, <1>5, <2>1, <2>2
        <3>2. PICK P \in Block : Len(P) = h - 1 /\ Same(P, c, h - 1) /\ \A m \in Member : <<m, P>> \in sg
            BY <1>3, <3>1 DEF ChainOK, CutsSigned
        <3>3. Same(P, d, h - 1)
            BY <3>1, <3>2 DEF Same
        <3> QED BY <3>2, <3>3
    <2>3. CASE h > Len(c)
        <3>1. h = Len(c) + 1 /\ x = Cut /\ h - 1 = Len(c)
            BY <1>4, <1>5, <2>1, <2>3
        <3>2. Same(c, d, Len(c))
            BY <1>4, <1>5 DEF Same
        <3> QED BY <1>1, <1>3, <3>1, <3>2
    <2> QED BY <1>4, <1>5, <2>2, <2>3
<1>13. ChainOK(n, d, an, sg)
    BY <1>9, <1>10, <1>11, <1>12 DEF ChainOK
<1>14. PICK eh : eh = [ch EXCEPT ![n] = d]
    OBVIOUS
<1>15. eh \in [Member -> Block] /\ eh[n] = d /\ \A j \in Member : j # n => eh[j] = ch[j]
    BY <1>2, <1>6, <1>14
<1>16. \A j \in Member : ChainOK(j, eh[j], an, sg) /\ ChainOK(j, dk[j], an, sg)
    BY <1>13, <1>15 DEF Core
<1>17. Core(eh, dk, an, sg)
    BY <1>2, <1>15, <1>16 DEF Core
<1> QED BY <1>1, <1>14, <1>17

\* The chain of n is written down, or read back.
LEMMA CoreDisk ==
    ASSUME NEW ch, NEW dk, NEW an, NEW sg, Core(ch, dk, an, sg), NEW n \in Member
    PROVE  /\ Core(ch, [dk EXCEPT ![n] = ch[n]], an, sg)
           /\ Core([ch EXCEPT ![n] = dk[n]], dk, an, sg)
<1>1. PICK eh, ek : eh = [ch EXCEPT ![n] = dk[n]] /\ ek = [dk EXCEPT ![n] = ch[n]]
    OBVIOUS
<1>2. ch \in [Member -> Block] /\ dk \in [Member -> Block]
    BY DEF Core
<1>3. /\ eh \in [Member -> Block] /\ eh[n] = dk[n] /\ \A j \in Member : j # n => eh[j] = ch[j]
      /\ ek \in [Member -> Block] /\ ek[n] = ch[n] /\ \A j \in Member : j # n => ek[j] = dk[j]
    BY <1>1, <1>2
<1>4. \A j \in Member : ChainOK(j, eh[j], an, sg) /\ ChainOK(j, ek[j], an, sg)
    BY <1>3 DEF Core
<1>5. Core(ch, ek, an, sg) /\ Core(eh, dk, an, sg)
    BY <1>3, <1>4 DEF Core
<1> QED BY <1>1, <1>5

\* n announces parts of its chain, which is on its disk.
LEMMA CoreAnnounces ==
    ASSUME NEW ch, NEW dk, NEW an, NEW sg, Core(ch, dk, an, sg), NEW n \in Member, dk[n] = ch[n],
           NEW B \in SUBSET Block, \A b \in B : Same(ch[n], b, Len(b))
    PROVE  Core(ch, dk, [an EXCEPT ![n] = @ \cup B], sg)
<1>1. PICK bn : bn = [an EXCEPT ![n] = @ \cup B]
    OBVIOUS
<1>2. /\ ch \in [Member -> Block] /\ dk \in [Member -> Block]
      /\ an \in [Member -> SUBSET Block] /\ sg \in SUBSET (Member \X Block)
    BY DEF Core
<1>3. /\ bn \in [Member -> SUBSET Block] /\ bn[n] = an[n] \cup B
      /\ \A j \in Member : an[j] \subseteq bn[j] /\ (j # n => bn[j] = an[j])
    BY <1>1, <1>2
<1>4. ASSUME NEW c, NEW h, Public(c, h, an, sg) PROVE Public(c, h, bn, sg)
    BY <1>3, <1>4, PublicGrows
<1>5. ASSUME NEW j \in Member, NEW c \in Block, ChainOK(j, c, an, sg), j = n => c = ch[n]
      PROVE  ChainOK(j, c, bn, sg)
    <2>1. \A b \in bn[j] : AtLeast(c, b)
        <3>1. SUFFICES ASSUME NEW b \in bn[j] PROVE AtLeast(c, b)
            OBVIOUS
        <3>2. CASE b \in an[j]
            BY <1>5, <3>2 DEF ChainOK
        <3>3. CASE j = n /\ b \in B
            BY <1>5, <3>3, PartOf
        <3> QED BY <1>3, <3>1, <3>2, <3>3
    <2> QED BY <1>4, <1>5, <2>1 DEF ChainOK
<1>6. \A j \in Member : ChainOK(j, ch[j], bn, sg) /\ ChainOK(j, dk[j], bn, sg)
    <2>1. \A j \in Member : /\ ChainOK(j, ch[j], an, sg) /\ ch[j] \in Block
                            /\ ChainOK(j, dk[j], an, sg) /\ dk[j] \in Block
        BY <1>2 DEF Core
    <2> QED BY <1>5, <2>1
<1>7. ASSUME NEW b \in B PROVE CutsSigned(b, sg) /\ \A h \in 1 .. Len(b) : Public(b, h, bn, sg)
    <2>1. ChainOK(n, ch[n], an, sg) /\ ch[n] \in Block /\ Same(ch[n], b, Len(b)) /\ Len(b) \in Nat
        BY <1>2, BlockFacts DEF Core
    <2>2. CutsSigned(b, sg)
        BY <2>1, CutsPart DEF ChainOK
    <2>3. ASSUME NEW h \in 1 .. Len(b) PROVE Public(b, h, bn, sg)
        <3>1. /\ h \in Nat \ {0} /\ h \in 1 .. Len(ch[n]) /\ (\A i \in 1 .. h : b[i] = ch[n][i])
              /\ h <= Len(b)
            BY <2>1, BlockFacts DEF Same
        <3>2. CASE Public(ch[n], h, an, sg)
            BY <1>4, <3>1, <3>2, PublicPart
        <3>3. CASE Original(n, ch[n], h, sg)
            <4>1. Original(n, b, h, sg)
                BY <3>1, <3>3, PublicPart
            <4>2. Same(b, b, h) /\ b \in bn[n]
                BY <1>3, <3>1 DEF Same
            <4> QED BY <4>1, <4>2 DEF Public
        <3> QED BY <2>1, <3>1, <3>2, <3>3 DEF ChainOK
    <2> QED BY <2>2, <2>3
<1>8. ASSUME NEW j \in Member, NEW b \in bn[j]
      PROVE  CutsSigned(b, sg) /\ \A h \in 1 .. Len(b) : Public(b, h, bn, sg)
    <2>1. CASE b \in an[j]
        BY <1>4, <2>1 DEF Core
    <2>2. CASE b \in B
        BY <1>7, <2>2
    <2> QED BY <1>3, <2>1, <2>2
<1>9. Core(ch, dk, bn, sg)
    BY <1>2, <1>3, <1>6, <1>8 DEF Core
<1> QED BY <1>1, <1>9

\* A chain that holds a cut above the chain of n: the cut rests on n's own
\* signature too, so the chain of n is what the cut summarises.
LEMMA AboveACut ==
    ASSUME NEW ch, NEW dk, NEW an, NEW sg, Core(ch, dk, an, sg), NEW n \in Member,
           NEW c \in Block, CutsSigned(c, sg), NEW a \in 1 .. Len(c), c[a] = Cut, Len(ch[n]) < a
    PROVE  AtLeast(c, ch[n])
<1>1. PICK P \in Block : Len(P) = a - 1 /\ Same(P, c, a - 1) /\ \A m \in Member : <<m, P>> \in sg
    BY DEF CutsSigned
<1>2. ch[n] \in Block /\ AtLeast(ch[n], P)
    BY <1>1 DEF Core, ChainOK
<1>3. ~Beats(ch[n], P)
    BY <1>1, NobodyBeats
<1>4. Len(P) <= Len(ch[n]) /\ \A i \in 1 .. Len(P) : ch[n][i] = P[i]
    BY <1>2, <1>3 DEF AtLeast, Extends, Same
<1>5. Len(ch[n]) \in Nat /\ Len(c) \in Nat
    BY <1>2, BlockFacts
<1>6. Len(ch[n]) = a - 1
    BY <1>1, <1>4, <1>5
<1>7. Same(c, ch[n], Len(ch[n]))
    BY <1>1, <1>4, <1>5, <1>6 DEF Same
<1> QED BY <1>2, <1>7, PartOf

\* c is announced, and either better than d or above a cut that d is not.
Gains(c, d, Q) ==
    c \in Q /\ (AtLeast(c, d) \/ \E a \in 1 .. Len(c) : c[a] = Cut /\ Len(d) < a)

\* n moves to an announced chain, in memory.
LEMMA CoreMoves ==
    ASSUME NEW ch, NEW dk, NEW an, NEW sg, Core(ch, dk, an, sg), NEW n \in Member,
           NEW c, Gains(c, ch[n], UNION {an[m] : m \in Member})
    PROVE  Core([ch EXCEPT ![n] = c], dk, an, sg)
<1>1. /\ ch \in [Member -> Block] /\ dk \in [Member -> Block]
      /\ an \in [Member -> SUBSET Block] /\ sg \in SUBSET (Member \X Block)
    BY DEF Core
<1>2. PICK m \in Member : c \in an[m]
    BY DEF Gains
<1>3. c \in Block /\ CutsSigned(c, sg) /\ \A h \in 1 .. Len(c) : Public(c, h, an, sg)
    BY <1>1, <1>2 DEF Core
<1>4. AtLeast(c, ch[n])
    BY <1>3, AboveACut DEF Gains
<1>5. ch[n] \in Block /\ ChainOK(n, ch[n], an, sg)
    BY <1>1 DEF Core
<1>6. \A P \in Block : <<n, P>> \in sg => AtLeast(c, P)
    BY <1>3, <1>4, <1>5, BetterStill DEF ChainOK
<1>7. \A b \in an[n] : AtLeast(c, b)
    <2>1. \A b \in an[n] : AtLeast(ch[n], b) /\ b \in Block
        BY <1>1, <1>5 DEF ChainOK
    <2> QED BY <1>3, <1>4, <1>5, <2>1, BetterStill
<1>8. ChainOK(n, c, an, sg)
    BY <1>3, <1>6, <1>7 DEF ChainOK
<1>9. PICK eh : eh = [ch EXCEPT ![n] = c]
    OBVIOUS
<1>10. eh \in [Member -> Block] /\ eh[n] = c /\ \A j \in Member : j # n => eh[j] = ch[j]
    BY <1>1, <1>3, <1>9
<1>11. \A j \in Member : ChainOK(j, eh[j], an, sg) /\ ChainOK(j, dk[j], an, sg)
    BY <1>8, <1>10 DEF Core
<1>12. Core(eh, dk, an, sg)
    BY <1>1, <1>10, <1>11 DEF Core
<1> QED BY <1>9, <1>12

-----------------------------------------------------------------------------
(***************************************************************************)
(* Numbers, blocks and buffers.                                            *)
(***************************************************************************)

\* A set of natural numbers has a least element.
LEMMA LeastNat ==
    ASSUME NEW T \in SUBSET Nat, T # {}
    PROVE  \E x \in T : \A y \in T : x <= y
<1>1. PICK x \in T : \A y \in T : ~ (<<y, x>> \in OpToRel(<, Nat))
    BY NatLessThanWellFounded, WFMin
<1>2. \A y \in T : ~ (y < x)
    BY <1>1 DEF OpToRel
<1> QED BY <1>2

\* A bounded one has a greatest, which is what Max chooses.
LEMMA MaxFacts ==
    ASSUME NEW T \in SUBSET Nat, T # {}, NEW k \in Nat, \A x \in T : x <= k
    PROVE  Max(T) \in T /\ \A y \in T : y <= Max(T)
<1> DEFINE D == {k - x : x \in T}
<1>1. D \in SUBSET Nat /\ D # {}
    <2>1. \A x \in T : k - x \in Nat
        OBVIOUS
    <2>2. PICK x \in T : TRUE
        OBVIOUS
    <2>3. k - x \in D
        BY <2>2
    <2> QED BY <2>1, <2>3
<1>2. PICK d \in D : \A y \in D : d <= y
    BY <1>1, LeastNat
<1>3. PICK m \in T : d = k - m
    BY <1>2
<1>4. \A y \in T : m >= y
    <2>1. SUFFICES ASSUME NEW y \in T PROVE m >= y
        OBVIOUS
    <2>2. k - y \in D
        OBVIOUS
    <2>3. d <= k - y
        BY <1>2, <2>2
    <2> QED BY <1>3, <2>3
<1>5. \E x \in T : \A y \in T : x >= y
    BY <1>4
<1>6. Max(T) \in T /\ \A y \in T : Max(T) >= y
    BY <1>5 DEF Max
<1> QED BY <1>6

\* What Min chooses.
LEMMA MinFacts ==
    ASSUME NEW T \in SUBSET Nat, T # {}
    PROVE  Min(T) \in T /\ \A y \in T : Min(T) <= y
<1>1. \E x \in T : \A y \in T : x <= y
    BY LeastNat
<1> QED BY <1>1 DEF Min

\* The block of c at height h.
LEMMA BlockAtFacts ==
    ASSUME NEW c \in Block, NEW h \in 0 .. Len(c)
    PROVE  BlockAt(c, h) \in Block /\ Len(BlockAt(c, h)) = h /\ \A i \in 1 .. h : BlockAt(c, h)[i] = c[i]
<1>1. c \in Seq(Sealed) /\ Len(c) \in Nat /\ Len(c) <= MaxLen /\ MaxLen \in Nat
    BY BlockFacts, SealedNat
<1>2. /\ SubSeq(c, 1, h) \in Seq(Sealed) /\ Len(SubSeq(c, 1, h)) = h
      /\ \A i \in 1 .. h : SubSeq(c, 1, h)[i] = c[i]
    BY <1>1
<1> QED BY <1>1, <1>2 DEF BlockAt, Block

\* A chain extends each of its blocks.
LEMMA BlockAtExtends ==
    ASSUME NEW d \in Block, NEW c, NEW h \in 0 .. Len(d), BlockAt(d, h) = c
    PROVE  c \in Block /\ Len(c) = h /\ Extends(d, c)
<1>1. c \in Block /\ Len(c) = h /\ \A i \in 1 .. h : c[i] = d[i]
    BY BlockAtFacts
<1>2. h <= Len(d)
    BY BlockFacts
<1> QED BY <1>1, <1>2 DEF Extends, Same

\* The predecessor.
LEMMA PrevFacts ==
    ASSUME NEW b \in Block, Len(b) >= 1
    PROVE  Prev(b) = BlockAt(b, Len(b) - 1) /\ Len(b) - 1 \in 0 .. Len(b) /\ Prev(b) \in Block
           /\ Len(Prev(b)) = Len(b) - 1 /\ \A i \in 1 .. Len(b) - 1 : Prev(b)[i] = b[i]
<1>1. Len(b) \in Nat
    BY BlockFacts
<1>2. Len(b) - 1 \in 0 .. Len(b)
    BY <1>1
<1>3. Prev(b) = BlockAt(b, Len(b) - 1)
    BY DEF Prev, BlockAt
<1> QED BY <1>2, <1>3, BlockAtFacts

\* Blocks of a pool have a height.
Pool(Q) == Q \in SUBSET Block /\ \A b \in Q : Len(b) >= 1

BufOK(S, Q) == S \subseteq Q /\ IsFiniteSet(S) /\ OnePerHeight(S) /\ Cardinality(S) <= Window

\* An empty buffer, and a part of one.
LEMMA PartOfBuffer ==
    ASSUME NEW S, NEW Q, BufOK(S, Q), NEW R, R \subseteq S
    PROVE  BufOK(R, Q)
<1>1. IsFiniteSet(R) /\ Cardinality(R) <= Cardinality(S) /\ Cardinality(R) \in Nat /\ Cardinality(S) \in Nat
    BY FS_Subset, FS_CardinalityType DEF BufOK
<1>2. OnePerHeight(R)
    BY DEF BufOK, OnePerHeight
<1>3. Cardinality(R) <= Window
    BY <1>1, SealedNat DEF BufOK
<1> QED BY <1>1, <1>2, <1>3 DEF BufOK

\* An empty buffer.
LEMMA EmptyBuffer == \A Q : BufOK({}, Q)
BY FS_EmptySet, SealedNat DEF BufOK, OnePerHeight

\* The buffer with one more block.
LEMMA KeepFacts ==
    ASSUME NEW Q, Pool(Q), NEW S, BufOK(S, Q), NEW b \in Q
    PROVE  BufOK(Keep(S, b), Q) /\ Keep(S, b) # {}
<1>1. PICK R, all : R = {c \in S : Len(c) # Len(b)} /\ all = R \cup {b}
    OBVIOUS
<1>2. Keep(S, b) = IF Cardinality(all) <= Window THEN all
                   ELSE {c \in all : \E d \in all : Len(d) > Len(c)}
    BY <1>1 DEF Keep
<1>3. BufOK(R, Q)
    BY <1>1, PartOfBuffer
<1>4. Window \in Nat \ {0} /\ Cardinality(R) \in Nat /\ IsFiniteSet(R) /\ Cardinality(R) <= Window
    BY <1>3, SealedNat, FS_CardinalityType DEF BufOK
<1>5. b \notin R
    BY <1>1
<1>6. IsFiniteSet(all) /\ Cardinality(all) = Cardinality(R) + 1
    BY <1>1, <1>4, <1>5, FS_AddElement
<1>7. all \subseteq Q /\ b \in all
    BY <1>1, <1>3 DEF BufOK
<1>8. OnePerHeight(all)
    BY <1>1, <1>3 DEF BufOK, OnePerHeight
<1>9. CASE Cardinality(all) <= Window
    BY <1>2, <1>6, <1>7, <1>8, <1>9 DEF BufOK
<1>10. CASE ~(Cardinality(all) <= Window)
    <2>1. \A c \in all : c \in Block /\ Len(c) \in Nat /\ Len(c) <= MaxLen /\ MaxLen \in Nat
        BY <1>7, BlockFacts, SealedNat DEF Pool
    <2> DEFINE T == {Len(c) : c \in all}
    <2>2. T \in SUBSET Nat /\ T # {} /\ MaxLen \in Nat /\ \A x \in T : x <= MaxLen
        BY <1>7, <2>1
    <2>3. PICK k : k = Max(T)
        OBVIOUS
    <2>4. k \in T /\ \A y \in T : y <= k
        BY <2>2, <2>3, MaxFacts
    <2>5. PICK top \in all : Len(top) = k
        BY <2>4
    <2>6. \A c \in all : Len(c) <= Len(top)
        BY <2>4, <2>5
    <2> HIDE DEF T
    <2>7. PICK low : low = {c \in all : \E d \in all : Len(d) > Len(c)}
        OBVIOUS
    <2>8. low = all \ {top}
        <3>1. top \notin low
            BY <2>1, <2>6, <2>7
        <3>2. ASSUME NEW c \in all, c # top PROVE c \in low
            <4>1. Len(c) # Len(top)
                BY <1>8, <3>2 DEF OnePerHeight
            <4>2. Len(c) < Len(top)
                BY <2>1, <2>6, <4>1
            <4> QED BY <2>1, <2>7, <4>2
        <3> QED BY <2>7, <3>1, <3>2
    <2>9. IsFiniteSet(low) /\ Cardinality(low) = Cardinality(all) - 1
        BY <1>6, <2>5, <2>8, FS_RemoveElement
    <2>10. Cardinality(low) <= Window
        BY <1>4, <1>6, <2>9
    <2>11. OnePerHeight(low) /\ low \subseteq Q
        BY <1>7, <1>8, <2>8 DEF OnePerHeight
    <2>12. low # {}
        <3>1. Cardinality(low) >= 1
            BY <1>4, <1>6, <1>10, <2>9
        <3> QED BY <3>1, FS_EmptySet
    <2> QED BY <1>2, <1>10, <2>7, <2>9, <2>10, <2>11, <2>12 DEF BufOK
<1> QED BY <1>9, <1>10

\* The linked run that starts with c.
LEMMA RunFromFacts ==
    ASSUME NEW c \in Block, NEW S \in SUBSET Block, NEW r, r = RunFrom(c, S)
    PROVE  r \in Block /\ Extends(r, c) /\ (r = c \/ r \in S)
<1>1. PICK run : run = {d \in S : /\ Len(d) > Len(c) /\ BlockAt(d, Len(c)) = c
                                  /\ \A h \in Len(c) + 1 .. Len(d) : BlockAt(d, h) \in S}
    OBVIOUS
<1>2. r = IF run = {} THEN c ELSE CHOOSE d \in run : \A o \in run : Len(o) <= Len(d)
    BY <1>1 DEF RunFrom
<1>3. CASE run = {}
    <2>1. Len(c) \in Nat
        BY BlockFacts
    <2> QED BY <1>2, <1>3, <2>1 DEF Extends, Same
<1>4. CASE run # {}
    <2> DEFINE T == {Len(d) : d \in run}
    <2>1. \A d \in run : d \in Block /\ Len(d) \in Nat /\ Len(d) <= MaxLen
        BY <1>1, BlockFacts
    <2>2. T \in SUBSET Nat /\ T # {} /\ MaxLen \in Nat /\ \A x \in T : x <= MaxLen
        BY <1>4, <2>1, SealedNat
    <2>3. PICK k : k = Max(T)
        OBVIOUS
    <2>4. k \in T /\ \A y \in T : y <= k
        BY <2>2, <2>3, MaxFacts
    <2>5. \E d \in run : \A o \in run : Len(o) <= Len(d)
        BY <2>4
    <2>6. r \in run
        BY <1>2, <1>4, <2>5
    <2>7. r \in Block /\ r \in S /\ Len(r) > Len(c) /\ BlockAt(r, Len(c)) = c
        BY <1>1, <2>6
    <2>8. Len(c) \in 0 .. Len(r)
        BY <2>7, BlockFacts
    <2> QED BY <2>7, <2>8, BlockAtExtends
<1> QED BY <1>3, <1>4

-----------------------------------------------------------------------------
(***************************************************************************)
(* The handlers.  Q is the pool of the announced blocks.                   *)
(***************************************************************************)
BlobT == [upto : Nat, ids : SUBSET Sealed]

\* What a cut commits to.
LEMMA BlobFacts ==
    ASSUME NEW c \in Seq(Sealed)
    PROVE  Blob(c) \in BlobT
<1>1. DOMAIN c = 1 .. Len(c) /\ Len(c) \in Nat /\ \A h \in 1 .. Len(c) : c[h] \in Sealed
    OBVIOUS
<1>2. {c[h] : h \in DOMAIN c} \ {Cut} \in SUBSET Sealed
    BY <1>1
<1> QED BY <1>1, <1>2 DEF Blob, BlobT

\* No blob is one, too.
LEMMA NoBlobFacts == NoBlob \in BlobT
<1>1. <<>> \in Seq(Sealed)
    OBVIOUS
<1> QED BY <1>1, BlobFacts DEF NoBlob

SeatT == [chain : Block, base : Nat, pend : SUBSET Block, fork : SUBSET Block, catch : Nat,
          asks : BOOLEAN, blob : BlobT, top : Nat, served : SUBSET Member]

\* The anchor of a pruned chain is a cut.
Anchored(c, base) == base <= Len(c) /\ (base > 0 => c[base] = Cut)

SeatOK(s, Q) ==
    /\ s \in SeatT
    /\ Anchored(s.chain, s.base)
    /\ BufOK(s.pend, Q) /\ BufOK(s.fork, Q)
    /\ s.asks => s.catch >= 1

\* What a handler may do to a seat.
Result(t, s, Q) == SeatOK(t, Q) /\ (t.chain = s.chain \/ Gains(t.chain, s.chain, Q))

\* Asking.
LEMMA RequestFacts ==
    ASSUME NEW Q, NEW s, SeatOK(s, Q), NEW from \in Nat \ {0}, NEW t, t = RequestCatchup(s, from)
    PROVE  SeatOK(t, Q) /\ t.chain = s.chain
<1>1. CASE s.catch = from
    BY <1>1 DEF RequestCatchup
<1>2. CASE s.catch # from
    <2>1. t = [s EXCEPT !.catch = from, !.asks = TRUE] /\ s \in SeatT
        BY <1>2 DEF RequestCatchup, SeatOK
    <2>2. t \in SeatT
        BY <2>1 DEF SeatT
    <2>3. /\ t.chain = s.chain /\ t.base = s.base /\ t.pend = s.pend /\ t.fork = s.fork
          /\ t.catch = from
        BY <2>1 DEF SeatT
    <2> QED BY <2>2, <2>3 DEF SeatOK
<1> QED BY <1>1, <1>2

\* Pruning moves the anchor to a cut.
LEMMA PrunedFacts ==
    ASSUME NEW s \in SeatT, Anchored(s.chain, s.base), NEW h \in Nat, NEW p, p = Pruned(s, h)
    PROVE  p \in Nat /\ Anchored(s.chain, p)
<1>1. s.chain \in Block /\ s.base \in Nat /\ Len(s.chain) \in Nat /\ Height(s) = Len(s.chain)
    BY BlockFacts DEF SeatT, Height
<1> DEFINE T == {s.base} \cup {k \in h + 1 .. Height(s) : s.chain[k] = Cut}
<1>2. T \in SUBSET Nat /\ T # {} /\ \A x \in T : x <= Len(s.chain)
    BY <1>1 DEF Anchored
<1>3. p = Max(T)
    BY DEF Pruned
<1>4. p \in T
    BY <1>1, <1>2, <1>3, MaxFacts
<1> QED BY <1>1, <1>2, <1>4 DEF Anchored

\* A served checkpoint is adopted, dropped or kept.
LEMMA TryAdoptFacts ==
    ASSUME NEW Q, Pool(Q), NEW s, SeatOK(s, Q), ~s.asks, NEW t, t = TryAdoptFromBlob(s)
    PROVE  Result(t, s, Q)
<1>1. s \in SeatT /\ s.blob \in BlobT /\ s.blob.upto \in Nat /\ s.chain \in Block
    BY DEF SeatOK, SeatT, BlobT
<1>2. \A b \in s.pend : b \in Q /\ b \in Block /\ Len(b) \in Nat /\ Len(b) <= MaxLen
    BY BlockFacts DEF SeatOK, BufOK, Pool
<1>3. PICK u : u = [s EXCEPT !.blob = NoBlob]
    OBVIOUS
<1>4. Result(u, s, Q)
    <2>1. u \in SeatT
        BY <1>1, <1>3, NoBlobFacts DEF SeatT
    <2>2. /\ u.chain = s.chain /\ u.base = s.base /\ u.pend = s.pend /\ u.fork = s.fork
          /\ u.catch = s.catch /\ u.asks = s.asks
        BY <1>1, <1>3 DEF SeatT
    <2> QED BY <2>1, <2>2 DEF Result, SeatOK
<1>5. PICK a, held : a = s.blob.upto + 1 /\ held = {Len(b) : b \in s.pend}
    OBVIOUS
<1> DEFINE at(h) == CHOOSE b \in s.pend : Len(b) = h
           T == {h \in held : \A k \in a .. h : k \in held}
<1>6. PICK last : last = Max(T)
    OBVIOUS
<1>7. t = IF s.blob = NoBlob THEN s
          ELSE IF Height(s) > s.blob.upto THEN u
          ELSE IF a \notin held THEN s
          ELSE IF \/ Tip(at(a)) # Cut \/ Blob(Prev(at(a))) # s.blob
                  \/ \E h \in a .. last : at(h) # BlockAt(at(last), h)
          THEN u
          ELSE [s EXCEPT !.chain = at(last), !.base = a, !.blob = NoBlob,
                         !.pend = {b \in @ : Len(b) > last},
                         !.catch = IF @ <= last THEN 0 ELSE @]
    BY <1>3, <1>5, <1>6 DEF TryAdoptFromBlob
<1>8. Result(s, s, Q)
    BY DEF Result
<1>9. ASSUME ~(Height(s) > s.blob.upto), a \in held, Tip(at(a)) = Cut,
             \A h \in a .. last : at(h) = BlockAt(at(last), h),
             t = [s EXCEPT !.chain = at(last), !.base = a, !.blob = NoBlob,
                           !.pend = {b \in @ : Len(b) > last},
                           !.catch = IF @ <= last THEN 0 ELSE @]
      PROVE  Result(t, s, Q)
    <2>1. a \in Nat /\ held \in SUBSET Nat /\ \A x \in held : x <= MaxLen
        BY <1>1, <1>2, <1>5
    <2>2. T \in SUBSET Nat /\ a \in T /\ \A x \in T : x <= MaxLen
        BY <1>9, <2>1
    <2>3. last \in T /\ a <= last
        BY <1>6, <2>2, SealedNat, MaxFacts
    <2>4. last \in held /\ last \in Nat
        BY <2>2, <2>3
    <2>5. PICK c : c = at(last)
        OBVIOUS
    <2>6. c \in s.pend /\ Len(c) = last
        <3>1. \E b \in s.pend : Len(b) = last
            BY <1>5, <2>4
        <3> QED BY <2>5, <3>1
    <2>7. at(a) \in s.pend /\ Len(at(a)) = a
        <3>1. \E b \in s.pend : Len(b) = a
            BY <1>5, <1>9
        <3> QED BY <3>1
    <2>8. c[a] = Cut
        <3>1. a \in a .. last /\ a \in 0 .. Len(c) /\ a \in 1 .. a
            BY <1>1, <1>5, <2>1, <2>3, <2>4, <2>6
        <3>2. at(a) = BlockAt(c, a)
            BY <1>9, <2>5, <3>1
        <3>3. BlockAt(c, a)[a] = c[a]
            BY <1>2, <2>6, <3>1, BlockAtFacts
        <3> QED BY <1>9, <2>7, <3>2, <3>3 DEF Tip
    <2>9. PICK pd, cc : pd = {b \in s.pend : Len(b) > last} /\ cc = IF s.catch <= last THEN 0 ELSE s.catch
        OBVIOUS
    <2>10. cc \in Nat /\ pd \in SUBSET Block /\ c \in Block /\ s.catch \in Nat
        BY <1>1, <1>2, <2>6, <2>9 DEF SeatT
    <2>11. BufOK(pd, Q) /\ BufOK(s.fork, Q)
        BY <2>9, PartOfBuffer DEF SeatOK
    <2> HIDE DEF at
    <2>12. t = [s EXCEPT !.chain = c, !.base = a, !.blob = NoBlob, !.pend = pd, !.catch = cc]
        BY <1>9, <2>5, <2>9
    <2>13. t \in SeatT
        BY <1>1, <2>1, <2>10, <2>12, NoBlobFacts DEF SeatT
    <2>14. /\ t.chain = c /\ t.base = a /\ t.pend = pd /\ t.fork = s.fork /\ t.catch = cc
           /\ t.asks = s.asks
        BY <1>1, <2>12 DEF SeatT
    <2>15. Len(s.chain) < a
        <3>1. Len(s.chain) \in Nat /\ ~(Len(s.chain) > s.blob.upto)
            BY <1>1, <1>9, BlockFacts DEF Height
        <3> QED BY <1>1, <1>5, <3>1
    <2>16. a \in 1 .. Len(c) /\ c \in Q
        BY <1>1, <1>2, <1>5, <2>1, <2>3, <2>4, <2>6
    <2>17. Gains(c, s.chain, Q)
        BY <2>8, <2>15, <2>16 DEF Gains
    <2>18. SeatOK(t, Q)
        <3>1. Anchored(c, a)
            BY <2>3, <2>6, <2>8 DEF Anchored
        <3> QED BY <2>11, <2>13, <2>14, <3>1 DEF SeatOK
    <2> QED BY <2>14, <2>17, <2>18 DEF Result
<1> HIDE DEF at
<1>10. CASE s.blob = NoBlob
    BY <1>7, <1>8, <1>10
<1>11. CASE s.blob # NoBlob /\ Height(s) > s.blob.upto
    BY <1>4, <1>7, <1>11
<1>12. CASE s.blob # NoBlob /\ ~(Height(s) > s.blob.upto) /\ a \notin held
    BY <1>7, <1>8, <1>12
<1>13. CASE s.blob # NoBlob /\ ~(Height(s) > s.blob.upto) /\ a \in held
    <2>1. CASE \/ Tip(at(a)) # Cut \/ Blob(Prev(at(a))) # s.blob
               \/ \E h \in a .. last : at(h) # BlockAt(at(last), h)
        BY <1>4, <1>7, <1>13, <2>1
    <2>2. CASE ~(\/ Tip(at(a)) # Cut \/ Blob(Prev(at(a))) # s.blob
                 \/ \E h \in a .. last : at(h) # BlockAt(at(last), h))
        <3>1. t = [s EXCEPT !.chain = at(last), !.base = a, !.blob = NoBlob,
                            !.pend = {b \in @ : Len(b) > last},
                            !.catch = IF @ <= last THEN 0 ELSE @]
            BY <1>7, <1>13, <2>2
        <3> QED BY <1>9, <1>13, <2>2, <3>1
    <2> QED BY <2>1, <2>2
<1> QED BY <1>10, <1>11, <1>12, <1>13

\* A blob arrives.
LEMMA ReceiveBlobFacts ==
    ASSUME NEW Q, Pool(Q), NEW s, SeatOK(s, Q), ~s.asks, NEW blob \in BlobT,
           NEW t, t = ReceiveCheckpointBlob(s, blob)
    PROVE  Result(t, s, Q)
<1>1. CASE Height(s) >= blob.upto \/ s.blob # NoBlob
    BY <1>1 DEF ReceiveCheckpointBlob, Result
<1>2. CASE ~(Height(s) >= blob.upto \/ s.blob # NoBlob)
    <2>1. PICK u : u = [s EXCEPT !.blob = blob]
        OBVIOUS
    <2>2. t = TryAdoptFromBlob(u)
        BY <1>2, <2>1 DEF ReceiveCheckpointBlob
    <2>3. s \in SeatT
        BY DEF SeatOK
    <2>4. u \in SeatT
        BY <2>1, <2>3 DEF SeatT
    <2>5. /\ u.chain = s.chain /\ u.base = s.base /\ u.pend = s.pend /\ u.fork = s.fork
          /\ u.catch = s.catch /\ u.asks = s.asks
        BY <2>1, <2>3 DEF SeatT
    <2>6. SeatOK(u, Q) /\ ~u.asks
        BY <2>4, <2>5 DEF SeatOK
    <2>7. Result(t, u, Q)
        BY <2>2, <2>6, TryAdoptFacts
    <2> QED BY <2>5, <2>7 DEF Result
<1> QED BY <1>1, <1>2

\* A chain that extends another is no worse.
LEMMA ExtendsGains ==
    ASSUME NEW Q, NEW c \in Q, NEW d, Extends(c, d)
    PROVE  Gains(c, d, Q)
BY DEF Gains, AtLeast

\* The anchor stays where the chain is kept.
LEMMA AnchorKept ==
    ASSUME NEW c \in Block, NEW d \in Block, NEW base \in Nat, Anchored(c, base),
           NEW h \in Nat, base <= h, Same(d, c, h)
    PROVE  Anchored(d, base)
<1>1. Len(c) \in Nat /\ Len(d) \in Nat /\ h <= Len(d) /\ \A i \in 1 .. h : d[i] = c[i]
    BY BlockFacts DEF Same
<1> QED BY <1>1 DEF Anchored

\* The next block, and what was buffered behind it.
LEMMA ApplyNextFacts ==
    ASSUME NEW Q, Pool(Q), NEW s, SeatOK(s, Q), ~s.asks, NEW b \in Q, Prev(b) = s.chain,
           NEW t, t = ApplyNextBlock(s, b)
    PROVE  Result(t, s, Q)
<1>1. s \in SeatT /\ s.chain \in Block /\ s.base \in Nat /\ s.pend \in SUBSET Block /\ s.pend \subseteq Q
      /\ s.catch \in Nat /\ Anchored(s.chain, s.base)
    BY DEF SeatOK, SeatT, BufOK
<1>2. CASE ~VerifyNext(s.chain, Tip(b))
    BY <1>2 DEF ApplyNextBlock, Result
<1>3. CASE VerifyNext(s.chain, Tip(b))
    <2>1. PICK c : c = RunFrom(b, s.pend)
        OBVIOUS
    <2>2. PICK cc, pd : /\ cc = IF s.catch <= Len(c) THEN 0 ELSE s.catch
                        /\ pd = {d \in s.pend : Len(d) > Len(c) + 1}
        OBVIOUS
    <2>3. PICK u : u = [s EXCEPT !.chain = c, !.catch = cc, !.pend = pd]
        OBVIOUS
    <2>4. PICK p : p = Pruned(u, Height(s))
        OBVIOUS
    <2>5. t = [u EXCEPT !.base = p]
        BY <1>3, <2>1, <2>2, <2>3, <2>4 DEF ApplyNextBlock
    <2>6. b \in Block /\ Len(b) >= 1
        BY DEF Pool
    <2>7. c \in Block /\ Extends(c, b) /\ c \in Q
        BY <1>1, <2>1, <2>6, RunFromFacts
    <2>8. Extends(b, s.chain)
        BY <2>6, PrevFacts, BlockAtExtends
    <2>9. Extends(c, s.chain)
        <3>1. Len(b) \in Nat /\ Len(c) \in Nat /\ Len(s.chain) \in Nat
            BY <1>1, <2>6, <2>7, BlockFacts
        <3> QED BY <2>7, <2>8, <3>1 DEF Extends, Same
    <2>10. cc \in Nat /\ pd \in SUBSET Block /\ BufOK(pd, Q) /\ BufOK(s.fork, Q)
        <3>1. BufOK(pd, Q) /\ BufOK(s.fork, Q)
            BY <2>2, PartOfBuffer DEF SeatOK
        <3> QED BY <1>1, <2>2, <3>1
    <2>11. u \in SeatT
        BY <1>1, <2>3, <2>7, <2>10 DEF SeatT
    <2>12. u.chain = c /\ u.base = s.base /\ u.pend = pd /\ u.fork = s.fork /\ u.asks = s.asks
        BY <1>1, <2>3 DEF SeatT
    <2>13. Anchored(c, s.base) /\ Height(s) \in Nat
        <3>1. Len(s.chain) \in Nat /\ s.base <= Len(s.chain)
            BY <1>1, BlockFacts DEF Anchored
        <3> QED BY <1>1, <2>7, <2>9, <3>1, AnchorKept DEF Extends, Height
    <2>14. p \in Nat /\ Anchored(c, p)
        BY <2>4, <2>11, <2>12, <2>13, PrunedFacts
    <2>15. t \in SeatT
        BY <2>5, <2>11, <2>14 DEF SeatT
    <2>16. t.chain = c /\ t.base = p /\ t.pend = pd /\ t.fork = s.fork /\ t.asks = s.asks
        BY <2>5, <2>11, <2>12 DEF SeatT
    <2>17. SeatOK(t, Q)
        BY <2>10, <2>14, <2>15, <2>16 DEF SeatOK
    <2> QED BY <2>7, <2>9, <2>16, <2>17, ExtendsGains DEF Result
<1> QED BY <1>2, <1>3

\* A block with the same predecessor and a lower hash is better.
LEMMA SwapBeats ==
    ASSUME NEW c \in Block, NEW b \in Block, Len(b) >= 1, Len(b) <= Len(c),
           Prev(b) = BlockAt(c, Len(b) - 1), Tip(b) < c[Len(b)]
    PROVE  Beats(b, c) /\ Same(b, c, Len(b) - 1)
<1>1. Len(b) \in Nat /\ Len(c) \in Nat
    BY BlockFacts
<1>2. Len(b) - 1 \in 0 .. Len(c) /\ Len(b) \in 1 .. Len(b) /\ Len(b) - 1 <= Len(b)
    BY <1>1
<1>3. \A i \in 1 .. Len(b) - 1 : b[i] = c[i]
    <2>1. \A i \in 1 .. Len(b) - 1 : Prev(b)[i] = b[i]
        BY PrevFacts
    <2>2. \A i \in 1 .. Len(b) - 1 : BlockAt(c, Len(b) - 1)[i] = c[i]
        BY <1>2, BlockAtFacts
    <2> QED BY <2>1, <2>2
<1>4. TopsAt(b, Len(b), c)
    BY <1>3 DEF TopsAt, Tip
<1> QED BY <1>2, <1>3, <1>4 DEF Beats, Same

\* What extends a better chain is better.
LEMMA ExtendsBeats ==
    ASSUME NEW c \in Block, NEW b \in Block, NEW d \in Block, Extends(c, b), Beats(b, d)
    PROVE  AtLeast(c, d)
BY BetterStill DEF AtLeast

\* The deep tie-break: a request, a dropped branch, or a better chain.
LEMMA TryReorgFacts ==
    ASSUME NEW Q, Pool(Q), NEW s, SeatOK(s, Q), ~s.asks, s.fork # {}, NEW t, t = TryReorg(s)
    PROVE  Result(t, s, Q)
<1>1. /\ s \in SeatT /\ s.chain \in Block /\ s.base \in Nat /\ s.fork \in SUBSET Block
      /\ s.fork \subseteq Q /\ Anchored(s.chain, s.base) /\ Len(s.chain) \in Nat
      /\ Height(s) = Len(s.chain)
    BY BlockFacts DEF SeatOK, SeatT, BufOK, Height
<1>2. \A c \in s.fork : c \in Block /\ Len(c) \in Nat /\ Len(c) >= 1
    BY <1>1, BlockFacts DEF Pool
<1>3. PICK links : links = {c \in s.fork : /\ Len(c) \in s.base + 1 .. Height(s) + 1
                                           /\ Prev(c) = BlockAt(s.chain, Len(c) - 1)}
    OBVIOUS
<1>4. PICK lowest : lowest = Min({Len(c) : c \in s.fork})
    OBVIOUS
<1>5. PICK first : first = CHOOSE c \in links : \A d \in links : Len(c) <= Len(d)
    OBVIOUS
<1>6. PICK u : u = [s EXCEPT !.chain = RunFrom(first, s.fork), !.fork = {}, !.catch = 0]
    OBVIOUS
<1>7. t = IF links = {}
          THEN IF lowest > s.base + 1
               THEN RequestCatchup(s, Larger(lowest - 1, s.base + 1)) ELSE s
          ELSE IF Len(first) > Height(s) THEN s
          ELSE IF s.chain[Len(first)] <= Tip(first) THEN [s EXCEPT !.fork = {}]
          ELSE RequestCatchup([u EXCEPT !.base = Pruned(u, Len(first) - 1)], Height(u) + 1)
    BY <1>3, <1>4, <1>5, <1>6 DEF TryReorg
<1>8. Result(s, s, Q)
    BY DEF Result
<1>9. CASE links = {}
    <2>1. CASE lowest > s.base + 1
        <3> DEFINE T == {Len(c) : c \in s.fork}
        <3>1. T \in SUBSET Nat /\ T # {}
            BY <1>2
        <3>2. lowest \in Nat
            <4>1. lowest \in T
                BY <1>4, <3>1, MinFacts
            <4> QED BY <3>1, <4>1
        <3>3. Larger(lowest - 1, s.base + 1) \in Nat \ {0}
            BY <1>1, <2>1, <3>2 DEF Larger
        <3>4. t = RequestCatchup(s, Larger(lowest - 1, s.base + 1))
            BY <1>7, <1>9, <2>1
        <3> QED BY <3>3, <3>4, RequestFacts DEF Result
    <2>2. CASE ~(lowest > s.base + 1)
        BY <1>7, <1>8, <1>9, <2>2
    <2> QED BY <2>1, <2>2
<1>10. CASE links # {}
    <2>1. first \in links
        <3> DEFINE T == {Len(c) : c \in links}
        <3>1. T \in SUBSET Nat /\ T # {}
            BY <1>2, <1>3, <1>10
        <3>2. PICK k \in T : \A y \in T : k <= y
            BY <3>1, LeastNat
        <3>3. \E c \in links : \A d \in links : Len(c) <= Len(d)
            BY <3>2
        <3> QED BY <1>5, <3>3
    <2>2. /\ first \in s.fork /\ first \in Block /\ Len(first) \in Nat /\ Len(first) >= 1
          /\ Len(first) \in s.base + 1 .. Height(s) + 1 /\ Prev(first) = BlockAt(s.chain, Len(first) - 1)
        BY <1>2, <1>3, <2>1
    <2>3. CASE Len(first) > Height(s)
        BY <1>7, <1>8, <1>10, <2>3
    <2>4. CASE ~(Len(first) > Height(s)) /\ s.chain[Len(first)] <= Tip(first)
        <3>1. t = [s EXCEPT !.fork = {}]
            BY <1>7, <1>10, <2>4
        <3>2. t \in SeatT
            BY <1>1, <3>1 DEF SeatT
        <3>3. /\ t.chain = s.chain /\ t.base = s.base /\ t.pend = s.pend /\ t.fork = {}
              /\ t.asks = s.asks
            BY <1>1, <3>1 DEF SeatT
        <3> QED BY <3>2, <3>3, EmptyBuffer DEF Result, SeatOK
    <2>5. CASE ~(Len(first) > Height(s)) /\ ~(s.chain[Len(first)] <= Tip(first))
        <3>1. PICK c : c = RunFrom(first, s.fork)
            OBVIOUS
        <3>2. c \in Block /\ Extends(c, first) /\ c \in Q
            BY <1>1, <2>2, <3>1, RunFromFacts
        <3>3. Beats(first, s.chain) /\ Same(first, s.chain, Len(first) - 1)
            <4>1. Len(first) <= Len(s.chain)
                BY <1>1, <2>2, <2>5
            <4>2. Tip(first) < s.chain[Len(first)]
                <5>1. Len(first) \in 1 .. Len(s.chain) /\ Len(first) \in 1 .. Len(first)
                    BY <1>1, <2>2, <4>1
                <5>2. s.chain[Len(first)] \in Nat /\ first[Len(first)] \in Nat
                    BY <1>1, <2>2, <5>1, BlockFacts
                <5> QED BY <2>5, <5>2 DEF Tip
            <4> QED BY <1>1, <2>2, <4>1, <4>2, SwapBeats
        <3>4. AtLeast(c, s.chain)
            BY <1>1, <2>2, <3>2, <3>3, ExtendsBeats
        <3>5. u \in SeatT
            BY <1>1, <1>6, <3>1, <3>2 DEF SeatT
        <3>6. u.chain = c /\ u.base = s.base /\ u.pend = s.pend /\ u.fork = {} /\ u.asks = s.asks
            BY <1>1, <1>6, <3>1 DEF SeatT
        <3>7. Anchored(c, s.base)
            <4>1. Len(first) - 1 \in Nat /\ s.base <= Len(first) - 1
                BY <1>1, <2>2
            <4>2. Same(c, s.chain, Len(first) - 1)
                <5>1. Len(c) \in Nat
                    BY <3>2, BlockFacts
                <5> QED BY <2>2, <3>2, <3>3, <5>1 DEF Extends, Same
            <4> QED BY <1>1, <3>2, <4>1, <4>2, AnchorKept
        <3>8. PICK p : p = Pruned(u, Len(first) - 1)
            OBVIOUS
        <3>9. p \in Nat /\ Anchored(c, p)
            <4>1. Len(first) - 1 \in Nat
                BY <2>2
            <4> QED BY <3>5, <3>6, <3>7, <3>8, <4>1, PrunedFacts
        <3>10. PICK v : v = [u EXCEPT !.base = p]
            OBVIOUS
        <3>11. v \in SeatT
            BY <3>5, <3>9, <3>10 DEF SeatT
        <3>12. v.chain = c /\ v.base = p /\ v.pend = s.pend /\ v.fork = {} /\ v.asks = s.asks
            BY <3>5, <3>6, <3>10 DEF SeatT
        <3>13. SeatOK(v, Q)
            BY <3>9, <3>11, <3>12, EmptyBuffer DEF SeatOK
        <3>14. Height(u) + 1 \in Nat \ {0}
            BY <3>2, <3>6, BlockFacts DEF Height
        <3>15. t = RequestCatchup(v, Height(u) + 1)
            BY <1>7, <1>10, <2>5, <3>8, <3>10
        <3>16. SeatOK(t, Q) /\ t.chain = c
            BY <3>12, <3>13, <3>14, <3>15, RequestFacts
        <3> QED BY <3>2, <3>4, <3>16 DEF Result, Gains
    <2> QED BY <2>3, <2>4, <2>5
<1> QED BY <1>9, <1>10

\* A block of another branch.
LEMMA StashFacts ==
    ASSUME NEW Q, Pool(Q), NEW s, SeatOK(s, Q), ~s.asks, NEW b \in Q, NEW t, t = StashAndReorg(s, b)
    PROVE  Result(t, s, Q)
<1>1. PICK S : S = Keep(s.fork, b)
    OBVIOUS
<1>2. BufOK(S, Q) /\ S # {} /\ s \in SeatT
    BY <1>1, KeepFacts DEF SeatOK
<1>3. PICK u : u = [s EXCEPT !.fork = S]
    OBVIOUS
<1>4. t = TryReorg(u)
    BY <1>1, <1>3 DEF StashAndReorg
<1>5. S \in SUBSET Block
    BY <1>2 DEF BufOK, Pool
<1>6. u \in SeatT
    BY <1>2, <1>3, <1>5 DEF SeatT
<1>7. /\ u.chain = s.chain /\ u.base = s.base /\ u.pend = s.pend /\ u.fork = S
      /\ u.asks = s.asks
    BY <1>2, <1>3 DEF SeatT
<1>8. SeatOK(u, Q) /\ ~u.asks /\ u.fork # {}
    BY <1>2, <1>6, <1>7 DEF SeatOK
<1>9. Result(t, u, Q)
    BY <1>4, <1>8, TryReorgFacts
<1> QED BY <1>7, <1>9 DEF Result

\* A contender for a height that is filled.
LEMMA TieBreakFacts ==
    ASSUME NEW Q, Pool(Q), NEW s, SeatOK(s, Q), ~s.asks, NEW b \in Q, Len(b) <= Height(s),
           NEW t, t = TieBreak(s, b)
    PROVE  Result(t, s, Q)
<1>1. /\ s \in SeatT /\ s.chain \in Block /\ s.base \in Nat /\ Anchored(s.chain, s.base)
      /\ Len(s.chain) \in Nat /\ Height(s) = Len(s.chain)
      /\ b \in Block /\ Len(b) \in Nat /\ Len(b) >= 1
    BY BlockFacts DEF SeatOK, SeatT, Height, Pool
<1>2. PICK shared \in BOOLEAN : shared = (Len(b) = s.base \/ Prev(b) = BlockAt(s.chain, Len(b) - 1))
    OBVIOUS
<1>3. PICK u : u = [s EXCEPT !.chain = b]
    OBVIOUS
<1>4. t = IF Len(b) < s.base \/ b = BlockAt(s.chain, Len(b)) THEN s
          ELSE IF ~shared \/ Len(b) < Height(s) THEN StashAndReorg(s, b)
          ELSE IF Len(b) > s.base /\ Tip(b) < s.chain[Len(b)]
          THEN [u EXCEPT !.base = Pruned(u, Len(b) - 1)]
          ELSE s
    BY <1>2, <1>3 DEF TieBreak
<1>5. Result(s, s, Q)
    BY DEF Result
<1>6. Result(StashAndReorg(s, b), s, Q)
    BY StashFacts
<1>7. ASSUME shared, ~(Len(b) < Height(s)), Len(b) > s.base, Tip(b) < s.chain[Len(b)],
             t = [u EXCEPT !.base = Pruned(u, Len(b) - 1)]
      PROVE  Result(t, s, Q)
    <2>1. Len(b) = Len(s.chain) /\ Prev(b) = BlockAt(s.chain, Len(b) - 1)
        <3>1. Len(b) = Len(s.chain) /\ Len(b) # s.base
            BY <1>1, <1>7
        <3>2. Len(b) = s.base \/ Prev(b) = BlockAt(s.chain, Len(b) - 1)
            BY <1>2, <1>7, Zenon
        <3> QED BY <3>1, <3>2
    <2>2. Beats(b, s.chain) /\ Same(b, s.chain, Len(b) - 1)
        BY <1>1, <1>7, <2>1, SwapBeats
    <2>3. Anchored(b, s.base) /\ Len(b) - 1 \in Nat
        <3>1. Len(b) - 1 \in Nat /\ s.base <= Len(b) - 1
            BY <1>1, <1>7
        <3> QED BY <1>1, <2>2, <3>1, AnchorKept
    <2>4. u \in SeatT
        BY <1>1, <1>3 DEF SeatT
    <2>5. /\ u.chain = b /\ u.base = s.base /\ u.pend = s.pend /\ u.fork = s.fork
          /\ u.asks = s.asks
        BY <1>1, <1>3 DEF SeatT
    <2>6. PICK p : p = Pruned(u, Len(b) - 1)
        OBVIOUS
    <2>7. p \in Nat /\ Anchored(b, p)
        BY <2>3, <2>4, <2>5, <2>6, PrunedFacts
    <2>8. t = [u EXCEPT !.base = p]
        BY <1>7, <2>6
    <2>9. t \in SeatT
        BY <2>4, <2>7, <2>8 DEF SeatT
    <2>10. t.chain = b /\ t.base = p /\ t.pend = s.pend /\ t.fork = s.fork /\ t.asks = s.asks
        BY <2>4, <2>5, <2>8 DEF SeatT
    <2>11. SeatOK(t, Q)
        BY <2>7, <2>9, <2>10 DEF SeatOK
    <2> QED BY <2>2, <2>10, <2>11 DEF Result, Gains, AtLeast
<1> QED BY <1>4, <1>5, <1>6, <1>7

\* A block beyond the next height.
LEMMA BufferFacts ==
    ASSUME NEW Q, Pool(Q), NEW s, SeatOK(s, Q), ~s.asks, NEW b \in Q, NEW t, t = Buffer(s, b)
    PROVE  Result(t, s, Q)
<1>1. s \in SeatT /\ Height(s) \in Nat
    BY BlockFacts DEF SeatOK, SeatT, Height
<1>3. PICK S : S = Keep({c \in s.pend : Len(c) > Height(s)}, b)
    OBVIOUS
<1>4. PICK u : u = [s EXCEPT !.pend = S]
    OBVIOUS
<1>5. t = IF Beyond(s, b) THEN s
          ELSE RequestCatchup(TryAdoptFromBlob(u), Height(s) + 1)
    BY <1>3, <1>4 DEF Buffer
<1>6. CASE Beyond(s, b)
    BY <1>5, <1>6 DEF Result
<1>7. CASE ~Beyond(s, b)
    <2>1. BufOK({c \in s.pend : Len(c) > Height(s)}, Q)
        <3>1. PICK R : R = {c \in s.pend : Len(c) > Height(s)}
            OBVIOUS
        <3>2. R \subseteq s.pend /\ BufOK(s.pend, Q)
            BY <3>1 DEF SeatOK
        <3> QED BY <3>1, <3>2, PartOfBuffer
    <2>2. BufOK(S, Q)
        BY <1>3, <2>1, KeepFacts
    <2>3. S \in SUBSET Block
        BY <2>2 DEF BufOK, Pool
    <2>4. u \in SeatT
        BY <1>1, <1>4, <2>3 DEF SeatT
    <2>5. /\ u.chain = s.chain /\ u.base = s.base /\ u.pend = S /\ u.fork = s.fork
          /\ u.asks = s.asks
        BY <1>1, <1>4 DEF SeatT
    <2>6. SeatOK(u, Q) /\ ~u.asks
        BY <2>2, <2>4, <2>5 DEF SeatOK
    <2>7. PICK v : v = TryAdoptFromBlob(u)
        OBVIOUS
    <2>8. Result(v, u, Q)
        BY <2>6, <2>7, TryAdoptFacts
    <2>9. t = RequestCatchup(v, Height(s) + 1) /\ Height(s) + 1 \in Nat \ {0} /\ SeatOK(v, Q)
        BY <1>1, <1>5, <1>7, <2>7, <2>8 DEF Result
    <2>10. SeatOK(t, Q) /\ t.chain = v.chain
        BY <2>9, RequestFacts
    <2> QED BY <2>5, <2>8, <2>10 DEF Result
<1> QED BY <1>6, <1>7

\* A block arrives.
LEMMA ReceiveBlockFacts ==
    ASSUME NEW Q, Pool(Q), NEW s, SeatOK(s, Q), ~s.asks, NEW b \in Q, NEW t, t = ReceiveBlockFrom(s, b)
    PROVE  Result(t, s, Q)
<1>1. s \in SeatT /\ s.top \in Nat /\ Len(b) \in Nat /\ b \in Block
    BY BlockFacts DEF SeatOK, SeatT, Pool
<1>2. PICK k : k = Larger(s.top, Len(b))
    OBVIOUS
<1>3. k \in Nat
    BY <1>1, <1>2 DEF Larger
<1>4. PICK u : u = [s EXCEPT !.top = k]
    OBVIOUS
<1>5. u \in SeatT
    BY <1>1, <1>3, <1>4 DEF SeatT
<1>6. /\ u.chain = s.chain /\ u.base = s.base /\ u.pend = s.pend /\ u.fork = s.fork
      /\ u.asks = s.asks /\ u.catch = s.catch
    BY <1>1, <1>4 DEF SeatT
<1>7. SeatOK(u, Q) /\ ~u.asks
    BY <1>5, <1>6 DEF SeatOK
<1>8. t = IF Len(b) <= Height(u) THEN TieBreak(u, b)
          ELSE IF Len(b) > Height(u) + 1 THEN Buffer(u, b)
          ELSE IF Prev(b) = u.chain THEN ApplyNextBlock(u, b)
          ELSE StashAndReorg(u, b)
    BY <1>2, <1>4 DEF ReceiveBlockFrom
<1>9. Result(t, u, Q)
    BY <1>7, <1>8, TieBreakFacts, BufferFacts, ApplyNextFacts, StashFacts
<1> QED BY <1>6, <1>9 DEF Result

-----------------------------------------------------------------------------
(***************************************************************************)
(* The inductive invariant.                                                *)
(***************************************************************************)
Event == [t : {"committed", "blob", "request"}, b : Seq(Sealed), blob : BlobT, from : Nat,
          known : SUBSET Block]

EventOK(e) ==
    /\ e.t = "committed" => e.b \in Block /\ Len(e.b) >= 1
    /\ e.t = "request" => e.from >= 1 /\ e.known # {}

EventsOK(L) == L \in Seq(Event) /\ \A i \in 1 .. Len(L) : EventOK(L[i])

\* The blocks a log announces.
Spoken(L) == {b \in Block : \E i \in 1 .. Len(L) : L[i].t = "committed" /\ L[i].b = b}

Told == [m \in Member |-> Spoken(log[m])]
Chains == [m \in Member |-> seat[m].chain]
Disks == [m \in Member |-> disk[m].chain]

PoolNow == UNION {Told[m] : m \in Member}

Shape ==
    /\ seat \in [Member -> SeatT] /\ disk \in [Member -> [chain : Block, base : Nat]]
    /\ cutSigs \in SUBSET (Member \X Block)
    /\ log \in [Member -> Seq(Event)] /\ \A m \in Member : EventsOK(log[m])
    /\ got \in [Member -> [Member -> Nat]]
    /\ \A m \in Member : SeatOK(seat[m], PoolNow) /\ seat[m].asks = FALSE
    /\ \A m \in Member : Anchored(disk[m].chain, disk[m].base)

IInv == Shape /\ voided \in BOOLEAN /\ (~voided => Core(Chains, Disks, Told, cutSigs))

\* What two logs announce in a row.
LEMMA SpokenConcat ==
    ASSUME NEW L, NEW ev, EventsOK(L), EventsOK(ev)
    PROVE  EventsOK(L \o ev) /\ Spoken(L \o ev) = Spoken(L) \cup Spoken(ev)
<1>1. L \in Seq(Event) /\ ev \in Seq(Event)
    BY DEF EventsOK
<1>2. PICK K : K = L \o ev
    OBVIOUS
<1>3. K \in Seq(Event) /\ Len(K) = Len(L) + Len(ev) /\ Len(L) \in Nat /\ Len(ev) \in Nat
    BY <1>1, <1>2
<1>4. \A i \in 1 .. Len(L) : K[i] = L[i]
    BY <1>1, <1>2
<1>5. \A i \in 1 .. Len(ev) : K[Len(L) + i] = ev[i]
    BY <1>1, <1>2
<1>6. \A i \in 1 .. Len(K) : \/ i \in 1 .. Len(L) /\ K[i] = L[i]
                             \/ \E j \in 1 .. Len(ev) : K[i] = ev[j]
    <2>1. SUFFICES ASSUME NEW i \in 1 .. Len(K), i \notin 1 .. Len(L)
                   PROVE  \E j \in 1 .. Len(ev) : K[i] = ev[j]
        BY <1>4
    <2>2. i - Len(L) \in 1 .. Len(ev) /\ Len(L) + (i - Len(L)) = i
        BY <1>3, <2>1
    <2> QED BY <1>5, <2>2
<1>7. \A i \in 1 .. Len(L) : i \in 1 .. Len(K)
    BY <1>3
<1>8. \A i \in 1 .. Len(ev) : Len(L) + i \in 1 .. Len(K)
    BY <1>3
<1>9. EventsOK(K)
    BY <1>3, <1>6 DEF EventsOK
<1>10. ASSUME NEW b \in Spoken(K) PROVE b \in Spoken(L) \cup Spoken(ev)
    BY <1>6, <1>10 DEF Spoken
<1>11. ASSUME NEW b \in Spoken(L) PROVE b \in Spoken(K)
    BY <1>4, <1>7, <1>11 DEF Spoken
<1>12. ASSUME NEW b \in Spoken(ev) PROVE b \in Spoken(K)
    BY <1>5, <1>8, <1>12 DEF Spoken
<1> QED BY <1>2, <1>9, <1>10, <1>11, <1>12

\* A log of one event, and the empty one.
LEMMA OneEvent ==
    /\ EventsOK(<<>>) /\ Spoken(<<>>) = {}
    /\ \A e \in Event : EventOK(e) => /\ EventsOK(<<e>>)
                                      /\ e.t = "committed" => Spoken(<<e>>) = {e.b}
                                      /\ e.t # "committed" => Spoken(<<e>>) = {}
<1>1. EventsOK(<<>>) /\ Spoken(<<>>) = {}
    BY DEF EventsOK, Spoken
<1>2. SUFFICES ASSUME NEW e \in Event, EventOK(e)
               PROVE  /\ EventsOK(<<e>>)
                      /\ e.t = "committed" => Spoken(<<e>>) = {e.b}
                      /\ e.t # "committed" => Spoken(<<e>>) = {}
    BY <1>1
<1>3. <<e>> \in Seq(Event) /\ Len(<<e>>) = 1 /\ <<e>>[1] = e /\ \A i \in 1 .. 1 : i = 1
    OBVIOUS
<1>4. EventsOK(<<e>>)
    BY <1>2, <1>3 DEF EventsOK
<1>5. \A b : b \in Spoken(<<e>>) <=> b \in Block /\ e.t = "committed" /\ e.b = b
    BY <1>3 DEF Spoken
<1>6. ASSUME e.t = "committed" PROVE e.b \in Block
    BY <1>2, <1>6 DEF EventOK
<1> QED BY <1>4, <1>5, <1>6

\* The pool holds blocks with a height.
LEMMA PoolFacts ==
    ASSUME Shape
    PROVE  Pool(PoolNow) /\ Told \in [Member -> SUBSET Block]
<1>1. \A m \in Member : Told[m] = Spoken(log[m])
    BY DEF Told
<1>2. ASSUME NEW m \in Member, NEW b \in Spoken(log[m]) PROVE b \in Block /\ Len(b) >= 1
    <2>1. EventsOK(log[m])
        BY DEF Shape
    <2> QED BY <1>2, <2>1 DEF Spoken, EventsOK, EventOK
<1>3. Told \in [Member -> SUBSET Block]
    BY DEF Told, Spoken
<1> QED BY <1>1, <1>2, <1>3 DEF Pool, PoolNow

\* The request a seat records.
LEMMA RequestEvent ==
    ASSUME NEW Q, NEW s, SeatOK(s, Q), s.catch >= 1
    PROVE  ChainRequest(s) \in Event /\ EventOK(ChainRequest(s)) /\ ChainRequest(s).t = "request"
<1>1. s.chain \in Block /\ s.base \in Nat /\ s.base <= Len(s.chain) /\ s.catch \in Nat
      /\ Len(s.chain) \in Nat /\ Height(s) = Len(s.chain)
    BY BlockFacts DEF SeatOK, SeatT, Anchored, Height
<1>2. PICK P : P = {2 ^ i : i \in 0 .. 14}
    OBVIOUS
<1>3. PICK K : K = {k \in s.base .. Height(s) : Height(s) - k \in {0} \cup P}
    OBVIOUS
<1>4. PICK kn : kn = KnownHeads(s)
    OBVIOUS
<1>5. kn = {BlockAt(s.chain, h) : h \in K}
    BY <1>2, <1>3, <1>4 DEF KnownHeads
<1>6. \A h \in K : h \in 0 .. Len(s.chain)
    BY <1>1, <1>3
<1>7. kn \in SUBSET Block
    BY <1>1, <1>5, <1>6, BlockAtFacts
<1>8. Len(s.chain) \in K
    BY <1>1, <1>3
<1>9. kn # {}
    BY <1>5, <1>8
<1>10. ChainRequest(s) = [t |-> "request", b |-> <<>>, blob |-> NoBlob, from |-> s.catch, known |-> kn]
    BY <1>4 DEF ChainRequest
<1>11. <<>> \in Seq(Sealed)
    OBVIOUS
<1> QED BY <1>1, <1>7, <1>9, <1>10, <1>11, NoBlobFacts DEF Event, EventOK

\* A buffer, and a seat, stays in order while the pool grows.
LEMMA PoolGrows ==
    ASSUME NEW Q, NEW R, Q \subseteq R, NEW s, SeatOK(s, Q)
    PROVE  SeatOK(s, R)
BY DEF SeatOK, BufOK

\* Seat n is q now, has recorded ev, and may have written its chain.
Recorded(n, q, ev) ==
    /\ seat' = [seat EXCEPT ![n] = q]
    /\ log' = [log EXCEPT ![n] = @ \o ev]
    /\ disk' = disk \/ disk' = [disk EXCEPT ![n] = [chain |-> q.chain, base |-> q.base]]
    /\ cutSigs' = cutSigs /\ got' \in [Member -> [Member -> Nat]]

\* What that does to the state.
LEMMA RecordedFacts ==
    ASSUME Shape, NEW n \in Member, NEW q, SeatOK(q, PoolNow), q.asks = FALSE,
           NEW ev, EventsOK(ev), Recorded(n, q, ev)
    PROVE  /\ Shape'
           /\ Chains' = [Chains EXCEPT ![n] = q.chain]
           /\ Told' = [Told EXCEPT ![n] = @ \cup Spoken(ev)]
           /\ disk' = disk => Disks' = Disks
           /\ disk' = [disk EXCEPT ![n] = [chain |-> q.chain, base |-> q.base]] =>
                    Disks' = [Disks EXCEPT ![n] = q.chain]
<1>1. /\ seat \in [Member -> SeatT] /\ disk \in [Member -> [chain : Block, base : Nat]]
      /\ DOMAIN log = Member
    BY DEF Shape
<1>2. q \in SeatT /\ q.chain \in Block /\ q.base \in Nat /\ Anchored(q.chain, q.base)
    BY DEF SeatOK, SeatT
<1>3. PICK k : k = [chain |-> q.chain, base |-> q.base]
    OBVIOUS
<1>4. k \in [chain : Block, base : Nat] /\ k.chain = q.chain /\ k.base = q.base
    BY <1>2, <1>3
<1>5. disk' = disk \/ disk' = [disk EXCEPT ![n] = k]
    BY <1>3 DEF Recorded
<1>6. seat' \in [Member -> SeatT] /\ seat'[n] = q /\ \A m \in Member : m # n => seat'[m] = seat[m]
    BY <1>1, <1>2 DEF Recorded
<1>7. /\ DOMAIN log' = Member /\ log'[n] = log[n] \o ev
      /\ \A m \in Member : m # n => log'[m] = log[m]
    BY <1>1 DEF Recorded
<1>8. EventsOK(log'[n]) /\ Spoken(log'[n]) = Spoken(log[n]) \cup Spoken(ev)
    <2>1. EventsOK(log[n])
        BY DEF Shape
    <2> QED BY <1>7, <2>1, SpokenConcat
<1>9. \A m \in Member : EventsOK(log'[m])
    BY <1>7, <1>8 DEF Shape
<1>10. Chains' = [Chains EXCEPT ![n] = q.chain]
    BY <1>6 DEF Chains
<1>11. Told' = [Told EXCEPT ![n] = @ \cup Spoken(ev)]
    <2>1. Told' = [m \in Member |-> Spoken(log'[m])]
        BY DEF Told
    <2>2. Told = [m \in Member |-> Spoken(log[m])]
        BY DEF Told
    <2> QED BY <1>7, <1>8, <2>1, <2>2
<1>12. PoolNow \subseteq PoolNow'
    <2>1. \A m \in Member : Told[m] \subseteq Told'[m]
        BY <1>11, PoolFacts
    <2> QED BY <2>1 DEF PoolNow
<1>13. ASSUME NEW m \in Member PROVE SeatOK(seat'[m], PoolNow') /\ seat'[m].asks = FALSE
    <2>1. SeatOK(seat'[m], PoolNow) /\ seat'[m].asks = FALSE
        BY <1>6 DEF Shape
    <2> QED BY <1>12, <2>1, PoolGrows
<1>14. disk' \in [Member -> [chain : Block, base : Nat]]
    BY <1>1, <1>4, <1>5
<1>15. \A m \in Member : disk'[m] = disk[m] \/ (m = n /\ disk'[m] = k)
    BY <1>1, <1>4, <1>5
<1>16. ASSUME NEW m \in Member PROVE Anchored(disk'[m].chain, disk'[m].base)
    BY <1>2, <1>4, <1>15 DEF Shape
<1>17. Shape'
    <2>1. cutSigs' \in SUBSET (Member \X Block) /\ got' \in [Member -> [Member -> Nat]]
        BY DEF Recorded, Shape
    <2>2. \A m \in Member : log'[m] \in Seq(Event)
        BY <1>9 DEF EventsOK
    <2>3. PICK L : L = log[n] \o ev
        OBVIOUS
    <2>4. log' = [log EXCEPT ![n] = L] /\ L \in Seq(Event)
        BY <1>7, <2>2, <2>3 DEF Recorded
    <2>5. log' \in [Member -> Seq(Event)]
        BY <2>4 DEF Shape
    <2> QED BY <1>6, <1>9, <1>13, <1>14, <1>16, <2>1, <2>5 DEF Shape
<1>18. disk' = disk => Disks' = Disks
    BY DEF Disks
<1>19. ASSUME disk' = [disk EXCEPT ![n] = k] PROVE Disks' = [Disks EXCEPT ![n] = q.chain]
    <2>1. disk'[n] = k /\ \A m \in Member : m # n => disk'[m] = disk[m]
        BY <1>1, <1>19
    <2> QED BY <1>4, <2>1 DEF Disks
<1> QED BY <1>3, <1>10, <1>11, <1>17, <1>18, <1>19

\* Recording twice is recording both.
LEMMA Joined ==
    \A a, b, c \in Seq(Event) : (a \o b) \o c = a \o (b \o c)
<1>1. ASSUME NEW a \in Seq(Event), NEW b \in Seq(Event), NEW c \in Seq(Event)
      PROVE  (a \o b) \o c = a \o (b \o c)
    BY ConcatAssociative
<1> QED BY <1>1

\* Seat n is s now and has announced ev; its chain is on the disk if it moved
\* and the write did not fail.
Stepped(n, s, ev, durable) ==
    /\ Shape'
    /\ Chains' = [Chains EXCEPT ![n] = s.chain]
    /\ Told' = [Told EXCEPT ![n] = @ \cup Spoken(ev)]
    /\ Disks' = Disks \/ (durable /\ Disks' = [Disks EXCEPT ![n] = s.chain])
    /\ s.chain # seat[n].chain /\ durable => Disks' = [Disks EXCEPT ![n] = s.chain]
    /\ s.chain = seat[n].chain /\ s.base = seat[n].base => Disks' = Disks

\* The end of a handler.
LEMMA StepFacts ==
    ASSUME Shape, NEW n \in Member, NEW s, SeatOK(s, PoolNow), NEW events, EventsOK(events),
           NEW durable \in BOOLEAN, Step(n, s, events, durable),
           cutSigs' = cutSigs, got' \in [Member -> [Member -> Nat]]
    PROVE  Stepped(n, s, events, durable)
<1>1. PICK q : q = [s EXCEPT !.asks = FALSE]
    OBVIOUS
<1>2. s \in SeatT
    BY DEF SeatOK
<1>3. q \in SeatT
    BY <1>1, <1>2 DEF SeatT
<1>4. /\ q.chain = s.chain /\ q.base = s.base /\ q.pend = s.pend /\ q.fork = s.fork
      /\ q.asks = FALSE
    BY <1>1, <1>2 DEF SeatT
<1>5. SeatOK(q, PoolNow)
    BY <1>3, <1>4 DEF SeatOK
<1>6. PICK tail : tail = IF s.asks THEN <<ChainRequest(s)>> ELSE <<>>
    OBVIOUS
<1>7. EventsOK(tail) /\ Spoken(tail) = {}
    <2>1. CASE s.asks
        <3>1. s.catch >= 1
            BY <2>1 DEF SeatOK
        <3>2. ChainRequest(s) \in Event /\ EventOK(ChainRequest(s)) /\ ChainRequest(s).t = "request"
            BY <3>1, RequestEvent
        <3> QED BY <1>6, <2>1, <3>2, OneEvent
    <2>2. CASE ~s.asks
        BY <1>6, <2>2, OneEvent
    <2> QED BY <2>1, <2>2
<1>8. PICK ev : ev = events \o tail
    OBVIOUS
<1>9. EventsOK(ev) /\ Spoken(ev) = Spoken(events)
    <2>1. EventsOK(events \o tail) /\ Spoken(events \o tail) = Spoken(events) \cup Spoken(tail)
        BY <1>7, SpokenConcat
    <2> QED BY <1>7, <1>8, <2>1
<1>10. PICK moved \in BOOLEAN : moved = (s.chain # seat[n].chain \/ s.base # seat[n].base)
    OBVIOUS
<1>11. /\ seat' = [seat EXCEPT ![n] = q]
       /\ disk' = IF moved /\ durable
                  THEN [disk EXCEPT ![n] = [chain |-> s.chain, base |-> s.base]] ELSE disk
       /\ log' = [log EXCEPT ![n] = (@ \o events) \o tail]
    BY <1>1, <1>6, <1>10 DEF Step
<1>12. log' = [log EXCEPT ![n] = @ \o ev]
    <2>1. log[n] \in Seq(Event) /\ events \in Seq(Event) /\ tail \in Seq(Event)
        BY <1>7 DEF Shape, EventsOK
    <2>2. (log[n] \o events) \o tail = log[n] \o (events \o tail)
        BY <2>1, Joined
    <2>3. (log[n] \o events) \o tail = log[n] \o ev
        BY <1>8, <2>2
    <2> QED BY <1>11, <2>3 DEF Shape
<1>13. Recorded(n, q, ev)
    BY <1>4, <1>11, <1>12 DEF Recorded
<1>14. /\ Shape'
       /\ Chains' = [Chains EXCEPT ![n] = q.chain]
       /\ Told' = [Told EXCEPT ![n] = @ \cup Spoken(ev)]
       /\ disk' = disk => Disks' = Disks
       /\ disk' = [disk EXCEPT ![n] = [chain |-> q.chain, base |-> q.base]] =>
                Disks' = [Disks EXCEPT ![n] = q.chain]
    BY <1>4, <1>5, <1>9, <1>13, RecordedFacts
<1>15. CASE moved /\ durable
    <2>1. Disks' = [Disks EXCEPT ![n] = s.chain]
        BY <1>4, <1>11, <1>14, <1>15
    <2>2. ~(s.chain = seat[n].chain /\ s.base = seat[n].base)
        BY <1>10, <1>15, Zenon
    <2> QED BY <1>4, <1>9, <1>14, <1>15, <2>1, <2>2 DEF Stepped
<1>16. CASE ~(moved /\ durable)
    <2>1. Disks' = Disks
        BY <1>11, <1>14, <1>16
    <2>2. ~(s.chain # seat[n].chain /\ durable)
        BY <1>10, <1>16, Zenon
    <2> QED BY <1>4, <1>9, <1>14, <2>1, <2>2 DEF Stepped
<1> QED BY <1>15, <1>16

-----------------------------------------------------------------------------
(***************************************************************************)
(* The steps.                                                              *)
(***************************************************************************)

\* Nothing added to what is announced.
LEMMA NothingTold ==
    ASSUME Shape, NEW n \in Member
    PROVE  [Told EXCEPT ![n] = @ \cup {}] = Told
<1>1. Told \in [Member -> SUBSET Block]
    BY PoolFacts
<1>2. PICK T : T = Told
    OBVIOUS
<1>3. T[n] \cup {} = T[n]
    OBVIOUS
<1> QED BY <1>1, <1>2, <1>3

\* The republic starts on the genesis, with nothing announced or signed.
LEMMA Starts == Init => IInv
<1> SUFFICES ASSUME Init PROVE IInv
    OBVIOUS
<1>1. <<>> \in Seq(Sealed) /\ Len(<<>>) = 0
    OBVIOUS
<1>2. <<>> \in Block
    BY <1>1, SealedNat DEF Block
<1>3. PICK s : s = Fresh(<<>>, 0)
    OBVIOUS
<1>4. s \in SeatT
    BY <1>1, <1>2, <1>3, NoBlobFacts DEF SeatT, Fresh
<1>5. s.chain = <<>> /\ s.base = 0 /\ s.pend = {} /\ s.fork = {} /\ s.asks = FALSE
    BY <1>3 DEF Fresh
<1>6. ASSUME NEW Q PROVE SeatOK(s, Q)
    BY <1>1, <1>4, <1>5, EmptyBuffer DEF SeatOK, Anchored
<1>7. PICK k : k = [chain |-> <<>>, base |-> 0]
    OBVIOUS
<1>8. k \in [chain : Block, base : Nat] /\ k.chain = <<>> /\ k.base = 0
    BY <1>2, <1>7
<1>9. Anchored(k.chain, k.base)
    BY <1>1, <1>8 DEF Anchored
<1>10. /\ seat = [n \in Member |-> s] /\ disk = [n \in Member |-> k]
       /\ log = [n \in Member |-> <<>>] /\ cutSigs = {} /\ voided = FALSE
    BY <1>3, <1>7 DEF Init
<1>11. got \in [Member -> [Member -> Nat]]
    BY DEF Init
<1>12. \A m \in Member : EventsOK(log[m]) /\ Spoken(log[m]) = {}
    BY <1>10, OneEvent
<1>13. Shape
    BY <1>4, <1>5, <1>6, <1>8, <1>9, <1>10, <1>11, <1>12 DEF Shape
<1>14. PICK ch : ch = [m \in Member |-> <<>>]
    OBVIOUS
<1>15. PICK an : an = [m \in Member |-> {}]
    OBVIOUS
<1>16. Chains = ch /\ Disks = ch
    BY <1>5, <1>8, <1>10, <1>14 DEF Chains, Disks
<1>17. Told = an
    BY <1>12, <1>15 DEF Told
<1>18. ASSUME NEW j \in Member PROVE ChainOK(j, ch[j], an, {})
    BY <1>1, <1>14, <1>15, <1>18 DEF ChainOK, CutsSigned
<1>19. /\ ch \in [Member -> Block] /\ an \in [Member -> SUBSET Block]
       /\ \A j \in Member : an[j] = {}
    BY <1>2, <1>14, <1>15
<1>20. Core(ch, ch, an, {})
    BY <1>18, <1>19 DEF Core
<1> QED BY <1>10, <1>13, <1>16, <1>17, <1>20 DEF IInv

\* A signature under a cut, of a chain that is on the disk or not.
LEMMA Signing ==
    ASSUME IInv, NEW n \in Member, SignCut(n)
    PROVE  IInv'
<1>1. Shape /\ voided \in BOOLEAN
    BY DEF IInv
<1>2. /\ seat' = seat /\ disk' = disk /\ log' = log /\ got' = got
      /\ cutSigs' = cutSigs \cup {<<n, seat[n].chain>>}
      /\ voided' = (voided \/ Unwritten(n))
    BY DEF SignCut
<1>3. seat[n].chain \in Block
    BY <1>1 DEF Shape, SeatT
<1>4. cutSigs' \in SUBSET (Member \X Block)
    BY <1>1, <1>2, <1>3 DEF Shape
<1>5. Chains' = Chains /\ Disks' = Disks /\ Told' = Told
    BY <1>2 DEF Chains, Disks, Told
<1>6. PoolNow' = PoolNow
    BY <1>5 DEF PoolNow
<1>7. Shape'
    BY <1>1, <1>2, <1>4, <1>6 DEF Shape
<1>8. voided' \in BOOLEAN
    BY <1>1, <1>2 DEF Unwritten
<1>9. ASSUME ~voided' PROVE Core(Chains', Disks', Told', cutSigs')
    <2>1. ~voided /\ disk[n].chain = seat[n].chain
        BY <1>1, <1>2, <1>9 DEF Unwritten
    <2>2. Core(Chains, Disks, Told, cutSigs)
        BY <2>1 DEF IInv
    <2>3. Chains[n] = seat[n].chain /\ Disks[n] = Chains[n]
        BY <2>1 DEF Chains, Disks
    <2>4. Core(Chains, Disks, Told, cutSigs \cup {<<n, Chains[n]>>})
        BY <2>2, <2>3, CoreSigns
    <2> QED BY <1>2, <1>5, <2>3, <2>4
<1> QED BY <1>7, <1>8, <1>9 DEF IInv

\* A handler that stays, or moves to a better announced chain.
LEMMA Moving ==
    ASSUME Core(Chains, Disks, Told, cutSigs), NEW n \in Member, NEW s,
           Result(s, seat[n], PoolNow)
    PROVE  Core([Chains EXCEPT ![n] = s.chain], Disks, Told, cutSigs)
<1>1. Chains[n] = seat[n].chain
    BY DEF Chains
<1>2. PICK ch : ch = [Chains EXCEPT ![n] = s.chain]
    OBVIOUS
<1>3. CASE s.chain = seat[n].chain
    <2>1. ch = Chains
        BY <1>1, <1>2, <1>3 DEF Chains
    <2> QED BY <1>2, <2>1
<1>4. CASE Gains(s.chain, seat[n].chain, PoolNow)
    <2>1. Gains(s.chain, Chains[n], UNION {Told[m] : m \in Member})
        BY <1>1, <1>4 DEF PoolNow
    <2> QED BY <2>1, CoreMoves
<1> QED BY <1>3, <1>4 DEF Result

\* That, and it announces nothing.
LEMMA Handling ==
    ASSUME IInv, NEW n \in Member, NEW s, Result(s, seat[n], PoolNow), NEW durable \in BOOLEAN,
           Step(n, s, <<>>, durable), cutSigs' = cutSigs, voided' = voided,
           got' \in [Member -> [Member -> Nat]]
    PROVE  IInv'
<1>1. Shape /\ voided \in BOOLEAN
    BY DEF IInv
<1>2. PICK events : events = <<>>
    OBVIOUS
<1>3. EventsOK(events) /\ Spoken(events) = {} /\ Step(n, s, events, durable)
    BY <1>2, OneEvent
<1>4. SeatOK(s, PoolNow)
    BY DEF Result
<1>5. /\ Shape'
      /\ Chains' = [Chains EXCEPT ![n] = s.chain]
      /\ Told' = [Told EXCEPT ![n] = @ \cup Spoken(events)]
      /\ Disks' = Disks \/ (durable /\ Disks' = [Disks EXCEPT ![n] = s.chain])
    <2>1. Stepped(n, s, events, durable)
        BY <1>1, <1>3, <1>4, StepFacts
    <2> QED BY <2>1 DEF Stepped
<1>6. Told' = Told
    BY <1>1, <1>3, <1>5, NothingTold
<1>7. ASSUME ~voided PROVE Core(Chains', Disks', Told', cutSigs')
    <2>1. Core(Chains, Disks, Told, cutSigs)
        BY <1>7 DEF IInv
    <2>3. PICK ch : ch = [Chains EXCEPT ![n] = s.chain]
        OBVIOUS
    <2>4. Core(ch, Disks, Told, cutSigs)
        BY <2>1, <2>3, Moving
    <2>5. ch[n] = s.chain
        BY <2>3 DEF Chains
    <2>6. Core(ch, [Disks EXCEPT ![n] = ch[n]], Told, cutSigs)
        BY <2>4, CoreDisk
    <2> QED BY <1>5, <1>6, <2>3, <2>4, <2>5, <2>6
<1> QED BY <1>1, <1>5, <1>7 DEF IInv

\* A block on top of the chain of n, in memory.
LEMMA Growing ==
    ASSUME IInv, NEW n \in Member, NEW x \in Sealed, Height(seat[n]) < MaxLen, MayCommit(seat[n], x),
           voided' = (voided \/ Crossed(seat[n], x)), NEW u, u = Grown(seat[n], x)
    PROVE  /\ SeatOK(u, PoolNow) /\ u.chain \in Block /\ Len(u.chain) >= 1 /\ u.chain # seat[n].chain
           /\ voided' \in BOOLEAN
           /\ ~voided' => Core([Chains EXCEPT ![n] = u.chain], Disks, Told, cutSigs)
<1>1. Shape /\ voided \in BOOLEAN
    BY DEF IInv
<1>2. PICK s : s = seat[n]
    OBVIOUS
<1>3. PICK t : t = [s EXCEPT !.chain = Append(@, x)]
    OBVIOUS
<1>4. PICK p : p = Pruned(t, Height(s))
    OBVIOUS
<1>5. u = [t EXCEPT !.base = p]
    BY <1>2, <1>3, <1>4 DEF Grown
<1>7. SeatOK(s, PoolNow) /\ s \in SeatT /\ s.asks = FALSE
    BY <1>1, <1>2 DEF Shape, SeatOK
<1>8. PICK c : c = s.chain
    OBVIOUS
<1>9. PICK d : d = Append(c, x)
    OBVIOUS
<1>10. c \in Block /\ Len(c) < MaxLen /\ Len(c) \in Nat
    BY <1>2, <1>7, <1>8, BlockFacts DEF SeatT, Height
<1>11. c \in Seq(Sealed) /\ MaxLen \in Nat
    BY <1>10, SealedNat DEF Block
<1>12. /\ d \in Seq(Sealed) /\ Len(d) = Len(c) + 1 /\ \A i \in 1 .. Len(c) : d[i] = c[i]
    BY <1>9, <1>11
<1>13. d \in Block /\ Same(d, c, Len(c)) /\ d # c /\ Len(d) >= 1
    BY <1>10, <1>11, <1>12 DEF Block, Same
<1>14. /\ t.chain = d /\ t.base = s.base /\ t.pend = s.pend /\ t.fork = s.fork
       /\ t.asks = FALSE
    BY <1>3, <1>7, <1>8, <1>9 DEF SeatT
<1>15. t \in SeatT
    BY <1>3, <1>7, <1>8, <1>9, <1>13 DEF SeatT
<1>16. Anchored(c, s.base) /\ s.base \in Nat /\ s.base <= Len(c)
    BY <1>7, <1>8 DEF SeatOK, SeatT, Anchored
<1>17. Anchored(t.chain, t.base)
    <2>1. Anchored(d, s.base)
        BY <1>10, <1>13, <1>16, AnchorKept
    <2> QED BY <1>14, <2>1
<1>18. p \in Nat /\ Anchored(t.chain, p)
    BY <1>4, <1>8, <1>10, <1>15, <1>17, PrunedFacts DEF Height
<1>19. /\ u.chain = d /\ u.base = p /\ u.pend = s.pend /\ u.fork = s.fork /\ u.asks = FALSE
    BY <1>5, <1>14, <1>15 DEF SeatT
<1>20. u \in SeatT
    BY <1>5, <1>15, <1>18 DEF SeatT
<1>21. SeatOK(u, PoolNow)
    BY <1>7, <1>14, <1>18, <1>19, <1>20 DEF SeatOK
<1>22. voided' \in BOOLEAN
    BY <1>1 DEF Crossed
<1>23. ASSUME ~voided' PROVE Core([Chains EXCEPT ![n] = d], Disks, Told, cutSigs)
    <2>1. ~voided /\ ~Crossed(s, x)
        BY <1>1, <1>2, <1>23
    <2>2. Core(Chains, Disks, Told, cutSigs)
        BY <2>1 DEF IInv
    <2>3. Chains[n] = c
        BY <1>2, <1>8 DEF Chains
    <2>4. x = Cut => \A m \in Member : <<m, c>> \in cutSigs
        BY <1>2, <1>8, <2>1 DEF MayCommit, Crossed
    <2>5. Core([Chains EXCEPT ![n] = Append(Chains[n], x)], Disks, Told, cutSigs)
        BY <1>10, <2>2, <2>3, <2>4, CoreGrows
    <2> QED BY <1>9, <2>3, <2>5
<1> QED BY <1>2, <1>8, <1>13, <1>19, <1>21, <1>22, <1>23

\* A block sealed here, announced once it is on the disk.
LEMMA Sealing ==
    ASSUME IInv, NEW n \in Member, NEW x \in Sealed, NEW durable \in BOOLEAN, Seal(n, x, durable)
    PROVE  IInv'
<1>1. Shape /\ voided \in BOOLEAN
    BY DEF IInv
<1>2. PICK u, d : u = Grown(seat[n], x) /\ d = u.chain
    OBVIOUS
<1>3. /\ SeatOK(u, PoolNow) /\ d \in Block /\ Len(d) >= 1 /\ d # seat[n].chain
      /\ voided' \in BOOLEAN
      /\ ~voided' => Core([Chains EXCEPT ![n] = d], Disks, Told, cutSigs)
    <2>1. /\ Height(seat[n]) < MaxLen /\ MayCommit(seat[n], x)
          /\ voided' = (voided \/ Crossed(seat[n], x))
        BY DEF Seal
    <2> QED BY <1>2, <2>1, Growing
<1>4. PICK events : events = Announced(d, durable)
    OBVIOUS
<1>5. /\ Step(n, u, events, durable)
      /\ cutSigs' = cutSigs /\ got' = got
    BY <1>2, <1>4 DEF Seal
<1>6. EventsOK(events) /\ Spoken(events) = IF durable THEN {d} ELSE {}
    <2>1. PICK e : e = Committed(d)
        OBVIOUS
    <2>2. e \in Event /\ e.t = "committed" /\ e.b = d
        BY <1>3, <2>1, NoBlobFacts DEF Committed, Event, Block
    <2>3. EventOK(e)
        BY <1>3, <2>2 DEF EventOK
    <2>4. CASE durable
        BY <1>4, <2>1, <2>2, <2>3, <2>4, OneEvent DEF Announced
    <2>5. CASE ~durable
        BY <1>4, <2>5, OneEvent DEF Announced
    <2> QED BY <2>4, <2>5
<1>7. got' \in [Member -> [Member -> Nat]]
    BY <1>1, <1>5 DEF Shape
<1>8. Stepped(n, u, events, durable)
    BY <1>1, <1>3, <1>5, <1>6, <1>7, StepFacts
<1>9. ASSUME ~voided' PROVE Core(Chains', Disks', Told', cutSigs')
    <2>1. PICK ch : ch = [Chains EXCEPT ![n] = d]
        OBVIOUS
    <2>2. Core(ch, Disks, Told, cutSigs) /\ ch[n] = d /\ Chains' = ch
        BY <1>2, <1>3, <1>8, <1>9, <2>1 DEF Stepped, Chains
    <2>3. CASE durable
        <3>1. Disks' = [Disks EXCEPT ![n] = d]
            BY <1>2, <1>3, <1>8, <2>3 DEF Stepped
        <3>2. PICK dk : dk = [Disks EXCEPT ![n] = d]
            OBVIOUS
        <3>3. Core(ch, dk, Told, cutSigs) /\ dk[n] = ch[n]
            BY <2>2, <3>2, CoreDisk DEF Disks
        <3>4. Same(ch[n], d, Len(d))
            BY <1>3, <2>2, BlockFacts DEF Same
        <3>5. PICK B : B = {d}
            OBVIOUS
        <3>6. B \in SUBSET Block /\ \A b \in B : Same(ch[n], b, Len(b))
            BY <1>3, <3>4, <3>5
        <3>7. Core(ch, dk, [Told EXCEPT ![n] = @ \cup B], cutSigs)
            BY <3>3, <3>6, CoreAnnounces
        <3>8. Told' = [Told EXCEPT ![n] = @ \cup B]
            BY <1>6, <1>8, <2>3, <3>5 DEF Stepped
        <3> QED BY <1>5, <2>2, <3>1, <3>2, <3>7, <3>8
    <2>4. CASE ~durable
        <3>1. Told' = [Told EXCEPT ![n] = @ \cup {}] /\ Disks' = Disks
            BY <1>6, <1>8, <2>4 DEF Stepped
        <3>2. Told' = Told
            BY <1>1, <3>1, NothingTold
        <3> QED BY <1>5, <2>2, <3>1, <3>2
    <2> QED BY <2>3, <2>4
<1> QED BY <1>3, <1>8, <1>9 DEF IInv, Stepped

\* What a holder serves: blocks of its chain, and the blob below them.
LEMMA Serving ==
    ASSUME NEW s \in SeatT, Anchored(s.chain, s.base), NEW from \in Nat \ {0}, from <= Height(s),
           NEW L, L = ServeChainFrom(s, from)
    PROVE  EventsOK(L) /\ \A b \in Spoken(L) : Same(s.chain, b, Len(b))
<1>1. PICK c : c = s.chain
    OBVIOUS
<1>2. PICK low : low = Larger(from, s.base)
    OBVIOUS
<1>3. c \in Block /\ Len(c) \in Nat /\ s.base \in Nat /\ s.base <= Len(c) /\ from <= Len(c)
    BY <1>1, BlockFacts DEF SeatT, Anchored, Height
<1>4. low \in Nat /\ low >= 1 /\ low <= Len(c)
    BY <1>2, <1>3 DEF Larger
<1>5. PICK k \in Nat : k = Len(c) - low + 1
    BY <1>3, <1>4
<1>6. PICK blocks : blocks = [i \in 1 .. k |-> Committed(BlockAt(c, low + i - 1))]
    OBVIOUS
<1>7. ASSUME NEW i \in 1 .. k
      PROVE  /\ blocks[i] \in Event /\ EventOK(blocks[i])
             /\ blocks[i].b \in Block /\ Same(c, blocks[i].b, Len(blocks[i].b))
    <2>1. PICK h : h = low + i - 1
        OBVIOUS
    <2>2. h \in 0 .. Len(c) /\ h >= 1
        BY <1>3, <1>4, <1>5, <2>1
    <2>3. PICK b : b = BlockAt(c, h)
        OBVIOUS
    <2>4. b \in Block /\ Len(b) = h /\ \A j \in 1 .. h : b[j] = c[j]
        BY <1>3, <2>2, <2>3, BlockAtFacts
    <2>5. b \in Seq(Sealed)
        BY <2>4 DEF Block
    <2>6. blocks[i] = Committed(b)
        BY <1>6, <2>1, <2>3
    <2>7. Committed(b) \in Event /\ Committed(b).b = b /\ Committed(b).t = "committed"
        BY <2>5, NoBlobFacts DEF Committed, Event
    <2>8. EventOK(Committed(b))
        BY <2>2, <2>4, <2>7 DEF EventOK
    <2>9. Same(c, b, Len(b))
        BY <2>2, <2>4, <1>3 DEF Same
    <2> QED BY <2>4, <2>6, <2>7, <2>8, <2>9
<1>8. blocks \in Seq(Event) /\ Len(blocks) = k
    <2>1. blocks \in [1 .. k -> Event]
        BY <1>6, <1>7
    <2> QED BY <2>1
<1>9. EventsOK(blocks)
    BY <1>7, <1>8 DEF EventsOK
<1>10. ASSUME NEW b \in Spoken(blocks) PROVE Same(c, b, Len(b))
    BY <1>7, <1>8, <1>10 DEF Spoken
<1>11. L = IF from < s.base THEN <<CheckpointServed(BlockAt(c, s.base - 1))>> \o blocks ELSE blocks
    BY <1>1, <1>2, <1>5, <1>6 DEF ServeChainFrom, Height
<1>12. CASE from < s.base
    <2>1. PICK e : e = CheckpointServed(BlockAt(c, s.base - 1))
        OBVIOUS
    <2>2. s.base - 1 \in 0 .. Len(c)
        BY <1>3, <1>12
    <2>3. Blob(BlockAt(c, s.base - 1)) \in BlobT
        BY <1>3, <2>2, BlockAtFacts, BlobFacts DEF Block
    <2>4. e \in Event /\ e.t = "blob"
        <3>1. <<>> \in Seq(Sealed)
            OBVIOUS
        <3> QED BY <2>1, <2>3, <3>1 DEF CheckpointServed, Event
    <2>5. EventOK(e)
        BY <2>4 DEF EventOK
    <2>6. PICK pre : pre = <<e>>
        OBVIOUS
    <2>7. EventsOK(pre) /\ Spoken(pre) = {}
        BY <2>4, <2>5, <2>6, OneEvent
    <2>8. EventsOK(pre \o blocks) /\ Spoken(pre \o blocks) = Spoken(pre) \cup Spoken(blocks)
        BY <1>9, <2>7, SpokenConcat
    <2>9. L = pre \o blocks
        BY <1>11, <1>12, <2>1, <2>6
    <2> QED BY <1>1, <1>10, <2>7, <2>8, <2>9
<1>13. CASE ~(from < s.base)
    BY <1>1, <1>9, <1>10, <1>11, <1>13
<1> QED BY <1>12, <1>13

\* Where serving starts: above the genesis.
LEMMA ServesFrom ==
    ASSUME NEW s \in SeatT, NEW from \in Nat \ {0}, NEW known \in SUBSET Block,
           NEW f, f = ServeFromFor(s, from, known)
    PROVE  f \in Nat \ {0}
<1>1. PICK shared : shared = {k \in known : /\ Len(k) \in s.base .. Height(s)
                                            /\ BlockAt(s.chain, Len(k)) = k}
    OBVIOUS
<1>2. f = IF shared = {} THEN from ELSE Max({Len(k) : k \in shared}) + 1
    BY <1>1 DEF ServeFromFor
<1>3. CASE shared = {}
    BY <1>2, <1>3
<1>4. CASE shared # {}
    <2>1. PICK T : T = {Len(k) : k \in shared}
        OBVIOUS
    <2>2. \A k \in shared : Len(k) \in Nat /\ Len(k) <= MaxLen
        BY <1>1, BlockFacts
    <2>3. T \in SUBSET Nat /\ T # {} /\ \A x \in T : x <= MaxLen
        BY <1>4, <2>1, <2>2
    <2>4. Max(T) \in T
        BY <2>3, MaxFacts, SealedNat
    <2>5. Max(T) \in Nat
        BY <2>3, <2>4
    <2> QED BY <1>2, <1>4, <2>1, <2>5
<1> QED BY <1>3, <1>4

\* The ChainRequest arm: what it serves is on the disk, or it has voided.
LEMMA Requesting ==
    ASSUME IInv, NEW n \in Member, NEW r \in Member, NEW e \in Event, EventOK(e), e.t = "request",
           ReceiveRequest(n, r, e), cutSigs' = cutSigs, got' \in [Member -> [Member -> Nat]]
    PROVE  IInv'
<1>1. Shape /\ voided \in BOOLEAN
    BY DEF IInv
<1>2. PICK z : z = seat[n]
    OBVIOUS
<1>3. SeatOK(z, PoolNow) /\ z \in SeatT /\ z.asks = FALSE
    BY <1>1, <1>2 DEF Shape, SeatOK
<1>4. PICK top : top = Larger(z.top, Max({Len(k) : k \in e.known}))
    OBVIOUS
<1>5. PICK s : s = [z EXCEPT !.top = top]
    OBVIOUS
<1>6. PICK from : from = ServeFromFor(s, e.from, e.known)
    OBVIOUS
<1>7. e.from \in Nat \ {0} /\ e.known \in SUBSET Block /\ e.known # {}
    BY DEF Event, EventOK
<1>8. top \in Nat
    <2>1. PICK T : T = {Len(k) : k \in e.known}
        OBVIOUS
    <2>2. T \in SUBSET Nat /\ T # {} /\ \A x \in T : x <= MaxLen
        BY <1>7, <2>1, BlockFacts
    <2>3. Max(T) \in T
        BY <2>2, MaxFacts, SealedNat
    <2>4. Max(T) \in Nat /\ z.top \in Nat
        BY <1>3, <2>2, <2>3 DEF SeatT
    <2> QED BY <1>4, <2>1, <2>4 DEF Larger
<1>9. s \in SeatT
    BY <1>3, <1>5, <1>8 DEF SeatT
<1>10. /\ s.chain = z.chain /\ s.base = z.base /\ s.pend = z.pend /\ s.fork = z.fork
       /\ s.asks = FALSE
    BY <1>3, <1>5 DEF SeatT
<1>11. SeatOK(s, PoolNow)
    BY <1>3, <1>9, <1>10 DEF SeatOK
<1>12. from \in Nat \ {0}
    BY <1>6, <1>7, <1>9, ServesFrom
<1>13. \/ Step(n, s, <<>>, TRUE) /\ voided' = voided
       \/ /\ from <= Height(s)
          /\ Step(n, [s EXCEPT !.served = @ \cup {r}], ServeChainFrom(s, from), TRUE)
          /\ voided' = (voided \/ Unwritten(n))
    <2>1. Height(s) \in Nat
        BY <1>9, BlockFacts DEF SeatT, Height
    <2>2. s = [seat[n] EXCEPT !.top = Larger(@, Max({Len(k) : k \in e.known}))]
        BY <1>2, <1>4, <1>5
    <2>3. \/ Step(n, s, <<>>, TRUE) /\ voided' = voided
          \/ /\ ~(from > Height(s))
             /\ Step(n, [s EXCEPT !.served = @ \cup {r}], ServeChainFrom(s, from), TRUE)
             /\ voided' = (voided \/ Unwritten(n))
        BY <1>6, <2>2, Zenon DEF ReceiveRequest
    <2>4. ~(from > Height(s)) => from <= Height(s)
        BY <1>12, <2>1
    <2> QED BY <2>3, <2>4, Zenon
<1>14. CASE Step(n, s, <<>>, TRUE) /\ voided' = voided
    <2>1. Result(s, seat[n], PoolNow)
        BY <1>2, <1>10, <1>11 DEF Result
    <2> QED BY <1>14, <2>1, Handling
<1>15. CASE /\ from <= Height(s)
            /\ Step(n, [s EXCEPT !.served = @ \cup {r}], ServeChainFrom(s, from), TRUE)
            /\ voided' = (voided \/ Unwritten(n))
    <2>1. PICK u : u = [s EXCEPT !.served = @ \cup {r}]
        OBVIOUS
    <2>2. PICK L : L = ServeChainFrom(s, from)
        OBVIOUS
    <2>3. EventsOK(L) /\ \A b \in Spoken(L) : Same(s.chain, b, Len(b))
        BY <1>9, <1>11, <1>12, <1>15, <2>2, Serving DEF SeatOK
    <2>4. /\ u.chain = z.chain /\ u.base = z.base /\ u.pend = z.pend /\ u.fork = z.fork
          /\ u.asks = FALSE
        BY <1>9, <1>10, <2>1 DEF SeatT
    <2>5. u \in SeatT
        BY <1>9, <2>1 DEF SeatT
    <2>6. SeatOK(u, PoolNow)
        BY <1>3, <2>4, <2>5 DEF SeatOK
    <2>7. Step(n, u, L, TRUE)
        BY <1>15, <2>1, <2>2
    <2>8. Stepped(n, u, L, TRUE)
        BY <1>1, <2>3, <2>6, <2>7, StepFacts
    <2>9. ASSUME ~voided' PROVE Core(Chains', Disks', Told', cutSigs')
        <3>1. ~voided /\ disk[n].chain = seat[n].chain
            BY <1>1, <1>15, <2>9 DEF Unwritten
        <3>2. Core(Chains, Disks, Told, cutSigs)
            BY <3>1 DEF IInv
        <3>3. Chains[n] = z.chain /\ Disks[n] = Chains[n]
            BY <1>2, <3>1 DEF Chains, Disks
        <3>4. Disks' = Disks /\ Chains' = Chains
            BY <1>2, <2>4, <2>8, <3>3 DEF Stepped, Chains
        <3>5. PICK B : B = Spoken(L)
            OBVIOUS
        <3>6. B \in SUBSET Block /\ \A b \in B : Same(Chains[n], b, Len(b))
            BY <1>10, <2>3, <3>3, <3>5 DEF Spoken
        <3>7. Core(Chains, Disks, [Told EXCEPT ![n] = @ \cup B], cutSigs)
            BY <3>2, <3>3, <3>6, CoreAnnounces
        <3>8. Told' = [Told EXCEPT ![n] = @ \cup B]
            BY <2>8, <3>5 DEF Stepped
        <3> QED BY <3>4, <3>7, <3>8
    <2>10. voided' \in BOOLEAN
        BY <1>1, <1>15 DEF Unwritten
    <2> QED BY <2>8, <2>9, <2>10 DEF IInv, Stepped
<1> QED BY <1>13, <1>14, <1>15

\* A block or a blob of another seat is handed over.
LEMMA Receiving ==
    ASSUME Shape, NEW n \in Member, NEW r \in Member, NEW i \in 1 .. Len(log[r]), NEW e, e = log[r][i],
           e.t # "request", NEW t, t = Received(seat[n], e)
    PROVE  Result(t, seat[n], PoolNow)
<1>1. PICK s : s = seat[n]
    OBVIOUS
<1>2. EventsOK(log[r])
    BY DEF Shape
<1>3. e \in Event /\ EventOK(e)
    BY <1>2 DEF EventsOK
<1>4. SeatOK(s, PoolNow) /\ ~s.asks
    BY <1>1 DEF Shape
<1>5. Pool(PoolNow)
    BY PoolFacts
<1>6. CASE e.t = "committed"
    <2>1. PICK b : b = e.b
        OBVIOUS
    <2>2. b \in Block
        BY <1>3, <1>6, <2>1 DEF EventOK
    <2>3. b \in Spoken(log[r])
        BY <1>6, <2>1, <2>2 DEF Spoken
    <2>4. b \in PoolNow
        BY <2>3 DEF PoolNow, Told
    <2>5. t = ReceiveBlockFrom(s, b)
        BY <1>1, <1>6, <2>1 DEF Received
    <2> QED BY <1>1, <1>4, <1>5, <2>4, <2>5, ReceiveBlockFacts
<1>7. CASE e.t # "committed"
    <2>1. PICK b : b = e.blob
        OBVIOUS
    <2>2. b \in BlobT
        BY <1>3, <2>1 DEF Event
    <2>3. t = ReceiveCheckpointBlob(s, b)
        BY <1>1, <1>7, <2>1 DEF Received
    <2> QED BY <1>1, <1>4, <1>5, <2>2, <2>3, ReceiveBlobFacts
<1> QED BY <1>6, <1>7

\* An event of another seat is handed over.
LEMMA Delivering ==
    ASSUME IInv, NEW n \in Member, NEW r \in Member, NEW durable \in BOOLEAN, Deliver(n, r, durable)
    PROVE  IInv'
<1>1. Shape /\ voided \in BOOLEAN
    BY DEF IInv
<1>2. PICK i : i = got[n][r] + 1
    OBVIOUS
<1>3. PICK e : e = log[r][i]
    OBVIOUS
<1>4. PICK s : s = seat[n]
    OBVIOUS
<1>5. /\ got[n][r] < Len(log[r])
      /\ got' = [got EXCEPT ![n][r] = @ + 1]
      /\ \/ /\ e.t # "request"
            /\ Step(n, Received(s, e), <<>>, durable)
            /\ voided' = voided
         \/ /\ e.t = "request"
            /\ ReceiveRequest(n, r, e)
      /\ cutSigs' = cutSigs
    BY <1>2, <1>3, <1>4 DEF Deliver
<1>6. got[n][r] \in Nat /\ Len(log[r]) \in Nat /\ EventsOK(log[r])
    BY <1>1 DEF Shape, EventsOK
<1>7. i \in 1 .. Len(log[r])
    BY <1>2, <1>5, <1>6
<1>8. e \in Event /\ EventOK(e)
    BY <1>3, <1>6, <1>7 DEF EventsOK
<1>9. got' \in [Member -> [Member -> Nat]]
    BY <1>1, <1>5 DEF Shape
<1>10. CASE e.t # "request" /\ Step(n, Received(s, e), <<>>, durable) /\ voided' = voided
    <2>1. PICK t : t = Received(s, e)
        OBVIOUS
    <2>2. Result(t, s, PoolNow)
        BY <1>1, <1>3, <1>4, <1>7, <1>10, <2>1, Receiving
    <2>3. Step(n, t, <<>>, durable)
        BY <1>10, <2>1
    <2> QED BY <1>4, <1>5, <1>9, <1>10, <2>2, <2>3, Handling
<1>11. CASE e.t = "request" /\ ReceiveRequest(n, r, e)
    BY <1>5, <1>8, <1>9, <1>11, Requesting
<1> QED BY <1>5, <1>10, <1>11

\* The debounce passes.
LEMMA Debouncing ==
    ASSUME IInv, NEW n \in Member, DebouncePasses(n)
    PROVE  IInv'
<1>1. Shape /\ voided \in BOOLEAN
    BY DEF IInv
<1>2. PICK z : z = seat[n]
    OBVIOUS
<1>3. SeatOK(z, PoolNow) /\ z \in SeatT /\ z.asks = FALSE
    BY <1>1, <1>2 DEF Shape, SeatOK
<1>4. PICK q : q = [z EXCEPT !.served = {}]
    OBVIOUS
<1>5. q \in SeatT
    BY <1>3, <1>4 DEF SeatT
<1>6. /\ q.chain = z.chain /\ q.base = z.base /\ q.pend = z.pend /\ q.fork = z.fork
      /\ q.asks = FALSE
    BY <1>3, <1>4 DEF SeatT
<1>7. SeatOK(q, PoolNow)
    BY <1>3, <1>5, <1>6 DEF SeatOK
<1>8. PICK ev : ev = <<>>
    OBVIOUS
<1>9. EventsOK(ev) /\ Spoken(ev) = {}
    BY <1>8, OneEvent
<1>10. /\ seat' = [seat EXCEPT ![n] = q] /\ disk' = disk /\ log' = log
       /\ cutSigs' = cutSigs /\ got' = got /\ voided' = voided
    BY <1>2, <1>4 DEF DebouncePasses
<1>11. log' = [log EXCEPT ![n] = @ \o ev]
    <2>1. log[n] \in Seq(Event) /\ DOMAIN log = Member
        BY <1>1 DEF Shape, EventsOK
    <2>2. PICK L \in Seq(Event) : L = log[n]
        BY <2>1
    <2>3. L \o <<>> = L
        OBVIOUS
    <2>4. log[n] \o ev = log[n]
        BY <1>8, <2>2, <2>3
    <2>5. log = [log EXCEPT ![n] = log[n]]
        <3>1. log \in [Member -> Seq(Event)]
            BY <1>1 DEF Shape, EventsOK
        <3> QED BY <3>1
    <2> QED BY <1>10, <2>4, <2>5
<1>12. got' \in [Member -> [Member -> Nat]]
    BY <1>1, <1>10 DEF Shape
<1>13. Recorded(n, q, ev)
    BY <1>10, <1>11, <1>12 DEF Recorded
<1>14. Shape' /\ Chains' = [Chains EXCEPT ![n] = q.chain]
    BY <1>1, <1>6, <1>7, <1>9, <1>13, RecordedFacts
<1>15. Chains' = Chains
    BY <1>2, <1>6, <1>14 DEF Chains
<1>16. Told' = Told /\ Disks' = Disks
    BY <1>10 DEF Told, Disks
<1> QED BY <1>10, <1>14, <1>15, <1>16 DEF IInv

\* Seat n comes up in s, which may have been written just before.
LEMMA Opening ==
    ASSUME Shape, NEW n \in Member, NEW s, SeatOK(s, PoolNow), s.catch = 0, Opens(n, s),
           cutSigs' = cutSigs, got' = got,
           disk' = disk \/ disk' = [disk EXCEPT ![n] = [chain |-> s.chain, base |-> s.base]]
    PROVE  /\ Shape' /\ Chains' = [Chains EXCEPT ![n] = s.chain] /\ Told' = Told
           /\ disk' = disk => Disks' = Disks
           /\ disk' = [disk EXCEPT ![n] = [chain |-> s.chain, base |-> s.base]] =>
                    Disks' = [Disks EXCEPT ![n] = s.chain]
<1>1. s \in SeatT
    BY DEF SeatOK
<1>2. PICK h : h = Height(s) + 1
    OBVIOUS
<1>3. h \in Nat \ {0}
    BY <1>1, <1>2, BlockFacts DEF SeatT, Height
<1>4. PICK t : t = RequestCatchup(s, h)
    OBVIOUS
<1>5. SeatOK(t, PoolNow) /\ t.chain = s.chain
    BY <1>3, <1>4, RequestFacts
<1>6. t = [s EXCEPT !.catch = h, !.asks = TRUE]
    BY <1>3, <1>4 DEF RequestCatchup
<1>7. t.catch >= 1 /\ t.base = s.base
    BY <1>1, <1>3, <1>6 DEF SeatT
<1>8. PICK q : q = [t EXCEPT !.asks = FALSE]
    OBVIOUS
<1>9. t \in SeatT
    BY <1>5 DEF SeatOK
<1>10. q \in SeatT
    BY <1>8, <1>9 DEF SeatT
<1>11. /\ q.chain = t.chain /\ q.base = t.base /\ q.pend = t.pend /\ q.fork = t.fork
       /\ q.asks = FALSE
    BY <1>8, <1>9 DEF SeatT
<1>12. SeatOK(q, PoolNow)
    BY <1>5, <1>10, <1>11 DEF SeatOK
<1>13. PICK e : e = ChainRequest(t)
    OBVIOUS
<1>14. e \in Event /\ EventOK(e) /\ e.t = "request"
    BY <1>5, <1>7, <1>13, RequestEvent
<1>15. PICK ev : ev = <<e>>
    OBVIOUS
<1>16. EventsOK(ev) /\ Spoken(ev) = {}
    BY <1>14, <1>15, OneEvent
<1>17. /\ seat' = [seat EXCEPT ![n] = q]
       /\ log' = [log EXCEPT ![n] = Append(@, e)]
    BY <1>2, <1>4, <1>8, <1>13 DEF Opens
<1>18. log' = [log EXCEPT ![n] = @ \o ev]
    <2>1. PICK L \in Seq(Event) : L = log[n]
        BY DEF Shape
    <2>2. Append(L, e) = L \o <<e>>
        BY <1>14, <2>1
    <2>3. Append(log[n], e) = log[n] \o ev
        BY <1>15, <2>1, <2>2
    <2> QED BY <1>17, <2>3
<1>19. got' \in [Member -> [Member -> Nat]]
    BY DEF Shape
<1>20. q.chain = s.chain /\ q.base = s.base
    BY <1>5, <1>7, <1>11
<1>21. Recorded(n, q, ev)
    BY <1>17, <1>18, <1>19, <1>20 DEF Recorded
<1>22. /\ Shape' /\ Chains' = [Chains EXCEPT ![n] = q.chain]
       /\ Told' = [Told EXCEPT ![n] = @ \cup Spoken(ev)]
       /\ disk' = disk => Disks' = Disks
       /\ disk' = [disk EXCEPT ![n] = [chain |-> q.chain, base |-> q.base]] =>
                Disks' = [Disks EXCEPT ![n] = q.chain]
    BY <1>11, <1>12, <1>16, <1>21, RecordedFacts
<1>23. Told' = Told
    BY <1>16, <1>22, NothingTold
<1> QED BY <1>20, <1>22, <1>23

\* A seat that comes up from what a handler left, or from its disk.
LEMMA FreshOf ==
    ASSUME NEW Q, NEW u, u.chain \in Block, u.base \in Nat, Anchored(u.chain, u.base),
           NEW f, f = Fresh(u.chain, u.base)
    PROVE  /\ SeatOK(f, Q) /\ f.chain = u.chain /\ f.base = u.base
           /\ f.pend = {} /\ f.fork = {} /\ f.catch = 0
<1>1. f \in SeatT
    BY NoBlobFacts DEF SeatT, Fresh
<1>2. /\ f.chain = u.chain /\ f.base = u.base
      /\ f.pend = {} /\ f.fork = {} /\ f.catch = 0 /\ ~f.asks
    BY DEF Fresh
<1>3. Anchored(f.chain, f.base) /\ BufOK(f.pend, Q) /\ BufOK(f.fork, Q)
    BY <1>2, EmptyBuffer
<1> QED BY <1>1, <1>2, <1>3 DEF SeatOK

\* A kill right after the chain was written.
LEMMA Killing ==
    ASSUME Shape, NEW n \in Member, NEW u, SeatOK(u, PoolNow), Killed(n, u),
           cutSigs' = cutSigs, got' = got,
           NEW ch, ch = [Chains EXCEPT ![n] = u.chain]
    PROVE  /\ Shape'
           /\ Core(ch, Disks, Told, cutSigs) => Core(Chains', Disks', Told', cutSigs')
<1>2. PICK f : f = Fresh(u.chain, u.base)
    OBVIOUS
<1>1. u.chain \in Block /\ u.base \in Nat /\ Anchored(u.chain, u.base)
    BY DEF SeatOK, SeatT
<1>3. SeatOK(f, PoolNow) /\ f.chain = u.chain /\ f.base = u.base /\ f.catch = 0
    BY <1>1, <1>2, FreshOf
<1>4. Opens(n, f) /\ disk' = [disk EXCEPT ![n] = [chain |-> f.chain, base |-> f.base]]
    BY <1>2, <1>3 DEF Killed
<1>5. /\ Shape' /\ Chains' = [Chains EXCEPT ![n] = f.chain] /\ Told' = Told
      /\ Disks' = [Disks EXCEPT ![n] = f.chain]
    BY <1>3, <1>4, Opening
<1>6. ASSUME Core(ch, Disks, Told, cutSigs) PROVE Core(Chains', Disks', Told', cutSigs')
    <2>1. Core(ch, [Disks EXCEPT ![n] = ch[n]], Told, cutSigs)
        BY <1>6, CoreDisk
    <2>2. ch[n] = u.chain
        BY DEF Chains
    <2> QED BY <1>3, <1>5, <2>1, <2>2
<1> QED BY <1>5, <1>6

\* A kill between the chain file and the record of a seal.
LEMMA SealingKilled ==
    ASSUME IInv, NEW n \in Member, NEW x \in Sealed, SealKilled(n, x)
    PROVE  IInv'
<1>1. Shape
    BY DEF IInv
<1>2. PICK u : u = Grown(seat[n], x)
    OBVIOUS
<1>3. /\ Height(seat[n]) < MaxLen /\ MayCommit(seat[n], x) /\ Killed(n, u)
      /\ voided' = (voided \/ Crossed(seat[n], x)) /\ cutSigs' = cutSigs /\ got' = got
    BY <1>2 DEF SealKilled
<1>4. PICK ch : ch = [Chains EXCEPT ![n] = u.chain]
    OBVIOUS
<1>5. /\ SeatOK(u, PoolNow) /\ voided' \in BOOLEAN
      /\ ~voided' => Core(ch, Disks, Told, cutSigs)
    BY <1>2, <1>3, <1>4, Growing
<1>6. Shape' /\ (Core(ch, Disks, Told, cutSigs) => Core(Chains', Disks', Told', cutSigs'))
    BY <1>1, <1>3, <1>4, <1>5, Killing
<1> QED BY <1>5, <1>6 DEF IInv

\* A kill between the chain file and the records of a delivery.
LEMMA DeliveringKilled ==
    ASSUME IInv, NEW n \in Member, NEW r \in Member, DeliverKilled(n, r)
    PROVE  IInv'
<1>1. Shape /\ voided \in BOOLEAN
    BY DEF IInv
<1>2. PICK i, e : i = got[n][r] + 1 /\ e = log[r][i]
    OBVIOUS
<1>3. PICK u : u = Received(seat[n], e)
    OBVIOUS
<1>4. /\ got[n][r] < Len(log[r]) /\ e.t # "request" /\ Killed(n, u)
      /\ cutSigs' = cutSigs /\ got' = got /\ voided' = voided
    BY <1>2, <1>3 DEF DeliverKilled
<1>5. i \in 1 .. Len(log[r])
    <2>1. got[n][r] \in Nat /\ Len(log[r]) \in Nat
        BY <1>1 DEF Shape, EventsOK
    <2> QED BY <1>2, <1>4, <2>1
<1>6. Result(u, seat[n], PoolNow)
    BY <1>1, <1>2, <1>3, <1>4, <1>5, Receiving
<1>7. PICK ch : ch = [Chains EXCEPT ![n] = u.chain]
    OBVIOUS
<1>8. Shape' /\ (Core(ch, Disks, Told, cutSigs) => Core(Chains', Disks', Told', cutSigs'))
    BY <1>1, <1>4, <1>6, <1>7, Killing DEF Result
<1>9. ~voided => Core(ch, Disks, Told, cutSigs)
    BY <1>6, <1>7, Moving DEF IInv
<1> QED BY <1>1, <1>4, <1>8, <1>9 DEF IInv

\* The workspace is opened from its disk.
LEMMA Reopening ==
    ASSUME IInv, NEW n \in Member, NEW crashed \in BOOLEAN, Reopen(n, crashed)
    PROVE  IInv'
<1>1. Shape /\ voided \in BOOLEAN
    BY DEF IInv
<1>2. PICK z : z = seat[n]
    OBVIOUS
<1>3. PICK k : k = disk[n]
    OBVIOUS
<1>4. SeatOK(z, PoolNow) /\ z \in SeatT
    BY <1>1, <1>2 DEF Shape, SeatOK
<1>5. k.chain \in Block /\ k.base \in Nat /\ Anchored(k.chain, k.base)
    BY <1>1, <1>3 DEF Shape
<1>6. PICK f : f = Fresh(k.chain, k.base)
    OBVIOUS
<1>7. PICK s : s = IF crashed THEN f ELSE [f EXCEPT !.fork = z.fork, !.top = z.top]
    OBVIOUS
<1>8. /\ f \in SeatT
      /\ f.chain = k.chain /\ f.base = k.base /\ f.pend = {} /\ f.fork = {} /\ f.catch = 0
      /\ f.asks = FALSE
    <2>1. /\ SeatOK(f, PoolNow) /\ f.chain = k.chain /\ f.base = k.base
          /\ f.pend = {} /\ f.fork = {} /\ f.catch = 0
        BY <1>5, <1>6, FreshOf
    <2>2. f.asks = FALSE
        BY <1>6 DEF Fresh
    <2> QED BY <2>1, <2>2 DEF SeatOK
<1>9. s \in SeatT
    <2>1. z.fork \in SUBSET Block /\ z.top \in Nat
        BY <1>4 DEF SeatT
    <2> QED BY <1>7, <1>8, <2>1 DEF SeatT
<1>10. /\ s.chain = k.chain /\ s.base = k.base /\ s.pend = {} /\ s.asks = FALSE /\ s.catch = 0
       /\ s.fork = {} \/ s.fork = z.fork
    BY <1>7, <1>8 DEF SeatT
<1>11. SeatOK(s, PoolNow)
    BY <1>4, <1>5, <1>9, <1>10, EmptyBuffer DEF SeatOK
<1>12. /\ Opens(n, s) /\ disk' = disk
       /\ cutSigs' = cutSigs /\ got' = got /\ voided' = voided
    BY <1>2, <1>3, <1>6, <1>7 DEF Reopen
<1>13. /\ Shape' /\ Chains' = [Chains EXCEPT ![n] = s.chain] /\ Told' = Told /\ Disks' = Disks
    BY <1>1, <1>10, <1>11, <1>12, Opening
<1>14. Disks[n] = s.chain
    BY <1>3, <1>10 DEF Disks
<1>15. ASSUME ~voided PROVE Core(Chains', Disks', Told', cutSigs')
    <2>1. Core(Chains, Disks, Told, cutSigs)
        BY <1>15 DEF IInv
    <2>2. Core([Chains EXCEPT ![n] = Disks[n]], Disks, Told, cutSigs)
        BY <2>1, CoreDisk
    <2> QED BY <1>12, <1>13, <1>14, <2>2
<1> QED BY <1>1, <1>12, <1>13, <1>15 DEF IInv

\* A stuttering step.
LEMMA Stuttering ==
    ASSUME IInv, UNCHANGED vars
    PROVE  IInv'
<1>1. /\ seat' = seat /\ disk' = disk /\ cutSigs' = cutSigs /\ log' = log
      /\ got' = got /\ voided' = voided
    BY DEF vars
<1>2. Chains' = Chains /\ Disks' = Disks /\ Told' = Told
    BY <1>1 DEF Chains, Disks, Told
<1>3. PoolNow' = PoolNow
    BY <1>2 DEF PoolNow
<1> QED BY <1>1, <1>2, <1>3 DEF IInv, Shape

\* The buffers, the anchors and the logs keep their shape, and what was
\* announced and signed stands, in every behaviour.
THEOREM Invariance == Spec => []IInv
<1>1. Init => IInv
    BY Starts
<1>2. IInv /\ [Next]_vars => IInv'
    <2> SUFFICES ASSUME IInv, [Next]_vars PROVE IInv'
        OBVIOUS
    <2>1. CASE Next
        <3>1. PICK n \in Member :
                 \/ SignCut(n)
                 \/ \E x \in Sealed, durable \in BOOLEAN : Seal(n, x, durable)
                 \/ \E x \in Sealed : SealKilled(n, x)
                 \/ \E r \in Member, durable \in BOOLEAN : Deliver(n, r, durable)
                 \/ \E r \in Member : DeliverKilled(n, r)
                 \/ DebouncePasses(n)
                 \/ \E crashed \in BOOLEAN : Reopen(n, crashed)
            BY <2>1 DEF Next, Sealed
        <3>2. CASE SignCut(n)
            BY <3>2, Signing
        <3>3. CASE \E x \in Sealed, durable \in BOOLEAN : Seal(n, x, durable)
            BY <3>3, Sealing
        <3>4. CASE \E r \in Member, durable \in BOOLEAN : Deliver(n, r, durable)
            BY <3>4, Delivering
        <3>5. CASE DebouncePasses(n)
            BY <3>5, Debouncing
        <3>6. CASE \E crashed \in BOOLEAN : Reopen(n, crashed)
            BY <3>6, Reopening
        <3>7. CASE \E x \in Sealed : SealKilled(n, x)
            BY <3>7, SealingKilled
        <3>8. CASE \E r \in Member : DeliverKilled(n, r)
            BY <3>8, DeliveringKilled
        <3> QED BY <3>1, <3>2, <3>3, <3>4, <3>5, <3>6, <3>7, <3>8
    <2>2. CASE UNCHANGED vars
        BY <2>2, Stuttering
    <2> QED BY <2>1, <2>2
<1> QED BY <1>1, <1>2, PTL DEF Spec

\* The buffers hold one block per height and no more than the window, a
\* pruned chain starts with its cut, no request stays half made: for every
\* number of seats, window, height, and however many writes fail.
THEOREM TypeCorrect == Spec => []TypeOK
<1>1. IInv => TypeOK
    <2> SUFFICES ASSUME IInv, NEW n \in Member
                 PROVE  LET s == seat[n]
                        IN  /\ s.base \in 0 .. Height(s) /\ (s.base > 0 => s.chain[s.base] = Cut)
                            /\ \A S \in {s.pend, s.fork} : OnePerHeight(S) /\ Cardinality(S) <= Window
                            /\ ~s.asks
        BY DEF TypeOK
    <2>1. PICK s : s = seat[n]
        OBVIOUS
    <2>2. SeatOK(s, PoolNow) /\ s.asks = FALSE
        BY <2>1 DEF IInv, Shape
    <2>3. s.base \in Nat /\ Len(s.chain) \in Nat /\ s.base <= Len(s.chain)
        BY <2>2, BlockFacts DEF SeatOK, SeatT, Anchored
    <2>4. s.base \in 0 .. Height(s) /\ (s.base > 0 => s.chain[s.base] = Cut)
        BY <2>2, <2>3 DEF SeatOK, Anchored, Height
    <2>5. \A S \in {s.pend, s.fork} : OnePerHeight(S) /\ Cardinality(S) <= Window
        BY <2>2 DEF SeatOK, BufOK
    <2> QED BY <2>1, <2>2, <2>4, <2>5
<1> QED BY <1>1, Invariance, PTL

\* A chain that differs from what everybody signed, below its end, loses there.
LEMMA LosesThere ==
    ASSUME NEW c \in Block, NEW d \in Block, NEW B \in 1 .. Len(c),
           NEW P \in Block, Len(P) = B - 1, Same(P, c, B - 1), ~Beats(d, P),
           NEW h \in Nat, h \in Forked(c, d), \A g \in Forked(c, d) : h <= g, h < B
    PROVE  c[h] < d[h]
<1>1. Len(c) \in Nat /\ Len(d) \in Nat /\ Len(P) \in Nat
    BY BlockFacts
<1>2. PICK T : T = {Len(c), Len(d)}
    OBVIOUS
<1>3. T \in SUBSET Nat /\ T # {}
    BY <1>1, <1>2
<1>4. Min(T) \in Nat /\ Min(T) <= Len(c) /\ Min(T) <= Len(d) /\ (Min(T) = Len(c) \/ Min(T) = Len(d))
    BY <1>1, <1>2, <1>3, MinFacts
<1>5. Forked(c, d) = {g \in 1 .. Min(T) : c[g] # d[g]}
    BY <1>2 DEF Forked
<1>6. h \in 1 .. Min(T) /\ c[h] # d[h]
    BY <1>5
<1>7. h \in 1 .. Len(c) /\ h \in 1 .. Len(d) /\ h <= Len(P)
    BY <1>1, <1>4, <1>6
<1>8. ASSUME NEW i \in 1 .. h - 1 PROVE d[i] = P[i]
    <2>1. i \in 1 .. Min(T) /\ i < h
        BY <1>4, <1>6
    <2>2. i \notin Forked(c, d)
        BY <2>1
    <2>3. c[i] = d[i]
        BY <1>5, <2>1, <2>2
    <2>4. i \in 1 .. B - 1
        BY <1>1, <2>1
    <2> QED BY <2>3, <2>4 DEF Same
<1>9. P[h] = c[h]
    <2>1. h \in 1 .. B - 1
        BY <1>1, <1>7
    <2> QED BY <2>1 DEF Same
<1>10. ~(d[h] < P[h])
    BY <1>7, <1>8 DEF Beats, TopsAt
<1>11. c[h] \in Nat /\ d[h] \in Nat
    BY <1>7, BlockFacts
<1> QED BY <1>6, <1>9, <1>10, <1>11

\* A cut never splits the republic: no seat stands on a branch that beats, by
\* the tie-break, history another seat dropped at its anchor, unless a seat
\* spread or signed what its disk does not have, or a signature given on one
\* order of the changes sealed a cut of another.  For every number of seats,
\* every order of deliveries, every write that fails and every crash, the kill
\* between the chain file and the record of a seal included.
THEOREM CutStands == Spec => []CutHistoryStands
<1>1. IInv => CutHistoryStands
    <2> SUFFICES ASSUME IInv, ~voided, NEW n \in Member, NEW k \in Member,
                        Forked(seat[n].chain, seat[k].chain) # {},
                        Min(Forked(seat[n].chain, seat[k].chain)) < seat[n].base
                 PROVE  seat[n].chain[Min(Forked(seat[n].chain, seat[k].chain))]
                            < seat[k].chain[Min(Forked(seat[n].chain, seat[k].chain))]
        BY DEF CutHistoryStands
    <2>1. PICK c : c = seat[n].chain
        OBVIOUS
    <2>2. PICK d : d = seat[k].chain
        OBVIOUS
    <2>3. PICK B : B = seat[n].base
        OBVIOUS
    <2>4. PICK F : F = Forked(c, d)
        OBVIOUS
    <2>5. PICK h : h = Min(F)
        OBVIOUS
    <2>6. Shape /\ Core(Chains, Disks, Told, cutSigs)
        BY DEF IInv
    <2>7. c \in Block /\ d \in Block /\ B \in Nat /\ Anchored(c, B)
        BY <2>1, <2>2, <2>3, <2>6 DEF Shape, SeatOK, SeatT
    <2>8. F \in SUBSET Nat /\ F # {}
        <3>1. F \in SUBSET Nat
            BY <2>4 DEF Forked
        <3> QED BY <2>1, <2>2, <2>4, <3>1
    <2>9. h \in F /\ h \in Nat /\ \A g \in F : h <= g
        BY <2>5, <2>8, MinFacts
    <2>10. h < B
        BY <2>1, <2>2, <2>3, <2>4, <2>5
    <2>11. B \in 1 .. Len(c) /\ c[B] = Cut
        BY <2>7, <2>9, <2>10, BlockFacts DEF Anchored
    <2>12. Chains[n] = c /\ Chains[k] = d
        BY <2>1, <2>2 DEF Chains
    <2>13. CutsSigned(c, cutSigs)
        BY <2>6, <2>12 DEF Core, ChainOK
    <2>14. PICK P \in Block : /\ Len(P) = B - 1 /\ Same(P, c, B - 1)
                              /\ \A m \in Member : <<m, P>> \in cutSigs
        BY <2>11, <2>13 DEF CutsSigned
    <2>15. ~Beats(d, P)
        BY <2>6, <2>12, <2>14, NobodyBeats
    <2>16. c[h] < d[h]
        BY <2>4, <2>7, <2>9, <2>10, <2>11, <2>14, <2>15, LosesThere
    <2> QED BY <2>1, <2>2, <2>4, <2>5, <2>16
<1> QED BY <1>1, Invariance, PTL

=============================================================================
