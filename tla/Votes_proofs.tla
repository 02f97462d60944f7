---------------------------- MODULE Votes_proofs ----------------------------
(***************************************************************************)
(* Proofs about Votes, for any number of seats, any threshold, any number  *)
(* of decisions, foreign blocks and re-serves.                             *)
(*                                                                         *)
(* Fits(s, n, HD, R, late, w) relates seat n's view s of the vote to what  *)
(* it has been told: HD are the members whose newest word to n is a        *)
(* decline, R those of whom a third seat re-served a signature, late says  *)
(* that a voice outran the card, and w is the decision of n's operator.    *)
(***************************************************************************)
EXTENDS Votes, FiniteSetTheorems, SequenceTheorems, WellFoundedInduction, TLAPS

Seat == [card : Card, by : Member, decl : SUBSET Member, sh : Nat,
         sigs : SUBSET Member, ver : SUBSET Member, own : BOOLEAN,
         park : SUBSET Member, parkW : BOOLEAN, held : BOOLEAN, head : Nat]

Decision == {"none", "approve", "decline"}

\* Until the card is over, a verdict stands on a signature that is held.
VerHeld(s) == s.card \in {"none", "open"} => \A x \in s.ver : x \in s.sigs

Fits(s, n, HD, R, late, w) ==
    /\ VerHeld(s)
    /\ s.sh <= s.head + 1
    /\ s.card = "none" => s.decl = {} /\ s.ver = {} /\ s.own = FALSE /\ w = "none"
    /\ n \in s.sigs => n \in s.ver
    /\ n \notin s.park
    /\ n \in s.decl => w = "decline"
    /\ n \notin R /\ (s.own \/ n \in s.ver) => w = "approve"
    /\ \A b \in Member : b \notin R =>
        /\ s.card = "none" /\ b \in HD => b \in s.park
        /\ s.card = "open" /\ b \in HD => b \in s.decl
        /\ s.card = "open" /\ b \in s.decl /\ ~late => b \in HD
        /\ s.card = "open" => ~ (b \in s.decl /\ b \in s.ver)

-----------------------------------------------------------------------------
(***************************************************************************)
(* The rules of one seat.                                                  *)
(***************************************************************************)

\* The members can be counted.
LEMMA Counting ==
    /\ IsFiniteSet(Member) /\ Cardinality(Member) \in Nat /\ VetoRoom \in Nat
    /\ \A S \in SUBSET Member : IsFiniteSet(S) /\ Cardinality(S) \in Nat
<1>1. IsFiniteSet(Member) /\ Cardinality(Member) \in Nat
    BY MemberAssumption, FS_CardinalityType
<1>2. VetoRoom \in Nat
    BY <1>1, RuleAssumption DEF VetoRoom
<1>3. \A S \in SUBSET Member : IsFiniteSet(S) /\ Cardinality(S) \in Nat
    BY <1>1, FS_Subset, FS_CardinalityType
<1> QED BY <1>1, <1>2, <1>3

\* What Collect does, t being the seat after it: nothing, or b's signature is
\* taken, possibly into an emptied set, or only its verdict is.
Taken(t, s, n, b, h, verified) ==
    /\ t.sh = h /\ b \in t.sigs /\ (b = n => verified)
    /\ \A x \in t.sigs : x \in s.sigs \/ x = b
    /\ \A x \in t.ver : x \in s.ver \/ (x = b /\ verified)
    /\ b \in t.ver <=> verified
    /\ \/ \A x \in Member : x # b => (x \in t.sigs <=> x \in s.sigs) /\ (x \in t.ver <=> x \in s.ver)
       \/ \A x \in Member : x # b => x \notin t.sigs /\ x \notin t.ver

MarkedOnly(t, s, b, h, verified) ==
    /\ verified /\ (s.card \notin {"none", "open"} \/ h < s.sh)
    /\ t.sh = s.sh /\ t.sigs = s.sigs /\ t.ver = s.ver \cup {b}

Collected(t, s, n, b, h, verified) ==
    /\ t \in Seat
    /\ t.card = s.card /\ t.by = s.by /\ t.decl = s.decl /\ t.own = s.own
    /\ t.park = s.park /\ t.parkW = s.parkW /\ t.held = s.held /\ t.head = s.head
    /\ t = s \/ Taken(t, s, n, b, h, verified) \/ MarkedOnly(t, s, b, h, verified)

\* Collect changes the signatures and their verdicts only.
LEMMA CollectFacts ==
    ASSUME NEW s \in Seat, NEW n \in Member, NEW b \in Member, NEW h \in Nat,
           NEW verified \in BOOLEAN, verified => h = s.head + 1
    PROVE  Collected(Collect(s, n, b, h, verified), s, n, b, h, verified)
<1> DEFINE c == CollectSig(s, n, b, h, verified)
           t == Collect(s, n, b, h, verified)
           keep == IF h > s.sh THEN {} ELSE s.sigs
           mark == IF h > s.sh THEN {} ELSE s.ver \ {b}
           q == [s EXCEPT !.sh   = h,
                          !.sigs = keep \cup {b},
                          !.ver  = mark]
           r == [q EXCEPT !.ver = @ \cup {b}]
           m == [s EXCEPT !.ver = @ \cup {b}]
<1>0. s.sh \in Nat /\ s.head \in Nat /\ (verified => h > 0)
    BY DEF Seat
<1>1. \/ c = s /\ (verified => s.card \notin {"none", "open"} \/ h < s.sh)
      \/ c = q /\ (b = n => verified)
    BY DEF CollectSig
<1>2. /\ keep \in SUBSET Member /\ mark \in SUBSET Member
      /\ \A x \in keep : x \in s.sigs
      /\ \A x \in mark : x \in s.ver /\ x # b
    BY DEF Seat
<1>3. \/ \A x \in Member : x # b => (x \in keep <=> x \in s.sigs) /\ (x \in mark <=> x \in s.ver)
      \/ \A x \in Member : x \notin keep /\ x \notin mark
    OBVIOUS
<1> HIDE DEF keep, mark
<1>4. /\ q \in Seat
      /\ q.card = s.card /\ q.by = s.by /\ q.decl = s.decl /\ q.own = s.own
      /\ q.park = s.park /\ q.parkW = s.parkW /\ q.held = s.held /\ q.head = s.head
      /\ q.sh = h /\ q.sigs = keep \cup {b} /\ q.ver = mark
    BY <1>2 DEF Seat
<1>5. /\ m \in Seat
      /\ m.card = s.card /\ m.by = s.by /\ m.decl = s.decl /\ m.own = s.own
      /\ m.park = s.park /\ m.parkW = s.parkW /\ m.held = s.held /\ m.head = s.head
      /\ m.sh = s.sh /\ m.sigs = s.sigs /\ m.ver = s.ver \cup {b}
    BY DEF Seat
<1> HIDE DEF q, m
<1>6. /\ r \in Seat
      /\ r.card = s.card /\ r.by = s.by /\ r.decl = s.decl /\ r.own = s.own
      /\ r.park = s.park /\ r.parkW = s.parkW /\ r.held = s.held /\ r.head = s.head
      /\ r.sh = h /\ r.sigs = keep \cup {b} /\ r.ver = mark \cup {b}
    BY <1>2, <1>4 DEF Seat
<1> HIDE DEF r, c
<1>7. /\ c = s => t = s \/ (t = m /\ verified)
      /\ c = q => IF verified THEN t = r ELSE t = q
    BY <1>0, <1>4 DEF Collect, MarkVerified, c, m, r
<1> HIDE DEF t
<1>8. CASE t = s
    BY <1>8 DEF t, Collected
<1>9. CASE t = m /\ verified /\ (s.card \notin {"none", "open"} \/ h < s.sh)
    BY <1>5, <1>9 DEF t, Collected, MarkedOnly
<1>10. CASE t = r /\ verified
    <2>1. Taken(r, s, n, b, h, verified)
        BY <1>2, <1>3, <1>6, <1>10 DEF Taken
    <2> QED BY <1>6, <1>10, <2>1 DEF t, Collected
<1>11. CASE t = q /\ ~verified /\ b # n
    <2>1. Taken(q, s, n, b, h, verified)
        BY <1>2, <1>3, <1>4, <1>11 DEF Taken
    <2> QED BY <1>4, <1>11, <2>1 DEF t, Collected
<1> QED BY <1>1, <1>7, <1>8, <1>9, <1>10, <1>11

\* A collected signature fits if its author's decline is cleared or relayed,
\* and an own one is the operator's decision.
LEMMA CollectFits ==
    ASSUME NEW s \in Seat, NEW n \in Member, NEW b \in Member, NEW h \in Nat,
           NEW verified \in BOOLEAN, NEW HD, NEW R, NEW late, NEW w,
           Fits(s, n, HD, R, late, w), h <= s.head + 1,
           verified => s.card # "none" /\ h = s.head + 1,
           s.card = "open" /\ b \notin R => b \notin s.decl,
           b = n /\ n \notin R => w = "approve"
    PROVE  Fits(Collect(s, n, b, h, verified), n, HD, R, late, w)
<1> DEFINE t == Collect(s, n, b, h, verified)
<1>0. Collected(t, s, n, b, h, verified)
    BY CollectFacts
<1> HIDE DEF t
<1>1. /\ t \in Seat
      /\ t.card = s.card /\ t.by = s.by /\ t.decl = s.decl /\ t.own = s.own
      /\ t.park = s.park /\ t.parkW = s.parkW /\ t.held = s.held /\ t.head = s.head
      /\ t = s \/ Taken(t, s, n, b, h, verified) \/ MarkedOnly(t, s, b, h, verified)
    BY <1>0 DEF Collected
<1>a. s.sh \in Nat /\ s.head \in Nat /\ s.sh <= s.head + 1
    BY DEF Seat, Fits
<1>2. CASE t = s
    BY <1>2 DEF t
<1>3. CASE Taken(t, s, n, b, h, verified)
    <2>1. VerHeld(t)
        <3>1. \A x \in t.ver : x \in Member
            BY <1>1 DEF Seat
        <3> QED BY <1>1, <1>3, <3>1 DEF Fits, VerHeld, Taken
    <2>2. n \in t.sigs => n \in t.ver
        BY <1>1, <1>3 DEF Fits, Taken
    <2>3. t.card = "none" => t.ver = {}
        BY <1>1, <1>3 DEF Fits, Taken
    <2>4. n \notin R /\ (t.own \/ n \in t.ver) => w = "approve"
        BY <1>1, <1>3 DEF Fits, Taken
    <2>5. \A x \in Member : x \notin R /\ t.card = "open" => ~ (x \in t.decl /\ x \in t.ver)
        BY <1>1, <1>3 DEF Fits, Taken
    <2>6. t.sh = h
        BY <1>3 DEF Taken
    <2> QED BY <1>1, <2>1, <2>2, <2>3, <2>4, <2>5, <2>6 DEF Fits, t
<1>4. CASE MarkedOnly(t, s, b, h, verified)
    <2>1. /\ s.card \notin {"none", "open"} /\ t.sh = s.sh /\ t.sigs = s.sigs
          /\ \A x \in t.ver : x \in s.ver \/ x = b
          /\ \A x \in s.ver : x \in t.ver
        BY <1>4, <1>a DEF MarkedOnly
    <2>2. VerHeld(t)
        BY <1>1, <2>1 DEF VerHeld
    <2>3. n \in t.sigs => n \in t.ver
        BY <2>1 DEF Fits
    <2>4. n \notin R /\ (t.own \/ n \in t.ver) => w = "approve"
        BY <1>1, <2>1 DEF Fits
    <2> QED BY <1>1, <2>1, <2>2, <2>3, <2>4 DEF Fits, t
<1> QED BY <1>1, <1>2, <1>3, <1>4

\* The seal takes the card out of the vote.
LEMMA TryCommitFacts ==
    ASSUME NEW s \in Seat, NEW paced \in BOOLEAN
    PROVE  LET t == TryCommit(s, paced)
           IN  /\ t \in Seat
               /\ t.by = s.by /\ t.decl = s.decl /\ t.own = s.own /\ t.park = s.park /\ t.parkW = s.parkW
               /\ \/ t.card = s.card /\ t.head = s.head /\ t.sh = s.sh /\ t.sigs = s.sigs /\ t.ver = s.ver
                  \/ /\ s.card = "open" /\ t.card = "applied" /\ t.head = s.head + 1 /\ t.sh = 0
                     /\ t.sigs = {} /\ t.ver = {}
<1>1. CASE ~Sealable(s)
    BY <1>1 DEF TryCommit
<1>2. CASE Sealable(s) /\ ~paced
    BY <1>2 DEF TryCommit, Seat
<1>3. CASE Sealable(s) /\ paced
    <2> DEFINE q == [s EXCEPT !.card = "applied", !.head = @ + 1,
                              !.sh = 0, !.sigs = {}, !.ver = {}, !.held = FALSE]
    <2>1. TryCommit(s, paced) = q
        BY <1>3 DEF TryCommit
    <2>2. s.card = "open"
        BY <1>3 DEF Sealable
    <2>3. /\ q \in Seat /\ q.by = s.by /\ q.decl = s.decl /\ q.own = s.own /\ q.park = s.park
          /\ q.parkW = s.parkW /\ q.card = "applied" /\ q.head = s.head + 1 /\ q.sh = 0
          /\ q.sigs = {} /\ q.ver = {}
        <3>1. "applied" \in Card /\ s.head + 1 \in Nat
            BY DEF Card, Seat
        <3>2. q \in Seat
            BY <3>1 DEF Seat
        <3>3. /\ q.by = s.by /\ q.decl = s.decl /\ q.own = s.own /\ q.park = s.park
              /\ q.parkW = s.parkW /\ q.card = "applied" /\ q.head = s.head + 1 /\ q.sh = 0
              /\ q.sigs = {} /\ q.ver = {}
            BY DEF Seat
        <3> QED BY <3>2, <3>3
    <2> QED BY <2>1, <2>2, <2>3
<1> QED BY <1>1, <1>2, <1>3

\* The seal leaves the rest alone.
LEMMA TryCommitFits ==
    ASSUME NEW s \in Seat, NEW n \in Member, NEW paced \in BOOLEAN, NEW HD, NEW R, NEW late, NEW w,
           Fits(s, n, HD, R, late, w)
    PROVE  Fits(TryCommit(s, paced), n, HD, R, late, w)
<1> DEFINE t == TryCommit(s, paced)
<1>1. /\ t \in Seat
      /\ t.by = s.by /\ t.decl = s.decl /\ t.own = s.own /\ t.park = s.park /\ t.parkW = s.parkW
      /\ \/ t.card = s.card /\ t.head = s.head /\ t.sh = s.sh /\ t.sigs = s.sigs /\ t.ver = s.ver
         \/ /\ s.card = "open" /\ t.card = "applied" /\ t.head = s.head + 1 /\ t.sh = 0
            /\ t.sigs = {} /\ t.ver = {}
    BY TryCommitFacts
<1> HIDE DEF t
<1>2. s.head \in Nat
    BY DEF Seat
<1>3. CASE t.card = s.card /\ t.head = s.head /\ t.sh = s.sh /\ t.sigs = s.sigs /\ t.ver = s.ver
    BY <1>1, <1>3 DEF Fits, t, VerHeld
<1>4. CASE /\ s.card = "open" /\ t.card = "applied" /\ t.head = s.head + 1 /\ t.sh = 0
           /\ t.sigs = {} /\ t.ver = {}
    BY <1>1, <1>2, <1>4 DEF Fits, t, VerHeld
<1> QED BY <1>1, <1>3, <1>4

\* The fields a clear of one decline leaves.
LEMMA UndeclineFacts ==
    ASSUME NEW s \in Seat, NEW b
    PROVE  LET t == [s EXCEPT !.decl = @ \ {b}]
           IN  /\ t \in Seat /\ t.decl = s.decl \ {b}
               /\ t.card = s.card /\ t.by = s.by /\ t.sh = s.sh /\ t.sigs = s.sigs /\ t.ver = s.ver
               /\ t.own = s.own /\ t.park = s.park /\ t.parkW = s.parkW /\ t.head = s.head
BY DEF Seat

\* Once b's newest word is no longer a decline, its decline may be cleared;
\* of a relayed member nothing is claimed.
LEMMA UndeclineFits ==
    ASSUME NEW s \in Seat, NEW n \in Member, NEW b \in Member, NEW HD, NEW R, NEW late, NEW w,
           Fits(s, n, HD, R, late, w), b \notin R => b \notin HD
    PROVE  Fits([s EXCEPT !.decl = @ \ {b}], n, HD, R, late, w)
<1>1. PICK t : t = [s EXCEPT !.decl = @ \ {b}]
    OBVIOUS
<1>2. /\ t \in Seat /\ t.decl = s.decl \ {b}
      /\ t.card = s.card /\ t.by = s.by /\ t.sh = s.sh /\ t.sigs = s.sigs /\ t.ver = s.ver
      /\ t.own = s.own /\ t.park = s.park /\ t.parkW = s.parkW /\ t.head = s.head
    BY <1>1, UndeclineFacts
<1>3. Fits(t, n, HD, R, late, w)
    BY <1>2 DEF Fits, VerHeld
<1> QED BY <1>1, <1>3

\* What RegisterDecline does.
Declined(t, s, n, b) ==
    /\ t \in Seat
    /\ t.by = s.by /\ t.sh = s.sh /\ t.parkW = s.parkW /\ t.head = s.head
    /\ \/ /\ s.card = "none" /\ t.card = "none" /\ t.park = s.park \cup {b}
          /\ t.decl = s.decl /\ t.sigs = s.sigs /\ t.ver = s.ver /\ t.own = s.own
       \/ s.card # "none" /\ (s.card # "open" \/ b \in s.decl) /\ t = s
       \/ /\ s.card = "open" /\ b \notin s.decl /\ t.card \in {"open", "rejected"}
          /\ t.park = s.park /\ t.decl = s.decl \cup {b}
          /\ t.sigs = s.sigs \ {b} /\ t.ver = s.ver \ {b} /\ (t.own <=> s.own /\ b # n)

\* RegisterDecline parks the voice, drops it, or counts it.
LEMMA RegisterDeclineFacts ==
    ASSUME NEW s \in Seat, NEW n \in Member, NEW b \in Member
    PROVE  Declined(RegisterDecline(s, n, b), s, n, b)
<1>1. CASE s.card = "none"
    <2> DEFINE q == [s EXCEPT !.park = @ \cup {b}]
    <2>1. RegisterDecline(s, n, b) = q
        BY <1>1 DEF RegisterDecline
    <2>2. q \in Seat /\ q.by = s.by /\ q.sh = s.sh /\ q.parkW = s.parkW /\ q.head = s.head
          /\ q.card = s.card /\ q.park = s.park \cup {b}
          /\ q.decl = s.decl /\ q.sigs = s.sigs /\ q.ver = s.ver /\ q.own = s.own
        BY DEF Seat
    <2> HIDE DEF q
    <2> QED BY <1>1, <2>1, <2>2 DEF Declined
<1>2. CASE s.card # "none" /\ (s.card # "open" \/ b \in s.decl)
    BY <1>2 DEF RegisterDecline, Declined
<1>3. CASE s.card = "open" /\ b \notin s.decl
    <2> DEFINE d == s.decl \cup {b}
               c == IF Cardinality(d) > VetoRoom THEN "rejected" ELSE "open"
               q == [s EXCEPT !.decl = d, !.sigs = @ \ {b}, !.ver = @ \ {b},
                              !.own  = @ /\ b # n, !.card = c]
    <2>1. RegisterDecline(s, n, b) = q
        BY <1>3 DEF RegisterDecline
    <2>2. c \in Card /\ c \in {"open", "rejected"}
        BY DEF Card
    <2>3. d \in SUBSET Member
        BY DEF Seat
    <2> HIDE DEF c, d
    <2>4. q \in Seat
        BY <2>2, <2>3 DEF Seat
    <2>5. q.by = s.by /\ q.sh = s.sh /\ q.parkW = s.parkW /\ q.head = s.head /\ q.card = c
          /\ q.park = s.park /\ q.decl = d /\ q.sigs = s.sigs \ {b} /\ q.ver = s.ver \ {b}
          /\ (q.own <=> s.own /\ b # n)
        BY DEF Seat
    <2> HIDE DEF q
    <2> QED BY <1>3, <2>1, <2>2, <2>4, <2>5 DEF Declined, d
<1> QED BY <1>1, <1>2, <1>3

\* The voice of another member, heard, is parked or counted.
LEMMA PeerDeclineFits ==
    ASSUME NEW s \in Seat, NEW n \in Member, NEW b \in Member, NEW HD, NEW R, NEW late, NEW w,
           Fits(s, n, HD, R, late, w), b # n
    PROVE  Fits(RegisterDecline(s, n, b), n, HD \cup {b}, R, late, w)
<1>1. PICK t : t = RegisterDecline(s, n, b)
    OBVIOUS
<1>2. Declined(t, s, n, b)
    BY <1>1, RegisterDeclineFacts
<1>6. SUFFICES Fits(t, n, HD \cup {b}, R, late, w)
    BY <1>1
<1>3. CASE /\ s.card = "none" /\ t.card = "none" /\ t.park = s.park \cup {b}
           /\ t.decl = s.decl /\ t.sigs = s.sigs /\ t.ver = s.ver /\ t.own = s.own
    <2>1. t.sh = s.sh /\ t.head = s.head
        BY <1>2 DEF Declined
    <2> QED BY <1>3, <2>1 DEF Fits, VerHeld
<1>4. CASE s.card # "none" /\ (s.card # "open" \/ b \in s.decl) /\ t = s
    BY <1>4 DEF Fits
<1>5. CASE /\ s.card = "open" /\ b \notin s.decl /\ t.card \in {"open", "rejected"}
           /\ t.park = s.park /\ t.decl = s.decl \cup {b}
           /\ t.sigs = s.sigs \ {b} /\ t.ver = s.ver \ {b} /\ (t.own <=> s.own /\ b # n)
    <2>1. t.sh = s.sh /\ t.head = s.head
        BY <1>2 DEF Declined
    <2> QED BY <1>5, <2>1 DEF Fits, VerHeld
<1> QED BY <1>2, <1>3, <1>4, <1>5 DEF Declined

\* The own voice on an open card.
LEMMA OwnDeclineFits ==
    ASSUME NEW s \in Seat, NEW n \in Member, NEW HD, NEW R, NEW late, NEW w,
           Fits(s, n, HD, R, late, w), s.card = "open", n \notin s.decl
    PROVE  Fits(RegisterDecline(s, n, n), n, HD \cup {n}, R, late, "decline")
<1>1. PICK t : t = RegisterDecline(s, n, n)
    OBVIOUS
<1>2. Declined(t, s, n, n)
    BY <1>1, RegisterDeclineFacts
<1>3. /\ t.card \in {"open", "rejected"} /\ t.sh = s.sh /\ t.head = s.head
      /\ t.park = s.park /\ t.decl = s.decl \cup {n}
      /\ t.sigs = s.sigs \ {n} /\ t.ver = s.ver \ {n} /\ ~t.own
    BY <1>2 DEF Declined
<1>4. Fits(t, n, HD \cup {n}, R, late, "decline")
    BY <1>3 DEF Fits, VerHeld
<1> QED BY <1>1, <1>4

\* More relayed members, fewer claims.
LEMMA RelayFits ==
    ASSUME NEW s, NEW n, NEW HD, NEW R, NEW Q, NEW late, NEW w,
           Fits(s, n, HD, R, late, w), \A b \in R : b \in Q
    PROVE  Fits(s, n, HD, Q, late, w)
BY DEF Fits

\* An approval over its author's own link.
LEMMA ClearDeclineFits ==
    ASSUME NEW s \in Seat, NEW n \in Member, NEW b \in Member, NEW HD, NEW R, NEW late, NEW w,
           Fits(s, n, HD, R, late, w), b # n
    PROVE  /\ Fits(ClearDecline(s, b, b), n, HD \ {b}, R, late, w)
           /\ ClearDecline(s, b, b).card # "open" \/ b \notin ClearDecline(s, b, b).decl
<1>1. PICK t : t = [s EXCEPT !.decl = @ \ {b}]
    OBVIOUS
<1>2. /\ t \in Seat /\ t.decl = s.decl \ {b}
      /\ t.card = s.card /\ t.by = s.by /\ t.sh = s.sh /\ t.sigs = s.sigs /\ t.ver = s.ver
      /\ t.own = s.own /\ t.park = s.park /\ t.parkW = s.parkW /\ t.head = s.head
    BY <1>1, UndeclineFacts
<1>3. CASE s.card = "open"
    <2>1. ClearDecline(s, b, b) = t
        BY <1>1, <1>3 DEF ClearDecline
    <2>2. Fits(t, n, HD \ {b}, R, late, w)
        BY <1>2, <1>3 DEF Fits, VerHeld
    <2> QED BY <1>2, <2>1, <2>2
<1>4. CASE s.card # "open"
    <2>1. ClearDecline(s, b, b) = s
        BY <1>4 DEF ClearDecline
    <2>2. Fits(s, n, HD \ {b}, R, late, w)
        BY <1>4 DEF Fits
    <2> QED BY <1>4, <2>1, <2>2
<1> QED BY <1>3, <1>4

\* What RegisterWithdraw does.
Pulled(t, s, b) ==
    /\ t \in Seat /\ t.by = s.by /\ t.decl = s.decl /\ t.head = s.head
    /\ \/ /\ s.card = "none" /\ t.card = "none" /\ t.parkW = TRUE
          /\ t.sh = s.sh /\ t.sigs = s.sigs /\ t.ver = s.ver /\ t.own = s.own /\ t.park = s.park
       \/ s.card # "none" /\ (s.card # "open" \/ b # Minter) /\ t = s
       \/ /\ s.card = "open" /\ b = Minter /\ t.card = "withdrawn" /\ t.parkW = s.parkW
          /\ t.sh = 0 /\ t.sigs = {} /\ t.ver = {} /\ t.own = FALSE /\ t.park = {}

\* RegisterWithdraw parks the withdrawal, drops it, or ends the vote.
LEMMA RegisterWithdrawFacts ==
    ASSUME NEW s \in Seat, NEW b
    PROVE  Pulled(RegisterWithdraw(s, b), s, b)
<1>1. CASE s.card = "none"
    <2> DEFINE q == [s EXCEPT !.parkW = TRUE]
    <2>1. RegisterWithdraw(s, b) = q
        BY <1>1 DEF RegisterWithdraw
    <2>2. q \in Seat /\ q.by = s.by /\ q.decl = s.decl /\ q.head = s.head /\ q.card = s.card
          /\ q.parkW = TRUE /\ q.sh = s.sh /\ q.sigs = s.sigs /\ q.ver = s.ver /\ q.own = s.own
          /\ q.park = s.park
        BY DEF Seat
    <2> HIDE DEF q
    <2> QED BY <1>1, <2>1, <2>2 DEF Pulled
<1>2. CASE s.card # "none" /\ (s.card # "open" \/ b # Minter)
    BY <1>2 DEF RegisterWithdraw, Pulled
<1>3. CASE s.card = "open" /\ b = Minter
    <2> DEFINE q == [s EXCEPT !.card = "withdrawn", !.sh = 0, !.sigs = {}, !.ver = {},
                              !.own = FALSE, !.park = {}]
    <2>1. RegisterWithdraw(s, b) = q
        BY <1>3 DEF RegisterWithdraw
    <2>2. "withdrawn" \in Card
        BY DEF Card
    <2>3. q \in Seat
        BY <2>2 DEF Seat
    <2>4. q.by = s.by /\ q.decl = s.decl /\ q.head = s.head /\ q.card = "withdrawn"
          /\ q.parkW = s.parkW /\ q.sh = 0 /\ q.sigs = {} /\ q.ver = {} /\ q.own = FALSE
          /\ q.park = {}
        BY DEF Seat
    <2> HIDE DEF q
    <2> QED BY <1>3, <2>1, <2>3, <2>4 DEF Pulled
<1> QED BY <1>1, <1>2, <1>3

\* A withdrawal disturbs nothing that is claimed of the votes.
LEMMA RegisterWithdrawFits ==
    ASSUME NEW s \in Seat, NEW n \in Member, NEW b, NEW HD, NEW R, NEW late, NEW w,
           Fits(s, n, HD, R, late, w)
    PROVE  Fits(RegisterWithdraw(s, b), n, HD, R, late, w)
<1>1. PICK t : t = RegisterWithdraw(s, b)
    OBVIOUS
<1>2. Pulled(t, s, b)
    BY <1>1, RegisterWithdrawFacts
<1>3. SUFFICES Fits(t, n, HD, R, late, w)
    BY <1>1
<1>4. s.head \in Nat
    BY DEF Seat
<1>5. CASE /\ s.card = "none" /\ t.card = "none"
           /\ t.sh = s.sh /\ t.sigs = s.sigs /\ t.ver = s.ver /\ t.own = s.own /\ t.park = s.park
    <2>1. t.decl = s.decl /\ t.head = s.head
        BY <1>2 DEF Pulled
    <2> QED BY <1>5, <2>1 DEF Fits, VerHeld
<1>6. CASE t = s
    BY <1>6
<1>7. CASE /\ t.card = "withdrawn"
           /\ t.sh = 0 /\ t.sigs = {} /\ t.ver = {} /\ t.own = FALSE /\ t.park = {}
    <2>1. t.decl = s.decl /\ t.head = s.head
        BY <1>2 DEF Pulled
    <2> QED BY <1>4, <1>7, <2>1 DEF Fits, VerHeld
<1> QED BY <1>2, <1>5, <1>6, <1>7 DEF Pulled

\* The card is known: signatures that outran it are verified.
Known(s, from) == [s EXCEPT !.card = "open", !.by = from,
                            !.ver = IF s.sh = Target(s) THEN @ \cup s.sigs ELSE @]

\* The card opens.  Nothing is said yet of the voices that wait in the park.
LEMMA KnownFacts ==
    ASSUME NEW s \in Seat, NEW from \in Member, s.ver = {}
    PROVE  LET t == Known(s, from)
           IN  /\ t \in Seat /\ t.card = "open" /\ t.by = from /\ (t.ver = s.sigs \/ t.ver = s.ver)
               /\ t.decl = s.decl /\ t.sh = s.sh /\ t.sigs = s.sigs /\ t.own = s.own
               /\ t.park = s.park /\ t.parkW = s.parkW /\ t.head = s.head
<1> DEFINE v == IF s.sh = Target(s) THEN s.ver \cup s.sigs ELSE s.ver
           q == [s EXCEPT !.card = "open", !.by = from, !.ver = v]
<1>1. Known(s, from) = q
    BY DEF Known
<1>2. v \in SUBSET Member /\ (v = s.sigs \/ v = s.ver) /\ "open" \in Card
    BY DEF Seat, Card
<1> HIDE DEF v
<1>3. q \in Seat
    BY <1>2 DEF Seat
<1>4. /\ q.card = "open" /\ q.by = from /\ q.ver = v
      /\ q.decl = s.decl /\ q.sh = s.sh /\ q.sigs = s.sigs /\ q.own = s.own
      /\ q.park = s.park /\ q.parkW = s.parkW /\ q.head = s.head
    BY DEF Seat
<1> HIDE DEF q
<1> QED BY <1>1, <1>2, <1>3, <1>4

\* What the drained park leaves of an open card, and of one that is withdrawn.
Drained(t, s, n, D) ==
    /\ t \in Seat /\ t.by = s.by /\ t.sh = s.sh /\ t.parkW = s.parkW /\ t.head = s.head
    /\ t.park = {}
    /\ s.card # "open" => (/\ t.card = s.card /\ t.decl = s.decl /\ t.sigs = s.sigs
                           /\ t.ver = s.ver /\ t.own = s.own)
    /\ s.card = "open" => (/\ t.decl = D /\ t.sigs = s.sigs \ D /\ t.ver = s.ver \ D
                           /\ (t.own <=> (s.own /\ n \notin D))
                           /\ t.card = IF Cardinality(D) > VetoRoom THEN "rejected" ELSE "open")

\* register_parked_declines.
LEMMA ParkedFacts ==
    ASSUME NEW s \in Seat, NEW n \in Member, NEW D \in SUBSET Member
    PROVE  Drained(RegisterParkedDeclines(s, n, D), s, n, D)
<1>1. CASE s.card # "open"
    <2> DEFINE q == [s EXCEPT !.park = {}]
    <2>1. RegisterParkedDeclines(s, n, D) = q
        BY <1>1 DEF RegisterParkedDeclines
    <2>2. /\ q \in Seat /\ q.by = s.by /\ q.sh = s.sh /\ q.parkW = s.parkW /\ q.head = s.head
          /\ q.park = {} /\ q.card = s.card /\ q.decl = s.decl /\ q.sigs = s.sigs
          /\ q.ver = s.ver /\ q.own = s.own
        BY DEF Seat
    <2> HIDE DEF q
    <2> QED BY <1>1, <2>1, <2>2 DEF Drained
<1>2. CASE s.card = "open"
    <2> DEFINE c == IF Cardinality(D) > VetoRoom THEN "rejected" ELSE "open"
               q == [s EXCEPT !.park = {}, !.decl = D, !.sigs = @ \ D, !.ver = @ \ D,
                              !.own  = @ /\ n \notin D, !.card = c]
    <2>1. RegisterParkedDeclines(s, n, D) = q
        BY <1>2 DEF RegisterParkedDeclines
    <2>2. c \in Card
        BY DEF Card
    <2>3. c = IF Cardinality(D) > VetoRoom THEN "rejected" ELSE "open"
        OBVIOUS
    <2> HIDE DEF c
    <2>4. q \in Seat
        BY <2>2 DEF Seat
    <2>5. /\ q.by = s.by /\ q.sh = s.sh /\ q.parkW = s.parkW /\ q.head = s.head
          /\ q.park = {} /\ q.card = c /\ q.decl = D /\ q.sigs = s.sigs \ D
          /\ q.ver = s.ver \ D /\ (q.own <=> (s.own /\ n \notin D))
        BY DEF Seat
    <2> HIDE DEF q
    <2> QED BY <1>2, <2>1, <2>3, <2>4, <2>5 DEF Drained
<1> QED BY <1>1, <1>2

\* A card that arrives: the seat gets to know it, with the parked withdrawal
\* and the parked voices.
Arrived(t, s, from) ==
    /\ t \in Seat /\ t.by = from /\ t.head = s.head
    /\ t.card \in {"open", "rejected", "withdrawn"} /\ t.park = {} /\ t.parkW = FALSE
    /\ s.parkW <=> t.card = "withdrawn"

\* receive_proposed, of a card that is new here.
LEMMA ReceiveProposedFits ==
    ASSUME NEW s \in Seat, NEW n \in Member, NEW from \in Member, NEW D \in DrainOrders(s),
           NEW HD, NEW R, NEW late, NEW late2, NEW w,
           Fits(s, n, HD, R, late, w), s.card = "none", s.park # {} => late2
    PROVE  LET t == ReceiveProposed(s, n, from, D)
           IN  Arrived(t, s, from) /\ Fits(t, n, HD, R, late2, w)
<1> DEFINE k == Known(s, from)
           p == IF s.parkW THEN RegisterWithdraw([k EXCEPT !.parkW = FALSE], Minter) ELSE k
           t == RegisterParkedDeclines(p, n, D)
<1>1. ReceiveProposed(s, n, from, D) = t
    BY DEF ReceiveProposed, Known
<1>2. D \in SUBSET Member /\ D \subseteq s.park
    BY DEF DrainOrders, Seat
<1>3. /\ k \in Seat /\ k.card = "open" /\ k.by = from /\ (k.ver = s.sigs \/ k.ver = s.ver)
      /\ k.decl = s.decl /\ k.sh = s.sh /\ k.sigs = s.sigs /\ k.own = s.own
      /\ k.park = s.park /\ k.parkW = s.parkW /\ k.head = s.head
    <2>1. s.ver = {}
        BY DEF Fits
    <2> QED BY <2>1, KnownFacts
<1> HIDE DEF k
<1>4. s.head \in Nat /\ s.parkW \in BOOLEAN
    BY DEF Seat
<1>5. n \notin s.sigs
    BY DEF Fits
<1>6. s.decl = {} /\ s.own = FALSE /\ w = "none" /\ n \notin s.park /\ s.sh <= s.head + 1
    BY DEF Fits
<1>7. SUFFICES Arrived(t, s, from) /\ Fits(t, n, HD, R, late2, w)
    BY <1>1
<1>8. CASE s.parkW
    <2> DEFINE j == [k EXCEPT !.parkW = FALSE]
    <2>1. /\ j \in Seat /\ j.card = "open" /\ j.by = from /\ j.decl = {} /\ j.head = s.head /\ j.parkW = FALSE
        BY <1>3, <1>6 DEF Seat
    <2>2. p = RegisterWithdraw(j, Minter)
        BY <1>8
    <2> HIDE DEF j, p
    <2>3. Pulled(p, j, Minter)
        BY <2>1, <2>2, RegisterWithdrawFacts
    <2>4. /\ p \in Seat /\ p.by = from /\ p.decl = {} /\ p.head = s.head /\ p.card = "withdrawn" /\ p.parkW = FALSE
          /\ p.sh = 0 /\ p.sigs = {} /\ p.ver = {} /\ p.own = FALSE
        BY <2>1, <2>3 DEF Pulled
    <2>5. /\ t \in Seat /\ t.by = from /\ t.sh = 0 /\ t.parkW = FALSE /\ t.head = s.head /\ t.park = {}
          /\ t.card = "withdrawn" /\ t.decl = {} /\ t.sigs = {} /\ t.ver = {} /\ t.own = FALSE
        <3>1. Drained(t, p, n, D)
            BY <1>2, <2>4, ParkedFacts
        <3> HIDE DEF t
        <3> QED BY <2>4, <3>1 DEF Drained
    <2> HIDE DEF t
    <2>6. Fits(t, n, HD, R, late2, w)
        BY <1>4, <1>6, <2>5 DEF Fits, VerHeld
    <2>7. Arrived(t, s, from)
        BY <1>4, <1>8, <2>5 DEF Arrived
    <2> QED BY <2>6, <2>7
<1>9. CASE ~s.parkW
    <2>1. p = k
        BY <1>9
    <2> HIDE DEF p
    <2>2. /\ t \in Seat /\ t.by = from /\ t.sh = s.sh /\ t.parkW = s.parkW /\ t.head = s.head /\ t.park = {}
          /\ t.decl = D /\ t.sigs = s.sigs \ D /\ t.ver = k.ver \ D /\ (t.own <=> (s.own /\ n \notin D))
          /\ t.card = IF Cardinality(D) > VetoRoom THEN "rejected" ELSE "open"
        <3>1. Drained(t, p, n, D)
            BY <1>2, <1>3, <2>1, ParkedFacts
        <3> HIDE DEF t
        <3> QED BY <1>3, <2>1, <3>1 DEF Drained
    <2> HIDE DEF t
    <2>3. VerHeld(t)
        BY <1>3, <2>2 DEF Fits, VerHeld
    <2>4. t.card = "open" => D = s.park
        <3>1. Cardinality(D) \in Nat /\ VetoRoom \in Nat
            BY <1>2, Counting
        <3> QED BY <2>2, <3>1 DEF DrainOrders
    <2>5. \A b \in Member : b \notin R /\ s.card = "none" /\ b \in HD => b \in s.park
        BY DEF Fits
    <2>6. Fits(t, n, HD, R, late2, w)
        BY <1>2, <1>3, <1>4, <1>5, <1>6, <2>2, <2>3, <2>4, <2>5 DEF Fits
    <2>7. Arrived(t, s, from)
        BY <1>4, <1>9, <2>2 DEF Arrived
    <2> QED BY <2>6, <2>7
<1> QED BY <1>4, <1>8, <1>9

\* A step that moves the card at most to its seal.
Carried(t, s) ==
    /\ t \in Seat /\ t.by = s.by /\ t.parkW = s.parkW
    /\ t.card = s.card \/ (s.card = "open" /\ t.card = "applied")

\* The seat before the seal and after the ingest of an approval.
Ingested(c, u, t, s, n, from, b, h, paced) ==
    /\ c = ClearDecline(s, from, b)
    /\ u = Collect(c, n, b, h, ApprovalVerifies(c, h))
    /\ t = ReceiveApproval(s, n, from, b, h, paced)

\* What the approval changes in what n was told.
Shifted(HD2, R2, HD, R, from, b) ==
    /\ HD2 = IF b = from THEN HD \ {b} ELSE HD
    /\ R2 = IF b = from THEN R ELSE R \cup {b}

\* The ingest of an approval of b over the link of from: what from said for
\* itself replaces its decline, what it relays for b is no more than relayed.
LEMMA ReceiveApprovalFits ==
    ASSUME NEW s \in Seat, NEW n \in Member, NEW from \in Member, NEW b \in Member, NEW h \in Nat,
           NEW paced \in BOOLEAN, NEW HD, NEW R, NEW late, NEW w, NEW HD2, NEW R2,
           NEW c, NEW u, NEW t, Ingested(c, u, t, s, n, from, b, h, paced),
           Shifted(HD2, R2, HD, R, from, b), Fits(s, n, HD, R, late, w), from # n
    PROVE  /\ Carried(t, s) /\ Fits(t, n, HD2, R2, late, w)
           /\ u \in Seat /\ u.card = s.card
           /\ u.card = "open" /\ t.card = "applied" => Fits(u, n, HD2, R2, late, w)
<1> USE DEF Ingested, Shifted
<1>1. c = ClearDecline(s, from, b)
    OBVIOUS
<1>2. PICK v \in BOOLEAN : v = ApprovalVerifies(c, h)
    BY DEF ApprovalVerifies
<1>3. u = Collect(c, n, b, h, v)
    BY <1>2
<1>4. PICK x : x = IF h > Target(c) THEN c ELSE TryCommit(u, paced)
    OBVIOUS
<1>5. t = ReceiveApproval(s, n, from, b, h, paced)
    OBVIOUS
<1>6. t = IF Landed(x, b, h) THEN ApplyApproved(x, b) ELSE x
    <2>1. Target(c) = Target(s)
        <3>1. c.head = s.head
            BY <1>1, UndeclineFacts DEF ClearDecline
        <3> QED BY <3>1 DEF Target
    <2> QED BY <1>1, <1>2, <1>3, <1>4, <1>5, <2>1 DEF ReceiveApproval
<1>8. /\ c \in Seat /\ c.card = s.card /\ c.by = s.by /\ c.parkW = s.parkW
      /\ Fits(c, n, HD2, R2, late, w)
      /\ c.card = "open" => b \in R2 \/ b \notin c.decl
    <2>1. CASE b = from
        <3>1. /\ Fits(c, n, HD \ {b}, R, late, w)
              /\ c.card # "open" \/ b \notin c.decl
            BY <1>1, <2>1, ClearDeclineFits
        <3>2. c \in Seat /\ c.card = s.card /\ c.by = s.by /\ c.parkW = s.parkW
            BY <1>1, UndeclineFacts DEF ClearDecline
        <3>3. HD2 = HD \ {b} /\ R2 = R
            BY <2>1
        <3> QED BY <3>1, <3>2, <3>3
    <2>2. CASE b # from
        <3>1. c = s
            BY <1>1, <2>2 DEF ClearDecline
        <3>2. HD2 = HD /\ R2 = R \cup {b}
            BY <2>2
        <3>3. Fits(s, n, HD, R \cup {b}, late, w)
            BY RelayFits
        <3> QED BY <3>1, <3>2, <3>3
    <2> QED BY <2>1, <2>2
<1>0. v => c.card # "none" /\ h = c.head + 1
    BY <1>2 DEF ApprovalVerifies, Target
<1>9. Collected(u, c, n, b, h, v)
    BY <1>0, <1>3, <1>8, CollectFacts
<1>10. u \in Seat /\ u.card = c.card /\ u.by = c.by /\ u.parkW = c.parkW /\ u.head = c.head
    BY <1>9 DEF Collected
<1>11. ASSUME ~ (h > Target(c)) PROVE Fits(u, n, HD2, R2, late, w)
    <2>1. h <= c.head + 1
        BY <1>8, <1>11 DEF Target, Seat
    <2>2. c.card = "open" /\ b \notin R2 => b \notin c.decl
        BY <1>8
    <2>3. b = n => n \in R2
        OBVIOUS
    <2> QED BY <1>0, <1>3, <1>8, <2>1, <2>2, <2>3, CollectFits
<1>12. CASE h > Target(c)
    <2>1. c.sh <= c.head + 1 /\ c.sh \in Nat /\ c.head \in Nat
        BY <1>8 DEF Fits, Seat
    <2>2. ~Landed(x, b, h)
        BY <1>4, <1>12, <2>1 DEF Landed, Target
    <2>3. t = c
        BY <1>4, <1>6, <1>12, <2>2
    <2> QED BY <1>8, <1>10, <2>3 DEF Carried
<1>13. CASE ~ (h > Target(c))
    <2>1. Fits(u, n, HD2, R2, late, w)
        BY <1>11, <1>13
    <2>2. Fits(x, n, HD2, R2, late, w)
        BY <1>4, <1>10, <1>13, <2>1, TryCommitFits
    <2>3. Carried(x, s)
        <3>1. /\ x \in Seat /\ x.by = u.by /\ x.parkW = u.parkW
              /\ x.card = u.card \/ (u.card = "open" /\ x.card = "applied")
            BY <1>4, <1>10, <1>13, TryCommitFacts
        <3> QED BY <1>8, <1>10, <3>1 DEF Carried
    <2>4. CASE t = x
        BY <1>8, <1>10, <2>1, <2>2, <2>3, <2>4
    <2>5. CASE x.card = "open" /\ t = [x EXCEPT !.decl = @ \ {b}]
        <3>1. b \notin R2 => b \notin HD2
            OBVIOUS
        <3>2. x \in Seat
            BY <2>3 DEF Carried
        <3>3. Fits(t, n, HD2, R2, late, w)
            BY <2>2, <2>5, <3>1, <3>2, UndeclineFits
        <3>4. t \in Seat /\ t.card = x.card /\ t.by = x.by /\ t.parkW = x.parkW
            BY <2>5, <3>2, UndeclineFacts
        <3>5. Carried(t, s)
            BY <2>3, <3>4 DEF Carried
        <3> QED BY <1>8, <1>10, <2>1, <3>3, <3>5
    <2> QED BY <1>6, <1>13, <2>4, <2>5 DEF ApplyApproved
<1> QED BY <1>12, <1>13

\* The seat's own signature, of what its operator approved.
LEMMA SignFits ==
    ASSUME NEW s \in Seat, NEW n \in Member, NEW HD, NEW R, NEW late, NEW w,
           Fits(s, n, HD, R, late, w), s.card = "open",
           n \notin R => w = "approve"
    PROVE  Fits(Sign(s, n), n, HD, R, late, w) /\ Carried(Sign(s, n), s) /\ Sign(s, n).card = "open"
<1>1. PICK q : q = [s EXCEPT !.own = TRUE]
    OBVIOUS
<1>2. /\ q \in Seat /\ q.own = TRUE /\ q.card = s.card /\ q.by = s.by /\ q.decl = s.decl /\ q.sh = s.sh
      /\ q.sigs = s.sigs /\ q.ver = s.ver /\ q.park = s.park /\ q.parkW = s.parkW /\ q.head = s.head
    BY <1>1 DEF Seat
<1>3. Fits(q, n, HD, R, late, w)
    BY <1>2 DEF Fits, VerHeld
<1>4. Sign(s, n) = Collect(q, n, n, Target(s), TRUE)
    BY <1>1 DEF Sign
<1>5. Target(s) \in Nat /\ Target(s) <= q.head + 1 /\ Target(s) = q.head + 1
    BY <1>2 DEF Target, Seat
<1>6. n \notin R => n \notin q.decl
    BY <1>3 DEF Fits
<1>7. Fits(Collect(q, n, n, Target(s), TRUE), n, HD, R, late, w)
    BY <1>2, <1>3, <1>5, <1>6, CollectFits
<1>8. Collected(Collect(q, n, n, Target(s), TRUE), q, n, n, Target(s), TRUE)
    BY <1>2, <1>5, CollectFacts
<1>9. Carried(Collect(q, n, n, Target(s), TRUE), s) /\ Collect(q, n, n, Target(s), TRUE).card = "open"
    BY <1>2, <1>8 DEF Collected, Carried
<1> QED BY <1>4, <1>7, <1>9

\* The seal, as a step of the card.
LEMMA TryCommitCarried ==
    ASSUME NEW s, NEW u \in Seat, NEW paced \in BOOLEAN, Carried(u, s), u.card = s.card
    PROVE  Carried(TryCommit(u, paced), s)
<1>1. PICK t : t = TryCommit(u, paced)
    OBVIOUS
<1>2. /\ t \in Seat /\ t.by = u.by /\ t.parkW = u.parkW
      /\ t.card = u.card \/ (u.card = "open" /\ t.card = "applied")
    BY <1>1, TryCommitFacts
<1> QED BY <1>1, <1>2 DEF Carried

-----------------------------------------------------------------------------
(***************************************************************************)
(* Logs and voices.                                                        *)
(***************************************************************************)

\* Among the first k events of L, the newest in which b speaks for itself is
\* a decline.
LastIsDecline(L, k, b) ==
    \E i \in 1 .. k : /\ OwnVoice(L[i], b) /\ L[i].t = "declined"
                      /\ \A j \in 1 .. k : OwnVoice(L[j], b) => j <= i

\* One more event.
LEMMA LastStep ==
    ASSUME NEW L, NEW k \in Nat, NEW b
    PROVE  LastIsDecline(L, k + 1, b) <=>
                IF OwnVoice(L[k + 1], b) THEN L[k + 1].t = "declined" ELSE LastIsDecline(L, k, b)
<1>1. \A j : j \in 1 .. k + 1 <=> j \in 1 .. k \/ j = k + 1
    OBVIOUS
<1>2. \A j \in 1 .. k + 1 : j <= k + 1
    OBVIOUS
<1>3. CASE OwnVoice(L[k + 1], b)
    <2>1. ASSUME LastIsDecline(L, k + 1, b) PROVE L[k + 1].t = "declined"
        <3>1. PICK i \in 1 .. k + 1 : /\ OwnVoice(L[i], b) /\ L[i].t = "declined"
                                      /\ \A j \in 1 .. k + 1 : OwnVoice(L[j], b) => j <= i
            BY <2>1 DEF LastIsDecline
        <3>2. k + 1 <= i
            BY <1>1, <1>3, <3>1
        <3>3. i = k + 1
            BY <3>1, <3>2
        <3> QED BY <3>1, <3>3
    <2>2. ASSUME L[k + 1].t = "declined" PROVE LastIsDecline(L, k + 1, b)
        <3>1. k + 1 \in 1 .. k + 1
            OBVIOUS
        <3> QED BY <1>2, <1>3, <2>2, <3>1 DEF LastIsDecline
    <2> QED BY <1>3, <2>1, <2>2
<1>4. CASE ~OwnVoice(L[k + 1], b)
    <2>1. ASSUME LastIsDecline(L, k + 1, b) PROVE LastIsDecline(L, k, b)
        <3>1. PICK i \in 1 .. k + 1 : /\ OwnVoice(L[i], b) /\ L[i].t = "declined"
                                      /\ \A j \in 1 .. k + 1 : OwnVoice(L[j], b) => j <= i
            BY <2>1 DEF LastIsDecline
        <3>2. i \in 1 .. k
            BY <1>1, <1>4, <3>1
        <3> QED BY <1>1, <3>1, <3>2 DEF LastIsDecline
    <2>2. ASSUME LastIsDecline(L, k, b) PROVE LastIsDecline(L, k + 1, b)
        <3>1. PICK i \in 1 .. k : /\ OwnVoice(L[i], b) /\ L[i].t = "declined"
                                  /\ \A j \in 1 .. k : OwnVoice(L[j], b) => j <= i
            BY <2>2 DEF LastIsDecline
        <3>2. i \in 1 .. k + 1 /\ \A j \in 1 .. k + 1 : OwnVoice(L[j], b) => j <= i
            BY <1>1, <1>4, <3>1
        <3> QED BY <3>1, <3>2 DEF LastIsDecline
    <2> QED BY <1>4, <2>1, <2>2
<1> QED BY <1>3, <1>4

\* What is handed on does not change when the log grows.
LEMMA LastPrefix ==
    ASSUME NEW L, NEW K, NEW k \in Nat, NEW b, \A i \in 1 .. k : L[i] = K[i]
    PROVE  LastIsDecline(L, k, b) <=> LastIsDecline(K, k, b)
BY DEF LastIsDecline

\* A log that grows keeps its events.
LEMMA ConcatFacts ==
    ASSUME NEW L \in Seq(Event), NEW K \in Seq(Event)
    PROVE  /\ L \o K \in Seq(Event) /\ Len(L) \in Nat /\ Len(K) \in Nat
           /\ Len(L \o K) = Len(L) + Len(K)
           /\ DOMAIN L = 1 .. Len(L) /\ DOMAIN K = 1 .. Len(K) /\ DOMAIN (L \o K) = 1 .. Len(L) + Len(K)
           /\ \A i \in 1 .. Len(L) : (L \o K)[i] = L[i]
           /\ \A i \in 1 .. Len(K) : (L \o K)[Len(L) + i] = K[i]
OBVIOUS

\* The events of a log.
Items(L) == {L[i] : i \in 1 .. Len(L)}

\* The events of two logs together.
LEMMA ItemsConcat ==
    ASSUME NEW L \in Seq(Event), NEW K \in Seq(Event)
    PROVE  L \o K \in Seq(Event) /\ Items(L \o K) = Items(L) \cup Items(K)
<1>1. PICK M : M = L \o K
    OBVIOUS
<1>2. /\ M \in Seq(Event) /\ Len(L) \in Nat /\ Len(K) \in Nat /\ Len(M) = Len(L) + Len(K)
      /\ \A i \in 1 .. Len(L) : M[i] = L[i]
      /\ \A i \in 1 .. Len(K) : M[Len(L) + i] = K[i]
    BY <1>1, ConcatFacts
<1>3. \A e \in Items(L) : e \in Items(M)
    <2>1. \A i \in 1 .. Len(L) : i \in 1 .. Len(M)
        BY <1>2
    <2> QED BY <1>2, <2>1 DEF Items
<1>4. \A e \in Items(K) : e \in Items(M)
    <2>1. \A i \in 1 .. Len(K) : Len(L) + i \in 1 .. Len(M)
        BY <1>2
    <2> QED BY <1>2, <2>1 DEF Items
<1>5. \A e \in Items(M) : e \in Items(L) \/ e \in Items(K)
    <2>1. SUFFICES ASSUME NEW i \in 1 .. Len(M), M[i] \notin Items(L)
                   PROVE  M[i] \in Items(K)
        BY DEF Items
    <2>2. i \notin 1 .. Len(L)
        BY <1>2, <2>1 DEF Items
    <2>3. i - Len(L) \in 1 .. Len(K) /\ i = Len(L) + (i - Len(L))
        BY <1>2, <2>2
    <2>4. M[i] = K[i - Len(L)]
        BY <1>2, <2>3
    <2> QED BY <2>3, <2>4 DEF Items
<1>6. Items(M) = Items(L) \cup Items(K)
    BY <1>3, <1>4, <1>5
<1> QED BY <1>1, <1>2, <1>6

\* The events of a log of at most one.
LEMMA ItemsFew ==
    /\ <<>> \in Seq(Event) /\ Items(<<>>) = {}
    /\ \A e \in Event : <<e>> \in Seq(Event) /\ Items(<<e>>) = {e}
<1>1. <<>> \in Seq(Event) /\ Items(<<>>) = {}
    BY DEF Items
<1>2. \A e \in Event : <<e>> \in Seq(Event) /\ Len(<<e>>) = 1 /\ <<e>>[1] = e
    OBVIOUS
<1>3. \A e \in Event : Items(<<e>>) = {e}
    <2>1. \A i : i \in 1 .. 1 <=> i = 1
        OBVIOUS
    <2> QED BY <1>2, <2>1 DEF Items
<1> QED BY <1>1, <1>2, <1>3

\* The newest voice of b after a step of b that said nothing for itself, that
\* approved, or that declined last.
LEMMA LastConcat ==
    ASSUME NEW L \in Seq(Event), NEW K \in Seq(Event), NEW b
    PROVE  LET after == LastIsDecline(L \o K, Len(L \o K), b)
           IN  /\ (\A i \in 1 .. Len(K) : ~OwnVoice(K[i], b)) =>
                    (after <=> LastIsDecline(L, Len(L), b))
               /\ (/\ \E i \in 1 .. Len(K) : OwnVoice(K[i], b)
                   /\ \A i \in 1 .. Len(K) : OwnVoice(K[i], b) => K[i].t = "approved") => ~after
               /\ (Len(K) > 0 /\ OwnVoice(K[Len(K)], b) /\ K[Len(K)].t = "declined") => after
<1> DEFINE M == L \o K
           l == Len(L)
           k == Len(K)
           after == LastIsDecline(M, Len(M), b)
<1>1. /\ l \in Nat /\ k \in Nat /\ Len(M) = l + k
      /\ \A i \in 1 .. l : M[i] = L[i]
      /\ \A i \in 1 .. k : M[l + i] = K[i]
    BY ConcatFacts
<1> HIDE DEF M, l, k
<1>2. \A i \in 1 .. l + k : i \in 1 .. l \/ (i - l \in 1 .. k /\ i = l + (i - l))
    BY <1>1
<1>3. \A i \in 1 .. l : i \in 1 .. l + k
    BY <1>1
<1>4. \A i \in 1 .. k : l + i \in 1 .. l + k
    BY <1>1
<1>5. ASSUME \A i \in 1 .. k : ~OwnVoice(K[i], b)
      PROVE  after <=> LastIsDecline(L, l, b)
    <2>1. \A i \in 1 .. l + k : OwnVoice(M[i], b) => i \in 1 .. l
        BY <1>1, <1>2, <1>5
    <2>2. ASSUME after PROVE LastIsDecline(L, l, b)
        <3>1. PICK i \in 1 .. l + k : /\ OwnVoice(M[i], b) /\ M[i].t = "declined"
                                      /\ \A j \in 1 .. l + k : OwnVoice(M[j], b) => j <= i
            BY <1>1, <2>2 DEF LastIsDecline
        <3>2. i \in 1 .. l
            BY <2>1, <3>1
        <3> QED BY <1>1, <1>3, <3>1, <3>2 DEF LastIsDecline
    <2>3. ASSUME LastIsDecline(L, l, b) PROVE after
        <3>1. PICK i \in 1 .. l : /\ OwnVoice(L[i], b) /\ L[i].t = "declined"
                                  /\ \A j \in 1 .. l : OwnVoice(L[j], b) => j <= i
            BY <2>3 DEF LastIsDecline
        <3>2. \A j \in 1 .. l + k : OwnVoice(M[j], b) => j <= i
            BY <1>1, <2>1, <3>1
        <3> QED BY <1>1, <1>3, <3>1, <3>2 DEF LastIsDecline
    <2> QED BY <2>2, <2>3
<1>6. ASSUME \E i \in 1 .. k : OwnVoice(K[i], b),
             \A i \in 1 .. k : OwnVoice(K[i], b) => K[i].t = "approved", after
      PROVE  FALSE
    <2>1. PICK i \in 1 .. l + k : /\ OwnVoice(M[i], b) /\ M[i].t = "declined"
                                  /\ \A j \in 1 .. l + k : OwnVoice(M[j], b) => j <= i
        BY <1>1, <1>6 DEF LastIsDecline
    <2>2. PICK j \in 1 .. k : OwnVoice(K[j], b)
        BY <1>6
    <2>3. l + j <= i
        BY <1>1, <1>4, <2>1, <2>2
    <2>4. i - l \in 1 .. k /\ i = l + (i - l)
        BY <1>1, <2>1, <2>2, <2>3
    <2>5. M[i] = K[i - l]
        BY <1>1, <2>4
    <2> QED BY <1>6, <2>1, <2>4, <2>5
<1>7. ASSUME k > 0, OwnVoice(K[k], b), K[k].t = "declined" PROVE after
    <2>1. k \in 1 .. k /\ l + k \in 1 .. l + k /\ M[l + k] = K[k]
        BY <1>1, <1>7
    <2>2. \A j \in 1 .. l + k : j <= l + k
        BY <1>1
    <2> QED BY <1>1, <1>7, <2>1, <2>2 DEF LastIsDecline
<1> QED BY <1>5, <1>6, <1>7 DEF M, l, k

-----------------------------------------------------------------------------
(***************************************************************************)
(* The inductive invariant.                                                *)
(***************************************************************************)
HD(n) == {b \in Member : HeardDecline(n, b)}
RD(n) == {b \in Member : Relayed(n, b)}

\* The links hand on what is in the logs, and nothing to its own author.
LinksOK ==
    /\ \A n, b \in Member : got[n][b] <= Len(log[b])
    /\ \A n \in Member : got[n][n] = 0

\* Every seat's view fits what it was told.
ViewsFit == \A n \in Member : Fits(seat[n], n, HD(n), RD(n), n \in overtaken, will[n])

\* A log ends in its operator's decision.
VoicesTrue ==
    \A n \in Member : n \in RD(n) \/ (LastIsDecline(log[n], Len(log[n]), n) <=> will[n] = "decline")

Ended == {"applied", "rejected", "withdrawn"}

\* Only the minter withdraws, its withdrawal is in its log, and a seat that
\* was handed it has no open card.
WithdrawalsOK ==
    /\ \A n \in Member : n # Minter => seat[n].by # n
    /\ \A b \in Member : \A i \in 1 .. Len(log[b]) : log[b][i].t = "withdrawn" => b = Minter
    /\ ~seat[Minter].parkW
    /\ seat[Minter].card = "withdrawn" =>
            \E i \in 1 .. Len(log[Minter]) : log[Minter][i].t = "withdrawn"
    /\ \A n \in Member : \A i \in 1 .. got[n][Minter] : log[Minter][i].t = "withdrawn" =>
            seat[n].card \in Ended \/ (seat[n].card = "none" /\ seat[n].parkW)

\* Before the proposal there is nothing.
NothingBefore ==
    log[Minter] = <<>> =>
        sealed = {} /\ \A n \in Member : seat[n].card = "none" /\ log[n] = <<>>

IInv == TypeOK /\ LinksOK /\ ViewsFit /\ VoicesTrue /\ WithdrawalsOK /\ NothingBefore

\* The seats' state is of type Seat, and what the type invariant says of it
\* beyond that is part of Fits.
LEMMA TypeFacts ==
    ASSUME TypeOK
    PROVE  /\ seat \in [Member -> Seat] /\ log \in [Member -> Seq(Event)]
           /\ got \in [Member -> [Member -> Nat]]
           /\ sealed \in SUBSET [by : Member, h : Nat, signers : SUBSET Member]
           /\ will \in [Member -> Decision]
           /\ votes \in Nat /\ serves \in Nat /\ overtaken \in SUBSET Member
BY DEF TypeOK, Seat, Decision

\* HeardDecline, over a link.
LEMMA HeardIs ==
    ASSUME NEW L, NEW k, NEW b
    PROVE  LET H == {i \in 1 .. k : OwnVoice(L[i], b)}
           IN  (\E i \in H : L[i].t = "declined" /\ \A j \in H : j <= i) <=> LastIsDecline(L, k, b)
BY DEF LastIsDecline

\* What a seat has been told does not change while nothing is handed to it,
\* however the logs grow.
LEMMA ToldSame ==
    ASSUME IInv, NEW m \in Member, got'[m] = got[m],
           \A b \in Member : \A i \in 1 .. Len(log[b]) : log'[b][i] = log[b][i]
    PROVE  /\ \A b \in Member : m # b => (HeardDecline(m, b)' <=> HeardDecline(m, b))
           /\ RD(m)' = RD(m)
<1>1. log \in [Member -> Seq(Event)] /\ got \in [Member -> [Member -> Nat]]
    BY TypeFacts DEF IInv
<1>2. \A b \in Member : got[m][b] \in Nat /\ Len(log[b]) \in Nat /\ got[m][b] <= Len(log[b])
    BY <1>1 DEF IInv, LinksOK
<1>3. \A b \in Member : \A i \in 1 .. got[m][b] : i \in 1 .. Len(log[b])
    BY <1>2
<1>4. \A b \in Member : \A i \in 1 .. got[m][b] : log'[b][i] = log[b][i]
    BY <1>3
<1>5. ASSUME NEW b \in Member, m # b PROVE HeardDecline(m, b)' <=> HeardDecline(m, b)
    <2>1. LastIsDecline(log'[b], got[m][b], b) <=> LastIsDecline(log[b], got[m][b], b)
        <3> DEFINE L == log'[b]
                   K == log[b]
                   k == got[m][b]
        <3>1. k \in Nat /\ \A i \in 1 .. k : L[i] = K[i]
            BY <1>2, <1>4
        <3> HIDE DEF L, K, k
        <3>2. LastIsDecline(L, k, b) <=> LastIsDecline(K, k, b)
            BY <3>1, LastPrefix
        <3> QED BY <3>2 DEF L, K, k
    <2>2. HeardDecline(m, b)' <=> LastIsDecline(log'[b], got[m][b], b)
        BY <1>5, HeardIs DEF HeardDecline, Heard
    <2>3. HeardDecline(m, b) <=> LastIsDecline(log[b], got[m][b], b)
        BY <1>5, HeardIs DEF HeardDecline, Heard
    <2> QED BY <2>1, <2>2, <2>3
<1>6. \A b \in Member : Relayed(m, b)' <=> Relayed(m, b)
    BY <1>4 DEF Relayed
<1> QED BY <1>5, <1>6 DEF RD

\* The next event e of b is handed to n.
Told(n, b, e) ==
    /\ e \in Event
    /\ \A c \in Member : c \in HD(n)' <=> IF c = b /\ OwnVoice(e, b) THEN e.t = "declined" ELSE c \in HD(n)
    /\ \A c \in Member : c \in RD(n)' <=> c \in RD(n) \/ (c # b /\ e.t = "approved" /\ e.by = c)
    /\ LinksOK'
    /\ got' \in [Member -> [Member -> Nat]]
    /\ \A m \in Member : m # n => got'[m] = got[m]

\* What the next event of b tells n.
LEMMA ToldMore ==
    ASSUME IInv, NEW n \in Member, NEW b \in Member, NEW e, n # b, got[n][b] < Len(log[b]),
           e = log[b][got[n][b] + 1],
           got' = [got EXCEPT ![n][b] = @ + 1], log' = log, will' = will
    PROVE  Told(n, b, e)
<1>1. log \in [Member -> Seq(Event)] /\ got \in [Member -> [Member -> Nat]]
    BY TypeFacts DEF IInv
<1>2. got[n][b] \in Nat /\ Len(log[b]) \in Nat
    BY <1>1
<1>3. e \in Event
    BY <1>1, <1>2
<1>4. /\ got' \in [Member -> [Member -> Nat]]
      /\ \A m \in Member : m # n => got'[m] = got[m]
      /\ \A c \in Member : c # b => got'[n][c] = got[n][c]
      /\ got'[n][b] = got[n][b] + 1
    BY <1>1
<1>5. LinksOK'
    <2>1. \A m, c \in Member : got'[m][c] = got[m][c] \/ (m = n /\ c = b)
        BY <1>4
    <2> QED BY <1>2, <1>4, <2>1 DEF LinksOK, IInv
<1>6. ASSUME NEW c \in Member
      PROVE  c \in HD(n)' <=> IF c = b /\ OwnVoice(e, b) THEN e.t = "declined" ELSE c \in HD(n)
    <2>1. CASE c = n
        BY <2>1 DEF HD, HeardDecline
    <2>2. CASE c # n /\ c # b
        BY <1>4, <2>2 DEF HD, HeardDecline, Heard
    <2>3. CASE c = b
        <3>1. c \in HD(n)' <=> LastIsDecline(log[b], got[n][b] + 1, b)
            BY <1>4, <2>3, HeardIs DEF HD, HeardDecline, Heard
        <3>2. c \in HD(n) <=> LastIsDecline(log[b], got[n][b], b)
            BY <2>3, HeardIs DEF HD, HeardDecline, Heard
        <3> QED BY <1>2, <2>3, <3>1, <3>2, LastStep
    <2> QED BY <2>1, <2>2, <2>3
<1>7. ASSUME NEW c \in Member
      PROVE  c \in RD(n)' <=> c \in RD(n) \/ (c # b /\ e.t = "approved" /\ e.by = c)
    <2>1. \A i : i \in 1 .. got'[n][b] <=> i \in 1 .. got[n][b] \/ i = got[n][b] + 1
        BY <1>2, <1>4
    <2>2. ASSUME c \in RD(n)' PROVE c \in RD(n) \/ (c # b /\ e.t = "approved" /\ e.by = c)
        <3>1. PICK a \in Member \ {c} : \E i \in 1 .. got'[n][a] : log[a][i].t = "approved" /\ log[a][i].by = c
            BY <2>2 DEF RD, Relayed
        <3>2. PICK i \in 1 .. got'[n][a] : log[a][i].t = "approved" /\ log[a][i].by = c
            BY <3>1
        <3>3. CASE i \in 1 .. got[n][a]
            BY <3>1, <3>2, <3>3 DEF RD, Relayed
        <3>4. CASE i \notin 1 .. got[n][a]
            <4>1. a = b /\ i = got[n][b] + 1
                BY <1>4, <2>1, <3>1, <3>2, <3>4
            <4> QED BY <3>1, <3>2, <4>1
        <3> QED BY <3>3, <3>4
    <2>3. ASSUME c \in RD(n) PROVE c \in RD(n)'
        <3>1. PICK a \in Member \ {c} : \E i \in 1 .. got[n][a] : log[a][i].t = "approved" /\ log[a][i].by = c
            BY <2>3 DEF RD, Relayed
        <3>2. \A i \in 1 .. got[n][a] : i \in 1 .. got'[n][a]
            BY <1>4, <2>1, <3>1
        <3> QED BY <3>1, <3>2 DEF RD, Relayed
    <2>4. ASSUME c # b, e.t = "approved", e.by = c PROVE c \in RD(n)'
        <3>1. got[n][b] + 1 \in 1 .. got'[n][b]
            BY <2>1
        <3> QED BY <2>4, <3>1 DEF RD, Relayed
    <2> QED BY <2>2, <2>3, <2>4
<1> QED BY <1>3, <1>4, <1>5, <1>6, <1>7 DEF Told

\* A step that changes the view of seat n only, to t, its operator's mind
\* being w afterwards.
OnlySeat(n, t, w) ==
    /\ seat' = [seat EXCEPT ![n] = t] /\ will' = [will EXCEPT ![n] = w]
    /\ log' \in [Member -> Seq(Event)] /\ got' \in [Member -> [Member -> Nat]]
    /\ sealed' \in SUBSET [by : Member, h : Nat, signers : SUBSET Member]
    /\ votes' \in Nat /\ serves' \in Nat /\ overtaken' \in SUBSET Member
    /\ \A m \in Member : m # n => (m \in overtaken' <=> m \in overtaken)
    /\ \A m \in Member : m # n => got'[m] = got[m]
    /\ \A b \in Member : \A i \in 1 .. Len(log[b]) : log'[b][i] = log[b][i]

\* Such a step keeps types and views if the new view fits.
LEMMA OneSeat ==
    ASSUME IInv, NEW n \in Member, NEW t \in Seat, NEW w \in Decision, OnlySeat(n, t, w),
           Fits(t, n, HD(n)', RD(n)', n \in overtaken', w)
    PROVE  TypeOK' /\ ViewsFit'
<1> USE DEF OnlySeat
<1>1. seat \in [Member -> Seat] /\ will \in [Member -> Decision]
    BY TypeFacts DEF IInv
<1>2. seat' \in [Member -> Seat] /\ will' \in [Member -> Decision]
    BY <1>1
<1>3. ViewsFit'
    <2>1. SUFFICES ASSUME NEW m \in Member
                   PROVE  Fits(seat'[m], m, HD(m)', RD(m)', m \in overtaken', will'[m])
        BY DEF ViewsFit
    <2>2. CASE m = n
        BY <1>1, <2>2
    <2>3. CASE m # n
        <3>1. /\ \A b \in Member : m # b => (HeardDecline(m, b)' <=> HeardDecline(m, b))
              /\ RD(m)' = RD(m)
            BY <2>3, ToldSame
        <3>2. seat'[m] = seat[m] /\ will'[m] = will[m]
            BY <1>1, <2>3
        <3>3. HeardDecline(m, m)' <=> HeardDecline(m, m)
            BY <3>2 DEF HeardDecline
        <3>4. HD(m)' = HD(m)
            BY <3>1, <3>3 DEF HD
        <3>5. Fits(seat[m], m, HD(m), RD(m), m \in overtaken, will[m])
            BY DEF IInv, ViewsFit
        <3>6. m \in overtaken' <=> m \in overtaken
            BY <2>3
        <3> HIDE DEF HD, RD
        <3> QED BY <3>1, <3>2, <3>4, <3>5, <3>6 DEF Fits
    <2> QED BY <2>2, <2>3
<1>4. \A m \in Member :
        /\ seat'[m].card \in {"none", "open"} => seat'[m].ver \subseteq seat'[m].sigs
        /\ seat'[m].sh <= Target(seat'[m])
    <2>1. SUFFICES ASSUME NEW m \in Member
                   PROVE  /\ seat'[m].card \in {"none", "open"} => seat'[m].ver \subseteq seat'[m].sigs
                          /\ seat'[m].sh <= Target(seat'[m])
        OBVIOUS
    <2>2. Fits(seat'[m], m, HD(m)', RD(m)', m \in overtaken', will'[m])
        BY <1>3 DEF ViewsFit
    <2> QED BY <2>2 DEF Fits, VerHeld, Target
<1> QED BY <1>2, <1>3, <1>4 DEF TypeOK, Seat, Decision

\* How a seat's card may move where the withdrawal is concerned.
Onward(t, s, n) ==
    /\ t.by = s.by \/ t.by # n \/ n = Minter
    /\ n = Minter /\ t.parkW => s.parkW
    /\ s.card \in Ended => t.card \in Ended
    /\ s.card = "none" /\ s.parkW => t.card \in Ended \/ (t.card = "none" /\ t.parkW)

\* A step of one seat keeps the withdrawal's standing if it moves its card
\* onward and takes what it is newly handed.
LEMMA WithdrawalStep ==
    ASSUME IInv, NEW n \in Member, NEW t \in Seat, seat' = [seat EXCEPT ![n] = t],
           Onward(t, seat[n], n), log' \in [Member -> Seq(Event)],
           \A m \in Member : m # n => got'[m] = got[m],
           \A b \in Member : Len(log[b]) <= Len(log'[b])
                             /\ \A i \in 1 .. Len(log[b]) : log'[b][i] = log[b][i],
           \A b \in Member : \A i \in 1 .. Len(log'[b]) : log'[b][i].t = "withdrawn" => b = Minter,
           n = Minter /\ t.card = "withdrawn" =>
                \E i \in 1 .. Len(log'[Minter]) : log'[Minter][i].t = "withdrawn",
           \A i \in 1 .. got'[n][Minter] : log'[Minter][i].t = "withdrawn" =>
                \/ i \in 1 .. got[n][Minter]
                \/ t.card \in Ended
                \/ t.card = "none" /\ t.parkW
    PROVE  WithdrawalsOK'
<1>1. /\ seat \in [Member -> Seat] /\ log \in [Member -> Seq(Event)]
      /\ got \in [Member -> [Member -> Nat]] /\ Minter \in Member
    BY TypeFacts, MemberAssumption DEF IInv
<1>2. WithdrawalsOK /\ LinksOK
    BY DEF IInv
<1>3. seat'[n] = t /\ \A m \in Member : m # n => seat'[m] = seat[m]
    BY <1>1
<1>4. \A m \in Member : m # Minter => seat'[m].by # m
    BY <1>1, <1>2, <1>3 DEF WithdrawalsOK, Onward
<1>5. ~seat'[Minter].parkW
    BY <1>1, <1>2, <1>3 DEF WithdrawalsOK, Onward
<1>6. ASSUME seat'[Minter].card = "withdrawn"
      PROVE  \E i \in 1 .. Len(log'[Minter]) : log'[Minter][i].t = "withdrawn"
    <2>1. CASE n = Minter
        BY <1>3, <1>6, <2>1
    <2>2. CASE n # Minter
        <3>1. PICK i \in 1 .. Len(log[Minter]) : log[Minter][i].t = "withdrawn"
            BY <1>1, <1>2, <1>3, <1>6, <2>2 DEF WithdrawalsOK
        <3>2. Len(log[Minter]) \in Nat /\ Len(log'[Minter]) \in Nat /\ Len(log[Minter]) <= Len(log'[Minter])
            BY <1>1
        <3>3. i \in 1 .. Len(log'[Minter]) /\ log'[Minter][i] = log[Minter][i]
            BY <1>1, <3>1, <3>2
        <3> QED BY <3>1, <3>3
    <2> QED BY <2>1, <2>2
<1>7. ASSUME NEW m \in Member, NEW i \in 1 .. got'[m][Minter], log'[Minter][i].t = "withdrawn"
      PROVE  seat'[m].card \in Ended \/ (seat'[m].card = "none" /\ seat'[m].parkW)
    <2>1. CASE i \in 1 .. got[m][Minter]
        <3>1. got[m][Minter] \in Nat /\ Len(log[Minter]) \in Nat /\ got[m][Minter] <= Len(log[Minter])
            BY <1>1, <1>2 DEF LinksOK
        <3>2. i \in 1 .. Len(log[Minter])
            BY <2>1, <3>1
        <3>3. log[Minter][i].t = "withdrawn"
            BY <1>1, <1>7, <3>2
        <3>4. seat[m].card \in Ended \/ (seat[m].card = "none" /\ seat[m].parkW)
            BY <1>2, <2>1, <3>3 DEF WithdrawalsOK
        <3> QED BY <1>3, <3>4 DEF Onward
    <2>2. CASE i \notin 1 .. got[m][Minter]
        <3>1. m = n
            BY <1>7, <2>2
        <3> QED BY <1>3, <1>7, <2>2, <3>1
    <2> QED BY <2>1, <2>2
<1> QED BY <1>4, <1>5, <1>6, <1>7 DEF WithdrawalsOK

\* The log of n grew by ev.
Grown(n, ev) ==
    /\ log' \in [Member -> Seq(Event)] /\ Len(ev) \in Nat
    /\ \A b \in Member : Len(log[b]) \in Nat /\ Len(log'[b]) \in Nat /\ Len(log[b]) <= Len(log'[b])
    /\ \A b \in Member : \A i \in 1 .. Len(log[b]) : log'[b][i] = log[b][i]
    /\ \A b \in Member : b # n => log'[b] = log[b]
    /\ log'[n] = log[n] \o ev
    /\ Len(log'[n]) = Len(log[n]) + Len(ev)
    /\ \A i \in 1 .. Len(ev) : log'[n][Len(log[n]) + i] = ev[i]
    /\ \A i \in 1 .. Len(log'[n]) : i \in 1 .. Len(log[n])
             \/ (i - Len(log[n]) \in 1 .. Len(ev) /\ log'[n][i] = ev[i - Len(log[n])])

\* A step that says ev makes the log of n grow by it.
LEMMA GrownLog ==
    ASSUME TypeOK, NEW n \in Member, NEW ev \in Seq(Event), log' = [log EXCEPT ![n] = @ \o ev]
    PROVE  Grown(n, ev)
<1>1. log \in [Member -> Seq(Event)]
    BY TypeFacts
<1>2. log[n] \in Seq(Event)
    BY <1>1
<1>3. /\ log[n] \o ev \in Seq(Event) /\ Len(log[n]) \in Nat /\ Len(ev) \in Nat
      /\ Len(log[n] \o ev) = Len(log[n]) + Len(ev)
      /\ \A i \in 1 .. Len(log[n]) : (log[n] \o ev)[i] = log[n][i]
      /\ \A i \in 1 .. Len(ev) : (log[n] \o ev)[Len(log[n]) + i] = ev[i]
    BY <1>2, ConcatFacts
<1>4. log'[n] = log[n] \o ev /\ \A b \in Member : b # n => log'[b] = log[b]
    BY <1>1
<1>5. log' \in [Member -> Seq(Event)]
    BY <1>1, <1>3
<1>6. \A b \in Member : Len(log[b]) \in Nat /\ Len(log'[b]) \in Nat
    BY <1>1, <1>5
<1>7. \A b \in Member : Len(log[b]) <= Len(log'[b]) /\ \A i \in 1 .. Len(log[b]) : log'[b][i] = log[b][i]
    <2>1. SUFFICES ASSUME NEW b \in Member
                   PROVE  Len(log[b]) <= Len(log'[b]) /\ \A i \in 1 .. Len(log[b]) : log'[b][i] = log[b][i]
        OBVIOUS
    <2>2. CASE b = n
        BY <1>3, <1>4, <2>2
    <2>3. CASE b # n
        BY <1>4, <1>6, <2>3
    <2> QED BY <2>2, <2>3
<1>8. ASSUME NEW i \in 1 .. Len(log'[n]), i \notin 1 .. Len(log[n])
      PROVE  i - Len(log[n]) \in 1 .. Len(ev) /\ log'[n][i] = ev[i - Len(log[n])]
    <2>1. i - Len(log[n]) \in 1 .. Len(ev) /\ i = Len(log[n]) + (i - Len(log[n]))
        BY <1>3, <1>4, <1>8
    <2> QED BY <1>3, <1>4, <2>1
<1> QED BY <1>3, <1>4, <1>5, <1>6, <1>7, <1>8 DEF Grown

\* The members whose newest word to n is a decline, n's own decision being w.
Minded(n, w) == {b \in Member : IF b = n THEN w = "decline" ELSE HeardDecline(n, b)}

\* What SignsOnlyItsDecision and SealedOnStandingVotes say of one step.
SignsStep ==
    \A n \in Member : \A i \in DOMAIN log'[n] \ DOMAIN log[n] :
        log'[n][i].t = "approved" /\ log'[n][i].by = n => will'[n] = "approve" \/ Relayed(n, n)'
SealsStep ==
    \A k \in sealed' \ sealed : \A b \in k.signers : HeardDecline(k.by, b)' => Relayed(k.by, b)'

\* A seal, if there is one, counts only voices that fit what the seat was told.
LEMMA SealingStep ==
    ASSUME TypeOK, NEW n \in Member, NEW u \in Seat, NEW t \in Seat, NEW late, NEW w,
           sealed' = sealed \/ SealStep(n, u, t),
           u.card = "open" /\ t.card = "applied" => Fits(u, n, HD(n)', RD(n)', late, w)
    PROVE  /\ sealed' \in SUBSET [by : Member, h : Nat, signers : SUBSET Member]
           /\ SealsStep
           /\ t.card # "applied" => sealed' = sealed
<1> DEFINE k == [by |-> n, h |-> t.head, signers |-> LowestNamed(Counted(u), RuleM)]
<1>1. sealed \in SUBSET [by : Member, h : Nat, signers : SUBSET Member]
    BY TypeFacts
<1>2. CASE sealed' = sealed
    BY <1>1, <1>2 DEF SealsStep
<1>3. CASE sealed' # sealed
    <2>1. u.card = "open" /\ t.card = "applied" /\ sealed' = sealed \cup {k}
        BY <1>3 DEF SealStep
    <2>2. \A b \in k.signers : b \in u.sigs /\ b \notin u.decl
        BY DEF LowestNamed, Counted
    <2>3. k.signers \in SUBSET Member
        BY <2>2 DEF Seat
    <2>4. k \in [by : Member, h : Nat, signers : SUBSET Member]
        BY <2>3 DEF Seat
    <2>5. k.by = n
        OBVIOUS
    <2>6. Fits(u, n, HD(n)', RD(n)', late, w)
        BY <2>1
    <2> HIDE DEF k
    <2>7. \A b \in k.signers : HeardDecline(n, b)' => Relayed(n, b)'
        BY <2>1, <2>2, <2>3, <2>6 DEF Fits, HD, RD
    <2>8. SealsStep
        BY <2>1, <2>5, <2>7 DEF SealsStep
    <2> QED BY <1>1, <2>1, <2>4, <2>8
<1> QED BY <1>2, <1>3

\* A step of seat n that says ev.
LEMMA LocalStep ==
    ASSUME IInv, NEW n \in Member, NEW t \in Seat, NEW w \in Decision, NEW ev \in Seq(Event),
           Step(n, t, ev), will' = [will EXCEPT ![n] = w], got' = got, overtaken' = overtaken,
           votes' \in Nat, serves' \in Nat, Fits(t, n, Minded(n, w), RD(n), n \in overtaken, w),
           NEW u \in Seat, sealed' = sealed \/ SealStep(n, u, t),
           u.card = "open" /\ t.card = "applied" => Fits(u, n, Minded(n, w), RD(n), n \in overtaken, w),
           \A i \in 1 .. Len(ev) : ev[i].t = "approved" /\ ev[i].by = n => w = "approve" \/ n \in RD(n),
           n \in RD(n) \/ (LastIsDecline(log[n] \o ev, Len(log[n] \o ev), n) <=> w = "decline"),
           Onward(t, seat[n], n),
           \A i \in 1 .. Len(ev) : ev[i].t = "withdrawn" => n = Minter,
           t.card = "withdrawn" /\ n = Minter =>
                seat[n].card = "withdrawn" \/ \E i \in 1 .. Len(ev) : ev[i].t = "withdrawn",
           log[Minter] = <<>> => (n = Minter /\ ev # <<>>) \/ (ev = <<>> /\ t.card = "none")
    PROVE  IInv' /\ SignsStep /\ SealsStep
<1>1. /\ seat \in [Member -> Seat] /\ log \in [Member -> Seq(Event)]
      /\ got \in [Member -> [Member -> Nat]] /\ overtaken \in SUBSET Member
      /\ will \in [Member -> Decision] /\ Minter \in Member
    BY TypeFacts, MemberAssumption DEF IInv
<1>2. seat' = [seat EXCEPT ![n] = t] /\ log' = [log EXCEPT ![n] = @ \o ev]
    BY DEF Step
<1>0. Grown(n, ev)
    <2>1. TypeOK
        BY DEF IInv
    <2> QED BY <1>2, <2>1, GrownLog
<1>3. /\ log' \in [Member -> Seq(Event)] /\ Len(ev) \in Nat
      /\ \A b \in Member : Len(log[b]) \in Nat /\ Len(log'[b]) \in Nat /\ Len(log[b]) <= Len(log'[b])
      /\ \A b \in Member : \A i \in 1 .. Len(log[b]) : log'[b][i] = log[b][i]
      /\ \A b \in Member : b # n => log'[b] = log[b]
      /\ log'[n] = log[n] \o ev
      /\ Len(log'[n]) = Len(log[n]) + Len(ev)
      /\ \A i \in 1 .. Len(ev) : log'[n][Len(log[n]) + i] = ev[i]
      /\ \A i \in 1 .. Len(log'[n]) : i \in 1 .. Len(log[n])
               \/ (i - Len(log[n]) \in 1 .. Len(ev) /\ log'[n][i] = ev[i - Len(log[n])])
    BY <1>0 DEF Grown
<1>4. \A m \in Member : /\ \A b \in Member : m # b => (HeardDecline(m, b)' <=> HeardDecline(m, b))
                        /\ RD(m)' = RD(m)
    BY <1>3, ToldSame
<1>5. HD(n)' = Minded(n, w)
    <2>1. HeardDecline(n, n)' <=> w = "decline"
        BY <1>1 DEF HeardDecline
    <2> QED BY <1>4, <2>1 DEF HD, Minded
<1>11. /\ sealed' \in SUBSET [by : Member, h : Nat, signers : SUBSET Member]
       /\ SealsStep
       /\ t.card # "applied" => sealed' = sealed
    <2>1. TypeOK
        BY DEF IInv
    <2>2. u.card = "open" /\ t.card = "applied" => Fits(u, n, HD(n)', RD(n)', n \in overtaken, w)
        BY <1>4, <1>5
    <2> HIDE DEF HD, RD
    <2> QED BY <2>1, <2>2, SealingStep
<1>12. SignsStep
    <2>1. SUFFICES ASSUME NEW m \in Member, NEW i \in DOMAIN log'[m], i \notin DOMAIN log[m],
                          log'[m][i].t = "approved", log'[m][i].by = m
                   PROVE  will'[m] = "approve" \/ Relayed(m, m)'
        BY DEF SignsStep
    <2>2. m = n
        BY <1>3, <2>1
    <2>3. DOMAIN log[n] = 1 .. Len(log[n]) /\ DOMAIN log'[n] = 1 .. Len(log'[n])
        BY <1>1, <1>3
    <2>4. i - Len(log[n]) \in 1 .. Len(ev) /\ log'[n][i] = ev[i - Len(log[n])]
        BY <1>3, <2>1, <2>2, <2>3
    <2>5. w = "approve" \/ n \in RD(n)
        BY <2>1, <2>2, <2>4
    <2>6. will'[n] = w /\ (n \in RD(n) => Relayed(n, n)')
        BY <1>1, <1>4 DEF RD
    <2> QED BY <2>2, <2>5, <2>6
<1> HIDE DEF HD, RD
<1>6. TypeOK' /\ ViewsFit'
    <2>1. Fits(t, n, HD(n)', RD(n)', n \in overtaken', w)
        BY <1>4, <1>5
    <2>2. OnlySeat(n, t, w)
        BY <1>1, <1>2, <1>3, <1>11 DEF OnlySeat
    <2> QED BY <2>1, <2>2, OneSeat
<1>7. LinksOK'
    <2>1. \A m, b \in Member : got[m][b] \in Nat
        BY <1>1
    <2>2. /\ \A m, b \in Member : got[m][b] <= Len(log[b])
          /\ \A m \in Member : got[m][m] = 0
        BY DEF IInv, LinksOK
    <2>3. \A b \in Member : Len(log[b]) \in Nat /\ Len(log'[b]) \in Nat /\ Len(log[b]) <= Len(log'[b])
        BY <1>3
    <2>4. \A m, b \in Member : got[m][b] <= Len(log'[b])
        BY <2>1, <2>2, <2>3
    <2> QED BY <2>2, <2>4 DEF LinksOK
<1>8. VoicesTrue'
    <2>1. SUFFICES ASSUME NEW m \in Member
                   PROVE  m \in RD(m)' \/ (LastIsDecline(log'[m], Len(log'[m]), m) <=> will'[m] = "decline")
        BY DEF VoicesTrue
    <2>2. CASE m = n
        BY <1>1, <1>3, <1>4, <2>2
    <2>3. CASE m # n
        <3>1. log'[m] = log[m] /\ will'[m] = will[m] /\ RD(m)' = RD(m)
            BY <1>1, <1>3, <1>4, <2>3
        <3>2. m \in RD(m) \/ (LastIsDecline(log[m], Len(log[m]), m) <=> will[m] = "decline")
            BY DEF IInv, VoicesTrue
        <3> QED BY <3>1, <3>2 DEF LastIsDecline
    <2> QED BY <2>2, <2>3
<1>9. WithdrawalsOK'
    <2>1. \A b \in Member : \A i \in 1 .. Len(log[b]) : log[b][i].t = "withdrawn" => b = Minter
        BY DEF IInv, WithdrawalsOK
    <2>2. \A b \in Member : \A i \in 1 .. Len(log'[b]) : log'[b][i].t = "withdrawn" => b = Minter
        <3>1. SUFFICES ASSUME NEW b \in Member, NEW i \in 1 .. Len(log'[b]), log'[b][i].t = "withdrawn"
                       PROVE  b = Minter
            OBVIOUS
        <3>2. CASE i \in 1 .. Len(log[b])
            BY <1>3, <2>1, <3>1, <3>2
        <3>3. CASE i \notin 1 .. Len(log[b])
            <4>1. b = n
                BY <1>3, <3>1, <3>3
            <4>2. i - Len(log[n]) \in 1 .. Len(ev) /\ log'[n][i] = ev[i - Len(log[n])]
                BY <1>3, <3>1, <3>3, <4>1
            <4> QED BY <3>1, <4>1, <4>2
        <3> QED BY <3>2, <3>3
    <2>3. ASSUME n = Minter, t.card = "withdrawn"
          PROVE  \E i \in 1 .. Len(log'[Minter]) : log'[Minter][i].t = "withdrawn"
        <3>1. CASE seat[n].card = "withdrawn"
            <4>1. PICK i \in 1 .. Len(log[Minter]) : log[Minter][i].t = "withdrawn"
                BY <2>3, <3>1 DEF IInv, WithdrawalsOK
            <4>2. i \in 1 .. Len(log'[Minter])
                BY <1>1, <1>3, <4>1
            <4> QED BY <1>1, <1>3, <4>1, <4>2
        <3>2. CASE \E i \in 1 .. Len(ev) : ev[i].t = "withdrawn"
            <4>1. PICK i \in 1 .. Len(ev) : ev[i].t = "withdrawn"
                BY <3>2
            <4>2. Len(log[n]) + i \in 1 .. Len(log'[n])
                BY <1>3, <4>1
            <4> QED BY <1>3, <2>3, <4>1, <4>2
        <3> QED BY <2>3, <3>1, <3>2
    <2> QED BY <1>2, <1>3, <2>2, <2>3, WithdrawalStep
<1>10. NothingBefore'
    <2>1. SUFFICES ASSUME log'[Minter] = <<>>
                   PROVE  sealed' = {} /\ \A m \in Member : seat'[m].card = "none" /\ log'[m] = <<>>
        BY DEF NothingBefore
    <2>2. Len(log'[Minter]) = 0
        BY <2>1
    <2>3. Len(log[Minter]) = 0
        BY <1>1, <1>3, <2>2
    <2>4. log[Minter] = <<>>
        BY <1>1, <2>3, EmptySeq
    <2>5. ~ (n = Minter /\ ev # <<>>)
        <3>1. SUFFICES ASSUME n = Minter, ev # <<>> PROVE FALSE
            OBVIOUS
        <3>2. Len(ev) = 0
            BY <1>3, <2>2, <2>3, <3>1
        <3> QED BY <3>1, <3>2, EmptySeq
    <2>6. ev = <<>> /\ t.card = "none"
        BY <2>4, <2>5
    <2>9. sealed' = {}
        BY <1>11, <2>4, <2>6 DEF IInv, NothingBefore
    <2>7. \A m \in Member : seat[m].card = "none" /\ log[m] = <<>>
        BY <2>4 DEF IInv, NothingBefore
    <2>8. \A m \in Member : log'[m] = log[m]
        <3>1. log[n] \o ev = log[n]
            BY <1>1, <2>6, ConcatEmptySeq
        <3> QED BY <1>1, <1>3, <3>1
    <2> QED BY <1>1, <1>2, <2>6, <2>7, <2>8, <2>9
<1> QED BY <1>6, <1>7, <1>8, <1>9, <1>10, <1>11, <1>12 DEF IInv

\* A step of seat n that says ev and seals nothing.
LEMMA QuietStep ==
    ASSUME IInv, NEW n \in Member, NEW t \in Seat, NEW w \in Decision, NEW ev \in Seq(Event),
           Step(n, t, ev), will' = [will EXCEPT ![n] = w], got' = got, overtaken' = overtaken,
           sealed' = sealed, votes' \in Nat, serves' \in Nat,
           Fits(t, n, Minded(n, w), RD(n), n \in overtaken, w),
           \A i \in 1 .. Len(ev) : ev[i].t = "approved" /\ ev[i].by = n => w = "approve" \/ n \in RD(n),
           n \in RD(n) \/ (LastIsDecline(log[n] \o ev, Len(log[n] \o ev), n) <=> w = "decline"),
           Onward(t, seat[n], n),
           \A i \in 1 .. Len(ev) : ev[i].t = "withdrawn" => n = Minter,
           t.card = "withdrawn" /\ n = Minter =>
                seat[n].card = "withdrawn" \/ \E i \in 1 .. Len(ev) : ev[i].t = "withdrawn",
           log[Minter] # <<>>
    PROVE  IInv' /\ SignsStep /\ SealsStep
BY LocalStep

\* A step of seat n that takes the next event e of b.
LEMMA HandedStep ==
    ASSUME IInv, NEW n \in Member, NEW b \in Member, NEW e, n # b, got[n][b] < Len(log[b]),
           e = log[b][got[n][b] + 1],
           got' = [got EXCEPT ![n][b] = @ + 1],
           log' = log, will' = will, votes' = votes, serves' = serves,
           NEW t \in Seat, seat' = [seat EXCEPT ![n] = t],
           overtaken' = overtaken \/ overtaken' = overtaken \cup {n},
           Fits(t, n, HD(n)', RD(n)', n \in overtaken', will[n]),
           NEW u \in Seat, sealed' = sealed \/ SealStep(n, u, t),
           u.card = "open" /\ t.card = "applied" =>
                Fits(u, n, HD(n)', RD(n)', n \in overtaken', will[n]),
           Onward(t, seat[n], n),
           n = Minter /\ t.card = "withdrawn" => seat[n].card = "withdrawn",
           b = Minter /\ e.t = "withdrawn" => t.card \in Ended \/ (t.card = "none" /\ t.parkW)
    PROVE  IInv' /\ SignsStep /\ SealsStep
<1>1. /\ seat \in [Member -> Seat] /\ log \in [Member -> Seq(Event)]
      /\ got \in [Member -> [Member -> Nat]] /\ overtaken \in SUBSET Member
      /\ will \in [Member -> Decision] /\ votes \in Nat /\ serves \in Nat /\ Minter \in Member
    BY TypeFacts, MemberAssumption DEF IInv
<1>2. /\ \A c \in Member : c \in RD(n)' <=> c \in RD(n) \/ (c # b /\ e.t = "approved" /\ e.by = c)
      /\ LinksOK'
      /\ got' \in [Member -> [Member -> Nat]]
      /\ \A m \in Member : m # n => got'[m] = got[m]
    <2>1. Told(n, b, e)
        BY ToldMore
    <2> QED BY <2>1 DEF Told
<1>3. \A m \in Member : m # n => RD(m)' = RD(m)
    BY <1>2, ToldSame
<1> HIDE DEF HD, RD
<1>4. SealsStep /\ sealed' \in SUBSET [by : Member, h : Nat, signers : SUBSET Member]
    <2>1. TypeOK
        BY DEF IInv
    <2> QED BY <2>1, SealingStep
<1>5. SignsStep
    BY DEF SignsStep
<1>6. TypeOK' /\ ViewsFit'
    <2>1. PICK w \in Decision : w = will[n]
        BY <1>1
    <2>6. will' = [will EXCEPT ![n] = w]
        BY <1>1, <2>1
    <2>7. Fits(t, n, HD(n)', RD(n)', n \in overtaken', w)
        BY <2>1
    <2>2. overtaken' \in SUBSET Member /\ \A m \in Member : m # n => (m \in overtaken' <=> m \in overtaken)
        BY <1>1
    <2>3. votes' \in Nat /\ serves' \in Nat /\ log' \in [Member -> Seq(Event)]
        BY <1>1
    <2>4. OnlySeat(n, t, w)
        BY <1>2, <1>4, <2>2, <2>3, <2>6 DEF OnlySeat
    <2> QED BY <2>4, <2>7, OneSeat
<1>7. VoicesTrue'
    <2>1. SUFFICES ASSUME NEW m \in Member
                   PROVE  m \in RD(m)' \/ (LastIsDecline(log[m], Len(log[m]), m) <=> will[m] = "decline")
        BY DEF VoicesTrue
    <2>2. m \in RD(m) => m \in RD(m)'
        BY <1>2, <1>3
    <2>3. m \in RD(m) \/ (LastIsDecline(log[m], Len(log[m]), m) <=> will[m] = "decline")
        BY DEF IInv, VoicesTrue
    <2> QED BY <2>2, <2>3
<1>8. WithdrawalsOK'
    <2>1. \A c \in Member : \A i \in 1 .. Len(log'[c]) : log'[c][i].t = "withdrawn" => c = Minter
        BY DEF IInv, WithdrawalsOK
    <2>2. n = Minter /\ t.card = "withdrawn" =>
                \E i \in 1 .. Len(log'[Minter]) : log'[Minter][i].t = "withdrawn"
        BY DEF IInv, WithdrawalsOK
    <2>3. ASSUME NEW i \in 1 .. got'[n][Minter], log'[Minter][i].t = "withdrawn"
          PROVE  \/ i \in 1 .. got[n][Minter]
                 \/ t.card \in Ended
                 \/ t.card = "none" /\ t.parkW
        <3>1. CASE b # Minter
            BY <1>1, <3>1
        <3>2. CASE b = Minter
            <4>1. got'[n][b] = got[n][b] + 1 /\ got[n][b] \in Nat
                BY <1>1
            <4>2. i \in 1 .. got[n][b] \/ i = got[n][b] + 1
                BY <2>3, <3>2, <4>1
            <4> QED BY <2>3, <3>2, <4>2
        <3> QED BY <3>1, <3>2
    <2>4. \A c \in Member : Len(log[c]) <= Len(log'[c])
                            /\ \A i \in 1 .. Len(log[c]) : log'[c][i] = log[c][i]
        BY <1>1
    <2>5. log' \in [Member -> Seq(Event)]
        BY <1>1
    <2> QED BY <1>2, <2>1, <2>2, <2>3, <2>4, <2>5, WithdrawalStep
<1>9. NothingBefore'
    <2>1. log[Minter] # <<>>
        <3>1. SUFFICES ASSUME log[Minter] = <<>> PROVE FALSE
            OBVIOUS
        <3>2. Len(log[b]) = 0
            BY <3>1 DEF IInv, NothingBefore
        <3> QED BY <1>1, <3>2
    <2> QED BY <2>1 DEF NothingBefore
<1> QED BY <1>2, <1>4, <1>5, <1>6, <1>7, <1>8, <1>9 DEF IInv

-----------------------------------------------------------------------------
(***************************************************************************)
(* One lemma per action.                                                   *)
(***************************************************************************)

\* What a seat knows before its step.
LEMMA SeatFacts ==
    ASSUME IInv, NEW n \in Member
    PROVE  /\ seat[n] \in Seat /\ will[n] \in Decision /\ log[n] \in Seq(Event)
           /\ Fits(seat[n], n, HD(n), RD(n), n \in overtaken, will[n])
           /\ n \in HD(n) <=> will[n] = "decline"
           /\ Minded(n, will[n]) = HD(n)
           /\ \A w : w # "decline" => Minded(n, w) = HD(n) \ {n}
           /\ Minded(n, "decline") = HD(n) \cup {n}
           /\ will = [will EXCEPT ![n] = will[n]]
           /\ votes \in Nat /\ serves \in Nat
<1>1. /\ seat[n] \in Seat /\ will[n] \in Decision /\ log[n] \in Seq(Event)
      /\ will = [will EXCEPT ![n] = will[n]] /\ votes \in Nat /\ serves \in Nat
    BY TypeFacts DEF IInv
<1>2. Fits(seat[n], n, HD(n), RD(n), n \in overtaken, will[n])
    BY DEF IInv, ViewsFit
<1>3. n \in HD(n) <=> will[n] = "decline"
    BY DEF HD, HeardDecline
<1>4. Minded(n, will[n]) = HD(n)
    BY <1>3 DEF HD, Minded
<1>5. \A w : w # "decline" => Minded(n, w) = HD(n) \ {n}
    BY DEF HD, Minded
<1>6. Minded(n, "decline") = HD(n) \cup {n}
    BY DEF HD, Minded
<1> QED BY <1>1, <1>2, <1>3, <1>4, <1>5, <1>6

\* A carried card moves onward.
LEMMA CarriedOnward ==
    ASSUME NEW s \in Seat, NEW t, NEW n, Carried(t, s)
    PROVE  Onward(t, s, n) /\ (t.card = "withdrawn" => s.card = "withdrawn")
BY DEF Carried, Onward, Ended

\* A log without the proposal has no seat with a card.
LEMMA NotBefore ==
    ASSUME IInv, NEW n \in Member, seat[n].card # "none"
    PROVE  log[Minter] # <<>>
BY DEF IInv, NothingBefore

\* Nothing said, nothing changed in the voice.
LEMMA SilentVoice ==
    ASSUME IInv, NEW n \in Member
    PROVE  n \in RD(n) \/ (LastIsDecline(log[n] \o <<>>, Len(log[n] \o <<>>), n) <=> will[n] = "decline")
<1>1. log[n] \o <<>> = log[n]
    BY SeatFacts, ConcatEmptySeq
<1>2. n \in RD(n) \/ (LastIsDecline(log[n], Len(log[n]), n) <=> will[n] = "decline")
    BY DEF IInv, VoicesTrue
<1> QED BY <1>1, <1>2

\* The block of another seat.
LEMMA ReceiveBlockInv ==
    ASSUME IInv, NEW n \in Member, ReceiveBlock(n)
    PROVE  IInv' /\ SignsStep /\ SealsStep
<1> DEFINE s == seat[n]
           t == [s EXCEPT !.card = "applied", !.head = @ + 1, !.sh = 0, !.sigs = {}, !.ver = {}]
<1>1. /\ s \in Seat /\ will[n] \in Decision /\ log[n] \in Seq(Event)
      /\ Fits(s, n, HD(n), RD(n), n \in overtaken, will[n])
      /\ Minded(n, will[n]) = HD(n) /\ will = [will EXCEPT ![n] = will[n]]
      /\ votes \in Nat /\ serves \in Nat
    BY SeatFacts
<1>2. sealed # {}
    BY DEF ReceiveBlock
<1>3. log[Minter] # <<>>
    BY <1>2 DEF IInv, NothingBefore
<1>4. seat' = [seat EXCEPT ![n] = t] /\ log' = [log EXCEPT ![n] = @ \o <<>>]
    <2>1. seat \in [Member -> Seat] /\ log \in [Member -> Seq(Event)]
        BY TypeFacts DEF IInv
    <2>2. seat' = [seat EXCEPT ![n] = t]
        BY <2>1 DEF ReceiveBlock, Seat
    <2>3. log[n] \o <<>> = log[n]
        BY <1>1, ConcatEmptySeq
    <2>4. log' = [log EXCEPT ![n] = @ \o <<>>]
        BY <2>1, <2>3 DEF ReceiveBlock
    <2> QED BY <2>2, <2>4
<1>5. t \in Seat
    <2>1. "applied" \in Card /\ s.head + 1 \in Nat
        BY <1>1 DEF Card, Seat
    <2> QED BY <1>1, <2>1 DEF Seat
<1>6. /\ t.card = "applied" /\ t.head = s.head + 1 /\ t.sh = 0 /\ t.sigs = {} /\ t.ver = {}
      /\ t.by = s.by /\ t.decl = s.decl /\ t.own = s.own /\ t.park = s.park /\ t.parkW = s.parkW
    BY <1>1 DEF Seat
<1>7. s.head \in Nat
    BY <1>1 DEF Seat
<1> HIDE DEF s, t
<1>8. Fits(t, n, HD(n), RD(n), n \in overtaken, will[n])
    BY <1>1, <1>6, <1>7 DEF Fits, VerHeld
<1>9. Onward(t, s, n)
    BY <1>6 DEF Onward, Ended
<1>10. /\ sealed' = sealed /\ got' = got /\ overtaken' = overtaken /\ will' = [will EXCEPT ![n] = will[n]]
       /\ votes' \in Nat /\ serves' \in Nat
    BY <1>1 DEF ReceiveBlock
<1>11. <<>> \in Seq(Event) /\ 1 .. Len(<<>>) = {}
    OBVIOUS
<1>12. t.card # "withdrawn"
    BY <1>6
<1>13. n \in RD(n) \/ (LastIsDecline(log[n] \o <<>>, Len(log[n] \o <<>>), n) <=> will[n] = "decline")
    BY SilentVoice
<1>14. Step(n, t, <<>>)
    BY <1>4 DEF Step
<1>15. Fits(t, n, Minded(n, will[n]), RD(n), n \in overtaken, will[n])
    BY <1>1, <1>8
<1>16. Onward(t, seat[n], n)
    BY <1>9 DEF s
<1>17. IInv' /\ SignsStep /\ SealsStep
    BY <1>1, <1>3, <1>5, <1>10, <1>11, <1>12, <1>13, <1>14, <1>15, <1>16, LocalStep
<1> QED BY <1>17

\* A local step that ends in trying the seal.
LEMMA TriedStep ==
    ASSUME IInv, NEW n \in Member, NEW u \in Seat, NEW paced \in BOOLEAN, NEW w \in Decision,
           NEW ev \in Seq(Event), NEW t, t = TryCommit(u, paced), Step(n, t, ev), SealStep(n, u, t),
           will' = [will EXCEPT ![n] = w], got' = got, overtaken' = overtaken,
           votes' \in Nat, serves' \in Nat,
           Fits(u, n, Minded(n, w), RD(n), n \in overtaken, w),
           n \in RD(n) \/ (LastIsDecline(log[n] \o ev, Len(log[n] \o ev), n) <=> w = "decline"),
           Onward(u, seat[n], n), u.card = "withdrawn" => seat[n].card = "withdrawn",
           \A i \in 1 .. Len(ev) : ev[i].t # "withdrawn",
           \A i \in 1 .. Len(ev) : ev[i].t = "approved" /\ ev[i].by = n => w = "approve" \/ n \in RD(n),
           log[Minter] = <<>> => (n = Minter /\ ev # <<>>) \/ (ev = <<>> /\ u.card = "none")
    PROVE  IInv' /\ SignsStep /\ SealsStep
<1>1. /\ t \in Seat /\ t.by = u.by /\ t.parkW = u.parkW
      /\ t.card = u.card \/ (u.card = "open" /\ t.card = "applied")
    BY TryCommitFacts
<1>2. Fits(t, n, Minded(n, w), RD(n), n \in overtaken, w)
    BY TryCommitFits
<1>3. Onward(t, seat[n], n)
    BY <1>1 DEF Onward, Ended
<1>4. t.card = "withdrawn" => seat[n].card = "withdrawn"
    BY <1>1
<1>5. log[Minter] = <<>> => (n = Minter /\ ev # <<>>) \/ (ev = <<>> /\ t.card = "none")
    BY <1>1
<1> QED BY <1>1, <1>2, <1>3, <1>4, <1>5, LocalStep

\* The events a seat says.
LEMMA EventFacts ==
    ASSUME NEW n \in Member
    PROVE  /\ \A h \in Nat : Approved(n, h) \in Event /\ Approved(n, h).t = "approved" /\ Approved(n, h).by = n
           /\ \A what \in {"proposed", "declined", "withdrawn"} :
                Says(what, n) \in Event /\ Says(what, n).t = what /\ Says(what, n).by = n
BY DEF Event, Approved, Says

\* One event said.
LEMMA OneEvent ==
    ASSUME NEW n \in Member, NEW h \in Nat
    PROVE  /\ <<Approved(n, h)>> \in Seq(Event) /\ Len(<<Approved(n, h)>>) = 1
           /\ <<Approved(n, h)>>[1].t = "approved" /\ <<Approved(n, h)>>[1].by = n
           /\ OwnVoice(<<Approved(n, h)>>[1], n)
           /\ \A what \in {"proposed", "declined", "withdrawn"} :
                /\ <<Says(what, n)>> \in Seq(Event) /\ Len(<<Says(what, n)>>) = 1
                /\ <<Says(what, n)>>[1].t = what /\ <<Says(what, n)>>[1].by = n
                /\ OwnVoice(<<Says(what, n)>>[1], n) <=> what = "declined"
<1>1. /\ Approved(n, h) \in Event /\ Approved(n, h).t = "approved" /\ Approved(n, h).by = n
    BY EventFacts
<1>2. \A what \in {"proposed", "declined", "withdrawn"} :
            Says(what, n) \in Event /\ Says(what, n).t = what /\ Says(what, n).by = n
    BY EventFacts
<1>3. \A e \in Event : <<e>> \in Seq(Event) /\ Len(<<e>>) = 1 /\ <<e>>[1] = e
    OBVIOUS
<1> QED BY <1>1, <1>2, <1>3 DEF OwnVoice

\* The voice after an approval, and after a step that says something else.
LEMMA VoiceApproves ==
    ASSUME IInv, NEW n \in Member, NEW ev \in Seq(Event),
           \E i \in 1 .. Len(ev) : OwnVoice(ev[i], n),
           \A i \in 1 .. Len(ev) : OwnVoice(ev[i], n) => ev[i].t = "approved"
    PROVE  ~LastIsDecline(log[n] \o ev, Len(log[n] \o ev), n)
<1>1. log[n] \in Seq(Event)
    BY SeatFacts
<1> QED BY <1>1, LastConcat

\* A step in which n does not vote leaves its voice.
LEMMA VoiceStays ==
    ASSUME IInv, NEW n \in Member, NEW ev \in Seq(Event),
           \A i \in 1 .. Len(ev) : ~OwnVoice(ev[i], n)
    PROVE  n \in RD(n) \/ (LastIsDecline(log[n] \o ev, Len(log[n] \o ev), n) <=> will[n] = "decline")
<1>1. log[n] \in Seq(Event)
    BY SeatFacts
<1>2. LastIsDecline(log[n] \o ev, Len(log[n] \o ev), n) <=> LastIsDecline(log[n], Len(log[n]), n)
    BY <1>1, LastConcat
<1>3. n \in RD(n) \/ (LastIsDecline(log[n], Len(log[n]), n) <=> will[n] = "decline")
    BY DEF IInv, VoicesTrue
<1> QED BY <1>2, <1>3

\* The delivery tick.
LEMMA DrainHeldSealsInv ==
    ASSUME IInv, NEW n \in Member, DrainHeldSeals(n)
    PROVE  IInv' /\ SignsStep /\ SealsStep
<1>0. PICK s : s = seat[n]
    OBVIOUS
<1>1. /\ s \in Seat /\ will[n] \in Decision
      /\ Fits(s, n, HD(n), RD(n), n \in overtaken, will[n])
      /\ Minded(n, will[n]) = HD(n) /\ will = [will EXCEPT ![n] = will[n]]
      /\ votes \in Nat /\ serves \in Nat
    BY <1>0, SeatFacts
<1>2. PICK u : u = [s EXCEPT !.held = FALSE]
    OBVIOUS
<1>3. /\ u \in Seat /\ u.card = s.card /\ u.by = s.by /\ u.decl = s.decl /\ u.sh = s.sh
      /\ u.sigs = s.sigs /\ u.ver = s.ver /\ u.own = s.own /\ u.park = s.park /\ u.parkW = s.parkW
      /\ u.head = s.head
    BY <1>1, <1>2 DEF Seat
<1>4. Fits(u, n, Minded(n, will[n]), RD(n), n \in overtaken, will[n])
    BY <1>1, <1>3 DEF Fits, VerHeld
<1>5. Onward(u, seat[n], n)
    BY <1>0, <1>3 DEF Onward
<1>6. PICK t : t = TryCommit(u, TRUE)
    OBVIOUS
<1>7. /\ Step(n, t, <<>>) /\ SealStep(n, u, t)
      /\ got' = got /\ overtaken' = overtaken /\ votes' \in Nat /\ serves' \in Nat
      /\ will' = [will EXCEPT ![n] = will[n]]
    BY <1>0, <1>1, <1>2, <1>6 DEF DrainHeldSeals
<1>8. <<>> \in Seq(Event) /\ 1 .. Len(<<>>) = {}
    OBVIOUS
<1>9. n \in RD(n) \/ (LastIsDecline(log[n] \o <<>>, Len(log[n] \o <<>>), n) <=> will[n] = "decline")
    BY SilentVoice
<1>10. log[Minter] = <<>> => u.card = "none"
    BY <1>0, <1>3, NotBefore
<1> QED BY <1>0, <1>1, <1>3, <1>4, <1>5, <1>6, <1>7, <1>8, <1>9, <1>10, TriedStep

\* A foreign block.
LEMMA HeadMovesInv ==
    ASSUME IInv, NEW n \in Member, HeadMoves(n)
    PROVE  IInv' /\ SignsStep /\ SealsStep
<1>0. PICK s0 : s0 = seat[n]
    OBVIOUS
<1>1. /\ s0 \in Seat /\ will[n] \in Decision
      /\ Fits(s0, n, HD(n), RD(n), n \in overtaken, will[n])
      /\ Minded(n, will[n]) = HD(n) /\ will = [will EXCEPT ![n] = will[n]]
      /\ votes \in Nat /\ serves \in Nat
    BY <1>0, SeatFacts
<1>2. PICK s : s = [s0 EXCEPT !.head = @ + 1]
    OBVIOUS
<1>3. PICK swept : swept = [s EXCEPT !.sh = 0, !.sigs = {}, !.ver = {}]
    OBVIOUS
<1>4. PICK again \in BOOLEAN : again = (s.sh > 0 /\ s.own /\ s.card = "open")
    OBVIOUS
<1>5. PICK u : u = IF again THEN Sign(swept, n) ELSE IF s.sh > 0 THEN swept ELSE s
    OBVIOUS
<1>6. PICK paced \in BOOLEAN :
        /\ Step(n, TryCommit(u, paced), IF again THEN <<Approved(n, Target(s))>> ELSE <<>>)
        /\ SealStep(n, u, TryCommit(u, paced))
        /\ UNCHANGED <<got, will, votes, serves, overtaken>>
    BY <1>0, <1>2, <1>3, <1>4, <1>5 DEF HeadMoves
<1>7. s0.head \in Nat /\ s0.sh \in Nat
    BY <1>1 DEF Seat
<1>8. /\ s \in Seat /\ s.card = s0.card /\ s.by = s0.by /\ s.decl = s0.decl /\ s.sh = s0.sh
      /\ s.sigs = s0.sigs /\ s.ver = s0.ver /\ s.own = s0.own /\ s.park = s0.park /\ s.parkW = s0.parkW
      /\ s.head = s0.head + 1
    BY <1>1, <1>2, <1>7 DEF Seat
<1>9. /\ swept \in Seat /\ swept.card = s.card /\ swept.by = s.by /\ swept.decl = s.decl /\ swept.sh = 0
      /\ swept.sigs = {} /\ swept.ver = {} /\ swept.own = s.own /\ swept.park = s.park
      /\ swept.parkW = s.parkW /\ swept.head = s.head
    BY <1>3, <1>8 DEF Seat
<1>10. Fits(s, n, HD(n), RD(n), n \in overtaken, will[n])
    BY <1>1, <1>7, <1>8 DEF Fits, VerHeld
<1>11. Fits(swept, n, HD(n), RD(n), n \in overtaken, will[n])
    BY <1>7, <1>8, <1>9, <1>10 DEF Fits, VerHeld
<1>12. again => s.card = "open" /\ (n \notin RD(n) => will[n] = "approve")
    BY <1>4, <1>10 DEF Fits
<1>13. /\ u \in Seat /\ u.card = s0.card /\ u.by = s0.by /\ u.parkW = s0.parkW
       /\ Fits(u, n, HD(n), RD(n), n \in overtaken, will[n])
    <2>1. CASE again
        <3>1. Fits(Sign(swept, n), n, HD(n), RD(n), n \in overtaken, will[n])
              /\ Carried(Sign(swept, n), swept) /\ Sign(swept, n).card = "open"
            BY <1>9, <1>11, <1>12, <2>1, SignFits
        <3> QED BY <1>5, <1>8, <1>9, <1>12, <2>1, <3>1 DEF Carried
    <2>2. CASE ~again
        BY <1>5, <1>8, <1>9, <1>10, <1>11, <2>2
    <2> QED BY <2>1, <2>2
<1>14. Fits(u, n, Minded(n, will[n]), RD(n), n \in overtaken, will[n])
    BY <1>1, <1>13
<1>15. Onward(u, seat[n], n) /\ (u.card = "withdrawn" => seat[n].card = "withdrawn")
    BY <1>0, <1>13 DEF Onward
<1>16. Target(s) \in Nat
    BY <1>8 DEF Target, Seat
<1>17. /\ got' = got /\ overtaken' = overtaken /\ votes' \in Nat /\ serves' \in Nat
       /\ will' = [will EXCEPT ![n] = will[n]]
    BY <1>1, <1>6
<1>18. PICK t : t = TryCommit(u, paced)
    OBVIOUS
<1>19. CASE again
    <2>1. PICK ev : ev = <<Approved(n, Target(s))>>
        OBVIOUS
    <2>2. /\ ev \in Seq(Event) /\ Len(ev) = 1 /\ ev[1].t = "approved" /\ ev[1].by = n /\ OwnVoice(ev[1], n)
        BY <1>16, <2>1, OneEvent
    <2>3. \A i \in 1 .. Len(ev) : i = 1
        BY <2>2
    <2>4. ~LastIsDecline(log[n] \o ev, Len(log[n] \o ev), n)
        <3>1. \E i \in 1 .. Len(ev) : OwnVoice(ev[i], n)
            BY <2>2
        <3> QED BY <2>2, <2>3, <3>1, VoiceApproves
    <2>5. n \in RD(n) \/ (LastIsDecline(log[n] \o ev, Len(log[n] \o ev), n) <=> will[n] = "decline")
        BY <1>12, <1>19, <2>4
    <2>6. \A i \in 1 .. Len(ev) : ev[i].t # "withdrawn"
        BY <2>2, <2>3
    <2>7. Step(n, t, ev) /\ SealStep(n, u, t)
        BY <1>6, <1>18, <1>19, <2>1
    <2>8. log[Minter] # <<>>
        BY <1>0, <1>8, <1>12, <1>19, NotBefore
    <2>9. \A i \in 1 .. Len(ev) : ev[i].t = "approved" /\ ev[i].by = n => will[n] = "approve" \/ n \in RD(n)
        BY <1>12, <1>19
    <2> QED BY <1>1, <1>13, <1>14, <1>15, <1>17, <1>18, <2>2, <2>5, <2>6, <2>7, <2>8, <2>9, TriedStep
<1>20. CASE ~again
    <2>1. Step(n, t, <<>>) /\ SealStep(n, u, t)
        BY <1>6, <1>18, <1>20
    <2>2. <<>> \in Seq(Event) /\ 1 .. Len(<<>>) = {}
        OBVIOUS
    <2>3. n \in RD(n) \/ (LastIsDecline(log[n] \o <<>>, Len(log[n] \o <<>>), n) <=> will[n] = "decline")
        BY SilentVoice
    <2>4. log[Minter] = <<>> => u.card = "none"
        BY <1>0, <1>13, NotBefore
    <2> QED BY <1>1, <1>13, <1>14, <1>15, <1>17, <1>18, <2>1, <2>2, <2>3, <2>4, TriedStep
<1> QED BY <1>19, <1>20

\* The operator approves.
LEMMA CmdApproveInv ==
    ASSUME IInv, NEW n \in Member, CmdApprove(n)
    PROVE  IInv' /\ SignsStep /\ SealsStep
<1>0. PICK s : s = seat[n]
    OBVIOUS
<1>1. /\ s \in Seat /\ "approve" \in Decision
      /\ Fits(s, n, HD(n), RD(n), n \in overtaken, will[n])
      /\ Minded(n, "approve") = HD(n) \ {n}
      /\ votes \in Nat /\ serves \in Nat
    BY <1>0, SeatFacts DEF Decision
<1>2. PICK d : d = [s EXCEPT !.decl = @ \ {n}]
    OBVIOUS
<1>3. PICK u : u = Sign(d, n)
    OBVIOUS
<1>4. PICK ev : ev = <<Approved(n, Target(s))>>
    OBVIOUS
<1>5. PICK paced \in BOOLEAN :
        /\ s.card = "open" /\ Decide(n, "approve") /\ Step(n, TryCommit(u, paced), ev)
        /\ SealStep(n, u, TryCommit(u, paced)) /\ UNCHANGED <<got, serves, overtaken>>
    BY <1>0, <1>2, <1>3, <1>4 DEF CmdApprove
<1>6. /\ d \in Seat /\ d.decl = s.decl \ {n}
      /\ d.card = s.card /\ d.by = s.by /\ d.sh = s.sh /\ d.sigs = s.sigs /\ d.ver = s.ver
      /\ d.own = s.own /\ d.park = s.park /\ d.parkW = s.parkW /\ d.head = s.head
    BY <1>1, <1>2, UndeclineFacts
<1>7. Fits(d, n, Minded(n, "approve"), RD(n), n \in overtaken, "approve")
    BY <1>1, <1>5, <1>6 DEF Fits, VerHeld
<1>8. Fits(u, n, Minded(n, "approve"), RD(n), n \in overtaken, "approve") /\ Carried(u, d) /\ u.card = "open"
    BY <1>3, <1>5, <1>6, <1>7, SignFits
<1>9. /\ u \in Seat /\ u.by = s.by /\ u.parkW = s.parkW
    BY <1>6, <1>8 DEF Carried
<1>10. Onward(u, seat[n], n)
    BY <1>0, <1>5, <1>8, <1>9 DEF Onward, Ended
<1>11. Target(s) \in Nat
    BY <1>1 DEF Target, Seat
<1>12. /\ ev \in Seq(Event) /\ Len(ev) = 1 /\ ev[1].t = "approved" /\ ev[1].by = n /\ OwnVoice(ev[1], n)
    BY <1>4, <1>11, OneEvent
<1>13. \A i \in 1 .. Len(ev) : i = 1
    BY <1>12
<1>14. ~LastIsDecline(log[n] \o ev, Len(log[n] \o ev), n)
    <2>1. \E i \in 1 .. Len(ev) : OwnVoice(ev[i], n)
        BY <1>12
    <2> QED BY <1>12, <1>13, <2>1, VoiceApproves
<1>15. n \in RD(n) \/ (LastIsDecline(log[n] \o ev, Len(log[n] \o ev), n) <=> "approve" = "decline")
    BY <1>14
<1>16. \A i \in 1 .. Len(ev) : ev[i].t # "withdrawn"
    BY <1>12, <1>13
<1>17. log[Minter] # <<>>
    BY <1>0, <1>5, NotBefore
<1>18. /\ will' = [will EXCEPT ![n] = "approve"] /\ votes' \in Nat /\ serves' \in Nat
       /\ got' = got /\ overtaken' = overtaken
    BY <1>1, <1>5 DEF Decide
<1>19. PICK t : t = TryCommit(u, paced)
    OBVIOUS
<1>20. Step(n, t, ev) /\ SealStep(n, u, t)
    BY <1>5, <1>19
<1> QED BY <1>1, <1>8, <1>9, <1>10, <1>12, <1>15, <1>16, <1>17, <1>18, <1>19, <1>20, TriedStep

\* The operator declines.
LEMMA CmdDeclineInv ==
    ASSUME IInv, NEW n \in Member, CmdDecline(n)
    PROVE  IInv' /\ SignsStep /\ SealsStep
<1>0. PICK s : s = seat[n]
    OBVIOUS
<1>1. /\ s \in Seat /\ "decline" \in Decision /\ log[n] \in Seq(Event)
      /\ Fits(s, n, HD(n), RD(n), n \in overtaken, will[n])
      /\ Minded(n, "decline") = HD(n) \cup {n}
      /\ votes \in Nat /\ serves \in Nat
    BY <1>0, SeatFacts DEF Decision
<1>2. PICK t : t = RegisterDecline(s, n, n)
    OBVIOUS
<1>3. PICK ev : ev = <<Says("declined", n)>>
    OBVIOUS
<1>4. /\ s.card = "open" /\ n \notin s.decl /\ Decide(n, "decline") /\ Step(n, t, ev)
      /\ UNCHANGED <<got, sealed, serves, overtaken>>
    BY <1>0, <1>2, <1>3 DEF CmdDecline
<1>5. Fits(t, n, Minded(n, "decline"), RD(n), n \in overtaken, "decline")
    BY <1>1, <1>2, <1>4, OwnDeclineFits
<1>6. Declined(t, s, n, n)
    BY <1>1, <1>2, RegisterDeclineFacts
<1>7. t \in Seat /\ t.by = s.by /\ t.parkW = s.parkW /\ t.card \in {"open", "rejected"}
    BY <1>4, <1>6 DEF Declined
<1>8. Onward(t, seat[n], n)
    BY <1>0, <1>4, <1>7 DEF Onward, Ended
<1>9. /\ ev \in Seq(Event) /\ Len(ev) = 1 /\ ev[1].t = "declined" /\ ev[1].by = n /\ OwnVoice(ev[1], n)
    BY <1>3, OneEvent
<1>10. \A i \in 1 .. Len(ev) : i = 1
    BY <1>9
<1>11. LastIsDecline(log[n] \o ev, Len(log[n] \o ev), n)
    <2>1. Len(ev) > 0 /\ OwnVoice(ev[Len(ev)], n) /\ ev[Len(ev)].t = "declined"
        BY <1>9
    <2> QED BY <1>1, <1>9, <2>1, LastConcat
<1>12. n \in RD(n) \/ (LastIsDecline(log[n] \o ev, Len(log[n] \o ev), n) <=> "decline" = "decline")
    BY <1>11
<1>13. \A i \in 1 .. Len(ev) : ev[i].t # "withdrawn" /\ ev[i].t # "approved"
    BY <1>9, <1>10
<1>14. log[Minter] # <<>>
    BY <1>0, <1>4, NotBefore
<1>15. /\ will' = [will EXCEPT ![n] = "decline"] /\ votes' \in Nat /\ serves' \in Nat
       /\ got' = got /\ overtaken' = overtaken /\ sealed' = sealed
    BY <1>1, <1>4 DEF Decide
<1>16. t.card # "withdrawn"
    BY <1>7
<1>17. PICK w \in Decision : w = "decline"
    BY <1>1
<1>18. /\ will' = [will EXCEPT ![n] = w] /\ Fits(t, n, Minded(n, w), RD(n), n \in overtaken, w)
       /\ n \in RD(n) \/ (LastIsDecline(log[n] \o ev, Len(log[n] \o ev), n) <=> w = "decline")
    BY <1>5, <1>12, <1>15, <1>17
<1> QED BY <1>4, <1>7, <1>8, <1>9, <1>13, <1>14, <1>15, <1>16, <1>18, QuietStep

\* The proposer withdraws.
LEMMA CmdWithdrawInv ==
    ASSUME IInv, NEW n \in Member, CmdWithdraw(n)
    PROVE  IInv' /\ SignsStep /\ SealsStep
<1>0. PICK s : s = seat[n]
    OBVIOUS
<1>1. /\ s \in Seat /\ will[n] \in Decision
      /\ Fits(s, n, HD(n), RD(n), n \in overtaken, will[n])
      /\ Minded(n, will[n]) = HD(n) /\ will = [will EXCEPT ![n] = will[n]]
      /\ votes \in Nat /\ serves \in Nat
    BY <1>0, SeatFacts
<1>2. PICK t : t = RegisterWithdraw(s, n)
    OBVIOUS
<1>3. PICK ev : ev = <<Says("withdrawn", n)>>
    OBVIOUS
<1>4. /\ s.card = "open" /\ s.by = n /\ Step(n, t, ev)
      /\ UNCHANGED <<got, sealed, will, votes, serves, overtaken>>
    BY <1>0, <1>2, <1>3 DEF CmdWithdraw
<1>5. n = Minter
    BY <1>0, <1>4 DEF IInv, WithdrawalsOK
<1>6. Fits(t, n, Minded(n, will[n]), RD(n), n \in overtaken, will[n])
    BY <1>1, <1>2, RegisterWithdrawFits
<1>7. Pulled(t, s, n)
    BY <1>1, <1>2, RegisterWithdrawFacts
<1>8. t \in Seat /\ t.by = s.by /\ t.parkW = s.parkW /\ t.card = "withdrawn"
    BY <1>4, <1>5, <1>7 DEF Pulled
<1>9. Onward(t, seat[n], n)
    BY <1>0, <1>4, <1>8 DEF Onward, Ended
<1>10. /\ ev \in Seq(Event) /\ Len(ev) = 1 /\ ev[1].t = "withdrawn" /\ ~OwnVoice(ev[1], n)
    BY <1>3, OneEvent
<1>11. \A i \in 1 .. Len(ev) : i = 1
    BY <1>10
<1>12. n \in RD(n) \/ (LastIsDecline(log[n] \o ev, Len(log[n] \o ev), n) <=> will[n] = "decline")
    BY <1>10, <1>11, VoiceStays
<1>13. (\A i \in 1 .. Len(ev) : ev[i].t # "approved") /\ (\E i \in 1 .. Len(ev) : ev[i].t = "withdrawn")
    BY <1>10, <1>11
<1>14. log[Minter] # <<>>
    BY <1>0, <1>4, NotBefore
<1>15. /\ will' = [will EXCEPT ![n] = will[n]] /\ votes' \in Nat /\ serves' \in Nat
       /\ got' = got /\ overtaken' = overtaken /\ sealed' = sealed
    BY <1>1, <1>4
<1>16. PICK w \in Decision : w = will[n]
    BY <1>1
<1>17. /\ will' = [will EXCEPT ![n] = w] /\ Fits(t, n, Minded(n, w), RD(n), n \in overtaken, w)
       /\ n \in RD(n) \/ (LastIsDecline(log[n] \o ev, Len(log[n] \o ev), n) <=> w = "decline")
    BY <1>6, <1>12, <1>15, <1>16
<1> QED BY <1>4, <1>5, <1>8, <1>9, <1>10, <1>13, <1>14, <1>15, <1>17, QuietStep

\* The proposal.
LEMMA ProposeInv ==
    ASSUME IInv, NEW n \in Member, Propose(n)
    PROVE  IInv' /\ SignsStep /\ SealsStep
<1>0. PICK s0 : s0 = seat[n]
    OBVIOUS
<1>1. /\ s0 \in Seat /\ will[n] \in Decision
      /\ Fits(s0, n, HD(n), RD(n), n \in overtaken, will[n])
      /\ Minded(n, will[n]) = HD(n) /\ Minded(n, "approve") = HD(n) \ {n}
      /\ votes \in Nat /\ serves \in Nat
    BY <1>0, SeatFacts
<1>2. PICK s : s = [s0 EXCEPT !.card = "open", !.by = n]
    OBVIOUS
<1>3. PICK cosign \in BOOLEAN, paced \in BOOLEAN :
        LET u == IF cosign THEN Sign(s, n) ELSE s
            t == TryCommit(u, paced)
        IN  /\ n = Minter /\ log[n] = <<>>
            /\ Step(n, t, <<Says("proposed", n)>>
                             \o (IF cosign THEN <<Approved(n, Target(s))>> ELSE <<>>))
            /\ SealStep(n, u, t)
            /\ will' = [will EXCEPT ![n] = IF cosign THEN "approve" ELSE @]
            /\ UNCHANGED <<got, votes, serves, overtaken>>
    BY <1>0, <1>2 DEF Propose
<1>4. PICK u : u = IF cosign THEN Sign(s, n) ELSE s
    OBVIOUS
<1>5. PICK t : t = TryCommit(u, paced)
    OBVIOUS
<1>6. PICK w : w = IF cosign THEN "approve" ELSE will[n]
    OBVIOUS
<1>7. PICK ev : ev = <<Says("proposed", n)>> \o (IF cosign THEN <<Approved(n, Target(s))>> ELSE <<>>)
    OBVIOUS
<1>8. /\ n = Minter /\ log[n] = <<>> /\ Step(n, t, ev) /\ SealStep(n, u, t)
      /\ will' = [will EXCEPT ![n] = w] /\ got' = got /\ votes' \in Nat /\ serves' \in Nat
      /\ overtaken' = overtaken
    <2>1. n \in DOMAIN will
        BY TypeFacts DEF IInv
    <2> QED BY <1>1, <1>3, <1>4, <1>5, <1>6, <1>7, <2>1
<1>9. s0.card = "none" /\ \A b \in Member : log[b] = <<>>
    BY <1>0, <1>8 DEF IInv, NothingBefore
<1>10. /\ s \in Seat /\ s.card = "open" /\ s.by = n /\ s.decl = s0.decl /\ s.sh = s0.sh
       /\ s.sigs = s0.sigs /\ s.ver = s0.ver /\ s.own = s0.own /\ s.park = s0.park /\ s.parkW = s0.parkW
       /\ s.head = s0.head
    <2>1. "open" \in Card
        BY DEF Card
    <2> QED BY <1>1, <1>2, <2>1 DEF Seat
<1>11. w \in Decision /\ w # "decline" /\ (cosign => w = "approve") /\ will[n] = "none"
    BY <1>1, <1>6, <1>9 DEF Fits, Decision
<1>12. \A b \in Member : got[n][b] = 0
    <2>1. \A b \in Member : got[n][b] \in Nat /\ got[n][b] <= 0
        <3>1. \A b \in Member : got[n][b] \in Nat
            BY TypeFacts DEF IInv
        <3>2. \A b \in Member : got[n][b] <= Len(log[b])
            BY DEF IInv, LinksOK
        <3> QED BY <1>9, <3>1, <3>2
    <2> QED BY <2>1
<1>13. HD(n) = {} /\ RD(n) = {}
    <2>1. \A b \in Member : 1 .. got[n][b] = {}
        BY <1>12
    <2>2. \A b \in Member : ~HeardDecline(n, b)
        BY <1>11, <2>1 DEF HeardDecline, Heard
    <2>3. \A b \in Member : ~Relayed(n, b)
        BY <2>1 DEF Relayed
    <2> QED BY <2>2, <2>3 DEF HD, RD
<1>14. Minded(n, w) = {}
    BY <1>1, <1>6, <1>13
<1>15. Fits(s, n, {}, {}, n \in overtaken, w)
    BY <1>1, <1>9, <1>10, <1>13 DEF Fits, VerHeld
<1>16. /\ u \in Seat /\ u.card = "open" /\ u.by = n /\ u.parkW = s0.parkW
       /\ Fits(u, n, {}, {}, n \in overtaken, w)
    <2>1. CASE cosign
        <3>1. Fits(Sign(s, n), n, {}, {}, n \in overtaken, w) /\ Carried(Sign(s, n), s) /\ Sign(s, n).card = "open"
            BY <1>10, <1>11, <1>15, <2>1, SignFits
        <3> QED BY <1>4, <1>10, <2>1, <3>1 DEF Carried
    <2>2. CASE ~cosign
        BY <1>4, <1>10, <1>15, <2>2
    <2> QED BY <2>1, <2>2
<1>17. Fits(u, n, Minded(n, w), RD(n), n \in overtaken, w)
    BY <1>13, <1>14, <1>16
<1>18. Onward(u, seat[n], n)
    <2>1. ~s0.parkW
        BY <1>0, <1>8 DEF IInv, WithdrawalsOK
    <2> QED BY <1>0, <1>8, <1>9, <1>16, <2>1 DEF Onward, Ended
<1>19. Target(s) \in Nat
    BY <1>10 DEF Target, Seat
<1>20. /\ ev \in Seq(Event) /\ ev # <<>>
       /\ \A i \in 1 .. Len(ev) : ev[i].t \in {"proposed", "approved"}
       /\ \A i \in 1 .. Len(ev) : ev[i].t = "approved" => cosign
    <2>1. PICK e \in Event : e = Says("proposed", n) /\ e.t = "proposed"
        BY EventFacts
    <2>2. PICK f \in Event : f = Approved(n, Target(s)) /\ f.t = "approved"
        BY <1>19, EventFacts
    <2>3. CASE cosign
        <3>1. PICK L : L = <<e>>
            OBVIOUS
        <3>2. PICK K : K = <<f>>
            OBVIOUS
        <3>3. L \in Seq(Event) /\ Items(L) = {e} /\ K \in Seq(Event) /\ Items(K) = {f}
            BY <2>1, <2>2, <3>1, <3>2, ItemsFew
        <3>4. ev = L \o K
            BY <1>7, <2>1, <2>2, <2>3, <3>1, <3>2
        <3>5. ev \in Seq(Event) /\ Items(ev) = {e} \cup {f}
            BY <3>3, <3>4, ItemsConcat
        <3>6. ev # <<>>
            BY <3>5, ItemsFew
        <3>7. \A i \in 1 .. Len(ev) : ev[i] = e \/ ev[i] = f
            BY <3>5 DEF Items
        <3> QED BY <2>1, <2>2, <2>3, <3>5, <3>6, <3>7
    <2>4. CASE ~cosign
        <3>1. ev = <<e>>
            BY <1>7, <2>1, <2>4
        <3> QED BY <2>1, <2>4, <3>1
    <2> QED BY <2>3, <2>4
<1>21. n \in RD(n) \/ (LastIsDecline(log[n] \o ev, Len(log[n] \o ev), n) <=> w = "decline")
    <2>1. ~LastIsDecline(log[n] \o ev, Len(log[n] \o ev), n)
        <3>1. log[n] \o ev = ev
            BY <1>8, <1>20, ConcatEmptySeq
        <3> QED BY <1>20, <3>1 DEF LastIsDecline
    <2> QED BY <1>11, <2>1
<1>22. \A i \in 1 .. Len(ev) : ev[i].t # "withdrawn"
    BY <1>20
<1>23. \A i \in 1 .. Len(ev) : ev[i].t = "approved" /\ ev[i].by = n => w = "approve" \/ n \in RD(n)
    BY <1>11, <1>20
<1>24. u.card = "withdrawn" => seat[n].card = "withdrawn"
    BY <1>16
<1> QED BY <1>5, <1>8, <1>11, <1>16, <1>17, <1>18, <1>20, <1>21, <1>22, <1>23, <1>24, TriedStep

\* What a seat was told after one more event, as sets.
LEMMA ToldSets ==
    ASSUME NEW n \in Member, NEW b \in Member, NEW e, Told(n, b, e)
    PROVE  /\ e.t \in {"proposed", "withdrawn"} => HD(n)' = HD(n) /\ RD(n)' = RD(n)
           /\ e.t = "declined" /\ e.by = b => HD(n)' = HD(n) \cup {b} /\ RD(n)' = RD(n)
           /\ e.t = "approved" =>
                /\ HD(n)' = IF e.by = b THEN HD(n) \ {e.by} ELSE HD(n)
                /\ RD(n)' = IF e.by = b THEN RD(n) ELSE RD(n) \cup {e.by}
                /\ e.by \in Member /\ e.h \in Nat
<1>1. /\ \A c \in HD(n)' : c \in Member
      /\ \A c \in HD(n) : c \in Member
      /\ \A c \in RD(n)' : c \in Member
      /\ \A c \in RD(n) : c \in Member
    BY DEF HD, RD
<1>2. /\ \A c \in Member : c \in HD(n)' <=> IF c = b /\ OwnVoice(e, b) THEN e.t = "declined" ELSE c \in HD(n)
      /\ \A c \in Member : c \in RD(n)' <=> c \in RD(n) \/ (c # b /\ e.t = "approved" /\ e.by = c)
      /\ e \in Event
    BY DEF Told
<1> HIDE DEF HD, RD
<1>3. ASSUME e.t \in {"proposed", "withdrawn"} PROVE HD(n)' = HD(n) /\ RD(n)' = RD(n)
    BY <1>1, <1>2, <1>3 DEF OwnVoice
<1>4. ASSUME e.t = "declined", e.by = b PROVE HD(n)' = HD(n) \cup {b} /\ RD(n)' = RD(n)
    BY <1>1, <1>2, <1>4 DEF OwnVoice
<1>5. ASSUME e.t = "approved"
      PROVE  /\ HD(n)' = IF e.by = b THEN HD(n) \ {e.by} ELSE HD(n)
             /\ RD(n)' = IF e.by = b THEN RD(n) ELSE RD(n) \cup {e.by}
             /\ e.by \in Member /\ e.h \in Nat
    <2>1. e.by \in Member /\ e.h \in Nat
        BY <1>2, <1>5 DEF Event
    <2>2. HD(n)' = IF e.by = b THEN HD(n) \ {e.by} ELSE HD(n)
        BY <1>1, <1>2, <1>5 DEF OwnVoice
    <2>3. RD(n)' = IF e.by = b THEN RD(n) ELSE RD(n) \cup {e.by}
        BY <1>1, <1>2, <1>5, <2>1
    <2> QED BY <2>1, <2>2, <2>3
<1> QED BY <1>3, <1>4, <1>5

\* The next event of b reaches n.
LEMMA DeliverInv ==
    ASSUME IInv, NEW n \in Member, NEW b \in Member, Deliver(n, b)
    PROVE  IInv' /\ SignsStep /\ SealsStep
<1>0. PICK s, e : s = seat[n] /\ e = log[b][got[n][b] + 1]
    OBVIOUS
<1>1. /\ s \in Seat
      /\ Fits(s, n, HD(n), RD(n), n \in overtaken, will[n])
    BY <1>0, SeatFacts
<1>2. /\ n # b /\ got[n][b] < Len(log[b])
      /\ got' = [got EXCEPT ![n][b] = @ + 1]
      /\ log' = log /\ will' = will /\ votes' = votes /\ serves' = serves
    BY DEF Deliver
<1>3. Told(n, b, e)
    BY <1>0, <1>2, ToldMore
<1>4. s.parkW => n # Minter
    BY <1>0 DEF IInv, WithdrawalsOK
<1>5. CASE /\ e.t = "proposed"
           /\ \E D \in DrainOrders(s) :
                 seat' = [seat EXCEPT ![n] = ReceiveProposed(s, n, b, D)]
           /\ overtaken' = IF s.card = "none" /\ s.park # {}
                           THEN overtaken \cup {n} ELSE overtaken
           /\ UNCHANGED sealed
    <2>1. PICK D \in DrainOrders(s) : seat' = [seat EXCEPT ![n] = ReceiveProposed(s, n, b, D)]
        BY <1>5
    <2>2. PICK t : t = ReceiveProposed(s, n, b, D)
        OBVIOUS
    <2>3. HD(n)' = HD(n) /\ RD(n)' = RD(n)
        BY <1>3, <1>5, ToldSets
    <2>4. /\ t \in Seat /\ Fits(t, n, HD(n), RD(n), n \in overtaken', will[n]) /\ Onward(t, s, n)
          /\ n = Minter /\ t.card = "withdrawn" => s.card = "withdrawn"
        <3>1. CASE s.card # "none"
            <4>1. t = s /\ overtaken' = overtaken
                BY <1>5, <2>2, <3>1 DEF ReceiveProposed
            <4> QED BY <1>1, <3>1, <4>1 DEF Onward
        <3>2. CASE s.card = "none"
            <4>1. s.park # {} => n \in overtaken'
                BY <1>5, <3>2
            <4>2. Arrived(t, s, b) /\ Fits(t, n, HD(n), RD(n), n \in overtaken', will[n])
                BY <1>1, <2>2, <3>2, <4>1, ReceiveProposedFits
            <4>3. t \in Seat /\ t.by = b /\ ~t.parkW /\ (s.parkW <=> t.card = "withdrawn")
                BY <4>2 DEF Arrived
            <4> QED BY <1>2, <1>4, <3>2, <4>2, <4>3 DEF Onward, Ended
        <3> QED BY <3>1, <3>2
    <2>5. /\ seat' = [seat EXCEPT ![n] = t] /\ sealed' = sealed /\ e.t # "withdrawn"
          /\ overtaken' = overtaken \/ overtaken' = overtaken \cup {n}
        BY <1>5, <2>1, <2>2
    <2>6. Fits(t, n, HD(n)', RD(n)', n \in overtaken', will[n])
        BY <2>3, <2>4
    <2> QED BY <1>0, <1>2, <2>4, <2>5, <2>6, HandedStep
<1>6. CASE /\ e.t = "declined" /\ e.by = b
           /\ seat' = [seat EXCEPT ![n] = RegisterDecline(s, n, b)]
           /\ UNCHANGED <<sealed, overtaken>>
    <2>1. PICK t : t = RegisterDecline(s, n, b)
        OBVIOUS
    <2>2. HD(n)' = HD(n) \cup {b} /\ RD(n)' = RD(n)
        BY <1>3, <1>6, ToldSets
    <2>3. Fits(t, n, HD(n)', RD(n)', n \in overtaken, will[n])
        BY <1>1, <1>2, <2>1, <2>2, PeerDeclineFits
    <2>4. Declined(t, s, n, b)
        BY <1>1, <2>1, RegisterDeclineFacts
    <2>5. /\ t \in Seat /\ t.by = s.by /\ t.parkW = s.parkW
          /\ t.card = s.card \/ (s.card = "open" /\ t.card \in {"open", "rejected"})
        BY <2>4 DEF Declined
    <2>6. Onward(t, s, n) /\ (t.card = "withdrawn" => s.card = "withdrawn")
        BY <2>5 DEF Onward, Ended
    <2>7. /\ seat' = [seat EXCEPT ![n] = t] /\ sealed' = sealed /\ overtaken' = overtaken /\ e.t # "withdrawn"
        BY <1>6, <2>1
    <2>8. Fits(t, n, HD(n)', RD(n)', n \in overtaken', will[n])
        BY <2>3, <2>7
    <2> QED BY <1>0, <1>2, <2>5, <2>6, <2>7, <2>8, HandedStep
<1>7. CASE /\ e.t = "withdrawn" /\ e.by = b
           /\ seat' = [seat EXCEPT ![n] = RegisterWithdraw(s, b)]
           /\ UNCHANGED <<sealed, overtaken>>
    <2>1. PICK t : t = RegisterWithdraw(s, b)
        OBVIOUS
    <2>2. HD(n)' = HD(n) /\ RD(n)' = RD(n)
        BY <1>3, <1>7, ToldSets
    <2>3. Fits(t, n, HD(n)', RD(n)', n \in overtaken, will[n])
        BY <1>1, <2>1, <2>2, RegisterWithdrawFits
    <2>4. b = Minter
        <3>1. got[n][b] + 1 \in 1 .. Len(log[b])
            <4>1. got[n][b] \in Nat /\ Len(log[b]) \in Nat
                BY TypeFacts DEF IInv
            <4> QED BY <1>2, <4>1
        <3> QED BY <1>0, <1>7, <3>1 DEF IInv, WithdrawalsOK
    <2>5. Pulled(t, s, b)
        BY <1>1, <2>1, RegisterWithdrawFacts
    <2>6. /\ t \in Seat /\ t.by = s.by
          /\ \/ s.card = "none" /\ t.card = "none" /\ t.parkW
             \/ s.card \notin {"none", "open"} /\ t = s
             \/ s.card = "open" /\ t.card = "withdrawn"
        BY <2>4, <2>5 DEF Pulled
    <2>7. s.card \in {"none", "open"} \cup Ended
        BY <1>1 DEF Seat, Card, Ended
    <2>8. Onward(t, s, n) /\ (t.card \in Ended \/ (t.card = "none" /\ t.parkW))
        BY <1>2, <2>4, <2>6, <2>7 DEF Onward, Ended
    <2>9. /\ seat' = [seat EXCEPT ![n] = t] /\ sealed' = sealed /\ overtaken' = overtaken
        BY <1>7, <2>1
    <2>10. Fits(t, n, HD(n)', RD(n)', n \in overtaken', will[n])
        BY <2>3, <2>9
    <2> QED BY <1>0, <1>2, <2>4, <2>6, <2>8, <2>9, <2>10, HandedStep
<1>8. CASE /\ e.t = "approved"
           /\ \E paced \in BOOLEAN :
                 LET c == ClearDecline(s, b, e.by)
                     u == Collect(c, n, e.by, e.h, ApprovalVerifies(c, e.h))
                     t == ReceiveApproval(s, n, b, e.by, e.h, paced)
                 IN  seat' = [seat EXCEPT ![n] = t] /\ SealStep(n, u, t)
           /\ UNCHANGED overtaken
    <2>0. PICK x, h : x = e.by /\ h = e.h
        OBVIOUS
    <2>1. PICK c : c = ClearDecline(s, b, x)
        OBVIOUS
    <2>2. PICK u : u = Collect(c, n, x, h, ApprovalVerifies(c, h))
        OBVIOUS
    <2>3. PICK paced \in BOOLEAN : LET t == ReceiveApproval(s, n, b, x, h, paced)
                                   IN  seat' = [seat EXCEPT ![n] = t] /\ SealStep(n, u, t)
        BY <1>8, <2>0, <2>1, <2>2
    <2>4. PICK t : t = ReceiveApproval(s, n, b, x, h, paced)
        OBVIOUS
    <2>5. /\ HD(n)' = IF x = b THEN HD(n) \ {x} ELSE HD(n)
          /\ RD(n)' = IF x = b THEN RD(n) ELSE RD(n) \cup {x}
          /\ x \in Member /\ h \in Nat
        BY <1>3, <1>8, <2>0, ToldSets
    <2>6. /\ Carried(t, s) /\ Fits(t, n, HD(n)', RD(n)', n \in overtaken, will[n])
          /\ u \in Seat /\ u.card = s.card
          /\ u.card = "open" /\ t.card = "applied" => Fits(u, n, HD(n)', RD(n)', n \in overtaken, will[n])
        <3>1. PICK H, R, H2, R2, late, w :
                H = HD(n) /\ R = RD(n) /\ H2 = HD(n)' /\ R2 = RD(n)' /\ late = (n \in overtaken) /\ w = will[n]
            OBVIOUS
        <3>2. Fits(s, n, H, R, late, w)
            BY <1>1, <3>1
        <3>3. Shifted(H2, R2, H, R, b, x) /\ x \in Member /\ h \in Nat
            BY <2>5, <3>1 DEF Shifted
        <3>5. Ingested(c, u, t, s, n, b, x, h, paced)
            BY <2>1, <2>2, <2>4 DEF Ingested
        <3>6. s \in Seat /\ b # n
            BY <1>1, <1>2
        <3>4. /\ Carried(t, s) /\ Fits(t, n, H2, R2, late, w)
              /\ u \in Seat /\ u.card = s.card
              /\ u.card = "open" /\ t.card = "applied" => Fits(u, n, H2, R2, late, w)
            BY <3>2, <3>3, <3>5, <3>6, ReceiveApprovalFits
        <3> QED BY <3>1, <3>4
    <2>7. Onward(t, s, n) /\ (t.card = "withdrawn" => s.card = "withdrawn") /\ t \in Seat
        <3>1. t \in Seat
            BY <2>6 DEF Carried
        <3> QED BY <1>1, <2>6, <3>1, CarriedOnward
    <2>8. /\ seat' = [seat EXCEPT ![n] = t] /\ SealStep(n, u, t) /\ overtaken' = overtaken /\ e.t # "withdrawn"
        BY <1>8, <2>3, <2>4
    <2>9. /\ Fits(t, n, HD(n)', RD(n)', n \in overtaken', will[n])
          /\ u.card = "open" /\ t.card = "applied" => Fits(u, n, HD(n)', RD(n)', n \in overtaken', will[n])
        BY <2>6, <2>8
    <2> QED BY <1>0, <1>2, <2>6, <2>7, <2>8, <2>9, HandedStep
<1> QED BY <1>0, <1>5, <1>6, <1>7, <1>8 DEF Deliver

-----------------------------------------------------------------------------
(***************************************************************************)
(* The re-serve.                                                           *)
(***************************************************************************)

\* A set of natural numbers has a least element.
LEMMA LeastNat ==
    ASSUME NEW T \in SUBSET Nat, T # {}
    PROVE  \E x \in T : \A y \in T : x <= y
<1>1. PICK x \in T : \A y \in T : ~ (<<y, x>> \in OpToRel(<, Nat))
    BY NatLessThanWellFounded, WFMin
<1>2. \A y \in T : ~ (y < x)
    BY <1>1 DEF OpToRel
<1> QED BY <1>2

\* Some j members of S have names below the others'.
LEMMA LowestSet ==
    ASSUME NEW S \in SUBSET Member, NEW j \in Nat, j <= Cardinality(S)
    PROVE  \E T \in SUBSET S : Cardinality(T) = j /\ \A a \in T, b \in S \ T : a < b
<1>1. IsFiniteSet(S) /\ Cardinality(S) \in Nat
    BY Counting
<1> DEFINE Lowest(T) == \A a \in T, b \in S \ T : a < b
           Bad == {i \in Nat : i <= Cardinality(S)
                               /\ ~ \E T \in SUBSET S : Cardinality(T) = i /\ Lowest(T)}
<1>2. SUFFICES ASSUME j \in Bad PROVE FALSE
    OBVIOUS
<1>3. PICK k \in Bad : \A i \in Bad : k <= i
    BY <1>2, LeastNat
<1>4. k # 0
    <2>1. {} \in SUBSET S /\ Cardinality({}) = 0 /\ Lowest({})
        BY FS_EmptySet
    <2> QED BY <1>3, <2>1
<1>5. k - 1 \in Nat /\ k - 1 <= Cardinality(S) /\ k - 1 \notin Bad
    BY <1>1, <1>3, <1>4
<1>6. PICK T \in SUBSET S : Cardinality(T) = k - 1 /\ Lowest(T)
    BY <1>5
<1>7. S \ T # {}
    BY <1>1, <1>3, <1>6
<1>8. PICK x \in S \ T : \A y \in S \ T : x <= y
    BY <1>7, LeastNat, MemberAssumption
<1>9. T \cup {x} \in SUBSET S /\ Cardinality(T \cup {x}) = k
    <2>1. IsFiniteSet(T)
        BY <1>1, FS_Subset
    <2>2. Cardinality(T \cup {x}) = Cardinality(T) + 1
        BY <1>8, <2>1, FS_AddElement
    <2> QED BY <1>3, <1>6, <1>8, <2>2
<1>10. Lowest(T \cup {x})
    BY <1>6, <1>8, MemberAssumption
<1> QED BY <1>3, <1>9, <1>10

\* InOrder lists members of S.
LEMMA InOrderFacts ==
    ASSUME NEW S \in SUBSET Member
    PROVE  /\ DOMAIN InOrder(S) = 1 .. Cardinality(S) /\ Cardinality(S) \in Nat
           /\ \A i \in 1 .. Cardinality(S) : InOrder(S)[i] \in S
<1>1. IsFiniteSet(S) /\ Cardinality(S) \in Nat
    BY Counting
<1>2. ASSUME NEW i \in 1 .. Cardinality(S) PROVE InOrder(S)[i] \in S
    <2>1. i - 1 \in Nat /\ i - 1 <= Cardinality(S) /\ i - 1 # Cardinality(S)
        BY <1>1
    <2>2. PICK T \in SUBSET S : Cardinality(T) = i - 1 /\ \A a \in T, b \in S \ T : a < b
        BY <2>1, LowestSet
    <2>3. S \ T # {}
        BY <2>1, <2>2
    <2>4. PICK x \in S \ T : \A y \in S \ T : x <= y
        BY <2>3, LeastNat, MemberAssumption
    <2>5. \A y \in S : y < x <=> y \in T
        BY <2>2, <2>4, MemberAssumption
    <2>6. {y \in S : y < x} = T
        BY <2>5
    <2>7. \E z \in S : Cardinality({y \in S : y < z}) = i - 1
        BY <2>2, <2>4, <2>6
    <2> QED BY <2>7 DEF InOrder
<1>3. DOMAIN InOrder(S) = 1 .. Cardinality(S)
    BY DEF InOrder
<1> QED BY <1>1, <1>2, <1>3

\* The signatures a re-serve relays.
LEMMA RelayedFacts ==
    ASSUME NEW S \in SUBSET Member, NEW h \in Nat
    PROVE  LET r == InOrder(S)
               B == [i \in DOMAIN r |-> Approved(r[i], h)]
           IN  /\ B \in Seq(Event)
               /\ \A e \in Items(B) : e.t = "approved" /\ e.by \in S /\ e = Approved(e.by, h)
<1>1. PICK r : r = InOrder(S)
    OBVIOUS
<1>2. PICK k : k = Cardinality(S)
    OBVIOUS
<1>3. k \in Nat /\ DOMAIN r = 1 .. k /\ \A i \in 1 .. k : r[i] \in S
    BY <1>1, <1>2, InOrderFacts
<1>4. PICK B : B = [i \in 1 .. k |-> Approved(r[i], h)]
    OBVIOUS
<1>5. \A i \in 1 .. k : r[i] \in Member
    BY <1>3
<1>6. \A i \in 1 .. k : B[i] \in Event /\ B[i].t = "approved" /\ B[i].by \in S
                         /\ B[i] = Approved(B[i].by, h)
    <2>1. SUFFICES ASSUME NEW i \in 1 .. k
                   PROVE  B[i] \in Event /\ B[i].t = "approved" /\ B[i].by \in S
                          /\ B[i] = Approved(B[i].by, h)
        OBVIOUS
    <2>2. B[i] = Approved(r[i], h)
        BY <1>4
    <2>3. r[i] \in S /\ r[i] \in Member
        BY <1>3, <1>5
    <2>4. \A x \in Member : Approved(x, h) \in Event /\ Approved(x, h).t = "approved" /\ Approved(x, h).by = x
        BY EventFacts
    <2> QED BY <2>2, <2>3, <2>4
<1>7. B \in [1 .. k -> Event]
    BY <1>4, <1>6
<1>8. B \in Seq(Event) /\ Len(B) = k
    BY <1>3, <1>7
<1>9. \A e \in Items(B) : e.t = "approved" /\ e.by \in S /\ e = Approved(e.by, h)
    BY <1>6, <1>8 DEF Items
<1> QED BY <1>1, <1>3, <1>4, <1>8, <1>9

\* The seat a re-serve leaves before the own decline is repeated.
Kept(s, n) ==
    IF s.card = "open" THEN [s EXCEPT !.decl = @ \ s.ver, !.own = @ \/ n \in s.ver] ELSE s

\* It claims no more than before.
LEMMA KeptFits ==
    ASSUME NEW s \in Seat, NEW n \in Member, NEW D, NEW R, NEW late, NEW w,
           Fits(s, n, D, R, late, w)
    PROVE  /\ Kept(s, n) \in Seat /\ Fits(Kept(s, n), n, D, R, late, w)
           /\ Kept(s, n).card = s.card /\ Kept(s, n).by = s.by /\ Kept(s, n).parkW = s.parkW
<1>1. CASE s.card # "open"
    BY <1>1 DEF Kept
<1>2. CASE s.card = "open"
    <2>1. PICK k : k = [s EXCEPT !.decl = @ \ s.ver, !.own = @ \/ n \in s.ver]
        OBVIOUS
    <2>2. Kept(s, n) = k
        BY <1>2, <2>1 DEF Kept
    <2>3. s.decl \ s.ver \in SUBSET Member /\ (s.own \/ n \in s.ver) \in BOOLEAN
        BY DEF Seat
    <2>4. k \in Seat
        BY <2>1, <2>3 DEF Seat
    <2>5. /\ k.card = s.card /\ k.by = s.by /\ k.sh = s.sh /\ k.sigs = s.sigs /\ k.ver = s.ver
          /\ k.park = s.park /\ k.parkW = s.parkW /\ k.head = s.head
          /\ k.decl = s.decl \ s.ver /\ (k.own <=> (s.own \/ n \in s.ver))
        BY <2>1 DEF Seat
    <2>6. Fits(k, n, D, R, late, w)
        BY <1>2, <2>5 DEF Fits, VerHeld
    <2> QED BY <2>2, <2>4, <2>5, <2>6
<1> QED BY <1>1, <1>2

\* A last event that declines.
LEMMA LastEvent ==
    ASSUME NEW L \in Seq(Event), NEW e \in Event
    PROVE  Len(L \o <<e>>) > 0 /\ (L \o <<e>>)[Len(L \o <<e>>)] = e
<1>1. PICK K : K = <<e>>
    OBVIOUS
<1>2. K \in Seq(Event) /\ Len(K) = 1 /\ K[1] = e
    <2>1. <<e>> \in Seq(Event) /\ Len(<<e>>) = 1 /\ <<e>>[1] = e
        OBVIOUS
    <2> QED BY <1>1, <2>1
<1>3. PICK M : M = L \o K
    OBVIOUS
<1>4. /\ Len(L) \in Nat /\ Len(M) = Len(L) + Len(K)
      /\ \A i \in 1 .. Len(K) : M[Len(L) + i] = K[i]
    BY <1>2, <1>3, ConcatFacts
<1>5. Len(M) > 0 /\ M[Len(M)] = e
    BY <1>2, <1>4
<1> QED BY <1>1, <1>3, <1>5

\* Open governance, re-served.
LEMMA ServeInv ==
    ASSUME IInv, NEW n \in Member, ServeOpenGovernance(n)
    PROVE  IInv' /\ SignsStep /\ SealsStep
<1>0. PICK s : s = seat[n]
    OBVIOUS
<1>1. /\ s \in Seat /\ will[n] \in Decision /\ log[n] \in Seq(Event)
      /\ Fits(s, n, HD(n), RD(n), n \in overtaken, will[n])
      /\ Minded(n, will[n]) = HD(n) /\ will = [will EXCEPT ![n] = will[n]]
      /\ (n \in HD(n) <=> will[n] = "decline") /\ votes \in Nat /\ serves \in Nat
    BY <1>0, SeatFacts
<1>2. PICK open \in BOOLEAN : open = (s.card = "open")
    OBVIOUS
<1>3. PICK declines \in BOOLEAN :
            declines = (n \in s.park \/ (n \in s.decl /\ s.card \in {"open", "rejected"}))
    OBVIOUS
<1>4. PICK relayed : relayed = IF open THEN InOrder(s.ver) ELSE <<>>
    OBVIOUS
<1>5. PICK A, B, C, D :
        /\ A = IF open THEN <<Says("proposed", n)>> ELSE <<>>
        /\ B = [i \in DOMAIN relayed |-> Approved(relayed[i], s.sh)]
        /\ C = IF s.card = "withdrawn" /\ s.by = n THEN <<Says("withdrawn", n)>> ELSE <<>>
        /\ D = IF declines THEN <<Says("declined", n)>> ELSE <<>>
    OBVIOUS
<1>6. PICK ev : ev = A \o B \o C \o D
    OBVIOUS
<1>7. PICK t : t = IF declines THEN RegisterDecline(Kept(s, n), n, n) ELSE Kept(s, n)
    OBVIOUS
<1>a. s.card = "open" => s.sigs \cap s.ver = s.ver
    BY <1>1 DEF Fits, VerHeld
<1>8. /\ s.card # "none" /\ serves' = serves + 1 /\ Step(n, t, ev)
      /\ UNCHANGED <<got, sealed, will, votes, overtaken>>
    BY <1>0, <1>2, <1>3, <1>4, <1>5, <1>6, <1>7, <1>a DEF ServeOpenGovernance, Kept
<1>9. declines => n \in s.decl /\ will[n] = "decline" /\ s.card \in {"open", "rejected"}
    BY <1>1, <1>3 DEF Fits
<1>10. /\ t \in Seat /\ Fits(t, n, HD(n), RD(n), n \in overtaken, will[n])
       /\ t.by = s.by /\ t.parkW = s.parkW
       /\ t.card = s.card \/ (s.card = "open" /\ t.card = "rejected")
    <2>1. PICK k : k = Kept(s, n)
        OBVIOUS
    <2>2. /\ k \in Seat /\ Fits(k, n, HD(n), RD(n), n \in overtaken, will[n])
          /\ k.card = s.card /\ k.by = s.by /\ k.parkW = s.parkW
        BY <1>1, <2>1, KeptFits
    <2>3. CASE ~declines
        BY <1>7, <2>1, <2>2, <2>3
    <2>4. CASE declines
        <3>1. t = RegisterDecline(k, n, n)
            BY <1>7, <2>1, <2>4
        <3>2. Declined(t, k, n, n)
            BY <2>2, <3>1, RegisterDeclineFacts
        <3>3. CASE k.card # "open" \/ n \in k.decl
            <4>1. t = k
                BY <1>8, <2>2, <3>1, <3>3 DEF RegisterDecline
            <4> QED BY <2>2, <4>1
        <3>4. CASE k.card = "open" /\ n \notin k.decl
            <4>1. Fits(t, n, HD(n) \cup {n}, RD(n), n \in overtaken, "decline")
                BY <2>2, <3>1, <3>4, OwnDeclineFits
            <4>2. HD(n) \cup {n} = HD(n) /\ will[n] = "decline"
                BY <1>1, <1>9, <2>4
            <4>3. t \in Seat /\ t.by = k.by /\ t.parkW = k.parkW /\ t.card \in {"open", "rejected"}
                BY <3>2, <3>4 DEF Declined
            <4> QED BY <2>2, <3>4, <4>1, <4>2, <4>3
        <3> QED BY <3>3, <3>4
    <2> QED BY <2>3, <2>4
<1>11. A \in Seq(Event) /\ \A e \in Items(A) : e.t = "proposed"
    <2>1. Says("proposed", n) \in Event /\ Says("proposed", n).t = "proposed"
        BY EventFacts
    <2>2. CASE open
        <3>1. A = <<Says("proposed", n)>>
            BY <1>5, <2>2
        <3> QED BY <2>1, <3>1, ItemsFew
    <2>3. CASE ~open
        BY <1>5, <2>3, ItemsFew
    <2> QED BY <2>2, <2>3
<1>12. B \in Seq(Event) /\ \A e \in Items(B) : e.t = "approved" /\ e.by \in s.ver
    <2>1. CASE open
        <3>1. s.ver \in SUBSET Member /\ s.sh \in Nat
            BY <1>1 DEF Seat
        <3>2. relayed = InOrder(s.ver)
            BY <1>4, <2>1
        <3> QED BY <1>5, <3>1, <3>2, RelayedFacts
    <2>2. CASE ~open
        <3>1. relayed = <<>>
            BY <1>4, <2>2
        <3>2. B = <<>>
            BY <1>5, <3>1
        <3> QED BY <3>2, ItemsFew
    <2> QED BY <2>1, <2>2
<1>13. C \in Seq(Event) /\ \A e \in Items(C) : e.t = "withdrawn" /\ n = Minter
    <2>1. Says("withdrawn", n) \in Event /\ Says("withdrawn", n).t = "withdrawn"
        BY EventFacts
    <2>2. CASE s.card = "withdrawn" /\ s.by = n
        <3>1. C = <<Says("withdrawn", n)>>
            BY <1>5, <2>2
        <3>2. n = Minter
            BY <1>0, <2>2 DEF IInv, WithdrawalsOK
        <3> QED BY <2>1, <3>1, <3>2, ItemsFew
    <2>3. CASE ~ (s.card = "withdrawn" /\ s.by = n)
        BY <1>5, <2>3, ItemsFew
    <2> QED BY <2>2, <2>3
<1>14. D \in Seq(Event) /\ \A e \in Items(D) : e.t = "declined" /\ declines
    <2>1. Says("declined", n) \in Event /\ Says("declined", n).t = "declined"
        BY EventFacts
    <2>2. CASE declines
        <3>1. D = <<Says("declined", n)>>
            BY <1>5, <2>2
        <3> QED BY <2>1, <2>2, <3>1, ItemsFew
    <2>3. CASE ~declines
        BY <1>5, <2>3, ItemsFew
    <2> QED BY <2>2, <2>3
<1>15. /\ ev \in Seq(Event) /\ A \o B \o C \in Seq(Event)
       /\ Items(ev) = Items(A) \cup Items(B) \cup Items(C) \cup Items(D)
    <2>1. A \o B \in Seq(Event) /\ Items(A \o B) = Items(A) \cup Items(B)
        BY <1>11, <1>12, ItemsConcat
    <2>2. A \o B \o C \in Seq(Event) /\ Items(A \o B \o C) = Items(A \o B) \cup Items(C)
        BY <1>13, <2>1, ItemsConcat
    <2>3. A \o B \o C \o D \in Seq(Event) /\ Items(A \o B \o C \o D) = Items(A \o B \o C) \cup Items(D)
        BY <1>14, <2>2, ItemsConcat
    <2> QED BY <1>6, <2>1, <2>2, <2>3
<1>16. \A i \in 1 .. Len(ev) : ev[i] \in Items(ev)
    BY DEF Items
<1>17. \A i \in 1 .. Len(ev) : ev[i].t = "approved" /\ ev[i].by = n => will[n] = "approve" \/ n \in RD(n)
    <2>1. n \in s.ver => will[n] = "approve" \/ n \in RD(n)
        BY <1>1 DEF Fits
    <2>2. \A e \in Items(ev) : e.t = "approved" => e.by \in s.ver
        BY <1>11, <1>12, <1>13, <1>14, <1>15
    <2> QED BY <1>16, <2>1, <2>2
<1>18. \A i \in 1 .. Len(ev) : ev[i].t = "withdrawn" => n = Minter
    <2>1. \A e \in Items(ev) : e.t = "withdrawn" => n = Minter
        BY <1>11, <1>12, <1>13, <1>14, <1>15
    <2> QED BY <1>16, <2>1
<1>19. n \in RD(n) \/ (LastIsDecline(log[n] \o ev, Len(log[n] \o ev), n) <=> will[n] = "decline")
    <2>1. CASE declines
        <3>1. PICK e \in Event : e = Says("declined", n) /\ e.t = "declined" /\ e.by = n
            BY EventFacts
        <3>2. ev = (A \o B \o C) \o <<e>>
            BY <1>5, <1>6, <2>1, <3>1
        <3>3. Len(ev) > 0 /\ ev[Len(ev)] = e
            BY <1>15, <3>2, LastEvent
        <3>4. Len(ev) > 0 /\ OwnVoice(ev[Len(ev)], n) /\ ev[Len(ev)].t = "declined"
            BY <3>1, <3>3 DEF OwnVoice
        <3>5. LastIsDecline(log[n] \o ev, Len(log[n] \o ev), n)
            BY <1>1, <1>15, <3>4, LastConcat
        <3> QED BY <1>9, <2>1, <3>5
    <2>2. CASE ~declines
        <3>1. \A i \in 1 .. Len(ev) : OwnVoice(ev[i], n) => ev[i].t = "approved" /\ ev[i].by = n
            <4>1. \A e \in Items(ev) : OwnVoice(e, n) => e.t = "approved" /\ e.by = n
                BY <1>11, <1>12, <1>13, <1>14, <1>15, <2>2 DEF OwnVoice
            <4> QED BY <1>16, <4>1
        <3>2. CASE \E i \in 1 .. Len(ev) : OwnVoice(ev[i], n)
            <4>1. will[n] = "approve" \/ n \in RD(n)
                BY <1>17, <3>1, <3>2
            <4>2. ~LastIsDecline(log[n] \o ev, Len(log[n] \o ev), n)
                BY <1>15, <3>1, <3>2, VoiceApproves
            <4> QED BY <4>1, <4>2
        <3>3. CASE \A i \in 1 .. Len(ev) : ~OwnVoice(ev[i], n)
            BY <1>15, <3>3, VoiceStays
        <3> QED BY <3>2, <3>3
    <2> QED BY <2>1, <2>2
<1>20. Onward(t, seat[n], n) /\ (t.card = "withdrawn" => seat[n].card = "withdrawn")
    BY <1>0, <1>8, <1>10 DEF Onward, Ended
<1>21. log[Minter] # <<>>
    BY <1>0, <1>8, NotBefore
<1>22. PICK w \in Decision : w = will[n]
    BY <1>1
<1>23. /\ will' = [will EXCEPT ![n] = w] /\ Fits(t, n, Minded(n, w), RD(n), n \in overtaken, w)
       /\ n \in RD(n) \/ (LastIsDecline(log[n] \o ev, Len(log[n] \o ev), n) <=> w = "decline")
       /\ \A i \in 1 .. Len(ev) : ev[i].t = "approved" /\ ev[i].by = n => w = "approve" \/ n \in RD(n)
    BY <1>1, <1>8, <1>10, <1>17, <1>19, <1>22
<1>24. /\ got' = got /\ overtaken' = overtaken /\ sealed' = sealed /\ votes' \in Nat /\ serves' \in Nat
    BY <1>1, <1>8
<1> QED BY <1>8, <1>10, <1>15, <1>18, <1>20, <1>21, <1>23, <1>24, QuietStep

-----------------------------------------------------------------------------
(***************************************************************************)
(* The theorems.                                                           *)
(***************************************************************************)

\* Initially.
LEMMA InitInv == ASSUME Init PROVE IInv
<1>1. InitSeat \in Seat
    BY MemberAssumption DEF InitSeat, Seat, Card
<1>2. /\ InitSeat.card = "none" /\ InitSeat.by = Minter /\ InitSeat.decl = {} /\ InitSeat.sh = 0
      /\ InitSeat.sigs = {} /\ InitSeat.ver = {} /\ InitSeat.own = FALSE /\ InitSeat.park = {}
      /\ InitSeat.parkW = FALSE /\ InitSeat.head = 0
    BY DEF InitSeat
<1>3. /\ \A n \in Member : seat[n] = InitSeat /\ log[n] = <<>> /\ will[n] = "none"
      /\ \A n, b \in Member : got[n][b] = 0
      /\ sealed = {} /\ overtaken = {} /\ serves = 0 /\ votes = 0
    BY DEF Init
<1>4. 1 .. 0 = {} /\ Len(<<>>) = 0 /\ <<>> \in Seq(Event)
    OBVIOUS
<1>5. TypeOK
    <2>1. /\ seat \in [Member -> Seat] /\ log \in [Member -> Seq(Event)]
          /\ got \in [Member -> [Member -> Nat]] /\ will \in [Member -> Decision]
        BY <1>1, <1>4 DEF Init, Decision
    <2>2. \A n \in Member : /\ seat[n].card \in {"none", "open"} => seat[n].ver \subseteq seat[n].sigs
                           /\ seat[n].sh <= Target(seat[n])
        BY <1>2, <1>3 DEF Target
    <2> QED BY <1>3, <2>1, <2>2 DEF TypeOK, Seat, Decision
<1>6. LinksOK
    BY <1>3, <1>4 DEF LinksOK
<1>7. \A n \in Member : HD(n) = {} /\ RD(n) = {}
    <2>1. \A n, b \in Member : ~HeardDecline(n, b)
        BY <1>3, <1>4 DEF HeardDecline, Heard
    <2>2. \A n, b \in Member : ~Relayed(n, b)
        BY <1>3, <1>4 DEF Relayed
    <2> QED BY <2>1, <2>2 DEF HD, RD
<1>8. ViewsFit
    <2>1. SUFFICES ASSUME NEW n \in Member
                   PROVE  Fits(InitSeat, n, {}, {}, n \in overtaken, "none")
        BY <1>3, <1>7 DEF ViewsFit
    <2> QED BY <1>2 DEF Fits, VerHeld
<1>9. VoicesTrue
    BY <1>3, <1>4 DEF VoicesTrue, LastIsDecline
<1>10. WithdrawalsOK
    BY <1>2, <1>3, <1>4, MemberAssumption DEF WithdrawalsOK
<1>11. NothingBefore
    BY <1>2, <1>3 DEF NothingBefore
<1> QED BY <1>5, <1>6, <1>8, <1>9, <1>10, <1>11 DEF IInv

\* A step that changes nothing.
LEMMA StutterInv ==
    ASSUME IInv, UNCHANGED vars
    PROVE  IInv' /\ SignsStep /\ SealsStep
<1> USE DEF vars
<1>1. SignsStep /\ SealsStep
    BY DEF SignsStep, SealsStep
<1>2. \A n \in Member : HD(n)' = HD(n) /\ RD(n)' = RD(n)
    BY DEF HD, RD, HeardDecline, Heard, Relayed
<1>3. TypeOK' /\ LinksOK' /\ WithdrawalsOK' /\ NothingBefore'
    BY DEF IInv, TypeOK, LinksOK, WithdrawalsOK, NothingBefore, Target
<1> HIDE DEF HD, RD
<1>4. ViewsFit' /\ VoicesTrue'
    BY <1>2 DEF IInv, ViewsFit, VoicesTrue
<1> QED BY <1>1, <1>3, <1>4 DEF IInv

\* Every step.
LEMMA NextInv ==
    ASSUME IInv, [Next]_vars
    PROVE  IInv' /\ SignsStep /\ SealsStep
<1>1. CASE UNCHANGED vars
    BY <1>1, StutterInv
<1>2. CASE Next
    <2>1. PICK n \in Member :
            \/ Propose(n) \/ CmdApprove(n) \/ CmdDecline(n) \/ CmdWithdraw(n)
            \/ \E b \in Member : Deliver(n, b)
            \/ DrainHeldSeals(n) \/ HeadMoves(n) \/ ReceiveBlock(n) \/ ServeOpenGovernance(n)
        BY <1>2 DEF Next
    <2> QED BY <2>1, ProposeInv, CmdApproveInv, CmdDeclineInv, CmdWithdrawInv, DeliverInv,
               DrainHeldSealsInv, HeadMovesInv, ReceiveBlockInv, ServeInv
<1> QED BY <1>1, <1>2

\* The inductive invariant holds.
THEOREM Invariance == Spec => []IInv
<1>1. Init => IInv
    BY InitInv
<1>2. IInv /\ [Next]_vars => IInv'
    BY NextInv
<1> QED BY <1>1, <1>2, PTL DEF Spec

\* Types are preserved; until the card is over a verdict is only kept on a
\* signature that is held, although the mark is set after collect_sig whatever
\* that did (receive_approval), and no set is bound past the next height.
THEOREM TypeCorrect == Spec => []TypeOK
<1>1. IInv => TypeOK
    BY DEF IInv
<1> QED BY <1>1, Invariance, PTL

\* No seal counts the signature of a member whose decline is the newest word
\* the sealing seat had from it, unless a third seat re-served it.
THEOREM Sealed == Spec => SealedOnStandingVotes
<1>1. IInv /\ [Next]_vars =>
        [\A k \in sealed' \ sealed : \A b \in k.signers :
            HeardDecline(k.by, b)' => Relayed(k.by, b)']_vars
    BY NextInv DEF SealsStep
<1> QED BY <1>1, Invariance, PTL DEF Spec, SealedOnStandingVotes

\* No seat signs what its operator did not decide last, unless a peer
\* re-served to it a signature of its own.
THEOREM Signs == Spec => SignsOnlyItsDecision
<1>1. IInv /\ [Next]_vars =>
        [\A n \in Member : \A i \in DOMAIN log'[n] \ DOMAIN log[n] :
            log'[n][i].t = "approved" /\ log'[n][i].by = n
                => will'[n] = "approve" \/ Relayed(n, n)']_vars
    BY NextInv DEF SignsStep
<1> QED BY <1>1, Invariance, PTL DEF Spec, SignsOnlyItsDecision

\* Once everything is delivered, a seat whose card was there before the votes
\* counts as declining exactly those whose newest decision is a decline.
THEOREM NewestStance == Spec => []NewestStanceKept
<1>1. ASSUME IInv, AllDelivered, NEW n \in Member \ overtaken, NEW b \in Member,
             seat[n].card = "open", ~Relayed(n, b), ~Relayed(b, b)
      PROVE  b \in seat[n].decl <=> will[b] = "decline"
    <2>1. Fits(seat[n], n, HD(n), RD(n), n \in overtaken, will[n])
        BY <1>1, SeatFacts
    <2>2. b \notin RD(n) /\ b \notin RD(b)
        BY <1>1 DEF RD
    <2>3. b \in seat[n].decl <=> b \in HD(n)
        BY <1>1, <2>1, <2>2 DEF Fits
    <2>4. b \in HD(n) <=> will[b] = "decline"
        <3>1. CASE n = b
            BY <3>1 DEF HD, HeardDecline
        <3>2. CASE n # b
            <4>1. got[n][b] = Len(log[b])
                BY <1>1, <3>2 DEF AllDelivered
            <4>2. b \in HD(n) <=> LastIsDecline(log[b], Len(log[b]), b)
                BY <3>2, <4>1, HeardIs DEF HD, HeardDecline, Heard
            <4>3. LastIsDecline(log[b], Len(log[b]), b) <=> will[b] = "decline"
                BY <1>1, <2>2 DEF IInv, VoicesTrue
            <4> QED BY <4>2, <4>3
        <3> QED BY <3>1, <3>2
    <2> QED BY <2>3, <2>4
<1>2. IInv => NewestStanceKept
    BY <1>1 DEF NewestStanceKept
<1> QED BY <1>2, Invariance, PTL

\* Once everything is delivered, nobody holds a withdrawn card open.
THEOREM Withdrawal == Spec => []WithdrawalEndsTheVote
<1>1. ASSUME IInv, AllDelivered, seat[Minter].card = "withdrawn", NEW n \in Member
      PROVE  seat[n].card # "open"
    <2>1. CASE n = Minter
        BY <1>1, <2>1
    <2>2. CASE n # Minter
        <3>1. PICK i \in 1 .. Len(log[Minter]) : log[Minter][i].t = "withdrawn"
            BY <1>1 DEF IInv, WithdrawalsOK
        <3>2. got[n][Minter] = Len(log[Minter])
            BY <1>1, <2>2, MemberAssumption DEF AllDelivered
        <3>3. seat[n].card \in Ended \/ seat[n].card = "none"
            BY <1>1, <3>1, <3>2 DEF IInv, WithdrawalsOK
        <3> QED BY <3>3 DEF Ended
    <2> QED BY <2>1, <2>2
<1>2. IInv => WithdrawalEndsTheVote
    BY <1>1 DEF WithdrawalEndsTheVote
<1> QED BY <1>2, Invariance, PTL

-----------------------------------------------------------------------------
(***************************************************************************)
(* The majority that is there.  Q is what a seat knows that members said   *)
(* for themselves, itself included; R are the members of whom a third seat *)
(* re-served a signature.                                                  *)
(***************************************************************************)

Past(n, b) == IF b = n THEN Len(log[b]) ELSE got[n][b]

Said(n) == {e \in Event : \E i \in 1 .. Past(n, e.by) : log[e.by][i] = e}

\* The proposer's withdrawal.
Pullback == Says("withdrawn", Minter)

\* b has once declined.
Refuses(Q, b) == Says("declined", b) \in Q

\* The signatures whose standing no re-serve has touched.
Firm(s, Q, R) == {b \in s.sigs : b \notin s.decl /\ (b \in R => ~Refuses(Q, b))}

\* A seat that could seal and has no seal waiting has its card after all the
\* signatures: none is its own, and none of the signers has ever declined.
Tried(n, s, Q, R) ==
    s.card = "open" /\ s.sh = s.head + 1 /\ Cardinality(Firm(s, Q, R)) >= RuleM /\ ~s.held
        => \A b \in Firm(s, Q, R) : b # n /\ ~Refuses(Q, b)

Sound(n, s, Q, R) ==
    /\ \A b \in s.decl : Refuses(Q, b)
    /\ \A b \in s.park : Refuses(Q, b)
    /\ s.card = "none" => /\ \A b \in Member : Refuses(Q, b) => b \in s.park
                          /\ \A e \in Q : e.by # n
    /\ s.card = "open" => \A b \in s.sigs : b \in s.decl => b \in R
    /\ \A b \in s.sigs : b \in R \/ Approved(b, s.sh) \in Q
    /\ s.card = "rejected" => Cardinality(s.decl) > VetoRoom
    /\ s.card # "applied"
    /\ \A h \in Nat : Approved(n, h) \in Q => h <= s.head + 1
    /\ s.card = "withdrawn" \/ s.parkW => Pullback \in Q
    /\ Pullback \in Q => s.card \in Ended \/ (s.card = "none" /\ s.parkW)

\* The signature of b for the next height, where s knows of it, is collected,
\* unless b declined or the vote has ended.
Holds(s, Q, b) ==
    Approved(b, s.head + 1) \in Q =>
        Refuses(Q, b) \/ s.card \in Ended \/ (b \in s.sigs /\ s.sh = s.head + 1)

\* Events are told apart by their parts.
LEMMA EventParts ==
    ASSUME NEW e \in Event
    PROVE  /\ e.by \in Member
           /\ e.t \in {"proposed", "declined", "withdrawn", "approved"}
           /\ e.t = "declined" => e = Says("declined", e.by)
           /\ e.t = "withdrawn" => e = Says("withdrawn", e.by)
           /\ e.t = "approved" => e.h \in Nat /\ e = Approved(e.by, e.h)
<1>1. CASE e \in [t : {"proposed", "declined", "withdrawn"}, by : Member]
    BY <1>1 DEF Says
<1>2. CASE e \in [t : {"approved"}, by : Member, h : Nat]
    BY <1>2 DEF Approved
<1> QED BY <1>1, <1>2 DEF Event

\* The parts of what a seat says.
LEMMA SaysParts ==
    /\ \A b : Says("declined", b).t = "declined" /\ Says("declined", b).by = b
    /\ Pullback.t = "withdrawn" /\ Pullback.by = Minter
    /\ \A b, h : /\ Approved(b, h).t = "approved" /\ Approved(b, h).by = b
                 /\ Approved(b, h).h = h
BY DEF Says, Approved, Pullback

\* Fewer firm signatures are no more.
LEMMA FirmFewer ==
    ASSUME NEW A, NEW B \in SUBSET Member, A \subseteq B, Cardinality(A) >= RuleM
    PROVE  Cardinality(B) >= RuleM
<1>1. IsFiniteSet(B) /\ Cardinality(B) \in Nat
    BY Counting
<1>2. Cardinality(A) <= Cardinality(B) /\ IsFiniteSet(A)
    BY <1>1, FS_Subset
<1>3. Cardinality(A) \in Nat
    BY <1>2, FS_CardinalityType
<1> QED BY <1>1, <1>2, <1>3, RuleAssumption

\* Tried is kept where the firm signatures are fewer and nothing else changes
\* for them.
LEMMA TriedFewer ==
    ASSUME NEW n, NEW s \in Seat, NEW t \in Seat, NEW Q, NEW Q2, NEW R, NEW R2,
           Tried(n, s, Q, R), t.card = "open" => s.card = "open",
           t.sh = s.sh, t.head = s.head, s.held => t.held,
           Firm(t, Q2, R2) \subseteq Firm(s, Q, R),
           \A b \in Firm(t, Q2, R2) : Refuses(Q2, b) => Refuses(Q, b)
    PROVE  Tried(n, t, Q2, R2)
<1>1. SUFFICES ASSUME t.card = "open", t.sh = t.head + 1, Cardinality(Firm(t, Q2, R2)) >= RuleM,
                      ~t.held
               PROVE  \A b \in Firm(t, Q2, R2) : b # n /\ ~Refuses(Q2, b)
    BY DEF Tried
<1>2. PICK A : A = Firm(t, Q2, R2)
    OBVIOUS
<1>3. PICK B : B = Firm(s, Q, R)
    OBVIOUS
<1>4. B \in SUBSET Member
    BY <1>3 DEF Firm, Seat
<1>5. Cardinality(B) >= RuleM
    BY <1>1, <1>2, <1>3, <1>4, FirmFewer
<1>6. \A b \in B : b # n /\ ~Refuses(Q, b)
    BY <1>1, <1>3, <1>5 DEF Tried
<1> QED BY <1>2, <1>3, <1>6

\* More is said, and no decline among it.
LEMMA MoreSaid ==
    ASSUME NEW n \in Member, NEW s \in Seat, NEW Q, NEW Q2, NEW R, NEW R2,
           Sound(n, s, Q, R), Tried(n, s, Q, R), Q \subseteq Q2, R \subseteq R2,
           \A e \in Q2 \ Q : e.t # "declined",
           s.card = "none" => \A e \in Q2 \ Q : e.by # n,
           \A h \in Nat : Approved(n, h) \in Q2 \ Q => h <= s.head + 1,
           Pullback \in Q2 \ Q => s.card \in Ended
    PROVE  /\ Sound(n, s, Q2, R2) /\ Tried(n, s, Q2, R2)
           /\ \A b : Refuses(Q2, b) <=> Refuses(Q, b)
           /\ \A b : Approved(b, s.head + 1) \notin Q2 \ Q /\ Holds(s, Q, b) => Holds(s, Q2, b)
<1>1. \A b : Refuses(Q2, b) <=> Refuses(Q, b)
    BY SaysParts DEF Refuses
<1>2. Sound(n, s, Q2, R2)
    <2>1. s.card = "none" => /\ \A b \in Member : Refuses(Q2, b) => b \in s.park
                             /\ \A e \in Q2 : e.by # n
        BY <1>1 DEF Sound
    <2>2. \A h \in Nat : Approved(n, h) \in Q2 => h <= s.head + 1
        BY DEF Sound
    <2> QED BY <1>1, <2>1, <2>2 DEF Sound
<1>3. Firm(s, Q2, R2) \subseteq Firm(s, Q, R)
    BY <1>1 DEF Firm
<1>4. Tried(n, s, Q2, R2)
    BY <1>1, <1>3, TriedFewer
<1>5. \A b : Approved(b, s.head + 1) \notin Q2 \ Q /\ Holds(s, Q, b) => Holds(s, Q2, b)
    BY <1>1 DEF Holds
<1> QED BY <1>1, <1>2, <1>4, <1>5

\* A clear of declines frees no firm signature.
LEMMA ClearUse ==
    ASSUME NEW n \in Member, NEW s \in Seat, NEW Q, NEW R, NEW X, NEW t \in Seat,
           Sound(n, s, Q, R), s.card = "open",
           t.decl = s.decl \ X, t.card = s.card, t.sh = s.sh, t.sigs = s.sigs,
           t.park = s.park, t.parkW = s.parkW, t.head = s.head, t.held = s.held
    PROVE  /\ Sound(n, t, Q, R)
           /\ Tried(n, s, Q, R) => Tried(n, t, Q, R)
           /\ \A b : Holds(s, Q, b) => Holds(t, Q, b)
<1>1. Sound(n, t, Q, R)
    BY DEF Sound
<1>2. Firm(t, Q, R) \subseteq Firm(s, Q, R)
    BY DEF Firm, Sound
<1>3. Tried(n, s, Q, R) => Tried(n, t, Q, R)
    BY <1>2, TriedFewer
<1>4. \A b : Holds(s, Q, b) => Holds(t, Q, b)
    BY DEF Holds
<1> QED BY <1>1, <1>3, <1>4

\* The seal is tried: it waits, or there is nothing to seal.
LEMMA TryUse ==
    ASSUME NEW n \in Member, NEW u \in Seat, NEW Q, NEW R, NEW paced \in BOOLEAN, NEW t,
           t = TryCommit(u, paced), Sound(n, u, Q, R), t.card # "applied"
    PROVE  /\ t \in Seat /\ Sound(n, t, Q, R) /\ Tried(n, t, Q, R) /\ t.head = u.head
           /\ \A b : Holds(u, Q, b) => Holds(t, Q, b)
           /\ t.sh = u.sh /\ t.sigs = u.sigs /\ t.ver = u.ver /\ t.card = u.card /\ t.decl = u.decl
<1>1. CASE ~Sealable(u)
    <2>1. t = u
        BY <1>1 DEF TryCommit
    <2>2. Tried(n, u, Q, R)
        <3>1. SUFFICES ASSUME u.card = "open", u.sh = u.head + 1, Cardinality(Firm(u, Q, R)) >= RuleM
                       PROVE  FALSE
            BY DEF Tried
        <3>2. PICK A : A = Firm(u, Q, R)
            OBVIOUS
        <3>3. PICK B : B = Counted(u)
            OBVIOUS
        <3>4. A \subseteq B /\ B \in SUBSET Member
            BY <3>2, <3>3 DEF Firm, Counted, Seat
        <3>5. Cardinality(B) >= RuleM
            BY <3>1, <3>2, <3>4, FirmFewer
        <3> QED BY <1>1, <3>1, <3>3, <3>5 DEF Sealable, Target
    <2> QED BY <2>1, <2>2
<1>2. CASE Sealable(u) /\ ~paced
    <2>1. t = [u EXCEPT !.held = TRUE]
        BY <1>2 DEF TryCommit
    <2>2. /\ t \in Seat /\ t.card = u.card /\ t.decl = u.decl /\ t.sh = u.sh /\ t.sigs = u.sigs
          /\ t.park = u.park /\ t.parkW = u.parkW /\ t.head = u.head /\ t.held = TRUE
          /\ t.ver = u.ver
        BY <2>1 DEF Seat
    <2>3. Sound(n, t, Q, R)
        BY <2>2 DEF Sound
    <2>4. Tried(n, t, Q, R)
        BY <2>2 DEF Tried
    <2>5. \A b : Holds(u, Q, b) => Holds(t, Q, b)
        BY <2>2 DEF Holds
    <2> QED BY <2>2, <2>3, <2>4, <2>5
<1>3. CASE Sealable(u) /\ paced
    <2>1. t = [u EXCEPT !.card = "applied", !.head = @ + 1,
                        !.sh = 0, !.sigs = {}, !.ver = {}, !.held = FALSE]
        BY <1>3 DEF TryCommit
    <2>2. t.card = "applied"
        BY <2>1 DEF Seat
    <2> QED BY <2>2
<1> QED BY <1>1, <1>2, <1>3

\* What Collect leaves alone, and when.
LEMMA CollectExactly ==
    ASSUME NEW s \in Seat, NEW n \in Member, NEW b \in Member, NEW h \in Nat,
           NEW v \in BOOLEAN, NEW t, t = Collect(s, n, b, h, v), v => h = s.head + 1
    PROVE  /\ t \in Seat
           /\ t.card = s.card /\ t.decl = s.decl /\ t.park = s.park /\ t.held = s.held
           /\ t.parkW = s.parkW /\ t.head = s.head
           /\ \/ /\ t.sh = s.sh /\ t.sigs = s.sigs
                 /\ s.card \in Ended \/ (b = n /\ ~v) \/ h < s.sh \/ (h = s.sh /\ b \in s.ver)
              \/ t.sh = h /\ h >= s.sh /\ t.sigs = (IF h > s.sh THEN {} ELSE s.sigs) \cup {b}
<1>1. Collected(t, s, n, b, h, v)
    BY CollectFacts
<1>2. /\ t \in Seat
      /\ t.card = s.card /\ t.decl = s.decl /\ t.park = s.park /\ t.held = s.held
      /\ t.parkW = s.parkW /\ t.head = s.head
    BY <1>1 DEF Collected
<1>3. s.card \notin {"none", "open"} => s.card \in Ended
    BY DEF Seat, Card, Ended
<1>4. s.sh \in Nat
    BY DEF Seat
<1>5. PICK c : c = CollectSig(s, n, b, h, v)
    OBVIOUS
<1>6. CASE \/ s.card \notin {"none", "open"} \/ (b = n /\ ~v) \/ h < s.sh
           \/ (h = s.sh /\ b \in s.ver /\ ~v)
    <2>1. c = s
        BY <1>5, <1>6 DEF CollectSig
    <2>2. t = s \/ t = [s EXCEPT !.ver = @ \cup {b}]
        BY <1>5, <2>1 DEF Collect, MarkVerified
    <2>3. t.sh = s.sh /\ t.sigs = s.sigs
        BY <2>2 DEF Seat
    <2> QED BY <1>2, <1>3, <1>6, <2>3
<1>7. CASE ~ (\/ s.card \notin {"none", "open"} \/ (b = n /\ ~v) \/ h < s.sh
              \/ (h = s.sh /\ b \in s.ver /\ ~v))
    <2> DEFINE keep == IF h > s.sh THEN {} ELSE s.sigs
               mark == IF h > s.sh THEN {} ELSE s.ver \ {b}
    <2>1. c = [s EXCEPT !.sh = h, !.sigs = keep \cup {b}, !.ver = mark]
        BY <1>5, <1>7 DEF CollectSig
    <2> HIDE DEF keep, mark
    <2>2. t = c \/ t = [c EXCEPT !.ver = @ \cup {b}]
        BY <1>5 DEF Collect, MarkVerified
    <2>3. t.sh = h /\ t.sigs = keep \cup {b}
        BY <2>1, <2>2 DEF Seat
    <2>4. h >= s.sh
        BY <1>4, <1>7
    <2> QED BY <1>2, <2>3, <2>4 DEF keep
<1> QED BY <1>6, <1>7

\* A signature to collect: it was said or re-served, and its author does not
\* decline.
Collectable(t, n, s, Q, R, b, h, v) ==
    /\ t = Collect(s, n, b, h, v) /\ Sound(n, s, Q, R) /\ (v => h = s.head + 1)
    /\ h <= s.head + 1 /\ s.sh <= s.head + 1 /\ VerHeld(s)
    /\ b \in R \/ Approved(b, h) \in Q
    /\ s.card = "open" => b \notin s.decl \/ b \in R

\* A signature that is collected is one that was said or re-served.
LEMMA CollectUse ==
    ASSUME NEW n \in Member, NEW s \in Seat, NEW Q, NEW R, NEW b \in Member, NEW h \in Nat,
           NEW v \in BOOLEAN, NEW t, Collectable(t, n, s, Q, R, b, h, v)
    PROVE  /\ t \in Seat /\ Sound(n, t, Q, R) /\ t.head = s.head /\ t.card = s.card
           /\ \A x : Holds(s, Q, x) => Holds(t, Q, x)
           /\ h = s.head + 1 /\ (b = n => v) => Holds(t, Q, b)
           /\ t.decl = s.decl
<1> USE DEF Collectable
<1>1. /\ t \in Seat
      /\ t.card = s.card /\ t.decl = s.decl /\ t.park = s.park /\ t.held = s.held
      /\ t.parkW = s.parkW /\ t.head = s.head
      /\ \/ /\ t.sh = s.sh /\ t.sigs = s.sigs
            /\ s.card \in Ended \/ (b = n /\ ~v) \/ h < s.sh \/ (h = s.sh /\ b \in s.ver)
         \/ t.sh = h /\ h >= s.sh /\ t.sigs = (IF h > s.sh THEN {} ELSE s.sigs) \cup {b}
    BY CollectExactly
<1>2. s.sh \in Nat /\ s.head \in Nat
    BY DEF Seat
<1>3. CASE /\ t.sh = s.sh /\ t.sigs = s.sigs
           /\ s.card \in Ended \/ (b = n /\ ~v) \/ h < s.sh \/ (h = s.sh /\ b \in s.ver)
    <2>1. h = s.head + 1 /\ (b = n => v) => Holds(t, Q, b)
        <3>1. s.card \in {"none", "open"} \/ s.card \in Ended
            BY DEF Seat, Card, Ended
        <3>2. CASE s.card \in Ended
            BY <1>1, <3>2 DEF Holds
        <3>3. CASE s.card \in {"none", "open"}
            <4>1. b \in s.ver => b \in s.sigs
                BY <3>3 DEF VerHeld
            <4> QED BY <1>1, <1>2, <1>3, <4>1 DEF Holds
        <3> QED BY <3>1, <3>2, <3>3
    <2>2. Sound(n, t, Q, R)
        BY <1>1, <1>3 DEF Sound
    <2>3. \A x : Holds(s, Q, x) => Holds(t, Q, x)
        BY <1>1, <1>3 DEF Holds
    <2> QED BY <1>1, <2>1, <2>2, <2>3
<1>4. CASE t.sh = h /\ h >= s.sh /\ t.sigs = (IF h > s.sh THEN {} ELSE s.sigs) \cup {b}
    <2>1. \A x \in t.sigs : x = b \/ (x \in s.sigs /\ t.sh = s.sh)
        BY <1>2, <1>4
    <2>2. \A x \in t.sigs : x \in R \/ Approved(x, t.sh) \in Q
        BY <1>4, <2>1 DEF Sound
    <2>3. t.card = "open" => \A x \in t.sigs : x \in t.decl => x \in R
        BY <1>1, <2>1 DEF Sound
    <2>4. Sound(n, t, Q, R)
        BY <1>1, <2>2, <2>3 DEF Sound
    <2>5. ASSUME NEW x, Holds(s, Q, x) PROVE Holds(t, Q, x)
        <3>1. SUFFICES ASSUME x \in s.sigs, s.sh = s.head + 1
                       PROVE  x \in t.sigs /\ t.sh = t.head + 1
            BY <1>1, <2>5 DEF Holds
        <3> QED BY <1>1, <1>2, <1>4, <3>1
    <2>6. h = s.head + 1 => Holds(t, Q, b)
        BY <1>1, <1>4 DEF Holds
    <2> QED BY <1>1, <2>4, <2>5, <2>6
<1> QED BY <1>1, <1>3, <1>4

\* The seat may sign.
Signable(t, n, s, Q, R) ==
    /\ t = Sign(s, n) /\ Sound(n, s, Q, R) /\ s.sh <= s.head + 1 /\ VerHeld(s)
    /\ Approved(n, s.head + 1) \in Q
    /\ s.card = "open" => n \notin s.decl \/ n \in R

\* The seat's own signature.
LEMMA SignUse ==
    ASSUME NEW n \in Member, NEW s \in Seat, NEW Q, NEW R, NEW t, Signable(t, n, s, Q, R)
    PROVE  /\ t \in Seat /\ Sound(n, t, Q, R) /\ t.head = s.head /\ t.card = s.card
           /\ \A x : Holds(s, Q, x) => Holds(t, Q, x)
           /\ Holds(t, Q, n)
<1>0. /\ t = Sign(s, n) /\ Sound(n, s, Q, R) /\ s.sh <= s.head + 1 /\ VerHeld(s)
      /\ Approved(n, s.head + 1) \in Q
      /\ s.card = "open" => n \notin s.decl \/ n \in R
    BY DEF Signable
<1>1. PICK q : q = [s EXCEPT !.own = TRUE]
    OBVIOUS
<1>2. /\ q \in Seat /\ q.card = s.card /\ q.decl = s.decl /\ q.sh = s.sh /\ q.sigs = s.sigs
      /\ q.ver = s.ver /\ q.park = s.park /\ q.parkW = s.parkW /\ q.head = s.head
      /\ q.held = s.held
    BY <1>1 DEF Seat
<1>3. Sound(n, q, Q, R)
    BY <1>0, <1>2 DEF Sound
<1>4. PICK h \in Nat : h = s.head + 1
    BY DEF Seat
<1>5. PICK v \in BOOLEAN : v = TRUE
    OBVIOUS
<1>6. PICK b \in Member : b = n
    OBVIOUS
<1>7. t = Collect(q, n, n, h, v)
    BY <1>0, <1>1, <1>4, <1>5 DEF Sign, Target
<1>8. /\ t \in Seat /\ Sound(n, t, Q, R) /\ t.head = q.head /\ t.card = q.card
      /\ \A x : Holds(q, Q, x) => Holds(t, Q, x)
      /\ h = q.head + 1 /\ (b = n => v) => Holds(t, Q, b)
    <2>1. h <= q.head + 1 /\ q.sh <= q.head + 1 /\ VerHeld(q)
        BY <1>0, <1>2, <1>4 DEF Seat, VerHeld
    <2>2. n \in R \/ Approved(n, h) \in Q
        BY <1>0, <1>4
    <2>3. q.card = "open" => n \notin q.decl \/ n \in R
        BY <1>0, <1>2
    <2>4. Collectable(t, n, q, Q, R, b, h, v)
        BY <1>2, <1>4, <1>6, <1>3, <1>7, <2>1, <2>2, <2>3 DEF Collectable
    <2> QED BY <1>2, <2>4, CollectUse
<1>9. \A x : Holds(s, Q, x) => Holds(q, Q, x)
    BY <1>2 DEF Holds
<1> QED BY <1>2, <1>4, <1>8, <1>9, <1>5, <1>6

\* The voice of b is heard.
Declining(t, n, s, b, Q, Q2, R) ==
    /\ t = RegisterDecline(s, n, b) /\ Sound(n, s, Q, R) /\ Tried(n, s, Q, R)
    /\ Q2 = Q \cup {Says("declined", b)}
    /\ s.card = "none" => b # n

\* A voice is parked or counted.
LEMMA DeclineUse ==
    ASSUME NEW n \in Member, NEW s \in Seat, NEW b \in Member, NEW Q, NEW Q2, NEW R, NEW t,
           Declining(t, n, s, b, Q, Q2, R)
    PROVE  /\ t \in Seat /\ Sound(n, t, Q2, R) /\ Tried(n, t, Q2, R) /\ t.head = s.head
           /\ \A x : Holds(s, Q, x) => Holds(t, Q2, x)
<1> USE DEF Declining
<1>1. \A x : Refuses(Q2, x) <=> Refuses(Q, x) \/ x = b
    BY SaysParts DEF Refuses
<1>2. /\ \A x, h : Approved(x, h) \in Q2 <=> Approved(x, h) \in Q
      /\ Pullback \in Q2 <=> Pullback \in Q
    BY SaysParts
<1>3. Declined(t, s, n, b)
    BY RegisterDeclineFacts
<1>4. t \in Seat /\ t.sh = s.sh /\ t.head = s.head /\ t.parkW = s.parkW
    BY <1>3 DEF Declined
<1>5. CASE s.card = "none"
    <2>1. t = [s EXCEPT !.park = @ \cup {b}]
        BY <1>5 DEF RegisterDecline
    <2>2. /\ t.card = s.card /\ t.park = s.park \cup {b} /\ t.decl = s.decl /\ t.sigs = s.sigs
          /\ t.held = s.held
        BY <2>1 DEF Seat
    <2>3. \A e \in Q2 : e.by # n
        BY <1>5, SaysParts DEF Sound
    <2>4. Sound(n, t, Q2, R)
        BY <1>1, <1>2, <1>4, <1>5, <2>2, <2>3 DEF Sound
    <2>5. Tried(n, t, Q2, R)
        BY <1>5, <2>2 DEF Tried
    <2>6. \A x : Holds(s, Q, x) => Holds(t, Q2, x)
        BY <1>1, <1>2, <1>4, <2>2 DEF Holds
    <2> QED BY <1>4, <2>4, <2>5, <2>6
<1>6. CASE s.card # "none" /\ (s.card # "open" \/ b \in s.decl)
    <2>1. t = s
        BY <1>6 DEF RegisterDecline
    <2>2. Sound(n, t, Q2, R)
        BY <1>1, <1>2, <1>6, <2>1 DEF Sound
    <2>3. Tried(n, t, Q2, R)
        <3>1. CASE s.card # "open"
            BY <2>1, <3>1 DEF Tried
        <3>2. CASE b \in s.decl
            <4>1. Firm(t, Q2, R) \subseteq Firm(s, Q, R)
                BY <1>1, <2>1 DEF Firm
            <4>2. \A x \in Firm(t, Q2, R) : Refuses(Q2, x) => Refuses(Q, x)
                BY <1>1, <2>1, <3>2 DEF Firm
            <4> QED BY <2>1, <4>1, <4>2, TriedFewer
        <3> QED BY <1>6, <3>1, <3>2
    <2>4. \A x : Holds(s, Q, x) => Holds(t, Q2, x)
        BY <1>1, <1>2, <2>1 DEF Holds
    <2> QED BY <1>4, <2>2, <2>3, <2>4
<1>7. CASE s.card = "open" /\ b \notin s.decl
    <2> DEFINE d == s.decl \cup {b}
               c == IF Cardinality(d) > VetoRoom THEN "rejected" ELSE "open"
    <2>1. t = [s EXCEPT !.decl = d, !.sigs = @ \ {b}, !.ver = @ \ {b}, !.own = @ /\ b # n, !.card = c]
        BY <1>7 DEF RegisterDecline
    <2>2. c \in {"open", "rejected"} /\ (c = "rejected" => Cardinality(d) > VetoRoom)
        OBVIOUS
    <2>3. \A x : x \in d <=> x \in s.decl \/ x = b
        OBVIOUS
    <2> HIDE DEF c, d
    <2>4. t.card = c /\ t.decl = d /\ t.sigs = s.sigs \ {b} /\ t.park = s.park /\ t.held = s.held
        BY <2>1 DEF Seat
    <2>5. Sound(n, t, Q2, R)
        BY <1>1, <1>2, <1>4, <1>7, <2>2, <2>3, <2>4 DEF Sound, Ended
    <2>6. Firm(t, Q2, R) \subseteq Firm(s, Q, R)
        BY <1>1, <2>3, <2>4 DEF Firm
    <2>7. \A x \in Firm(t, Q2, R) : Refuses(Q2, x) => Refuses(Q, x)
        BY <1>1, <2>4 DEF Firm
    <2>8. Tried(n, t, Q2, R)
        BY <1>4, <1>7, <2>4, <2>6, <2>7, TriedFewer
    <2>9. \A x : Holds(s, Q, x) => Holds(t, Q2, x)
        BY <1>1, <1>2, <1>4, <1>7, <2>4 DEF Holds, Ended
    <2> QED BY <1>4, <2>5, <2>8, <2>9
<1> QED BY <1>5, <1>6, <1>7

\* The withdrawal ends the vote or waits for the card.
LEMMA WithdrawUse ==
    ASSUME NEW n \in Member, NEW s \in Seat, NEW Q, NEW Q2, NEW R, NEW b, NEW t, b = Minter,
           t = RegisterWithdraw(s, b), Sound(n, s, Q, R), Tried(n, s, Q, R),
           Q2 = Q \cup {Pullback}, s.card = "none" => Minter # n
    PROVE  /\ t \in Seat /\ Sound(n, t, Q2, R) /\ Tried(n, t, Q2, R) /\ t.head = s.head
           /\ \A x : Holds(s, Q, x) => Holds(t, Q2, x)
<1>0. /\ \A x : Refuses(Q2, x) <=> Refuses(Q, x)
      /\ \A x, h : Approved(x, h) \in Q2 <=> Approved(x, h) \in Q
    BY SaysParts DEF Refuses
<1>1. Pulled(t, s, b)
    BY RegisterWithdrawFacts
<1>2. t \in Seat /\ t.decl = s.decl /\ t.head = s.head
    BY <1>1 DEF Pulled
<1>3. CASE s.card = "none"
    <2>1. t = [s EXCEPT !.parkW = TRUE]
        BY <1>3 DEF RegisterWithdraw
    <2>2. /\ t.card = s.card /\ t.park = s.park /\ t.sigs = s.sigs /\ t.sh = s.sh /\ t.held = s.held
          /\ t.parkW
        BY <2>1 DEF Seat
    <2>3. \A e \in Q2 : e.by # n
        BY <1>3, SaysParts DEF Sound
    <2>4. Sound(n, t, Q2, R)
        BY <1>0, <1>2, <1>3, <2>2, <2>3 DEF Sound
    <2>5. Tried(n, t, Q2, R)
        BY <1>3, <2>2 DEF Tried
    <2>6. \A x : Holds(s, Q, x) => Holds(t, Q2, x)
        BY <1>0, <1>2, <2>2 DEF Holds
    <2> QED BY <1>2, <2>4, <2>5, <2>6
<1>4. CASE s.card \notin {"none", "open"}
    <2>1. t = s
        BY <1>4 DEF RegisterWithdraw
    <2>2. s.card \in Ended
        BY <1>4 DEF Seat, Card, Ended
    <2>3. Sound(n, t, Q2, R)
        BY <1>0, <1>4, <2>1, <2>2 DEF Sound
    <2>4. Tried(n, t, Q2, R)
        BY <1>4, <2>1 DEF Tried
    <2>5. \A x : Holds(t, Q2, x)
        BY <2>1, <2>2 DEF Holds
    <2> QED BY <1>2, <2>3, <2>4, <2>5
<1>5. CASE s.card = "open"
    <2>1. t.card = "withdrawn" /\ t.sigs = {} /\ t.park = {}
        BY <1>1, <1>5 DEF Pulled
    <2>2. Sound(n, t, Q2, R)
        BY <1>0, <1>2, <2>1 DEF Sound, Ended
    <2>3. Tried(n, t, Q2, R)
        BY <2>1 DEF Tried
    <2>4. \A x : Holds(t, Q2, x)
        BY <2>1 DEF Holds, Ended
    <2> QED BY <1>2, <2>2, <2>3, <2>4
<1> QED BY <1>3, <1>4, <1>5

\* A card that is new here: what waited for it is taken in, the seal is not
\* tried.
LEMMA ProposedUse ==
    ASSUME NEW n \in Member, NEW s \in Seat, NEW from \in Member, NEW D \in DrainOrders(s),
           NEW Q, NEW R, NEW H, NEW late, NEW w, Fits(s, n, H, R, late, w),
           Sound(n, s, Q, R), Tried(n, s, Q, R), NEW t, t = ReceiveProposed(s, n, from, D)
    PROVE  /\ t \in Seat /\ Sound(n, t, Q, R) /\ Tried(n, t, Q, R) /\ t.head = s.head
           /\ \A x : Holds(s, Q, x) => Holds(t, Q, x)
<1>1. CASE s.card # "none"
    <2>1. t = s
        BY <1>1 DEF ReceiveProposed
    <2> QED BY <2>1
<1>2. CASE s.card = "none"
    <2>1. PICK k : k = Known(s, from)
        OBVIOUS
    <2>2. PICK p : p = IF s.parkW THEN RegisterWithdraw([k EXCEPT !.parkW = FALSE], Minter) ELSE k
        OBVIOUS
    <2>3. t = RegisterParkedDeclines(p, n, D)
        BY <1>2, <2>1, <2>2 DEF ReceiveProposed, Known
    <2>4. D \in SUBSET Member /\ D \subseteq s.park
        BY DEF DrainOrders, Seat
    <2>5. /\ k \in Seat /\ k.card = "open" /\ k.decl = s.decl /\ k.sh = s.sh /\ k.sigs = s.sigs
          /\ k.park = s.park /\ k.parkW = s.parkW /\ k.head = s.head
        <3>1. s.ver = {}
            BY <1>2 DEF Fits
        <3> QED BY <2>1, <3>1, KnownFacts
    <2>6. s.parkW \in BOOLEAN /\ s.decl = {} /\ n \notin s.sigs
        BY <1>2 DEF Seat, Fits
    <2>7. CASE s.parkW
        <3>1. PICK j : j = [k EXCEPT !.parkW = FALSE]
            OBVIOUS
        <3>2. j \in Seat /\ j.card = "open" /\ j.decl = {} /\ j.head = s.head
            BY <2>5, <2>6, <3>1 DEF Seat
        <3>3. p = RegisterWithdraw(j, Minter)
            BY <2>2, <2>7, <3>1
        <3>4. Pulled(p, j, Minter)
            BY <3>2, <3>3, RegisterWithdrawFacts
        <3>5. p \in Seat /\ p.decl = {} /\ p.head = s.head /\ p.card = "withdrawn" /\ p.sigs = {}
            BY <3>2, <3>4 DEF Pulled
        <3>6. Drained(t, p, n, D)
            BY <2>3, <2>4, <3>5, ParkedFacts
        <3>7. /\ t \in Seat /\ t.head = s.head /\ t.park = {}
              /\ t.card = "withdrawn" /\ t.decl = {} /\ t.sigs = {}
            BY <3>5, <3>6 DEF Drained
        <3>8. Pullback \in Q
            BY <2>7 DEF Sound
        <3>9. Sound(n, t, Q, R)
            BY <3>7, <3>8 DEF Sound, Ended
        <3>10. Tried(n, t, Q, R)
            BY <3>7 DEF Tried
        <3>11. \A x : Holds(t, Q, x)
            BY <3>7 DEF Holds, Ended
        <3> QED BY <3>7, <3>9, <3>10, <3>11
    <2>8. CASE ~s.parkW
        <3>1. p = k
            BY <2>2, <2>8
        <3>2. Drained(t, k, n, D)
            BY <2>3, <2>4, <2>5, <3>1, ParkedFacts
        <3>3. /\ t \in Seat /\ t.sh = s.sh /\ t.parkW = s.parkW /\ t.head = s.head /\ t.park = {}
              /\ t.decl = D /\ t.sigs = s.sigs \ D
              /\ t.card = IF Cardinality(D) > VetoRoom THEN "rejected" ELSE "open"
            BY <2>5, <3>2 DEF Drained
        <3>4. t.card = "open" => D = s.park
            <4>1. Cardinality(D) \in Nat /\ VetoRoom \in Nat
                BY <2>4, Counting
            <4> QED BY <3>3, <4>1 DEF DrainOrders
        <3>5. t.card \in {"open", "rejected"} /\ (t.card = "rejected" => Cardinality(t.decl) > VetoRoom)
            BY <3>3
        <3>6. \A b \in D : Refuses(Q, b)
            BY <2>4 DEF Sound
        <3>7. Pullback \notin Q
            BY <1>2, <2>8 DEF Sound, Ended
        <3>8. Sound(n, t, Q, R)
            BY <2>8, <3>3, <3>5, <3>6, <3>7 DEF Sound
        <3>9. Tried(n, t, Q, R)
            <4>1. ASSUME t.card = "open", NEW b \in Firm(t, Q, R) PROVE b # n /\ ~Refuses(Q, b)
                <5>1. b \in s.sigs /\ b \notin s.park
                    BY <3>3, <3>4, <4>1 DEF Firm
                <5>2. b \in Member
                    BY <5>1 DEF Seat
                <5> QED BY <1>2, <2>6, <5>1, <5>2 DEF Sound
            <4> QED BY <4>1 DEF Tried
        <3>10. \A x : Holds(s, Q, x) => Holds(t, Q, x)
            BY <1>2, <3>3, <3>6 DEF Holds, Ended
        <3> QED BY <3>3, <3>8, <3>9, <3>10
    <2> QED BY <2>6, <2>7, <2>8
<1> QED BY <1>1, <1>2

\* What an approval of b over the link of from adds to what is known.
Learns(Q2, R2, Q, R, from, b, h) ==
    /\ Q2 = IF b = from THEN Q \cup {Approved(b, h)} ELSE Q
    /\ R2 = IF b = from THEN R ELSE R \cup {b}

\* The ingest of an approval of b over the link of from.
LEMMA ApprovalUse ==
    ASSUME NEW n \in Member, NEW s \in Seat, NEW from \in Member, NEW b \in Member, NEW h \in Nat,
           NEW paced \in BOOLEAN, NEW Q, NEW Q2, NEW R, NEW R2, NEW H, NEW late, NEW w,
           Fits(s, n, H, R, late, w), Sound(n, s, Q, R), Tried(n, s, Q, R),
           NEW c, NEW u, NEW t, Ingested(c, u, t, s, n, from, b, h, paced), from # n,
           Learns(Q2, R2, Q, R, from, b, h), t.card # "applied"
    PROVE  /\ t \in Seat /\ Sound(n, t, Q2, R2) /\ Tried(n, t, Q2, R2) /\ t.head = s.head
           /\ \A x : Holds(s, Q, x) => Holds(t, Q2, x)
<1>0. /\ c = ClearDecline(s, from, b)
      /\ u = Collect(c, n, b, h, ApprovalVerifies(c, h))
      /\ t = ReceiveApproval(s, n, from, b, h, paced)
    BY DEF Ingested
<1>1. \A e \in Q2 \ Q : e = Approved(b, h) /\ b = from /\ e.t = "approved" /\ e.by = b /\ e.h = h
    BY SaysParts DEF Learns
<1>2. /\ Sound(n, s, Q2, R2) /\ Tried(n, s, Q2, R2)
      /\ \A x : Approved(x, s.head + 1) \notin Q2 \ Q /\ Holds(s, Q, x) => Holds(s, Q2, x)
    <2>1. Q \subseteq Q2 /\ R \subseteq R2
        BY DEF Learns
    <2>2. \A e \in Q2 \ Q : e.t # "declined" /\ e.by # n
        BY <1>1
    <2>3. \A k \in Nat : Approved(n, k) \in Q2 \ Q => k <= s.head + 1
        BY <2>2, SaysParts
    <2>4. Pullback \notin Q2 \ Q
        BY <1>1, SaysParts
    <2> QED BY <2>1, <2>2, <2>3, <2>4, MoreSaid
<1>3. s.sh \in Nat /\ s.head \in Nat /\ s.sh <= s.head + 1 /\ VerHeld(s)
    BY DEF Seat, Fits
<1>4. /\ c \in Seat /\ Sound(n, c, Q2, R2) /\ Tried(n, c, Q2, R2)
      /\ \A x : Holds(s, Q2, x) => Holds(c, Q2, x)
      /\ c.head = s.head /\ c.sh = s.sh /\ c.sigs = s.sigs /\ c.ver = s.ver /\ c.card = s.card
      /\ c.card = "open" /\ b = from => b \notin c.decl
    <2>1. CASE b = from /\ s.card = "open"
        <3>1. c = [s EXCEPT !.decl = @ \ {b}]
            BY <1>0, <2>1 DEF ClearDecline
        <3>2. /\ c \in Seat /\ c.decl = s.decl \ {b} /\ c.card = s.card /\ c.sh = s.sh
              /\ c.sigs = s.sigs /\ c.ver = s.ver /\ c.park = s.park /\ c.parkW = s.parkW
              /\ c.head = s.head /\ c.held = s.held
            BY <3>1 DEF Seat
        <3>3. PICK X : X = {b}
            OBVIOUS
        <3>4. c.decl = s.decl \ X
            BY <3>2, <3>3
        <3>5. /\ Sound(n, c, Q2, R2) /\ Tried(n, c, Q2, R2)
              /\ \A x : Holds(s, Q2, x) => Holds(c, Q2, x)
            BY <1>2, <2>1, <3>2, <3>4, ClearUse
        <3> QED BY <3>2, <3>5
    <2>2. CASE ~ (b = from /\ s.card = "open")
        <3>1. c = s
            BY <1>0, <2>2 DEF ClearDecline
        <3> QED BY <1>2, <2>2, <3>1
    <2> QED BY <2>1, <2>2
<1>5. PICK z : z = IF h > Target(s) THEN c ELSE TryCommit(u, paced)
    OBVIOUS
<1>6. t = IF Landed(z, b, h) THEN ApplyApproved(z, b) ELSE z
    BY <1>0, <1>5 DEF ReceiveApproval
<1>7. Target(s) = s.head + 1
    BY DEF Target
<1>8. CASE h > s.head + 1
    <2>1. z = c
        BY <1>5, <1>7, <1>8
    <2>2. ~Landed(z, b, h)
        BY <1>3, <1>4, <1>8, <2>1 DEF Landed
    <2>3. t = c
        BY <1>6, <2>1, <2>2
    <2>4. \A x : Approved(x, s.head + 1) \notin Q2 \ Q
        <3>1. \A x : Approved(x, s.head + 1).h = s.head + 1
            BY SaysParts
        <3> QED BY <1>1, <1>3, <1>8, <3>1
    <2> QED BY <1>2, <1>4, <2>3, <2>4
<1>9. CASE ~ (h > s.head + 1)
    <2>1. z = TryCommit(u, paced)
        BY <1>5, <1>7, <1>9
    <2>2. PICK v \in BOOLEAN : v = ApprovalVerifies(c, h)
        BY DEF ApprovalVerifies
    <2>3. u = Collect(c, n, b, h, v)
        BY <1>0, <2>2
    <2>4. h <= c.head + 1 /\ c.sh <= c.head + 1 /\ VerHeld(c)
        BY <1>3, <1>4, <1>9 DEF VerHeld
    <2>5. b \in R2 \/ Approved(b, h) \in Q2
        BY DEF Learns
    <2>6. c.card = "open" => b \notin c.decl \/ b \in R2
        BY <1>4 DEF Learns
    <2>7. /\ u \in Seat /\ Sound(n, u, Q2, R2) /\ u.head = c.head /\ u.card = c.card
          /\ \A x : Holds(c, Q2, x) => Holds(u, Q2, x)
          /\ h = c.head + 1 /\ (b = n => v) => Holds(u, Q2, b)
        <3>1. Collectable(u, n, c, Q2, R2, b, h, v)
            <4>1. v => h = c.head + 1
                BY <2>2 DEF ApprovalVerifies, Target
            <4> QED BY <1>4, <2>3, <2>4, <2>5, <2>6, <4>1 DEF Collectable
        <3> QED BY <1>4, <3>1, CollectUse
    <2>8. \A x : Holds(s, Q, x) => Holds(u, Q2, x)
        <3>1. SUFFICES ASSUME NEW x, Holds(s, Q, x) PROVE Holds(u, Q2, x)
            OBVIOUS
        <3>2. CASE Approved(x, s.head + 1) \notin Q2 \ Q
            BY <1>2, <1>4, <2>7, <3>1, <3>2
        <3>3. CASE Approved(x, s.head + 1) \in Q2 \ Q
            <4>1. Approved(x, s.head + 1).by = x /\ Approved(x, s.head + 1).h = s.head + 1
                BY SaysParts
            <4>2. x = b /\ h = s.head + 1 /\ b = from
                BY <1>1, <3>3, <4>1
            <4> QED BY <1>4, <2>7, <4>2
        <3> QED BY <3>2, <3>3
    <2>9. z.card # "applied"
        <3>1. CASE Landed(z, b, h) /\ z.card = "open"
            BY <3>1
        <3>2. CASE ~ (Landed(z, b, h) /\ z.card = "open")
            BY <1>6, <3>2 DEF ApplyApproved
        <3> QED BY <3>1, <3>2
    <2>10. /\ z \in Seat /\ Sound(n, z, Q2, R2) /\ Tried(n, z, Q2, R2) /\ z.head = u.head
           /\ \A x : Holds(u, Q2, x) => Holds(z, Q2, x)
        BY <2>1, <2>7, <2>9, TryUse
    <2>11. CASE Landed(z, b, h) /\ z.card = "open"
        <3>1. t = [z EXCEPT !.decl = @ \ {b}]
            BY <1>6, <2>11 DEF ApplyApproved
        <3>2. /\ t \in Seat /\ t.decl = z.decl \ {b} /\ t.card = z.card /\ t.sh = z.sh
              /\ t.sigs = z.sigs /\ t.ver = z.ver /\ t.park = z.park /\ t.parkW = z.parkW
              /\ t.head = z.head /\ t.held = z.held
            BY <2>10, <3>1 DEF Seat
        <3>3. PICK X : X = {b}
            OBVIOUS
        <3>4. t.decl = z.decl \ X
            BY <3>2, <3>3
        <3>5. /\ Sound(n, t, Q2, R2) /\ Tried(n, t, Q2, R2)
              /\ \A x : Holds(z, Q2, x) => Holds(t, Q2, x)
            BY <2>10, <2>11, <3>2, <3>4, ClearUse
        <3> QED BY <1>4, <2>7, <2>8, <2>10, <3>2, <3>5
    <2>12. CASE ~ (Landed(z, b, h) /\ z.card = "open")
        <3>1. t = z
            BY <1>6, <2>12 DEF ApplyApproved
        <3> QED BY <1>4, <2>7, <2>8, <2>10, <3>1
    <2> QED BY <2>11, <2>12
<1> QED BY <1>8, <1>9

\* The seat says that it signs.
Saying(u, n, p, Q, Q2, R) ==
    /\ u = Sign(p, n) /\ Sound(n, p, Q, R) /\ p.card = "open"
    /\ p.sh <= p.head + 1 /\ VerHeld(p)
    /\ n \notin p.decl \/ n \in R
    /\ Q2 = Q \cup {Approved(n, p.head + 1)}

\* A seat that signs says so.
LEMMA SaysAndSigns ==
    ASSUME NEW n \in Member, NEW p \in Seat, NEW Q, NEW Q2, NEW R, NEW u, Saying(u, n, p, Q, Q2, R)
    PROVE  /\ u \in Seat /\ Sound(n, u, Q2, R) /\ u.head = p.head /\ u.card = p.card
           /\ \A x : Holds(p, Q, x) => Holds(u, Q2, x)
           /\ Holds(u, Q2, n)
<1>0. Q2 = Q \cup {Approved(n, p.head + 1)} /\ Sound(n, p, Q, R)
    BY DEF Saying
<1>1. \A e \in Q2 \ Q : e = Approved(n, p.head + 1)
    BY <1>0
<1>2. \A x, h : Approved(x, h) \in Q2 => Approved(x, h) \in Q \/ (x = n /\ h = p.head + 1)
    <2>1. \A x, h : Approved(x, h).by = x /\ Approved(x, h).h = h
        BY SaysParts
    <2> QED BY <1>1, <2>1
<1>3. /\ \A x : Refuses(Q2, x) <=> Refuses(Q, x)
      /\ Pullback \in Q2 <=> Pullback \in Q
    BY <1>0, <1>1, SaysParts DEF Refuses
<1>4. p.head \in Nat
    BY DEF Seat
<1>5. \A h \in Nat : Approved(n, h) \in Q2 => h <= p.head + 1
    BY <1>0, <1>2, <1>4 DEF Sound
<1>6. \A x \in p.sigs : x \in R \/ Approved(x, p.sh) \in Q2
    BY <1>0 DEF Sound
<1>7. Sound(n, p, Q2, R)
    BY <1>0, <1>3, <1>5, <1>6 DEF Sound, Saying
<1>8. Signable(u, n, p, Q2, R)
    BY <1>0, <1>7 DEF Saying, Signable
<1>9. /\ u \in Seat /\ Sound(n, u, Q2, R) /\ u.head = p.head /\ u.card = p.card
      /\ \A x : Holds(p, Q2, x) => Holds(u, Q2, x)
      /\ Holds(u, Q2, n)
    BY <1>8, SignUse
<1>10. \A x : x # n /\ Holds(p, Q, x) => Holds(p, Q2, x)
    BY <1>2, <1>3 DEF Holds
<1> QED BY <1>9, <1>10

\* The seat a foreign block leaves before the seal is tried.
Moved(n, s0, s, swept, again, u) ==
    /\ s = [s0 EXCEPT !.head = @ + 1]
    /\ swept = [s EXCEPT !.sh = 0, !.sigs = {}, !.ver = {}]
    /\ again = (s.sh > 0 /\ s.own /\ s.card = "open")
    /\ u = IF again THEN Sign(swept, n) ELSE IF s.sh > 0 THEN swept ELSE s

\* A foreign block: the seat that signs again collects its own signature for
\* the new height, one that does not has none.
LEMMA MoveUse ==
    ASSUME NEW n \in Member, NEW s0 \in Seat, NEW Q, NEW Q2, NEW R, NEW H, NEW late, NEW w,
           Fits(s0, n, H, R, late, w), Sound(n, s0, Q, R),
           NEW s, NEW swept, NEW again \in BOOLEAN, NEW u, Moved(n, s0, s, swept, again, u),
           Q2 = IF again THEN Q \cup {Approved(n, s.head + 1)} ELSE Q
    PROVE  /\ u \in Seat /\ Sound(n, u, Q2, R) /\ u.head = s0.head + 1 /\ Holds(u, Q2, n)
           /\ u.card = s0.card
<1>1. s0.head \in Nat /\ s0.sh \in Nat /\ s0.sh <= s0.head + 1 /\ VerHeld(s0)
    BY DEF Seat, Fits
<1>2. /\ s \in Seat /\ s.card = s0.card /\ s.decl = s0.decl /\ s.sh = s0.sh /\ s.ver = s0.ver
      /\ s.sigs = s0.sigs /\ s.own = s0.own /\ s.park = s0.park /\ s.parkW = s0.parkW
      /\ s.head = s0.head + 1 /\ s.held = s0.held
    BY <1>1 DEF Seat, Moved
<1>3. /\ swept \in Seat /\ swept.card = s.card /\ swept.decl = s.decl /\ swept.sh = 0
      /\ swept.sigs = {} /\ swept.ver = {} /\ swept.own = s.own /\ swept.park = s.park
      /\ swept.parkW = s.parkW /\ swept.head = s.head
    BY <1>2 DEF Seat, Moved
<1>4. \A h \in Nat : Approved(n, h) \in Q => h <= s0.head + 1 /\ h <= s.head + 1
    BY <1>1, <1>2 DEF Sound
<1>5. Sound(n, s, Q, R)
    BY <1>2, <1>4 DEF Sound
<1>6. Sound(n, swept, Q, R)
    BY <1>3, <1>5 DEF Sound
<1>7. s.head + 1 \in Nat /\ s.head + 1 > s0.head + 1
    BY <1>1, <1>2
<1>8. CASE again
    <2>1. Q2 = Q \cup {Approved(n, s.head + 1)}
        BY <1>8
    <2>2. n \notin swept.decl \/ n \in R
        <3>1. s0.own
            BY <1>2, <1>8 DEF Moved
        <3> QED BY <1>2, <1>3, <3>1 DEF Fits
    <2>3. u = Sign(swept, n)
        BY <1>8 DEF Moved
    <2>4. swept.card = "open"
        BY <1>3, <1>8 DEF Moved
    <2>5. Q2 = Q \cup {Approved(n, swept.head + 1)}
        BY <1>3, <2>1
    <2>6. swept.sh <= swept.head + 1 /\ VerHeld(swept)
        BY <1>1, <1>2, <1>3 DEF VerHeld
    <2>7. Saying(u, n, swept, Q, Q2, R)
        BY <1>6, <2>2, <2>3, <2>4, <2>5, <2>6 DEF Saying
    <2>8. u \in Seat /\ Sound(n, u, Q2, R) /\ u.head = swept.head /\ u.card = swept.card
          /\ Holds(u, Q2, n)
        <3>1. swept \in Seat
            BY <1>3
        <3> QED BY <3>1, <2>7, SaysAndSigns
    <2> QED BY <1>2, <1>3, <2>8
<1>9. CASE ~again
    <2>1. u = swept \/ u = s
        BY <1>9 DEF Moved
    <2>2. Q2 = Q
        BY <1>9
    <2>3. u \in Seat /\ Sound(n, u, Q, R) /\ u.head = s.head /\ u.card = s.card
        BY <1>2, <1>3, <1>5, <1>6, <2>1
    <2>4. Approved(n, u.head + 1) \notin Q
        BY <1>1, <1>4, <1>7, <2>3
    <2> QED BY <1>2, <2>2, <2>3, <2>4 DEF Holds
<1> QED BY <1>8, <1>9

\* The re-serve of n, which says Q1 \ Q for itself, but for its decline.
Serving(k, n, s, Q, Q1, R) ==
    /\ k = Kept(s, n) /\ Sound(n, s, Q, R) /\ Tried(n, s, Q, R) /\ s.card # "none"
    /\ s.sh <= s.head + 1 /\ VerHeld(s)
    /\ Q \subseteq Q1
    /\ \A e \in Q1 \ Q :
            \/ e.t = "proposed"
            \/ e = Approved(n, s.sh) /\ n \in s.ver /\ s.card = "open"
            \/ e.t = "withdrawn" /\ s.card = "withdrawn"

\* The re-serve keeps what the seat must keep.
LEMMA KeptUse ==
    ASSUME NEW n \in Member, NEW s \in Seat, NEW Q, NEW Q1, NEW R, NEW k,
           Serving(k, n, s, Q, Q1, R)
    PROVE  /\ k \in Seat /\ Sound(n, k, Q1, R) /\ Tried(n, k, Q1, R) /\ k.head = s.head
           /\ \A x : Holds(s, Q, x) => Holds(k, Q1, x)
           /\ k.card = s.card
<1>0. /\ k = Kept(s, n) /\ Sound(n, s, Q, R) /\ Tried(n, s, Q, R) /\ s.card # "none"
      /\ s.sh <= s.head + 1 /\ VerHeld(s)
      /\ Q \subseteq Q1
      /\ \A e \in Q1 \ Q :
            \/ e.t = "proposed"
            \/ e = Approved(n, s.sh) /\ n \in s.ver /\ s.card = "open"
            \/ e.t = "withdrawn" /\ s.card = "withdrawn"
    BY DEF Serving
<1>1. s.sh \in Nat /\ s.head \in Nat /\ s.sh <= s.head + 1 /\ VerHeld(s)
    BY <1>0 DEF Seat
<1>2. /\ Sound(n, s, Q1, R) /\ Tried(n, s, Q1, R)
      /\ \A x : Approved(x, s.head + 1) \notin Q1 \ Q /\ Holds(s, Q, x) => Holds(s, Q1, x)
    <2>1. \A e \in Q1 \ Q : e.t # "declined"
        BY <1>0, SaysParts
    <2>2. \A h \in Nat : Approved(n, h) \in Q1 \ Q => h <= s.head + 1
        <3>1. \A h \in Nat : Approved(n, h).h = h /\ Approved(n, h).t = "approved"
            BY SaysParts
        <3>2. Approved(n, s.sh).h = s.sh
            BY SaysParts
        <3>3. SUFFICES ASSUME NEW h \in Nat, Approved(n, h) \in Q1 \ Q PROVE h <= s.head + 1
            OBVIOUS
        <3>4. Approved(n, h) = Approved(n, s.sh)
            BY <1>0, <3>1, <3>3
        <3>5. h = s.sh
            BY <3>1, <3>2, <3>4
        <3> QED BY <1>1, <3>5
    <2>3. Pullback \in Q1 \ Q => s.card \in Ended
        BY <1>0, SaysParts DEF Ended
    <2> QED BY <1>0, <2>1, <2>2, <2>3, MoreSaid DEF VerHeld
<1>3. \A x : Holds(s, Q, x) => Holds(s, Q1, x)
    <2>1. SUFFICES ASSUME NEW x, Holds(s, Q, x), Approved(x, s.head + 1) \in Q1 \ Q
                   PROVE  Holds(s, Q1, x)
        BY <1>2
    <2>2. /\ Approved(x, s.head + 1).t = "approved" /\ Approved(x, s.head + 1).by = x
          /\ Approved(x, s.head + 1).h = s.head + 1
          /\ Approved(n, s.sh).by = n /\ Approved(n, s.sh).h = s.sh
        BY SaysParts
    <2>3. Approved(x, s.head + 1) = Approved(n, s.sh) /\ n \in s.ver /\ s.card = "open"
        BY <1>0, <2>1, <2>2
    <2>4. x = n /\ s.sh = s.head + 1 /\ n \in s.sigs
        BY <1>1, <2>2, <2>3 DEF VerHeld
    <2> QED BY <2>4 DEF Holds
<1>4. CASE s.card = "open"
    <2>1. k = [s EXCEPT !.decl = @ \ s.ver, !.own = @ \/ n \in s.ver]
        BY <1>0, <1>4 DEF Kept
    <2>2. s.decl \ s.ver \in SUBSET Member /\ (s.own \/ n \in s.ver) \in BOOLEAN
        BY DEF Seat
    <2>3. k \in Seat
        BY <2>1, <2>2 DEF Seat
    <2>4. /\ k.card = s.card /\ k.sh = s.sh /\ k.sigs = s.sigs /\ k.park = s.park
          /\ k.parkW = s.parkW /\ k.head = s.head /\ k.held = s.held /\ k.decl = s.decl \ s.ver
        BY <2>1 DEF Seat
    <2>5. PICK X : X = s.ver
        OBVIOUS
    <2>6. k.decl = s.decl \ X
        BY <2>4, <2>5
    <2>7. /\ Sound(n, k, Q1, R) /\ Tried(n, k, Q1, R) /\ \A x : Holds(s, Q1, x) => Holds(k, Q1, x)
        BY <1>2, <1>4, <2>3, <2>4, <2>6, ClearUse
    <2> QED BY <1>3, <2>3, <2>4, <2>7
<1>5. CASE s.card # "open"
    <2>1. k = s
        BY <1>0, <1>5 DEF Kept
    <2> QED BY <1>2, <1>3, <2>1
<1> QED BY <1>4, <1>5

\* What the seats know, and the steps that change it: every seat is sound and
\* has tried its seal, and of any seats at one height there is one that holds
\* the signatures of all of them for the next.
Worthy(n) == Sound(n, seat[n], Said(n), RD(n)) /\ Tried(n, seat[n], Said(n), RD(n))

Gathered ==
    \A S \in SUBSET Member :
        S # {} /\ (\A x, y \in S : seat[x].head = seat[y].head) =>
            \E a \in S : \A b \in S : Holds(seat[a], Said(a), b)

Used == sealed = {} => (\A n \in Member : Worthy(n)) /\ Gathered

\* The other seats learn nothing.
OthersSame(n) == \A m \in Member : m # n => Said(m)' = Said(m) /\ RD(m)' = RD(m)

\* A seat says ev: it knows what it said for itself.
LEMMA SaidLocal ==
    ASSUME IInv, NEW n \in Member, NEW ev \in Seq(Event),
           log' = [log EXCEPT ![n] = @ \o ev], got' = got
    PROVE  /\ \A e : e \in Said(n)' <=> e \in Said(n) \/ (e \in Items(ev) /\ e.by = n)
           /\ RD(n)' = RD(n) /\ OthersSame(n)
<1>1. Grown(n, ev)
    BY GrownLog DEF IInv
<1>2. /\ \A b \in Member : Len(log[b]) \in Nat /\ Len(log'[b]) \in Nat /\ Len(log[b]) <= Len(log'[b])
      /\ \A b \in Member : \A i \in 1 .. Len(log[b]) : log'[b][i] = log[b][i]
      /\ \A b \in Member : b # n => log'[b] = log[b]
      /\ Len(log'[n]) = Len(log[n]) + Len(ev) /\ Len(ev) \in Nat
      /\ \A i \in 1 .. Len(ev) : log'[n][Len(log[n]) + i] = ev[i]
      /\ \A i \in 1 .. Len(log'[n]) : i \in 1 .. Len(log[n])
             \/ (i - Len(log[n]) \in 1 .. Len(ev) /\ log'[n][i] = ev[i - Len(log[n])])
    BY <1>1 DEF Grown
<1>3. \A m, b \in Member : got[m][b] \in Nat /\ got[m][b] <= Len(log[b])
    BY TypeFacts DEF IInv, LinksOK
<1>4. \A m, b \in Member : \A i \in 1 .. got[m][b] : log'[b][i] = log[b][i]
    <2>1. \A m, b \in Member : \A i \in 1 .. got[m][b] : i \in 1 .. Len(log[b])
        BY <1>2, <1>3
    <2> QED BY <1>2, <2>1
<1>5. \A m \in Member : RD(m)' = RD(m)
    BY <1>2, ToldSame
<1>6. ASSUME NEW m \in Member, NEW e \in Event, e.by # n \/ m # n
      PROVE  e \in Said(m)' <=> e \in Said(m)
    <2>1. e.by \in Member
        BY EventParts
    <2>2. CASE e.by = m
        <3>1. log'[e.by] = log[e.by]
            BY <1>2, <1>6, <2>1, <2>2
        <3> QED BY <2>2, <3>1 DEF Said, Past
    <2>3. CASE e.by # m
        BY <1>4, <2>1, <2>3 DEF Said, Past
    <2> QED BY <2>2, <2>3
<1>7. \A m \in Member : m # n => Said(m)' = Said(m)
    <2>1. SUFFICES ASSUME NEW m \in Member, m # n PROVE Said(m)' = Said(m)
        OBVIOUS
    <2>2. \A e \in Event : e \in Said(m)' <=> e \in Said(m)
        BY <1>6, <2>1
    <2>3. (\A e \in Said(m)' : e \in Event) /\ (\A e \in Said(m) : e \in Event)
        BY DEF Said
    <2> QED BY <2>2, <2>3
<1>8. \A e \in Items(ev) : e \in Event
    BY DEF Items
<1>9. ASSUME NEW e \in Event, e.by = n
      PROVE  e \in Said(n)' <=> e \in Said(n) \/ e \in Items(ev)
    <2>1. ASSUME e \in Said(n)' PROVE e \in Said(n) \/ e \in Items(ev)
        <3>1. PICK i \in 1 .. Len(log'[n]) : log'[n][i] = e
            BY <1>9, <2>1 DEF Said, Past
        <3>2. CASE i \in 1 .. Len(log[n])
            BY <1>2, <1>9, <3>1, <3>2 DEF Said, Past
        <3>3. CASE i - Len(log[n]) \in 1 .. Len(ev) /\ log'[n][i] = ev[i - Len(log[n])]
            BY <3>1, <3>3 DEF Items
        <3> QED BY <1>2, <3>1, <3>2, <3>3
    <2>2. ASSUME e \in Said(n) PROVE e \in Said(n)'
        <3>1. PICK i \in 1 .. Len(log[n]) : log[n][i] = e
            BY <1>9, <2>2 DEF Said, Past
        <3>2. i \in 1 .. Len(log'[n]) /\ log'[n][i] = e
            BY <1>2, <3>1
        <3> QED BY <1>9, <3>2 DEF Said, Past
    <2>3. ASSUME e \in Items(ev) PROVE e \in Said(n)'
        <3>1. PICK i \in 1 .. Len(ev) : ev[i] = e
            BY <2>3 DEF Items
        <3>2. Len(log[n]) + i \in 1 .. Len(log'[n]) /\ log'[n][Len(log[n]) + i] = e
            BY <1>2, <3>1
        <3> QED BY <1>9, <3>2 DEF Said, Past
    <2> QED BY <2>1, <2>2, <2>3
<1>10. (\A e \in Said(n)' : e \in Event) /\ (\A e \in Said(n) : e \in Event)
    BY DEF Said
<1>11. \A e : e \in Said(n)' <=> e \in Said(n) \/ (e \in Items(ev) /\ e.by = n)
    BY <1>6, <1>8, <1>9, <1>10
<1> QED BY <1>5, <1>7, <1>11 DEF OthersSame

\* The next event of b is handed to n.
Handed(n, b, e) ==
    /\ n # b /\ got[n][b] < Len(log[b]) /\ e = log[b][got[n][b] + 1]
    /\ got' = [got EXCEPT ![n][b] = @ + 1] /\ log' = log

\* The next event of b is known if b says it for itself.
LEMMA SaidHanded ==
    ASSUME IInv, NEW n \in Member, NEW b \in Member, NEW e, Handed(n, b, e)
    PROVE  /\ \A x : x \in Said(n)' <=> x \in Said(n) \/ (x = e /\ e.by = b)
           /\ e \in Event /\ OthersSame(n)
<1>0. /\ n # b /\ got[n][b] < Len(log[b]) /\ e = log[b][got[n][b] + 1]
      /\ got' = [got EXCEPT ![n][b] = @ + 1] /\ log' = log
    BY DEF Handed
<1>1. log \in [Member -> Seq(Event)] /\ got \in [Member -> [Member -> Nat]]
    BY TypeFacts DEF IInv
<1>2. got[n][b] \in Nat /\ Len(log[b]) \in Nat
    BY <1>1
<1>3. e \in Event
    BY <1>0, <1>1, <1>2
<1>4. /\ \A m \in Member : m # n => got'[m] = got[m]
      /\ \A c \in Member : c # b => got'[n][c] = got[n][c]
      /\ got'[n][b] = got[n][b] + 1
    BY <1>0, <1>1
<1>5. OthersSame(n)
    <2>1. SUFFICES ASSUME NEW m \in Member, m # n PROVE Said(m)' = Said(m) /\ RD(m)' = RD(m)
        BY DEF OthersSame
    <2>2. got'[m] = got[m]
        BY <1>4, <2>1
    <2>3. RD(m)' = RD(m)
        BY <1>0, <2>2 DEF RD, Relayed
    <2>4. Said(m)' = Said(m)
        BY <1>0, <2>2 DEF Said, Past
    <2> QED BY <2>3, <2>4
<1>6. \A i : i \in 1 .. got'[n][b] <=> i \in 1 .. got[n][b] \/ i = got[n][b] + 1
    BY <1>0, <1>2, <1>4
<1>7. ASSUME NEW x \in Event PROVE x \in Said(n)' <=> x \in Said(n) \/ (x = e /\ e.by = b)
    <2>1. x.by \in Member
        BY EventParts
    <2>2. CASE x.by # b
        <3>1. Past(n, x.by)' = Past(n, x.by)
            BY <1>0, <1>4, <2>1, <2>2 DEF Past
        <3> QED BY <1>0, <2>2, <3>1 DEF Said
    <2>3. CASE x.by = b
        BY <1>0, <1>6, <2>3 DEF Said, Past
    <2> QED BY <2>2, <2>3
<1>8. (\A x \in Said(n)' : x \in Event) /\ (\A x \in Said(n) : x \in Event)
    BY DEF Said
<1> QED BY <1>3, <1>5, <1>7, <1>8

\* What seat n, in state s and knowing Q, must keep when it goes to t.
Keeps(t, n, s, Q, Q2, R2) ==
    /\ t \in Seat /\ Sound(n, t, Q2, R2) /\ Tried(n, t, Q2, R2) /\ t.head = s.head
    /\ \A x : Holds(s, Q, x) => Holds(t, Q2, x)

\* A step of seat n.
LEMMA UsedStep ==
    ASSUME IInv, Used, sealed = {}, NEW n \in Member, NEW s, NEW t, NEW Q, NEW Q2, NEW R2,
           seat' = [seat EXCEPT ![n] = t], OthersSame(n),
           s = seat[n], Q = Said(n), Q2 = Said(n)', R2 = RD(n)', Keeps(t, n, s, Q, Q2, R2)
    PROVE  Used'
<1>1. seat \in [Member -> Seat]
    BY TypeFacts DEF IInv
<1>2. seat'[n] = t /\ \A m \in Member : m # n => seat'[m] = seat[m]
    BY <1>1
<1>3. (\A m \in Member : Worthy(m)) /\ Gathered
    BY DEF Used
<1>4. ASSUME NEW m \in Member PROVE Worthy(m)'
    <2>1. CASE m = n
        BY <1>2, <2>1 DEF Keeps, Worthy
    <2>2. CASE m # n
        <3>1. seat'[m] = seat[m] /\ Said(m)' = Said(m) /\ RD(m)' = RD(m)
            BY <1>2, <2>2 DEF OthersSame
        <3>2. Sound(m, seat[m], Said(m), RD(m)) /\ Tried(m, seat[m], Said(m), RD(m))
            BY <1>3 DEF Worthy
        <3> QED BY <3>1, <3>2 DEF Worthy
    <2> QED BY <2>1, <2>2
<1>5. \A m \in Member : seat'[m].head = seat[m].head
    BY <1>2 DEF Keeps
<1>6. ASSUME NEW a \in Member, NEW x, Holds(seat[a], Said(a), x) PROVE Holds(seat'[a], Said(a)', x)
    <2>1. CASE a = n
        BY <1>2, <1>6, <2>1 DEF Keeps
    <2>2. CASE a # n
        <3>1. seat'[a] = seat[a] /\ Said(a)' = Said(a)
            BY <1>2, <2>2 DEF OthersSame
        <3> QED BY <1>6, <3>1
    <2> QED BY <2>1, <2>2
<1>7. Gathered'
    <2>1. SUFFICES ASSUME NEW S \in SUBSET Member, S # {}, \A x, y \in S : seat'[x].head = seat'[y].head
                   PROVE  \E a \in S : \A b \in S : Holds(seat'[a], Said(a)', b)
        BY DEF Gathered
    <2>2. \A x, y \in S : seat[x].head = seat[y].head
        BY <1>5, <2>1
    <2>3. PICK a \in S : \A b \in S : Holds(seat[a], Said(a), b)
        BY <1>3, <2>1, <2>2 DEF Gathered
    <2> QED BY <1>6, <2>3
<1> QED BY <1>4, <1>7 DEF Used

\* A step in which the head of seat n moves.
LEMMA UsedMoved ==
    ASSUME IInv, Used, sealed = {}, NEW n \in Member, NEW s, NEW t, NEW Q2, NEW R2,
           seat' = [seat EXCEPT ![n] = t], OthersSame(n),
           s = seat[n], Q2 = Said(n)', R2 = RD(n)',
           t \in Seat, Sound(n, t, Q2, R2), Tried(n, t, Q2, R2), t.head = s.head + 1, Holds(t, Q2, n)
    PROVE  Used'
<1>1. seat \in [Member -> Seat]
    BY TypeFacts DEF IInv
<1>2. seat'[n] = t /\ \A m \in Member : m # n => seat'[m] = seat[m]
    BY <1>1
<1>3. (\A m \in Member : Worthy(m)) /\ Gathered
    BY DEF Used
<1>4. ASSUME NEW m \in Member PROVE Worthy(m)'
    <2>1. CASE m = n
        BY <1>2, <2>1 DEF Worthy
    <2>2. CASE m # n
        <3>1. seat'[m] = seat[m] /\ Said(m)' = Said(m) /\ RD(m)' = RD(m)
            BY <1>2, <2>2 DEF OthersSame
        <3>2. Sound(m, seat[m], Said(m), RD(m)) /\ Tried(m, seat[m], Said(m), RD(m))
            BY <1>3 DEF Worthy
        <3> QED BY <3>1, <3>2 DEF Worthy
    <2> QED BY <2>1, <2>2
<1>5. ASSUME NEW a \in Member, a # n PROVE Approved(n, t.head + 1) \notin Said(a)
    <2>1. SUFFICES ASSUME Approved(n, t.head + 1) \in Said(a) PROVE FALSE
        OBVIOUS
    <2>2. PICK e : e = Approved(n, t.head + 1)
        OBVIOUS
    <2>3. e \in Event /\ e.by = n
        BY <2>1, <2>2, SaysParts DEF Said
    <2>4. PICK i \in 1 .. got[a][n] : log[n][i] = e
        BY <1>5, <2>1, <2>2, <2>3 DEF Said, Past
    <2>5. i \in 1 .. Len(log[n])
        <3>1. got[a][n] \in Nat /\ Len(log[n]) \in Nat /\ got[a][n] <= Len(log[n])
            BY TypeFacts DEF IInv, LinksOK
        <3> QED BY <2>4, <3>1
    <2>6. e \in Said(n)
        BY <2>3, <2>4, <2>5 DEF Said, Past
    <2>7. s.head \in Nat
        BY <1>1 DEF Seat
    <2>8. \A h \in Nat : Approved(n, h) \in Said(n) => h <= s.head + 1
        BY <1>3 DEF Worthy, Sound
    <2>9. t.head + 1 \in Nat
        BY <2>7
    <2> QED BY <2>2, <2>6, <2>7, <2>8, <2>9
<1>6. Gathered'
    <2>1. SUFFICES ASSUME NEW S \in SUBSET Member, S # {}, \A x, y \in S : seat'[x].head = seat'[y].head
                   PROVE  \E a \in S : \A b \in S : Holds(seat'[a], Said(a)', b)
        BY DEF Gathered
    <2>2. CASE S = {n}
        BY <1>2, <2>2
    <2>3. CASE S # {n}
        <3>1. PICK T : T = S \ {n}
            OBVIOUS
        <3>2. T \in SUBSET Member /\ T # {} /\ n \notin T
            BY <2>1, <2>3, <3>1
        <3>3. \A x, y \in T : seat[x].head = seat[y].head
            BY <1>2, <2>1, <3>1, <3>2
        <3>4. PICK a \in T : \A b \in T : Holds(seat[a], Said(a), b)
            BY <1>3, <3>2, <3>3 DEF Gathered
        <3>5. a \in S /\ a \in Member /\ a # n
            BY <3>1, <3>2
        <3>6. seat'[a] = seat[a] /\ Said(a)' = Said(a)
            BY <1>2, <3>5 DEF OthersSame
        <3>7. ASSUME n \in S PROVE Holds(seat[a], Said(a), n)
            <4>1. seat[a].head = t.head
                BY <1>2, <2>1, <3>5, <3>6, <3>7
            <4>2. Approved(n, seat[a].head + 1) \notin Said(a)
                BY <1>5, <3>5, <4>1
            <4> QED BY <4>2 DEF Holds
        <3>8. \A b \in S : Holds(seat[a], Said(a), b)
            BY <3>1, <3>4, <3>7
        <3> QED BY <3>5, <3>6, <3>8
    <2> QED BY <2>2, <2>3
<1> QED BY <1>4, <1>6 DEF Used

\* Who seals makes a block.
LEMMA NoSeal ==
    ASSUME NEW n, NEW u \in Seat, NEW t, SealStep(n, u, t), sealed' = {}, u.card # "applied",
           t.card = u.card \/ (u.card = "open" /\ t.card = "applied")
    PROVE  t.card # "applied" /\ sealed = {}
BY DEF SealStep

\* The seal of a sound seat is tried and no block comes of it.
LEMMA TrySeal ==
    ASSUME NEW n \in Member, NEW u \in Seat, NEW Q, NEW R, NEW paced \in BOOLEAN, NEW t,
           t = TryCommit(u, paced), Sound(n, u, Q, R), SealStep(n, u, t), sealed' = {}
    PROVE  /\ t \in Seat /\ Sound(n, t, Q, R) /\ Tried(n, t, Q, R) /\ t.head = u.head
           /\ \A x : Holds(u, Q, x) => Holds(t, Q, x)
           /\ sealed = {}
<1>1. t.card = u.card \/ (u.card = "open" /\ t.card = "applied")
    BY TryCommitFacts
<1>2. u.card # "applied"
    BY DEF Sound
<1>3. t.card # "applied" /\ sealed = {}
    BY <1>1, <1>2, NoSeal
<1> QED BY <1>3, TryUse

\* What a seat is before its step, while nothing is sealed.
LEMMA UsedFacts ==
    ASSUME IInv, Used, sealed = {}, NEW n \in Member
    PROVE  /\ seat[n] \in Seat /\ Sound(n, seat[n], Said(n), RD(n)) /\ Tried(n, seat[n], Said(n), RD(n))
           /\ Fits(seat[n], n, HD(n), RD(n), n \in overtaken, will[n])
<1>1. seat[n] \in Seat /\ Fits(seat[n], n, HD(n), RD(n), n \in overtaken, will[n])
    BY SeatFacts
<1> QED BY <1>1 DEF Used, Worthy

\* The events of a step that says nothing, or one event of its own.
LEMMA SaidFew ==
    ASSUME IInv, NEW n \in Member, NEW e \in Event, e.by = n, got' = got,
           NEW ev, log' = [log EXCEPT ![n] = @ \o ev]
    PROVE  /\ ev = <<>> => Said(n)' = Said(n) /\ RD(n)' = RD(n) /\ OthersSame(n)
           /\ ev = <<e>> => Said(n)' = Said(n) \cup {e} /\ RD(n)' = RD(n) /\ OthersSame(n)
<1>1. ASSUME ev = <<>> PROVE Said(n)' = Said(n) /\ RD(n)' = RD(n) /\ OthersSame(n)
    <2>1. ev \in Seq(Event) /\ Items(ev) = {}
        BY <1>1, ItemsFew
    <2>2. /\ \A x : x \in Said(n)' <=> x \in Said(n) \/ (x \in Items(ev) /\ x.by = n)
          /\ RD(n)' = RD(n) /\ OthersSame(n)
        BY <2>1, SaidLocal
    <2>3. Said(n)' = Said(n)
        BY <2>1, <2>2
    <2> QED BY <2>2, <2>3
<1>2. ASSUME ev = <<e>> PROVE Said(n)' = Said(n) \cup {e} /\ RD(n)' = RD(n) /\ OthersSame(n)
    <2>1. ev \in Seq(Event) /\ Items(ev) = {e}
        BY <1>2, ItemsFew
    <2>2. /\ \A x : x \in Said(n)' <=> x \in Said(n) \/ (x \in Items(ev) /\ x.by = n)
          /\ RD(n)' = RD(n) /\ OthersSame(n)
        BY <2>1, SaidLocal
    <2>3. Said(n)' = Said(n) \cup {e}
        BY <2>1, <2>2
    <2> QED BY <2>2, <2>3
<1> QED BY <1>1, <1>2

\* The delivery tick.
LEMMA DrainHeldSealsUsed ==
    ASSUME IInv, Used, sealed' = {}, NEW n \in Member, DrainHeldSeals(n)
    PROVE  Used'
<1>1. PICK s, Q, R : s = seat[n] /\ Q = Said(n) /\ R = RD(n)
    OBVIOUS
<1>2. PICK u : u = [s EXCEPT !.held = FALSE]
    OBVIOUS
<1>3. PICK paced \in BOOLEAN : paced = TRUE
    OBVIOUS
<1>4. PICK t : t = TryCommit(u, paced)
    OBVIOUS
<1>5. Step(n, t, <<>>) /\ SealStep(n, u, t) /\ got' = got
    BY <1>1, <1>2, <1>3, <1>4 DEF DrainHeldSeals
<1>6. sealed = {}
    BY <1>5 DEF SealStep
<1>7. s \in Seat /\ Sound(n, s, Q, R)
    BY <1>1, <1>6, UsedFacts
<1>8. /\ u \in Seat /\ u.card = s.card /\ u.decl = s.decl /\ u.sh = s.sh
      /\ u.sigs = s.sigs /\ u.park = s.park /\ u.parkW = s.parkW /\ u.head = s.head
    BY <1>2, <1>7 DEF Seat
<1>9. Sound(n, u, Q, R)
    BY <1>7, <1>8 DEF Sound
<1>10. \A x : Holds(s, Q, x) => Holds(u, Q, x)
    BY <1>8 DEF Holds
<1>11. /\ t \in Seat /\ Sound(n, t, Q, R) /\ Tried(n, t, Q, R) /\ t.head = u.head
       /\ \A x : Holds(u, Q, x) => Holds(t, Q, x)
    BY <1>4, <1>5, <1>8, <1>9, TrySeal
<1>12. Keeps(t, n, s, Q, Q, R)
    BY <1>8, <1>10, <1>11 DEF Keeps
<1>13. PICK e \in Event : e.by = n
    BY EventFacts
<1>14. PICK ev : ev = <<>>
    OBVIOUS
<1>15. log' = [log EXCEPT ![n] = @ \o ev] /\ seat' = [seat EXCEPT ![n] = t]
    BY <1>5, <1>14 DEF Step
<1>16. Said(n)' = Q /\ RD(n)' = R /\ OthersSame(n)
    BY <1>1, <1>5, <1>13, <1>14, <1>15, SaidFew
<1> QED BY <1>1, <1>6, <1>12, <1>15, <1>16, UsedStep

\* A foreign block.
LEMMA HeadMovesUsed ==
    ASSUME IInv, Used, sealed' = {}, NEW n \in Member, HeadMoves(n)
    PROVE  Used'
<1>1. PICK s0, Q, R, H, late, w : /\ s0 = seat[n] /\ Q = Said(n) /\ R = RD(n)
                                  /\ H = HD(n) /\ late = (n \in overtaken) /\ w = will[n]
    OBVIOUS
<1>2. PICK s : s = [s0 EXCEPT !.head = @ + 1]
    OBVIOUS
<1>3. PICK swept : swept = [s EXCEPT !.sh = 0, !.sigs = {}, !.ver = {}]
    OBVIOUS
<1>4. PICK again \in BOOLEAN : again = (s.sh > 0 /\ s.own /\ s.card = "open")
    OBVIOUS
<1>5. PICK u : u = IF again THEN Sign(swept, n) ELSE IF s.sh > 0 THEN swept ELSE s
    OBVIOUS
<1>6. PICK paced \in BOOLEAN :
        /\ Step(n, TryCommit(u, paced), IF again THEN <<Approved(n, Target(s))>> ELSE <<>>)
        /\ SealStep(n, u, TryCommit(u, paced))
        /\ UNCHANGED <<got, will, votes, serves, overtaken>>
    BY <1>1, <1>2, <1>3, <1>4, <1>5 DEF HeadMoves
<1>7. PICK t : t = TryCommit(u, paced)
    OBVIOUS
<1>8. PICK ev : ev = IF again THEN <<Approved(n, Target(s))>> ELSE <<>>
    OBVIOUS
<1>9. Step(n, t, ev) /\ SealStep(n, u, t) /\ got' = got
    BY <1>6, <1>7, <1>8
<1>10. sealed = {}
    BY <1>9 DEF SealStep
<1>11. s0 \in Seat /\ Sound(n, s0, Q, R) /\ Fits(s0, n, H, R, late, w)
    BY <1>1, <1>10, UsedFacts
<1>12. PICK Q2 : Q2 = IF again THEN Q \cup {Approved(n, s.head + 1)} ELSE Q
    OBVIOUS
<1>13. Moved(n, s0, s, swept, again, u)
    BY <1>2, <1>3, <1>4, <1>5 DEF Moved
<1>14. /\ u \in Seat /\ Sound(n, u, Q2, R) /\ u.head = s0.head + 1 /\ Holds(u, Q2, n)
    BY <1>11, <1>12, <1>13, MoveUse
<1>15. /\ t \in Seat /\ Sound(n, t, Q2, R) /\ Tried(n, t, Q2, R) /\ t.head = u.head /\ Holds(t, Q2, n)
    BY <1>7, <1>9, <1>14, TrySeal
<1>16. log' = [log EXCEPT ![n] = @ \o ev] /\ seat' = [seat EXCEPT ![n] = t]
    BY <1>9 DEF Step
<1>17. PICK h : h = s.head + 1
    OBVIOUS
<1>18. h \in Nat
    BY <1>2, <1>11, <1>17 DEF Seat
<1>19. PICK e : e = Approved(n, h)
    OBVIOUS
<1>20. e \in Event /\ e.by = n
    BY <1>18, <1>19, EventFacts
<1>21. Said(n)' = Q2 /\ RD(n)' = R /\ OthersSame(n)
    <2>1. CASE again
        <3>1. ev = <<e>>
            BY <1>8, <1>17, <1>19, <2>1 DEF Target
        <3>2. Q2 = Q \cup {e}
            BY <1>12, <1>17, <1>19, <2>1
        <3> QED BY <1>1, <1>9, <1>16, <1>20, <3>1, <3>2, SaidFew
    <2>2. CASE ~again
        <3>1. ev = <<>>
            BY <1>8, <2>2
        <3>2. Q2 = Q
            BY <1>12, <2>2
        <3> QED BY <1>1, <1>9, <1>16, <1>20, <3>1, <3>2, SaidFew
    <2> QED BY <2>1, <2>2
<1>22. t.head = s0.head + 1
    BY <1>14, <1>15
<1> QED BY <1>1, <1>10, <1>15, <1>16, <1>21, <1>22, UsedMoved

\* The operator approves.
LEMMA CmdApproveUsed ==
    ASSUME IInv, Used, sealed' = {}, NEW n \in Member, CmdApprove(n)
    PROVE  Used'
<1>1. PICK s, Q, R, H, late, w : /\ s = seat[n] /\ Q = Said(n) /\ R = RD(n)
                                 /\ H = HD(n) /\ late = (n \in overtaken) /\ w = will[n]
    OBVIOUS
<1>2. PICK d : d = [s EXCEPT !.decl = @ \ {n}]
    OBVIOUS
<1>3. PICK u : u = Sign(d, n)
    OBVIOUS
<1>4. PICK ev : ev = <<Approved(n, Target(s))>>
    OBVIOUS
<1>5. PICK paced \in BOOLEAN :
        /\ s.card = "open" /\ Step(n, TryCommit(u, paced), ev)
        /\ SealStep(n, u, TryCommit(u, paced)) /\ UNCHANGED <<got, serves, overtaken>>
    BY <1>1, <1>2, <1>3, <1>4 DEF CmdApprove
<1>6. PICK t : t = TryCommit(u, paced)
    OBVIOUS
<1>7. Step(n, t, ev) /\ SealStep(n, u, t) /\ got' = got
    BY <1>5, <1>6
<1>8. sealed = {}
    BY <1>7 DEF SealStep
<1>9. s \in Seat /\ Sound(n, s, Q, R) /\ Fits(s, n, H, R, late, w)
    BY <1>1, <1>8, UsedFacts
<1>10. /\ d \in Seat /\ d.decl = s.decl \ {n} /\ d.card = s.card /\ d.sh = s.sh /\ d.sigs = s.sigs
       /\ d.ver = s.ver /\ d.park = s.park /\ d.parkW = s.parkW /\ d.head = s.head /\ d.held = s.held
    BY <1>2, <1>9 DEF Seat
<1>11. PICK X : X = {n}
    OBVIOUS
<1>12. d.decl = s.decl \ X
    BY <1>10, <1>11
<1>13. Sound(n, d, Q, R) /\ \A x : Holds(s, Q, x) => Holds(d, Q, x)
    BY <1>5, <1>9, <1>10, <1>12, ClearUse
<1>14. PICK h : h = s.head + 1
    OBVIOUS
<1>15. h \in Nat
    BY <1>9, <1>14 DEF Seat
<1>16. PICK e : e = Approved(n, h)
    OBVIOUS
<1>17. e \in Event /\ e.by = n /\ ev = <<e>>
    BY <1>4, <1>14, <1>15, <1>16, EventFacts DEF Target
<1>18. PICK Q2 : Q2 = Q \cup {e}
    OBVIOUS
<1>19. Saying(u, n, d, Q, Q2, R)
    <2>1. d.card = "open" /\ n \notin d.decl /\ d.head + 1 = h
        BY <1>5, <1>10, <1>14
    <2>2. d.sh <= d.head + 1 /\ VerHeld(d)
        BY <1>9, <1>10 DEF Fits, VerHeld
    <2> QED BY <1>3, <1>13, <1>16, <1>18, <2>1, <2>2 DEF Saying
<1>20. /\ u \in Seat /\ Sound(n, u, Q2, R) /\ u.head = d.head
       /\ \A x : Holds(d, Q, x) => Holds(u, Q2, x)
    BY <1>10, <1>19, SaysAndSigns
<1>21. /\ t \in Seat /\ Sound(n, t, Q2, R) /\ Tried(n, t, Q2, R) /\ t.head = u.head
       /\ \A x : Holds(u, Q2, x) => Holds(t, Q2, x)
    BY <1>6, <1>7, <1>20, TrySeal
<1>22. Keeps(t, n, s, Q, Q2, R)
    BY <1>10, <1>13, <1>20, <1>21 DEF Keeps
<1>23. log' = [log EXCEPT ![n] = @ \o ev] /\ seat' = [seat EXCEPT ![n] = t]
    BY <1>7 DEF Step
<1>24. Said(n)' = Q2 /\ RD(n)' = R /\ OthersSame(n)
    BY <1>1, <1>7, <1>17, <1>18, <1>23, SaidFew
<1> QED BY <1>1, <1>8, <1>22, <1>23, <1>24, UsedStep

\* The operator declines.
LEMMA CmdDeclineUsed ==
    ASSUME IInv, Used, sealed' = {}, NEW n \in Member, CmdDecline(n)
    PROVE  Used'
<1>1. PICK s, Q, R : s = seat[n] /\ Q = Said(n) /\ R = RD(n)
    OBVIOUS
<1>2. PICK t : t = RegisterDecline(s, n, n)
    OBVIOUS
<1>3. PICK e : e = Says("declined", n)
    OBVIOUS
<1>4. e \in Event /\ e.by = n
    BY <1>3, EventFacts
<1>5. PICK ev : ev = <<e>>
    OBVIOUS
<1>6. s.card = "open" /\ Step(n, t, ev) /\ got' = got /\ sealed' = sealed
    BY <1>1, <1>2, <1>3, <1>5 DEF CmdDecline
<1>7. s \in Seat /\ Sound(n, s, Q, R) /\ Tried(n, s, Q, R)
    BY <1>1, <1>6, UsedFacts
<1>8. PICK Q2 : Q2 = Q \cup {e}
    OBVIOUS
<1>9. Keeps(t, n, s, Q, Q2, R)
    <2>1. PICK b \in Member : b = n
        OBVIOUS
    <2>2. t = RegisterDecline(s, n, b) /\ Q2 = Q \cup {Says("declined", b)} /\ (s.card = "none" => b # n)
        BY <1>2, <1>3, <1>6, <1>8, <2>1
    <2>3. /\ t \in Seat /\ Sound(n, t, Q2, R) /\ Tried(n, t, Q2, R) /\ t.head = s.head
          /\ \A x : Holds(s, Q, x) => Holds(t, Q2, x)
        <3>1. Declining(t, n, s, b, Q, Q2, R)
            BY <1>7, <2>2 DEF Declining
        <3> QED BY <1>7, <3>1, DeclineUse
    <2> QED BY <2>3 DEF Keeps
<1>10. log' = [log EXCEPT ![n] = @ \o ev] /\ seat' = [seat EXCEPT ![n] = t]
    BY <1>6 DEF Step
<1>11. Said(n)' = Q2 /\ RD(n)' = R /\ OthersSame(n)
    BY <1>1, <1>4, <1>5, <1>6, <1>8, <1>10, SaidFew
<1> QED BY <1>1, <1>6, <1>9, <1>10, <1>11, UsedStep

\* The operator withdraws.
LEMMA CmdWithdrawUsed ==
    ASSUME IInv, Used, sealed' = {}, NEW n \in Member, CmdWithdraw(n)
    PROVE  Used'
<1>1. PICK s, Q, R : s = seat[n] /\ Q = Said(n) /\ R = RD(n)
    OBVIOUS
<1>2. PICK t : t = RegisterWithdraw(s, n)
    OBVIOUS
<1>3. PICK e : e = Says("withdrawn", n)
    OBVIOUS
<1>4. e \in Event /\ e.by = n
    BY <1>3, EventFacts
<1>5. PICK ev : ev = <<e>>
    OBVIOUS
<1>6. s.card = "open" /\ s.by = n /\ Step(n, t, ev) /\ got' = got /\ sealed' = sealed
    BY <1>1, <1>2, <1>3, <1>5 DEF CmdWithdraw
<1>7. s \in Seat /\ Sound(n, s, Q, R) /\ Tried(n, s, Q, R)
    BY <1>1, <1>6, UsedFacts
<1>8. n = Minter /\ e = Pullback
    BY <1>1, <1>3, <1>6 DEF IInv, WithdrawalsOK, Pullback
<1>9. PICK Q2 : Q2 = Q \cup {e}
    OBVIOUS
<1>10. Keeps(t, n, s, Q, Q2, R)
    <2>1. PICK b : b = Minter
        OBVIOUS
    <2>2. t = RegisterWithdraw(s, b) /\ Q2 = Q \cup {Pullback} /\ s.card # "none"
        BY <1>2, <1>6, <1>8, <1>9, <2>1
    <2>3. /\ t \in Seat /\ Sound(n, t, Q2, R) /\ Tried(n, t, Q2, R) /\ t.head = s.head
          /\ \A x : Holds(s, Q, x) => Holds(t, Q2, x)
        BY <1>7, <2>1, <2>2, WithdrawUse
    <2> QED BY <2>3 DEF Keeps
<1>11. log' = [log EXCEPT ![n] = @ \o ev] /\ seat' = [seat EXCEPT ![n] = t]
    BY <1>6 DEF Step
<1>12. Said(n)' = Q2 /\ RD(n)' = R /\ OthersSame(n)
    BY <1>1, <1>4, <1>5, <1>6, <1>9, <1>11, SaidFew
<1> QED BY <1>1, <1>6, <1>10, <1>11, <1>12, UsedStep

\* The card.
LEMMA ProposeUsed ==
    ASSUME IInv, Used, sealed' = {}, NEW n \in Member, Propose(n)
    PROVE  Used'
<1>1. PICK s0, Q, R, H, late, w : /\ s0 = seat[n] /\ Q = Said(n) /\ R = RD(n)
                                  /\ H = HD(n) /\ late = (n \in overtaken) /\ w = will[n]
    OBVIOUS
<1>2. PICK s : s = [s0 EXCEPT !.card = "open", !.by = n]
    OBVIOUS
<1>3. PICK cosign \in BOOLEAN, paced \in BOOLEAN :
        LET u == IF cosign THEN Sign(s, n) ELSE s
            t == TryCommit(u, paced)
        IN  /\ n = Minter /\ log[n] = <<>>
            /\ Step(n, t, <<Says("proposed", n)>>
                             \o (IF cosign THEN <<Approved(n, Target(s))>> ELSE <<>>))
            /\ SealStep(n, u, t)
            /\ UNCHANGED <<got, votes, serves, overtaken>>
    BY <1>1, <1>2 DEF Propose
<1>4. PICK u : u = IF cosign THEN Sign(s, n) ELSE s
    OBVIOUS
<1>5. PICK t : t = TryCommit(u, paced)
    OBVIOUS
<1>6. PICK ev : ev = <<Says("proposed", n)>> \o (IF cosign THEN <<Approved(n, Target(s))>> ELSE <<>>)
    OBVIOUS
<1>7. n = Minter /\ log[n] = <<>> /\ Step(n, t, ev) /\ SealStep(n, u, t) /\ got' = got
    BY <1>3, <1>4, <1>5, <1>6
<1>8. sealed = {}
    BY <1>7 DEF SealStep
<1>9. s0 \in Seat /\ Sound(n, s0, Q, R) /\ Fits(s0, n, H, R, late, w)
    BY <1>1, <1>8, UsedFacts
<1>10. s0.card = "none" /\ \A b \in Member : log[b] = <<>>
    BY <1>1, <1>7 DEF IInv, NothingBefore
<1>11. Q = {} /\ R = {}
    <2>1. \A b \in Member : got[n][b] \in Nat /\ got[n][b] <= Len(log[b])
        BY TypeFacts DEF IInv, LinksOK
    <2>2. \A b \in Member : 1 .. got[n][b] = {} /\ 1 .. Len(log[b]) = {}
        BY <1>10, <2>1
    <2>3. \A e \in Event : e \notin Said(n)
        BY <2>2, EventParts DEF Said, Past
    <2>4. \A b \in Member : ~Relayed(n, b)
        BY <2>2 DEF Relayed
    <2> QED BY <1>1, <2>3, <2>4 DEF Said, RD
<1>12. /\ s \in Seat /\ s.card = "open" /\ s.decl = s0.decl /\ s.sh = s0.sh /\ s.sigs = s0.sigs
       /\ s.ver = s0.ver /\ s.park = s0.park /\ s.parkW = s0.parkW /\ s.head = s0.head
    <2>1. "open" \in Card
        BY DEF Card
    <2> QED BY <1>2, <1>9, <2>1 DEF Seat
<1>13. s.sigs = {} /\ s.decl = {} /\ s.park = {} /\ ~s.parkW
    <2>1. s.decl = {}
        BY <1>9, <1>10, <1>12 DEF Fits
    <2>2. \A b : ~Refuses(Q, b)
        BY <1>11 DEF Refuses
    <2>3. s.park = {} /\ s.sigs = {} /\ ~s.parkW
        BY <1>9, <1>11, <1>12, <2>2 DEF Sound
    <2> QED BY <2>1, <2>3
<1>14. PICK e : e = Says("proposed", n)
    OBVIOUS
<1>15. e \in Event /\ e.t = "proposed" /\ e.by = n
    BY <1>14, EventFacts
<1>16. PICK Q1 : Q1 = {e}
    OBVIOUS
<1>17. Sound(n, s, Q1, R) /\ \A x : Holds(s, Q1, x)
    <2>1. /\ \A x : ~Refuses(Q1, x)
          /\ \A x, h : Approved(x, h) \notin Q1
          /\ Pullback \notin Q1
        BY <1>15, <1>16, SaysParts DEF Refuses
    <2>2. Sound(n, s, Q1, R)
        BY <1>12, <1>13, <2>1 DEF Sound
    <2>3. \A x : Holds(s, Q1, x)
        BY <2>1 DEF Holds
    <2> QED BY <2>2, <2>3
<1>18. PICK h : h = s.head + 1
    OBVIOUS
<1>19. h \in Nat
    BY <1>12, <1>18 DEF Seat
<1>20. PICK f : f = Approved(n, h)
    OBVIOUS
<1>21. f \in Event /\ f.by = n
    BY <1>19, <1>20, EventFacts
<1>22. PICK Q2 : Q2 = IF cosign THEN Q1 \cup {f} ELSE Q1
    OBVIOUS
<1>23. u \in Seat /\ Sound(n, u, Q2, R) /\ u.head = s.head /\ \A x : Holds(u, Q2, x)
    <2>1. CASE cosign
        <3>1. s.sh <= s.head + 1 /\ VerHeld(s)
            BY <1>9, <1>10, <1>12 DEF Fits, VerHeld
        <3>2. Saying(u, n, s, Q1, Q2, R)
            BY <1>4, <1>12, <1>13, <1>17, <1>18, <1>20, <1>22, <2>1, <3>1 DEF Saying
        <3> QED BY <1>12, <1>17, <3>2, SaysAndSigns
    <2>2. CASE ~cosign
        BY <1>4, <1>12, <1>17, <1>22, <2>2
    <2> QED BY <2>1, <2>2
<1>24. /\ t \in Seat /\ Sound(n, t, Q2, R) /\ Tried(n, t, Q2, R) /\ t.head = u.head
       /\ \A x : Holds(u, Q2, x) => Holds(t, Q2, x)
    BY <1>5, <1>7, <1>23, TrySeal
<1>25. Keeps(t, n, s0, Q, Q2, R)
    BY <1>12, <1>23, <1>24 DEF Keeps
<1>26. log' = [log EXCEPT ![n] = @ \o ev] /\ seat' = [seat EXCEPT ![n] = t]
    BY <1>7 DEF Step
<1>27. ev \in Seq(Event) /\ Items(ev) = Q2
    <2>1. PICK L, K : L = <<e>> /\ K = <<f>>
        OBVIOUS
    <2>2. L \in Seq(Event) /\ Items(L) = {e} /\ K \in Seq(Event) /\ Items(K) = {f}
        BY <1>15, <1>21, <2>1, ItemsFew
    <2>3. CASE cosign
        <3>1. ev = L \o K
            BY <1>6, <1>14, <1>18, <1>20, <2>1, <2>3 DEF Target
        <3>2. ev \in Seq(Event) /\ Items(ev) = {e} \cup {f}
            BY <2>2, <3>1, ItemsConcat
        <3> QED BY <1>16, <1>22, <2>3, <3>2
    <2>4. CASE ~cosign
        <3>1. ev = L \o <<>>
            BY <1>6, <1>14, <2>1, <2>4
        <3>2. ev = L
            BY <2>2, <3>1, ConcatEmptySeq
        <3> QED BY <1>16, <1>22, <2>2, <2>4, <3>2
    <2> QED BY <2>3, <2>4
<1>28. /\ \A x : x \in Said(n)' <=> x \in Said(n) \/ (x \in Items(ev) /\ x.by = n)
       /\ RD(n)' = RD(n) /\ OthersSame(n)
    BY <1>7, <1>26, <1>27, SaidLocal
<1>29. Said(n)' = Q2
    <2>1. \A x \in Q2 : x.by = n
        BY <1>15, <1>16, <1>21, <1>22
    <2>2. \A x : x \in Said(n)' <=> x \in Q2
        BY <1>1, <1>11, <1>27, <1>28, <2>1
    <2> QED BY <2>2
<1> QED BY <1>1, <1>8, <1>25, <1>26, <1>28, <1>29, UsedStep

\* Open governance, re-served.
LEMMA ServeUsed ==
    ASSUME IInv, Used, sealed' = {}, NEW n \in Member, ServeOpenGovernance(n)
    PROVE  Used'
<1>1. PICK s, Q, R, H, late, w : /\ s = seat[n] /\ Q = Said(n) /\ R = RD(n)
                                 /\ H = HD(n) /\ late = (n \in overtaken) /\ w = will[n]
    OBVIOUS
<1>2. PICK open \in BOOLEAN : open = (s.card = "open")
    OBVIOUS
<1>3. PICK declines \in BOOLEAN :
            declines = (n \in s.park \/ (n \in s.decl /\ s.card \in {"open", "rejected"}))
    OBVIOUS
<1>4. PICK relayed : relayed = IF open THEN InOrder(s.ver) ELSE <<>>
    OBVIOUS
<1>5. PICK A, B, C, D :
        /\ A = IF open THEN <<Says("proposed", n)>> ELSE <<>>
        /\ B = [i \in DOMAIN relayed |-> Approved(relayed[i], s.sh)]
        /\ C = IF s.card = "withdrawn" /\ s.by = n THEN <<Says("withdrawn", n)>> ELSE <<>>
        /\ D = IF declines THEN <<Says("declined", n)>> ELSE <<>>
    OBVIOUS
<1>6. PICK ev : ev = A \o B \o C \o D
    OBVIOUS
<1>7. PICK k : k = Kept(s, n)
    OBVIOUS
<1>8. PICK t : t = IF declines THEN RegisterDecline(k, n, n) ELSE k
    OBVIOUS
<1>a. s.card = "open" => s.sigs \cap s.ver = s.ver
    BY <1>1 DEF IInv, ViewsFit, Fits, VerHeld
<1>9. s.card # "none" /\ Step(n, t, ev) /\ got' = got /\ sealed' = sealed
    BY <1>1, <1>2, <1>3, <1>4, <1>5, <1>6, <1>7, <1>8, <1>a DEF ServeOpenGovernance, Kept
<1>10. s \in Seat /\ Sound(n, s, Q, R) /\ Tried(n, s, Q, R) /\ Fits(s, n, H, R, late, w)
    BY <1>1, <1>9, UsedFacts
<1>11. A \in Seq(Event) /\ \A e \in Items(A) : e.t = "proposed"
    <2>1. Says("proposed", n) \in Event /\ Says("proposed", n).t = "proposed"
        BY EventFacts
    <2>2. CASE open
        <3>1. A = <<Says("proposed", n)>>
            BY <1>5, <2>2
        <3> QED BY <2>1, <3>1, ItemsFew
    <2>3. CASE ~open
        BY <1>5, <2>3, ItemsFew
    <2> QED BY <2>2, <2>3
<1>12. /\ B \in Seq(Event)
       /\ \A e \in Items(B) : e.by \in s.ver /\ e = Approved(e.by, s.sh) /\ s.card = "open"
    <2>1. CASE open
        <3>1. s.ver \in SUBSET Member /\ s.sh \in Nat
            BY <1>10 DEF Seat
        <3>2. relayed = InOrder(s.ver)
            BY <1>4, <2>1
        <3> QED BY <1>2, <1>5, <2>1, <3>1, <3>2, RelayedFacts
    <2>2. CASE ~open
        <3>1. relayed = <<>>
            BY <1>4, <2>2
        <3>2. B = <<>>
            BY <1>5, <3>1
        <3> QED BY <3>2, ItemsFew
    <2> QED BY <2>1, <2>2
<1>13. C \in Seq(Event) /\ \A e \in Items(C) : e.t = "withdrawn" /\ s.card = "withdrawn"
    <2>1. Says("withdrawn", n) \in Event /\ Says("withdrawn", n).t = "withdrawn"
        BY EventFacts
    <2>2. CASE s.card = "withdrawn" /\ s.by = n
        <3>1. C = <<Says("withdrawn", n)>>
            BY <1>5, <2>2
        <3> QED BY <2>1, <2>2, <3>1, ItemsFew
    <2>3. CASE ~ (s.card = "withdrawn" /\ s.by = n)
        BY <1>5, <2>3, ItemsFew
    <2> QED BY <2>2, <2>3
<1>14. D \in Seq(Event) /\ Items(D) = IF declines THEN {Says("declined", n)} ELSE {}
    <2>1. Says("declined", n) \in Event
        BY EventFacts
    <2>2. CASE declines
        <3>1. D = <<Says("declined", n)>>
            BY <1>5, <2>2
        <3> QED BY <2>1, <2>2, <3>1, ItemsFew
    <2>3. CASE ~declines
        BY <1>5, <2>3, ItemsFew
    <2> QED BY <2>2, <2>3
<1>15. /\ ev \in Seq(Event)
       /\ Items(ev) = Items(A) \cup Items(B) \cup Items(C) \cup Items(D)
    <2>1. A \o B \in Seq(Event) /\ Items(A \o B) = Items(A) \cup Items(B)
        BY <1>11, <1>12, ItemsConcat
    <2>2. A \o B \o C \in Seq(Event) /\ Items(A \o B \o C) = Items(A \o B) \cup Items(C)
        BY <1>13, <2>1, ItemsConcat
    <2>3. A \o B \o C \o D \in Seq(Event) /\ Items(A \o B \o C \o D) = Items(A \o B \o C) \cup Items(D)
        BY <1>14, <2>2, ItemsConcat
    <2> QED BY <1>6, <2>1, <2>2, <2>3
<1>16. log' = [log EXCEPT ![n] = @ \o ev] /\ seat' = [seat EXCEPT ![n] = t]
    BY <1>9 DEF Step
<1>17. /\ \A x : x \in Said(n)' <=> x \in Said(n) \/ (x \in Items(ev) /\ x.by = n)
       /\ RD(n)' = RD(n) /\ OthersSame(n)
    BY <1>9, <1>15, <1>16, SaidLocal
<1>18. PICK Q1 : Q1 = Q \cup {x \in Items(A) \cup Items(B) \cup Items(C) : x.by = n}
    OBVIOUS
<1>19. /\ k \in Seat /\ Sound(n, k, Q1, R) /\ Tried(n, k, Q1, R) /\ k.head = s.head
       /\ \A x : Holds(s, Q, x) => Holds(k, Q1, x)
       /\ k.card = s.card
    <2>1. \A e \in Q1 \ Q : \/ e.t = "proposed"
                            \/ e = Approved(n, s.sh) /\ n \in s.ver /\ s.card = "open"
                            \/ e.t = "withdrawn" /\ s.card = "withdrawn"
        BY <1>11, <1>12, <1>13, <1>18
    <2>2. Q \subseteq Q1
        BY <1>18
    <2>3. s.sh <= s.head + 1 /\ VerHeld(s)
        BY <1>10 DEF Fits
    <2>4. Serving(k, n, s, Q, Q1, R)
        BY <1>7, <1>9, <1>10, <2>1, <2>2, <2>3 DEF Serving
    <2> QED BY <1>10, <2>4, KeptUse
<1>20. PICK Q2 : Q2 = IF declines THEN Q1 \cup {Says("declined", n)} ELSE Q1
    OBVIOUS
<1>21. Said(n)' = Q2
    <2>1. \A x : x \in Said(n)' <=> x \in Q1 \/ (x \in Items(D) /\ x.by = n)
        BY <1>1, <1>15, <1>17, <1>18
    <2>2. Says("declined", n).by = n
        BY SaysParts
    <2>3. \A x : x \in Said(n)' <=> x \in Q2
        BY <1>14, <1>20, <2>1, <2>2
    <2> QED BY <2>3
<1>22. Keeps(t, n, s, Q, Q2, R)
    <2>1. CASE declines
        <3>1. PICK b \in Member : b = n
            OBVIOUS
        <3>2. Declining(t, n, k, b, Q1, Q2, R)
            BY <1>8, <1>9, <1>19, <1>20, <2>1, <3>1 DEF Declining
        <3>3. /\ t \in Seat /\ Sound(n, t, Q2, R) /\ Tried(n, t, Q2, R) /\ t.head = k.head
              /\ \A x : Holds(k, Q1, x) => Holds(t, Q2, x)
            BY <1>19, <3>2, DeclineUse
        <3> QED BY <1>19, <3>3 DEF Keeps
    <2>2. CASE ~declines
        <3>1. t = k /\ Q2 = Q1
            BY <1>8, <1>20, <2>2
        <3> QED BY <1>19, <3>1 DEF Keeps
    <2> QED BY <2>1, <2>2
<1> QED BY <1>1, <1>9, <1>16, <1>17, <1>21, <1>22, UsedStep

\* The next event of b reaches n.
LEMMA DeliverUsed ==
    ASSUME IInv, Used, sealed' = {}, NEW n \in Member, NEW b \in Member, Deliver(n, b)
    PROVE  Used'
<1>0. PICK s, e : s = seat[n] /\ e = log[b][got[n][b] + 1]
    OBVIOUS
<1>1. /\ n # b /\ got[n][b] < Len(log[b])
      /\ got' = [got EXCEPT ![n][b] = @ + 1] /\ log' = log /\ will' = will
    BY DEF Deliver
<1>2. PICK Q, Q2, R, R2, H, late, w :
        /\ Q = Said(n) /\ Q2 = Said(n)' /\ R = RD(n) /\ R2 = RD(n)'
        /\ H = HD(n) /\ late = (n \in overtaken) /\ w = will[n]
    OBVIOUS
<1>3. Told(n, b, e)
    BY <1>0, <1>1, ToldMore
<1>4. /\ \A x : x \in Said(n)' <=> x \in Said(n) \/ (x = e /\ e.by = b)
      /\ e \in Event /\ OthersSame(n)
    <2>1. Handed(n, b, e)
        BY <1>0, <1>1 DEF Handed
    <2> QED BY <2>1, SaidHanded
<1>5. Q2 = IF e.by = b THEN Q \cup {e} ELSE Q
    BY <1>2, <1>4
<1>6. seat[n] \in Seat /\ Fits(seat[n], n, HD(n), RD(n), n \in overtaken, will[n])
    BY SeatFacts
<1>7. s \in Seat /\ Fits(s, n, H, R, late, w)
    BY <1>0, <1>2, <1>6
<1>8. ASSUME sealed = {} PROVE Sound(n, s, Q, R) /\ Tried(n, s, Q, R)
    <2>1. /\ Sound(n, seat[n], Said(n), RD(n)) /\ Tried(n, seat[n], Said(n), RD(n))
        BY <1>8, UsedFacts
    <2> QED BY <1>0, <1>2, <2>1
<1>9. ASSUME NEW t, sealed = {}, seat' = [seat EXCEPT ![n] = t], Keeps(t, n, s, Q, Q2, R2)
      PROVE  Used'
    BY <1>0, <1>2, <1>4, <1>9, UsedStep
<1>10. CASE /\ e.t = "proposed"
            /\ \E D \in DrainOrders(s) :
                  seat' = [seat EXCEPT ![n] = ReceiveProposed(s, n, b, D)]
            /\ overtaken' = IF s.card = "none" /\ s.park # {}
                            THEN overtaken \cup {n} ELSE overtaken
            /\ UNCHANGED sealed
    <2>1. PICK D \in DrainOrders(s) : seat' = [seat EXCEPT ![n] = ReceiveProposed(s, n, b, D)]
        BY <1>10
    <2>2. PICK t : t = ReceiveProposed(s, n, b, D)
        OBVIOUS
    <2>3. RD(n)' = RD(n)
        BY <1>3, <1>10, ToldSets
    <2>4. R2 = R
        BY <1>2, <2>3
    <2>5. sealed = {}
        BY <1>10
    <2>6. /\ Sound(n, s, Q2, R) /\ Tried(n, s, Q2, R)
          /\ \A x : Holds(s, Q, x) => Holds(s, Q2, x)
        <3>1. Sound(n, s, Q, R) /\ Tried(n, s, Q, R)
            BY <1>8, <2>5
        <3>2. Q \subseteq Q2 /\ \A x \in Q2 \ Q : x = e /\ e.by = b
            BY <1>5
        <3>3. /\ \A x \in Q2 \ Q : x.t # "declined"
              /\ s.card = "none" => \A x \in Q2 \ Q : x.by # n
            BY <1>1, <1>10, <3>2
        <3>4. /\ \A x, h : Approved(x, h) \notin Q2 \ Q
              /\ \A h \in Nat : Approved(n, h) \in Q2 \ Q => h <= s.head + 1
            BY <1>10, <3>2, SaysParts
        <3>5. R \subseteq R /\ (Pullback \in Q2 \ Q => s.card \in Ended)
            BY <1>10, <3>2, SaysParts
        <3>6. /\ Sound(n, s, Q2, R) /\ Tried(n, s, Q2, R)
              /\ \A x : Approved(x, s.head + 1) \notin Q2 \ Q /\ Holds(s, Q, x) => Holds(s, Q2, x)
            BY <1>7, <3>1, <3>2, <3>3, <3>4, <3>5, MoreSaid
        <3> QED BY <3>4, <3>6
    <2>7. /\ t \in Seat /\ Sound(n, t, Q2, R) /\ Tried(n, t, Q2, R) /\ t.head = s.head
          /\ \A x : Holds(s, Q2, x) => Holds(t, Q2, x)
        BY <1>7, <2>2, <2>6, ProposedUse
    <2>8. Keeps(t, n, s, Q, Q2, R2)
        BY <2>4, <2>6, <2>7 DEF Keeps
    <2> QED BY <1>9, <2>1, <2>2, <2>5, <2>8
<1>11. CASE /\ e.t = "declined" /\ e.by = b
            /\ seat' = [seat EXCEPT ![n] = RegisterDecline(s, n, b)]
            /\ UNCHANGED <<sealed, overtaken>>
    <2>1. PICK t : t = RegisterDecline(s, n, b)
        OBVIOUS
    <2>2. RD(n)' = RD(n)
        BY <1>3, <1>11, ToldSets
    <2>3. R2 = R /\ sealed = {}
        BY <1>2, <1>11, <2>2
    <2>4. e = Says("declined", b)
        BY <1>4, <1>11, EventParts
    <2>5. Declining(t, n, s, b, Q, Q2, R)
        BY <1>1, <1>5, <1>8, <1>11, <2>1, <2>3, <2>4 DEF Declining
    <2>6. /\ t \in Seat /\ Sound(n, t, Q2, R) /\ Tried(n, t, Q2, R) /\ t.head = s.head
          /\ \A x : Holds(s, Q, x) => Holds(t, Q2, x)
        BY <1>7, <2>5, DeclineUse
    <2>7. Keeps(t, n, s, Q, Q2, R2)
        BY <2>3, <2>6 DEF Keeps
    <2> QED BY <1>9, <1>11, <2>1, <2>3, <2>7
<1>12. CASE /\ e.t = "withdrawn" /\ e.by = b
            /\ seat' = [seat EXCEPT ![n] = RegisterWithdraw(s, b)]
            /\ UNCHANGED <<sealed, overtaken>>
    <2>1. PICK t : t = RegisterWithdraw(s, b)
        OBVIOUS
    <2>2. RD(n)' = RD(n)
        BY <1>3, <1>12, ToldSets
    <2>3. R2 = R /\ sealed = {}
        BY <1>2, <1>12, <2>2
    <2>4. b = Minter
        <3>1. got[n][b] + 1 \in 1 .. Len(log[b])
            <4>1. got[n][b] \in Nat /\ Len(log[b]) \in Nat
                BY TypeFacts DEF IInv
            <4> QED BY <1>1, <4>1
        <3> QED BY <1>0, <1>12, <3>1 DEF IInv, WithdrawalsOK
    <2>5. e = Pullback
        BY <1>4, <1>12, <2>4, EventParts DEF Pullback
    <2>6. Q2 = Q \cup {Pullback} /\ Minter # n
        BY <1>1, <1>5, <1>12, <2>4, <2>5
    <2>7. Sound(n, s, Q, R) /\ Tried(n, s, Q, R)
        BY <1>8, <2>3
    <2>8. /\ t \in Seat /\ Sound(n, t, Q2, R) /\ Tried(n, t, Q2, R) /\ t.head = s.head
          /\ \A x : Holds(s, Q, x) => Holds(t, Q2, x)
        BY <1>7, <2>1, <2>4, <2>6, <2>7, WithdrawUse
    <2>9. Keeps(t, n, s, Q, Q2, R2)
        BY <2>3, <2>8 DEF Keeps
    <2> QED BY <1>9, <1>12, <2>1, <2>3, <2>9
<1>13. CASE /\ e.t = "approved"
            /\ \E paced \in BOOLEAN :
                  LET c == ClearDecline(s, b, e.by)
                      u == Collect(c, n, e.by, e.h, ApprovalVerifies(c, e.h))
                      t == ReceiveApproval(s, n, b, e.by, e.h, paced)
                  IN  seat' = [seat EXCEPT ![n] = t] /\ SealStep(n, u, t)
            /\ UNCHANGED overtaken
    <2>0. PICK x, h : x = e.by /\ h = e.h
        OBVIOUS
    <2>1. PICK c : c = ClearDecline(s, b, x)
        OBVIOUS
    <2>2. PICK u : u = Collect(c, n, x, h, ApprovalVerifies(c, h))
        OBVIOUS
    <2>3. PICK paced \in BOOLEAN : LET t == ReceiveApproval(s, n, b, x, h, paced)
                                   IN  seat' = [seat EXCEPT ![n] = t] /\ SealStep(n, u, t)
        BY <1>13, <2>0, <2>1, <2>2
    <2>4. PICK t : t = ReceiveApproval(s, n, b, x, h, paced)
        OBVIOUS
    <2>5. /\ HD(n)' = IF x = b THEN HD(n) \ {x} ELSE HD(n)
          /\ RD(n)' = IF x = b THEN RD(n) ELSE RD(n) \cup {x}
          /\ x \in Member /\ h \in Nat
        BY <1>3, <1>13, <2>0, ToldSets
    <2>6. e = Approved(x, h)
        BY <1>4, <1>13, <2>0, EventParts
    <2>7. Learns(Q2, R2, Q, R, b, x, h)
        BY <1>2, <1>5, <2>0, <2>5, <2>6 DEF Learns
    <2>8. Ingested(c, u, t, s, n, b, x, h, paced)
        BY <2>1, <2>2, <2>4 DEF Ingested
    <2>9. Carried(t, s) /\ u \in Seat /\ u.card = s.card
        <3>1. PICK G, P, H2, P2, l, v :
                G = HD(n) /\ P = RD(n) /\ H2 = HD(n)' /\ P2 = RD(n)' /\ l = (n \in overtaken) /\ v = will[n]
            OBVIOUS
        <3>2. Fits(s, n, G, P, l, v)
            BY <1>0, <1>6, <3>1
        <3>3. Shifted(H2, P2, G, P, b, x) /\ x \in Member /\ h \in Nat
            BY <2>5, <3>1 DEF Shifted
        <3>4. s \in Seat /\ b # n
            BY <1>1, <1>7
        <3>5. /\ Carried(t, s) /\ Fits(t, n, H2, P2, l, v)
              /\ u \in Seat /\ u.card = s.card
              /\ u.card = "open" /\ t.card = "applied" => Fits(u, n, H2, P2, l, v)
            BY <3>2, <3>3, <2>8, <3>4, ReceiveApprovalFits
        <3> QED BY <3>5
    <2>10. seat' = [seat EXCEPT ![n] = t] /\ SealStep(n, u, t)
        BY <2>3, <2>4
    <2>11. sealed = {}
        BY <2>10 DEF SealStep
    <2>12. Sound(n, s, Q, R) /\ Tried(n, s, Q, R)
        BY <1>8, <2>11
    <2>13. t.card # "applied"
        <3>1. u.card # "applied"
            BY <2>9, <2>12 DEF Sound
        <3>2. t.card = u.card \/ (u.card = "open" /\ t.card = "applied")
            BY <2>9 DEF Carried
        <3> QED BY <2>9, <2>10, <3>1, <3>2, NoSeal
    <2>14. /\ t \in Seat /\ Sound(n, t, Q2, R2) /\ Tried(n, t, Q2, R2) /\ t.head = s.head
           /\ \A y : Holds(s, Q, y) => Holds(t, Q2, y)
        BY <1>1, <1>7, <2>5, <2>7, <2>8, <2>12, <2>13, ApprovalUse
    <2>15. Keeps(t, n, s, Q, Q2, R2)
        BY <2>14 DEF Keeps
    <2> QED BY <1>9, <2>10, <2>11, <2>15
<1> QED BY <1>0, <1>10, <1>11, <1>12, <1>13 DEF Deliver

\* Nothing is received where nothing is sealed, and a stutter changes nothing.
LEMMA OtherUsed ==
    ASSUME IInv, Used, sealed' = {},
           (\E n \in Member : ReceiveBlock(n)) \/ UNCHANGED vars
    PROVE  Used'
<1>1. CASE \E n \in Member : ReceiveBlock(n)
    <2>1. sealed # {} /\ sealed' = sealed
        BY <1>1 DEF ReceiveBlock
    <2> QED BY <2>1
<1>2. CASE UNCHANGED vars
    <2>1. seat' = seat /\ log' = log /\ got' = got /\ sealed' = sealed
        BY <1>2 DEF vars
    <2>2. \A n \in Member : Said(n)' = Said(n) /\ RD(n)' = RD(n)
        BY <2>1 DEF Said, Past, RD, Relayed
    <2>3. (\A n \in Member : Worthy(n)) /\ Gathered
        BY <2>1 DEF Used
    <2>4. \A n \in Member : Worthy(n)'
        BY <2>1, <2>2, <2>3 DEF Worthy
    <2>5. Gathered'
        BY <2>1, <2>2, <2>3 DEF Gathered
    <2> QED BY <2>4, <2>5 DEF Used
<1> QED BY <1>1, <1>2

\* Initially nobody has said anything.
LEMMA InitUsed == ASSUME Init PROVE Used
<1>1. /\ InitSeat.card = "none" /\ InitSeat.decl = {} /\ InitSeat.sigs = {} /\ InitSeat.park = {}
      /\ InitSeat.parkW = FALSE
    BY DEF InitSeat
<1>2. /\ \A n \in Member : seat[n] = InitSeat /\ log[n] = <<>>
      /\ \A n, b \in Member : got[n][b] = 0
    BY DEF Init
<1>3. 1 .. 0 = {} /\ Len(<<>>) = 0
    OBVIOUS
<1>4. \A n \in Member : Said(n) = {}
    <2>1. \A n, b \in Member : Past(n, b) = 0
        BY <1>2, <1>3 DEF Past
    <2>2. \A e \in Event : e.by \in Member
        BY EventParts
    <2> QED BY <1>3, <2>1, <2>2 DEF Said
<1>5. ASSUME NEW n \in Member PROVE Worthy(n)
    <2>1. PICK Q, R : Q = Said(n) /\ R = RD(n)
        OBVIOUS
    <2>2. Q = {}
        BY <1>4, <2>1
    <2>3. Sound(n, InitSeat, Q, R)
        BY <1>1, <2>2 DEF Sound, Refuses
    <2>4. Tried(n, InitSeat, Q, R)
        BY <1>1 DEF Tried
    <2> QED BY <1>2, <2>1, <2>3, <2>4 DEF Worthy
<1>6. \A n \in Member : \A x : Holds(seat[n], Said(n), x)
    BY <1>4 DEF Holds
<1>7. Gathered
    BY <1>6 DEF Gathered
<1> QED BY <1>5, <1>7 DEF Used

\* Every step.
LEMMA NextUsed ==
    ASSUME IInv, Used, [Next]_vars
    PROVE  Used'
<1>1. CASE sealed' # {}
    BY <1>1 DEF Used
<1>2. CASE sealed' = {}
    <2>1. CASE UNCHANGED vars
        BY <1>2, <2>1, OtherUsed
    <2>2. CASE Next
        <3>1. PICK n \in Member :
                \/ Propose(n) \/ CmdApprove(n) \/ CmdDecline(n) \/ CmdWithdraw(n)
                \/ \E b \in Member : Deliver(n, b)
                \/ DrainHeldSeals(n) \/ HeadMoves(n) \/ ReceiveBlock(n) \/ ServeOpenGovernance(n)
            BY <2>2 DEF Next
        <3> QED BY <1>2, <3>1, ProposeUsed, CmdApproveUsed, CmdDeclineUsed, CmdWithdrawUsed,
                   DeliverUsed, DrainHeldSealsUsed, HeadMovesUsed, OtherUsed, ServeUsed
    <2> QED BY <2>1, <2>2
<1> QED BY <1>1, <1>2

\* A refusal needs a decliner for every seat the signers leave it.
LEMMA TooFewRefuse ==
    ASSUME NEW S \in SUBSET Member, Cardinality(S) >= RuleM,
           NEW D \in SUBSET Member, \A b \in D : b \notin S
    PROVE  ~ (Cardinality(D) > VetoRoom)
<1>1. PICK T : T = Member \ S
    OBVIOUS
<1>2. IsFiniteSet(T) /\ Cardinality(T) = Cardinality(Member) - Cardinality(Member \cap S)
    BY <1>1, MemberAssumption, FS_Difference
<1>3. Member \cap S = S
    OBVIOUS
<1>4. D \subseteq T
    BY <1>1
<1>5. Cardinality(D) <= Cardinality(T)
    BY <1>2, <1>4, FS_Subset
<1>6. Cardinality(S) \in Nat /\ Cardinality(D) \in Nat /\ Cardinality(Member) \in Nat
    BY Counting, MemberAssumption, FS_CardinalityType
<1> QED BY <1>2, <1>3, <1>5, <1>6, RuleAssumption DEF VetoRoom

\* Where everything is delivered all seats know the same.
LEMMA AllKnow ==
    ASSUME IInv, AllDelivered, NEW n \in Member, NEW a \in Member
    PROVE  Said(a) = Said(n)
<1>1. \A m, b \in Member : Past(m, b) = Len(log[b])
    BY DEF AllDelivered, Past
<1>2. \A e \in Event : e.by \in Member
    BY EventParts
<1> QED BY <1>1, <1>2 DEF Said

\* The signers of a majority that was not used would have had to seal.
LEMMA OneSignerTries ==
    ASSUME IInv, Used, AllDelivered, sealed = {}, \A m \in Member : ~seat[m].held,
           NEW n \in Member, Sealable(seat[n]),
           \A b \in Counted(seat[n]) : ~Relayed(n, b) /\ seat[b].head = seat[n].head
    PROVE  FALSE
<1>1. PICK s, Q, R : s = seat[n] /\ Q = Said(n) /\ R = RD(n)
    OBVIOUS
<1>2. s \in Seat /\ Sound(n, s, Q, R) /\ Tried(n, s, Q, R)
    BY <1>1, UsedFacts
<1>3. PICK S : S = Counted(s)
    OBVIOUS
<1>4. /\ S \in SUBSET Member /\ S = {b \in s.sigs : b \notin s.decl}
      /\ s.card = "open" /\ s.sh = s.head + 1 /\ Cardinality(S) >= RuleM
    BY <1>1, <1>2, <1>3 DEF Counted, Sealable, Target, Seat
<1>5. \A b \in S : b \notin R /\ seat[b].head = s.head
    BY <1>1, <1>3 DEF RD
<1>6. Firm(s, Q, R) = S
    BY <1>4, <1>5 DEF Firm
<1>7. \A b \in S : b # n /\ ~Refuses(Q, b) /\ Approved(b, s.head + 1) \in Q
    <2>1. ~s.held
        BY <1>1
    <2>2. \A b \in S : b # n /\ ~Refuses(Q, b)
        BY <1>2, <1>4, <1>6, <2>1 DEF Tried
    <2>3. \A b \in S : Approved(b, s.head + 1) \in Q
        BY <1>2, <1>4, <1>5 DEF Sound
    <2> QED BY <2>2, <2>3
<1>8. S # {}
    BY <1>4, FS_EmptySet, RuleAssumption
<1>9. \A x, y \in S : seat[x].head = seat[y].head
    BY <1>5
<1>10. PICK a \in S : \A b \in S : Holds(seat[a], Said(a), b)
    BY <1>4, <1>8, <1>9 DEF Used, Gathered
<1>11. PICK p, P : p = seat[a] /\ P = RD(a)
    OBVIOUS
<1>12. a \in Member /\ Said(a) = Q
    BY <1>1, <1>4, AllKnow
<1>13. p \in Seat /\ Sound(a, p, Q, P) /\ Tried(a, p, Q, P) /\ p.head = s.head /\ ~p.held
    BY <1>5, <1>11, <1>12, UsedFacts
<1>14. p.card = "open"
    <2>1. p.card \in {"none", "open", "applied", "rejected", "withdrawn"}
        BY <1>13 DEF Seat, Card
    <2>2. p.card # "applied"
        BY <1>13 DEF Sound
    <2>3. p.card # "none"
        <3>1. Approved(a, s.head + 1).by = a
            BY SaysParts
        <3> QED BY <1>7, <1>13, <3>1 DEF Sound
    <2>4. p.card # "withdrawn"
        <3>1. Pullback \notin Q
            BY <1>2, <1>4 DEF Sound, Ended
        <3> QED BY <1>13, <3>1 DEF Sound
    <2>5. p.card # "rejected"
        <3>1. PICK D : D = p.decl
            OBVIOUS
        <3>2. D \in SUBSET Member /\ \A b \in D : b \notin S
            BY <1>7, <1>13, <3>1 DEF Sound, Seat
        <3>3. ~ (Cardinality(D) > VetoRoom)
            BY <1>4, <3>2, TooFewRefuse
        <3> QED BY <1>13, <3>1, <3>3 DEF Sound
    <2> QED BY <2>1, <2>2, <2>3, <2>4, <2>5
<1>15. \A b \in S : b \in p.sigs /\ p.sh = p.head + 1
    BY <1>7, <1>10, <1>11, <1>12, <1>13, <1>14 DEF Holds, Ended
<1>16. \A b \in S : b \notin p.decl
    BY <1>7, <1>13 DEF Sound
<1>17. PICK F : F = Firm(p, Q, P)
    OBVIOUS
<1>18. S \subseteq F /\ F \in SUBSET Member
    BY <1>7, <1>13, <1>15, <1>16, <1>17 DEF Firm, Seat
<1>19. Cardinality(F) >= RuleM
    BY <1>4, <1>18, FirmFewer
<1>20. a \in F /\ p.sh = p.head + 1
    BY <1>15, <1>18
<1> QED BY <1>13, <1>14, <1>17, <1>19, <1>20 DEF Tried

\* A majority that is there is used: some seat sealed, or has its seal waiting,
\* for every number of seats, threshold, votes, re-serves and foreign blocks.
THEOREM MajorityUsed == Spec => []MajorityIsUsed
<1>1. Init => Used
    BY InitUsed
<1>2. IInv /\ Used /\ [Next]_vars => Used'
    BY NextUsed
<1>3. IInv /\ Used => MajorityIsUsed
    BY OneSignerTries DEF MajorityIsUsed
<1> QED BY <1>1, <1>2, <1>3, Invariance, PTL DEF Spec
=============================================================================
