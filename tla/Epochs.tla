------------------------------- MODULE Epochs -------------------------------
(***************************************************************************)
(* The epochs of the republic's MLS group over the broadcast channel: the  *)
(* re-key commits that replace the leaf of a returning seat, the race of   *)
(* two commits built on one epoch and its rewind slot (molt-net mls.rs),   *)
(* and the hold for frames that outran their commit (epoch_hold.rs,        *)
(* group_runtime.rs).  A seat's part ends with the frame it decrypts: what *)
(* the engine's accept windows make of it, two commands of another task    *)
(* later, is not followed.                                                 *)
(*                                                                         *)
(* A group state is the sequence of the commits merged so far, its branch; *)
(* the epoch is its length.  Secrets are not guessable, so the exporter    *)
(* secret of an epoch is the branch itself: a frame carries the branch it  *)
(* was sealed under, and a seat opens it with its own branch or with one   *)
(* of the last prefixes, the exporter ring.  A commit is sealed under the  *)
(* branch it was made on.                                                  *)
(***************************************************************************)
EXTENDS Integers, FiniteSets, Sequences, SequencesExt

CONSTANTS
    Member,
    Digest,     \* the digests commits may get, one each: numbers, in their order
    Down,       \* the seats whose device is lost at the start
    RingK,      \* EXPORTER_RING_K
    HoldMax,    \* EPOCH_HOLD_MAX
    MaxFrames,  \* bound: how many application frames are sent
    MaxLose,    \* bound: how many further devices are lost
    MaxKill     \* bound: how many seats are killed, once each

ASSUME EpochsAssumption ==
    /\ IsFiniteSet(Member) /\ Digest \subseteq Nat /\ Down \subseteq Member
    /\ RingK \in Nat \ {0} /\ HoldMax \in Nat \ {0}
    /\ {MaxFrames, MaxLose, MaxKill} \subseteq Nat

VARIABLES
    node,       \* each seat's device
    gone,       \* the seats without a device
    inc,        \* which incarnation of the seat it is
    net,        \* every frame the relays accepted
    lost,       \* the frames each seat gave up on
    loses, killed

vars == <<node, gone, inc, net, lost, loses, killed>>

Commits == {f \in net : f.k = "commit"}
Frames == {f \in net : f.k = "app"}

Epoch(s) == Len(s.branch)

NewDevice(b) ==
    [branch |-> b, armed |-> FALSE,     \* the prior-state slot
     base |-> Len(b),                   \* where its exporter ring starts
     used |-> {},                       \* the frames its ratchets have spent
     hold |-> <<>>,
     disk |-> [branch |-> b, armed |-> FALSE, used |-> {}]]

(***************************************************************************)
(* One frame at one seat.  open_outer fails unless the branch it is sealed *)
(* under is in the ring; what it opens has an epoch the seat has reached.  *)
(***************************************************************************)
Opens(s, f) ==
    /\ IsPrefix(f.on, s.branch)
    /\ Epoch(s) - Len(f.on) <= RingK /\ Len(f.on) >= s.base

\* The first commit stays, whatever its rival is.
FirstCommitFaulty(ours, theirs) == FALSE

\* The digest alone decides.
DigestOnlyFaulty(ours, theirs) == theirs.d < ours.d

\* contest: a committer whom the other commit evicts loses, else the lowest
\* digest wins.
TheirsWin(ours, theirs) ==
    LET weEvictThem == ours.re = theirs.by
        theyEvictUs == theirs.re = ours.by
    IN  IF theyEvictUs = weEvictThem THEN theirs.d < ours.d ELSE theyEvictUs

\* A commit merges onto the branch it was made on.
Merge(s, f) == [s EXCEPT !.branch = Append(f.on, f.c), !.armed = TRUE]

\* decrypt of a commit: on the own epoch it merges, on the one before it
\* contests the commit merged there.  An own commit never processes.
MergesHere(s, n, f) ==
    /\ f.k = "commit" /\ f.c.by # n
    /\ \/ f.on = s.branch
       \/ s.armed /\ Len(f.on) = Epoch(s) - 1 /\ TheirsWin(Last(s.branch), f.c)

\* decrypt of an application frame of this very epoch, once.
Decrypts(s, n, f) == f.k = "app" /\ f.by # n /\ f.on = s.branch /\ f \notin s.used

\* ingest_one for a frame that opens.
Ingest(s, n, f) ==
    IF MergesHere(s, n, f) THEN Merge(s, f)
    ELSE IF Decrypts(s, n, f) THEN [s EXCEPT !.used = @ \cup {f}]
    ELSE s

(***************************************************************************)
(* drain_until_no_progress: the hold is offered in order, again and again  *)
(* while a pass consumes something.                                        *)
(***************************************************************************)
Offer(n, a, f) ==
    IF Opens(a.s, f)
    THEN [s |-> Ingest(a.s, n, f), kept |-> a.kept, progress |-> TRUE]
    ELSE [a EXCEPT !.kept = Append(@, f)]

Pass(s, n) ==
    LET OfferHere(a, f) == Offer(n, a, f)
    IN  FoldLeft(OfferHere,
                 [s |-> [s EXCEPT !.hold = <<>>], kept |-> <<>>, progress |-> FALSE],
                 s.hold)

\* One pass over the hold.
OnePassFaulty(s, n) ==
    LET a == Pass(s, n)
    IN  [s |-> a.s, gaveUp |-> ToSet(a.kept)]

Round(n, d) ==
    IF d.done THEN d
    ELSE LET a == Pass(d.s, n)
         IN  IF a.progress
             THEN [d EXCEPT !.s = [a.s EXCEPT !.hold = a.kept]]
             ELSE [s |-> a.s, gaveUp |-> ToSet(a.kept), done |-> TRUE]

DrainUntilNoProgress(s, n) ==
    LET RoundHere(d, i) == Round(n, d)
    IN  FoldLeft(RoundHere, [s |-> s, gaveUp |-> {}, done |-> FALSE],
                 [i \in 1 .. Len(s.hold) + 1 |-> i])

\* A full hold gives up its oldest frame for the new one.
HoldFrame(s, f) ==
    IF Len(s.hold) >= HoldMax
    THEN [s |-> [s EXCEPT !.hold = Append(Tail(@), f)], gaveUp |-> {Head(s.hold)}]
    ELSE [s |-> [s EXCEPT !.hold = Append(@, f)], gaveUp |-> {}]

Init ==
    /\ node = [n \in Member |-> [NewDevice(<<>>) EXCEPT !.base = 0]]
    /\ gone = Down /\ inc = [n \in Member |-> 0] /\ net = {}
    /\ lost = [n \in Member |-> {}] /\ loses = 0 /\ killed = {}

Install(n, got) ==
    /\ node' = [node EXCEPT ![n] = got.s]
    /\ lost' = [lost EXCEPT ![n] = @ \cup got.gaveUp]

\* The inbox: a frame that does not open is held, once more each time it comes;
\* a merged commit re-offers the hold.
Receive(n, f) ==
    LET s == node[n]
    IN  \/ ~Opens(s, f) /\ Install(n, HoldFrame(s, f))
        \/ Opens(s, f) /\ MergesHere(s, n, f) /\ Install(n, DrainUntilNoProgress(Ingest(s, n, f), n))
        \/ Opens(s, f) /\ ~MergesHere(s, n, f) /\ Install(n, [s |-> Ingest(s, n, f), gaveUp |-> {}])

ReceiveAny(n) ==
    /\ n \notin gone
    /\ \E f \in net : Receive(n, f)
    /\ UNCHANGED <<gone, inc, net, loses, killed>>

\* An own envelope, framed at the current epoch.
Send(n) ==
    /\ n \notin gone /\ Cardinality(Frames) < MaxFrames
    /\ net' = net \cup {[k |-> "app", by |-> n, no |-> Cardinality(Frames) + 1,
                         on |-> node[n].branch]}
    /\ UNCHANGED <<node, gone, inc, lost, loses, killed>>

\* coordinator_rekey_nostr: the coordinator replaces the leaf of a seat that
\* comes back, merges its own commit at once and records it.
Rekey(n, r) ==
    /\ n \notin gone /\ r \in gone /\ n # r
    /\ \E d \in Digest \ {f.c.d : f \in Commits} :
        LET f == [k |-> "commit", c |-> [d |-> d, by |-> n, re |-> r], inc |-> inc[r],
                  on |-> node[n].branch]
        IN  /\ net' = net \cup {f}
            /\ node' = [node EXCEPT ![n] = Merge(@, f)]
    /\ UNCHANGED <<gone, inc, lost, loses, killed>>

\* join_from_welcome: the returning seat's new device starts where the commit
\* that answered its key package left off.
Join(r) ==
    /\ r \in gone
    /\ \E f \in Commits :
        /\ f.c.re = r /\ f.inc = inc[r]
        /\ node' = [node EXCEPT ![r] = NewDevice(Append(f.on, f.c))]
    /\ gone' = gone \ {r}
    /\ inc' = [inc EXCEPT ![r] = @ + 1] /\ lost' = [lost EXCEPT ![r] = {}]
    /\ UNCHANGED <<net, loses, killed>>

\* A device is lost for good.
Lose(r) ==
    /\ r \notin gone /\ loses < MaxLose
    /\ gone' = gone \cup {r} /\ loses' = loses + 1
    /\ UNCHANGED <<node, inc, net, lost, killed>>

\* persist_mls_if_due, on its own clock.  (Nobody reads the disk after the
\* last kill.)
PersistMls(n) ==
    LET now == [branch |-> node[n].branch, armed |-> node[n].armed, used |-> node[n].used]
    IN  /\ n \notin gone /\ Cardinality(killed) < MaxKill /\ node[n].disk # now
        /\ node' = [node EXCEPT ![n].disk = now]
        /\ UNCHANGED <<gone, inc, net, lost, loses, killed>>

\* The rewind slot outlives the kill, the branch it belongs to does not.
KillFaulty(n) ==
    /\ n \notin gone /\ Cardinality(killed) < MaxKill /\ n \notin killed
    /\ killed' = killed \cup {n}
    /\ node' = [node EXCEPT ![n].branch = node[n].disk.branch,
                            ![n].used = node[n].disk.used, ![n].hold = <<>>]
    /\ UNCHANGED <<gone, inc, net, lost, loses>>

\* A kill: the group comes back as it was saved, the hold empty.  What the
\* outbox had recorded is in the log.
Kill(n) ==
    /\ n \notin gone /\ Cardinality(killed) < MaxKill /\ n \notin killed
    /\ killed' = killed \cup {n}
    /\ node' = [node EXCEPT ![n].branch = node[n].disk.branch, ![n].armed = node[n].disk.armed,
                            ![n].used = node[n].disk.used, ![n].hold = <<>>]
    /\ UNCHANGED <<gone, inc, net, lost, loses>>

Next ==
    \E n \in Member :
        \/ ReceiveAny(n)
        \/ Send(n)
        \/ \E r \in Member : Rekey(n, r)
        \/ Join(n)
        \/ Lose(n)
        \/ PersistMls(n)
        \/ Kill(n)

Spec == Init /\ [][Next]_vars

(***************************************************************************)
(* Properties.                                                             *)
(***************************************************************************)
TypeOK ==
    /\ \A n \in Member :
        /\ \A i \in DOMAIN node[n].branch : node[n].branch[i] \in [d : Digest, by : Member, re : Member]
        /\ node[n].armed => Epoch(node[n]) > node[n].base
        /\ ToSet(node[n].hold) \subseteq net /\ Len(node[n].hold) <= HoldMax
        /\ node[n].used \subseteq Frames
        /\ lost[n] \subseteq net
    /\ gone \in SUBSET Member /\ inc \in [Member -> Nat]
    /\ loses \in 0 .. MaxLose /\ killed \in SUBSET Member

\* The seats that were there all the time.
Survivors == {n \in Member \ gone : inc[n] = 0}

\* Nothing on the relays moves the group of any survivor any more.
Settled ==
    \A n \in Survivors : \A f \in Commits :
        ~(Opens(node[n], f) /\ MergesHere(node[n], n, f))

\* The seats whose own commit a kill may have taken from them.
Bereft == {n \in killed : \E f \in Commits : f.c.by = n}

\* Whatever the order in which two concurrent commits reached each seat,
\* committers and bystanders end on one epoch and not on two with one number
\* (decrypt: "BYSTANDERS CONVERGE TOO"), and a bystander also through a kill
\* that takes it back to the group it last saved: the saved rewind slot still
\* lets the better of two commits win (persist_mls_if_due).
EpochsConverge ==
    Settled /\ Cardinality(Commits) <= 2 =>
        \A n, m \in Survivors \ Bereft : node[n].branch = node[m].branch

Rivals(f, g) == f.on = g.on /\ f.c.re = g.c.by /\ g.c.re # f.c.by

\* The commit of a device that a rival commit evicts wins nowhere: "an evicted
\* committer's commit loses in every arrival order" (contest).  A kill may take
\* the evicting commit from the seat that made it, which never processes it
\* again.
EvictedCommitLoses ==
    Settled /\ Cardinality(Commits) <= 2 =>
        \A n \in Survivors \ Bereft : \A f, g \in Commits :
            Rivals(f, g) => ~IsPrefix(Append(g.on, g.c), node[n].branch)

\* A commit that moves a seat's group lets it read all that was held for the
\* epoch it ends on, in whatever order commits and frames were held
\* (drain_until_no_progress): no frame that opens there is given up, and every
\* held frame of that very epoch is decrypted.
DrainLeavesNothingReadable ==
    [][\A n \in Member :
        killed' = killed /\ inc' = inc /\ node'[n].branch # node[n].branch =>
            /\ \A f \in lost'[n] \ lost[n] : ~Opens(node'[n], f)
            /\ \A f \in ToSet(node[n].hold) \cap Frames :
                f.on = node'[n].branch /\ f.by # n => f \in node'[n].used]_vars
=============================================================================
