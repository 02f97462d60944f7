------------------------------ MODULE Delivery ------------------------------
(***************************************************************************)
(* The delivery guarantee of one sender over the broadcast channel: the    *)
(* outbox with its cursor and proven floor (molt-net group_runtime.rs),    *)
(* the accept windows, the in-order park, its valve and the claim sheets   *)
(* of the receivers (molt-engine net/delivery.rs, the accept point of      *)
(* net/ingest.rs), and what each of them has on disk when it crashes.      *)
(*                                                                         *)
(* A relay keeps what it accepted, delivers it in any order and any number *)
(* of times, and may fail to deliver it to some receivers at all.  Frames  *)
(* are MLS ciphertexts: a receiver opens one generation of the sender's    *)
(* ratchet once.                                                           *)
(***************************************************************************)
EXTENDS AcceptWindow, FiniteSets, Sequences, SequencesExt

CONSTANTS
    Receiver,   \* the other members
    LogEnd,     \* bound: the length the sender's log grows to
    Ackable,    \* the positions of own envelopes; the others are foreign or commits
    Declines,   \* those of declines whose card may be unknown to the receivers
    ParkMax,    \* ORDERED_PARK_MAX
    MaxFrames,  \* bound: how many frames are published
    MaxLost,    \* bound: how often a relay fails to deliver a frame to a receiver
    MaxLostSheets, \* bound: how many claim sheets are lost
    MaxCrash,   \* bound: how often a process is killed
    MaxValve    \* bound: how often the park's valve opens

ASSUME DeliveryAssumption ==
    /\ IsFiniteSet(Receiver) /\ LogEnd \in Nat /\ Ackable \subseteq 1 .. LogEnd
    /\ Declines \subseteq Ackable
    /\ ParkMax \in Nat \ {0}
    /\ {MaxFrames, MaxLost, MaxLostSheets, MaxCrash, MaxValve} \subseteq Nat

VARIABLES
    len,        \* the length of the sender's log
    cursor,     \* group.log_seq, on disk
    through,    \* published_through of the running pass
    floor,      \* acked_floor of each receiver
    ackSeen,    \* the receivers that ever acked
    gen, genDisk,   \* the sender's ratchet, live and on disk
    frames,     \* what the relays accepted
    recv,       \* each receiver
    heard,      \* the seqs each receiver's engine applied, in order
    sheets,     \* claim sheets on their way to the sender
    lost, lostSheets, crashes, valves

vars == <<len, cursor, through, floor, ackSeen, gen, genDisk, frames, recv, heard,
          sheets, lost, lostSheets, crashes, valves>>

sender == <<len, cursor, through, floor, ackSeen, gen, genDisk>>
bounds == <<lost, lostSheets, crashes, valves>>

Seqs == 1 .. LogEnd

\* prev_seq: the own ackable envelope before s, 0 at the start of the chain.
Prev(s) == Max({0} \cup {x \in Ackable : x < s})

(***************************************************************************)
(* The receiver.                                                           *)
(***************************************************************************)
InitRecv == [win |-> NoWindow, winDisk |-> NoWindow,
             used |-> {}, usedDisk |-> {},  \* generations opened
             park |-> {},
             full |-> FALSE,                \* the park for declines without a card is full
             due |-> FALSE,                 \* an ack is armed
             sheet |-> NoWindow]            \* last_group_ack

\* st is a receiver with what it applied in this step: [r |-> ..., out |-> <<...>>].
\* The accept point comes before the look at the park for declines.
AcceptFirstFaulty(st, s) ==
    IF IsAccepted(st.r.win, s) THEN [st EXCEPT !.r.due = TRUE]
    ELSE [r |-> [st.r EXCEPT !.win = AcceptSeq(@, s), !.due = TRUE],
          out |-> IF s \in Declines /\ st.r.full THEN st.out ELSE Append(st.out, s)]

\* deliver_gated: a decline that its full park would shed is left for the
\* resend, unmarked and unacked.  Else the accept point drops what the window
\* holds; either way an ack is armed.
DeliverGated(st, s) ==
    IF s \in Declines /\ st.r.full THEN st
    ELSE IF IsAccepted(st.r.win, s) THEN [st EXCEPT !.r.due = TRUE]
    ELSE [r |-> [st.r EXCEPT !.win = AcceptSeq(@, s), !.due = TRUE],
          out |-> Append(st.out, s)]

Ready(r) == {s \in r.park : Prev(s) = 0 \/ IsAccepted(r.win, Prev(s))}

\* take_ready_parked, once: the lowest envelope whose predecessor is in.
TakeReady(st, i) ==
    IF Ready(st.r) = {} THEN st
    ELSE LET s == Min(Ready(st.r))
         IN  DeliverGated([st EXCEPT !.r.park = @ \ {s}], s)

Drain(st) == FoldLeft(TakeReady, st, [i \in 1 .. Cardinality(st.r.park) |-> i])

\* A full park sheds the arriving envelope without arming an ack, or its
\* newest in favour of an older one.
ParkOrdered(r, s) ==
    IF Cardinality(r.park) >= ParkMax /\ s \notin r.park
    THEN IF s > Max(r.park) THEN r
         ELSE [r EXCEPT !.park = (@ \ {Max(@)}) \cup {s}, !.due = TRUE]
    ELSE [r EXCEPT !.park = @ \cup {s}, !.due = TRUE]

\* Without a hold every envelope is applied as it comes.
NoHoldFaulty(r, s) == DeliverGated([r |-> r, out |-> <<>>], s)

\* An envelope that only waits is marked as accepted.
ParkedIsAcceptedFaulty(r, s) ==
    IF Prev(s) # 0 /\ r.win.high > 0 /\ ~IsAccepted(r.win, Prev(s))
    THEN [r |-> [ParkOrdered(r, s) EXCEPT !.win = AcceptSeq(@, s)], out |-> <<>>]
    ELSE Drain(DeliverGated([r |-> r, out |-> <<>>], s))

\* cmd_net_delivered: an envelope whose predecessor is not in the window is
\* parked, unless nothing was ever accepted from this sender.
NetDelivered(r, s) ==
    IF Prev(s) # 0 /\ r.win.high > 0 /\ ~IsAccepted(r.win, Prev(s))
    THEN [r |-> ParkOrdered(r, s), out |-> <<>>]
    ELSE Drain(DeliverGated([r |-> r, out |-> <<>>], s))

(***************************************************************************)
(* Init and the sender.                                                    *)
(***************************************************************************)
Init ==
    /\ len = 0 /\ cursor = 0 /\ through = 0 /\ gen = 0 /\ genDisk = 0
    /\ floor = [n \in Receiver |-> 0] /\ ackSeen = {}
    /\ frames = {} /\ sheets = {}
    /\ recv = [n \in Receiver |-> InitRecv]
    /\ heard = [n \in Receiver |-> <<>>]
    /\ lost = 0 /\ lostSheets = 0 /\ crashes = 0 /\ valves = 0

\* record: the next envelope reaches the log.
Record ==
    /\ len < LogEnd
    /\ len' = len + 1
    /\ UNCHANGED <<cursor, through, floor, ackSeen, gen, genDisk, frames, recv, heard, sheets,
                   bounds>>

\* One envelope of the pass: foreign ones are walked over, own ones framed
\* freshly and accepted by a relay, which loses them for the receivers in L, or
\* skipped when the framing fails.  (A frame no relay takes holds the pass:
\* nothing is published until one does.)
Publish ==
    /\ through < len
    /\ through' = through + 1
    /\ \/ through + 1 \notin Ackable /\ UNCHANGED <<frames, gen, lost>>
       \/ /\ through + 1 \in Ackable /\ lost < MaxLost
          /\ lost' = lost + 1 /\ UNCHANGED <<frames, gen>>
       \/ /\ through + 1 \in Ackable /\ Cardinality(frames) < MaxFrames
          /\ \E L \in SUBSET Receiver :
                /\ lost + Cardinality(L) <= MaxLost
                /\ lost' = lost + Cardinality(L)
                /\ frames' = frames \cup {[g |-> gen, s |-> through + 1, to |-> Receiver \ L]}
                /\ gen' = gen + 1
    /\ UNCHANGED <<len, cursor, floor, ackSeen, genDisk, recv, heard, sheets, lostSheets,
                   crashes, valves>>

\* The end of a pass, early when a frame is held.
PersistCursor ==
    /\ through > cursor
    /\ cursor' = through
    /\ UNCHANGED <<len, through, floor, ackSeen, gen, genDisk, frames, recv, heard, sheets,
                   bounds>>

GroupFloor == Min({floor[n] : n \in ackSeen})

\* The rewind moves the running pass, not the cursor.
RewindFaulty ==
    /\ through = cursor /\ ackSeen # {}
    /\ cursor > GroupFloor
    /\ \E s \in Ackable : s > GroupFloor /\ s <= len
    /\ through' = GroupFloor
    /\ UNCHANGED <<len, cursor, floor, ackSeen, gen, genDisk, frames, recv, heard, sheets, bounds>>

\* A granted round of the stall clock: an own envelope above the proven floor
\* is unconfirmed, and the pass starts again from the floor.
Rewind ==
    /\ through = cursor /\ ackSeen # {}
    /\ cursor > GroupFloor
    /\ \E s \in Ackable : s > GroupFloor /\ s <= len
    /\ cursor' = GroupFloor /\ through' = GroupFloor
    /\ UNCHANGED <<len, floor, ackSeen, gen, genDisk, frames, recv, heard, sheets, bounds>>

\* The high mark alone moves the floor.
AdvanceAckedFloorFaulty(w, old) ==
    Max({old} \cup {f \in old .. len : \A s \in Ackable : old < s /\ s <= f => s <= w.high})

\* The floor is a log position: it stops before the first own envelope that
\* the window does not hold.
AdvanceAckedFloor(w, old) ==
    Max({old} \cup {f \in old .. len :
            \A s \in Ackable : old < s /\ s <= f => s <= w.high /\ IsAccepted(w, s)})

\* apply_group_ack: the floor only moves forward, and the peer counts from now.
ApplyGroupAck ==
    \E k \in sheets :
        /\ sheets' = sheets \ {k}
        /\ floor' = [floor EXCEPT ![k.n] = AdvanceAckedFloor(k.w, @)]
        /\ ackSeen' = ackSeen \cup {k.n}
        /\ UNCHANGED <<len, cursor, through, gen, genDisk, frames, recv, heard, bounds>>

(***************************************************************************)
(* Steps of the receivers.                                                 *)
(***************************************************************************)
\* A frame whose generation is still unopened here reaches the engine.
Receive(n) ==
    \E f \in frames :
        LET got == NetDelivered([recv[n] EXCEPT !.used = @ \cup {f.g}], f.s)
        IN  /\ n \in f.to /\ f.g \notin recv[n].used
            /\ recv' = [recv EXCEPT ![n] = got.r]
            /\ heard' = [heard EXCEPT ![n] = @ \o got.out]
            /\ UNCHANGED <<sender, frames, sheets, bounds>>

\* release_stale_parked: a predecessor that did not come in time.
ReleaseStaleParked(n) ==
    \E s \in recv[n].park :
        LET got == DeliverGated([r |-> [recv[n] EXCEPT !.park = @ \ {s}], out |-> <<>>], s)
        IN  /\ valves < MaxValve /\ valves' = valves + 1
            /\ recv' = [recv EXCEPT ![n] = got.r]
            /\ heard' = [heard EXCEPT ![n] = @ \o got.out]
            /\ UNCHANGED <<sender, frames, sheets, lost, lostSheets, crashes>>

\* The park for declines fills up or has room again: cards and declines that
\* other members sent.
DeclineParkTurns(n) ==
    /\ recv' = [recv EXCEPT ![n].full = ~@]
    /\ UNCHANGED <<sender, frames, heard, sheets, bounds>>

\* Only a new high mark makes a new sheet.
FlushHighFaulty(n) ==
    LET r == recv[n]
        news == r.win # NoWindow /\ r.win.high # r.sheet.high
    IN  /\ r.due
        /\ recv' = [recv EXCEPT ![n].due = FALSE, ![n].sheet = IF news THEN r.win ELSE @]
        /\ sheets' = IF news THEN sheets \cup {[n |-> n, w |-> r.win]} ELSE sheets
        /\ UNCHANGED <<sender, frames, heard, bounds>>

\* flush_group_ack: a sheet that says what the last one said is not sent.
FlushGroupAck(n) ==
    LET r == recv[n]
        news == r.win # NoWindow /\ r.win # r.sheet
    IN  /\ r.due
        /\ recv' = [recv EXCEPT ![n].due = FALSE, ![n].sheet = IF news THEN r.win ELSE @]
        /\ \/ news /\ sheets' = sheets \cup {[n |-> n, w |-> r.win]} /\ UNCHANGED lostSheets
           \/ ~news /\ UNCHANGED <<sheets, lostSheets>>
           \/ /\ news /\ lostSheets < MaxLostSheets
              /\ lostSheets' = lostSheets + 1 /\ UNCHANGED sheets
        /\ UNCHANGED <<sender, frames, heard, lost, crashes, valves>>

\* The debounced saves run on clocks of their own.  (After the last kill the
\* bound allows, nobody reads the disk again.)
SaveAccepted(n) ==
    /\ crashes < MaxCrash /\ recv[n].winDisk # recv[n].win
    /\ recv' = [recv EXCEPT ![n].winDisk = recv[n].win]
    /\ UNCHANGED <<sender, frames, heard, sheets, bounds>>

PersistMls(n) ==
    /\ crashes < MaxCrash /\ recv[n].usedDisk # recv[n].used
    /\ recv' = [recv EXCEPT ![n].usedDisk = recv[n].used]
    /\ UNCHANGED <<sender, frames, heard, sheets, bounds>>

PersistMlsOfSender ==
    /\ crashes < MaxCrash /\ genDisk # gen
    /\ genDisk' = gen
    /\ UNCHANGED <<len, cursor, through, floor, ackSeen, gen, frames, recv, heard, sheets, bounds>>

\* A kill and the reopen: windows and ratchet come back as they were saved;
\* the park, the armed ack and the last sheet are gone.  The events the
\* engine applied are in its log.
Crash(n) ==
    /\ crashes < MaxCrash /\ crashes' = crashes + 1
    /\ recv' = [recv EXCEPT ![n] = [InitRecv EXCEPT
                    !.win = recv[n].winDisk, !.winDisk = recv[n].winDisk,
                    !.used = recv[n].usedDisk, !.usedDisk = recv[n].usedDisk]]
    /\ UNCHANGED <<sender, frames, heard, sheets, lost, lostSheets, valves>>

\* The sender's outbox starts over at its cursor, with an older ratchet: it
\* may frame with generations its peers have already opened.
CrashOfSender ==
    /\ crashes < MaxCrash /\ crashes' = crashes + 1
    /\ gen' = genDisk /\ through' = cursor
    /\ UNCHANGED <<len, cursor, floor, ackSeen, genDisk, frames, recv, heard, sheets, lost,
                   lostSheets, valves>>

Next ==
    \/ Record \/ Publish \/ PersistCursor \/ Rewind \/ ApplyGroupAck
    \/ PersistMlsOfSender \/ CrashOfSender
    \/ \E n \in Receiver :
        \/ Receive(n) \/ ReleaseStaleParked(n) \/ FlushGroupAck(n)
        \/ DeclineParkTurns(n) \/ SaveAccepted(n) \/ PersistMls(n) \/ Crash(n)

Spec == Init /\ [][Next]_vars

(***************************************************************************)
(* Properties.                                                             *)
(***************************************************************************)
Window == [high : Nat, marks : SUBSET Seqs]

\* The cursor never runs ahead of the log, and the marks of a window lie in
\* its width.
TypeOK ==
    /\ len \in 0 .. LogEnd /\ cursor \in 0 .. through /\ through \in 0 .. len
    /\ floor \in [Receiver -> 0 .. len] /\ ackSeen \in SUBSET Receiver
    /\ gen \in Nat /\ genDisk \in 0 .. gen
    /\ frames \in SUBSET [g : Nat, s : Seqs, to : SUBSET Receiver]
    /\ recv \in [Receiver -> [win : Window, winDisk : Window, used : SUBSET Nat,
                              usedDisk : SUBSET Nat, park : SUBSET Seqs, full : BOOLEAN,
                              due : BOOLEAN, sheet : Window]]
    /\ \A n \in Receiver :
        \A s \in recv[n].win.marks : recv[n].win.high - s \in 0 .. Width
    /\ heard \in [Receiver -> Seq(Seqs)]
    /\ sheets \in SUBSET [n : Receiver, w : Window]

HeardSet(n) == {heard[n][i] : i \in DOMAIN heard[n]}

\* G7 with no valve and no kill: from the envelope a receiver starts with, it
\* hears the sender's envelopes in order, without a gap and once; what came
\* before that envelope it hears in order as well, and without a gap except
\* for what had aged out of the window when it came (cmd_net_delivered).
InOrderFromTheBaseline ==
    crashes = 0 /\ valves = 0 => \A n \in Receiver : \A i, j \in DOMAIN heard[n] :
        LET a == heard[n][i]
            b == heard[n][j]
            base == heard[n][1]
        IN  i < j => /\ a # b
                     /\ b < a => b < base /\ a >= base
                     /\ (b # base /\ Prev(b) # 0) =>
                            \E k \in 1 .. j - 1 :
                                \/ heard[n][k] = Prev(b)
                                \/ b < base /\ Prev(b) < heard[n][k] - Width

\* What the sender holds for confirmed was applied by the receiver's engine,
\* whatever was lost, killed or released in between (acked_floor: "confirmed
\* ENGINE-accepted").  Only what had aged out below the envelope a receiver
\* started with is taken on trust.
ConfirmedIsHeard ==
    \A n \in Receiver : \A s \in Ackable :
        s <= floor[n] => s \in HeardSet(n) \/ \E b \in HeardSet(n) : s < b - Width

\* As long as no sheet was lost, the ack a delivery arms is spent on a sheet,
\* unless the sender knows it all already or a sheet is still on its way ("fresh OR duplicate, the sender is
\* owed a (debounced) ACK", deliver_gated; flush_group_ack).
OwedAckIsSent ==
    [][\A n \in Receiver :
            recv[n].due /\ ~recv'[n].due /\ crashes' = 0 /\ lostSheets' = 0 =>
                \/ \E k \in sheets' : k.n = n
                \/ ~ \E s \in Ackable :
                        floor[n] < s /\ s <= AdvanceAckedFloor(recv[n].win, floor[n])]_vars

\* The first own envelope a receiver misses is never lost on it: offered once
\* more, it is applied, whatever was parked, shed, lost or released before;
\* after a kill, whose older window may hold it in the park, it is at least not
\* taken for accepted.  Excepted are what had aged out below an envelope that
\* was heard, and a decline while its park is full, which must not count as
\* accepted meanwhile ("the sender's resend re-earns it once the park has room",
\* deliver_gated; cmd_net_delivered, park_ordered, take_ready_parked).
FirstMissingGetsIn ==
    \A n \in Receiver : \A s \in Ackable \ HeardSet(n) :
        LET agedOut(x) == \E b \in HeardSet(n) : x < b - Width
        IN  /\ \A x \in Ackable : x < s => x \in HeardSet(n) \/ agedOut(x)
            /\ ~agedOut(s) /\ ~(s \in Declines /\ recv[n].full)
            => \/ s \in ToSet(NetDelivered(recv[n], s).out)
               \/ crashes > 0 /\ ~IsAccepted(recv[n].win, s)

\* The bitmap a window is kept as never leads the accept point astray: for the
\* windows receivers come to hold, and whatever seq comes next, however far
\* above or below the high mark, the words answer what the set answers, stay
\* words, and after accepting read as the set after accepting: no shift moves,
\* drops or invents a mark (AcceptedWindow::is_accepted, accept, shift_up).
ReadsAsTheSet ==
    \A n \in Receiver :
        LET w == recv[n].win
            bs == WordsOf(w)
        IN  \A seq \in 1 .. w.high + Width + 2 :
                /\ BitIsAccepted(w.high, bs, seq) <=> IsAccepted(w, seq)
                /\ ~IsAccepted(w, seq) =>
                    LET after == AcceptSeq(w, seq)
                    IN  /\ BitAccept(w.high, bs, seq) \in Bitmap
                        /\ Reads(after.high, BitAccept(w.high, bs, seq)) = after
=============================================================================
