---------------------------- MODULE AcceptWindow ----------------------------
(***************************************************************************)
(* The accept window of one sender (AcceptedWindow, molt-core/src/lib.rs): *)
(* first as the plain set it stands for, which is what module Delivery     *)
(* works with, then word by word as it is kept: a high mark and, below it, *)
(* a bitmap that is shifted across words with a carry.  Delivery's         *)
(* ReadsAsTheSet says that the two agree.                                  *)
(***************************************************************************)
EXTENDS Integers, FiniteSetsExt

CONSTANTS
    WordBits,   \* bits of one word (64 in the code)
    Words       \* words of the bitmap (16 in the code)

ASSUME WindowAssumption == WordBits \in Nat \ {0} /\ Words \in Nat \ {0}

\* ACCEPT_WINDOW_BITS
Width == WordBits * Words

(***************************************************************************)
(* The window as a set: everything below high - Width reads as accepted.   *)
(***************************************************************************)
NoWindow == [high |-> 0, marks |-> {}]

IsAccepted(w, s) == w.high > 0 /\ (s \in w.marks \/ s < w.high - Width)

AcceptSeq(w, s) ==
    LET h == IF s > w.high THEN s ELSE w.high
    IN  [high |-> h, marks |-> {x \in w.marks \cup {s} : x >= h - Width}]

(***************************************************************************)
(* The window as words.                                                    *)
(***************************************************************************)
WordIndex == 0 .. Words - 1

Bitmap == [WordIndex -> 0 .. 2^WordBits - 1]

Zero == [w \in WordIndex |-> 0]

HasBit(word, b) == (word \div 2^b) % 2 = 1

BitIsAccepted(h, bs, seq) ==
    LET offset == h - 1 - seq
    IN  /\ h > 0 /\ seq <= h
        /\ \/ seq = h
           \/ offset >= Width
           \/ HasBit(bs[offset \div WordBits], offset % WordBits)

SetBit(bs, offset) ==
    LET w == offset \div WordBits
        b == offset % WordBits
    IN  IF HasBit(bs[w], b) THEN bs ELSE [bs EXCEPT ![w] = @ + 2^b]

\* The carry comes from the word itself instead of the one below it.
CarryFaulty(bs, by) ==
    LET n == by \div WordBits
        k == by % WordBits
        lower(w) == IF w >= n THEN bs[w - n] ELSE 0
        carry(w) == IF k > 0 /\ w >= n THEN bs[w - n] \div 2^(WordBits - k) ELSE 0
    IN  IF by >= Width THEN Zero
        ELSE [w \in WordIndex |-> ((lower(w) * 2^k) % 2^WordBits) + carry(w)]

\* The bits that leave a word are not cut off.
OverflowFaulty(bs, by) ==
    LET n == by \div WordBits
        k == by % WordBits
        lower(w) == IF w >= n THEN bs[w - n] ELSE 0
    IN  IF by >= Width THEN Zero ELSE [w \in WordIndex |-> lower(w) * 2^k]

\* shift_up: lower << k, cut to the word, with the carry of the word below.
ShiftUp(bs, by) ==
    LET n == by \div WordBits
        k == by % WordBits
        lower(w) == IF w >= n THEN bs[w - n] ELSE 0
        carry(w) == IF k > 0 /\ w > n THEN bs[w - n - 1] \div 2^(WordBits - k) ELSE 0
    IN  IF by >= Width THEN Zero
        ELSE [w \in WordIndex |-> ((lower(w) * 2^k) % 2^WordBits) + carry(w)]

\* The bitmap after seq, which is above the high mark: the old high mark
\* becomes a bit unless there was none or it aged past the window.
Slide(h, bs, seq) ==
    LET shift == seq - h
    IN  IF h > 0 /\ shift <= Width THEN SetBit(ShiftUp(bs, shift), shift - 1)
        ELSE ShiftUp(bs, shift)

\* The bitmap after a seq that was not accepted yet.
BitAccept(h, bs, seq) ==
    IF seq > h THEN Slide(h, bs, seq) ELSE SetBit(bs, h - 1 - seq)

\* The marks a bitmap below the high mark h stands for.
Reads(h, bs) ==
    [high |-> h,
     marks |-> {s \in 1 .. h : s = h \/ (h - 1 - s < Width /\ BitIsAccepted(h, bs, s))}]

\* The words a window is kept as.
WordsOf(w) ==
    [i \in WordIndex |->
        MapThenSumSet(LAMBDA b : 2^b,
                      {b \in 0 .. WordBits - 1 : w.high - 1 - (i * WordBits + b) \in w.marks})]
=============================================================================
