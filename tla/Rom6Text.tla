------------------------------ MODULE Rom6Text ------------------------------
(***************************************************************************)
(* How the 3410 DSP engine (mad2/dsp/dsp_rom6.c) codes numbers and texts   *)
(* on the air, reads those of the phone, and cuts a binary message into    *)
(* parts.                                                                  *)
(*                                                                         *)
(* A string is a function from 0 on.  An octet of a text is its eight bits *)
(* and a septet its seven, so that a shift is a change of index and an or  *)
(* a disjunction; an octet of a number is its two halves.                  *)
(***************************************************************************)
EXTENDS Integers

Least(a, b) == IF a <= b THEN a ELSE b

-----------------------------------------------------------------------------
(* Numbers: two digits an octet, the first in the low half, filled with 15. *)

DigitsMax == 20
Number(n) == [0 .. n - 1 -> 0 .. 9]

EncodeDigits(d, n) ==
    [j \in 0 .. ((n + 1) \div 2) - 1 |->
        [lo |-> d[2 * j], hi |-> IF 2 * j + 1 < n THEN d[2 * j + 1] ELSE 15]]

Half(e, i) == IF i % 2 = 1 THEN e[i \div 2].hi ELSE e[i \div 2].lo

\* The first len digits; len is 0 when there is no number to be read.
Digits(e, len) == [len |-> len, d |-> [i \in 0 .. len - 1 |-> Half(e, i)]]

\* The filler may end the number, and nothing else that is no digit may occur.
DecodeDigits(e, bytes, digits) ==
    LET last == Half(e, digits - 1)
    IN  IF digits \notin 1 .. DigitsMax \/ bytes < (digits + 1) \div 2 THEN Digits(e, 0)
        ELSE IF \E i \in 0 .. digits - 2 : Half(e, i) > 9 THEN Digits(e, 0)
        ELSE IF last = 15 THEN Digits(e, digits - 1)
        ELSE IF last > 9 THEN Digits(e, 0)
        ELSE Digits(e, digits)

\* The number a call of the phone goes to: a zero before the filler is taken for
\* a filler of its own.
MoNumber(e, bytes) ==
    LET r == DecodeDigits(e, bytes, 2 * bytes)
    IN  IF r.len > 0 /\ r.d[r.len - 1] = 0 /\ e[bytes - 1].hi = 15 THEN Digits(e, r.len - 1) ELSE r

-----------------------------------------------------------------------------
(* Texts: septets in a row, from the low bit of the first octet on. *)

TextMax == 120
ReadMax == 160
Septet == [0 .. 6 -> BOOLEAN]
Text(n) == [0 .. n - 1 -> Septet]

\* 32 to 126.
Printable(s) == (s[5] \/ s[6]) /\ \E k \in 0 .. 6 : ~s[k]
Space == [k \in 0 .. 6 |-> k = 5]

\* The text the host queues is printable and not longer than a message.
CopySms(c, n) ==
    [i \in 0 .. Least(n, TextMax) - 1 |->
        LET s == [k \in 0 .. 6 |-> c[i][k]]
        IN  IF ~c[i][7] /\ Printable(s) THEN s ELSE Space]

Byte(i) == (7 * i) \div 8               \* where septet i begins
Shift(i) == (7 * i) % 8
Octets(n) == (7 * n + 7) \div 8

\* Septet s of place i sets bit k of octet j: in the octet it begins in, or with
\* what is left of it in the next.
Sets(s, i, j, k) ==
    \/ j = Byte(i) /\ k - Shift(i) \in 0 .. 6 /\ s[k - Shift(i)]
    \/ Shift(i) > 1 /\ j = Byte(i) + 1 /\ k + 8 - Shift(i) \in 0 .. 6 /\ s[k + 8 - Shift(i)]

Pack(t, n) ==
    [j \in 0 .. Octets(n) - 1 |-> [k \in 0 .. 7 |-> \E i \in 0 .. n - 1 : Sets(t[i], i, j, k)]]

\* What stands at place i of len packed octets.
At(p, len, i) ==
    [k \in 0 .. 6 |->
        \/ k + Shift(i) <= 7 /\ p[Byte(i)][k + Shift(i)]
        \/ /\ Shift(i) > 1 /\ Byte(i) + 1 < len
           /\ k >= 8 - Shift(i) /\ p[Byte(i) + 1][k - (8 - Shift(i))]]

Unpack(p, len, septets) ==
    [i \in {i \in 0 .. Least(septets, ReadMax) - 1 : Byte(i) < len} |->
        IF Printable(At(p, len, i)) THEN At(p, len, i) ELSE Space]

-----------------------------------------------------------------------------
(* Messages: the parts of a binary one, and the lengths of what is built. *)

UserMax == 140
OnePart == UserMax - 7
PartCap == UserMax - 12

Parts(len) == IF len <= OnePart THEN 1 ELSE (len + PartCap - 1) \div PartCap
Cap(len) == IF Parts(len) > 1 THEN PartCap ELSE OnePart

\* Part i of a message, from 0, with the full parts before it.
From(len, i) == i * Cap(len)
Chunk(len, i) == Least(len - From(len, i), Cap(len))

\* The octets after the length of the user data, the header with its own.
Header(parts) == (IF parts > 1 THEN 11 ELSE 6) + 1
BinaryUser(parts, n) == Header(parts) + Least(n, UserMax - Header(parts))

Tpdu(digits, user) == 3 + (digits + 1) \div 2 + 2 + 7 + 1 + user
Rpdu(tpdu) == 2 + 1 + 6 + 1 + 1 + tpdu
L3(rpdu) == 3 + rpdu
Segments(l3) == (l3 + 19) \div 20       \* 20 octets a LAPDm frame
=============================================================================
