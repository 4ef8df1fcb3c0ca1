------------------------------ MODULE MdiRing ------------------------------
(***************************************************************************)
(* The DSP-to-MCU (d2m) ring of the HPI shared RAM, from mad2/dsp/mdi.h.   *)
(* A ring cell holds one halfword.  The DSP owns the producer cursor, the  *)
(* MCU owns the consumer cursor, and equal cursors mean an empty ring, so  *)
(* one cell always stays unused.  The stored cursors are 0x80 .. 0xE3; the *)
(* base 0x80 is left out here, so an index is 0 .. Slots - 1.              *)
(*                                                                         *)
(* Operators marked "Wrong on purpose", here and in the other modules, are *)
(* not part of the model: each is a variant with a plausible mistake that  *)
(* takes the place of the next definition to show that a property notices. *)
(***************************************************************************)
EXTENDS Integers, Sequences, FiniteSets

CONSTANT Slots      \* cells of the ring: MDI_RING_SLOTS = 100 in the code

ASSUME SlotsAssumption == Slots \in Nat /\ Slots >= 2

Index == 0 .. Slots - 1

\* Occupancy: how many cells the producer is ahead of the consumer.
Avail(producer, consumer) == (producer + Slots - consumer) % Slots

\* Wrong on purpose: the cursor does not wrap.
Forward_NoWrap(i, n) == i + n

\* A cursor moved n cells forward, wrapping at the end of the ring.
Forward(i, n) == (i + n) % Slots

\* A record is its frame word and its payload rounded up to whole halfwords.
RecWords(len) == 1 + (len + 1) \div 2

\* Wrong on purpose: no reserved cell.
Fits_NoReserve(producer, consumer, words) == Avail(producer, consumer) + words <= Slots

\* One cell is reserved: a full ring would look like an empty one.
Fits(producer, consumer, words) == Avail(producer, consumer) + words <= Slots - 1

\* The ring after the words have been written from the producer's cell on,
\* through the wrap if need be.
Deposit(ring, producer, words) ==
    [i \in Index |-> IF Avail(i, producer) < Len(words)
                     THEN words[Avail(i, producer) + 1]
                     ELSE ring[i]]

\* What a reader at cell c still has to read, oldest first.
Window(ring, producer, c) ==
    [k \in 1 .. Avail(producer, c) |-> ring[Forward(c, k - 1)]]
=============================================================================
