---------------------------- MODULE Rom6Frames -----------------------------
(***************************************************************************)
(* The frame arithmetic of the 3410 DSP engine (mad2/dsp/dsp_rom6.c): from *)
(* a time in cycles of the MCU to the TDMA frame that a block of the cell   *)
(* is stamped with, and back to the cycle at which a slot is due.  The     *)
(* firmware checks these stamps against its own schedule and drops a block *)
(* that is stamped wrong, so a phone that does not camp or register is     *)
(* what a mistake here looks like.                                         *)
(*                                                                         *)
(* Frames are counted modulo a hyperframe, multiframes of 51 frames start  *)
(* with it.  Byte packing is arithmetic: a shift is a power of two, an or  *)
(* of disjoint bits a sum.                                                 *)
(***************************************************************************)
EXTENDS Integers

Cpf == 60000                            \* cycles of a frame
Hyperframe == 26 * 51 * 2048
FrameAt(cycles) == (cycles \div Cpf) % Hyperframe

T3(fn) == fn % 51                       \* place in the multiframe
Multiframe(fn) == fn \div 51

\* A negative frame is a large unsigned one before it is reduced, and 2^32 is
\* no multiple of the hyperframe.
WrapRest == 1527808                     \* 2^32 % Hyperframe
Unsigned(n) == IF n >= 0 THEN n % Hyperframe ELSE (n + WrapRest) % Hyperframe

-----------------------------------------------------------------------------
(* Synchronisation and broadcast. *)

SchSlots == {1, 11, 21, 31, 41}

\* The last frame of synchronisation up to fn.
LastSchFn(fn) ==
    LET past == {s \in SchSlots : s <= T3(fn)}
    IN  IF past = {} THEN Unsigned(fn - T3(fn) - 51 + 41)
        ELSE Unsigned(fn - T3(fn) + CHOOSE s \in past : \A t \in past : t <= s)

\* The last broadcast frame up to fn in the turn tc of the eight kinds.
LastBcchFn(fn, tc) ==
    LET back == (Multiframe(fn) - tc) % 8
        this == 51 * (Multiframe(fn) - back) + 2
    IN  IF Multiframe(fn) < back \/ this > fn THEN Unsigned(this - 8 * 51) ELSE Unsigned(this)

\* The four octets of synchronisation information of a frame that carries it.
SchInfo(bsic, fn) ==
    LET t1 == (fn \div 1326) % 2048
        t3 == (T3(fn) - 1) \div 10
    IN  <<(bsic * 4 + t1 \div 512) % 256, (t1 \div 2) % 256,
          (t1 % 2) * 128 + (fn % 26) * 4 + t3 \div 2, (t3 % 2) * 128>>

-----------------------------------------------------------------------------
(* Random access. *)

\* The frame of a channel request: carried by it, or an offset from now.
RequestFn(carried, fn, now, offset) == IF carried THEN fn ELSE (now + offset) % 42432

\* The octets of the assignment that say which request it answers.
ImmAssign(reqfn) ==
    LET fn == reqfn % 42432
    IN  <<((fn \div 1326) % 32) * 8 + T3(fn) \div 8, (T3(fn) % 8) * 32 + (fn % 26)>>

Offsets == <<6, 12, 16, 22, 26, 32, 36, 42, 46>>
CcchOffsets == {Offsets[i] : i \in 1 .. 9}

\* The first block of the common control channel from afn on.
NextCcch(afn) ==
    LET left == {o \in CcchOffsets : o >= T3(afn)}
        at == IF left = {} THEN 51 + 6 ELSE CHOOSE o \in left : \A p \in left : o <= p
    IN  (afn - T3(afn) + at) % Hyperframe

-----------------------------------------------------------------------------
(* Paging and the dedicated channel. *)

\* The phone listens in every other multiframe and at one offset, which the last
\* three digits of its identity choose.
PagingPhase(mod1000) == (mod1000 % 18) \div 9
PagingOffset(mod1000) == Offsets[1 + ((mod1000 % 18) % 9)]

\* The next cycle at which it listens.
NextPagingGroup(cycles, phase, offset) ==
    LET mf == Multiframe(cycles \div Cpf)
        target == ((mf + ((phase + 2 - (mf % 2)) % 2)) * 51 + offset) * Cpf
    IN  IF target <= cycles THEN target + 2 * 51 * Cpf ELSE target

\* From one page to the next, and from the last of a series to the next series.
NextBurst(cycle) == cycle + 2 * 51 * Cpf
BackOff(cycle) == cycle + 8 * 51 * Cpf

\* The frame a page is stamped with.
PagingFn(cur, offset) ==
    LET base == cur - T3(cur)
    IN  IF base + offset > cur /\ base >= 51 THEN base - 51 + offset ELSE base + offset

\* The first downlink slot and the first block request of a new dedicated channel.
NextAt(cycles, t3) ==
    LET at == cycles - (cycles % Cpf) + ((t3 + 51 - T3(FrameAt(cycles))) % 51) * Cpf
    IN  IF at <= cycles THEN at + 51 * Cpf ELSE at
FirstSlot(cycles) == NextAt(cycles, 0)
FirstRequest(cycles) ==
    IF NextAt(cycles, 15) < FirstSlot(cycles) THEN NextAt(cycles, 15) + 51 * Cpf ELSE NextAt(cycles, 15)

-----------------------------------------------------------------------------
(* What the firmware makes of it (external). *)

\* The frame that synchronisation information stands for.
SchDecoded(L2) ==
    LET t1 == (L2[1] % 4) * 512 + L2[2] * 2 + L2[3] \div 128
        t2 == (L2[3] \div 4) % 32
        t3 == 10 * ((L2[3] % 4) * 2 + L2[4] \div 128) + 1
    IN  1326 * t1 + 51 * ((t3 - t2) % 26) + t3

\* What it records of its request when the burst is reported, and what it reads from
\* an assignment.
Recorded(fn) == <<(fn \div 1326) % 32, fn % 51, fn % 26>>
Quoted(L2) == <<L2[1] \div 8, (L2[1] % 8) * 8 + L2[2] \div 32, L2[2] % 32>>
=============================================================================
