-------------------------------- MODULE Mbus --------------------------------
(***************************************************************************)
(* The MBUS UART (mad2/mad2_mbus.c, the registers 0x18, 0x19, 0x1A and the *)
(* FIQ registers of mad2/mad2_bus.c, the MBUS part of mad2_timers_tick),   *)
(* between the host's service tool and the firmware.                       *)
(*                                                                         *)
(* The firmware is outside the repository.  What it does is taken from the *)
(* comments that describe it (mad2.h:330-335, mad2_bus.c:557-569): it      *)
(* unmasks FIQ3 to start a frame, the FIQ3 handler sends byte 0, and each  *)
(* FIQ2 reads a byte, loads the next one, or ends the frame.  Ticks fall   *)
(* between any two of its register accesses.                               *)
(*                                                                         *)
(* Bytes are numbered in the order they are first given to the UART.       *)
(*                                                                         *)
(* Operators marked "Wrong on purpose" are variants with a plausible       *)
(* mistake and not part of the model, see MdiRing.                         *)
(***************************************************************************)
EXTENDS Integers, Sequences

CONSTANTS
    FifoSize,       \* bytes of the receive FIFO (16)
    OutSize,        \* bytes of the ring the host drains (64)
    FrameLens,      \* lengths of the frames the firmware sends
    MaxIn,          \* bound: bytes the host pushes
    MaxOut          \* bound: bytes the firmware sends

ASSUME MbusAssumption ==
    /\ FifoSize \in Nat \ {0} /\ OutSize \in Nat \ {0}
    /\ FrameLens \subseteq Nat \ {0}
    /\ MaxIn \in Nat /\ MaxOut \in Nat

VARIABLES
    uart,           \* the registers, the rings and the FIQ bits it drives
    fw,             \* the firmware: where it is, what it sent of its frame
    wire            \* what has crossed: pushed, heard, shifted out

vars == <<uart, fw, wire>>

-----------------------------------------------------------------------------
(* The UART. *)

RxLevel(u) == u.rxdrdy /\ u.rxen
TxLevel(u) == u.txe /\ u.txen
Level(u)   == RxLevel(u) \/ TxLevel(u)

\* A received byte raises FIQ2 while the receiver is enabled.
Signal(u) ==
    IF u.fifo # <<>> /\ u.rxen THEN [u EXCEPT !.rxdrdy = TRUE, !.fiq2 = TRUE] ELSE u

Push(u, b) ==
    IF Len(u.fifo) < FifoSize THEN Signal([u EXCEPT !.fifo = Append(@, b)]) ELSE u

\* Wrong on purpose: the last byte's read drops FIQ2 whatever the transmitter says.
Pop_DropsTx(u) ==
    LET v == [u EXCEPT !.fifo = Tail(@)]
    IN  IF v.fifo = <<>> THEN [v EXCEPT !.rxdrdy = FALSE, !.fiq2 = FALSE] ELSE v

\* A read of the data register.
Pop(u) ==
    LET v == [u EXCEPT !.fifo = Tail(@)]
    IN  IF v.fifo = <<>> THEN [v EXCEPT !.rxdrdy = FALSE, !.fiq2 = @ /\ TxLevel(v)] ELSE v

\* Wrong on purpose: enabling the transmitter does not look at the level.
WriteCtrl_NoRaise(u, tx, rx) ==
    LET v == [u EXCEPT !.txen = tx, !.rxen = rx] IN [v EXCEPT !.fiq2 = @ /\ Level(v)]

WriteCtrl(u, tx, rx) ==
    LET v == [u EXCEPT !.txen = tx, !.rxen = rx] IN [v EXCEPT !.fiq2 = Level(v)]

\* A write of the data register.
LoadTx(u, b) ==
    [u EXCEPT !.txe = FALSE, !.fiq2 = FALSE, !.byte = b, !.pending = TRUE, !.shifting = TRUE]

\* Wrong on purpose: an acknowledge clears the bit for good.
AckFiq2_NoReraise(u) == [u EXCEPT !.fiq2 = FALSE]

\* An acknowledge clears the bit, and a level still up sets it again.
AckFiq2(u) == [u EXCEPT !.fiq2 = Level(u)]

\* Wrong on purpose: every unmask starts a frame.
MaskFiq3_AlwaysKicks(u, m) ==
    [u EXCEPT !.mask3 = m, !.kick = @ \/ (u.mask3 /\ ~m)]

\* Unmasking FIQ3 while the transmitter is off starts a frame.
MaskFiq3(u, m) ==
    [u EXCEPT !.mask3 = m, !.kick = @ \/ (u.mask3 /\ ~m /\ ~u.txen)]

\* FIQ3's deadline has come.
KickDone(u) == [u EXCEPT !.kick = FALSE, !.fiq3 = TRUE]

\* Wrong on purpose: no look at the room in the ring.
ShiftDone_NoRoomCheck(u) ==
    [u EXCEPT !.shifting = FALSE, !.txe = TRUE, !.pending = FALSE,
              !.out = IF u.pending THEN Append(@, u.byte) ELSE @,
              !.fiq2 = @ \/ u.txen]

\* The loaded byte has been shifted out.
ShiftDone(u) ==
    [u EXCEPT !.shifting = FALSE, !.txe = TRUE, !.pending = FALSE,
              !.out = IF u.pending /\ Len(@) < OutSize THEN Append(@, u.byte) ELSE @,
              !.fiq2 = @ \/ u.txen]

\* The host feeds a byte only into an empty FIFO whose receiver is on.
MayFeed(u) == u.rxen /\ u.fifo = <<>> /\ wire.pushed < MaxIn

-----------------------------------------------------------------------------
Init ==
    /\ uart = [fifo |-> <<>>, rxdrdy |-> FALSE, rxen |-> FALSE, txen |-> FALSE,
               txe |-> FALSE, byte |-> 0, pending |-> FALSE, shifting |-> FALSE,
               out |-> <<>>, kick |-> FALSE, fiq2 |-> FALSE, fiq3 |-> FALSE,
               mask3 |-> TRUE]
    /\ fw = [at |-> "main", base |-> 0, len |-> 0, sent |-> 0,
             acked |-> FALSE, served |-> FALSE]
    /\ wire = [pushed |-> 0, heard |-> 0, shifted |-> 0]

\* The tick after an instruction, and the host: FIQ3's deadline, the byte
\* shifting out, then the host's feed and drain.
Tick(kicks, shifts) ==
    \E feeds, drains \in BOOLEAN :
      /\ kicks => uart.kick
      /\ shifts => uart.shifting
      /\ LET u1 == IF kicks THEN KickDone(uart) ELSE uart
             u2 == IF shifts THEN ShiftDone(u1) ELSE u1
             u3 == IF feeds THEN Push(u2, wire.pushed + 1) ELSE u2
         IN  /\ feeds => MayFeed(u2)
             /\ uart' = IF drains THEN [u3 EXCEPT !.out = <<>>] ELSE u3
             /\ wire' = [wire EXCEPT !.pushed = IF feeds THEN @ + 1 ELSE @,
                                     !.shifted = IF shifts THEN @ + 1 ELSE @]
      /\ UNCHANGED fw

-----------------------------------------------------------------------------
(* The firmware (external). *)

At(place) == fw.at = place
Goto(place) == fw' = [fw EXCEPT !.at = place]

\* The main program opens or closes the receiver.
SetRx ==
    /\ At("main")
    /\ uart' = WriteCtrl(uart, uart.txen, ~uart.rxen)
    /\ UNCHANGED <<fw, wire>>

\* The main program starts a frame: FIQ3 is masked, then unmasked.
StartFrame ==
    /\ At("main") /\ fw.len = 0
    /\ \E n \in FrameLens :
         /\ fw.base + n <= MaxOut
         /\ fw' = [fw EXCEPT !.len = n, !.at = "unmask"]
    /\ uart' = MaskFiq3(uart, TRUE)
    /\ UNCHANGED wire

Unmask ==
    /\ At("unmask") /\ Goto("main")
    /\ uart' = MaskFiq3(uart, FALSE)
    /\ UNCHANGED wire

EnterFiq3 ==
    /\ At("main") /\ uart.fiq3 /\ ~uart.mask3
    /\ Goto("load")
    /\ UNCHANGED <<uart, wire>>

\* The FIQ3 handler: byte 0, transmitter on, FIQ3 masked and acknowledged.
KickLoad ==
    /\ At("load")
    /\ uart' = LoadTx(uart, fw.base + 1)
    /\ fw' = [fw EXCEPT !.at = "enable", !.sent = 1]
    /\ UNCHANGED wire

KickEnable ==
    /\ At("enable") /\ Goto("mask")
    /\ uart' = WriteCtrl(uart, TRUE, uart.rxen)
    /\ UNCHANGED wire

KickMask ==
    /\ At("mask") /\ Goto("ack3")
    /\ uart' = MaskFiq3(uart, TRUE)
    /\ UNCHANGED wire

KickAck ==
    /\ At("ack3") /\ Goto("main")
    /\ uart' = [uart EXCEPT !.fiq3 = FALSE]
    /\ UNCHANGED wire

\* The FIQ2 handler does one thing, and acknowledges before or after it.
EnterFiq2 ==
    /\ At("main") /\ uart.fiq2
    /\ fw' = [fw EXCEPT !.at = "fiq2", !.acked = FALSE, !.served = FALSE]
    /\ UNCHANGED <<uart, wire>>

Ack2 ==
    /\ At("fiq2") /\ ~fw.acked
    /\ uart' = AckFiq2(uart)
    /\ fw' = [fw EXCEPT !.acked = TRUE]
    /\ UNCHANGED wire

ReadByte ==
    /\ At("fiq2") /\ ~fw.served /\ RxLevel(uart)
    /\ uart' = Pop(uart)
    /\ wire' = [wire EXCEPT !.heard = Head(uart.fifo)]
    /\ fw' = [fw EXCEPT !.served = TRUE]

\* The next byte; FIQ3 is unmasked again after it.
NextByte ==
    /\ At("fiq2") /\ ~fw.served /\ TxLevel(uart) /\ fw.sent < fw.len
    /\ uart' = LoadTx(uart, fw.base + fw.sent + 1)
    /\ fw' = [fw EXCEPT !.at = "remask", !.sent = @ + 1, !.served = TRUE]
    /\ UNCHANGED wire

Remask ==
    /\ At("remask") /\ Goto("fiq2")
    /\ uart' = MaskFiq3(uart, FALSE)
    /\ UNCHANGED wire

\* After the last byte the transmitter is switched off.
EndFrame ==
    /\ At("fiq2") /\ ~fw.served /\ TxLevel(uart) /\ fw.sent = fw.len
    /\ uart' = WriteCtrl(uart, FALSE, uart.rxen)
    /\ fw' = [fw EXCEPT !.base = @ + fw.len, !.len = 0, !.sent = 0, !.served = TRUE]
    /\ UNCHANGED wire

Leave2 ==
    /\ At("fiq2") /\ fw.acked /\ fw.served /\ Goto("main")
    /\ UNCHANGED <<uart, wire>>

Kick == KickLoad \/ KickEnable \/ KickMask \/ KickAck
Fiq2 == Ack2 \/ ReadByte \/ NextByte \/ Remask \/ EndFrame \/ Leave2

Next ==
    \/ \E kicks, shifts \in BOOLEAN : Tick(kicks, shifts)
    \/ SetRx \/ StartFrame \/ Unmask \/ EnterFiq3 \/ Kick \/ EnterFiq2 \/ Fiq2

\* Deadlines come; a FIQ that stays pending is entered, a handler ends, and the
\* main program does not leave the receiver closed for good.
Fairness ==
    /\ WF_vars(Tick(uart.kick, uart.shifting))
    /\ SF_vars(EnterFiq2) /\ WF_vars(EnterFiq3)
    /\ WF_vars(Unmask) /\ WF_vars(Kick) /\ WF_vars(Fiq2)
    /\ WF_vars(~uart.rxen /\ SetRx)

Spec == Init /\ [][Next]_vars /\ Fairness

-----------------------------------------------------------------------------
(* Properties. *)

Places == {"main", "unmask", "load", "enable", "mask", "ack3", "fiq2", "remask"}

TypeOK ==
    /\ uart \in [fifo : Seq(Nat), rxdrdy : BOOLEAN, rxen : BOOLEAN, txen : BOOLEAN,
                 txe : BOOLEAN, byte : Nat, pending : BOOLEAN, shifting : BOOLEAN,
                 out : Seq(Nat), kick : BOOLEAN, fiq2 : BOOLEAN, fiq3 : BOOLEAN,
                 mask3 : BOOLEAN]
    /\ Len(uart.fifo) <= FifoSize /\ Len(uart.out) <= OutSize
    /\ fw \in [at : Places, base : Nat, len : Nat, sent : Nat,
               acked : BOOLEAN, served : BOOLEAN]
    /\ wire \in [pushed : Nat, heard : Nat, shifted : Nat]

\* FIQ2 is never pending without a cause (no storm, mad2_timers.c:345), and a
\* cause is never left without FIQ2: not the empty transmit register, and not a
\* waiting byte either, except while a byte is on its way out, when loading it
\* has taken FIQ2 with it and its end will bring it back.
Fiq2Follows ==
    /\ uart.fiq2 => Level(uart)
    /\ TxLevel(uart) => uart.fiq2
    /\ RxLevel(uart) => \/ uart.fiq2
                        \/ uart.shifting /\ uart.txen
                        \/ At("enable")

\* The phone's bytes go out in order, each once: unmasking FIQ3 after a byte does
\* not send byte 0 again (mad2_bus.c:559-562), and no byte is loaded over another.
SentInOrder == [][wire'.shifted > wire.shifted => uart.byte = wire'.shifted]_vars

\* Every byte the host feeds is read by the firmware, however the receiver's
\* windows, the transmitter and the acknowledges fall.
EveryByteHeard == \A n \in 1 .. MaxIn : wire.pushed >= n ~> wire.heard >= n

\* Every frame that is started goes out to its last byte.
EveryFrameSent == \A n \in 1 .. MaxOut : fw.base + fw.len >= n ~> wire.shifted >= n
=============================================================================
