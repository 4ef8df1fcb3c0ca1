-------------------------------- MODULE Sim --------------------------------
(***************************************************************************)
(* The SIM reader UART and the synthetic card behind it (mad2/mad2_sim.c), *)
(* the FIQ6 acknowledge of mad2_bus.c, and the dispatch to a real card     *)
(* over the bridge.  The firmware and the real card are outside the        *)
(* repository; what the firmware does is taken from the comments that      *)
(* describe its driver (mad2_sim.c:31-44, 1065-1077, 1124-1141;            *)
(* mad2.h:683-780): header, procedure byte, data in chunks with a          *)
(* TX-empty after each, then the answer; its FIQ6 handler takes the lines, *)
(* writes them back, then serves them and empties the FIFO.                *)
(*                                                                         *)
(* A header is one unit and a data byte is one unit; each is the command it *)
(* belongs to.  Bytes of the card carry the command they answer.           *)
(*                                                                         *)
(* Operators marked "Wrong on purpose" are variants with a plausible       *)
(* mistake and not part of the model, see MdiRing.                         *)
(***************************************************************************)
EXTENDS Integers, Sequences, SequencesExt, FiniteSets

CONSTANTS
    RxSize,         \* bytes of the receive FIFO and of the stage behind it (256)
    TxSize,         \* units of the transmit FIFO as the driver fills it (15)
    AtrLen,         \* bytes of the answer to reset (4)
    Slots,          \* files that can be written (8)
    PinMax, PukMax, \* tries of CHV1 and of its unblock code (3 and 10)
    ResetMod,       \* resets are counted modulo this (256)
    Files,          \* the card's files
    Kind,           \* Kind[f]: "dir", "bin" (transparent) or "rec" (records)
    FcpLen,         \* FcpLen[k]: bytes SELECT prepares of a file of kind k (34 and 15)
    RecLen,         \* bytes of a record
    RandLen, KeyLen,\* bytes RUN GSM takes and prepares (16 and 12)
    Always,         \* files readable without CHV1
    MF,             \* the directory selected by a reset
    Pin, Puk,       \* CHV1 of a fresh card, and its unblock code
    Settings        \* what a run may start with, see env

\* In the code P3 goes up to 255 and both FIFOs hold 256 bytes, so the assumption
\* excludes commands that ask for more than 253 bytes.
ASSUME SimAssumption ==
    /\ {RxSize, TxSize, AtrLen, Slots, PinMax, PukMax, ResetMod, RandLen} \subseteq Nat \ {0}
    /\ \A n \in {FcpLen["dir"], FcpLen["bin"], FcpLen["rec"], RecLen, KeyLen} :
          n \in Nat \ {0} /\ n + 3 <= RxSize
    /\ \A s \in Settings : \A c \in s.cmds :
          /\ c.p3 \in Nat /\ c.p3 + 3 <= RxSize
          /\ c.ins # "none"                  \* stands for no command
          /\ c.ins \in {"UPDATE BINARY", "UPDATE RECORD"} => c.val # "blank"
    /\ \A s \in Settings : {s.paced, s.bridge, s.noauth, s.locked, s.moves} \subseteq BOOLEAN
    /\ AtrLen <= RxSize
    /\ IsFiniteSet(Files) /\ Kind \in [Files -> {"dir", "bin", "rec"}]
    /\ MF \in Files /\ Kind[MF] = "dir"

VARIABLES
    env,            \* chosen at start: is the line paced, is a real card behind it,
                    \* is RUN GSM refused (SIMNOAUTH), is CHV1 asked for, does the
                    \* card get in and out, which commands does the firmware use
    uart,           \* the reader: FIFOs, interrupt lines, the APDU in progress
    card,           \* the synthetic card
    fw              \* the firmware's driver

vars == <<env, uart, card, fw>>

Efs == {f \in Files : Kind[f] # "dir"}
Blank == "blank"                        \* a byte never written: 0xFF
Byte(cmd, k, v) == [cmd |-> cmd, k |-> k, v |-> v]
NoCmd == [ins |-> "none", p3 |-> 0]
Times(n, b) == [i \in 1 .. n |-> b]

-----------------------------------------------------------------------------
(* The receive side. *)

\* A FIFO that is full drops what is pushed.
PushAll(q, bytes) == LET room == RxSize - Len(q)
                     IN  q \o SubSeq(bytes, 1, IF Len(bytes) < room THEN Len(bytes) ELSE room)

Raise(u, line) == [u EXCEPT !.int = @ \cup {line}, !.fiq6 = TRUE]

\* A paced answer is staged and comes a byte at a time; another is there at once.
\* Either way bytes that are visible raise the receive line.
Respond(u, bytes) ==
    LET v == IF env.paced THEN [u EXCEPT !.stage = PushAll(@, bytes)]
                          ELSE [u EXCEPT !.rx = PushAll(@, bytes)]
    IN  IF v.rx # <<>> THEN Raise(v, "rx") ELSE v

\* A read of the data register; an empty FIFO gives 0xFF.
Pop(u) == LET rest == IF u.rx = <<>> THEN u.rx ELSE Tail(u.rx)
          IN  [u EXCEPT !.rx = rest, !.int = IF rest = <<>> THEN @ \ {"rx"} ELSE @]

\* A write of the interrupt register clears lines.  FIQ6 goes with the last of
\* receive and transmit, even if a timeout is pending.
ClearInt(u, lines) ==
    LET left == u.int \ lines
    IN  [u EXCEPT !.int = left, !.fiq6 = @ /\ left \cap {"rx", "tx"} # {}]

\* Wrong on purpose: an acknowledge is not followed by a look at the lines.
AckFiq6_NoReraise(u) == [u EXCEPT !.fiq6 = FALSE]

\* An acknowledge of FIQ6 at the interrupt controller.
AckFiq6(u) == [u EXCEPT !.fiq6 = u.int # {}]

-----------------------------------------------------------------------------
(* The card: each command gives its answer [card, n, v, sw] -- the card after *)
(* it, how many data bytes go out, what they hold, and the status word.      *)

InData(ins) == ins \in {"SELECT", "VERIFY", "CHANGE", "DISABLE", "ENABLE", "UNBLOCK",
                        "UPDATE RECORD", "UPDATE BINARY", "RUN GSM", "ACCEPT"}

Says(c, sw) == [card |-> c, n |-> 0, v |-> Blank, sw |-> sw]
Gives(c, n, v) == [card |-> c, n |-> n, v |-> v, sw |-> "9000"]

\* Of what is there a command gets as much as it asks for, and all for P3 = 0.
Clamp(p3, there) == IF p3 = 0 \/ p3 > there THEN there ELSE p3

Content(c, f) == IF c.over[f] # Blank THEN c.over[f] ELSE f    \* f stands for its seed

Select(c, cmd) ==
    IF cmd.file \in Files
    THEN Says([c EXCEPT !.sel = cmd.file, !.gr = FcpLen[Kind[cmd.file]],
                        !.df = IF Kind[cmd.file] = "dir" THEN cmd.file ELSE @], "9F")
    ELSE Says(c, "9404")

GetResponse(c, cmd) == Gives(c, Clamp(cmd.p3, c.gr), Blank)

\* As a SELECT of the current directory.
Status(c, cmd) == LET there == FcpLen["dir"]
                  IN  Gives([c EXCEPT !.gr = there], Clamp(cmd.p3, there), Blank)

Gated(c) == c.enabled /\ ~c.verified /\ c.sel \notin Always

\* Wrong on purpose: a read looks at the seed only.
ReadBinary_SeedOnly(c, cmd) ==
    IF Gated(c) THEN Says(c, "9804")
    ELSE IF Kind[c.sel] = "bin" THEN Gives(c, cmd.p3, c.sel) ELSE Says(c, "9408")

ReadBinary(c, cmd) ==
    IF Gated(c) THEN Says(c, "9804")
    ELSE IF Kind[c.sel] = "bin" THEN Gives(c, cmd.p3, Content(c, c.sel)) ELSE Says(c, "9408")

\* P3 = 0 asks for the record, and a file of another kind has a record of none.
RecordOf(c) == IF Kind[c.sel] = "rec" THEN RecLen ELSE 0

\* What is not a file of records reads as blank.
ReadRecord(c, cmd) ==
    IF Gated(c) THEN Says(c, "9804")
    ELSE Gives(c, IF cmd.p3 = 0 THEN RecordOf(c) ELSE cmd.p3,
               IF Kind[c.sel] = "rec" THEN Content(c, c.sel) ELSE Blank)

Overlaid(c) == {f \in Efs : c.over[f] # Blank}

\* The first write of a file takes a slot; a write of a file of the other kind
\* is accepted and forgotten.
Update(c, cmd, kind) ==
    IF Kind[c.sel] # kind THEN Says(c, "9000")
    ELSE IF ~cmd.inside THEN Says(c, IF kind = "rec" THEN "9402" ELSE "6700")
    ELSE IF c.sel \in Overlaid(c) \/ Cardinality(Overlaid(c)) < Slots
         THEN Says([c EXCEPT !.over[c.sel] = cmd.val], "9000")
         ELSE Says(c, "9240")

Verified(c) == [c EXCEPT !.verified = TRUE, !.tries = PinMax]

Missed(c) == LET left == IF c.tries > 0 THEN c.tries - 1 ELSE 0
             IN  Says([c EXCEPT !.tries = left], IF left = 0 THEN "9840" ELSE "63C")

Verify(c, cmd) ==
    IF cmd.p2 # 1 \/ ~c.enabled THEN Says(c, "9000")
    ELSE IF c.tries = 0 THEN Says(c, "9840")
    ELSE IF cmd.code = c.pin THEN Says(Verified(c), "9000") ELSE Missed(c)

Change(c, cmd) ==
    IF cmd.p2 # 1 \/ ~c.enabled THEN Says(c, "9000")
    ELSE IF c.tries = 0 THEN Says(c, "9840")
    ELSE IF cmd.code = c.pin THEN Says([Verified(c) EXCEPT !.pin = cmd.new], "9000")
    ELSE Missed(c)

\* DISABLE and ENABLE compare the code even when no try is left.
SetEnabled(c, cmd, on) ==
    IF cmd.code = c.pin THEN Says([Verified(c) EXCEPT !.enabled = on], "9000") ELSE Missed(c)

Unblock(c, cmd) ==
    IF cmd.p2 \notin {0, 1} THEN Says(c, "6B00")
    ELSE IF c.puk = 0 THEN Says(c, "9840")
    ELSE IF cmd.code = Puk
    THEN Says([Verified(c) EXCEPT !.pin = cmd.new, !.puk = PukMax], "9000")
    ELSE Says([c EXCEPT !.puk = @ - 1], IF c.puk = 1 THEN "9840" ELSE "63C")

RunGsm(c, cmd) ==
    IF env.noauth THEN Says(c, "9804")
    ELSE IF cmd.p3 < RandLen THEN Says(c, "6700")
    ELSE Says([c EXCEPT !.gr = KeyLen], "9F")

Compute(c, cmd) ==
    CASE cmd.ins = "SELECT"        -> Select(c, cmd)
      [] cmd.ins = "GET RESPONSE"  -> GetResponse(c, cmd)
      [] cmd.ins = "STATUS"        -> Status(c, cmd)
      [] cmd.ins = "READ BINARY"   -> ReadBinary(c, cmd)
      [] cmd.ins = "READ RECORD"   -> ReadRecord(c, cmd)
      [] cmd.ins = "UPDATE BINARY" -> Update(c, cmd, "bin")
      [] cmd.ins = "UPDATE RECORD" -> Update(c, cmd, "rec")
      [] cmd.ins = "VERIFY"        -> Verify(c, cmd)
      [] cmd.ins = "CHANGE"        -> Change(c, cmd)
      [] cmd.ins = "DISABLE"       -> SetEnabled(c, cmd, FALSE)
      [] cmd.ins = "ENABLE"        -> SetEnabled(c, cmd, TRUE)
      [] cmd.ins = "UNBLOCK"       -> Unblock(c, cmd)
      [] cmd.ins = "RUN GSM"       -> RunGsm(c, cmd)
      [] cmd.ins = "ACCEPT"        -> Says(c, "9000")
      [] OTHER                     -> Says(c, "6D00")

\* What the bridge may get from a real card, or nothing if it fails.
RealAnswers(cmd) == {[n |-> n, v |-> Blank, sw |-> "9000"] :
                        n \in IF InData(cmd.ins) THEN {0} ELSE {0, cmd.p3}}

\* The answers the firmware may be fed; the synthetic card has advanced anyway.
Fed(r, cmd) == {[n |-> r.n, v |-> r.v, sw |-> r.sw]}
                 \cup IF env.bridge THEN RealAnswers(cmd) ELSE {}

Framing(cmd, a) == (IF a.n > 0 THEN <<Byte(cmd, "ack", Blank)>> ELSE <<>>)
                    \o Times(a.n, Byte(cmd, "dat", a.v))
                    \o <<Byte(cmd, "sw1", a.sw), Byte(cmd, "sw2", a.sw)>>

-----------------------------------------------------------------------------
(* The transmit side, and the state. *)

Header(u) == Head(u.asm)
Complete(u) == Len(u.asm) >= 1 + Header(u).p3

\* Wrong on purpose: the command retired leaves the procedure byte disarmed.
Retire_KeepsAck(u) == [u EXCEPT !.asm = <<>>]

Retire(u) == [u EXCEPT !.asm = <<>>, !.t0 = FALSE]

\* Wrong on purpose: a procedure byte for every chunk that leaves data to come.
Ask_EveryChunk(u) ==
    [Respond(u, <<Byte(Header(u), "ack", Blank)>>) EXCEPT !.t0 = TRUE]

\* The procedure byte, once per command, when its data is still to come.
Ask(u) ==
    IF u.t0 THEN u
    ELSE [Respond(u, <<Byte(Header(u), "ack", Blank)>>) EXCEPT !.t0 = TRUE]

\* A flush hands the chunk to the assembly, raises TX-empty, and answers a
\* command that is complete: PPS by its echo, the others by the card.
RunApdu ==
    LET u == Raise([uart EXCEPT !.asm = @ \o uart.tx, !.tx = <<>>], "tx")
        h == Header(u)
    IN  IF h.ins = "PPS"
        THEN /\ uart' = IF Complete(u)
                        THEN Respond([u EXCEPT !.asm = <<>>],
                                     Times(1 + h.p3, Byte(h, "echo", Blank)))
                        ELSE u
             /\ UNCHANGED card
        ELSE IF InData(h.ins) /\ ~Complete(u)
        THEN uart' = Ask(u) /\ UNCHANGED card
        ELSE LET r == Compute(card, h)
             IN  /\ card' = r.card
                 /\ \E a \in Fed(r, h) :
                      uart' = Respond([Retire(u) EXCEPT !.used = TRUE], Framing(h, a))

-----------------------------------------------------------------------------
(* Time, and the reader's own events. *)

\* The line is quiet: the work waiting time runs.
Quiet(u, c) ==
    /\ c.present /\ u.on /\ u.resets > 0 /\ u.used
    /\ u.rx = <<>> /\ u.stage = <<>> /\ u.tx = <<>> /\ u.asm = <<>> /\ ~u.atr

\* The answer to reset; none from an empty slot or a mute card on the bridge.
DeliverAtr(u, c, answers) ==
    IF ~(c.present /\ answers) THEN [u EXCEPT !.atr = FALSE]
    ELSE Respond([u EXCEPT !.atr = FALSE, !.asm = <<>>, !.t0 = FALSE,
                           !.resets = (@ + 1) % ResetMod],
                 Times(AtrLen, Byte(NoCmd, "atr", Blank)))

MayRelease(u) == env.paced /\ u.stage # <<>> /\ u.rx = <<>>

\* One staged byte becomes visible, once the one before it has been read.
Release(u) == Raise([u EXCEPT !.rx = <<Head(u.stage)>>, !.stage = Tail(@)], "rx")

\* FIQ6 stays up while a byte and its line wait.
Keep(u) == [u EXCEPT !.fiq6 = @ \/ (u.rx # <<>> /\ "rx" \in u.int)]

\* Wrong on purpose: the first expiry stops the timer for good.
Waiting_Once(u, c, due) ==
    IF ~Quiet(u, c) THEN [u EXCEPT !.wwt = FALSE]
    ELSE IF u.wwt /\ due THEN [u EXCEPT !.int = @ \cup {"wwt"}]
    ELSE [u EXCEPT !.wwt = TRUE]

\* The work waiting time: armed by the first quiet tick, and again by its expiry.
Waiting(u, c, due) ==
    IF ~Quiet(u, c) THEN [u EXCEPT !.wwt = FALSE]
    ELSE IF u.wwt /\ due THEN Raise(u, "wwt")
    ELSE [u EXCEPT !.wwt = TRUE]

\* The SIM part of the tick after an instruction, if it has anything to do.
\* Which deadlines are due, and whether a bridged card answers, is left open.
Tick(paceDue, wwtDue) ==
    LET u0 == [uart EXCEPT !.wwt = @ /\ Quiet(uart, card)]
        edge == card.present # card.seen
    IN  /\ \/ u0.atr \/ edge
           \/ MayRelease(u0) /\ paceDue
           \/ Quiet(u0, card) /\ (u0.wwt => wwtDue)
        /\ \E answers \in IF env.bridge THEN BOOLEAN ELSE {TRUE} :
             LET u1 == IF u0.atr THEN DeliverAtr(u0, card, answers) ELSE u0
                 u2 == [u1 EXCEPT !.fiq7 = @ \/ edge]
                 u3 == IF MayRelease(u2) /\ paceDue THEN Release(u2) ELSE u2
                 reset == u0.atr /\ card.present /\ answers
             IN  /\ uart' = Waiting(Keep(u3), card, wwtDue)
                 /\ card' = [card EXCEPT !.seen = card.present,
                                         !.sel = IF reset THEN MF ELSE @,
                                         !.df = IF reset THEN MF ELSE @]
        /\ UNCHANGED <<env, fw>>

\* The user takes the card out or puts it in.
SetPresent ==
    /\ env.moves
    /\ card' = [card EXCEPT !.present = ~@, !.seen = ~card.present]
    /\ uart' = [uart EXCEPT !.fiq7 = TRUE]
    /\ UNCHANGED <<env, fw>>

\* The rising edge of the activate bit flushes both ways and asks for the ATR.
Activate(u) == [u EXCEPT !.on = TRUE, !.rx = <<>>, !.stage = <<>>, !.tx = <<>>,
                         !.asm = <<>>, !.atr = TRUE]

-----------------------------------------------------------------------------
(* The firmware (external).  isr is where its FIQ6 handler is, at where the  *)
(* program it interrupts is.                                                 *)

InMain == fw.isr = "no"

\* What the firmware may find in the selected file when a write is cut off.
Unsure == IF /\ fw.sel \in Efs
             /\ fw.cmd.ins = (IF Kind[fw.sel] = "rec" THEN "UPDATE RECORD" ELSE "UPDATE BINARY")
             /\ fw.at = "wait" /\ fw.sent = fw.cmd.p3
          THEN [fw.holds EXCEPT ![fw.sel] = @ \cup {fw.cmd.val}]
          ELSE fw.holds

Off(w) == [w EXCEPT !.at = "off", !.cmd = NoCmd, !.got = <<>>, !.holds = Unsure]

\* It gives the card up, for a timeout of its own or to start again.
GiveUp ==
    /\ InMain /\ fw.at # "off"
    /\ uart' = [uart EXCEPT !.on = FALSE]
    /\ fw' = Off(fw)
    /\ UNCHANGED <<env, card>>

\* Card detect: it starts again.
TakeFiq7 ==
    /\ InMain /\ uart.fiq7
    /\ uart' = [uart EXCEPT !.fiq7 = FALSE, !.on = FALSE]
    /\ fw' = Off(fw)
    /\ UNCHANGED <<env, card>>

PowerUp ==
    /\ InMain /\ fw.at = "off"
    /\ uart' = Activate(uart)
    /\ fw' = [fw EXCEPT !.at = "atr"]
    /\ UNCHANGED <<env, card>>

TakeAtr ==
    /\ InMain /\ fw.at = "atr" /\ Len(fw.got) = AtrLen
    /\ fw' = [fw EXCEPT !.at = "idle", !.got = <<>>, !.sel = MF]
    /\ UNCHANGED <<env, uart, card>>

\* A header is queued, and the whole frame of a PPS, which only a bridged card's
\* ATR calls for.
Begin(cmd) ==
    /\ InMain /\ fw.at = "idle" /\ uart.on /\ card.present
    /\ cmd.ins = "PPS" => env.bridge
    /\ uart' = [uart EXCEPT !.tx = Times(IF cmd.ins = "PPS" THEN 1 + cmd.p3 ELSE 1, cmd)]
    /\ fw' = [fw EXCEPT !.at = "put", !.cmd = cmd, !.sent = 0, !.adv = FALSE]
    /\ UNCHANGED <<env, card>>

\* The transmit FIFO is flushed to the card.
Flush ==
    /\ InMain /\ fw.at = "put"
    /\ RunApdu
    /\ fw' = [fw EXCEPT !.at = "wait"]
    /\ UNCHANGED env

\* After the procedure byte, and TX-empty of the chunk before, a chunk of data.
More ==
    /\ InMain /\ fw.at = "wait" /\ fw.adv
    /\ InData(fw.cmd.ins) /\ fw.sent < fw.cmd.p3
    /\ Len(fw.got) = 1
    /\ \E n \in 1 .. fw.cmd.p3 - fw.sent :
         /\ n <= TxSize
         /\ uart' = [uart EXCEPT !.tx = Times(n, fw.cmd)]
         /\ fw' = [fw EXCEPT !.at = "put", !.sent = @ + n, !.adv = FALSE]
    /\ UNCHANGED <<env, card>>

\* The command reads the file the firmware has selected, in the way of its kind.
ReadsSel == \/ Kind[fw.sel] = "rec" /\ fw.cmd.ins = "READ RECORD"
            \/ Kind[fw.sel] = "bin" /\ fw.cmd.ins = "READ BINARY"

\* The answer is complete.  A successful SELECT, write or read is remembered.
Done ==
    /\ InMain /\ fw.at = "wait" /\ fw.got # <<>>
    /\ LET end == Last(fw.got)
           writes == fw.cmd.ins = (IF Kind[fw.sel] = "rec" THEN "UPDATE RECORD" ELSE "UPDATE BINARY")
       IN  /\ \/ end.k = "sw2"
              \/ end.k = "echo" /\ Len(fw.got) = 1 + fw.cmd.p3
           /\ fw' = [fw EXCEPT
                !.at = "idle", !.cmd = NoCmd, !.got = <<>>,
                !.sel = IF fw.cmd.ins = "SELECT" /\ end.v = "9F" THEN fw.cmd.file ELSE @,
                !.holds = IF Kind[fw.sel] = "dir" \/ end.v # "9000" THEN @
                          ELSE IF writes THEN [@ EXCEPT ![fw.sel] = {fw.cmd.val}]
                          ELSE IF ReadsSel /\ Len(fw.got) > 2 THEN [@ EXCEPT ![fw.sel] = {fw.got[2].v}]
                          ELSE @]
    /\ UNCHANGED <<env, uart, card>>

Main == PowerUp \/ TakeAtr \/ Flush \/ More \/ Done

\* Its FIQ6 handler reads the lines, ...
EnterFiq6 ==
    /\ InMain /\ uart.fiq6
    /\ fw' = [fw EXCEPT !.isr = "clear", !.lines = uart.int]
    /\ UNCHANGED <<env, uart, card>>

\* ... writes them back, ...
WriteBack ==
    /\ fw.isr = "clear"
    /\ uart' = ClearInt(uart, fw.lines)
    /\ fw' = [fw EXCEPT !.isr = "serve", !.adv = @ \/ "tx" \in fw.lines]
    /\ UNCHANGED <<env, card>>

\* ... and serves them.
ReadByte ==
    /\ fw.isr = "serve" /\ "rx" \in fw.lines /\ uart.rx # <<>>
    /\ uart' = Pop(uart)
    /\ fw' = [fw EXCEPT !.got = IF fw.at = "off" THEN @ ELSE Append(@, Head(uart.rx))]
    /\ UNCHANGED <<env, card>>

Leave6 ==
    /\ fw.isr = "serve" /\ ("rx" \in fw.lines => uart.rx = <<>>)
    /\ fw' = [fw EXCEPT !.isr = "no", !.lines = {}]
    /\ UNCHANGED <<env, uart, card>>

Fiq6 == WriteBack \/ ReadByte \/ Leave6

\* The acknowledge at the interrupt controller falls anywhere in the handler.
Ack6 ==
    /\ ~InMain
    /\ uart' = AckFiq6(uart)
    /\ UNCHANGED <<env, card, fw>>

-----------------------------------------------------------------------------
Init ==
    /\ env \in Settings
    /\ \E here \in BOOLEAN :
         card = [present |-> here, seen |-> FALSE, sel |-> MF, df |-> MF, gr |-> 0,
                 over |-> [f \in Efs |-> Blank], enabled |-> env.locked, verified |-> FALSE,
                 pin |-> Pin, tries |-> PinMax, puk |-> PukMax]
    /\ uart = [rx |-> <<>>, stage |-> <<>>, int |-> {}, fiq6 |-> FALSE, fiq7 |-> FALSE,
               on |-> FALSE, tx |-> <<>>, asm |-> <<>>, t0 |-> FALSE, atr |-> FALSE,
               resets |-> 0, used |-> FALSE, wwt |-> FALSE]
    /\ fw = [at |-> "off", cmd |-> NoCmd, sent |-> 0, got |-> <<>>, adv |-> FALSE,
             sel |-> MF, holds |-> [f \in Efs |-> {f}], isr |-> "no", lines |-> {}]

Next ==
    \/ \E paceDue, wwtDue \in BOOLEAN : Tick(paceDue, wwtDue)
    \/ SetPresent \/ GiveUp \/ TakeFiq7
    \/ \E cmd \in env.cmds : Begin(cmd)
    \/ Main \/ EnterFiq6 \/ Fiq6 \/ Ack6

\* Deadlines come, a FIQ6 that stays up is entered, its handler ends, and a
\* command that was begun is carried on between the interrupts.
Fairness ==
    /\ WF_vars(Tick(TRUE, TRUE))
    /\ SF_vars(EnterFiq6) /\ WF_vars(Fiq6)
    /\ SF_vars(Flush \/ More \/ Done)

Spec == Init /\ [][Next]_vars /\ Fairness

-----------------------------------------------------------------------------
(* Properties. *)

Kinds == {"ack", "dat", "sw1", "sw2", "echo", "atr"}

TypeOK ==
    /\ uart.int \subseteq {"rx", "tx", "wwt"} /\ uart.resets \in 0 .. ResetMod - 1
    /\ Len(uart.rx) <= RxSize /\ Len(uart.stage) <= RxSize
    /\ \A b \in Range(uart.rx \o uart.stage \o fw.got) : b.cmd \in env.cmds \cup {NoCmd} /\ b.k \in Kinds
    /\ card.tries \in 0 .. PinMax /\ card.puk \in 0 .. PukMax
    /\ card.sel \in Files /\ card.df \in Files /\ Kind[card.df] = "dir"
    /\ card.gr \in 0 .. RxSize - 3
    /\ Cardinality(Overlaid(card)) <= Slots

\* The data a card owes a command it carries out: what the command asks for, but of
\* what was prepared no more than there is, and all of that or a record for P3 = 0.
Owes(c, cmd) ==
    CASE InData(cmd.ins)                      -> 0
      [] cmd.ins \in {"GET RESPONSE", "STATUS"} -> Clamp(cmd.p3, c.gr)
      [] cmd.ins = "READ RECORD" /\ cmd.p3 = 0  -> RecordOf(c)
      [] OTHER                                -> cmd.p3

\* A real card gives what it is asked for.
Due(c, cmd) == {Owes(c, cmd)} \cup IF env.bridge /\ ~InData(cmd.ins) THEN {cmd.p3} ELSE {}

\* What the firmware may read during the command it is in, by the rules of T=0: a
\* procedure byte announces data, and a refusal has none.
Expected ==
    LET end == <<"sw1", "sw2">>
    IN  IF fw.at = "atr" THEN {Times(AtrLen, "atr")}
        ELSE IF fw.cmd = NoCmd THEN {<<>>}
        ELSE IF fw.cmd.ins = "PPS" THEN {Times(1 + fw.cmd.p3, "echo")}
        ELSE IF InData(fw.cmd.ins) THEN {IF fw.cmd.p3 = 0 THEN end ELSE <<"ack">> \o end}
        ELSE {end} \cup {<<"ack">> \o Times(n, "dat") \o end : n \in Due(card, fw.cmd) \ {0}}

\* The state keeps its type, rings and try counters their bounds; and whatever the
\* chunks, the pacing and the resets, the firmware reads the answer of the command
\* it is in and nothing else: no byte of an earlier command or of
\* the session before a reset, one procedure byte however many chunks the data
\* takes (mad2_sim.c:1133-1141), as much data as the card owes however much was asked
\* for (mad2_sim.c:632-634, 670, 703-705), and no status word before its data is out.
Framed ==
    /\ TypeOK
    /\ \E e \in Expected : IsPrefix([i \in DOMAIN fw.got |-> fw.got[i].k], e)
    /\ fw.cmd # NoCmd => \A b \in Range(fw.got) : b.cmd = fw.cmd
    /\ InData(fw.cmd.ins) /\ Len(fw.got) > 1 => fw.sent = fw.cmd.p3

\* A byte the firmware can read has its line up or is being read, and a receive
\* or transmit line that is up holds FIQ6, whichever way the handler's write-back
\* and acknowledge fall around the bytes (mad2_sim.c:1235-1242, mad2_bus.c:543-550).
NoByteStranded ==
    /\ uart.rx # <<>> => "rx" \in uart.int \/ (fw.isr = "serve" /\ "rx" \in fw.lines)
    /\ uart.int \cap {"rx", "tx"} # {} => uart.fiq6

\* What the synthetic card reads back is what was last written to the selected
\* file and acknowledged, or its seed: over failed SELECTs, resets, writes cut
\* off between data and status word, and more files than slots.
ReadsLastWrite ==
    ~env.bridge /\ ReadsSel => \A b \in Range(fw.got) : b.k = "dat" => b.v \in fw.holds[fw.sel]

\* Every command the firmware begins ends: it is answered, or given up.
Busy == fw.at \in {"put", "wait"}
CommandEnds == Busy ~> ~Busy

\* A work-waiting timeout of a quiet line is seen by the firmware, although a
\* write-back for other lines can take FIQ6 away from it (mad2_sim.c:1240): the
\* next expiry brings it back.
Timeout == "wwt" \in uart.int /\ Quiet(uart, card)
TimeoutSeen == Timeout ~> ~Timeout
=============================================================================
