----------------------------- MODULE MbusProofs -----------------------------
(***************************************************************************)
(* Proofs about Mbus, for every size of its rings, every set of frame      *)
(* lengths and any number of bytes.                                        *)
(***************************************************************************)
EXTENDS Mbus, TLAPS

-----------------------------------------------------------------------------
(* The inductive invariant. *)

Uart == [fifo : Seq(Nat), rxdrdy : BOOLEAN, rxen : BOOLEAN, txen : BOOLEAN,
         txe : BOOLEAN, byte : Nat, pending : BOOLEAN, shifting : BOOLEAN,
         out : Seq(Nat), kick : BOOLEAN, fiq2 : BOOLEAN, fiq3 : BOOLEAN,
         mask3 : BOOLEAN]
Firmware == [at : Places, base : Nat, len : Nat, sent : Nat,
             acked : BOOLEAN, served : BOOLEAN]
Wire == [pushed : Nat, heard : Nat, shifted : Nat]

\* Both rings are within their sizes, RXDRDY is up only over a byte that waits,
\* and the transmit register is not empty while a byte is on its way out.
Rings(u) ==
    /\ u \in Uart
    /\ Len(u.fifo) <= FifoSize /\ Len(u.out) <= OutSize
    /\ u.rxdrdy => u.fifo # <<>>
    /\ u.txe => ~u.shifting

\* FIQ2 against its causes, while a handler that has just loaded byte 0 and not
\* yet enabled the transmitter excuses a waiting byte.
Follows(u, f) ==
    /\ u.fiq2 => Level(u)
    /\ TxLevel(u) => u.fiq2
    /\ RxLevel(u) => \/ u.fiq2
                     \/ u.shifting /\ u.txen
                     \/ f.at = "enable"

\* Where the firmware stands in its frame: FIQ3 is on its way or pending only
\* before byte 0 of a started frame, and the transmitter is on from then on.
Kickoff(u, f) ==
    /\ f.sent <= f.len
    /\ u.txen <=> f.sent > 0 /\ f.at # "enable"
    /\ f.at = "unmask" => f.len > 0 /\ f.sent = 0 /\ ~u.fiq3 /\ ~u.kick
    /\ f.at = "load" => f.len > 0 /\ f.sent = 0 /\ ~u.kick
    /\ f.at \in {"enable", "mask", "ack3"} => f.sent = 1 /\ ~u.kick
    /\ f.at = "remask" => f.sent > 0
    /\ u.kick => f.len > 0 /\ f.sent = 0 /\ ~u.fiq3
    /\ u.fiq3 => \/ f.len > 0 /\ f.sent = 0
                 \/ f.at \in {"enable", "mask", "ack3"}

\* The n bytes shifted out are those of the frames sent and of the running one,
\* but for the byte in the shifter, which is the next.
Numbered(u, f, n) ==
    /\ u.shifting => f.sent > 0 /\ u.byte = n + 1
    /\ f.base + f.sent = IF u.shifting THEN n + 1 ELSE n

InvOf(u, f, n) == Rings(u) /\ Follows(u, f) /\ Kickoff(u, f) /\ Numbered(u, f, n)

Inv ==
    /\ fw \in Firmware /\ wire \in Wire
    /\ InvOf(uart, fw, wire.shifted)

-----------------------------------------------------------------------------
(* What the UART's operations make of its registers. *)

\* A load takes the byte, empties nothing and takes FIQ2 with it.
LEMMA LoadTxIs ==
    ASSUME NEW u, Rings(u), NEW b \in Nat
    PROVE  LET v == LoadTx(u, b)
           IN  /\ Rings(v)
               /\ ~v.txe /\ ~v.fiq2 /\ v.byte = b /\ v.shifting
               /\ v.rxdrdy = u.rxdrdy /\ v.rxen = u.rxen /\ v.txen = u.txen
               /\ v.kick = u.kick /\ v.fiq3 = u.fiq3
<1> DEFINE yes == TRUE
           no == FALSE
           v == LoadTx(u, b)
<1>1. yes \in BOOLEAN /\ yes /\ no \in BOOLEAN /\ ~no
  OBVIOUS
<1>2. v = [u EXCEPT !.txe = no, !.fiq2 = no, !.byte = b, !.pending = yes, !.shifting = yes]
  BY DEF LoadTx
<1> HIDE DEF yes, no, v
<1>3. /\ v \in Uart
      /\ v.txe = no /\ v.fiq2 = no /\ v.byte = b /\ v.shifting = yes
      /\ v.rxdrdy = u.rxdrdy /\ v.rxen = u.rxen /\ v.txen = u.txen
      /\ v.kick = u.kick /\ v.fiq3 = u.fiq3 /\ v.fifo = u.fifo /\ v.out = u.out
  BY <1>1, <1>2 DEF Rings, Uart
<1>4. Rings(v) /\ ~v.txe /\ ~v.fiq2 /\ v.shifting
  BY <1>1, <1>3 DEF Rings
<1> QED
  BY <1>3, <1>4 DEF v

\* A write of the control register leaves FIQ2 at the level of its causes.
LEMMA WriteCtrlIs ==
    ASSUME NEW u, Rings(u), NEW tx \in BOOLEAN, NEW rx \in BOOLEAN
    PROVE  LET v == WriteCtrl(u, tx, rx)
           IN  /\ Rings(v)
               /\ v.fiq2 <=> Level(v)
               /\ v.txen = tx /\ v.byte = u.byte /\ v.shifting = u.shifting
               /\ v.kick = u.kick /\ v.fiq3 = u.fiq3
<1> DEFINE w == [u EXCEPT !.txen = tx, !.rxen = rx]
           level == Level(w)
           v == WriteCtrl(u, tx, rx)
<1>1. w \in Uart /\ w.txen = tx /\ w.rxen = rx /\ w.txe = u.txe /\ w.rxdrdy = u.rxdrdy
      /\ w.byte = u.byte /\ w.shifting = u.shifting /\ w.kick = u.kick
      /\ w.fiq3 = u.fiq3 /\ w.fifo = u.fifo /\ w.out = u.out
  BY DEF Rings, Uart
<1>2. level \in BOOLEAN
  BY DEF Level, RxLevel, TxLevel
<1>3. v = [w EXCEPT !.fiq2 = level]
  BY DEF WriteCtrl
<1> HIDE DEF w, level, v
<1>4. /\ v \in Uart /\ v.fiq2 = level
      /\ v.txen = tx /\ v.rxen = rx /\ v.txe = u.txe /\ v.rxdrdy = u.rxdrdy
      /\ v.byte = u.byte /\ v.shifting = u.shifting /\ v.kick = u.kick
      /\ v.fiq3 = u.fiq3 /\ v.fifo = u.fifo /\ v.out = u.out
  BY <1>1, <1>2, <1>3 DEF Uart
<1>5. level <=> Level(v)
  BY <1>1, <1>4 DEF level, Level, RxLevel, TxLevel
<1>6. Rings(v)
  BY <1>4 DEF Rings
<1> QED
  BY <1>4, <1>5, <1>6 DEF v

\* An acknowledge of FIQ2 leaves it at the level of its causes, too.
LEMMA AckFiq2Is ==
    ASSUME NEW u, Rings(u)
    PROVE  LET v == AckFiq2(u)
           IN  /\ Rings(v)
               /\ v.fiq2 <=> Level(v)
               /\ v.txen = u.txen /\ v.byte = u.byte /\ v.shifting = u.shifting
               /\ v.kick = u.kick /\ v.fiq3 = u.fiq3
<1> DEFINE level == Level(u)
           v == AckFiq2(u)
<1>1. level \in BOOLEAN
  BY DEF Level, RxLevel, TxLevel
<1>2. v = [u EXCEPT !.fiq2 = level]
  BY DEF AckFiq2
<1> HIDE DEF level, v
<1>3. /\ v \in Uart /\ v.fiq2 = level
      /\ v.txen = u.txen /\ v.rxen = u.rxen /\ v.txe = u.txe /\ v.rxdrdy = u.rxdrdy
      /\ v.byte = u.byte /\ v.shifting = u.shifting /\ v.kick = u.kick
      /\ v.fiq3 = u.fiq3 /\ v.fifo = u.fifo /\ v.out = u.out
  BY <1>1, <1>2 DEF Rings, Uart
<1>4. level <=> Level(v)
  BY <1>3 DEF level, Level, RxLevel, TxLevel
<1>5. Rings(v)
  BY <1>3 DEF Rings
<1> QED
  BY <1>3, <1>4, <1>5 DEF v

\* The mask of FIQ3 touches nothing but the mask and the kick-off.
LEMMA MaskFiq3Is ==
    ASSUME NEW u, Rings(u), NEW m \in BOOLEAN
    PROVE  LET v == MaskFiq3(u, m)
           IN  /\ Rings(v)
               /\ v.kick <=> u.kick \/ (u.mask3 /\ ~m /\ ~u.txen)
               /\ v.fiq2 = u.fiq2 /\ v.rxdrdy = u.rxdrdy /\ v.rxen = u.rxen /\ v.txe = u.txe
               /\ v.txen = u.txen /\ v.byte = u.byte /\ v.shifting = u.shifting
               /\ v.fiq3 = u.fiq3
<1> DEFINE kick == u.kick \/ (u.mask3 /\ ~m /\ ~u.txen)
           v == MaskFiq3(u, m)
<1>1. kick \in BOOLEAN
  OBVIOUS
<1>2. v = [u EXCEPT !.mask3 = m, !.kick = kick]
  BY DEF MaskFiq3
<1> HIDE DEF kick, v
<1>3. /\ v \in Uart /\ v.kick = kick
      /\ v.fiq2 = u.fiq2 /\ v.rxdrdy = u.rxdrdy /\ v.rxen = u.rxen /\ v.txe = u.txe
      /\ v.txen = u.txen /\ v.byte = u.byte /\ v.shifting = u.shifting
      /\ v.fiq3 = u.fiq3 /\ v.fifo = u.fifo /\ v.out = u.out
  BY <1>1, <1>2 DEF Rings, Uart
<1>4. Rings(v)
  BY <1>3 DEF Rings
<1> QED
  BY <1>3, <1>4 DEF v, kick

-----------------------------------------------------------------------------
(* The rings as sequences. *)

\* A ring that is not empty has a first byte, and fits without it.
LEMMA TailFits ==
    ASSUME NEW s \in Seq(Nat), s # <<>>, NEW n \in Nat, Len(s) <= n
    PROVE  Head(s) \in Nat /\ Tail(s) \in Seq(Nat) /\ Len(Tail(s)) <= n
OBVIOUS

\* A ring with room takes one more byte.
LEMMA AppendFits ==
    ASSUME NEW s \in Seq(Nat), NEW b \in Nat, NEW n \in Nat, Len(s) < n
    PROVE  Append(s, b) \in Seq(Nat) /\ Len(Append(s, b)) <= n /\ Append(s, b) # <<>>
<1>1. Append(s, b) \in Seq(Nat) /\ Len(Append(s, b)) = Len(s) + 1
  OBVIOUS
<1>2. Append(s, b) # <<>>
  <2>1. Len(Append(s, b)) # 0
    BY <1>1
  <2>2. \A t : t = <<>> => Len(t) = 0
    OBVIOUS
  <2> QED
    BY <2>1, <2>2
<1> QED
  BY <1>1, <1>2

\* A read of a waiting byte: the last one takes RXDRDY with it, and FIQ2 unless
\* the transmitter holds it up.
LEMMA PopIs ==
    ASSUME NEW u, Rings(u), RxLevel(u)
    PROVE  LET v == Pop(u)
           IN  /\ Rings(v)
               /\ \/ v.rxdrdy = u.rxdrdy /\ v.fiq2 = u.fiq2
                  \/ ~v.rxdrdy /\ (v.fiq2 <=> u.fiq2 /\ TxLevel(u))
               /\ v.rxen = u.rxen /\ v.txe = u.txe
               /\ v.txen = u.txen /\ v.byte = u.byte /\ v.shifting = u.shifting
               /\ v.kick = u.kick /\ v.fiq3 = u.fiq3
               /\ Head(u.fifo) \in Nat
<1> DEFINE rest == Tail(u.fifo)
           w == [u EXCEPT !.fifo = rest]
           fiq == w.fiq2 /\ TxLevel(w)
           no == FALSE
           v == Pop(u)
<1>1. u.fifo \in Seq(Nat) /\ u.fifo # <<>> /\ Len(u.fifo) <= FifoSize
  BY DEF Rings, Uart, RxLevel
<1>2. rest \in Seq(Nat) /\ Len(rest) <= FifoSize /\ Head(u.fifo) \in Nat
  BY <1>1, TailFits, MbusAssumption
<1>3. no \in BOOLEAN /\ ~no
  OBVIOUS
<1>4. v = IF w.fifo = <<>> THEN [w EXCEPT !.rxdrdy = no, !.fiq2 = fiq] ELSE w
  BY DEF Pop
<1> HIDE DEF rest, no, v
<1>5. /\ w \in Uart /\ w.fifo = rest
      /\ w.fiq2 = u.fiq2 /\ w.rxdrdy = u.rxdrdy /\ w.rxen = u.rxen /\ w.txe = u.txe
      /\ w.txen = u.txen /\ w.byte = u.byte /\ w.shifting = u.shifting
      /\ w.kick = u.kick /\ w.fiq3 = u.fiq3 /\ w.out = u.out
  BY <1>2 DEF Rings, Uart
<1>6. fiq \in BOOLEAN /\ (fiq <=> u.fiq2 /\ TxLevel(u))
  BY <1>5 DEF TxLevel
<1> HIDE DEF w, fiq
<1>7. /\ v \in Uart /\ v.fifo = rest
      /\ \/ rest # <<>> /\ v.rxdrdy = u.rxdrdy /\ v.fiq2 = u.fiq2
         \/ v.rxdrdy = no /\ v.fiq2 = fiq
      /\ v.rxen = u.rxen /\ v.txe = u.txe
      /\ v.txen = u.txen /\ v.byte = u.byte /\ v.shifting = u.shifting
      /\ v.kick = u.kick /\ v.fiq3 = u.fiq3 /\ v.out = u.out
  <2>1. CASE rest = <<>>
    <3>1. v = [w EXCEPT !.rxdrdy = no, !.fiq2 = fiq]
      BY <1>4, <1>5, <2>1
    <3> QED
      BY <1>3, <1>5, <1>6, <3>1 DEF Uart
  <2>2. CASE rest # <<>>
    <3>1. v = w
      BY <1>4, <1>5, <2>2
    <3> QED
      BY <1>5, <2>2, <3>1
  <2> QED
    BY <2>1, <2>2
<1>8. Rings(v)
  BY <1>2, <1>3, <1>7 DEF Rings
<1> QED
  BY <1>2, <1>3, <1>6, <1>7, <1>8 DEF v

\* A pushed byte is dropped, or waits silently behind a closed receiver, or
\* raises RXDRDY and FIQ2.
LEMMA PushIs ==
    ASSUME NEW u, Rings(u), NEW b \in Nat
    PROVE  LET v == Push(u, b)
           IN  /\ Rings(v)
               /\ \/ v.rxdrdy = u.rxdrdy /\ v.fiq2 = u.fiq2
                  \/ v.rxdrdy /\ v.fiq2 /\ u.rxen
               /\ v.rxen = u.rxen /\ v.txe = u.txe
               /\ v.txen = u.txen /\ v.byte = u.byte /\ v.shifting = u.shifting
               /\ v.kick = u.kick /\ v.fiq3 = u.fiq3
<1> DEFINE more == Append(u.fifo, b)
           w == [u EXCEPT !.fifo = more]
           yes == TRUE
           v == Push(u, b)
<1>1. CASE Len(u.fifo) < FifoSize
  <2>1. u.fifo \in Seq(Nat)
    BY DEF Rings, Uart
  <2>2. more \in Seq(Nat) /\ Len(more) <= FifoSize /\ more # <<>>
    BY <1>1, <2>1, AppendFits, MbusAssumption
  <2>3. yes \in BOOLEAN /\ yes
    OBVIOUS
  <2>4. v = IF w.fifo # <<>> /\ w.rxen THEN [w EXCEPT !.rxdrdy = yes, !.fiq2 = yes] ELSE w
    BY <1>1 DEF Push, Signal
  <2> HIDE DEF more, yes, v
  <2>5. /\ w \in Uart /\ w.fifo = more
        /\ w.fiq2 = u.fiq2 /\ w.rxdrdy = u.rxdrdy /\ w.rxen = u.rxen /\ w.txe = u.txe
        /\ w.txen = u.txen /\ w.byte = u.byte /\ w.shifting = u.shifting
        /\ w.kick = u.kick /\ w.fiq3 = u.fiq3 /\ w.out = u.out
    BY <2>2 DEF Rings, Uart
  <2> HIDE DEF w
  <2>6. /\ v \in Uart /\ v.fifo = more
        /\ \/ v.rxdrdy = u.rxdrdy /\ v.fiq2 = u.fiq2
           \/ v.rxdrdy = yes /\ v.fiq2 = yes /\ u.rxen
        /\ v.rxen = u.rxen /\ v.txe = u.txe
        /\ v.txen = u.txen /\ v.byte = u.byte /\ v.shifting = u.shifting
        /\ v.kick = u.kick /\ v.fiq3 = u.fiq3 /\ v.out = u.out
    <3>1. CASE u.rxen
      <4>1. v = [w EXCEPT !.rxdrdy = yes, !.fiq2 = yes]
        BY <2>2, <2>4, <2>5, <3>1
      <4> QED
        BY <2>3, <2>5, <3>1, <4>1 DEF Uart
    <3>2. CASE ~u.rxen
      <4>1. v = w
        BY <2>4, <2>5, <3>2
      <4> QED
        BY <2>5, <4>1
    <3> QED
      BY <3>1, <3>2
  <2>7. Rings(v)
    BY <2>2, <2>6 DEF Rings
  <2> QED
    BY <2>3, <2>6, <2>7 DEF v
<1>2. CASE ~(Len(u.fifo) < FifoSize)
  <2>1. v = u
    BY <1>2 DEF Push
  <2> QED
    BY <2>1
<1> QED
  BY <1>1, <1>2

\* The kick-off's deadline turns into FIQ3.
LEMMA KickDoneIs ==
    ASSUME NEW u, Rings(u)
    PROVE  LET v == KickDone(u)
           IN  /\ Rings(v)
               /\ ~v.kick /\ v.fiq3
               /\ v.fiq2 = u.fiq2 /\ v.rxdrdy = u.rxdrdy /\ v.rxen = u.rxen /\ v.txe = u.txe
               /\ v.txen = u.txen /\ v.byte = u.byte /\ v.shifting = u.shifting
<1> DEFINE yes == TRUE
           no == FALSE
           v == KickDone(u)
<1>1. yes \in BOOLEAN /\ yes /\ no \in BOOLEAN /\ ~no
  OBVIOUS
<1>2. v = [u EXCEPT !.kick = no, !.fiq3 = yes]
  BY DEF KickDone
<1> HIDE DEF yes, no, v
<1>3. /\ v \in Uart /\ v.kick = no /\ v.fiq3 = yes
      /\ v.fiq2 = u.fiq2 /\ v.rxdrdy = u.rxdrdy /\ v.rxen = u.rxen /\ v.txe = u.txe
      /\ v.txen = u.txen /\ v.byte = u.byte /\ v.shifting = u.shifting
      /\ v.fifo = u.fifo /\ v.out = u.out
  BY <1>1, <1>2 DEF Rings, Uart
<1>4. Rings(v)
  BY <1>3 DEF Rings
<1> QED
  BY <1>1, <1>3, <1>4 DEF v

\* The end of a shift empties the transmit register, and raises FIQ2 if the
\* transmitter is on.
LEMMA ShiftDoneIs ==
    ASSUME NEW u, Rings(u)
    PROVE  LET v == ShiftDone(u)
           IN  /\ Rings(v)
               /\ ~v.shifting /\ v.txe
               /\ v.fiq2 <=> u.fiq2 \/ u.txen
               /\ v.rxdrdy = u.rxdrdy /\ v.rxen = u.rxen
               /\ v.txen = u.txen /\ v.byte = u.byte
               /\ v.kick = u.kick /\ v.fiq3 = u.fiq3
<1> DEFINE yes == TRUE
           no == FALSE
           fiq == u.fiq2 \/ u.txen
           ring == IF u.pending /\ Len(u.out) < OutSize THEN Append(u.out, u.byte) ELSE u.out
           v == ShiftDone(u)
<1>1. yes \in BOOLEAN /\ yes /\ no \in BOOLEAN /\ ~no /\ fiq \in BOOLEAN
  OBVIOUS
<1>2. u.out \in Seq(Nat) /\ u.byte \in Nat /\ Len(u.out) <= OutSize
  BY DEF Rings, Uart
<1>3. ring \in Seq(Nat) /\ Len(ring) <= OutSize
  BY <1>2, MbusAssumption
<1>4. v = [u EXCEPT !.shifting = no, !.txe = yes, !.pending = no, !.out = ring, !.fiq2 = fiq]
  BY DEF ShiftDone
<1> HIDE DEF yes, no, fiq, ring, v
<1>5. /\ v \in Uart /\ v.shifting = no /\ v.txe = yes /\ v.fiq2 = fiq
      /\ v.rxdrdy = u.rxdrdy /\ v.rxen = u.rxen
      /\ v.txen = u.txen /\ v.byte = u.byte /\ v.kick = u.kick /\ v.fiq3 = u.fiq3
      /\ v.fifo = u.fifo /\ v.out = ring
  BY <1>1, <1>3, <1>4 DEF Rings, Uart
<1>6. Rings(v)
  BY <1>1, <1>3, <1>5 DEF Rings
<1> QED
  BY <1>1, <1>5, <1>6 DEF v, fiq

-----------------------------------------------------------------------------
(* The invariant is inductive. *)

\* The parts of a tick: the kick-off's deadline,
LEMMA KickDoneKeeps ==
    ASSUME NEW u, NEW f \in Firmware, NEW n \in Nat, InvOf(u, f, n), u.kick
    PROVE  InvOf(KickDone(u), f, n)
<1> DEFINE v == KickDone(u)
<1>1. /\ Rings(v)
      /\ ~v.kick /\ v.fiq3
      /\ v.fiq2 = u.fiq2 /\ v.rxdrdy = u.rxdrdy /\ v.rxen = u.rxen /\ v.txe = u.txe
      /\ v.txen = u.txen /\ v.byte = u.byte /\ v.shifting = u.shifting
  BY KickDoneIs DEF InvOf
<1> HIDE DEF v
<1>2. Follows(v, f)
  BY <1>1 DEF InvOf, Follows, Level, RxLevel, TxLevel
<1>3. Kickoff(v, f)
  BY <1>1 DEF InvOf, Kickoff
<1>4. Numbered(v, f, n)
  BY <1>1 DEF InvOf, Numbered
<1> QED
  BY <1>1, <1>2, <1>3, <1>4 DEF InvOf, v

\* the end of a shift,
LEMMA ShiftDoneKeeps ==
    ASSUME NEW u, NEW f \in Firmware, NEW n \in Nat, InvOf(u, f, n), u.shifting
    PROVE  InvOf(ShiftDone(u), f, n + 1)
<1> DEFINE v == ShiftDone(u)
<1>1. /\ Rings(v)
      /\ ~v.shifting /\ v.txe
      /\ v.fiq2 <=> u.fiq2 \/ u.txen
      /\ v.rxdrdy = u.rxdrdy /\ v.rxen = u.rxen
      /\ v.txen = u.txen /\ v.byte = u.byte
      /\ v.kick = u.kick /\ v.fiq3 = u.fiq3
  BY ShiftDoneIs DEF InvOf
<1> HIDE DEF v
<1>2. Follows(v, f)
  BY <1>1 DEF InvOf, Follows, Level, RxLevel, TxLevel
<1>3. Kickoff(v, f)
  BY <1>1 DEF InvOf, Kickoff
<1>4. Numbered(v, f, n + 1)
  BY <1>1 DEF InvOf, Numbered, Firmware
<1> QED
  BY <1>1, <1>2, <1>3, <1>4 DEF InvOf, v

\* a byte from the host,
LEMMA PushKeeps ==
    ASSUME NEW u, NEW f \in Firmware, NEW n \in Nat, InvOf(u, f, n), NEW b \in Nat
    PROVE  InvOf(Push(u, b), f, n)
<1> DEFINE v == Push(u, b)
<1>1. /\ Rings(v)
      /\ \/ v.rxdrdy = u.rxdrdy /\ v.fiq2 = u.fiq2
         \/ v.rxdrdy /\ v.fiq2 /\ u.rxen
      /\ v.rxen = u.rxen /\ v.txe = u.txe
      /\ v.txen = u.txen /\ v.byte = u.byte /\ v.shifting = u.shifting
      /\ v.kick = u.kick /\ v.fiq3 = u.fiq3
  BY PushIs DEF InvOf
<1> HIDE DEF v
<1>2. Follows(v, f)
  BY <1>1 DEF InvOf, Follows, Level, RxLevel, TxLevel
<1>3. Kickoff(v, f)
  BY <1>1 DEF InvOf, Kickoff
<1>4. Numbered(v, f, n)
  BY <1>1 DEF InvOf, Numbered
<1> QED
  BY <1>1, <1>2, <1>3, <1>4 DEF InvOf, v

\* and the host's drain.
LEMMA DrainKeeps ==
    ASSUME NEW u, NEW f \in Firmware, NEW n \in Nat, InvOf(u, f, n)
    PROVE  InvOf([u EXCEPT !.out = <<>>], f, n)
<1> DEFINE empty == <<>>
           v == [u EXCEPT !.out = empty]
<1>1. u \in Uart /\ empty \in Seq(Nat) /\ Len(empty) = 0
  BY DEF InvOf, Rings
<1>e. [u EXCEPT !.out = <<>>] = v
  OBVIOUS
<1> HIDE DEF empty
<1>2. /\ v \in Uart /\ v.out = empty
      /\ v.fiq2 = u.fiq2 /\ v.rxdrdy = u.rxdrdy /\ v.rxen = u.rxen /\ v.txe = u.txe
      /\ v.txen = u.txen /\ v.byte = u.byte /\ v.shifting = u.shifting
      /\ v.kick = u.kick /\ v.fiq3 = u.fiq3 /\ v.fifo = u.fifo
  BY <1>1 DEF Uart
<1> HIDE DEF v
<1>3. Rings(v)
  BY <1>1, <1>2, MbusAssumption DEF InvOf, Rings
<1>4. Follows(v, f)
  BY <1>2 DEF InvOf, Follows, Level, RxLevel, TxLevel
<1>5. Kickoff(v, f)
  BY <1>2 DEF InvOf, Kickoff
<1>6. Numbered(v, f, n)
  BY <1>2 DEF InvOf, Numbered
<1> QED
  BY <1>3, <1>4, <1>5, <1>6, <1>e DEF InvOf

\* A tick keeps the invariant, and shifts out the byte in the shifter.
LEMMA TickKeeps ==
    ASSUME Inv, NEW kicks \in BOOLEAN, NEW shifts \in BOOLEAN, Tick(kicks, shifts)
    PROVE  Inv' /\ (wire'.shifted > wire.shifted => uart.byte = wire'.shifted)
<1> DEFINE u1 == IF kicks THEN KickDone(uart) ELSE uart
           u2 == IF shifts THEN ShiftDone(u1) ELSE u1
           n2 == IF shifts THEN wire.shifted + 1 ELSE wire.shifted
           u3(feeds) == IF feeds THEN Push(u2, wire.pushed + 1) ELSE u2
<1>1. PICK feeds \in BOOLEAN, drains \in BOOLEAN :
        /\ uart' = IF drains THEN [u3(feeds) EXCEPT !.out = <<>>] ELSE u3(feeds)
        /\ wire' = [wire EXCEPT !.pushed = IF feeds THEN @ + 1 ELSE @,
                                !.shifted = IF shifts THEN @ + 1 ELSE @]
  BY DEF Tick
<1>2. fw' = fw /\ fw \in Firmware /\ wire \in Wire
      /\ InvOf(uart, fw, wire.shifted) /\ wire.shifted \in Nat /\ wire.pushed + 1 \in Nat
  BY DEF Inv, Tick, Wire
<1>3. (kicks => uart.kick) /\ (shifts => uart.shifting)
  BY DEF Tick
<1>4. InvOf(u1, fw, wire.shifted) /\ u1.shifting = uart.shifting
  <2>1. kicks => u1.shifting = uart.shifting
    BY <1>2, KickDoneIs DEF InvOf
  <2> QED
    BY <1>2, <1>3, <2>1, KickDoneKeeps
<1> HIDE DEF u1
<1>5. InvOf(u2, fw, n2) /\ n2 \in Nat
  BY <1>2, <1>3, <1>4, ShiftDoneKeeps
<1> HIDE DEF u2
<1>6. InvOf(u3(feeds), fw, n2)
  <2> HIDE DEF n2
  <2> QED
    BY <1>2, <1>5, PushKeeps
<1> HIDE DEF u3
<1>7. InvOf(uart', fw, n2)
  <2> HIDE DEF n2
  <2> QED
    BY <1>1, <1>2, <1>5, <1>6, DrainKeeps
<1>8. wire' \in Wire /\ wire'.shifted = n2
  <2> DEFINE p2 == IF feeds THEN wire.pushed + 1 ELSE wire.pushed
  <2>1. wire' = [wire EXCEPT !.pushed = p2, !.shifted = n2]
    BY <1>1
  <2>2. p2 \in Nat
    BY <1>2 DEF Wire
  <2> HIDE DEF p2, n2
  <2> QED
    BY <1>2, <1>5, <2>1, <2>2 DEF Wire
<1>9. Inv'
  BY <1>2, <1>7, <1>8 DEF Inv
<1>10. wire'.shifted > wire.shifted => uart.byte = wire'.shifted
  BY <1>2, <1>3, <1>8 DEF InvOf, Numbered
<1> QED
  BY <1>9, <1>10

\* An action of the firmware that leaves the line alone keeps the invariant if
\* it keeps its three conditions.
LEMMA Combine ==
    ASSUME Inv, fw' \in Firmware, wire' \in Wire, wire'.shifted = wire.shifted,
           Rings(uart'), Follows(uart', fw'), Kickoff(uart', fw'),
           Numbered(uart', fw', wire.shifted)
    PROVE  Inv'
BY DEF Inv, InvOf

\* What an action may assume.
LEMMA Unpack ==
    ASSUME Inv
    PROVE  /\ fw \in Firmware /\ wire \in Wire /\ wire.shifted \in Nat
           /\ Rings(uart) /\ uart \in Uart
           /\ Follows(uart, fw) /\ Kickoff(uart, fw) /\ Numbered(uart, fw, wire.shifted)
           /\ fw.base \in Nat /\ fw.len \in Nat /\ fw.sent \in Nat
BY DEF Inv, InvOf, Rings, Wire, Firmware

\* The main program: opening or closing the receiver,
LEMMA SetRxKeeps == Inv /\ SetRx => Inv'
<1> SUFFICES ASSUME Inv, SetRx PROVE Inv'
  OBVIOUS
<1> USE Unpack
<1> DEFINE v == WriteCtrl(uart, uart.txen, ~uart.rxen)
<1>1. uart' = v /\ UNCHANGED <<fw, wire>> /\ fw.at = "main"
  BY DEF SetRx, At
<1>2. uart.txen \in BOOLEAN /\ (~uart.rxen) \in BOOLEAN
  BY DEF Uart
<1>3. /\ Rings(v)
      /\ v.fiq2 <=> Level(v)
      /\ v.txen = uart.txen /\ v.byte = uart.byte /\ v.shifting = uart.shifting
      /\ v.kick = uart.kick /\ v.fiq3 = uart.fiq3
  BY <1>2, WriteCtrlIs, ZenonT(40)
<1> HIDE DEF v
<1>4. Follows(v, fw)
  BY <1>3 DEF Follows, Level
<1>5. Kickoff(v, fw) /\ Numbered(v, fw, wire.shifted)
  BY <1>3 DEF Kickoff, Numbered
<1> QED
  BY <1>1, <1>3, <1>4, <1>5, Combine

\* starting a frame,
LEMMA StartFrameKeeps == Inv /\ StartFrame => Inv'
<1> SUFFICES ASSUME Inv, StartFrame PROVE Inv'
  OBVIOUS
<1> USE Unpack
<1> DEFINE yes == TRUE
           v == MaskFiq3(uart, yes)
<1>1. PICK n \in FrameLens : fw' = [fw EXCEPT !.len = n, !.at = "unmask"]
  BY DEF StartFrame
<1>2. uart' = v /\ wire' = wire /\ fw.at = "main" /\ fw.len = 0
  BY DEF StartFrame, At
<1>3. n \in Nat /\ n > 0
  BY MbusAssumption
<1>4. /\ fw' \in Firmware /\ fw'.at = "unmask" /\ fw'.len = n
      /\ fw'.sent = fw.sent /\ fw'.base = fw.base
  BY <1>1, <1>3 DEF Firmware, Places
<1>5. yes \in BOOLEAN /\ yes
  OBVIOUS
<1> HIDE DEF yes
<1>6. /\ Rings(v)
      /\ v.kick <=> uart.kick
      /\ v.fiq2 = uart.fiq2 /\ v.rxdrdy = uart.rxdrdy /\ v.rxen = uart.rxen /\ v.txe = uart.txe
      /\ v.txen = uart.txen /\ v.byte = uart.byte /\ v.shifting = uart.shifting
      /\ v.fiq3 = uart.fiq3
  BY <1>5, MaskFiq3Is
<1> HIDE DEF v
<1>7. Follows(v, fw')
  BY <1>2, <1>4, <1>6 DEF Follows, Level, RxLevel, TxLevel
<1>8. Kickoff(v, fw')
  BY <1>2, <1>3, <1>4, <1>6 DEF Kickoff
<1>9. Numbered(v, fw', wire.shifted)
  BY <1>4, <1>6 DEF Numbered
<1> QED
  BY <1>2, <1>4, <1>6, <1>7, <1>8, <1>9, Combine

\* and unmasking FIQ3.
LEMMA UnmaskKeeps == Inv /\ Unmask => Inv'
<1> SUFFICES ASSUME Inv, Unmask PROVE Inv'
  OBVIOUS
<1> USE Unpack
<1> DEFINE no == FALSE
           v == MaskFiq3(uart, no)
<1>1. uart' = v /\ wire' = wire /\ fw.at = "unmask" /\ fw' = [fw EXCEPT !.at = "main"]
  BY DEF Unmask, At, Goto
<1>2. /\ fw' \in Firmware /\ fw'.at = "main" /\ fw'.len = fw.len
      /\ fw'.sent = fw.sent /\ fw'.base = fw.base
  BY <1>1 DEF Firmware, Places
<1>3. no \in BOOLEAN /\ ~no
  OBVIOUS
<1> HIDE DEF no
<1>4. /\ Rings(v)
      /\ v.fiq2 = uart.fiq2 /\ v.rxdrdy = uart.rxdrdy /\ v.rxen = uart.rxen /\ v.txe = uart.txe
      /\ v.txen = uart.txen /\ v.byte = uart.byte /\ v.shifting = uart.shifting
      /\ v.fiq3 = uart.fiq3
  BY <1>3, MaskFiq3Is
<1> HIDE DEF v
<1>5. Follows(v, fw')
  BY <1>1, <1>2, <1>4 DEF Follows, Level, RxLevel, TxLevel
<1>6. Kickoff(v, fw')
  BY <1>1, <1>2, <1>4 DEF Kickoff
<1>7. Numbered(v, fw', wire.shifted)
  BY <1>2, <1>4 DEF Numbered
<1> QED
  BY <1>1, <1>2, <1>4, <1>5, <1>6, <1>7, Combine

\* Entering a handler, and leaving that of FIQ2.
LEMMA EnterKeeps == Inv /\ (EnterFiq3 \/ EnterFiq2 \/ Leave2) => Inv'
<1> SUFFICES ASSUME Inv, EnterFiq3 \/ EnterFiq2 \/ Leave2 PROVE Inv'
  OBVIOUS
<1> USE Unpack
<1>1. /\ uart' = uart /\ wire' = wire
      /\ \/ fw.at = "main" /\ uart.fiq3 /\ fw' = [fw EXCEPT !.at = "load"]
         \/ fw.at = "main" /\ fw' = [fw EXCEPT !.at = "fiq2", !.acked = FALSE, !.served = FALSE]
         \/ fw.at = "fiq2" /\ fw' = [fw EXCEPT !.at = "main"]
  BY DEF EnterFiq3, EnterFiq2, Leave2, At, Goto
<1>2. /\ fw' \in Firmware /\ fw'.len = fw.len
      /\ fw'.sent = fw.sent /\ fw'.base = fw.base
      /\ \/ fw.at = "main" /\ uart.fiq3 /\ fw'.at = "load"
         \/ fw.at = "main" /\ fw'.at = "fiq2"
         \/ fw.at = "fiq2" /\ fw'.at = "main"
  <2> DEFINE no == FALSE
  <2>1. CASE fw.at = "main" /\ uart.fiq3 /\ fw' = [fw EXCEPT !.at = "load"]
    BY <2>1 DEF Firmware, Places
  <2>2. CASE fw.at = "main" /\ fw' = [fw EXCEPT !.at = "fiq2", !.acked = no, !.served = no]
    <3>1. no \in BOOLEAN
      OBVIOUS
    <3> HIDE DEF no
    <3> QED
      BY <2>2, <3>1 DEF Firmware, Places
  <2>3. CASE fw.at = "fiq2" /\ fw' = [fw EXCEPT !.at = "main"]
    BY <2>3 DEF Firmware, Places
  <2> QED
    BY <1>1, <2>1, <2>2, <2>3
<1>3. Follows(uart, fw')
  BY <1>2 DEF Follows
<1>4. Kickoff(uart, fw')
  BY <1>2 DEF Kickoff
<1>5. Numbered(uart, fw', wire.shifted)
  BY <1>2 DEF Numbered
<1> QED
  BY <1>1, <1>2, <1>3, <1>4, <1>5, Combine

\* The handler of FIQ3: byte 0,
LEMMA KickLoadKeeps == Inv /\ KickLoad => Inv'
<1> SUFFICES ASSUME Inv, KickLoad PROVE Inv'
  OBVIOUS
<1> USE Unpack
<1> DEFINE v == LoadTx(uart, fw.base + 1)
<1>1. uart' = v /\ wire' = wire /\ fw.at = "load"
      /\ fw' = [fw EXCEPT !.at = "enable", !.sent = 1]
  BY DEF KickLoad, At
<1>2. /\ fw' \in Firmware /\ fw'.at = "enable" /\ fw'.len = fw.len
      /\ fw'.sent = 1 /\ fw'.base = fw.base
  BY <1>1 DEF Firmware, Places
<1>3. fw.base + 1 \in Nat
  OBVIOUS
<1>4. /\ Rings(v)
      /\ ~v.txe /\ ~v.fiq2 /\ v.byte = fw.base + 1 /\ v.shifting
      /\ v.rxdrdy = uart.rxdrdy /\ v.rxen = uart.rxen /\ v.txen = uart.txen
      /\ v.kick = uart.kick /\ v.fiq3 = uart.fiq3
  BY <1>3, LoadTxIs
<1> HIDE DEF v
<1>5. Follows(v, fw')
  BY <1>2, <1>4 DEF Follows, TxLevel
<1>6. Kickoff(v, fw')
  BY <1>1, <1>2, <1>4 DEF Kickoff
<1>7. Numbered(v, fw', wire.shifted)
  BY <1>1, <1>2, <1>4 DEF Numbered, Kickoff
<1> QED
  BY <1>1, <1>2, <1>4, <1>5, <1>6, <1>7, Combine

\* the transmitter on,
LEMMA KickEnableKeeps == Inv /\ KickEnable => Inv'
<1> SUFFICES ASSUME Inv, KickEnable PROVE Inv'
  OBVIOUS
<1> USE Unpack
<1> DEFINE yes == TRUE
           v == WriteCtrl(uart, yes, uart.rxen)
<1>1. uart' = v /\ wire' = wire /\ fw.at = "enable" /\ fw' = [fw EXCEPT !.at = "mask"]
  BY DEF KickEnable, At, Goto
<1>2. /\ fw' \in Firmware /\ fw'.at = "mask" /\ fw'.len = fw.len
      /\ fw'.sent = fw.sent /\ fw'.base = fw.base
  BY <1>1 DEF Firmware, Places
<1>3. yes \in BOOLEAN /\ yes /\ uart.rxen \in BOOLEAN
  BY DEF Uart
<1> HIDE DEF yes
<1>4. /\ Rings(v)
      /\ v.fiq2 <=> Level(v)
      /\ v.txen = yes /\ v.byte = uart.byte /\ v.shifting = uart.shifting
      /\ v.kick = uart.kick /\ v.fiq3 = uart.fiq3
  BY <1>3, WriteCtrlIs
<1> HIDE DEF v
<1>5. Follows(v, fw')
  BY <1>4 DEF Follows, Level
<1>6. Kickoff(v, fw')
  BY <1>1, <1>2, <1>3, <1>4 DEF Kickoff
<1>7. Numbered(v, fw', wire.shifted)
  BY <1>2, <1>4 DEF Numbered
<1> QED
  BY <1>1, <1>2, <1>4, <1>5, <1>6, <1>7, Combine

\* FIQ3 masked,
LEMMA KickMaskKeeps == Inv /\ KickMask => Inv'
<1> SUFFICES ASSUME Inv, KickMask PROVE Inv'
  OBVIOUS
<1> USE Unpack
<1> DEFINE yes == TRUE
           v == MaskFiq3(uart, yes)
<1>1. uart' = v /\ wire' = wire /\ fw.at = "mask" /\ fw' = [fw EXCEPT !.at = "ack3"]
  BY DEF KickMask, At, Goto
<1>2. /\ fw' \in Firmware /\ fw'.at = "ack3" /\ fw'.len = fw.len
      /\ fw'.sent = fw.sent /\ fw'.base = fw.base
  BY <1>1 DEF Firmware, Places
<1>3. yes \in BOOLEAN /\ yes
  OBVIOUS
<1> HIDE DEF yes
<1>4. /\ Rings(v)
      /\ v.kick <=> uart.kick
      /\ v.fiq2 = uart.fiq2 /\ v.rxdrdy = uart.rxdrdy /\ v.rxen = uart.rxen /\ v.txe = uart.txe
      /\ v.txen = uart.txen /\ v.byte = uart.byte /\ v.shifting = uart.shifting
      /\ v.fiq3 = uart.fiq3
  BY <1>3, MaskFiq3Is
<1> HIDE DEF v
<1>5. Follows(v, fw')
  BY <1>1, <1>2, <1>4 DEF Follows, Level, RxLevel, TxLevel
<1>6. Kickoff(v, fw')
  BY <1>1, <1>2, <1>4 DEF Kickoff
<1>7. Numbered(v, fw', wire.shifted)
  BY <1>2, <1>4 DEF Numbered
<1> QED
  BY <1>1, <1>2, <1>4, <1>5, <1>6, <1>7, Combine

\* and acknowledged.
LEMMA KickAckKeeps == Inv /\ KickAck => Inv'
<1> SUFFICES ASSUME Inv, KickAck PROVE Inv'
  OBVIOUS
<1> USE Unpack
<1> DEFINE no == FALSE
           v == [uart EXCEPT !.fiq3 = no]
<1>1. uart' = v /\ wire' = wire /\ fw.at = "ack3" /\ fw' = [fw EXCEPT !.at = "main"]
  BY DEF KickAck, At, Goto
<1>2. /\ fw' \in Firmware /\ fw'.at = "main" /\ fw'.len = fw.len
      /\ fw'.sent = fw.sent /\ fw'.base = fw.base
  BY <1>1 DEF Firmware, Places
<1>3. no \in BOOLEAN /\ ~no
  OBVIOUS
<1> HIDE DEF no
<1>4. /\ v \in Uart /\ v.fiq3 = no
      /\ v.fiq2 = uart.fiq2 /\ v.rxdrdy = uart.rxdrdy /\ v.rxen = uart.rxen /\ v.txe = uart.txe
      /\ v.txen = uart.txen /\ v.byte = uart.byte /\ v.shifting = uart.shifting
      /\ v.kick = uart.kick /\ v.fifo = uart.fifo /\ v.out = uart.out
  BY <1>3 DEF Uart
<1> HIDE DEF v
<1>5. Rings(v)
  BY <1>4 DEF Rings
<1>6. Follows(v, fw')
  BY <1>1, <1>2, <1>4 DEF Follows, Level, RxLevel, TxLevel
<1>7. Kickoff(v, fw')
  BY <1>1, <1>2, <1>3, <1>4 DEF Kickoff
<1>8. Numbered(v, fw', wire.shifted)
  BY <1>2, <1>4 DEF Numbered
<1> QED
  BY <1>1, <1>2, <1>5, <1>6, <1>7, <1>8, Combine

\* The handler of FIQ2: the acknowledge,
LEMMA Ack2Keeps == Inv /\ Ack2 => Inv'
<1> SUFFICES ASSUME Inv, Ack2 PROVE Inv'
  OBVIOUS
<1> USE Unpack
<1> DEFINE yes == TRUE
           v == AckFiq2(uart)
<1>1. uart' = v /\ wire' = wire /\ fw.at = "fiq2" /\ fw' = [fw EXCEPT !.acked = yes]
  BY DEF Ack2, At
<1>2. yes \in BOOLEAN
  OBVIOUS
<1> HIDE DEF yes
<1>3. /\ fw' \in Firmware /\ fw'.at = fw.at /\ fw'.len = fw.len
      /\ fw'.sent = fw.sent /\ fw'.base = fw.base
  BY <1>1, <1>2 DEF Firmware
<1>4. /\ Rings(v)
      /\ v.fiq2 <=> Level(v)
      /\ v.txen = uart.txen /\ v.byte = uart.byte /\ v.shifting = uart.shifting
      /\ v.kick = uart.kick /\ v.fiq3 = uart.fiq3
  BY AckFiq2Is
<1> HIDE DEF v
<1>5. Follows(v, fw')
  BY <1>4 DEF Follows, Level
<1>6. Kickoff(v, fw')
  BY <1>1, <1>3, <1>4 DEF Kickoff
<1>7. Numbered(v, fw', wire.shifted)
  BY <1>3, <1>4 DEF Numbered
<1> QED
  BY <1>1, <1>3, <1>4, <1>5, <1>6, <1>7, Combine

\* a byte read,
LEMMA ReadByteKeeps == Inv /\ ReadByte => Inv'
<1> SUFFICES ASSUME Inv, ReadByte PROVE Inv'
  OBVIOUS
<1> USE Unpack
<1> DEFINE yes == TRUE
           head == Head(uart.fifo)
           v == Pop(uart)
<1>1. uart' = v /\ wire' = [wire EXCEPT !.heard = head] /\ fw.at = "fiq2"
      /\ fw' = [fw EXCEPT !.served = yes] /\ RxLevel(uart)
  BY DEF ReadByte, At
<1>2. yes \in BOOLEAN
  OBVIOUS
<1> HIDE DEF yes
<1>3. /\ fw' \in Firmware /\ fw'.at = fw.at /\ fw'.len = fw.len
      /\ fw'.sent = fw.sent /\ fw'.base = fw.base
  BY <1>1, <1>2 DEF Firmware
<1>4. /\ Rings(v)
      /\ \/ v.rxdrdy = uart.rxdrdy /\ v.fiq2 = uart.fiq2
         \/ ~v.rxdrdy /\ (v.fiq2 <=> uart.fiq2 /\ TxLevel(uart))
      /\ v.rxen = uart.rxen /\ v.txe = uart.txe
      /\ v.txen = uart.txen /\ v.byte = uart.byte /\ v.shifting = uart.shifting
      /\ v.kick = uart.kick /\ v.fiq3 = uart.fiq3
      /\ head \in Nat
  BY <1>1, PopIs
<1> HIDE DEF v, head
<1>5. wire' \in Wire /\ wire'.shifted = wire.shifted
  BY <1>1, <1>4 DEF Wire
<1>6. Follows(v, fw')
  BY <1>3, <1>4 DEF Follows, Level, RxLevel, TxLevel
<1>7. Kickoff(v, fw')
  BY <1>1, <1>3, <1>4 DEF Kickoff
<1>8. Numbered(v, fw', wire.shifted)
  BY <1>3, <1>4 DEF Numbered
<1> QED
  BY <1>1, <1>3, <1>4, <1>5, <1>6, <1>7, <1>8, Combine

\* the next byte sent,
LEMMA NextByteKeeps == Inv /\ NextByte => Inv'
<1> SUFFICES ASSUME Inv, NextByte PROVE Inv'
  OBVIOUS
<1> USE Unpack
<1> DEFINE yes == TRUE
           more == fw.sent + 1
           v == LoadTx(uart, fw.base + fw.sent + 1)
<1>1. uart' = v /\ wire' = wire /\ fw.at = "fiq2" /\ TxLevel(uart) /\ fw.sent < fw.len
      /\ fw' = [fw EXCEPT !.at = "remask", !.sent = more, !.served = yes]
  BY DEF NextByte, At
<1>2. yes \in BOOLEAN /\ more \in Nat /\ more = fw.sent + 1
  OBVIOUS
<1> HIDE DEF yes, more
<1>3. /\ fw' \in Firmware /\ fw'.at = "remask" /\ fw'.len = fw.len
      /\ fw'.sent = more /\ fw'.base = fw.base
  BY <1>1, <1>2 DEF Firmware, Places
<1>4. fw.base + fw.sent + 1 \in Nat
  OBVIOUS
<1>5. /\ Rings(v)
      /\ ~v.txe /\ ~v.fiq2 /\ v.byte = fw.base + fw.sent + 1 /\ v.shifting
      /\ v.rxdrdy = uart.rxdrdy /\ v.rxen = uart.rxen /\ v.txen = uart.txen
      /\ v.kick = uart.kick /\ v.fiq3 = uart.fiq3
  BY <1>4, LoadTxIs
<1>6. ~uart.shifting /\ uart.txen /\ fw.sent > 0
  BY <1>1 DEF TxLevel, Rings, Kickoff
<1> HIDE DEF v
<1>7. Follows(v, fw')
  BY <1>5, <1>6 DEF Follows, TxLevel
<1>8. Kickoff(v, fw')
  BY <1>1, <1>2, <1>3, <1>5, <1>6 DEF Kickoff
<1>9. Numbered(v, fw', wire.shifted)
  BY <1>2, <1>3, <1>5, <1>6 DEF Numbered
<1> QED
  BY <1>1, <1>3, <1>5, <1>7, <1>8, <1>9, Combine

\* FIQ3 unmasked again,
LEMMA RemaskKeeps == Inv /\ Remask => Inv'
<1> SUFFICES ASSUME Inv, Remask PROVE Inv'
  OBVIOUS
<1> USE Unpack
<1> DEFINE no == FALSE
           v == MaskFiq3(uart, no)
<1>1. uart' = v /\ wire' = wire /\ fw.at = "remask" /\ fw' = [fw EXCEPT !.at = "fiq2"]
  BY DEF Remask, At, Goto
<1>2. /\ fw' \in Firmware /\ fw'.at = "fiq2" /\ fw'.len = fw.len
      /\ fw'.sent = fw.sent /\ fw'.base = fw.base
  BY <1>1 DEF Firmware, Places
<1>3. no \in BOOLEAN /\ ~no
  OBVIOUS
<1>4. uart.txen
  BY <1>1 DEF Kickoff
<1> HIDE DEF no
<1>5. /\ Rings(v)
      /\ v.kick <=> uart.kick
      /\ v.fiq2 = uart.fiq2 /\ v.rxdrdy = uart.rxdrdy /\ v.rxen = uart.rxen /\ v.txe = uart.txe
      /\ v.txen = uart.txen /\ v.byte = uart.byte /\ v.shifting = uart.shifting
      /\ v.fiq3 = uart.fiq3
  <2>1. /\ Rings(v)
        /\ v.kick <=> uart.kick \/ (uart.mask3 /\ ~no /\ ~uart.txen)
        /\ v.fiq2 = uart.fiq2 /\ v.rxdrdy = uart.rxdrdy /\ v.rxen = uart.rxen /\ v.txe = uart.txe
        /\ v.txen = uart.txen /\ v.byte = uart.byte /\ v.shifting = uart.shifting
        /\ v.fiq3 = uart.fiq3
    BY <1>3, MaskFiq3Is
  <2> HIDE DEF v
  <2> QED
    BY <1>4, <2>1
<1> HIDE DEF v
<1>6. Follows(v, fw')
  BY <1>1, <1>2, <1>5 DEF Follows, Level, RxLevel, TxLevel
<1>7. Kickoff(v, fw')
  BY <1>1, <1>2, <1>5 DEF Kickoff
<1>8. Numbered(v, fw', wire.shifted)
  BY <1>2, <1>5 DEF Numbered
<1> QED
  BY <1>1, <1>2, <1>5, <1>6, <1>7, <1>8, Combine

\* or the frame ended.
LEMMA EndFrameKeeps == Inv /\ EndFrame => Inv'
<1> SUFFICES ASSUME Inv, EndFrame PROVE Inv'
  OBVIOUS
<1> USE Unpack
<1> DEFINE yes == TRUE
           no == FALSE
           past == fw.base + fw.len
           v == WriteCtrl(uart, no, uart.rxen)
<1>1. uart' = v /\ wire' = wire /\ fw.at = "fiq2" /\ TxLevel(uart) /\ fw.sent = fw.len
      /\ fw' = [fw EXCEPT !.base = past, !.len = 0, !.sent = 0, !.served = yes]
  BY DEF EndFrame, At
<1>2. yes \in BOOLEAN /\ past \in Nat /\ past = fw.base + fw.len
  OBVIOUS
<1>3. no \in BOOLEAN /\ ~no /\ uart.rxen \in BOOLEAN
  BY DEF Uart
<1> HIDE DEF yes, no, past
<1>4. /\ fw' \in Firmware /\ fw'.at = fw.at /\ fw'.len = 0
      /\ fw'.sent = 0 /\ fw'.base = past
  BY <1>1, <1>2 DEF Firmware
<1>5. /\ Rings(v)
      /\ v.fiq2 <=> Level(v)
      /\ v.txen = no /\ v.byte = uart.byte /\ v.shifting = uart.shifting
      /\ v.kick = uart.kick /\ v.fiq3 = uart.fiq3
  BY <1>3, WriteCtrlIs
<1>6. ~uart.shifting /\ uart.txen /\ fw.sent > 0
  BY <1>1 DEF TxLevel, Rings, Kickoff
<1> HIDE DEF v
<1>7. Follows(v, fw')
  BY <1>5 DEF Follows, Level
<1>8. Kickoff(v, fw')
  BY <1>1, <1>3, <1>4, <1>5, <1>6 DEF Kickoff
<1>9. Numbered(v, fw', wire.shifted)
  BY <1>1, <1>2, <1>4, <1>5, <1>6 DEF Numbered
<1> QED
  BY <1>1, <1>4, <1>5, <1>7, <1>8, <1>9, Combine

-----------------------------------------------------------------------------
(* The theorems. *)

\* The UART comes up silent, and the firmware outside a frame.
LEMMA InitInv == Init => Inv
<1> SUFFICES ASSUME Init PROVE Inv
  OBVIOUS
<1> DEFINE no == FALSE
           yes == TRUE
           empty == <<>>
<1>1. no \in BOOLEAN /\ ~no /\ yes \in BOOLEAN /\ empty \in Seq(Nat) /\ Len(empty) = 0
  OBVIOUS
<1>2. uart = [fifo |-> empty, rxdrdy |-> no, rxen |-> no, txen |-> no,
              txe |-> no, byte |-> 0, pending |-> no, shifting |-> no,
              out |-> empty, kick |-> no, fiq2 |-> no, fiq3 |-> no, mask3 |-> yes]
  BY DEF Init
<1>3. fw = [at |-> "main", base |-> 0, len |-> 0, sent |-> 0, acked |-> no, served |-> no]
      /\ wire = [pushed |-> 0, heard |-> 0, shifted |-> 0]
  BY DEF Init
<1> HIDE DEF no, yes, empty
<1>4. uart \in Uart /\ fw \in Firmware /\ wire \in Wire
  BY <1>1, <1>2, <1>3 DEF Uart, Firmware, Wire, Places
<1>5. Rings(uart)
  BY <1>1, <1>2, <1>4, MbusAssumption DEF Rings
<1>6. Follows(uart, fw)
  BY <1>1, <1>2, <1>3 DEF Follows, Level, RxLevel, TxLevel
<1>7. Kickoff(uart, fw)
  BY <1>1, <1>2, <1>3 DEF Kickoff
<1>8. Numbered(uart, fw, wire.shifted)
  BY <1>1, <1>2, <1>3 DEF Numbered
<1> QED
  BY <1>4, <1>5, <1>6, <1>7, <1>8 DEF Inv, InvOf

\* Every step keeps the invariant.
LEMMA NextInv == Inv /\ [Next]_vars => Inv'
<1> SUFFICES ASSUME Inv, [Next]_vars PROVE Inv'
  OBVIOUS
<1>1. ASSUME NEW kicks \in BOOLEAN, NEW shifts \in BOOLEAN, Tick(kicks, shifts) PROVE Inv'
  BY <1>1, TickKeeps
<1>2. CASE SetRx \/ StartFrame \/ Unmask
  BY <1>2, SetRxKeeps, StartFrameKeeps, UnmaskKeeps
<1>3. CASE EnterFiq3 \/ EnterFiq2 \/ Leave2
  BY <1>3, EnterKeeps
<1>4. CASE Kick
  BY <1>4, KickLoadKeeps, KickEnableKeeps, KickMaskKeeps, KickAckKeeps DEF Kick
<1>5. CASE Fiq2 /\ ~Leave2
  BY <1>5, Ack2Keeps, ReadByteKeeps, NextByteKeeps, RemaskKeeps, EndFrameKeeps DEF Fiq2
<1>6. CASE UNCHANGED vars
  BY <1>6 DEF vars, Inv, InvOf, Rings, Follows, Kickoff, Numbered, Level, RxLevel, TxLevel
<1> QED
  BY <1>1, <1>2, <1>3, <1>4, <1>5, <1>6 DEF Next, Fiq2

\* The invariant holds in every state of every behaviour.
THEOREM InvAlways == Spec => []Inv
BY InitInv, NextInv, PTL DEF Spec

\* The registers, both rings and the firmware's place keep their types, and the
\* rings never outgrow their arrays.
THEOREM TypeCorrect == Spec => []TypeOK
<1>1. Inv => TypeOK
  BY DEF Inv, InvOf, Rings, TypeOK, Uart, Firmware, Wire
<1> QED
  BY <1>1, InvAlways, PTL

\* FIQ2 is pending only for a cause, and no cause is left without it.
THEOREM Fiq2FollowsAlways == Spec => []Fiq2Follows
<1>1. Inv => Fiq2Follows
  BY DEF Inv, InvOf, Follows, Fiq2Follows, At
<1> QED
  BY <1>1, InvAlways, PTL

\* Only a tick shifts a byte out.
LEMMA OnlyTickShifts ==
    ASSUME Inv, Next, ~ \E kicks, shifts \in BOOLEAN : Tick(kicks, shifts)
    PROVE  wire'.shifted = wire.shifted
<1>1. wire \in Wire
  BY DEF Inv
<1>2. CASE ReadByte
  <2> DEFINE head == Head(uart.fifo)
  <2>1. wire' = [wire EXCEPT !.heard = head]
    BY <1>2 DEF ReadByte
  <2> HIDE DEF head
  <2> QED
    BY <1>1, <2>1 DEF Wire
<1>3. CASE ~ReadByte
  <2>1. wire' = wire
    BY <1>3 DEF Next, SetRx, StartFrame, Unmask, EnterFiq3, Kick, KickLoad, KickEnable,
                KickMask, KickAck, EnterFiq2, Fiq2, Ack2, NextByte, Remask, EndFrame, Leave2
  <2> QED
    BY <2>1
<1> QED
  BY <1>2, <1>3

\* The bytes of the frames are shifted out in order, each once.
THEOREM SentInOrderAlways == Spec => SentInOrder
<1> DEFINE Next1 == wire'.shifted > wire.shifted => uart.byte = wire'.shifted
<1>1. ASSUME Inv, [Next]_vars PROVE Next1
  <2>1. wire.shifted \in Nat
    BY <1>1, Unpack
  <2>2. ASSUME NEW kicks \in BOOLEAN, NEW shifts \in BOOLEAN, Tick(kicks, shifts) PROVE Next1
    BY <1>1, <2>2, TickKeeps
  <2>3. CASE Next /\ ~ \E kicks, shifts \in BOOLEAN : Tick(kicks, shifts)
    BY <1>1, <2>1, <2>3, OnlyTickShifts
  <2>4. CASE UNCHANGED vars
    BY <2>1, <2>4 DEF vars
  <2> QED
    BY <1>1, <2>2, <2>3, <2>4
<1>2. Inv /\ [Next]_vars => [Next1]_vars
  BY <1>1
<1> HIDE DEF Next1
<1>3. [][Next1]_vars => SentInOrder
  BY PTL DEF Next1, SentInOrder
<1> QED
  BY <1>2, <1>3, InvAlways, PTL DEF Spec
=============================================================================
