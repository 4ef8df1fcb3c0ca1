----------------------------- MODULE SimProofs ------------------------------
(***************************************************************************)
(* Proofs about Sim, for FIFOs of any size, any card and any repertoire of *)
(* commands.                                                               *)
(*                                                                         *)
(* The inductive invariant has two parts.  Shape has the types, the        *)
(* reader's line (no byte is stranded), the bounds of the card, and which  *)
(* command is begun.  Flow says for each place in the firmware's program   *)
(* what the whole answer is, as far as it was sent -- what the firmware    *)
(* has read, then the FIFO, then the stage behind it -- and how the card's *)
(* selection and files relate to what the firmware may conclude from it; a *)
(* write the card has done and the firmware has no answer of is included.  *)
(***************************************************************************)
EXTENDS Sim, FiniteSetTheorems, SequenceTheorems, TLAPS

-----------------------------------------------------------------------------
(* Types. *)

AllCmds == (UNION {s.cmds : s \in Settings}) \cup {NoCmd}

StatusWords == {"9000", "9F", "9404", "9804", "9408", "9402", "6700", "9240", "9840",
                "63C", "6B00", "6D00"}

\* What a byte or a file may hold, and what CHV1 may be.
Values == Files \cup {Blank} \cup StatusWords \cup {c.val : c \in AllCmds}
Codes  == {Pin} \cup {c.new : c \in AllCmds}

Bytes(e) == [cmd : e.cmds \cup {NoCmd}, k : Kinds, v : Values]

UartType(e) ==
    [rx : Seq(Bytes(e)), stage : Seq(Bytes(e)), int : SUBSET {"rx", "tx", "wwt"},
     fiq6 : BOOLEAN, fiq7 : BOOLEAN, on : BOOLEAN,
     tx : Seq(e.cmds), asm : Seq(e.cmds), t0 : BOOLEAN, atr : BOOLEAN,
     resets : 0 .. ResetMod - 1, used : BOOLEAN, wwt : BOOLEAN]

\* How much data fits the FIFO with its procedure byte and status words.
Fitting == {n \in Nat : n + 3 <= RxSize}

CardType ==
    [present : BOOLEAN, seen : BOOLEAN, sel : Files, df : Files, gr : Fitting,
     over : [Efs -> Values], enabled : BOOLEAN, verified : BOOLEAN, pin : Codes,
     tries : 0 .. PinMax, puk : 0 .. PukMax]

\* The files the firmware may take for selected.
Named == Files \cup {c.file : c \in AllCmds}

FwType(e) ==
    [at : {"off", "atr", "idle", "put", "wait"}, cmd : e.cmds \cup {NoCmd}, sent : Nat,
     got : Seq(Bytes(e)), adv : BOOLEAN, sel : Named, holds : [Efs -> SUBSET Values],
     isr : {"no", "clear", "serve"}, lines : SUBSET {"rx", "tx", "wwt"}]

\* The command of a setting, and the assumptions about it.
LEMMA CmdFacts ==
    ASSUME NEW e \in Settings, NEW cmd \in e.cmds
    PROVE  /\ cmd.p3 \in Nat /\ cmd.p3 + 3 <= RxSize
           /\ cmd.ins # "none" /\ cmd # NoCmd /\ cmd \in AllCmds
           /\ cmd.ins \in {"UPDATE BINARY", "UPDATE RECORD"} => cmd.val # Blank
<1>1. /\ cmd.p3 \in Nat /\ cmd.p3 + 3 <= RxSize /\ cmd.ins # "none"
      /\ cmd.ins \in {"UPDATE BINARY", "UPDATE RECORD"} => cmd.val # "blank"
  <2>1. \A s \in Settings : \A c \in s.cmds :
          /\ c.p3 \in Nat /\ c.p3 + 3 <= RxSize
          /\ c.ins # "none"
          /\ c.ins \in {"UPDATE BINARY", "UPDATE RECORD"} => c.val # "blank"
    BY SimAssumption
  <2> QED
    BY <2>1
<1>2. cmd # NoCmd
  <2>1. NoCmd.ins = "none"
    BY DEF NoCmd
  <2> QED
    BY <1>1, <2>1
<1>3. cmd \in AllCmds
  BY DEF AllCmds
<1> QED
  BY <1>1, <1>2, <1>3 DEF Blank

\* The sizes.
LEMMA Sizes ==
    /\ RxSize \in Nat \ {0} /\ AtrLen \in Nat \ {0} /\ Slots \in Nat \ {0}
    /\ PinMax \in Nat \ {0} /\ PukMax \in Nat \ {0} /\ ResetMod \in Nat \ {0}
    /\ TxSize \in Nat \ {0} /\ AtrLen <= RxSize
BY SimAssumption

\* What the card prepares fits, and so does any part of it.
LEMMA FittingIs ==
    /\ 0 \in Fitting /\ RecLen \in Fitting /\ KeyLen \in Fitting
    /\ \A f \in Files : FcpLen[Kind[f]] \in Fitting
    /\ FcpLen["dir"] \in Fitting
    /\ \A p3, there \in Fitting : Clamp(p3, there) \in Fitting
<1>1. \A n \in {FcpLen["dir"], FcpLen["bin"], FcpLen["rec"], RecLen, KeyLen} :
        n \in Nat \ {0} /\ n + 3 <= RxSize
  BY SimAssumption
<1>2. {FcpLen["dir"], FcpLen["bin"], FcpLen["rec"], RecLen, KeyLen} \subseteq Fitting
  BY <1>1 DEF Fitting
<1>3. 0 \in Fitting
  BY <1>1, Sizes DEF Fitting
<1>4. \A f \in Files : Kind[f] \in {"dir", "bin", "rec"}
  BY SimAssumption
<1>5. \A p3, there \in Fitting : Clamp(p3, there) \in Fitting
  BY DEF Clamp
<1> QED
  BY <1>2, <1>3, <1>4, <1>5

\* Switches are Boolean.
LEMMA Switches ==
    ASSUME NEW e \in Settings
    PROVE  /\ e.paced \in BOOLEAN /\ e.bridge \in BOOLEAN /\ e.noauth \in BOOLEAN
           /\ e.locked \in BOOLEAN
BY SimAssumption

-----------------------------------------------------------------------------
(* The reader's line: bytes and interrupts. *)

\* The bytes on their way to the firmware.
In(u) == u.rx \o u.stage

\* FIFO and stage keep their sizes, and an unpaced line has nothing staged.
Wired(e, u) ==
    /\ Len(u.rx) <= RxSize /\ Len(u.stage) <= RxSize
    /\ ~e.paced => u.stage = <<>>

\* NoByteStranded, with what the handler is doing as an argument.
StrandFree(u, serving) ==
    /\ u.rx # <<>> => "rx" \in u.int \/ serving
    /\ u.int \cap {"rx", "tx"} # {} => u.fiq6

Line(e, u, serving) == u \in UartType(e) /\ Wired(e, u) /\ StrandFree(u, serving)

\* The fields the line's own events leave alone.
SameCmd(u, v) == v.tx = u.tx /\ v.asm = u.asm /\ v.t0 = u.t0 /\ v.atr = u.atr

\* A line that rises holds FIQ6.
LEMMA RaiseIs ==
    ASSUME NEW e, NEW u \in UartType(e), NEW line \in {"rx", "tx", "wwt"}
    PROVE  /\ Raise(u, line) \in UartType(e)
           /\ Raise(u, line).rx = u.rx /\ Raise(u, line).stage = u.stage
           /\ Raise(u, line).int = u.int \cup {line} /\ Raise(u, line).fiq6
           /\ SameCmd(u, Raise(u, line))
<1> DEFINE yes == TRUE
           up == u.int \cup {line}
<1>1. yes \in BOOLEAN /\ yes
  OBVIOUS
<1>2. up \in SUBSET {"rx", "tx", "wwt"}
  BY DEF UartType
<1>3. Raise(u, line) = [u EXCEPT !.int = up, !.fiq6 = yes]
  BY DEF Raise
<1> HIDE DEF yes, up
<1>4. /\ Raise(u, line) \in UartType(e)
      /\ Raise(u, line).rx = u.rx /\ Raise(u, line).stage = u.stage
      /\ Raise(u, line).int = up /\ Raise(u, line).fiq6
      /\ SameCmd(u, Raise(u, line))
  BY <1>1, <1>2, <1>3 DEF UartType, SameCmd
<1> QED
  BY <1>4 DEF up

\* What is pushed on a FIFO is appended as far as it fits.
LEMMA PushAllIs ==
    ASSUME NEW S, NEW q \in Seq(S), NEW bytes \in Seq(S), Len(q) <= RxSize
    PROVE  /\ PushAll(q, bytes) \in Seq(S) /\ Len(PushAll(q, bytes)) <= RxSize
           /\ Len(q) + Len(bytes) <= RxSize => PushAll(q, bytes) = q \o bytes
<1> DEFINE room == RxSize - Len(q)
           n == IF Len(bytes) < room THEN Len(bytes) ELSE room
<1>1. n \in 0 .. Len(bytes) /\ n <= room /\ (Len(q) + Len(bytes) <= RxSize => n = Len(bytes))
  BY Sizes
<1>2. PushAll(q, bytes) = q \o SubSeq(bytes, 1, n)
  BY DEF PushAll
<1> HIDE DEF n
<1>3. SubSeq(bytes, 1, n) \in Seq(S) /\ Len(SubSeq(bytes, 1, n)) = n
  BY <1>1
<1>4. n = Len(bytes) => SubSeq(bytes, 1, n) = bytes
  OBVIOUS
<1>5. Len(q \o SubSeq(bytes, 1, n)) = Len(q) + n
  BY <1>3
<1>6. PushAll(q, bytes) \in Seq(S) /\ Len(PushAll(q, bytes)) <= RxSize
  BY <1>1, <1>2, <1>3, <1>5, Sizes
<1> QED
  BY <1>1, <1>2, <1>4, <1>6

\* The bytes of an answer are staged, or visible at once.
Staged(u, bytes) ==
    IF env.paced THEN [u EXCEPT !.stage = PushAll(@, bytes)]
                 ELSE [u EXCEPT !.rx = PushAll(@, bytes)]

LEMMA StagedType ==
    ASSUME env \in Settings, NEW u \in UartType(env), Wired(env, u),
           NEW bytes \in Seq(Bytes(env)), NEW v, v = Staged(u, bytes)
    PROVE  /\ v \in UartType(env) /\ SameCmd(u, v)
           /\ v.int = u.int /\ v.fiq6 = u.fiq6
           /\ v.rx = IF env.paced THEN u.rx ELSE PushAll(u.rx, bytes)
           /\ v.stage = IF env.paced THEN PushAll(u.stage, bytes) ELSE u.stage
<1>0. /\ u.rx \in Seq(Bytes(env)) /\ u.stage \in Seq(Bytes(env))
      /\ Len(u.rx) <= RxSize /\ Len(u.stage) <= RxSize
  BY DEF UartType, Wired
<1>1. CASE env.paced
  <2> DEFINE q == PushAll(u.stage, bytes)
  <2>1. v = [u EXCEPT !.stage = q]
    BY <1>1 DEF Staged
  <2>2. q \in Seq(Bytes(env))
    BY <1>0, PushAllIs
  <2> HIDE DEF q
  <2>3. /\ v \in UartType(env) /\ SameCmd(u, v) /\ v.int = u.int /\ v.fiq6 = u.fiq6
        /\ v.rx = u.rx /\ v.stage = q
    BY <2>1, <2>2 DEF UartType, SameCmd
  <2> QED
    BY <1>1, <2>3 DEF q
<1>2. CASE ~env.paced
  <2> DEFINE q == PushAll(u.rx, bytes)
  <2>1. v = [u EXCEPT !.rx = q]
    BY <1>2 DEF Staged
  <2>2. q \in Seq(Bytes(env))
    BY <1>0, PushAllIs
  <2> HIDE DEF q
  <2>3. /\ v \in UartType(env) /\ SameCmd(u, v) /\ v.int = u.int /\ v.fiq6 = u.fiq6
        /\ v.rx = q /\ v.stage = u.stage
    BY <2>1, <2>2 DEF UartType, SameCmd
  <2> QED
    BY <1>2, <2>3 DEF q
<1> QED
  BY <1>1, <1>2

\* There is room for the bytes.
Fits(q, bytes) == Len(q) + Len(bytes) <= RxSize

\* Either way they follow those on their way, if they fit.
LEMMA StagedIn ==
    ASSUME NEW S, NEW rx \in Seq(S), NEW stage \in Seq(S), NEW bytes \in Seq(S),
           Fits(rx \o stage, bytes)
    PROVE  /\ rx \o PushAll(stage, bytes) = (rx \o stage) \o bytes
           /\ PushAll(rx, bytes) = rx \o bytes
<1>1. /\ Len(rx \o stage) = Len(rx) + Len(stage)
      /\ Len(rx) \in Nat /\ Len(stage) \in Nat /\ Len(bytes) \in Nat
  OBVIOUS
<1>2. Len(rx) + Len(bytes) <= RxSize /\ Len(stage) + Len(bytes) <= RxSize
  BY <1>1, Sizes DEF Fits
<1>3. PushAll(rx, bytes) = rx \o bytes /\ PushAll(stage, bytes) = stage \o bytes
  BY <1>1, <1>2, PushAllIs, Sizes, SMTT(30)
<1>4. rx \o (stage \o bytes) = (rx \o stage) \o bytes
  BY ConcatAssociative
<1> QED
  BY <1>3, <1>4

\* An answer that fits joins the bytes on their way, and none of it is stranded.
LEMMA RespondIs ==
    ASSUME env \in Settings, NEW u, NEW serving \in BOOLEAN, Line(env, u, serving),
           NEW bytes \in Seq(Bytes(env))
    PROVE  /\ Line(env, Respond(u, bytes), serving) /\ SameCmd(u, Respond(u, bytes))
           /\ Fits(In(u), bytes) =>
                In(Respond(u, bytes)) = In(u) \o bytes
<1> DEFINE v == Staged(u, bytes)
<1>0. /\ u \in UartType(env) /\ Wired(env, u) /\ env.paced \in BOOLEAN
      /\ u.rx \in Seq(Bytes(env)) /\ u.stage \in Seq(Bytes(env))
  BY Switches DEF Line, UartType
<1>a. /\ v \in UartType(env) /\ SameCmd(u, v) /\ v.int = u.int /\ v.fiq6 = u.fiq6
      /\ v.rx = IF env.paced THEN u.rx ELSE PushAll(u.rx, bytes)
      /\ v.stage = IF env.paced THEN PushAll(u.stage, bytes) ELSE u.stage
  BY <1>0, StagedType
<1>2. Respond(u, bytes) = IF v.rx # <<>> THEN Raise(v, "rx") ELSE v
  BY DEF Respond, Staged
<1> HIDE DEF v
<1>1. /\ v \in UartType(env) /\ Wired(env, v) /\ SameCmd(u, v)
      /\ v.int = u.int /\ v.fiq6 = u.fiq6
      /\ Fits(In(u), bytes) => In(v) = In(u) \o bytes
  <2>1. /\ Len(v.rx) <= RxSize /\ Len(v.stage) <= RxSize
        /\ ~env.paced => v.stage = <<>>
        /\ Fits(u.rx \o u.stage, bytes) =>
                v.rx \o v.stage = (u.rx \o u.stage) \o bytes
    <3> DEFINE rx == u.rx
               stage == u.stage
    <3>1. /\ rx \in Seq(Bytes(env)) /\ stage \in Seq(Bytes(env))
          /\ Len(rx) <= RxSize /\ Len(stage) <= RxSize
          /\ ~env.paced => stage = <<>>
      BY <1>0 DEF Wired
    <3> HIDE DEF rx, stage
    <3>2. /\ Len(PushAll(rx, bytes)) <= RxSize /\ Len(PushAll(stage, bytes)) <= RxSize
      BY <3>1, PushAllIs
    <3>4. /\ v.rx = IF env.paced THEN rx ELSE PushAll(rx, bytes)
          /\ v.stage = IF env.paced THEN PushAll(stage, bytes) ELSE stage
      BY <1>a DEF rx, stage
    <3>5. /\ Len(v.rx) <= RxSize /\ Len(v.stage) <= RxSize
          /\ ~env.paced => v.stage = <<>>
      BY <1>0, <3>1, <3>2, <3>4
    <3>6. ASSUME Fits(rx \o stage, bytes)
          PROVE  v.rx \o v.stage = (rx \o stage) \o bytes
      <4>1. rx \o PushAll(stage, bytes) = (rx \o stage) \o bytes
        BY <3>1, <3>6, StagedIn, SMTT(30)
      <4>2. PushAll(rx, bytes) = rx \o bytes
        BY <3>1, <3>6, StagedIn, SMTT(30)
      <4>3. CASE env.paced
        BY <3>4, <4>1, <4>3
      <4>4. CASE ~env.paced
        <5>1. (rx \o bytes) \o <<>> = rx \o bytes /\ rx \o <<>> = rx
          BY <3>1
        <5> QED
          BY <3>1, <3>4, <4>2, <4>4, <5>1
      <4> QED
        BY <4>3, <4>4
    <3> QED
      BY <3>5, <3>6 DEF rx, stage
  <2> QED
    BY <1>a, <2>1 DEF Wired, In
<1>3. CASE v.rx # <<>>
  <2> DEFINE w == Raise(v, "rx")
  <2>1. /\ w \in UartType(env) /\ w.rx = v.rx /\ w.stage = v.stage
        /\ w.int = v.int \cup {"rx"} /\ w.fiq6 /\ SameCmd(v, w)
    BY <1>1, RaiseIs
  <2>2. Respond(u, bytes) = w
    BY <1>2, <1>3
  <2> HIDE DEF w
  <2>3. Line(env, w, serving) /\ SameCmd(u, w) /\ In(w) = In(v)
    BY <1>1, <2>1 DEF Line, Wired, StrandFree, SameCmd, In
  <2> QED
    BY <1>1, <2>2, <2>3
<1>4. CASE v.rx = <<>>
  <2>1. Respond(u, bytes) = v
    BY <1>2, <1>4
  <2>2. Line(env, v, serving)
    BY <1>1, <1>4 DEF Line, StrandFree
  <2> QED
    BY <1>1, <2>1, <2>2
<1> QED
  BY <1>3, <1>4

\* An event that touches neither bytes nor lines keeps both.
LEMMA LineKept ==
    ASSUME NEW e, NEW u, NEW serving \in BOOLEAN, Line(e, u, serving), NEW v \in UartType(e),
           v.rx = u.rx, v.stage = u.stage, v.int = u.int, v.fiq6 = u.fiq6
    PROVE  Line(e, v, serving) /\ In(v) = In(u)
BY DEF Line, Wired, StrandFree, In

\* The handler takes the first byte, and drops the line with the last.
LEMMA PopIs ==
    ASSUME NEW e, NEW u, Line(e, u, TRUE), u.rx # <<>>
    PROVE  /\ Line(e, Pop(u), TRUE) /\ SameCmd(u, Pop(u))
           /\ Head(u.rx) \in Bytes(e) /\ In(u) = <<Head(u.rx)>> \o In(Pop(u))
<1> DEFINE rest == Tail(u.rx)
           left == IF rest = <<>> THEN u.int \ {"rx"} ELSE u.int
           v == Pop(u)
<1>1. /\ u \in UartType(e) /\ Wired(e, u) /\ StrandFree(u, TRUE)
      /\ u.rx \in Seq(Bytes(e)) /\ u.stage \in Seq(Bytes(e))
      /\ u.int \in SUBSET {"rx", "tx", "wwt"}
  BY DEF Line, UartType
<1>2. /\ rest \in Seq(Bytes(e)) /\ Head(u.rx) \in Bytes(e) /\ Len(rest) <= Len(u.rx)
      /\ Len(rest) \in Nat /\ Len(u.rx) \in Nat
      /\ u.rx = <<Head(u.rx)>> \o rest
  BY <1>1
<1>3. v = [u EXCEPT !.rx = rest, !.int = left]
  BY DEF Pop
<1>4. left \in SUBSET {"rx", "tx", "wwt"} /\ left \subseteq u.int
  BY <1>1
<1>5. v \in UartType(e) /\ v.rx = rest /\ v.int = left /\ v.stage = u.stage
      /\ v.fiq6 = u.fiq6 /\ SameCmd(u, v)
  <2> HIDE DEF rest, left
  <2> QED
    BY <1>1, <1>2, <1>3, <1>4 DEF UartType, SameCmd
<1> HIDE DEF v
<1>6. Wired(e, v)
  BY <1>1, <1>2, <1>5, Sizes DEF Wired
<1>7. StrandFree(v, TRUE)
  BY <1>1, <1>4, <1>5 DEF StrandFree
<1>8. In(u) = <<Head(u.rx)>> \o In(v)
  <2> DEFINE h == <<Head(u.rx)>>
             stage == u.stage
             S == Bytes(e)
  <2>1. h \in Seq(S) /\ rest \in Seq(S) /\ stage \in Seq(S)
    BY <1>1, <1>2
  <2> HIDE DEF h, rest, stage, S
  <2>2. (h \o rest) \o stage = h \o (rest \o stage)
    BY ONLY <2>1, ConcatAssociative
  <2>3. u.rx = h \o rest
    BY <1>2 DEF h
  <2>4. In(v) = rest \o stage
    BY <1>5 DEF In, stage
  <2>5. In(u) = (h \o rest) \o stage
    BY <2>3, Zenon DEF In, stage
  <2>6. In(u) = h \o In(v)
    BY <2>2, <2>4, <2>5, Zenon
  <2> QED
    BY <2>6 DEF h
<1> QED
  BY <1>2, <1>5, <1>6, <1>7, <1>8 DEF Line, v

\* The write-back of the lines the handler will serve.
LEMMA ClearIs ==
    ASSUME NEW e, NEW u, Line(e, u, FALSE), NEW lines
    PROVE  /\ Line(e, ClearInt(u, lines), "rx" \in lines) /\ SameCmd(u, ClearInt(u, lines))
           /\ In(ClearInt(u, lines)) = In(u)
<1> DEFINE left == u.int \ lines
           up == u.fiq6 /\ left \cap {"rx", "tx"} # {}
           v == ClearInt(u, lines)
<1>1. u \in UartType(e) /\ Wired(e, u) /\ StrandFree(u, FALSE)
      /\ u.int \in SUBSET {"rx", "tx", "wwt"} /\ u.fiq6 \in BOOLEAN
  BY DEF Line, UartType
<1>2. v = [u EXCEPT !.int = left, !.fiq6 = up]
  BY DEF ClearInt
<1>3. left \in SUBSET {"rx", "tx", "wwt"} /\ up \in BOOLEAN
  BY <1>1
<1>4. v \in UartType(e) /\ v.rx = u.rx /\ v.int = left /\ v.stage = u.stage
      /\ v.fiq6 = up /\ SameCmd(u, v)
  <2> HIDE DEF left, up
  <2> QED
    BY <1>1, <1>2, <1>3 DEF UartType, SameCmd
<1> HIDE DEF v
<1>5. StrandFree(v, "rx" \in lines)
  BY <1>1, <1>4 DEF StrandFree
<1> QED
  BY <1>1, <1>4, <1>5 DEF Line, Wired, In, v

\* The acknowledge re-raises FIQ6 while a line is up.
LEMMA AckIs ==
    ASSUME NEW e, NEW u, NEW serving \in BOOLEAN, Line(e, u, serving)
    PROVE  /\ Line(e, AckFiq6(u), serving) /\ SameCmd(u, AckFiq6(u)) /\ In(AckFiq6(u)) = In(u)
<1> DEFINE up == u.int # {}
           v == AckFiq6(u)
<1>1. u \in UartType(e) /\ Wired(e, u) /\ StrandFree(u, serving) /\ up \in BOOLEAN
  BY DEF Line
<1>2. v = [u EXCEPT !.fiq6 = up]
  BY DEF AckFiq6
<1>3. v \in UartType(e) /\ v.rx = u.rx /\ v.int = u.int /\ v.stage = u.stage
      /\ v.fiq6 = up /\ SameCmd(u, v)
  <2> HIDE DEF up
  <2> QED
    BY <1>1, <1>2 DEF UartType, SameCmd
<1> HIDE DEF v
<1> QED
  BY <1>1, <1>3 DEF Line, Wired, StrandFree, In, v

\* A staged byte that becomes visible stays in its place.
LEMMA ReleaseIs ==
    ASSUME NEW e, NEW u, NEW serving \in BOOLEAN, Line(e, u, serving),
           u.stage # <<>>, u.rx = <<>>
    PROVE  /\ Line(e, Release(u), serving) /\ SameCmd(u, Release(u)) /\ In(Release(u)) = In(u)
<1> DEFINE first == <<Head(u.stage)>>
           rest == Tail(u.stage)
           v == [u EXCEPT !.rx = first, !.stage = rest]
           w == Raise(v, "rx")
<1>1. /\ u \in UartType(e) /\ Wired(e, u) /\ StrandFree(u, serving)
      /\ u.stage \in Seq(Bytes(e)) /\ Len(u.stage) <= RxSize /\ (~e.paced => u.stage = <<>>)
  BY DEF Line, UartType, Wired
<1>2. /\ first \in Seq(Bytes(e)) /\ rest \in Seq(Bytes(e)) /\ Len(first) = 1
      /\ Len(rest) <= RxSize /\ u.stage = first \o rest
  BY <1>1, Sizes
<1>3. v \in UartType(e) /\ v.rx = first /\ v.stage = rest /\ v.int = u.int /\ v.fiq6 = u.fiq6
      /\ SameCmd(u, v)
  <2> HIDE DEF first, rest
  <2> QED
    BY <1>1, <1>2 DEF UartType, SameCmd
<1>4. Release(u) = w
  BY DEF Release
<1> HIDE DEF v, first, rest
<1>5. /\ w \in UartType(e) /\ w.rx = v.rx /\ w.stage = v.stage
      /\ w.int = v.int \cup {"rx"} /\ w.fiq6 /\ SameCmd(v, w)
  BY <1>3, RaiseIs
<1> HIDE DEF w
<1>6. Wired(e, w)
  BY <1>1, <1>2, <1>3, <1>5, Sizes DEF Wired
<1>7. StrandFree(w, serving)
  BY <1>5 DEF StrandFree
<1>8. In(u) = u.stage
  BY <1>1 DEF In
<1>9. In(w) = In(u)
  BY <1>2, <1>3, <1>5, <1>8 DEF In
<1> QED
  BY <1>3, <1>4, <1>5, <1>6, <1>7, <1>9 DEF Line, SameCmd

\* So many times the same.
LEMMA TimesIs ==
    ASSUME NEW S, NEW n \in Nat, NEW b \in S
    PROVE  /\ Times(n, b) \in Seq(S) /\ Len(Times(n, b)) = n
           /\ \A i \in 1 .. n : Times(n, b)[i] = b
           /\ n = 0 => Times(n, b) = <<>>
           /\ n > 0 => Times(n, b) # <<>>
<1>1. Times(n, b) \in Seq(S) /\ Len(Times(n, b)) = n
  BY DEF Times
<1>2. \A i \in 1 .. n : Times(n, b)[i] = b
  BY DEF Times
<1> QED
  BY <1>1, <1>2

\* The bytes of the answer to reset.
Atr == Times(AtrLen, Byte(NoCmd, "atr", Blank))

LEMMA AtrIs ==
    ASSUME NEW e
    PROVE  /\ Atr \in Seq(Bytes(e)) /\ Len(Atr) = AtrLen
           /\ \A i \in 1 .. AtrLen : Atr[i] = Byte(NoCmd, "atr", Blank)
<1>1. Byte(NoCmd, "atr", Blank) \in Bytes(e)
  BY DEF Byte, Bytes, Kinds, Values
<1> QED
  BY <1>1, TimesIs, Sizes DEF Atr

\* The answer to reset ends the command before it, if the card gives one.
LEMMA DeliverAtrIs ==
    ASSUME env \in Settings, NEW u, NEW serving \in BOOLEAN, Line(env, u, serving),
           NEW c \in CardType, NEW answers \in BOOLEAN
    PROVE  LET v == DeliverAtr(u, c, answers)
           IN  /\ Line(env, v, serving) /\ v.tx = u.tx /\ ~v.atr
               /\ ~(c.present /\ answers) => In(v) = In(u) /\ v.asm = u.asm /\ v.t0 = u.t0
               /\ c.present /\ answers =>
                    /\ v.asm = <<>> /\ ~v.t0
                    /\ In(u) = <<>> => In(v) = Atr
<1> DEFINE no == FALSE
           count == (u.resets + 1) % ResetMod
           quiet == [u EXCEPT !.atr = no]
           nil == <<>>
           u2 == [u EXCEPT !.atr = no, !.asm = nil, !.t0 = no, !.resets = count]
<1>1. u \in UartType(env) /\ Wired(env, u) /\ StrandFree(u, serving) /\ no \in BOOLEAN /\ ~no
      /\ u.rx \in Seq(Bytes(env)) /\ u.stage \in Seq(Bytes(env)) /\ u.resets \in 0 .. ResetMod - 1
  BY DEF Line, UartType
<1>2. count \in 0 .. ResetMod - 1 /\ nil \in Seq(env.cmds) /\ nil = <<>>
  BY <1>1, Sizes
<1>3. DeliverAtr(u, c, answers) = IF ~(c.present /\ answers) THEN quiet ELSE Respond(u2, Atr)
  BY DEF DeliverAtr, Atr
<1>4. CASE ~(c.present /\ answers)
  <2>1. /\ quiet \in UartType(env) /\ quiet.rx = u.rx /\ quiet.stage = u.stage
        /\ quiet.int = u.int /\ quiet.fiq6 = u.fiq6
        /\ quiet.tx = u.tx /\ quiet.asm = u.asm /\ quiet.t0 = u.t0 /\ quiet.atr = no
    <3> HIDE DEF no
    <3> QED
      BY <1>1 DEF UartType
  <2> HIDE DEF quiet
  <2>2. Line(env, quiet, serving) /\ In(quiet) = In(u)
    BY <2>1, LineKept
  <2>3. DeliverAtr(u, c, answers) = quiet
    BY <1>3, <1>4
  <2> QED
    BY <1>4, <2>1, <2>2, <2>3
<1>5. CASE c.present /\ answers
  <2>1. /\ u2 \in UartType(env) /\ u2.rx = u.rx /\ u2.stage = u.stage
        /\ u2.int = u.int /\ u2.fiq6 = u.fiq6
        /\ u2.tx = u.tx /\ u2.asm = nil /\ u2.t0 = no /\ u2.atr = no
    <3> HIDE DEF no, count, nil
    <3> QED
      BY <1>1, <1>2 DEF UartType
  <2> HIDE DEF u2
  <2>2. Line(env, u2, serving) /\ In(u2) = In(u)
    BY <2>1, LineKept
  <2> DEFINE w == Respond(u2, Atr)
  <2>3. /\ Line(env, w, serving) /\ SameCmd(u2, w)
        /\ Fits(In(u2), Atr) => In(w) = In(u2) \o Atr
    BY <2>2, AtrIs, RespondIs
  <2>4. DeliverAtr(u, c, answers) = w
    BY <1>3, <1>5
  <2> HIDE DEF w
  <2>5. ASSUME In(u) = <<>> PROVE In(w) = Atr
    <3>1. Fits(<<>>, Atr)
      BY AtrIs, Sizes DEF Fits
    <3>2. In(u2) = <<>>
      BY <2>2, <2>5
    <3>3. Fits(In(u2), Atr)
      BY <3>1, <3>2, Zenon
    <3>4. In(w) = In(u2) \o Atr
      BY <2>3, <3>3
    <3>5. Atr \in Seq(Bytes(env))
      BY AtrIs
    <3> HIDE DEF Atr
    <3>6. <<>> \o Atr = Atr
      BY <3>5
    <3> QED
      BY <3>2, <3>4, <3>6
  <2> QED
    BY <1>5, <2>1, <2>3, <2>4, <2>5 DEF SameCmd
<1> QED
  BY <1>4, <1>5

\* FIQ6 held up, and the timer, leave the bytes alone.
LEMMA KeepIs ==
    ASSUME NEW e, NEW u, NEW serving \in BOOLEAN, Line(e, u, serving)
    PROVE  /\ Line(e, Keep(u), serving) /\ SameCmd(u, Keep(u)) /\ In(Keep(u)) = In(u)
<1> DEFINE up == u.fiq6 \/ (u.rx # <<>> /\ "rx" \in u.int)
           v == Keep(u)
<1>1. u \in UartType(e) /\ Wired(e, u) /\ StrandFree(u, serving) /\ u.fiq6 \in BOOLEAN
      /\ up \in BOOLEAN /\ (u.fiq6 => up)
  BY DEF Line, UartType
<1>2. v = [u EXCEPT !.fiq6 = up]
  BY DEF Keep
<1> HIDE DEF up
<1>3. v \in UartType(e) /\ v.rx = u.rx /\ v.int = u.int /\ v.stage = u.stage
      /\ v.fiq6 = up /\ SameCmd(u, v)
  BY <1>1, <1>2 DEF UartType, SameCmd
<1> HIDE DEF v
<1> QED
  BY <1>1, <1>3 DEF Line, Wired, StrandFree, In, v

LEMMA TimerIs ==
    ASSUME NEW e, NEW u, NEW serving \in BOOLEAN, Line(e, u, serving), NEW on \in BOOLEAN
    PROVE  LET v == [u EXCEPT !.wwt = on]
           IN  /\ Line(e, v, serving) /\ SameCmd(u, v) /\ In(v) = In(u)
<1> DEFINE v == [u EXCEPT !.wwt = on]
<1>1. u \in UartType(e)
  BY DEF Line
<1>2. v \in UartType(e) /\ v.rx = u.rx /\ v.int = u.int /\ v.stage = u.stage
      /\ v.fiq6 = u.fiq6 /\ SameCmd(u, v)
  BY <1>1 DEF UartType, SameCmd
<1> HIDE DEF v
<1> QED
  BY <1>2, LineKept DEF v

LEMMA WaitingIs ==
    ASSUME NEW e, NEW u, NEW serving \in BOOLEAN, Line(e, u, serving),
           NEW c \in CardType, NEW due \in BOOLEAN
    PROVE  /\ Line(e, Waiting(u, c, due), serving) /\ SameCmd(u, Waiting(u, c, due))
           /\ In(Waiting(u, c, due)) = In(u)
<1> DEFINE no == FALSE
           yes == TRUE
           w == Raise(u, "wwt")
<1>1. no \in BOOLEAN /\ yes \in BOOLEAN
  OBVIOUS
<1>2. \/ Waiting(u, c, due) = [u EXCEPT !.wwt = no]
      \/ Waiting(u, c, due) = [u EXCEPT !.wwt = yes]
      \/ Waiting(u, c, due) = w
  BY DEF Waiting
<1>3. /\ w \in UartType(e) /\ w.rx = u.rx /\ w.stage = u.stage
      /\ w.int = u.int \cup {"wwt"} /\ w.fiq6 /\ SameCmd(u, w)
  BY RaiseIs DEF Line
<1> HIDE DEF no, yes, w
<1>4. Line(e, w, serving) /\ In(w) = In(u)
  BY <1>3 DEF Line, Wired, StrandFree, In
<1> QED
  BY <1>1, <1>2, <1>3, <1>4, TimerIs

\* The edge of the activate bit empties the line.
LEMMA ActivateIs ==
    ASSUME NEW e, NEW u, NEW serving \in BOOLEAN, Line(e, u, serving)
    PROVE  /\ Line(e, Activate(u), serving) /\ In(Activate(u)) = <<>>
           /\ Activate(u).tx = <<>> /\ Activate(u).asm = <<>>
<1> DEFINE yes == TRUE
           nil == <<>>
           v == Activate(u)
<1>1. u \in UartType(e) /\ StrandFree(u, serving) /\ yes \in BOOLEAN
      /\ nil = <<>> /\ nil \in Seq(Bytes(e)) /\ nil \in Seq(e.cmds)
      /\ Len(nil) <= RxSize
  BY Sizes DEF Line
<1>2. v = [u EXCEPT !.on = yes, !.rx = nil, !.stage = nil, !.tx = nil, !.asm = nil, !.atr = yes]
  BY DEF Activate
<1> HIDE DEF yes, nil
<1>3. v \in UartType(e) /\ v.rx = nil /\ v.stage = nil /\ v.int = u.int /\ v.fiq6 = u.fiq6
      /\ v.tx = nil /\ v.asm = nil
  BY <1>1, <1>2 DEF UartType
<1> HIDE DEF v
<1>4. Wired(e, v) /\ StrandFree(v, serving)
  BY <1>1, <1>3 DEF Wired, StrandFree
<1>5. In(v) = <<>>
  BY <1>1, <1>3 DEF In
<1> QED
  BY <1>1, <1>3, <1>4, <1>5 DEF Line, v

\* The fields a reset of the card changes.
LEMMA CardReset ==
    ASSUME NEW c \in CardType, Kind[c.df] = "dir", NEW reset \in BOOLEAN
    PROVE  LET d == [c EXCEPT !.seen = c.present, !.sel = IF reset THEN MF ELSE @,
                              !.df = IF reset THEN MF ELSE @]
           IN  /\ d \in CardType /\ Kind[d.df] = "dir" /\ d.over = c.over /\ d.gr = c.gr
               /\ d.sel = IF reset THEN MF ELSE c.sel
<1> DEFINE d == [c EXCEPT !.seen = c.present, !.sel = IF reset THEN MF ELSE @,
                          !.df = IF reset THEN MF ELSE @]
           sel == IF reset THEN MF ELSE c.sel
           df == IF reset THEN MF ELSE c.df
<1>1. sel \in Files /\ df \in Files /\ Kind[df] = "dir" /\ c.present \in BOOLEAN
  BY SimAssumption DEF CardType
<1>2. d = [c EXCEPT !.seen = c.present, !.sel = sel, !.df = df]
  OBVIOUS
<1> HIDE DEF sel, df, d
<1>3. d \in CardType /\ d.df = df /\ d.over = c.over /\ d.sel = sel /\ d.gr = c.gr
  BY <1>1, <1>2 DEF CardType
<1> QED
  BY <1>1, <1>3 DEF sel, d

\* What the tick does to the line and to the card: bytes stay in order, but for
\* the answer to reset.
Steady == /\ In(uart') = In(uart) /\ uart'.asm = uart.asm /\ uart'.t0 = uart.t0
          /\ card'.sel = card.sel /\ card'.gr = card.gr
Reset  == /\ uart.atr /\ uart'.asm = <<>> /\ ~uart'.t0 /\ card'.sel = MF
          /\ In(uart) = <<>> => In(uart') = Atr

LEMMA TickIs ==
    ASSUME env \in Settings, NEW serving \in BOOLEAN, Line(env, uart, serving),
           card \in CardType, Kind[card.df] = "dir",
           NEW paceDue \in BOOLEAN, NEW wwtDue \in BOOLEAN, Tick(paceDue, wwtDue)
    PROVE  /\ Line(env, uart', serving) /\ uart'.tx = uart.tx /\ ~uart'.atr
           /\ card' \in CardType /\ card'.over = card.over /\ Kind[card'.df] = "dir"
           /\ Steady \/ Reset
<1> DEFINE timer == uart.wwt /\ Quiet(uart, card)
           u0 == [uart EXCEPT !.wwt = timer]
           edge == card.present # card.seen
           u1(answers) == IF u0.atr THEN DeliverAtr(u0, card, answers) ELSE u0
           up(answers) == u1(answers).fiq7 \/ edge
           u2(answers) == [u1(answers) EXCEPT !.fiq7 = up(answers)]
           u3(answers) == IF MayRelease(u2(answers)) /\ paceDue THEN Release(u2(answers))
                                                               ELSE u2(answers)
           reset(answers) == u0.atr /\ card.present /\ answers
<1>1. PICK answers \in BOOLEAN :
        /\ uart' = Waiting(Keep(u3(answers)), card, wwtDue)
        /\ card' = [card EXCEPT !.seen = card.present,
                                !.sel = IF reset(answers) THEN MF ELSE @,
                                !.df = IF reset(answers) THEN MF ELSE @]
  BY Switches DEF Tick
<1>2. uart \in UartType(env) /\ uart.wwt \in BOOLEAN /\ uart.atr \in BOOLEAN /\ timer \in BOOLEAN
      /\ card.present \in BOOLEAN /\ edge \in BOOLEAN
  BY DEF Line, UartType, CardType, Quiet
<1>3. Line(env, u0, serving) /\ SameCmd(uart, u0) /\ In(u0) = In(uart)
  <2> HIDE DEF timer
  <2> QED
    BY <1>2, TimerIs
<1> DEFINE v1 == u1(answers)
           v2 == u2(answers)
           v3 == u3(answers)
           again == reset(answers)
<1> HIDE DEF u0, edge
<1>4. u0.atr = uart.atr /\ again \in BOOLEAN
  BY <1>2, <1>3 DEF SameCmd
<1>5. /\ Line(env, v1, serving) /\ v1.tx = u0.tx /\ ~v1.atr
      /\ ~again => In(v1) = In(u0) /\ v1.asm = u0.asm /\ v1.t0 = u0.t0
      /\ again => v1.asm = <<>> /\ ~v1.t0 /\ (In(u0) = <<>> => In(v1) = Atr)
  <2>1. CASE uart.atr
    <3>1. v1 = DeliverAtr(u0, card, answers)
      BY <2>1, <1>4
    <3>2. again = (card.present /\ answers)
      BY <2>1, <1>4, <1>2
    <3>3. LET v == DeliverAtr(u0, card, answers)
          IN  /\ Line(env, v, serving) /\ v.tx = u0.tx /\ ~v.atr
              /\ ~(card.present /\ answers) => In(v) = In(u0) /\ v.asm = u0.asm /\ v.t0 = u0.t0
              /\ card.present /\ answers =>
                   /\ v.asm = <<>> /\ ~v.t0
                   /\ In(u0) = <<>> => In(v) = Atr
      BY <1>3, DeliverAtrIs
    <3> HIDE DEF v1, again
    <3> QED
      BY <3>1, <3>2, <3>3
  <2>2. CASE ~uart.atr
    <3>1. v1 = u0 /\ ~again
      BY <2>2, <1>4
    <3> HIDE DEF v1, again
    <3> QED
      BY <3>1, <2>2, <1>3, <1>4
  <2> QED
    BY <2>1, <2>2
<1>6. v1 \in UartType(env) /\ v1.fiq7 \in BOOLEAN
  BY <1>5 DEF Line, UartType
<1>7. /\ v2 \in UartType(env) /\ v2.rx = v1.rx /\ v2.stage = v1.stage /\ v2.int = v1.int
      /\ v2.fiq6 = v1.fiq6 /\ SameCmd(v1, v2)
  <2> DEFINE fiq7 == v1.fiq7 \/ edge
  <2>1. fiq7 \in BOOLEAN
    BY <1>2, <1>6
  <2>2. v2 = [v1 EXCEPT !.fiq7 = fiq7]
    OBVIOUS
  <2> HIDE DEF fiq7, v1, v2
  <2> QED
    BY <1>6, <2>1, <2>2 DEF UartType, SameCmd
<1>8. v3 = IF MayRelease(v2) /\ paceDue THEN Release(v2) ELSE v2
  OBVIOUS
<1> HIDE DEF v1, v2, v3
<1>9. Line(env, v2, serving) /\ In(v2) = In(v1)
  BY <1>5, <1>7, LineKept
<1>10. Line(env, v3, serving) /\ SameCmd(v2, v3) /\ In(v3) = In(v2)
  <2>1. CASE MayRelease(v2) /\ paceDue
    <3>1. v2.stage # <<>> /\ v2.rx = <<>>
      BY <2>1 DEF MayRelease
    <3> QED
      BY <1>8, <1>9, <2>1, <3>1, ReleaseIs
  <2>2. CASE ~(MayRelease(v2) /\ paceDue)
    BY <1>8, <1>9, <2>2 DEF SameCmd
  <2> QED
    BY <2>1, <2>2
<1> DEFINE v4 == Keep(v3)
<1>11. Line(env, v4, serving) /\ SameCmd(v3, v4) /\ In(v4) = In(v3)
  BY <1>10, KeepIs
<1>12. uart' = Waiting(v4, card, wwtDue)
  BY <1>1 DEF v3
<1> HIDE DEF v4
<1>13. Line(env, uart', serving) /\ SameCmd(v4, uart') /\ In(uart') = In(v4)
  BY <1>11, <1>12, WaitingIs
<1>14. /\ card' \in CardType /\ Kind[card'.df] = "dir" /\ card'.over = card.over
       /\ card'.gr = card.gr
       /\ card'.sel = IF again THEN MF ELSE card.sel
  <2>1. card' = [card EXCEPT !.seen = card.present, !.sel = IF again THEN MF ELSE @,
                             !.df = IF again THEN MF ELSE @]
    BY <1>1
  <2> HIDE DEF again
  <2> QED
    BY <1>4, <2>1, CardReset, card \in CardType, Kind[card.df] = "dir"
<1>15. again => uart.atr
  BY <1>4
<1> HIDE DEF again
<1>16. In(uart') = In(v1) /\ SameCmd(v1, uart')
  BY <1>7, <1>9, <1>10, <1>11, <1>13 DEF SameCmd
<1>17. uart'.tx = uart.tx /\ ~uart'.atr
  BY <1>3, <1>5, <1>16 DEF SameCmd
<1>18. ASSUME again PROVE Reset
  BY <1>3, <1>5, <1>14, <1>15, <1>16, <1>18 DEF Reset, SameCmd
<1>19. ASSUME ~again PROVE Steady
  BY <1>3, <1>5, <1>14, <1>16, <1>19 DEF Steady, SameCmd
<1> QED
  BY <1>13, <1>14, <1>17, <1>18, <1>19

-----------------------------------------------------------------------------
(* The card. *)

CardOk(c) == c \in CardType /\ Kind[c.df] = "dir" /\ Cardinality(Overlaid(c)) <= Slots

\* How much data may go out, the command that writes a file, and those that read it.
Lengths(cmd)  == IF InData(cmd.ins) THEN {0} ELSE Fitting
WriteIns(f)   == IF Kind[f] = "rec" THEN "UPDATE RECORD" ELSE "UPDATE BINARY"
Reads(f, cmd) == \/ Kind[f] = "rec" /\ cmd.ins = "READ RECORD"
                 \/ Kind[f] = "bin" /\ cmd.ins = "READ BINARY"

\* What the firmware may conclude of an answer: which file is selected, which
\* content has changed, and what was read.
Honest(c, cmd, r) ==
    /\ r.card.sel = IF cmd.ins = "SELECT" /\ r.sw = "9F" THEN cmd.file ELSE c.sel
    /\ \A f \in Efs :
         Content(r.card, f) = IF f = c.sel /\ cmd.ins = WriteIns(c.sel) /\ r.sw = "9000"
                              THEN cmd.val ELSE Content(c, f)
    /\ Reads(c.sel, cmd) /\ r.n > 0 => r.v = Content(c, c.sel)

AnswerOk(c, cmd, r) ==
    /\ CardOk(r.card) /\ r.n \in Lengths(cmd) /\ r.v \in Values /\ r.sw \in StatusWords
    /\ r.n \in {0, Owes(r.card, cmd)} /\ Honest(c, cmd, r)

\* A command that changes neither the selection nor a file.
LEMMA FilesKept ==
    ASSUME NEW c, CardOk(c), NEW cmd, NEW d \in CardType,
           d.sel = c.sel, d.df = c.df, d.over = c.over,
           NEW n \in Lengths(cmd), NEW v \in Values, NEW sw \in StatusWords,
           n \in {0, Owes(d, cmd)},
           cmd.ins # "SELECT" \/ sw # "9F",
           c.sel \notin Efs \/ cmd.ins # WriteIns(c.sel) \/ sw # "9000",
           Reads(c.sel, cmd) /\ n > 0 => v = Content(c, c.sel)
    PROVE  AnswerOk(c, cmd, [card |-> d, n |-> n, v |-> v, sw |-> sw])
<1> DEFINE r == [card |-> d, n |-> n, v |-> v, sw |-> sw]
<1>1. r.card = d /\ r.n = n /\ r.v = v /\ r.sw = sw
  OBVIOUS
<1> HIDE DEF r
<1>2. \A f : Content(d, f) = Content(c, f)
  BY DEF Content
<1>3. Overlaid(d) = Overlaid(c)
  BY DEF Overlaid
<1>4. CardOk(d)
  BY <1>3 DEF CardOk
<1>5. Honest(c, cmd, r)
  <2>1. r.card.sel = IF cmd.ins = "SELECT" /\ r.sw = "9F" THEN cmd.file ELSE c.sel
    BY <1>1
  <2>2. \A f \in Efs :
         Content(r.card, f) = IF f = c.sel /\ cmd.ins = WriteIns(c.sel) /\ r.sw = "9000"
                              THEN cmd.val ELSE Content(c, f)
    BY <1>1, <1>2
  <2>3. Reads(c.sel, cmd) /\ r.n > 0 => r.v = Content(c, c.sel)
    BY <1>1
  <2> QED
    BY <2>1, <2>2, <2>3 DEF Honest
<1> QED
  BY <1>1, <1>4, <1>5 DEF AnswerOk, r

\* A status word of a command that reads nothing.
LEMMA SaysKept ==
    ASSUME NEW c, CardOk(c), NEW cmd, NEW d \in CardType,
           d.sel = c.sel, d.df = c.df, d.over = c.over, NEW sw \in StatusWords,
           cmd.ins # "SELECT" \/ sw # "9F",
           c.sel \notin Efs \/ cmd.ins # WriteIns(c.sel) \/ sw # "9000"
    PROVE  AnswerOk(c, cmd, Says(d, sw))
<1>1. 0 \in Lengths(cmd) /\ Blank \in Values
  BY FittingIs DEF Lengths, Values
<1>2. Says(d, sw) = [card |-> d, n |-> 0, v |-> Blank, sw |-> sw]
  BY DEF Says
<1> QED
  BY <1>1, <1>2, FilesKept

\* What an elementary file holds has a value.
LEMMA ContentIs ==
    ASSUME NEW c \in CardType, NEW f \in Efs
    PROVE  Content(c, f) \in Values
BY DEF CardType, Content, Values, Efs

LEMMA SelectIs ==
    ASSUME NEW c, CardOk(c), NEW cmd, cmd.ins = "SELECT"
    PROVE  AnswerOk(c, cmd, Select(c, cmd))
<1>1. CASE cmd.file \in Files
  <2> DEFINE there == FcpLen[Kind[cmd.file]]
             df == IF Kind[cmd.file] = "dir" THEN cmd.file ELSE c.df
             d == [c EXCEPT !.sel = cmd.file, !.gr = there, !.df = df]
             r == Says(d, "9F")
  <2>1. Select(c, cmd) = r
    BY <1>1 DEF Select
  <2>2. there \in Fitting /\ df \in Files /\ Kind[df] = "dir" /\ c \in CardType
    BY <1>1, FittingIs DEF CardOk, CardType
  <2> HIDE DEF there, df
  <2>3. d \in CardType /\ d.sel = cmd.file /\ d.df = df /\ d.over = c.over
    BY <1>1, <2>2 DEF CardType
  <2> HIDE DEF d
  <2>4. Overlaid(d) = Overlaid(c) /\ \A f : Content(d, f) = Content(c, f)
    BY <2>3 DEF Overlaid, Content
  <2>5. CardOk(d)
    BY <2>2, <2>3, <2>4 DEF CardOk
  <2>6. r.card = d /\ r.n = 0 /\ r.v = Blank /\ r.sw = "9F"
    BY DEF Says
  <2> HIDE DEF r
  <2>7. Honest(c, cmd, r)
    BY <2>3, <2>4, <2>6 DEF Honest
  <2> QED
    BY <2>1, <2>5, <2>6, <2>7, FittingIs DEF AnswerOk, Lengths, Values, StatusWords
<1>2. CASE cmd.file \notin Files
  <2>1. Select(c, cmd) = Says(c, "9404")
    BY <1>2 DEF Select
  <2> QED
    BY <2>1, SaysKept DEF CardOk, StatusWords
<1> QED
  BY <1>1, <1>2

\* The first write of a file takes a slot, if there is one.
LEMMA UpdateIs ==
    ASSUME NEW e \in Settings, NEW c, CardOk(c), NEW cmd \in e.cmds, NEW kind \in {"bin", "rec"},
           cmd.ins = IF kind = "rec" THEN "UPDATE RECORD" ELSE "UPDATE BINARY"
    PROVE  AnswerOk(c, cmd, Update(c, cmd, kind))
<1>1. c \in CardType /\ c.sel \in Files /\ c.over \in [Efs -> Values]
  BY DEF CardOk, CardType
<1>2. CASE Kind[c.sel] # kind
  <2>1. Update(c, cmd, kind) = Says(c, "9000")
    BY <1>2 DEF Update
  <2>2. c.sel \notin Efs \/ cmd.ins # WriteIns(c.sel)
    BY <1>1, <1>2, SimAssumption DEF Efs, WriteIns
  <2> QED
    BY <1>1, <2>1, <2>2, SaysKept DEF StatusWords
<1>3. CASE Kind[c.sel] = kind /\ ~cmd.inside
  <2>1. Update(c, cmd, kind) = Says(c, IF kind = "rec" THEN "9402" ELSE "6700")
    BY <1>3 DEF Update
  <2> QED
    BY <1>1, <2>1, SaysKept DEF StatusWords
<1>4. CASE /\ Kind[c.sel] = kind /\ cmd.inside
           /\ ~(c.sel \in Overlaid(c) \/ Cardinality(Overlaid(c)) < Slots)
  <2>1. Update(c, cmd, kind) = Says(c, "9240")
    BY <1>4 DEF Update
  <2> QED
    BY <1>1, <2>1, SaysKept DEF StatusWords
<1>5. CASE /\ Kind[c.sel] = kind /\ cmd.inside
           /\ c.sel \in Overlaid(c) \/ Cardinality(Overlaid(c)) < Slots
  <2> DEFINE over == [c.over EXCEPT ![c.sel] = cmd.val]
             d == [c EXCEPT !.over = over]
             r == Says(d, "9000")
  <2>1. Update(c, cmd, kind) = r
    BY <1>5 DEF Update
  <2>2. c.sel \in Efs /\ cmd.val \in Values /\ cmd.val # Blank /\ cmd.ins = WriteIns(c.sel)
    BY <1>1, <1>5, CmdFacts DEF Efs, WriteIns, Values
  <2>3. /\ over \in [Efs -> Values] /\ over[c.sel] = cmd.val
        /\ \A f \in Efs : f # c.sel => over[f] = c.over[f]
    BY <1>1, <2>2
  <2> HIDE DEF over
  <2>4. d \in CardType /\ d.sel = c.sel /\ d.df = c.df /\ d.over = over
    BY <1>1, <2>3 DEF CardType
  <2> HIDE DEF d
  <2>5. Overlaid(d) = Overlaid(c) \cup {c.sel}
    BY <2>2, <2>3, <2>4 DEF Overlaid
  <2>6. Cardinality(Overlaid(d)) <= Slots
    <3>1. IsFiniteSet(Overlaid(c)) /\ Cardinality(Overlaid(c)) \in Nat
      <4>1. Overlaid(c) \subseteq Files /\ IsFiniteSet(Files)
        BY SimAssumption DEF Overlaid, Efs
      <4> QED
        BY <4>1, FS_Subset, FS_CardinalityType
    <3>2. CASE c.sel \in Overlaid(c)
      <4>1. Overlaid(d) = Overlaid(c)
        BY <2>5, <3>2
      <4> QED
        BY <4>1 DEF CardOk
    <3>3. CASE c.sel \notin Overlaid(c)
      <4>1. Cardinality(Overlaid(d)) = Cardinality(Overlaid(c)) + 1
        BY <2>5, <3>1, <3>3, FS_AddElement
      <4>2. Cardinality(Overlaid(c)) < Slots
        BY <1>5, <3>3
      <4> DEFINE m == Cardinality(Overlaid(c))
                 n == Cardinality(Overlaid(d))
      <4>3. m \in Nat /\ n = m + 1 /\ m < Slots /\ Slots \in Nat
        BY <3>1, <4>1, <4>2, Sizes
      <4> HIDE DEF m, n
      <4>4. n <= Slots
        BY ONLY <4>3
      <4> QED
        BY <4>4 DEF n
    <3> QED
      BY <3>2, <3>3
  <2>7. CardOk(d)
    BY <2>4, <2>6 DEF CardOk
  <2>8. r.card = d /\ r.n = 0 /\ r.v = Blank /\ r.sw = "9000"
    BY DEF Says
  <2> HIDE DEF r
  <2>9. \A f \in Efs : Content(d, f) = IF f = c.sel THEN cmd.val ELSE Content(c, f)
    BY <2>2, <2>3, <2>4 DEF Content
  <2>10. Honest(c, cmd, r)
    <3>1. r.card.sel = IF cmd.ins = "SELECT" /\ r.sw = "9F" THEN cmd.file ELSE c.sel
      BY <2>4, <2>8
    <3>2. \A f \in Efs :
           Content(r.card, f) = IF f = c.sel /\ cmd.ins = WriteIns(c.sel) /\ r.sw = "9000"
                                THEN cmd.val ELSE Content(c, f)
      BY <2>2, <2>8, <2>9
    <3>3. ~Reads(c.sel, cmd)
      BY DEF Reads
    <3> QED
      BY <3>1, <3>2, <3>3 DEF Honest
  <2> QED
    BY <2>1, <2>7, <2>8, <2>10, FittingIs DEF AnswerOk, Lengths, Values, StatusWords
<1> QED
  BY <1>2, <1>3, <1>4, <1>5

\* A command that neither selects nor writes.
Tame(cmd) == cmd.ins \notin {"SELECT", "UPDATE BINARY", "UPDATE RECORD"}

\* The card with other flags, and the same files.
Flags(c, d) == d \in CardType /\ d.sel = c.sel /\ d.df = c.df /\ d.over = c.over

LEMMA TameSays ==
    ASSUME NEW c, CardOk(c), NEW cmd, Tame(cmd), NEW d, Flags(c, d), NEW sw \in StatusWords
    PROVE  AnswerOk(c, cmd, Says(d, sw))
<1>1. cmd.ins # "SELECT" /\ cmd.ins # WriteIns(c.sel)
  BY DEF Tame, WriteIns
<1> QED
  BY <1>1, SaysKept DEF Flags

LEMMA TameGives ==
    ASSUME NEW c, CardOk(c), NEW cmd, Tame(cmd), NEW d, Flags(c, d),
           NEW n \in Lengths(cmd), n = Owes(d, cmd), NEW v \in Values,
           Reads(c.sel, cmd) /\ n > 0 => v = Content(c, c.sel)
    PROVE  AnswerOk(c, cmd, Gives(d, n, v))
<1>1. cmd.ins # "SELECT" /\ cmd.ins # WriteIns(c.sel) /\ "9000" \in StatusWords
  BY DEF Tame, WriteIns, StatusWords
<1>2. Gives(d, n, v) = [card |-> d, n |-> n, v |-> v, sw |-> "9000"]
  BY DEF Gives
<1> QED
  BY <1>1, <1>2, FilesKept DEF Flags

LEMMA FlagsKept ==
    ASSUME NEW c \in CardType
    PROVE  /\ Flags(c, c) /\ Flags(c, Verified(c))
           /\ \A there \in Fitting : Flags(c, [c EXCEPT !.gr = there])
           /\ \A on \in BOOLEAN : Flags(c, [Verified(c) EXCEPT !.enabled = on])
           /\ \A new \in Codes : /\ Flags(c, [Verified(c) EXCEPT !.pin = new])
                                 /\ Flags(c, [Verified(c) EXCEPT !.pin = new, !.puk = PukMax])
           /\ \A left \in 0 .. PinMax : Flags(c, [c EXCEPT !.tries = left])
           /\ \A left \in 0 .. PukMax : Flags(c, [c EXCEPT !.puk = left])
<1> DEFINE yes == TRUE
           d == Verified(c)
<1>1. yes \in BOOLEAN /\ PinMax \in 0 .. PinMax /\ PukMax \in 0 .. PukMax
  BY Sizes
<1>2. d = [c EXCEPT !.verified = yes, !.tries = PinMax]
  BY DEF Verified
<1>3. Flags(c, c)
  BY DEF Flags
<1>4. ASSUME NEW there \in Fitting PROVE Flags(c, [c EXCEPT !.gr = there])
  BY DEF Flags, CardType
<1>5. Flags(c, d)
  <2> HIDE DEF yes, d
  <2> QED
    BY <1>1, <1>2 DEF Flags, CardType
<1> HIDE DEF d
<1>6. ASSUME NEW on \in BOOLEAN PROVE Flags(c, [d EXCEPT !.enabled = on])
  BY <1>5 DEF Flags, CardType
<1>7. ASSUME NEW new \in Codes
      PROVE  Flags(c, [d EXCEPT !.pin = new]) /\ Flags(c, [d EXCEPT !.pin = new, !.puk = PukMax])
  <2>1. Flags(c, [d EXCEPT !.pin = new])
    BY <1>5 DEF Flags, CardType
  <2>2. Flags(c, [d EXCEPT !.pin = new, !.puk = PukMax])
    BY <1>1, <1>5 DEF Flags, CardType
  <2> QED
    BY <2>1, <2>2
<1>8. ASSUME NEW left \in 0 .. PinMax PROVE Flags(c, [c EXCEPT !.tries = left])
  BY DEF Flags, CardType
<1>9. ASSUME NEW left \in 0 .. PukMax PROVE Flags(c, [c EXCEPT !.puk = left])
  BY DEF Flags, CardType
<1> QED
  BY <1>3, <1>4, <1>5, <1>6, <1>7, <1>8, <1>9 DEF d

LEMMA MissedIs ==
    ASSUME NEW c, CardOk(c), NEW cmd, Tame(cmd)
    PROVE  AnswerOk(c, cmd, Missed(c))
<1> DEFINE left == IF c.tries > 0 THEN c.tries - 1 ELSE 0
           d == [c EXCEPT !.tries = left]
           sw == IF left = 0 THEN "9840" ELSE "63C"
<1>1. left \in 0 .. PinMax /\ c \in CardType
  BY Sizes DEF CardOk, CardType
<1>2. Missed(c) = Says(d, sw) /\ sw \in StatusWords
  BY DEF Missed, StatusWords
<1>3. Flags(c, d)
  <2> HIDE DEF left
  <2> QED
    BY <1>1, FlagsKept
<1> HIDE DEF d, sw, left
<1> QED
  BY <1>2, <1>3, TameSays

\* The commands of CHV1.
LEMMA PinIs ==
    ASSUME NEW e \in Settings, NEW c, CardOk(c), NEW cmd \in e.cmds, Tame(cmd)
    PROVE  /\ AnswerOk(c, cmd, Verify(c, cmd)) /\ AnswerOk(c, cmd, Change(c, cmd))
           /\ \A on \in BOOLEAN : AnswerOk(c, cmd, SetEnabled(c, cmd, on))
           /\ AnswerOk(c, cmd, Unblock(c, cmd))
<1>1. c \in CardType /\ cmd.new \in Codes /\ {"9000", "9840", "6B00", "63C"} \subseteq StatusWords
  BY CmdFacts DEF CardOk, Codes, StatusWords
<1>2. AnswerOk(c, cmd, Missed(c)) /\ AnswerOk(c, cmd, Says(c, "9000"))
      /\ AnswerOk(c, cmd, Says(c, "9840")) /\ AnswerOk(c, cmd, Says(c, "6B00"))
  BY <1>1, MissedIs, FlagsKept, TameSays
<1>3. AnswerOk(c, cmd, Says(Verified(c), "9000"))
  BY <1>1, FlagsKept, TameSays
<1>4. AnswerOk(c, cmd, Verify(c, cmd))
  BY <1>2, <1>3 DEF Verify
<1>5. AnswerOk(c, cmd, Change(c, cmd))
  <2>1. AnswerOk(c, cmd, Says([Verified(c) EXCEPT !.pin = cmd.new], "9000"))
    BY <1>1, FlagsKept, TameSays
  <2> QED
    BY <1>2, <2>1 DEF Change
<1>6. ASSUME NEW on \in BOOLEAN PROVE AnswerOk(c, cmd, SetEnabled(c, cmd, on))
  <2>1. AnswerOk(c, cmd, Says([Verified(c) EXCEPT !.enabled = on], "9000"))
    BY <1>1, FlagsKept, TameSays
  <2> QED
    BY <1>2, <2>1 DEF SetEnabled
<1>7. AnswerOk(c, cmd, Unblock(c, cmd))
  <2>1. AnswerOk(c, cmd, Says([Verified(c) EXCEPT !.pin = cmd.new, !.puk = PukMax], "9000"))
    BY <1>1, FlagsKept, TameSays
  <2>2. ASSUME c.puk # 0
        PROVE  AnswerOk(c, cmd, Says([c EXCEPT !.puk = @ - 1], IF c.puk = 1 THEN "9840" ELSE "63C"))
    <3> DEFINE left == c.puk - 1
               sw == IF c.puk = 1 THEN "9840" ELSE "63C"
    <3>1. left \in 0 .. PukMax /\ sw \in StatusWords
      BY <1>1, <2>2, Sizes DEF CardType
    <3> HIDE DEF left, sw
    <3>2. Flags(c, [c EXCEPT !.puk = left])
      BY <1>1, <3>1, FlagsKept
    <3> QED
      BY <3>1, <3>2, TameSays DEF left, sw
  <2> QED
    BY <1>2, <2>1, <2>2 DEF Unblock
<1> QED
  BY <1>4, <1>5, <1>6, <1>7

\* What is owed, by command.
LEMMA OwesIs ==
    ASSUME NEW c, NEW cmd
    PROVE  /\ cmd.ins \in {"GET RESPONSE", "STATUS"} => Owes(c, cmd) = Clamp(cmd.p3, c.gr)
           /\ cmd.ins = "READ RECORD" =>
                Owes(c, cmd) = IF cmd.p3 = 0 THEN RecordOf(c) ELSE cmd.p3
           /\ cmd.ins = "READ BINARY" => Owes(c, cmd) = cmd.p3
BY DEF Owes, InData

\* Reads, and the lengths of what goes out.
LEMMA ReadIs ==
    ASSUME NEW e \in Settings, NEW c, CardOk(c), NEW cmd \in e.cmds
    PROVE  /\ cmd.ins = "READ BINARY" => AnswerOk(c, cmd, ReadBinary(c, cmd))
           /\ cmd.ins = "READ RECORD" => AnswerOk(c, cmd, ReadRecord(c, cmd))
           /\ cmd.ins = "GET RESPONSE" => AnswerOk(c, cmd, GetResponse(c, cmd))
           /\ cmd.ins = "STATUS" => AnswerOk(c, cmd, Status(c, cmd))
<1>1. /\ c \in CardType /\ c.sel \in Files /\ c.gr \in Fitting /\ Flags(c, c)
      /\ {"9804", "9408"} \subseteq StatusWords /\ Blank \in Values
  BY FlagsKept DEF CardOk, CardType, StatusWords, Values
<1>0. cmd.p3 \in Fitting
  BY CmdFacts DEF Fitting
<1>2. ASSUME cmd.ins \in {"READ BINARY", "READ RECORD", "GET RESPONSE", "STATUS"}
      PROVE  Tame(cmd) /\ Lengths(cmd) = Fitting
  BY <1>2 DEF Tame, Lengths, InData
<1>3. ASSUME Kind[c.sel] \in {"bin", "rec"} PROVE Content(c, c.sel) \in Values
  <2>1. c.sel \in Efs
    BY <1>1, <1>3 DEF Efs
  <2> QED
    BY <1>1, <2>1, ContentIs
<1>4. ASSUME cmd.ins = "READ BINARY" PROVE AnswerOk(c, cmd, ReadBinary(c, cmd))
  <2>1. AnswerOk(c, cmd, Says(c, "9804")) /\ AnswerOk(c, cmd, Says(c, "9408"))
    BY <1>1, <1>2, <1>4, TameSays
  <2>2. ASSUME Kind[c.sel] = "bin"
        PROVE  AnswerOk(c, cmd, Gives(c, cmd.p3, Content(c, c.sel)))
    <3>1. cmd.p3 \in Lengths(cmd) /\ cmd.p3 = Owes(c, cmd) /\ Tame(cmd)
      BY <1>0, <1>2, <1>4, OwesIs
    <3> QED
      BY <1>1, <1>3, <2>2, <3>1, TameGives
  <2> QED
    BY <2>1, <2>2 DEF ReadBinary
<1>5. ASSUME cmd.ins = "READ RECORD" PROVE AnswerOk(c, cmd, ReadRecord(c, cmd))
  <2> DEFINE v == IF Kind[c.sel] = "rec" THEN Content(c, c.sel) ELSE Blank
             n == IF cmd.p3 = 0 THEN RecordOf(c) ELSE cmd.p3
  <2>1. AnswerOk(c, cmd, Says(c, "9804"))
    BY <1>1, <1>2, <1>5, TameSays
  <2>2. v \in Values /\ (Reads(c.sel, cmd) => v = Content(c, c.sel))
    BY <1>1, <1>3, <1>5 DEF Reads
  <2>3. n \in Fitting /\ n = Owes(c, cmd)
    BY <1>0, <1>5, OwesIs, FittingIs DEF RecordOf
  <2> HIDE DEF v, n
  <2>4. AnswerOk(c, cmd, Gives(c, n, v))
    BY <1>1, <1>2, <1>5, <2>2, <2>3, TameGives
  <2> QED
    BY <2>1, <2>4 DEF ReadRecord, v, n
<1>6. ASSUME cmd.ins \in {"GET RESPONSE", "STATUS"} PROVE ~Reads(c.sel, cmd)
  BY <1>6 DEF Reads
<1>7. ASSUME cmd.ins = "GET RESPONSE" PROVE AnswerOk(c, cmd, GetResponse(c, cmd))
  <2> DEFINE n == Clamp(cmd.p3, c.gr)
  <2>1. n \in Lengths(cmd) /\ n = Owes(c, cmd)
    BY <1>0, <1>1, <1>2, <1>7, OwesIs, FittingIs
  <2> HIDE DEF n
  <2>2. AnswerOk(c, cmd, Gives(c, n, Blank))
    BY <1>1, <1>2, <1>6, <1>7, <2>1, TameGives
  <2> QED
    BY <2>2 DEF GetResponse, n
<1>8. ASSUME cmd.ins = "STATUS" PROVE AnswerOk(c, cmd, Status(c, cmd))
  <2> DEFINE there == FcpLen["dir"]
             d == [c EXCEPT !.gr = there]
             n == Clamp(cmd.p3, there)
  <2>1. there \in Fitting /\ n \in Lengths(cmd)
    BY <1>0, <1>2, <1>8, FittingIs
  <2> HIDE DEF there
  <2>2. Flags(c, d) /\ d.gr = there
    BY <1>1, <2>1, FlagsKept DEF CardType
  <2> HIDE DEF d
  <2>3. n = Owes(d, cmd)
    BY <1>8, <2>2, OwesIs
  <2> HIDE DEF n
  <2>4. AnswerOk(c, cmd, Gives(d, n, Blank))
    BY <1>1, <1>2, <1>6, <1>8, <2>1, <2>2, <2>3, TameGives
  <2> QED
    BY <2>4 DEF Status, d, n, there
<1> QED
  BY <1>4, <1>5, <1>7, <1>8

\* Whatever the command, the card's answer is honest.
LEMMA ComputeIs ==
    ASSUME NEW e \in Settings, NEW c, CardOk(c), NEW cmd \in e.cmds
    PROVE  AnswerOk(c, cmd, Compute(c, cmd))
<1>1. /\ c \in CardType /\ Flags(c, c) /\ Flags(c, [c EXCEPT !.gr = KeyLen])
      /\ {"9000", "9F", "9804", "6700", "6D00"} \subseteq StatusWords
  BY FlagsKept, FittingIs DEF CardOk, StatusWords
<1>2. CASE cmd.ins = "SELECT"
  <2>1. Compute(c, cmd) = Select(c, cmd)
    BY <1>2 DEF Compute
  <2> QED
    BY <1>2, <2>1, SelectIs
<1>3. CASE cmd.ins \in {"READ BINARY", "READ RECORD", "GET RESPONSE", "STATUS"}
  <2>1. /\ cmd.ins = "READ BINARY" => Compute(c, cmd) = ReadBinary(c, cmd)
        /\ cmd.ins = "READ RECORD" => Compute(c, cmd) = ReadRecord(c, cmd)
        /\ cmd.ins = "GET RESPONSE" => Compute(c, cmd) = GetResponse(c, cmd)
        /\ cmd.ins = "STATUS" => Compute(c, cmd) = Status(c, cmd)
    BY DEF Compute
  <2> QED
    BY <1>3, <2>1, ReadIs
<1>4. CASE cmd.ins \in {"UPDATE BINARY", "UPDATE RECORD"}
  <2>1. /\ cmd.ins = "UPDATE BINARY" => Compute(c, cmd) = Update(c, cmd, "bin")
        /\ cmd.ins = "UPDATE RECORD" => Compute(c, cmd) = Update(c, cmd, "rec")
    BY DEF Compute
  <2>2. cmd.ins = "UPDATE BINARY" => AnswerOk(c, cmd, Update(c, cmd, "bin"))
    BY UpdateIs
  <2>3. cmd.ins = "UPDATE RECORD" => AnswerOk(c, cmd, Update(c, cmd, "rec"))
    BY UpdateIs
  <2> QED
    BY <1>4, <2>1, <2>2, <2>3
<1>5. CASE cmd.ins \in {"VERIFY", "CHANGE", "DISABLE", "ENABLE", "UNBLOCK"}
  <2>1. /\ cmd.ins = "VERIFY" => Compute(c, cmd) = Verify(c, cmd)
        /\ cmd.ins = "CHANGE" => Compute(c, cmd) = Change(c, cmd)
        /\ cmd.ins = "DISABLE" => Compute(c, cmd) = SetEnabled(c, cmd, FALSE)
        /\ cmd.ins = "ENABLE" => Compute(c, cmd) = SetEnabled(c, cmd, TRUE)
        /\ cmd.ins = "UNBLOCK" => Compute(c, cmd) = Unblock(c, cmd)
    BY DEF Compute
  <2>2. Tame(cmd)
    BY <1>5 DEF Tame
  <2> QED
    BY <1>5, <2>1, <2>2, PinIs
<1>6. CASE cmd.ins = "RUN GSM"
  <2> DEFINE d == [c EXCEPT !.gr = KeyLen]
  <2>1. Flags(c, d) /\ Compute(c, cmd) \in {Says(d, "9F"), Says(c, "9804"), Says(c, "6700")}
    BY <1>1, <1>6 DEF Compute, RunGsm
  <2>2. Tame(cmd)
    BY <1>6 DEF Tame
  <2> HIDE DEF d
  <2> QED
    BY <1>1, <2>1, <2>2, TameSays
<1>7. CASE cmd.ins = "ACCEPT"
  <2>1. Compute(c, cmd) = Says(c, "9000") /\ Tame(cmd)
    BY <1>7 DEF Compute, Tame
  <2> QED
    BY <1>1, <2>1, TameSays
<1>8. CASE cmd.ins \notin {"SELECT", "READ BINARY", "READ RECORD", "GET RESPONSE", "STATUS",
                           "UPDATE BINARY", "UPDATE RECORD", "VERIFY", "CHANGE", "DISABLE",
                           "ENABLE", "UNBLOCK", "RUN GSM", "ACCEPT"}
  <2>1. Compute(c, cmd) = Says(c, "6D00") /\ Tame(cmd)
    BY <1>8 DEF Compute, Tame
  <2> QED
    BY <1>1, <2>1, TameSays
<1> QED
  BY <1>2, <1>3, <1>4, <1>5, <1>6, <1>7, <1>8

-----------------------------------------------------------------------------
(* A flush of the transmit FIFO. *)

Ack(cmd)    == Byte(cmd, "ack", Blank)
Echoes(cmd) == Times(1 + cmd.p3, Byte(cmd, "echo", Blank))
Given       == uart.asm \o uart.tx
First       == Head(Given)

\* The four things a flush may do.
Echoed ==
    /\ First.ins = "PPS" /\ Len(Given) >= 1 + First.p3
    /\ card' = card /\ uart'.asm = <<>> /\ uart'.t0 = uart.t0
    /\ Fits(In(uart), Echoes(First)) => In(uart') = In(uart) \o Echoes(First)
Gathered ==
    /\ First.ins = "PPS" /\ ~(Len(Given) >= 1 + First.p3)
    /\ card' = card /\ uart'.asm = Given /\ uart'.t0 = uart.t0 /\ In(uart') = In(uart)
Asked ==
    /\ First.ins # "PPS" /\ InData(First.ins) /\ ~(Len(Given) >= 1 + First.p3)
    /\ card' = card /\ uart'.asm = Given /\ uart'.t0
    /\ uart.t0 => In(uart') = In(uart)
    /\ ~uart.t0 /\ Fits(In(uart), <<Ack(First)>>) => In(uart') = In(uart) \o <<Ack(First)>>
Answered(n, v, sw) ==
    LET a == [card |-> card', n |-> n, v |-> v, sw |-> sw]
    IN  /\ Fits(In(uart), Framing(First, a)) => In(uart') = In(uart) \o Framing(First, a)
        /\ n \in {0} \cup Due(card', First)
        /\ ~env.bridge => Honest(card, First, a)

\* How much data an answer may carry is a number that fits the receive FIFO.
LEMMA LengthsAre ==
    ASSUME NEW e \in Settings, NEW cmd \in e.cmds, NEW n \in Lengths(cmd)
    PROVE  n \in Nat /\ n + 3 <= RxSize
BY FittingIs DEF Lengths, Fitting

LEMMA FramingType ==
    ASSUME NEW e \in Settings, NEW cmd \in e.cmds, NEW a, a.n \in Lengths(cmd),
           a.v \in Values, a.sw \in Values
    PROVE  Framing(cmd, a) \in Seq(Bytes(e))
<1> DEFINE ack == Byte(cmd, "ack", Blank)
           dat == Byte(cmd, "dat", a.v)
           sw1 == Byte(cmd, "sw1", a.sw)
           sw2 == Byte(cmd, "sw2", a.sw)
           T == Times(a.n, dat)
<1>1. ack \in Bytes(e) /\ dat \in Bytes(e) /\ sw1 \in Bytes(e) /\ sw2 \in Bytes(e)
  BY DEF Byte, Bytes, Kinds, Values
<1>2. Framing(cmd, a) = (IF a.n > 0 THEN <<ack>> ELSE <<>>) \o T \o <<sw1, sw2>>
  BY DEF Framing
<1>3. a.n \in Nat
  BY LengthsAre
<1> HIDE DEF ack, dat, sw1, sw2
<1>4. T \in Seq(Bytes(e))
  BY <1>1, <1>3, TimesIs
<1> HIDE DEF T
<1>5. (IF a.n > 0 THEN <<ack>> ELSE <<>>) \in Seq(Bytes(e)) /\ <<sw1, sw2>> \in Seq(Bytes(e))
  BY <1>1
<1> QED
  BY <1>2, <1>4, <1>5

\* Status words are values.
LEMMA SwValues == StatusWords \subseteq Values /\ Blank \in Values
BY DEF Values

\* The answers the firmware may get.
LEMMA FedIs ==
    ASSUME env \in Settings, NEW cmd \in env.cmds, NEW r, r.n \in Lengths(cmd), r.v \in Values,
           r.sw \in StatusWords, r.n \in {0, Owes(r.card, cmd)}, NEW a \in Fed(r, cmd)
    PROVE  /\ a.n \in Lengths(cmd) /\ a.v \in Values /\ a.sw \in Values
           /\ a.n \in {0} \cup Due(r.card, cmd)
           /\ ~env.bridge => a.n = r.n /\ a.v = r.v /\ a.sw = r.sw
<1>1. CASE a = [n |-> r.n, v |-> r.v, sw |-> r.sw]
  BY <1>1, SwValues DEF Due
<1>2. CASE env.bridge /\ a \in RealAnswers(cmd)
  <2>1. PICK n \in IF InData(cmd.ins) THEN {0} ELSE {0, cmd.p3} :
          a = [n |-> n, v |-> Blank, sw |-> "9000"]
    BY <1>2 DEF RealAnswers
  <2>2. a.n = n /\ a.v = Blank /\ a.sw = "9000"
    BY <2>1
  <2>3. cmd.p3 \in Fitting /\ 0 \in Fitting
    BY CmdFacts, FittingIs DEF Fitting
  <2>4. n \in Lengths(cmd) /\ n \in {0} \cup Due(r.card, cmd)
    BY <1>2, <2>1, <2>3 DEF Lengths, Due
  <2> QED
    BY <1>2, <2>2, <2>4, SwValues DEF StatusWords
<1> QED
  BY <1>1, <1>2, Switches DEF Fed

LEMMA HeadOf ==
    ASSUME NEW S, NEW a \in Seq(S), NEW b \in Seq(S), b # <<>>
    PROVE  a \o b \in Seq(S) /\ a \o b # <<>> /\ Head(a \o b) \in S
<1>1. a \o b \in Seq(S) /\ Len(a \o b) = Len(a) + Len(b) /\ Len(a) \in Nat /\ Len(b) \in Nat
  OBVIOUS
<1>2. Len(b) # 0
  OBVIOUS
<1>3. Len(a \o b) # 0
  BY <1>1, <1>2
<1> QED
  BY <1>1, <1>3

LEMMA RunApduIs ==
    ASSUME env \in Settings, NEW serving \in BOOLEAN, Line(env, uart, serving),
           CardOk(card), uart.tx # <<>>, RunApdu
    PROVE  /\ Line(env, uart', serving) /\ CardOk(card') /\ First \in env.cmds
           /\ uart'.tx = <<>> /\ uart'.atr = uart.atr
           /\ \/ Echoed \/ Gathered \/ Asked
              \/ /\ First.ins # "PPS" /\ ~(InData(First.ins) /\ ~(Len(Given) >= 1 + First.p3))
                 /\ uart'.asm = <<>> /\ ~uart'.t0
                 /\ \E n \in Lengths(First), v, sw \in Values : Answered(n, v, sw)
<1> DEFINE nil == <<>>
           no == FALSE
           yes == TRUE
           u0 == [uart EXCEPT !.asm = Given, !.tx = nil]
           u == Raise(u0, "tx")
           h == Header(u)
<1>1. /\ uart \in UartType(env) /\ uart.asm \in Seq(env.cmds) /\ uart.tx \in Seq(env.cmds)
      /\ nil \in Seq(env.cmds) /\ nil = <<>> /\ no \in BOOLEAN /\ ~no /\ yes \in BOOLEAN /\ yes
  BY DEF Line, UartType
<1>2. Given \in Seq(env.cmds) /\ Given # <<>> /\ First \in env.cmds
  BY <1>1, HeadOf DEF Given, First
<1>3. /\ u0 \in UartType(env) /\ u0.rx = uart.rx /\ u0.stage = uart.stage /\ u0.int = uart.int
      /\ u0.fiq6 = uart.fiq6 /\ u0.asm = Given /\ u0.tx = nil /\ u0.t0 = uart.t0
      /\ u0.atr = uart.atr
  <2> HIDE DEF nil
  <2> QED
    BY <1>1, <1>2 DEF UartType
<1> HIDE DEF u0
<1>4. Line(env, u0, serving) /\ In(u0) = In(uart)
  BY <1>3, LineKept
<1>5. /\ u \in UartType(env) /\ u.rx = u0.rx /\ u.stage = u0.stage
      /\ u.int = u0.int \cup {"tx"} /\ u.fiq6 /\ SameCmd(u0, u)
  BY <1>3, RaiseIs
<1>6. Line(env, u, serving) /\ In(u) = In(uart)
  BY <1>4, <1>5 DEF Line, Wired, StrandFree, In
<1>7. u.asm = Given /\ u.tx = nil /\ u.t0 = uart.t0 /\ u.atr = uart.atr
  BY <1>3, <1>5 DEF SameCmd
<1>8. h = First /\ (Complete(u) <=> Len(Given) >= 1 + First.p3)
  BY <1>7 DEF Header, First, Complete
<1>9. \/ /\ h.ins = "PPS"
         /\ uart' = IF Complete(u)
                    THEN Respond([u EXCEPT !.asm = nil],
                                 Times(1 + h.p3, Byte(h, "echo", Blank)))
                    ELSE u
         /\ card' = card
      \/ /\ h.ins # "PPS" /\ InData(h.ins) /\ ~Complete(u)
         /\ uart' = Ask(u) /\ card' = card
      \/ /\ h.ins # "PPS" /\ ~(InData(h.ins) /\ ~Complete(u))
         /\ card' = Compute(card, h).card
         /\ \E a \in Fed(Compute(card, h), h) :
              uart' = Respond([Retire(u) EXCEPT !.used = yes], Framing(h, a))
  BY DEF RunApdu, u0, Given
<1> HIDE DEF u, h, nil, no, yes
<1>10. CASE /\ First.ins = "PPS" /\ Complete(u)
            /\ uart' = Respond([u EXCEPT !.asm = nil], Echoes(First)) /\ card' = card
  <2> DEFINE u1 == [u EXCEPT !.asm = nil]
  <2>1. /\ u1 \in UartType(env) /\ u1.rx = u.rx /\ u1.stage = u.stage /\ u1.int = u.int
        /\ u1.fiq6 = u.fiq6 /\ u1.asm = nil /\ u1.tx = u.tx /\ u1.t0 = u.t0 /\ u1.atr = u.atr
    BY <1>1, <1>5 DEF UartType
  <2> HIDE DEF u1
  <2>2. Line(env, u1, serving) /\ In(u1) = In(u)
    BY <1>6, <2>1, LineKept
  <2>3. Echoes(First) \in Seq(Bytes(env))
    <3>1. Byte(First, "echo", Blank) \in Bytes(env)
      BY <1>2 DEF Byte, Bytes, Kinds, Values
    <3>2. First.p3 \in Nat
      BY <1>2, CmdFacts
    <3>3. 1 + First.p3 \in Nat
      BY <3>2
    <3> QED
      BY <3>1, <3>3, TimesIs DEF Echoes
  <2> DEFINE w == Respond(u1, Echoes(First))
  <2>4. /\ Line(env, w, serving) /\ SameCmd(u1, w)
        /\ Fits(In(u1), Echoes(First)) => In(w) = In(u1) \o Echoes(First)
    BY <2>2, <2>3, RespondIs
  <2>5. uart' = w
    BY <1>10 DEF u1
  <2> HIDE DEF w
  <2>6. uart'.asm = <<>> /\ uart'.t0 = uart.t0 /\ uart'.tx = <<>> /\ uart'.atr = uart.atr
    BY <1>1, <1>7, <2>1, <2>4, <2>5 DEF SameCmd
  <2>7. Fits(In(uart), Echoes(First)) => In(uart') = In(uart) \o Echoes(First)
    BY <1>6, <2>2, <2>4, <2>5
  <2>8. Echoed
    BY <1>8, <1>10, <2>6, <2>7 DEF Echoed
  <2> QED
    BY <1>2, <1>10, <2>4, <2>5, <2>6, <2>8
<1>11. CASE First.ins = "PPS" /\ ~Complete(u) /\ uart' = u /\ card' = card
  <2>1. Gathered
    BY <1>6, <1>7, <1>8, <1>11 DEF Gathered
  <2> QED
    BY <1>1, <1>2, <1>6, <1>7, <1>11, <2>1
<1>12. CASE /\ First.ins # "PPS" /\ InData(First.ins) /\ ~Complete(u)
            /\ uart' = Ask(u) /\ card' = card
  <2> DEFINE bytes == <<Ack(First)>>
             v == Respond(u, bytes)
             w == [v EXCEPT !.t0 = yes]
  <2>1. Ask(u) = IF u.t0 THEN u ELSE w
    BY <1>8 DEF Ask, h, Ack, yes
  <2>2. bytes \in Seq(Bytes(env))
    <3>1. Ack(First) \in Bytes(env)
      BY <1>2 DEF Ack, Byte, Bytes, Kinds, Values
    <3> QED
      BY <3>1
  <2> HIDE DEF bytes
  <2>3. /\ Line(env, v, serving) /\ SameCmd(u, v)
        /\ Fits(In(u), bytes) => In(v) = In(u) \o bytes
    BY <1>6, <2>2, RespondIs
  <2> HIDE DEF v
  <2>4. v \in UartType(env)
    BY <2>3 DEF Line
  <2>5. /\ w \in UartType(env) /\ w.rx = v.rx /\ w.stage = v.stage /\ w.int = v.int
        /\ w.fiq6 = v.fiq6 /\ w.asm = v.asm /\ w.tx = v.tx /\ w.t0 = yes /\ w.atr = v.atr
    BY <1>1, <2>4 DEF UartType
  <2> HIDE DEF w
  <2>6. Line(env, w, serving) /\ In(w) = In(v)
    BY <2>3, <2>5, LineKept
  <2>7. CASE uart.t0
    <3>1. uart' = u
      BY <1>7, <1>12, <2>1, <2>7
    <3>2. Asked
      BY <1>6, <1>7, <1>8, <1>12, <2>7, <3>1 DEF Asked
    <3> QED
      BY <1>1, <1>2, <1>6, <1>7, <1>12, <3>1, <3>2
  <2>8. CASE ~uart.t0
    <3>1. uart' = w
      BY <1>7, <1>12, <2>1, <2>8
    <3>2. uart'.asm = Given /\ uart'.tx = <<>> /\ uart'.atr = uart.atr /\ uart'.t0
      BY <1>1, <1>7, <2>3, <2>5, <3>1 DEF SameCmd
    <3>3. Fits(In(uart), bytes) => In(uart') = In(uart) \o bytes
      BY <1>6, <2>3, <2>6, <3>1
    <3>4. Asked
      BY <1>8, <1>12, <2>8, <3>2, <3>3 DEF Asked, bytes
    <3> QED
      BY <1>2, <1>12, <2>6, <3>1, <3>2, <3>4
  <2> QED
    BY <2>7, <2>8
<1>13. CASE /\ First.ins # "PPS" /\ ~(InData(First.ins) /\ ~Complete(u))
            /\ card' = Compute(card, First).card
            /\ \E a \in Fed(Compute(card, First), First) :
                 uart' = Respond([Retire(u) EXCEPT !.used = yes], Framing(First, a))
  <2> DEFINE r == Compute(card, First)
             u1 == [u EXCEPT !.asm = nil, !.t0 = no, !.used = yes]
  <2>1. AnswerOk(card, First, r)
    BY <1>2, ComputeIs
  <2>2. PICK a \in Fed(r, First) :
          uart' = Respond([Retire(u) EXCEPT !.used = yes], Framing(First, a))
    BY <1>13
  <2>3. [Retire(u) EXCEPT !.used = yes] = u1
    BY <1>5 DEF Retire, UartType, nil, no
  <2>4. /\ u1 \in UartType(env) /\ u1.rx = u.rx /\ u1.stage = u.stage /\ u1.int = u.int
        /\ u1.fiq6 = u.fiq6 /\ u1.asm = nil /\ u1.tx = u.tx /\ u1.t0 = no /\ u1.atr = u.atr
    BY <1>1, <1>5 DEF UartType
  <2> HIDE DEF u1, r
  <2>5. Line(env, u1, serving) /\ In(u1) = In(u)
    BY <1>6, <2>4, LineKept
  <2>6. /\ CardOk(r.card) /\ r.n \in Lengths(First) /\ r.v \in Values /\ r.sw \in StatusWords
        /\ r.n \in {0, Owes(r.card, First)} /\ Honest(card, First, r)
    BY <2>1 DEF AnswerOk
  <2>7. /\ a.n \in Lengths(First) /\ a.v \in Values /\ a.sw \in Values
        /\ a.n \in {0} \cup Due(r.card, First)
        /\ ~env.bridge => a.n = r.n /\ a.v = r.v /\ a.sw = r.sw
    BY <1>2, <2>2, <2>6, FedIs
  <2> DEFINE s == Framing(First, a)
             w == Respond(u1, s)
  <2>8. s \in Seq(Bytes(env))
    BY <1>2, <2>7, FramingType
  <2>9. s = Framing(First, [card |-> card', n |-> a.n, v |-> a.v, sw |-> a.sw])
    BY DEF Framing
  <2> HIDE DEF s
  <2>10. /\ Line(env, w, serving) /\ SameCmd(u1, w)
         /\ Fits(In(u1), s) => In(w) = In(u1) \o s
    BY <2>5, <2>8, RespondIs
  <2>11. uart' = w
    BY <2>2, <2>3 DEF s
  <2> HIDE DEF w
  <2>12. uart'.asm = <<>> /\ ~uart'.t0 /\ uart'.tx = <<>> /\ uart'.atr = uart.atr
    BY <1>1, <1>7, <2>4, <2>10, <2>11 DEF SameCmd
  <2>13. card' = r.card
    BY <1>13 DEF r
  <2>14. Answered(a.n, a.v, a.sw)
    <3>1. Fits(In(uart), s) => In(uart') = In(uart) \o s
      BY <1>6, <2>5, <2>10, <2>11
    <3> DEFINE a2 == [card |-> card', n |-> a.n, v |-> a.v, sw |-> a.sw]
    <3>2. a2.card = card' /\ a2.n = a.n /\ a2.v = a.v /\ a2.sw = a.sw
      OBVIOUS
    <3>3. s = Framing(First, a2)
      BY <2>9
    <3> HIDE DEF a2
    <3>4. ~env.bridge => Honest(card, First, a2)
      BY <2>6, <2>7, <2>13, <3>2 DEF Honest
    <3> QED
      BY <2>7, <2>13, <3>1, <3>3, <3>4 DEF Answered, a2
  <2> QED
    BY <1>2, <1>8, <1>13, <2>6, <2>7, <2>10, <2>11, <2>12, <2>13, <2>14
<1>14. \/ /\ First.ins = "PPS" /\ Complete(u)
          /\ uart' = Respond([u EXCEPT !.asm = nil], Echoes(First)) /\ card' = card
       \/ First.ins = "PPS" /\ ~Complete(u) /\ uart' = u /\ card' = card
       \/ /\ First.ins # "PPS" /\ InData(First.ins) /\ ~Complete(u)
          /\ uart' = Ask(u) /\ card' = card
       \/ /\ First.ins # "PPS" /\ ~(InData(First.ins) /\ ~Complete(u))
          /\ card' = Compute(card, First).card
          /\ \E a \in Fed(Compute(card, First), First) :
               uart' = Respond([Retire(u) EXCEPT !.used = yes], Framing(First, a))
  BY <1>8, <1>9 DEF Echoes
<1> QED
  BY <1>10, <1>11, <1>12, <1>13, <1>14

-----------------------------------------------------------------------------
(* The first part of the invariant: types, the line, and who has a command. *)

Serving == fw.isr = "serve" /\ "rx" \in fw.lines
Begun   == fw.at \in {"put", "wait"}

Shape ==
    /\ env \in Settings /\ CardOk(card) /\ fw \in FwType(env)
    /\ Line(env, uart, Serving)
    /\ IF Begun THEN fw.cmd \in env.cmds ELSE fw.cmd = NoCmd
    /\ fw.at = "put" => uart.tx # <<>>

\* The command the firmware is in is one of those.
LEMMA CmdKnown ==
    ASSUME Shape
    PROVE  /\ fw.cmd \in AllCmds /\ fw.cmd.val \in Values
           /\ fw \in FwType(env) /\ uart \in UartType(env) /\ env \in Settings
<1>1. /\ fw \in FwType(env) /\ uart \in UartType(env) /\ env \in Settings
      /\ fw.cmd \in env.cmds \/ fw.cmd = NoCmd
  BY DEF Shape, Line
<1>2. fw.cmd \in AllCmds
  <2>1. CASE fw.cmd \in env.cmds
    BY <1>1, <2>1 DEF AllCmds
  <2>2. CASE fw.cmd = NoCmd
    BY <2>2 DEF AllCmds
  <2> QED
    BY <1>1, <2>1, <2>2
<1> QED
  BY <1>1, <1>2 DEF Values

\* What the firmware may find after a write that was cut off has values.
LEMMA UnsureType ==
    ASSUME Shape
    PROVE  Unsure \in [Efs -> SUBSET Values]
<1>1. fw.cmd.val \in Values /\ fw.holds \in [Efs -> SUBSET Values]
  BY CmdKnown DEF FwType
<1> QED
  BY <1>1 DEF Unsure

\* The driver's state keeps its type.
LEMMA FwTyped ==
    ASSUME Shape, Next
    PROVE  fw' \in FwType(env)
<1>1. /\ fw \in FwType(env) /\ uart \in UartType(env) /\ env \in Settings
      /\ NoCmd \in env.cmds \cup {NoCmd} /\ fw.cmd \in AllCmds
  BY CmdKnown
<1> DEFINE nil == <<>>
           no == FALSE
           zero == 0
<1>2. nil \in Seq(Bytes(env)) /\ no \in BOOLEAN /\ zero \in Nat
  OBVIOUS
<1>3. ASSUME fw' = Off(fw) PROVE fw' \in FwType(env)
  <2> DEFINE unsure == Unsure
  <2>1. unsure \in [Efs -> SUBSET Values]
    BY UnsureType
  <2>2. fw' = [fw EXCEPT !.at = "off", !.cmd = NoCmd, !.got = nil, !.holds = unsure]
    BY <1>3 DEF Off
  <2> HIDE DEF unsure, nil
  <2> QED
    BY <1>1, <1>2, <2>1, <2>2 DEF FwType
<1>4. ASSUME UNCHANGED fw PROVE fw' \in FwType(env)
  BY <1>1, <1>4
<1>5. CASE PowerUp
  <2>1. fw' = [fw EXCEPT !.at = "atr"]
    BY <1>5 DEF PowerUp
  <2> QED
    BY <1>1, <2>1 DEF FwType
<1>6. CASE TakeAtr
  <2>1. fw' = [fw EXCEPT !.at = "idle", !.got = nil, !.sel = MF] /\ MF \in Named
    BY <1>6, SimAssumption DEF TakeAtr, Named
  <2> HIDE DEF nil
  <2> QED
    BY <1>1, <1>2, <2>1 DEF FwType
<1>7. ASSUME NEW cmd \in env.cmds, Begin(cmd) PROVE fw' \in FwType(env)
  <2>1. fw' = [fw EXCEPT !.at = "put", !.cmd = cmd, !.sent = zero, !.adv = no]
    BY <1>7 DEF Begin
  <2> HIDE DEF zero, no
  <2> QED
    BY <1>1, <1>2, <2>1 DEF FwType
<1>8. CASE Flush
  <2>1. fw' = [fw EXCEPT !.at = "wait"]
    BY <1>8 DEF Flush
  <2> QED
    BY <1>1, <2>1 DEF FwType
<1>9. CASE More
  <2>0. fw.at = "wait" /\ fw.cmd \in env.cmds /\ fw.cmd.p3 \in Nat /\ fw.sent \in Nat
    BY <1>1, <1>9, CmdFacts DEF More, Shape, Begun, FwType
  <2>1. PICK n \in 1 .. fw.cmd.p3 - fw.sent :
          fw' = [fw EXCEPT !.at = "put", !.sent = @ + n, !.adv = FALSE]
    BY <1>9 DEF More
  <2> DEFINE sent == fw.sent + n
  <2>2. sent \in Nat
    BY <2>0
  <2>3. fw' = [fw EXCEPT !.at = "put", !.sent = sent, !.adv = no]
    BY <2>1
  <2> HIDE DEF sent, no
  <2> QED
    BY <1>1, <1>2, <2>2, <2>3 DEF FwType
<1>10. CASE Done
  <2> DEFINE end == Last(fw.got)
             sel == IF fw.cmd.ins = "SELECT" /\ end.v = "9F" THEN fw.cmd.file ELSE fw.sel
             writes == fw.cmd.ins = (IF Kind[fw.sel] = "rec" THEN "UPDATE RECORD" ELSE "UPDATE BINARY")
             holds == IF Kind[fw.sel] = "dir" \/ end.v # "9000" THEN fw.holds
                      ELSE IF writes THEN [fw.holds EXCEPT ![fw.sel] = {fw.cmd.val}]
                      ELSE IF ReadsSel /\ Len(fw.got) > 2
                           THEN [fw.holds EXCEPT ![fw.sel] = {fw.got[2].v}]
                      ELSE fw.holds
  <2>1. fw' = [fw EXCEPT !.at = "idle", !.cmd = NoCmd, !.got = nil, !.sel = sel, !.holds = holds]
    BY <1>10 DEF Done
  <2>2. sel \in Named
    BY <1>1 DEF FwType, Named
  <2>3. fw.cmd.val \in Values
    BY <1>1 DEF Values
  <2>4. ASSUME Len(fw.got) > 2 PROVE fw.got[2].v \in Values
    <3>1. fw.got \in Seq(Bytes(env))
      BY <1>1 DEF FwType
    <3>2. 2 \in 1 .. Len(fw.got)
      BY <2>4, <3>1
    <3>3. fw.got[2] \in Bytes(env)
      BY <3>1, <3>2
    <3> QED
      BY <3>3 DEF Bytes
  <2>5. fw.holds \in [Efs -> SUBSET Values]
    BY <1>1 DEF FwType
  <2>6. ASSUME NEW v \in Values PROVE [fw.holds EXCEPT ![fw.sel] = {v}] \in [Efs -> SUBSET Values]
    BY <2>5
  <2>7. holds \in [Efs -> SUBSET Values]
    BY <2>3, <2>4, <2>5, <2>6
  <2> HIDE DEF sel, holds, nil
  <2> QED
    BY <1>1, <1>2, <2>1, <2>2, <2>7 DEF FwType
<1>11. CASE EnterFiq6
  <2>1. fw' = [fw EXCEPT !.isr = "clear", !.lines = uart.int] /\ uart.int \in SUBSET {"rx", "tx", "wwt"}
    BY <1>1, <1>11 DEF EnterFiq6, UartType
  <2> QED
    BY <1>1, <2>1 DEF FwType
<1>12. CASE WriteBack
  <2> DEFINE adv == fw.adv \/ "tx" \in fw.lines
  <2>1. fw' = [fw EXCEPT !.isr = "serve", !.adv = adv] /\ adv \in BOOLEAN
    BY <1>1, <1>12 DEF WriteBack, FwType
  <2> HIDE DEF adv
  <2> QED
    BY <1>1, <2>1 DEF FwType
<1>13. CASE ReadByte
  <2> DEFINE got == IF fw.at = "off" THEN fw.got ELSE Append(fw.got, Head(uart.rx))
  <2>1. fw' = [fw EXCEPT !.got = got]
    BY <1>13 DEF ReadByte
  <2>2. got \in Seq(Bytes(env))
    BY <1>1, <1>13 DEF ReadByte, UartType, FwType
  <2> HIDE DEF got
  <2> QED
    BY <1>1, <2>1, <2>2 DEF FwType
<1>14. CASE Leave6
  <2> DEFINE none == {}
  <2>1. fw' = [fw EXCEPT !.isr = "no", !.lines = none] /\ none \in SUBSET {"rx", "tx", "wwt"}
    BY <1>14 DEF Leave6
  <2> HIDE DEF none
  <2> QED
    BY <1>1, <2>1 DEF FwType
<1>15. CASE GiveUp \/ TakeFiq7
  BY <1>3, <1>15 DEF GiveUp, TakeFiq7
<1>16. CASE SetPresent \/ Ack6
  BY <1>4, <1>16 DEF SetPresent, Ack6
<1>17. ASSUME NEW paceDue \in BOOLEAN, NEW wwtDue \in BOOLEAN, Tick(paceDue, wwtDue)
       PROVE  fw' \in FwType(env)
  BY <1>4, <1>17 DEF Tick
<1> QED
  BY <1>5, <1>6, <1>7, <1>8, <1>9, <1>10, <1>11, <1>12, <1>13, <1>14, <1>15, <1>16, <1>17
     DEF Next, Main, Fiq6

\* What was sent to the firmware in the command it is in, read or not.
Stream == fw.got \o In(uart)

\* The firmware's program does not move, and the card's files stay.
Paused ==
    /\ fw'.at = fw.at /\ fw'.cmd = fw.cmd /\ fw'.sent = fw.sent
    /\ fw'.sel = fw.sel /\ fw'.holds = fw.holds
    /\ card'.sel = card.sel /\ card'.over = card.over /\ card'.gr = card.gr

\* The bytes stay in order, read or not.
Carried ==
    /\ uart'.tx = uart.tx /\ uart'.asm = uart.asm /\ uart'.t0 = uart.t0
    /\ uart'.atr => uart.atr
    /\ fw.at # "off" => Stream' = Stream
    /\ fw.at = "off" => fw'.got = fw.got
    /\ In(uart) = <<>> => In(uart') = <<>>

LEMMA SetPresentIs ==
    ASSUME Shape, SetPresent
    PROVE  /\ env' = env /\ CardOk(card') /\ Line(env, uart', Serving') /\ Carried /\ Paused
<1> DEFINE yes == TRUE
           here == ~card.present
           seen == ~card.present
<1>1. /\ card \in CardType /\ uart \in UartType(env) /\ Line(env, uart, Serving)
      /\ CardOk(card) /\ yes \in BOOLEAN /\ Serving \in BOOLEAN
      /\ here \in BOOLEAN /\ seen \in BOOLEAN
  BY DEF Shape, CardOk, Line, UartType, Serving
<1>2. /\ card' = [card EXCEPT !.present = here, !.seen = seen]
      /\ uart' = [uart EXCEPT !.fiq7 = yes] /\ env' = env /\ fw' = fw
  BY DEF SetPresent
<1> HIDE DEF yes, here, seen
<1>3. Line(env, uart', Serving) /\ SameCmd(uart, uart') /\ In(uart') = In(uart)
  <2>1. /\ uart' \in UartType(env) /\ uart'.rx = uart.rx /\ uart'.stage = uart.stage
        /\ uart'.int = uart.int /\ uart'.fiq6 = uart.fiq6 /\ SameCmd(uart, uart')
    BY <1>1, <1>2 DEF UartType, SameCmd
  <2> QED
    BY <1>1, <2>1, LineKept
<1>4. /\ card' \in CardType /\ card'.sel = card.sel /\ card'.df = card.df
      /\ card'.over = card.over /\ card'.gr = card.gr
  BY <1>1, <1>2 DEF CardType
<1>5. CardOk(card')
  BY <1>1, <1>4 DEF CardOk, Overlaid
<1> QED
  BY <1>2, <1>3, <1>4, <1>5 DEF Carried, Paused, SameCmd, Serving, Stream

LEMMA HandlerIs ==
    ASSUME Shape, EnterFiq6 \/ Fiq6 \/ Ack6
    PROVE  /\ env' = env /\ card' = card /\ Line(env, uart', Serving') /\ Carried /\ Paused
<1>1. /\ fw \in FwType(env) /\ uart \in UartType(env) /\ Line(env, uart, Serving)
      /\ Serving \in BOOLEAN
  BY DEF Shape, Line, Serving
<1>2. CASE EnterFiq6
  <2>1. /\ fw' = [fw EXCEPT !.isr = "clear", !.lines = uart.int]
        /\ UNCHANGED <<env, uart, card>> /\ ~Serving
    BY <1>2 DEF EnterFiq6, InMain, Serving
  <2>2. fw'.isr = "clear" /\ fw'.got = fw.got /\ Paused
    BY <1>1, <2>1 DEF FwType, Paused
  <2>3. ~Serving'
    BY <2>2 DEF Serving
  <2>4. Line(env, uart', Serving')
    BY <1>1, <2>1, <2>3 DEF Line, StrandFree
  <2> QED
    BY <2>1, <2>2, <2>4 DEF Carried, Stream
<1>3. CASE WriteBack
  <2> DEFINE adv == fw.adv \/ "tx" \in fw.lines
  <2>1. /\ uart' = ClearInt(uart, fw.lines) /\ fw' = [fw EXCEPT !.isr = "serve", !.adv = adv]
        /\ UNCHANGED <<env, card>> /\ fw.isr = "clear" /\ ~Serving
    BY <1>3 DEF WriteBack, Serving
  <2> HIDE DEF adv
  <2>2. fw'.isr = "serve" /\ fw'.lines = fw.lines /\ fw'.got = fw.got /\ Paused
    BY <1>1, <2>1 DEF FwType, Paused
  <2>3. /\ Line(env, uart', "rx" \in fw.lines) /\ SameCmd(uart, uart')
        /\ In(uart') = In(uart)
    BY <1>1, <2>1, ClearIs
  <2>4. Serving' <=> "rx" \in fw.lines
    BY <2>2 DEF Serving
  <2> QED
    BY <2>1, <2>2, <2>3, <2>4 DEF Carried, Stream, SameCmd
<1>4. CASE ReadByte
  <2> DEFINE b == Head(uart.rx)
             got == IF fw.at = "off" THEN fw.got ELSE Append(fw.got, b)
  <2>1. /\ uart' = Pop(uart) /\ fw' = [fw EXCEPT !.got = got] /\ UNCHANGED <<env, card>>
        /\ uart.rx # <<>> /\ Serving
    BY <1>4 DEF ReadByte, Serving
  <2>2. /\ Line(env, uart', TRUE) /\ SameCmd(uart, uart')
        /\ b \in Bytes(env) /\ In(uart) = <<b>> \o In(uart')
    BY <1>1, <2>1, PopIs
  <2>3. got \in Seq(Bytes(env)) /\ fw.got \in Seq(Bytes(env))
    BY <1>1, <2>2 DEF FwType
  <2>4. In(uart') \in Seq(Bytes(env))
    BY <2>2 DEF Line, UartType, In
  <2> HIDE DEF got, b
  <2>5. fw'.isr = fw.isr /\ fw'.lines = fw.lines /\ fw'.got = got /\ Paused
    BY <1>1, <2>1 DEF FwType, Paused
  <2>6. Serving'
    BY <2>1, <2>5 DEF Serving
  <2>7. ASSUME fw.at # "off" PROVE got \o In(uart') = fw.got \o In(uart)
    <3> DEFINE g == fw.got
               t == In(uart')
               S == Bytes(env)
    <3>1. got = Append(g, b)
      BY <2>7 DEF got
    <3>2. g \in Seq(S) /\ t \in Seq(S) /\ b \in S
      BY <2>2, <2>3, <2>4
    <3> HIDE DEF g, t, S
    <3>3. Append(g, b) \o t = g \o (<<b>> \o t)
      <4>1. Append(g, b) = g \o <<b>> /\ <<b>> \in Seq(S)
        BY <3>2
      <4>2. (g \o <<b>>) \o t = g \o (<<b>> \o t)
        BY ONLY <3>2, <4>1, ConcatAssociative
      <4> QED
        BY <4>1, <4>2
    <3>4. In(uart) = <<b>> \o t
      BY <2>2 DEF t
    <3>5. got \o t = g \o In(uart)
      BY <3>1, <3>3, <3>4, Zenon
    <3> QED
      BY <3>5 DEF g, t
  <2>8. In(uart) # <<>>
    <3> DEFINE t == In(uart')
    <3>1. t \in Seq(Bytes(env)) /\ In(uart) = <<b>> \o t
      BY <2>2, <2>4
    <3> HIDE DEF t
    <3> QED
      BY <3>1
  <2>9. fw.at = "off" => fw'.got = fw.got
    BY <2>5 DEF got
  <2>10. fw.at # "off" => Stream' = Stream
    BY <2>5, <2>7 DEF Stream
  <2> QED
    BY <2>1, <2>2, <2>5, <2>6, <2>8, <2>9, <2>10 DEF Carried, SameCmd
<1>5. CASE Leave6
  <2>1. /\ fw' = [fw EXCEPT !.isr = "no", !.lines = {}]
        /\ UNCHANGED <<env, uart, card>> /\ (Serving => uart.rx = <<>>)
    BY <1>5 DEF Leave6, Serving
  <2>2. fw'.isr = "no" /\ fw'.got = fw.got /\ Paused
    BY <1>1, <2>1 DEF FwType, Paused
  <2>3. ~Serving'
    BY <2>2 DEF Serving
  <2>4. Line(env, uart, FALSE)
    BY <1>1, <2>1 DEF Line, StrandFree
  <2>5. Line(env, uart', Serving')
    BY <2>1, <2>3, <2>4 DEF Line, StrandFree
  <2> QED
    BY <2>1, <2>2, <2>5 DEF Carried, Stream
<1>6. CASE Ack6
  <2>1. uart' = AckFiq6(uart) /\ UNCHANGED <<env, card, fw>>
    BY <1>6 DEF Ack6
  <2>2. Line(env, uart', Serving) /\ SameCmd(uart, uart') /\ In(uart') = In(uart)
    BY <1>1, <2>1, AckIs
  <2> QED
    BY <2>1, <2>2 DEF Carried, Paused, Serving, Stream, SameCmd
<1> QED
  BY <1>2, <1>3, <1>4, <1>5, <1>6 DEF Fiq6

\* The firmware's program runs between its interrupts only.
LEMMA MainIs ==
    ASSUME Shape, InMain, fw'.isr = fw.isr
    PROVE  ~Serving /\ ~Serving' /\ Line(env, uart, FALSE)
BY DEF InMain, Serving, Shape, Line, StrandFree

LEMMA OffIs ==
    ASSUME Shape, GiveUp \/ TakeFiq7
    PROVE  /\ env' = env /\ card' = card /\ Line(env, uart', Serving')
           /\ fw'.at = "off" /\ fw'.cmd = NoCmd /\ fw'.got = <<>> /\ fw'.holds = Unsure
<1> DEFINE no == FALSE
           fiq7 == IF GiveUp THEN uart.fiq7 ELSE no
           unsure == Unsure
<1>1. /\ fw \in FwType(env) /\ uart \in UartType(env) /\ no \in BOOLEAN /\ uart.fiq7 \in BOOLEAN
      /\ unsure \in [Efs -> SUBSET Values]
  BY UnsureType DEF Shape, Line, UartType
<1>2. /\ env' = env /\ card' = card /\ InMain
      /\ fw' = [fw EXCEPT !.at = "off", !.cmd = NoCmd, !.got = <<>>, !.holds = unsure]
  BY DEF GiveUp, TakeFiq7, Off
<1>3. uart' = [uart EXCEPT !.on = no] \/ uart' = [uart EXCEPT !.fiq7 = no, !.on = no]
  BY DEF GiveUp, TakeFiq7
<1> HIDE DEF no, unsure
<1>4. /\ fw'.at = "off" /\ fw'.cmd = NoCmd /\ fw'.got = <<>> /\ fw'.holds = unsure
      /\ fw'.isr = fw.isr
  BY <1>1, <1>2 DEF FwType
<1>5. ~Serving /\ ~Serving' /\ Line(env, uart, FALSE)
  BY <1>2, <1>4, MainIs
<1>6. /\ uart' \in UartType(env) /\ uart'.rx = uart.rx /\ uart'.stage = uart.stage
      /\ uart'.int = uart.int /\ uart'.fiq6 = uart.fiq6
  BY <1>1, <1>3 DEF UartType
<1>7. Line(env, uart', FALSE)
  BY <1>5, <1>6, LineKept
<1>8. Line(env, uart', Serving')
  BY <1>5, <1>7 DEF Line, StrandFree
<1> QED
  BY <1>2, <1>4, <1>8 DEF unsure

LEMMA PowerUpIs ==
    ASSUME Shape, PowerUp
    PROVE  /\ env' = env /\ card' = card /\ Line(env, uart', Serving') /\ In(uart') = <<>>
           /\ uart'.tx = <<>> /\ uart'.asm = <<>>
           /\ fw.at = "off" /\ fw'.at = "atr" /\ fw'.cmd = fw.cmd /\ fw'.got = fw.got
           /\ fw'.holds = fw.holds
<1>1. fw' = [fw EXCEPT !.at = "atr"] /\ fw \in FwType(env) /\ InMain /\ fw.at = "off"
      /\ env' = env /\ card' = card /\ uart' = Activate(uart)
  BY DEF PowerUp, Shape
<1>2. /\ fw'.at = "atr" /\ fw'.cmd = fw.cmd /\ fw'.got = fw.got /\ fw'.holds = fw.holds
      /\ fw'.isr = fw.isr
  BY <1>1 DEF FwType
<1>3. ~Serving /\ ~Serving' /\ Line(env, uart, FALSE)
  BY <1>1, <1>2, MainIs
<1>4. Line(env, uart', FALSE) /\ In(uart') = <<>> /\ uart'.tx = <<>> /\ uart'.asm = <<>>
  BY <1>1, <1>3, ActivateIs
<1>5. Line(env, uart', Serving')
  BY <1>3, <1>4 DEF Line, StrandFree
<1> QED
  BY <1>1, <1>2, <1>4, <1>5

LEMMA TakeAtrIs ==
    ASSUME Shape, TakeAtr
    PROVE  /\ env' = env /\ card' = card /\ uart' = uart /\ Line(env, uart, Serving')
           /\ fw.at = "atr" /\ Len(fw.got) = AtrLen
           /\ fw'.at = "idle" /\ fw'.cmd = fw.cmd /\ fw'.got = <<>> /\ fw'.sel = MF
           /\ fw'.holds = fw.holds
<1>1. /\ fw' = [fw EXCEPT !.at = "idle", !.got = <<>>, !.sel = MF] /\ fw \in FwType(env)
      /\ InMain /\ fw.at = "atr" /\ Len(fw.got) = AtrLen
      /\ env' = env /\ card' = card /\ uart' = uart
  BY DEF TakeAtr, Shape
<1>2. /\ fw'.at = "idle" /\ fw'.cmd = fw.cmd /\ fw'.got = <<>> /\ fw'.sel = MF
      /\ fw'.holds = fw.holds /\ fw'.isr = fw.isr
  BY <1>1 DEF FwType
<1>3. ~Serving /\ ~Serving' /\ Line(env, uart, FALSE)
  BY <1>1, <1>2, MainIs
<1>4. Line(env, uart, Serving')
  BY <1>3 DEF Line, StrandFree
<1> QED
  BY <1>1, <1>2, <1>4

\* The driver queues so many units of a command.
LEMMA QueueIs ==
    ASSUME Shape, NEW cmd \in env.cmds, NEW n \in Nat \ {0},
           uart' = [uart EXCEPT !.tx = Times(n, cmd)], ~Serving, ~Serving'
    PROVE  /\ Line(env, uart', Serving') /\ In(uart') = In(uart)
           /\ uart'.tx = Times(n, cmd) /\ uart'.asm = uart.asm /\ uart'.t0 = uart.t0
           /\ uart'.atr = uart.atr /\ uart'.tx # <<>>
<1> DEFINE t == Times(n, cmd)
<1>1. t \in Seq(env.cmds) /\ t # <<>>
  BY TimesIs
<1>2. Line(env, uart, FALSE) /\ uart \in UartType(env)
  BY DEF Shape, Line, StrandFree
<1> HIDE DEF t
<1>3. /\ uart' \in UartType(env) /\ uart'.rx = uart.rx /\ uart'.stage = uart.stage
      /\ uart'.int = uart.int /\ uart'.fiq6 = uart.fiq6
      /\ uart'.tx = t /\ uart'.asm = uart.asm /\ uart'.t0 = uart.t0 /\ uart'.atr = uart.atr
  BY <1>1, <1>2 DEF UartType, t
<1>4. Line(env, uart', FALSE) /\ In(uart') = In(uart)
  BY <1>2, <1>3, LineKept
<1>5. Line(env, uart', Serving')
  BY <1>4 DEF Line, StrandFree
<1> QED
  BY <1>1, <1>3, <1>4, <1>5 DEF t

LEMMA BeginIs ==
    ASSUME Shape, NEW cmd \in env.cmds, Begin(cmd)
    PROVE  /\ env' = env /\ card' = card /\ Line(env, uart', Serving') /\ In(uart') = In(uart)
           /\ uart'.tx = Times(IF cmd.ins = "PPS" THEN 1 + cmd.p3 ELSE 1, cmd)
           /\ uart'.tx # <<>> /\ uart'.asm = uart.asm /\ uart'.t0 = uart.t0
           /\ uart'.atr = uart.atr
           /\ fw.at = "idle" /\ fw'.at = "put" /\ fw'.cmd = cmd /\ fw'.sent = 0
           /\ fw'.got = fw.got /\ fw'.sel = fw.sel /\ fw'.holds = fw.holds
<1> DEFINE n == IF cmd.ins = "PPS" THEN 1 + cmd.p3 ELSE 1
           no == FALSE
           zero == 0
<1>1. /\ fw' = [fw EXCEPT !.at = "put", !.cmd = cmd, !.sent = zero, !.adv = no]
      /\ fw \in FwType(env) /\ InMain /\ fw.at = "idle"
      /\ uart' = [uart EXCEPT !.tx = Times(n, cmd)] /\ env' = env /\ card' = card
  BY DEF Begin, Shape
<1>0. n \in Nat \ {0} /\ zero = 0
  <2>1. cmd.p3 \in Nat
    BY CmdFacts DEF Shape
  <2> QED
    BY <2>1
<1> HIDE DEF n, no, zero
<1>2. /\ fw'.at = "put" /\ fw'.cmd = cmd /\ fw'.sent = zero /\ fw'.got = fw.got
      /\ fw'.sel = fw.sel /\ fw'.holds = fw.holds /\ fw'.isr = fw.isr
  BY <1>1 DEF FwType
<1>3. ~Serving /\ ~Serving'
  BY <1>1, <1>2, MainIs
<1>4. /\ Line(env, uart', Serving') /\ In(uart') = In(uart)
      /\ uart'.tx = Times(n, cmd) /\ uart'.asm = uart.asm /\ uart'.t0 = uart.t0
      /\ uart'.atr = uart.atr /\ uart'.tx # <<>>
  BY <1>0, <1>1, <1>3, QueueIs
<1> QED
  BY <1>0, <1>1, <1>2, <1>4 DEF n

LEMMA MoreIs ==
    ASSUME Shape, More
    PROVE  /\ env' = env /\ card' = card /\ Line(env, uart', Serving') /\ In(uart') = In(uart)
           /\ uart'.asm = uart.asm /\ uart'.t0 = uart.t0 /\ uart'.atr = uart.atr
           /\ uart'.tx # <<>>
           /\ fw.at = "wait" /\ InData(fw.cmd.ins) /\ fw.sent < fw.cmd.p3 /\ Len(fw.got) = 1
           /\ fw'.at = "put" /\ fw'.cmd = fw.cmd /\ fw'.got = fw.got /\ fw'.sel = fw.sel
           /\ fw'.holds = fw.holds
           /\ \E n \in Nat \ {0} : /\ uart'.tx = Times(n, fw.cmd) /\ fw'.sent = fw.sent + n
                                   /\ fw.sent + n <= fw.cmd.p3
<1> DEFINE no == FALSE
<1>1. /\ fw \in FwType(env) /\ InMain /\ fw.at = "wait" /\ InData(fw.cmd.ins)
      /\ fw.sent < fw.cmd.p3 /\ Len(fw.got) = 1 /\ env' = env /\ card' = card
      /\ fw.cmd \in env.cmds /\ fw.sent \in Nat
  BY DEF More, Shape, Begun, FwType
<1>2. fw.cmd.p3 \in Nat
  BY <1>1, CmdFacts DEF Shape
<1>3. PICK n \in 1 .. fw.cmd.p3 - fw.sent :
        /\ uart' = [uart EXCEPT !.tx = Times(n, fw.cmd)]
        /\ fw' = [fw EXCEPT !.at = "put", !.sent = @ + n, !.adv = no]
  BY DEF More
<1>4. n \in Nat \ {0} /\ fw.sent + n <= fw.cmd.p3
  BY <1>1, <1>2
<1> DEFINE sent == fw.sent + n
<1>5. fw' = [fw EXCEPT !.at = "put", !.sent = sent, !.adv = no]
  BY <1>3
<1> HIDE DEF sent, no
<1>6. /\ fw'.at = "put" /\ fw'.cmd = fw.cmd /\ fw'.sent = sent /\ fw'.got = fw.got
      /\ fw'.sel = fw.sel /\ fw'.holds = fw.holds /\ fw'.isr = fw.isr
  BY <1>1, <1>5 DEF FwType
<1>7. ~Serving /\ ~Serving'
  BY <1>1, <1>6, MainIs
<1>8. /\ Line(env, uart', Serving') /\ In(uart') = In(uart)
      /\ uart'.tx = Times(n, fw.cmd) /\ uart'.asm = uart.asm /\ uart'.t0 = uart.t0
      /\ uart'.atr = uart.atr /\ uart'.tx # <<>>
  BY <1>1, <1>3, <1>4, <1>7, QueueIs
<1>9. fw'.sent = fw.sent + n
  BY <1>6 DEF sent
<1> QED
  BY <1>1, <1>4, <1>6, <1>8, <1>9

\* A flush, see RunApduIs.
Outcomes ==
    \/ Echoed \/ Gathered \/ Asked
    \/ /\ First.ins # "PPS" /\ ~(InData(First.ins) /\ ~(Len(Given) >= 1 + First.p3))
       /\ uart'.asm = <<>> /\ ~uart'.t0
       /\ \E n \in Lengths(First), v, sw \in Values : Answered(n, v, sw)

LEMMA FlushIs ==
    ASSUME Shape, Flush
    PROVE  /\ env' = env /\ CardOk(card') /\ Line(env, uart', Serving')
           /\ uart'.tx = <<>> /\ uart'.atr = uart.atr /\ First \in env.cmds /\ Outcomes
           /\ fw.at = "put" /\ fw'.at = "wait" /\ fw'.cmd = fw.cmd /\ fw'.sent = fw.sent
           /\ fw'.got = fw.got /\ fw'.sel = fw.sel /\ fw'.holds = fw.holds
<1>1. /\ fw' = [fw EXCEPT !.at = "wait"] /\ fw \in FwType(env) /\ InMain /\ fw.at = "put"
      /\ env' = env /\ RunApdu /\ CardOk(card) /\ env \in Settings /\ uart.tx # <<>>
  BY DEF Flush, Shape
<1>2. /\ fw'.at = "wait" /\ fw'.cmd = fw.cmd /\ fw'.sent = fw.sent /\ fw'.got = fw.got
      /\ fw'.sel = fw.sel /\ fw'.holds = fw.holds /\ fw'.isr = fw.isr
  BY <1>1 DEF FwType
<1>3. ~Serving /\ ~Serving' /\ Line(env, uart, FALSE)
  BY <1>1, <1>2, MainIs
<1>4. /\ Line(env, uart', FALSE) /\ CardOk(card') /\ First \in env.cmds
      /\ uart'.tx = <<>> /\ uart'.atr = uart.atr /\ Outcomes
  BY <1>1, <1>3, RunApduIs DEF Outcomes
<1>5. Line(env, uart', Serving')
  BY <1>3, <1>4 DEF Line, StrandFree
<1> QED
  BY <1>1, <1>2, <1>4, <1>5

\* The firmware's conclusions from an answer.
Concludes ==
    LET end == Last(fw.got)
    IN  /\ \/ end.k = "sw2"
           \/ end.k = "echo" /\ Len(fw.got) = 1 + fw.cmd.p3
        /\ fw'.sel = IF fw.cmd.ins = "SELECT" /\ end.v = "9F" THEN fw.cmd.file ELSE fw.sel
        /\ fw'.holds = IF Kind[fw.sel] = "dir" \/ end.v # "9000" THEN fw.holds
                       ELSE IF fw.cmd.ins = WriteIns(fw.sel)
                       THEN [fw.holds EXCEPT ![fw.sel] = {fw.cmd.val}]
                       ELSE IF Reads(fw.sel, fw.cmd) /\ Len(fw.got) > 2
                       THEN [fw.holds EXCEPT ![fw.sel] = {fw.got[2].v}]
                       ELSE fw.holds

LEMMA DoneIs ==
    ASSUME Shape, Done
    PROVE  /\ env' = env /\ card' = card /\ uart' = uart /\ Line(env, uart', Serving')
           /\ fw.at = "wait" /\ fw.got # <<>> /\ Concludes
           /\ fw'.at = "idle" /\ fw'.cmd = NoCmd /\ fw'.got = <<>>
<1> DEFINE end == Last(fw.got)
           sel == IF fw.cmd.ins = "SELECT" /\ end.v = "9F" THEN fw.cmd.file ELSE fw.sel
           holds == IF Kind[fw.sel] = "dir" \/ end.v # "9000" THEN fw.holds
                    ELSE IF fw.cmd.ins = WriteIns(fw.sel)
                    THEN [fw.holds EXCEPT ![fw.sel] = {fw.cmd.val}]
                    ELSE IF Reads(fw.sel, fw.cmd) /\ Len(fw.got) > 2
                    THEN [fw.holds EXCEPT ![fw.sel] = {fw.got[2].v}]
                    ELSE fw.holds
<1>1. /\ fw' = [fw EXCEPT !.at = "idle", !.cmd = NoCmd, !.got = <<>>, !.sel = sel, !.holds = holds]
      /\ end.k = "sw2" \/ (end.k = "echo" /\ Len(fw.got) = 1 + fw.cmd.p3)
  BY DEF Done, WriteIns, Reads, ReadsSel
<1>2. /\ env' = env /\ card' = card /\ uart' = uart /\ fw \in FwType(env) /\ InMain
      /\ fw.at = "wait" /\ fw.got # <<>>
  BY DEF Done, Shape
<1> HIDE DEF sel, holds
<1>3. /\ fw'.at = "idle" /\ fw'.cmd = NoCmd /\ fw'.got = <<>> /\ fw'.sel = sel
      /\ fw'.holds = holds /\ fw'.isr = fw.isr
  BY <1>1, <1>2 DEF FwType
<1>4. ~Serving /\ ~Serving' /\ Line(env, uart, FALSE)
  BY <1>2, <1>3, MainIs
<1>5. Line(env, uart', Serving')
  BY <1>2, <1>4 DEF Line, StrandFree
<1>6. Concludes
  BY <1>1, <1>3 DEF Concludes, sel, holds
<1> QED
  BY <1>2, <1>3, <1>5, <1>6

LEMMA ShapeInit == Init => Shape
<1> SUFFICES ASSUME Init PROVE Shape
  OBVIOUS
<1> DEFINE no == FALSE
           nil == <<>>
           none == {}
<1>1. env \in Settings
  BY DEF Init
<1>2. PICK here \in BOOLEAN :
        card = [present |-> here, seen |-> no, sel |-> MF, df |-> MF, gr |-> 0,
                 over |-> [f \in Efs |-> Blank], enabled |-> env.locked, verified |-> no,
                 pin |-> Pin, tries |-> PinMax, puk |-> PukMax]
  BY DEF Init
<1>3. uart = [rx |-> nil, stage |-> nil, int |-> none, fiq6 |-> no, fiq7 |-> no,
               on |-> no, tx |-> nil, asm |-> nil, t0 |-> no, atr |-> no,
               resets |-> 0, used |-> no, wwt |-> no]
  BY DEF Init
<1>4. fw = [at |-> "off", cmd |-> NoCmd, sent |-> 0, got |-> nil, adv |-> no,
             sel |-> MF, holds |-> [f \in Efs |-> {f}], isr |-> "no", lines |-> none]
  BY DEF Init
<1>5. /\ no \in BOOLEAN /\ nil \in Seq(Bytes(env)) /\ nil \in Seq(env.cmds) /\ Len(nil) <= RxSize
      /\ none \in SUBSET {"rx", "tx", "wwt"} /\ nil = <<>> /\ none = {}
      /\ MF \in Files /\ Kind[MF] = "dir"
  <2>1. MF \in Files /\ Kind[MF] = "dir"
    BY SimAssumption
  <2>2. Len(nil) <= RxSize
    BY Sizes
  <2> QED
    BY <2>1, <2>2
<1> HIDE DEF no, nil, none
<1>6. CardOk(card)
  <2>1. env.locked \in BOOLEAN /\ Blank \in Values /\ Pin \in Codes
    BY <1>1, Switches DEF Values, Codes
  <2>2. card \in CardType
    BY <1>2, <1>5, <2>1, Sizes, FittingIs DEF CardType
  <2>3. card.df = MF /\ card.over = [f \in Efs |-> Blank]
    BY <1>2
  <2>4. Overlaid(card) = {}
    BY <2>3 DEF Overlaid
  <2>5. Cardinality(Overlaid(card)) <= Slots
    BY <2>4, FS_EmptySet, Sizes
  <2> QED
    BY <1>5, <2>2, <2>3, <2>5 DEF CardOk
<1>7. fw \in FwType(env)
  <2>1. MF \in Named /\ [f \in Efs |-> {f}] \in [Efs -> SUBSET Values]
    BY <1>5 DEF Named, Efs, Values
  <2> QED
    BY <1>4, <1>5, <2>1 DEF FwType
<1>8. uart \in UartType(env)
  BY <1>3, <1>5, Sizes DEF UartType
<1>9. Line(env, uart, Serving)
  BY <1>3, <1>5, <1>8 DEF Line, Wired, StrandFree
<1>10. fw.at = "off" /\ fw.cmd = NoCmd
  BY <1>4
<1> QED
  BY <1>1, <1>6, <1>7, <1>9, <1>10 DEF Shape, Begun

LEMMA ShapeNext == Shape /\ [Next]_vars => Shape'
<1> SUFFICES ASSUME Shape, [Next]_vars PROVE Shape'
  OBVIOUS
<1>1. CASE UNCHANGED vars
  BY <1>1 DEF vars, Shape, Serving, Begun
<1>2. CASE Next
  <2>1. fw' \in FwType(env)
    BY <1>2, FwTyped
  <2>2. /\ env \in Settings /\ CardOk(card)
        /\ IF Begun THEN fw.cmd \in env.cmds ELSE fw.cmd = NoCmd
        /\ fw.at = "put" => uart.tx # <<>>
    BY DEF Shape
  <2>3. ASSUME env' = env, CardOk(card'), Line(env, uart', Serving'), Carried, Paused
        PROVE  Shape'
    BY <2>1, <2>2, <2>3 DEF Shape, Carried, Paused, Begun
  <2>4. CASE EnterFiq6 \/ Fiq6 \/ Ack6
    BY <2>2, <2>3, <2>4, HandlerIs
  <2>5. CASE SetPresent
    BY <2>3, <2>5, SetPresentIs
  <2>6. CASE GiveUp \/ TakeFiq7
    BY <2>1, <2>2, <2>6, OffIs DEF Shape, Begun
  <2>7. CASE PowerUp
    BY <2>1, <2>2, <2>7, PowerUpIs DEF Shape, Begun
  <2>8. CASE TakeAtr
    BY <2>1, <2>2, <2>8, TakeAtrIs DEF Shape, Begun
  <2>9. ASSUME NEW cmd \in env.cmds, Begin(cmd) PROVE Shape'
    BY <2>1, <2>2, <2>9, BeginIs DEF Shape, Begun
  <2>10. CASE Flush
    BY <2>1, <2>2, <2>10, FlushIs DEF Shape, Begun
  <2>11. CASE More
    BY <2>1, <2>2, <2>11, MoreIs DEF Shape, Begun
  <2>12. CASE Done
    BY <2>1, <2>2, <2>12, DoneIs DEF Shape, Begun
  <2>13. ASSUME NEW paceDue \in BOOLEAN, NEW wwtDue \in BOOLEAN, Tick(paceDue, wwtDue)
         PROVE  Shape'
    <3>1. fw' = fw /\ env' = env
      BY <2>13 DEF Tick
    <3>2. Serving \in BOOLEAN /\ Line(env, uart, Serving) /\ card \in CardType /\ Kind[card.df] = "dir"
      BY DEF Serving, Shape, CardOk
    <3>3. /\ Line(env, uart', Serving) /\ uart'.tx = uart.tx
          /\ card' \in CardType /\ card'.over = card.over /\ Kind[card'.df] = "dir"
      BY <2>2, <2>13, <3>2, TickIs
    <3>4. Line(env, uart', Serving')
      BY <3>1, <3>3 DEF Serving
    <3>5. CardOk(card')
      BY <2>2, <3>3 DEF CardOk, Overlaid
    <3> QED
      BY <2>1, <2>2, <3>1, <3>3, <3>4, <3>5 DEF Shape, Begun
  <2> QED
    BY <1>2, <2>4, <2>5, <2>6, <2>7, <2>8, <2>9, <2>10, <2>11, <2>12, <2>13 DEF Next, Main
<1> QED
  BY <1>1, <1>2

\* No byte the firmware could read is left without a line to announce it, and no
\* line without the interrupt, wherever the handler's two writes fall.
THEOREM NoByteStrandedAlways == Spec => []NoByteStranded
<1>1. Shape => NoByteStranded
  BY DEF Shape, Line, StrandFree, Serving, NoByteStranded
<1> QED
  BY ShapeInit, ShapeNext, <1>1, PTL DEF Spec

-----------------------------------------------------------------------------
(* The second part: what the whole answer is, and what the card remembers. *)

\* The answer of the card as the firmware reads it: a procedure byte if there is
\* data either way, the data, the status words.
Acks(cmd, n) == IF n > 0 \/ (InData(cmd.ins) /\ cmd.p3 > 0) THEN 1 ELSE 0
Joined(m, x, n, d, s1, s2) == (IF m = 1 THEN <<x>> ELSE <<>>) \o Times(n, d) \o <<s1, s2>>
Whole(cmd, n, v, sw) ==
    Joined(Acks(cmd, n), Ack(cmd), n, Byte(cmd, "dat", v), Byte(cmd, "sw1", sw), Byte(cmd, "sw2", sw))

Of(s, cmd) == \A i \in 1 .. Len(s) : s[i] = cmd
Sending(n) == Of(uart.asm, fw.cmd) /\ Of(uart.tx, fw.cmd) /\ Len(uart.asm) + Len(uart.tx) = n
Units      == IF fw.cmd.ins = "PPS" THEN 1 + fw.cmd.p3 ELSE 1 + fw.sent
Counted    == fw.sent \in 0 .. fw.cmd.p3 /\ (InData(fw.cmd.ins) \/ fw.sent = 0)
Partial    == InData(fw.cmd.ins) /\ fw.sent < fw.cmd.p3

\* A synthetic card and the firmware agree on the file selected and what is in files.
Synced     == ~env.bridge => card.sel = fw.sel
Remembered == ~env.bridge => \A f \in Efs : Content(card, f) \in fw.holds[f]
Agree      == Synced /\ Remembered

\* Once the answer is on its way they agree but for what it will tell.
Outcome(n, v, sw) ==
    ~env.bridge =>
      /\ card.sel = IF fw.cmd.ins = "SELECT" /\ sw = "9F" THEN fw.cmd.file ELSE fw.sel
      /\ \A f \in Efs :
           IF f = fw.sel /\ fw.cmd.ins = WriteIns(fw.sel) /\ sw = "9000"
           THEN Content(card, f) = fw.cmd.val
           ELSE Content(card, f) \in fw.holds[f]
      /\ Reads(fw.sel, fw.cmd) /\ n > 0 => v = Content(card, fw.sel)

OffInv == fw.got = <<>> /\ Remembered
AtrInv ==
    /\ uart.asm = <<>> /\ Remembered
    /\ \/ Stream = <<>>
       \/ ~uart.atr /\ Stream = Atr /\ ~uart.t0 /\ (~env.bridge => card.sel = MF)
IdleInv == ~uart.atr /\ uart.asm = <<>> /\ ~uart.t0 /\ Stream = <<>> /\ Agree
PutInv ==
    /\ ~uart.atr /\ Counted /\ Sending(Units) /\ Agree
    /\ IF fw.sent = 0 THEN uart.asm = <<>> /\ ~uart.t0 /\ Stream = <<>>
       ELSE uart.t0 /\ Stream = <<Ack(fw.cmd)>> /\ In(uart) = <<>>
WaitMore ==
    /\ Partial /\ uart.t0 /\ Of(uart.asm, fw.cmd) /\ Len(uart.asm) = 1 + fw.sent
    /\ Stream = <<Ack(fw.cmd)>> /\ Agree
WaitEcho == fw.cmd.ins = "PPS" /\ Stream = Echoes(fw.cmd) /\ Agree
WaitCard ==
    /\ fw.cmd.ins # "PPS"
    /\ \E n \in Lengths(fw.cmd), v, sw \in Values :
          /\ Stream = Whole(fw.cmd, n, v, sw) /\ Outcome(n, v, sw)
          /\ n \in {0} \cup Due(card, fw.cmd)
WaitInv ==
    /\ ~uart.atr /\ Counted
    /\ \/ WaitMore
       \/ ~Partial /\ uart.asm = <<>> /\ ~uart.t0 /\ (WaitEcho \/ WaitCard)

Flow ==
    /\ fw.at = "off"  => OffInv
    /\ fw.at = "atr"  => AtrInv
    /\ fw.at = "idle" => IdleInv
    /\ fw.at = "put"  => PutInv
    /\ fw.at = "wait" => WaitInv

LEMMA EndIs ==
    ASSUME NEW S, NEW q \in Seq(S), NEW s1 \in S, NEW s2 \in S
    PROVE  /\ q \o <<s1, s2>> \in Seq(S) /\ Len(q \o <<s1, s2>>) = Len(q) + 2
           /\ \A i \in 1 .. Len(q) : (q \o <<s1, s2>>)[i] = q[i]
           /\ (q \o <<s1, s2>>)[Len(q) + 1] = s1 /\ (q \o <<s1, s2>>)[Len(q) + 2] = s2
OBVIOUS

\* The bytes of an answer, one by one.
LEMMA JoinedAt ==
    ASSUME NEW m \in Nat, m <= 1, NEW x, NEW n \in Nat, NEW d, NEW s1, NEW s2
    PROVE  /\ Len(Joined(m, x, n, d, s1, s2)) = m + n + 2
           /\ \A i \in 1 .. m + n + 2 :
                Joined(m, x, n, d, s1, s2)[i] =
                    IF i <= m THEN x ELSE IF i <= m + n THEN d
                    ELSE IF i = m + n + 1 THEN s1 ELSE s2
<1> DEFINE S == {x, d, s1, s2}
           A == IF m = 1 THEN <<x>> ELSE <<>>
           T == Times(n, d)
           E == <<s1, s2>>
<1>0. x \in S /\ d \in S /\ s1 \in S /\ s2 \in S
  OBVIOUS
<1> HIDE DEF S
<1>1. A \in Seq(S) /\ Len(A) = m /\ \A i \in 1 .. m : A[i] = x
  BY <1>0
<1>2. T \in Seq(S) /\ Len(T) = n /\ \A i \in 1 .. n : T[i] = d
  BY <1>0, TimesIs
<1>3. E \in Seq(S) /\ Len(E) = 2 /\ E[1] = s1 /\ E[2] = s2
  BY <1>0
<1>4. Joined(m, x, n, d, s1, s2) = (A \o T) \o E
  BY DEF Joined
<1> HIDE DEF A, T, E
<1>5. /\ A \o T \in Seq(S) /\ Len(A \o T) = m + n
      /\ \A i \in 1 .. m + n : (A \o T)[i] = IF i <= m THEN x ELSE d
  BY <1>1, <1>2
<1> DEFINE q == A \o T
           w == q \o E
<1>6. /\ w \in Seq(S) /\ Len(w) = m + n + 2 /\ \A i \in 1 .. m + n : w[i] = q[i]
      /\ w[m + n + 1] = s1 /\ w[m + n + 2] = s2
  <2>1. q \in Seq(S) /\ Len(q) = m + n
    BY <1>5
  <2> HIDE DEF q
  <2>2. /\ w \in Seq(S) /\ Len(w) = Len(q) + 2 /\ \A i \in 1 .. Len(q) : w[i] = q[i]
        /\ w[Len(q) + 1] = s1 /\ w[Len(q) + 2] = s2
    <3>1. E = <<s1, s2>>
      BY DEF E
    <3>2. s1 \in S /\ s2 \in S
      BY <1>0
    <3> HIDE DEF E
    <3> QED
      BY <2>1, <3>1, <3>2, EndIs
  <2> QED
    BY <2>1, <2>2
<1>8. w = Joined(m, x, n, d, s1, s2)
  BY <1>4
<1>9. \A i \in 1 .. m + n : w[i] = IF i <= m THEN x ELSE d
  BY <1>5, <1>6
<1> HIDE DEF q, w
<1>7. ASSUME NEW i \in 1 .. m + n + 2
      PROVE  w[i] = IF i <= m THEN x ELSE IF i <= m + n THEN d
                    ELSE IF i = m + n + 1 THEN s1 ELSE s2
  <2>0. m \in Nat /\ n \in Nat
    OBVIOUS
  <2>1. CASE i \in 1 .. m + n
    BY <1>9, <2>0, <2>1
  <2>2. CASE i = m + n + 1
    BY <1>6, <2>0, <2>2
  <2>3. CASE i = m + n + 2
    <3>1. ~(i <= m) /\ ~(i <= m + n) /\ i # m + n + 1
      BY <2>0, <2>3
    <3> QED
      BY <1>6, <2>3, <3>1
  <2> QED
    BY <2>0, <2>1, <2>2, <2>3
<1> QED
  BY <1>6, <1>7, <1>8 DEF S

\* An answer follows the procedure byte there was, or is the whole of it.
LEMMA WholeIs ==
    ASSUME NEW e \in Settings, NEW cmd \in e.cmds, NEW n \in Lengths(cmd),
           NEW v \in Values, NEW sw \in Values, NEW c
    PROVE  LET framing == Framing(cmd, [card |-> c, n |-> n, v |-> v, sw |-> sw])
           IN  /\ framing \in Seq(Bytes(e))
               /\ IF InData(cmd.ins) /\ cmd.p3 > 0
                  THEN <<Ack(cmd)>> \o framing = Whole(cmd, n, v, sw) /\ Len(framing) = 2
                  ELSE framing = Whole(cmd, n, v, sw)
               /\ Fits(<<>>, framing)
<1> DEFINE a == [card |-> c, n |-> n, v |-> v, sw |-> sw]
           framing == Framing(cmd, a)
           m == IF n > 0 THEN 1 ELSE 0
           dat == Byte(cmd, "dat", v)
           sw1 == Byte(cmd, "sw1", sw)
           sw2 == Byte(cmd, "sw2", sw)
<1>1. a.n = n /\ a.v = v /\ a.sw = sw
  OBVIOUS
<1>2. framing \in Seq(Bytes(e))
  <2> HIDE DEF a
  <2> QED
    BY <1>1, FramingType
<1>3. n \in Nat /\ n + 3 <= RxSize /\ m \in {0, 1}
  BY LengthsAre
<1>4. framing = Joined(m, Ack(cmd), n, dat, sw1, sw2)
  <2>1. framing = (IF n > 0 THEN <<Ack(cmd)>> ELSE <<>>) \o Times(n, dat) \o <<sw1, sw2>>
    BY <1>1 DEF Framing, Ack
  <2>2. (IF n > 0 THEN <<Ack(cmd)>> ELSE <<>>) = (IF m = 1 THEN <<Ack(cmd)>> ELSE <<>>)
    OBVIOUS
  <2> HIDE DEF m, dat, sw1, sw2, framing
  <2> QED
    BY <2>1, <2>2, Zenon DEF Joined
<1>5. Ack(cmd) \in Bytes(e) /\ dat \in Bytes(e) /\ sw1 \in Bytes(e) /\ sw2 \in Bytes(e)
  BY DEF Ack, Byte, Bytes, Kinds, Values
<1> HIDE DEF a, framing, dat, sw1, sw2
<1>6. Len(framing) = m + n + 2
  <2> DEFINE x == Ack(cmd)
             j == Joined(m, x, n, dat, sw1, sw2)
  <2>1. m \in Nat /\ m <= 1
    BY <1>3
  <2>2. n \in Nat
    BY <1>3
  <2>3. framing = j
    BY <1>4
  <2> HIDE DEF m, x
  <2>4. Len(j) = m + n + 2
    BY ONLY <2>1, <2>2, JoinedAt
  <2> HIDE DEF j
  <2> QED
    BY <2>3, <2>4
<1>7. Fits(<<>>, framing)
  <2>1. m + n + 2 <= RxSize
    BY <1>3, Sizes
  <2> HIDE DEF m
  <2> QED
    BY <1>6, <2>1 DEF Fits
<1>8. CASE InData(cmd.ins) /\ cmd.p3 > 0
  <2>1. n = 0 /\ m = 0 /\ Acks(cmd, n) = 1
    BY <1>8 DEF Lengths, Acks
  <2>2. Times(n, dat) = <<>>
    BY <2>1, <1>5, TimesIs
  <2>3. framing = (<<>> \o <<>>) \o <<sw1, sw2>>
    <3>1. framing = (IF m = 1 THEN <<Ack(cmd)>> ELSE <<>>) \o Times(n, dat) \o <<sw1, sw2>>
      BY <1>4 DEF Joined
    <3>2. (IF m = 1 THEN <<Ack(cmd)>> ELSE <<>>) = <<>>
      BY <2>1
    <3> QED
      BY <2>2, <3>1, <3>2, Zenon
  <2>4. framing = <<sw1, sw2>>
    BY <2>3
  <2>5. Whole(cmd, n, v, sw) = (<<Ack(cmd)>> \o <<>>) \o <<sw1, sw2>>
    BY <2>1, <2>2 DEF Whole, Joined, dat, sw1, sw2
  <2>6. <<Ack(cmd)>> \o <<>> = <<Ack(cmd)>>
    BY <1>5
  <2> QED
    BY <1>2, <1>7, <1>8, <2>4, <2>5, <2>6 DEF framing, a
<1>9. CASE ~(InData(cmd.ins) /\ cmd.p3 > 0)
  <2>1. Acks(cmd, n) = m
    BY <1>9 DEF Acks
  <2>2. framing = Whole(cmd, n, v, sw)
    BY <1>4, <2>1 DEF Whole, dat, sw1, sw2
  <2> QED
    BY <1>2, <1>7, <1>9, <2>2 DEF framing, a
<1> QED
  BY <1>8, <1>9

\* Sequences joined.
LEMMA ConcatNil ==
    ASSUME NEW S, NEW g \in Seq(S), NEW t \in Seq(S)
    PROVE  /\ g \o t = <<>> => g = <<>> /\ t = <<>>
           /\ Len(g) = Len(g \o t) => t = <<>> /\ g \o t = g
           /\ \A i \in 1 .. Len(g) : (g \o t)[i] = g[i]
           /\ Len(g) <= Len(g \o t)
<1>1. Len(g \o t) = Len(g) + Len(t) /\ Len(g) \in Nat /\ Len(t) \in Nat
  OBVIOUS
<1>2. ASSUME g \o t = <<>> PROVE g = <<>> /\ t = <<>>
  <2>1. Len(g \o t) = 0
    BY <1>2
  <2>2. Len(g) = 0 /\ Len(t) = 0
    BY <1>1, <2>1
  <2> QED
    BY <2>2
<1>3. ASSUME Len(g) = Len(g \o t) PROVE t = <<>> /\ g \o t = g
  <2>1. Len(t) = 0
    BY <1>1, <1>3
  <2>2. t = <<>>
    BY <2>1
  <2>3. g \o <<>> = g
    OBVIOUS
  <2> QED
    BY <2>2, <2>3
<1>4. \A i \in 1 .. Len(g) : (g \o t)[i] = g[i]
  OBVIOUS
<1> QED
  BY <1>1, <1>2, <1>3, <1>4

\* The parts of the stream.
LEMMA StreamIs ==
    ASSUME Shape
    PROVE  /\ fw.got \in Seq(Bytes(env)) /\ In(uart) \in Seq(Bytes(env))
           /\ Stream = <<>> => fw.got = <<>> /\ In(uart) = <<>>
           /\ Len(fw.got) = Len(Stream) => In(uart) = <<>> /\ Stream = fw.got
           /\ \A i \in 1 .. Len(fw.got) : Stream[i] = fw.got[i]
           /\ Len(fw.got) <= Len(Stream)
<1>1. fw.got \in Seq(Bytes(env)) /\ In(uart) \in Seq(Bytes(env))
  BY DEF Shape, FwType, Line, UartType, In
<1> QED
  BY <1>1, ConcatNil, SMTT(30) DEF Stream

\* What the line or the handler does leaves the second part.
LEMMA FlowKept ==
    ASSUME Shape, Flow, Carried, Paused, env' = env
    PROVE  Flow'
<1>1. Remembered' = Remembered /\ Synced' = Synced /\ Agree' = Agree
  <2>1. \A f : Content(card', f) = Content(card, f)
    BY DEF Content, Paused
  <2> QED
    BY <2>1 DEF Remembered, Synced, Agree, Paused
<1>2. \A n, v, sw : Outcome(n, v, sw)' = Outcome(n, v, sw)
  <2>1. \A f : Content(card', f) = Content(card, f)
    BY DEF Content, Paused
  <2> QED
    BY <2>1 DEF Outcome, Paused
<1>3. Counted' = Counted /\ Partial' = Partial /\ Units' = Units
  BY DEF Counted, Partial, Units, Paused
<1>4. uart'.asm = uart.asm /\ uart'.tx = uart.tx /\ uart'.t0 = uart.t0 /\ (uart'.atr => uart.atr)
  BY DEF Carried
<1>5. fw.at # "off" => Stream' = Stream
  BY DEF Carried
<1>6. fw.at = "off" => fw'.got = fw.got
  BY DEF Carried
<1>7. In(uart) = <<>> => In(uart') = <<>>
  BY DEF Carried
<1>8. fw'.at = fw.at /\ fw'.cmd = fw.cmd /\ fw'.sent = fw.sent /\ card'.sel = card.sel
  BY DEF Paused
<1>9. fw.at = "off" => OffInv'
  BY <1>1, <1>6 DEF Flow, OffInv
<1>10. fw.at = "atr" => AtrInv'
  BY <1>1, <1>4, <1>5, <1>8 DEF Flow, AtrInv
<1>11. fw.at = "idle" => IdleInv'
  BY <1>1, <1>4, <1>5 DEF Flow, IdleInv
<1>12. fw.at = "put" => PutInv'
  <2>1. \A n : Sending(n)' = Sending(n)
    BY <1>4, <1>8 DEF Sending, Of
  <2> HIDE DEF Sending
  <2> QED
    BY <1>1, <1>3, <1>4, <1>5, <1>7, <1>8, <2>1 DEF Flow, PutInv
<1>13. fw.at = "wait" => WaitInv'
  <2> SUFFICES ASSUME fw.at = "wait" PROVE WaitInv'
    OBVIOUS
  <2>1. WaitMore' = WaitMore
    BY <1>1, <1>3, <1>4, <1>5, <1>8 DEF WaitMore, Of
  <2>2. WaitEcho' = WaitEcho
    BY <1>1, <1>5, <1>8 DEF WaitEcho
  <2>3. WaitCard' = WaitCard
    <3>1. Due(card, fw.cmd)' = Due(card, fw.cmd)
      BY <1>8 DEF Due, Owes, RecordOf, Paused
    <3> QED
      BY <1>2, <1>5, <1>8, <3>1 DEF WaitCard
  <2> QED
    BY <1>3, <1>4, <2>1, <2>2, <2>3 DEF Flow, WaitInv
<1> QED
  BY <1>8, <1>9, <1>10, <1>11, <1>12, <1>13 DEF Flow

\* TimesIs, whatever the element.
LEMMA TimesAll ==
    ASSUME NEW n \in Nat, NEW b
    PROVE  Len(Times(n, b)) = n /\ \A i \in 1 .. n : Times(n, b)[i] = b
<1>1. b \in {b}
  OBVIOUS
<1> QED
  BY <1>1, TimesIs

LEMMA FlowTick ==
    ASSUME Shape, Flow, NEW paceDue \in BOOLEAN, NEW wwtDue \in BOOLEAN, Tick(paceDue, wwtDue)
    PROVE  Flow'
<1>1. fw' = fw /\ env' = env
  BY DEF Tick
<1>2. /\ uart'.tx = uart.tx /\ ~uart'.atr /\ card'.over = card.over
      /\ Steady \/ Reset
  <2>1. /\ Serving \in BOOLEAN /\ Line(env, uart, Serving) /\ card \in CardType
        /\ Kind[card.df] = "dir" /\ env \in Settings
    BY DEF Serving, Shape, CardOk
  <2> QED
    BY <2>1, TickIs
<1>3. CASE Steady
  <2>1. Carried /\ Paused
    BY <1>1, <1>2, <1>3 DEF Steady, Carried, Paused, Stream
  <2> QED
    BY <1>1, <2>1, FlowKept
<1>4. CASE Reset
  <2>1. uart.atr /\ uart'.asm = <<>> /\ ~uart'.t0 /\ card'.sel = MF
    BY <1>4 DEF Reset
  <2>2. Remembered' = Remembered
    <3>1. \A f : Content(card', f) = Content(card, f)
      BY <1>2 DEF Content
    <3> QED
      BY <1>1, <3>1 DEF Remembered
  <2>3. fw.at \in {"off", "atr"}
    <3>1. fw.at \in {"off", "atr", "idle", "put", "wait"}
      BY DEF Shape, FwType
    <3>2. fw.at = "idle" => ~uart.atr
      BY DEF Flow, IdleInv
    <3>3. fw.at = "put" => ~uart.atr
      BY DEF Flow, PutInv
    <3>4. fw.at = "wait" => ~uart.atr
      BY DEF Flow, WaitInv
    <3> QED
      BY <2>1, <3>1, <3>2, <3>3, <3>4
  <2>4. CASE fw.at = "off"
    <3>1. OffInv'
      BY <1>1, <2>2, <2>4 DEF Flow, OffInv
    <3> QED
      BY <1>1, <2>4, <3>1 DEF Flow
  <2>5. CASE fw.at = "atr"
    <3>1. Remembered /\ Stream = <<>>
      BY <2>1, <2>5 DEF Flow, AtrInv
    <3>2. fw.got = <<>> /\ In(uart) = <<>>
      BY <3>1, StreamIs
    <3>3. In(uart') = Atr
      BY <1>4, <3>2 DEF Reset
    <3>4. Stream' = <<>> \o Atr
      BY <1>1, <3>2, <3>3 DEF Stream
    <3>5. <<>> \o Atr = Atr
      BY AtrIs
    <3>6. AtrInv'
      BY <1>1, <1>2, <2>1, <2>2, <3>1, <3>4, <3>5 DEF AtrInv
    <3> QED
      BY <1>1, <2>5, <3>6 DEF Flow
  <2> QED
    BY <2>3, <2>4, <2>5
<1> QED
  BY <1>2, <1>3, <1>4

LEMMA FlowPowerUp ==
    ASSUME Shape, Flow, PowerUp
    PROVE  Flow'
<1>1. /\ env' = env /\ card' = card /\ In(uart') = <<>> /\ uart'.asm = <<>>
      /\ fw.at = "off" /\ fw'.at = "atr" /\ fw'.got = fw.got /\ fw'.holds = fw.holds
  BY PowerUpIs
<1>2. fw.got = <<>> /\ Remembered
  BY <1>1 DEF Flow, OffInv
<1>3. Remembered'
  BY <1>1, <1>2 DEF Remembered, Content
<1>4. Stream' = <<>>
  <2>1. Stream' = <<>> \o <<>>
    BY <1>1, <1>2 DEF Stream
  <2> QED
    BY <2>1
<1>5. AtrInv'
  BY <1>1, <1>3, <1>4 DEF AtrInv
<1> QED
  BY <1>1, <1>5 DEF Flow

LEMMA FlowTakeAtr ==
    ASSUME Shape, Flow, TakeAtr
    PROVE  Flow'
<1>1. /\ env' = env /\ card' = card /\ uart' = uart /\ fw.at = "atr" /\ Len(fw.got) = AtrLen
      /\ fw'.at = "idle" /\ fw'.got = <<>> /\ fw'.sel = MF /\ fw'.holds = fw.holds
  BY TakeAtrIs
<1>2. AtrInv
  BY <1>1 DEF Flow
<1>3. Stream # <<>>
  <2>1. Stream = <<>> => fw.got = <<>>
    BY StreamIs
  <2> QED
    BY <1>1, <2>1, Sizes
<1>4. ~uart.atr /\ Stream = Atr /\ ~uart.t0 /\ (~env.bridge => card.sel = MF)
  BY <1>2, <1>3 DEF AtrInv
<1>5. In(uart) = <<>>
  <2>1. Len(Stream) = Len(fw.got)
    BY <1>1, <1>4, AtrIs
  <2> QED
    BY <2>1, StreamIs
<1>6. Stream' = <<>>
  <2>1. Stream' = <<>> \o <<>>
    BY <1>1, <1>5 DEF Stream
  <2> QED
    BY <2>1
<1>7. Agree'
  BY <1>1, <1>2, <1>4 DEF AtrInv, Agree, Synced, Remembered, Content
<1>8. IdleInv'
  BY <1>1, <1>2, <1>4, <1>6, <1>7 DEF AtrInv, IdleInv
<1> QED
  BY <1>1, <1>8 DEF Flow

\* A chunk of one command.
LEMMA TimesOf ==
    ASSUME NEW n \in Nat, NEW cmd
    PROVE  Of(Times(n, cmd), cmd) /\ Len(Times(n, cmd)) = n
BY TimesAll DEF Of

LEMMA FlowBegin ==
    ASSUME Shape, Flow, NEW cmd \in env.cmds, Begin(cmd)
    PROVE  Flow'
<1> DEFINE n == IF cmd.ins = "PPS" THEN 1 + cmd.p3 ELSE 1
<1>1. /\ env' = env /\ card' = card /\ In(uart') = In(uart) /\ uart'.tx = Times(n, cmd)
      /\ uart'.asm = uart.asm /\ uart'.t0 = uart.t0 /\ uart'.atr = uart.atr
      /\ fw.at = "idle" /\ fw'.at = "put" /\ fw'.cmd = cmd /\ fw'.sent = 0
      /\ fw'.got = fw.got /\ fw'.sel = fw.sel /\ fw'.holds = fw.holds
  BY BeginIs
<1>2. IdleInv
  BY <1>1 DEF Flow
<1>3. cmd.p3 \in Nat
  <2>1. env \in Settings
    BY DEF Shape
  <2> QED
    BY ONLY <2>1, cmd \in env.cmds, CmdFacts
<1>4. n \in Nat /\ Units' = n
  BY <1>1, <1>3 DEF Units
<1> HIDE DEF n
<1>5. Of(uart'.tx, cmd) /\ Len(uart'.tx) = n
  BY <1>1, <1>4, TimesOf
<1>6. Sending(Units)'
  BY <1>1, <1>2, <1>4, <1>5 DEF Sending, IdleInv, Of
<1>7. Counted'
  BY <1>1, <1>3 DEF Counted
<1>8. Agree'
  BY <1>1, <1>2 DEF IdleInv, Agree, Synced, Remembered, Content
<1>9. Stream' = <<>>
  BY <1>1, <1>2 DEF IdleInv, Stream
<1>10. PutInv'
  BY <1>1, <1>2, <1>6, <1>7, <1>8, <1>9 DEF PutInv, IdleInv
<1> QED
  BY <1>1, <1>10 DEF Flow

\* A write that is cut off may have happened or not.
LEMMA UnsureIs ==
    ASSUME Shape
    PROVE  /\ \A f \in Efs : fw.holds[f] \subseteq Unsure[f]
           /\ /\ fw.sel \in Efs /\ fw.cmd.ins = WriteIns(fw.sel)
              /\ fw.at = "wait" /\ fw.sent = fw.cmd.p3
              => fw.cmd.val \in Unsure[fw.sel]
<1> DEFINE cut == /\ fw.sel \in Efs
                  /\ fw.cmd.ins = (IF Kind[fw.sel] = "rec" THEN "UPDATE RECORD" ELSE "UPDATE BINARY")
                  /\ fw.at = "wait" /\ fw.sent = fw.cmd.p3
           holds == fw.holds
           s == fw.sel
           val == fw.cmd.val
<1>1. holds \in [Efs -> SUBSET Values]
  BY CmdKnown DEF FwType
<1>2. Unsure = IF cut THEN [holds EXCEPT ![s] = @ \cup {val}] ELSE holds
  BY DEF Unsure
<1>3. (/\ fw.sel \in Efs /\ fw.cmd.ins = WriteIns(fw.sel)
       /\ fw.at = "wait" /\ fw.sent = fw.cmd.p3) => cut /\ s \in Efs
  BY DEF WriteIns
<1>4. cut \in BOOLEAN
  OBVIOUS
<1>5. val = fw.cmd.val /\ s = fw.sel /\ holds = fw.holds
  OBVIOUS
<1> HIDE DEF cut, holds, s, val
<1>6. \A f \in Efs : holds[f] \subseteq Unsure[f]
  BY <1>1, <1>2
<1>7. cut /\ s \in Efs => val \in Unsure[s]
  BY <1>1, <1>2
<1> QED
  BY <1>3, <1>5, <1>6, <1>7

LEMMA FlowOff ==
    ASSUME Shape, Flow, GiveUp \/ TakeFiq7
    PROVE  Flow'
<1>1. /\ env' = env /\ card' = card /\ fw'.at = "off" /\ fw'.got = <<>> /\ fw'.holds = Unsure
  BY OffIs
<1>2. ASSUME Remembered PROVE Remembered'
  BY <1>1, <1>2, UnsureIs DEF Remembered, Content
<1>3. fw.at \in {"off", "atr", "idle", "put", "wait"}
  BY DEF Shape, FwType
<1>4. fw.at # "wait" => Remembered
  BY <1>3 DEF Flow, OffInv, AtrInv, IdleInv, PutInv, Agree
<1>5. ASSUME fw.at = "wait" PROVE Remembered'
  <2>1. Counted /\ (WaitMore \/ (~Partial /\ (WaitEcho \/ WaitCard)))
    BY <1>5 DEF Flow, WaitInv
  <2>2. CASE WaitMore \/ WaitEcho
    BY <1>2, <2>2 DEF WaitMore, WaitEcho, Agree
  <2>3. CASE ~Partial /\ WaitCard
    <3>1. PICK n \in Lengths(fw.cmd), v \in Values, sw \in Values : Outcome(n, v, sw)
      BY <2>3 DEF WaitCard
    <3>2. ASSUME ~env.bridge, NEW f \in Efs PROVE Content(card, f) \in Unsure[f]
      <4>1. CASE f = fw.sel /\ fw.cmd.ins = WriteIns(fw.sel) /\ sw = "9000"
        <5>1. Content(card, f) = fw.cmd.val
          BY <3>1, <3>2, <4>1 DEF Outcome
        <5>2. fw.sent = fw.cmd.p3
          <6>1. InData(fw.cmd.ins)
            BY <4>1 DEF WriteIns, InData
          <6>2. fw.cmd.p3 \in Nat
            <7>1. env \in Settings /\ fw.cmd \in env.cmds
              BY <1>5 DEF Shape, Begun
            <7> QED
              BY <7>1, CmdFacts
          <6>3. fw.sent \in 0 .. fw.cmd.p3 /\ ~(fw.sent < fw.cmd.p3)
            BY <2>1, <2>3, <6>1 DEF Counted, Partial
          <6> QED
            BY <6>2, <6>3
        <5> QED
          BY <1>5, <4>1, <5>1, <5>2, UnsureIs
      <4>2. CASE ~(f = fw.sel /\ fw.cmd.ins = WriteIns(fw.sel) /\ sw = "9000")
        <5>1. Content(card, f) \in fw.holds[f]
          BY <3>1, <3>2, <4>2 DEF Outcome
        <5> QED
          BY <5>1, UnsureIs
      <4> QED
        BY <4>1, <4>2
    <3>3. \A f : Content(card, f)' = Content(card, f)
      BY <1>1 DEF Content
    <3> QED
      BY <1>1, <3>2, <3>3 DEF Remembered
  <2> QED
    BY <2>1, <2>2, <2>3
<1>6. Remembered'
  BY <1>2, <1>4, <1>5
<1> QED
  BY <1>1, <1>6 DEF Flow, OffInv

LEMMA FlowMore ==
    ASSUME Shape, Flow, More
    PROVE  Flow'
<1>1. /\ env' = env /\ card' = card /\ In(uart') = In(uart)
      /\ uart'.asm = uart.asm /\ uart'.t0 = uart.t0 /\ uart'.atr = uart.atr
      /\ fw.at = "wait" /\ InData(fw.cmd.ins) /\ fw.sent < fw.cmd.p3 /\ Len(fw.got) = 1
      /\ fw'.at = "put" /\ fw'.cmd = fw.cmd /\ fw'.got = fw.got /\ fw'.sel = fw.sel
      /\ fw'.holds = fw.holds
  BY MoreIs
<1>2. PICK n \in Nat \ {0} : /\ uart'.tx = Times(n, fw.cmd) /\ fw'.sent = fw.sent + n
                              /\ fw.sent + n <= fw.cmd.p3
  BY MoreIs
<1>3. ~uart.atr /\ Counted /\ WaitMore
  BY <1>1 DEF Flow, WaitInv, Partial
<1>4. fw.cmd.p3 \in Nat /\ fw.sent \in Nat
  <2>1. env \in Settings /\ fw.cmd \in env.cmds /\ fw.sent \in Nat
    BY <1>1 DEF Shape, Begun, FwType
  <2> QED
    BY <2>1, CmdFacts
<1>5. In(uart) = <<>>
  <2>1. Stream = <<Ack(fw.cmd)>>
    BY <1>3 DEF WaitMore
  <2>2. Len(Stream) = 1
    BY <2>1
  <2>3. Len(fw.got) = Len(Stream)
    BY <1>1, <2>2
  <2> QED
    BY <2>3, StreamIs
<1>6. Of(uart'.tx, fw.cmd) /\ Len(uart'.tx) = n
  BY <1>2, TimesOf
<1>7. Sending(Units)'
  <2>1. fw.cmd.ins # "PPS"
    BY <1>1 DEF InData
  <2>2. Units' = 1 + fw.sent + n
    BY <1>1, <1>2, <1>4, <2>1 DEF Units
  <2>3. Of(uart.asm, fw.cmd) /\ Len(uart.asm) = 1 + fw.sent
    BY <1>3 DEF WaitMore
  <2>4. Len(uart'.asm) + Len(uart'.tx) = Units'
    BY <1>1, <1>4, <1>6, <2>2, <2>3
  <2> QED
    BY <1>1, <1>6, <2>3, <2>4 DEF Sending, Of
<1>8. Counted' /\ fw'.sent # 0
  BY <1>1, <1>2, <1>4 DEF Counted
<1>9. Agree'
  BY <1>1, <1>3 DEF WaitMore, Agree, Synced, Remembered, Content
<1>10. Stream' = <<Ack(fw.cmd)>>
  BY <1>1, <1>3 DEF WaitMore, Stream
<1>11. PutInv'
  BY <1>1, <1>3, <1>5, <1>7, <1>8, <1>9, <1>10 DEF PutInv, WaitMore
<1> QED
  BY <1>1, <1>11 DEF Flow

\* What is handed to the card is of the command, and as long as it is told to be.
LEMMA GivenIs ==
    ASSUME Shape, fw.at = "put", Sending(Units)
    PROVE  /\ First = fw.cmd /\ Of(Given, fw.cmd) /\ Len(Given) = Units
<1> DEFINE a == uart.asm
           b == uart.tx
           cmd == fw.cmd
<1>1. a \in Seq(env.cmds) /\ b \in Seq(env.cmds) /\ b # <<>>
  BY DEF Shape, Line, UartType
<1>2. Of(a, cmd) /\ Of(b, cmd) /\ Len(a) + Len(b) = Units
  BY DEF Sending
<1>3. Given = a \o b
  BY DEF Given
<1> HIDE DEF a, b, cmd
<1>4. /\ Len(a \o b) = Len(a) + Len(b) /\ Len(a) \in Nat /\ Len(b) \in Nat /\ Len(b) # 0
  BY <1>1
<1>5. ASSUME NEW i \in 1 .. Len(a \o b) PROVE (a \o b)[i] = cmd
  <2>1. CASE i <= Len(a)
    BY <1>1, <1>2, <1>4, <2>1 DEF Of
  <2>2. CASE i > Len(a)
    <3>1. (a \o b)[i] = b[i - Len(a)] /\ i - Len(a) \in 1 .. Len(b)
      BY <1>1, <1>4, <2>2
    <3> QED
      BY <1>2, <3>1 DEF Of
  <2> QED
    BY <1>4, <2>1, <2>2
<1>6. Head(a \o b) = (a \o b)[1] /\ 1 \in 1 .. Len(a \o b)
  BY <1>1, <1>4
<1>7. Head(a \o b) = cmd
  BY <1>5, <1>6
<1> QED
  BY <1>2, <1>3, <1>4, <1>5, <1>7 DEF First, Of, cmd

\* The sequences that follow nothing.
LEMMA AfterNil == \A S : \A s \in Seq(S) : <<>> \o s = s /\ s \o <<>> = s
OBVIOUS

LEMMA FlowFlush ==
    ASSUME Shape, Flow, Flush
    PROVE  Flow'
<1>1. /\ env' = env /\ uart'.atr = uart.atr /\ Outcomes
      /\ fw.at = "put" /\ fw'.at = "wait" /\ fw'.cmd = fw.cmd /\ fw'.sent = fw.sent
      /\ fw'.got = fw.got /\ fw'.sel = fw.sel /\ fw'.holds = fw.holds
  BY FlushIs
<1>2. PutInv
  BY <1>1 DEF Flow
<1>3. ~uart.atr /\ Counted /\ Agree
  BY <1>2 DEF PutInv
<1>4. First = fw.cmd /\ Of(Given, fw.cmd) /\ Len(Given) = Units
  <2>1. Sending(Units)
    BY <1>2 DEF PutInv
  <2> QED
    BY <1>1, <2>1, GivenIs
<1>5. env \in Settings /\ fw.cmd \in env.cmds
  BY <1>1 DEF Shape, Begun
<1>6. fw.cmd.p3 \in Nat /\ fw.cmd.p3 + 3 <= RxSize /\ RxSize \in Nat
  BY <1>5, CmdFacts, Sizes
<1>7. fw.sent \in 0 .. fw.cmd.p3 /\ (InData(fw.cmd.ins) \/ fw.sent = 0)
  BY <1>3 DEF Counted
<1>8. IF fw.sent = 0 THEN ~uart.t0 /\ fw.got = <<>> /\ In(uart) = <<>>
      ELSE uart.t0 /\ fw.got = <<Ack(fw.cmd)>> /\ In(uart) = <<>>
  <2>1. CASE fw.sent = 0
    BY <1>2, <2>1, StreamIs DEF PutInv
  <2>2. CASE fw.sent # 0
    <3>1. uart.t0 /\ Stream = <<Ack(fw.cmd)>> /\ In(uart) = <<>>
      BY <1>2, <2>2 DEF PutInv
    <3>2. Stream = fw.got \o <<>>
      BY <3>1 DEF Stream
    <3>3. fw.got \o <<>> = fw.got
      BY StreamIs, AfterNil
    <3> QED
      BY <2>2, <3>1, <3>2, <3>3
  <2> QED
    BY <2>1, <2>2
<1>9. Counted' /\ Partial' = Partial
  BY <1>1, <1>3 DEF Counted, Partial
<1>10. ASSUME card' = card PROVE Agree'
  BY <1>1, <1>3, <1>10 DEF Agree, Synced, Remembered, Content
<1>11. Ack(fw.cmd) \in Bytes(env) /\ Byte(fw.cmd, "echo", Blank) \in Bytes(env)
  BY <1>5 DEF Ack, Byte, Bytes, Kinds, Values
<1>12. CASE Echoed
  <2>1. fw.cmd.ins = "PPS" /\ ~InData(fw.cmd.ins) /\ fw.sent = 0
    BY <1>4, <1>7, <1>12 DEF Echoed, InData
  <2>2. Echoes(fw.cmd) \in Seq(Bytes(env)) /\ Len(Echoes(fw.cmd)) = 1 + fw.cmd.p3
    <3>1. 1 + fw.cmd.p3 \in Nat
      BY <1>6
    <3> QED
      BY <1>11, <3>1, TimesIs DEF Echoes
  <2>3. Fits(In(uart), Echoes(fw.cmd))
    <3>1. Len(In(uart)) = 0
      BY <1>8, <2>1
    <3> QED
      BY <1>6, <2>2, <3>1 DEF Fits
  <2>4. In(uart') = In(uart) \o Echoes(fw.cmd)
    BY <1>4, <1>12, <2>3 DEF Echoed
  <2>5. Stream' = <<>> \o (<<>> \o Echoes(fw.cmd))
    BY <1>1, <1>8, <2>1, <2>4 DEF Stream
  <2>6. Stream' = Echoes(fw.cmd)
    BY <2>2, <2>5, AfterNil
  <2>7. WaitEcho' /\ ~Partial' /\ uart'.asm = <<>> /\ ~uart'.t0
    <3>1. Echoes(fw.cmd)' = Echoes(fw.cmd)
      BY <1>1 DEF Echoes
    <3> QED
      BY <1>1, <1>8, <1>9, <1>10, <1>12, <2>1, <2>6, <3>1 DEF Echoed, WaitEcho, Partial
  <2>8. WaitInv'
    BY <1>1, <1>3, <1>9, <2>7 DEF WaitInv
  <2> QED
    BY <1>1, <2>8 DEF Flow
<1>13. CASE Gathered
  <2>1. Len(Given) = 1 + fw.cmd.p3
    BY <1>4, <1>13 DEF Gathered, Units
  <2> QED
    BY <1>4, <1>6, <1>13, <2>1 DEF Gathered
<1>14. CASE Asked
  <2>1. InData(fw.cmd.ins) /\ fw.cmd.ins # "PPS" /\ ~(Len(Given) >= 1 + fw.cmd.p3)
    BY <1>4, <1>14 DEF Asked
  <2>2. Len(Given) = 1 + fw.sent /\ fw.sent < fw.cmd.p3
    BY <1>4, <1>6, <1>7, <2>1 DEF Units
  <2>3. In(uart') = IF fw.sent = 0 THEN <<Ack(fw.cmd)>> ELSE <<>>
    <3>1. CASE fw.sent = 0
      <4>1. Len(In(uart)) = 0 /\ Len(<<Ack(fw.cmd)>>) = 1
        BY <1>8, <3>1
      <4>2. Fits(In(uart), <<Ack(fw.cmd)>>)
        BY <1>6, <4>1 DEF Fits
      <4>3. In(uart') = <<>> \o <<Ack(fw.cmd)>>
        BY <1>4, <1>8, <1>14, <3>1, <4>2 DEF Asked
      <4> QED
        BY <3>1, <4>3
    <3>2. CASE fw.sent # 0
      BY <1>8, <1>14, <3>2 DEF Asked
    <3> QED
      BY <3>1, <3>2
  <2>4. Stream' = <<Ack(fw.cmd)>>
    <3>1. CASE fw.sent = 0
      <4>1. Stream' = <<>> \o <<Ack(fw.cmd)>>
        BY <1>1, <1>8, <2>3, <3>1 DEF Stream
      <4> QED
        BY <4>1
    <3>2. CASE fw.sent # 0
      <4>1. Stream' = <<Ack(fw.cmd)>> \o <<>>
        BY <1>1, <1>8, <2>3, <3>2 DEF Stream
      <4> QED
        BY <4>1
    <3> QED
      BY <3>1, <3>2
  <2>5. Partial' /\ uart'.t0 /\ uart'.asm = Given /\ Agree'
    BY <1>1, <1>9, <1>10, <1>14, <2>1, <2>2 DEF Asked, Partial
  <2>6. WaitMore'
    BY <1>1, <1>4, <2>2, <2>4, <2>5 DEF WaitMore, Of, Ack
  <2>7. WaitInv'
    BY <1>1, <1>3, <1>9, <2>6 DEF WaitInv
  <2> QED
    BY <1>1, <2>7 DEF Flow
<1>15. ASSUME First.ins # "PPS", ~(InData(First.ins) /\ ~(Len(Given) >= 1 + First.p3)),
              uart'.asm = <<>>, ~uart'.t0,
              NEW n \in Lengths(First), NEW v \in Values, NEW sw \in Values, Answered(n, v, sw)
       PROVE  Flow'
  <2> DEFINE a == [card |-> card', n |-> n, v |-> v, sw |-> sw]
             framing == Framing(fw.cmd, a)
  <2>1. fw.cmd.ins # "PPS" /\ ~(InData(fw.cmd.ins) /\ ~(Len(Given) >= 1 + fw.cmd.p3))
        /\ n \in Lengths(fw.cmd)
    BY <1>4, <1>15
  <2>2. ~Partial
    BY <1>4, <1>6, <1>7, <2>1 DEF Units, Partial
  <2>3. /\ framing \in Seq(Bytes(env)) /\ Fits(<<>>, framing)
        /\ IF InData(fw.cmd.ins) /\ fw.cmd.p3 > 0
           THEN <<Ack(fw.cmd)>> \o framing = Whole(fw.cmd, n, v, sw)
           ELSE framing = Whole(fw.cmd, n, v, sw)
    BY <1>5, <2>1, WholeIs
  <2>4. /\ Fits(In(uart), framing) => In(uart') = In(uart) \o framing
        /\ n \in {0} \cup Due(card', fw.cmd)
        /\ ~env.bridge => Honest(card, fw.cmd, a)
    BY <1>4, <1>15 DEF Answered
  <2>5. a.card = card' /\ a.n = n /\ a.v = v /\ a.sw = sw
    OBVIOUS
  <2> HIDE DEF a, framing
  <2>6. In(uart') = framing
    <3>1. In(uart) = <<>>
      BY <1>8
    <3>2. In(uart') = <<>> \o framing
      BY <2>3, <2>4, <3>1
    <3> QED
      BY <2>3, <3>2, AfterNil
  <2>7. Stream' = Whole(fw.cmd, n, v, sw)
    <3>1. Stream' = fw.got \o framing
      BY <1>1, <2>6 DEF Stream
    <3>2. CASE fw.sent = 0
      <4>1. ~(InData(fw.cmd.ins) /\ fw.cmd.p3 > 0)
        BY <1>6, <2>2, <3>2 DEF Partial
      <4>2. framing = Whole(fw.cmd, n, v, sw)
        BY <2>3, <4>1
      <4>3. Stream' = <<>> \o framing
        BY <1>8, <3>1, <3>2
      <4>4. <<>> \o framing = framing
        BY <2>3, AfterNil
      <4> QED
        BY <4>2, <4>3, <4>4
    <3>3. CASE fw.sent # 0
      <4>1. InData(fw.cmd.ins) /\ fw.cmd.p3 > 0
        BY <1>6, <1>7, <3>3
      <4>2. fw.got = <<Ack(fw.cmd)>>
        BY <1>8, <3>3
      <4> QED
        BY <2>3, <3>1, <4>1, <4>2
    <3> QED
      BY <3>2, <3>3
  <2>8. Outcome(n, v, sw)'
    <3> SUFFICES ASSUME ~env.bridge PROVE Outcome(n, v, sw)'
      BY <1>1 DEF Outcome
    <3>1. Honest(card, fw.cmd, a)
      BY <2>4
    <3>2. card.sel = fw.sel /\ \A f \in Efs : Content(card, f) \in fw.holds[f]
      BY <1>3 DEF Agree, Synced, Remembered
    <3>3. card'.sel = IF fw.cmd.ins = "SELECT" /\ sw = "9F" THEN fw.cmd.file ELSE fw.sel
      BY <2>5, <3>1, <3>2 DEF Honest
    <3>4. ASSUME NEW f \in Efs
          PROVE  IF f = fw.sel /\ fw.cmd.ins = WriteIns(fw.sel) /\ sw = "9000"
                 THEN Content(card', f) = fw.cmd.val
                 ELSE Content(card', f) \in fw.holds[f]
      <4>1. Content(card', f) = IF f = fw.sel /\ fw.cmd.ins = WriteIns(fw.sel) /\ sw = "9000"
                                THEN fw.cmd.val ELSE Content(card, f)
        BY <2>5, <3>1, <3>2 DEF Honest
      <4> QED
        BY <3>2, <4>1
    <3>5. ASSUME Reads(fw.sel, fw.cmd), n > 0 PROVE v = Content(card', fw.sel)
      <4>1. v = Content(card, fw.sel)
        BY <2>5, <3>1, <3>2, <3>5 DEF Honest
      <4>2. fw.sel \in Efs
        <5>1. card.sel \in Files
          BY DEF Shape, CardOk, CardType
        <5> QED
          BY <3>2, <3>5, <5>1 DEF Reads, Efs
      <4>3. fw.cmd.ins # WriteIns(fw.sel)
        BY <3>5 DEF Reads, WriteIns
      <4>4. Content(card', fw.sel) = Content(card, fw.sel)
        BY <2>5, <3>1, <3>2, <4>2, <4>3 DEF Honest
      <4> QED
        BY <4>1, <4>4
    <3>6. \A f : Content(card, f)' = Content(card', f)
      BY DEF Content
    <3> QED
      BY <1>1, <3>3, <3>4, <3>5, <3>6 DEF Outcome
  <2>9. WaitCard'
    <3>1. Whole(fw.cmd, n, v, sw)' = Whole(fw.cmd, n, v, sw) /\ Lengths(fw.cmd)' = Lengths(fw.cmd)
      BY <1>1 DEF Whole, Acks, Joined, Ack, Lengths
    <3>2. Due(card, fw.cmd)' = Due(card', fw.cmd)
      BY <1>1 DEF Due, Owes, RecordOf
    <3> QED
      BY <1>1, <2>1, <2>4, <2>7, <2>8, <3>1, <3>2 DEF WaitCard
  <2>10. WaitInv'
    BY <1>1, <1>3, <1>9, <1>15, <2>2, <2>9 DEF WaitInv
  <2> QED
    BY <1>1, <2>10 DEF Flow
<1> QED
  BY <1>1, <1>12, <1>13, <1>14, <1>15 DEF Outcomes

\* The bytes of the whole answer.
LEMMA WholeAt ==
    ASSUME NEW cmd, NEW n \in Nat, NEW v, NEW sw
    PROVE  /\ Acks(cmd, n) \in Nat /\ Acks(cmd, n) <= 1
           /\ Len(Whole(cmd, n, v, sw)) = Acks(cmd, n) + n + 2
           /\ \A i \in 1 .. Acks(cmd, n) + n + 2 :
                Whole(cmd, n, v, sw)[i] =
                    IF i <= Acks(cmd, n) THEN Ack(cmd)
                    ELSE IF i <= Acks(cmd, n) + n THEN Byte(cmd, "dat", v)
                    ELSE IF i = Acks(cmd, n) + n + 1 THEN Byte(cmd, "sw1", sw)
                    ELSE Byte(cmd, "sw2", sw)
<1> DEFINE m == Acks(cmd, n)
           x == Ack(cmd)
           d == Byte(cmd, "dat", v)
           s1 == Byte(cmd, "sw1", sw)
           s2 == Byte(cmd, "sw2", sw)
<1>1. m \in Nat /\ m <= 1
  BY DEF Acks
<1>2. Whole(cmd, n, v, sw) = Joined(m, x, n, d, s1, s2)
  BY DEF Whole
<1> HIDE DEF m, x, d, s1, s2
<1>3. /\ Len(Whole(cmd, n, v, sw)) = m + n + 2
      /\ \A i \in 1 .. m + n + 2 :
           Whole(cmd, n, v, sw)[i] = IF i <= m THEN x ELSE IF i <= m + n THEN d
                                     ELSE IF i = m + n + 1 THEN s1 ELSE s2
  BY ONLY <1>1, <1>2, n \in Nat, JoinedAt
<1> QED
  BY <1>1, <1>3 DEF m, x, d, s1, s2

\* What the firmware has read is the first part of what was sent.
LEMMA GotIs ==
    ASSUME Shape, fw.got # <<>>
    PROVE  /\ Len(fw.got) \in Nat \ {0} /\ Len(fw.got) <= Len(Stream)
           /\ Last(fw.got) = Stream[Len(fw.got)]
<1>1. fw.got \in Seq(Bytes(env))
  BY StreamIs
<1>2. Len(fw.got) \in Nat \ {0} /\ Last(fw.got) = fw.got[Len(fw.got)]
  BY <1>1 DEF Last
<1>3. Len(fw.got) \in 1 .. Len(fw.got)
  BY <1>2
<1>4. \A i \in 1 .. Len(fw.got) : Stream[i] = fw.got[i]
  BY StreamIs
<1> QED
  BY <1>2, <1>3, <1>4, StreamIs

LEMMA FlowDone ==
    ASSUME Shape, Flow, Done
    PROVE  Flow'
<1> DEFINE got == fw.got
           cmd == fw.cmd
           end == Last(fw.got)
<1>1. /\ env' = env /\ card' = card /\ uart' = uart /\ fw.at = "wait" /\ got # <<>>
      /\ fw'.at = "idle" /\ fw'.got = <<>>
  BY DoneIs
<1>2. /\ \/ end.k = "sw2"
         \/ end.k = "echo" /\ Len(got) = 1 + cmd.p3
      /\ fw'.sel = IF cmd.ins = "SELECT" /\ end.v = "9F" THEN cmd.file ELSE fw.sel
      /\ fw'.holds = IF Kind[fw.sel] = "dir" \/ end.v # "9000" THEN fw.holds
                     ELSE IF cmd.ins = WriteIns(fw.sel)
                     THEN [fw.holds EXCEPT ![fw.sel] = {cmd.val}]
                     ELSE IF Reads(fw.sel, cmd) /\ Len(got) > 2
                     THEN [fw.holds EXCEPT ![fw.sel] = {got[2].v}]
                     ELSE fw.holds
  BY DoneIs DEF Concludes
<1>3. /\ Len(got) \in Nat \ {0} /\ Len(got) <= Len(Stream) /\ end = Stream[Len(got)]
  BY <1>1, GotIs
<1>4. env \in Settings /\ cmd \in env.cmds
  BY <1>1 DEF Shape, Begun
<1>5. cmd.p3 \in Nat
  BY <1>4, CmdFacts
<1>6. /\ ~uart.atr /\ Counted
      /\ WaitMore \/ (~Partial /\ uart.asm = <<>> /\ ~uart.t0 /\ (WaitEcho \/ WaitCard))
  BY <1>1 DEF Flow, WaitInv
<1>7. ASSUME Len(got) = Len(Stream), uart.asm = <<>>, ~uart.t0,
             ~env.bridge => /\ card.sel = fw'.sel
                            /\ \A f \in Efs : Content(card, f) \in fw'.holds[f]
      PROVE  Flow'
  <2>1. In(uart) = <<>>
    BY <1>7, StreamIs
  <2>2. Stream' = <<>> \o <<>>
    BY <1>1, <2>1 DEF Stream
  <2>3. Stream' = <<>>
    BY <2>2
  <2>4. Agree'
    BY <1>1, <1>7 DEF Agree, Synced, Remembered, Content
  <2>5. IdleInv'
    BY <1>1, <1>6, <1>7, <2>3, <2>4 DEF IdleInv
  <2> QED
    BY <1>1, <2>5 DEF Flow
<1>8. CASE WaitMore
  <2>1. Stream = <<Ack(cmd)>>
    BY <1>8 DEF WaitMore
  <2>2. Len(got) = 1
    BY <1>3, <2>1, SMTT(30)
  <2>3. end = Ack(cmd)
    BY <1>3, <2>1, <2>2
  <2> QED
    BY <1>2, <2>3 DEF Ack, Byte
<1>9. CASE uart.asm = <<>> /\ ~uart.t0 /\ WaitEcho
  <2> DEFINE b == Byte(cmd, "echo", Blank)
             len == 1 + cmd.p3
  <2>1. Stream = Times(len, b) /\ Agree
    BY <1>9 DEF WaitEcho, Echoes
  <2>2. b.k = "echo" /\ b.v = "blank" /\ len \in Nat
    BY <1>5 DEF Byte, Blank
  <2> HIDE DEF b
  <2>3. Len(Stream) = len /\ \A i \in 1 .. len : Stream[i] = b
    <3> HIDE DEF len
    <3> QED
      BY <2>1, <2>2, TimesAll
  <2>4. end = b
    <3>1. Len(got) \in 1 .. len
      BY <1>3, <2>2, <2>3
    <3> QED
      BY <1>3, <2>3, <3>1
  <2>5. Len(got) = Len(Stream)
    BY <1>2, <2>2, <2>3, <2>4
  <2>6. fw'.sel = fw.sel /\ fw'.holds = fw.holds
    BY <1>2, <2>2, <2>4
  <2> QED
    BY <1>7, <1>9, <2>1, <2>5, <2>6 DEF Agree, Synced, Remembered
<1>10. CASE ~Partial /\ uart.asm = <<>> /\ ~uart.t0 /\ WaitCard
  <2>1. PICK n \in Lengths(cmd), v \in Values, sw \in Values :
           Stream = Whole(cmd, n, v, sw) /\ Outcome(n, v, sw)
    BY <1>10 DEF WaitCard
  <2>2. n \in Nat
    BY <1>4, LengthsAre
  <2> DEFINE m == Acks(cmd, n)
  <2>3. /\ m \in Nat /\ m <= 1 /\ Len(Stream) = m + n + 2
        /\ \A i \in 1 .. m + n + 2 :
             Stream[i] = IF i <= m THEN Ack(cmd) ELSE IF i <= m + n THEN Byte(cmd, "dat", v)
                         ELSE IF i = m + n + 1 THEN Byte(cmd, "sw1", sw)
                         ELSE Byte(cmd, "sw2", sw)
    BY <2>1, <2>2, WholeAt
  <2>4. Len(got) = m + n + 2 /\ end = Byte(cmd, "sw2", sw)
    <3>1. Len(got) \in 1 .. m + n + 2
      BY <1>3, <2>2, <2>3
    <3>2. end = IF Len(got) <= m THEN Ack(cmd) ELSE IF Len(got) <= m + n THEN Byte(cmd, "dat", v)
                ELSE IF Len(got) = m + n + 1 THEN Byte(cmd, "sw1", sw)
                ELSE Byte(cmd, "sw2", sw)
      BY <1>3, <2>3, <3>1
    <3>3. end.k \in {"sw2", "echo"}
      BY <1>2
    <3>4. ~(Len(got) <= m) /\ ~(Len(got) <= m + n) /\ Len(got) # m + n + 1
      <4> HIDE DEF m, got, end
      <4> QED
        BY <3>2, <3>3 DEF Ack, Byte
    <3> HIDE DEF m, got, end
    <3> QED
      BY <2>2, <2>3, <3>1, <3>2, <3>4
  <2>5. end.v = sw
    BY <2>4 DEF Byte
  <2>6. ASSUME ~env.bridge PROVE card.sel = fw'.sel
    BY <1>2, <2>1, <2>5, <2>6 DEF Outcome
  <2>7. ASSUME Reads(fw.sel, cmd), Len(got) > 2 PROVE n > 0 /\ got[2].v = v
    <3>1. ~InData(cmd.ins)
      BY <2>7 DEF Reads, InData
    <3>2. n > 0 /\ m = 1
      BY <2>2, <2>4, <2>7, <3>1 DEF Acks
    <3>3. Stream[2] = Byte(cmd, "dat", v)
      BY <2>2, <2>3, <3>2
    <3>4. 2 \in 1 .. Len(got)
      BY <1>3, <2>7
    <3>5. got[2] = Stream[2]
      BY <3>4, StreamIs
    <3> QED
      BY <3>2, <3>3, <3>5 DEF Byte
  <2>8. ASSUME ~env.bridge, NEW f \in Efs PROVE Content(card, f) \in fw'.holds[f]
    <3> DEFINE was == fw.holds
               now == fw'.holds
               s == fw.sel
               x == Content(card, f)
    <3>1. was \in [Efs -> SUBSET Values]
      BY CmdKnown DEF FwType
    <3>2. IF f = s /\ cmd.ins = WriteIns(s) /\ sw = "9000" THEN x = cmd.val ELSE x \in was[f]
      BY <2>1, <2>8 DEF Outcome
    <3>3. Reads(s, cmd) /\ n > 0 => v = Content(card, s)
      BY <2>1, <2>8 DEF Outcome
    <3>4. Kind[f] # "dir"
      BY <2>8 DEF Efs
    <3>5. now = IF Kind[s] = "dir" \/ sw # "9000" THEN was
                ELSE IF cmd.ins = WriteIns(s) THEN [was EXCEPT ![s] = {cmd.val}]
                ELSE IF Reads(s, cmd) /\ Len(got) > 2 THEN [was EXCEPT ![s] = {got[2].v}]
                ELSE was
      BY <1>2, <2>5
    <3>6. CASE Kind[s] = "dir" \/ sw # "9000"
      BY <3>2, <3>4, <3>5, <3>6
    <3>7. CASE ~(Kind[s] = "dir" \/ sw # "9000") /\ cmd.ins = WriteIns(s)
      <4>1. now = [was EXCEPT ![s] = {cmd.val}]
        BY <3>5, <3>7
      <4>2. now[f] = IF f = s THEN {cmd.val} ELSE was[f]
        <5> HIDE DEF was, now, s
        <5> QED
          BY <2>8, <3>1, <4>1
      <4> QED
        BY <3>2, <3>7, <4>2
    <3>8. CASE ~(Kind[s] = "dir" \/ sw # "9000") /\ cmd.ins # WriteIns(s)
      <4>1. x \in was[f]
        BY <3>2, <3>8
      <4>2. CASE Reads(s, cmd) /\ Len(got) > 2
        <5>1. now = [was EXCEPT ![s] = {got[2].v}]
          BY <3>5, <3>8, <4>2
        <5>2. now[f] = IF f = s THEN {got[2].v} ELSE was[f]
          <6> HIDE DEF was, now, s
          <6> QED
            BY <2>8, <3>1, <5>1
        <5>3. got[2].v = v /\ v = Content(card, s)
          BY <2>7, <3>3, <4>2
        <5> QED
          BY <4>1, <5>2, <5>3
      <4>3. CASE ~(Reads(s, cmd) /\ Len(got) > 2)
        BY <3>5, <3>8, <4>1, <4>3
      <4> QED
        BY <4>2, <4>3
    <3> QED
      BY <3>6, <3>7, <3>8
  <2>9. Len(got) = Len(Stream)
    BY <2>3, <2>4
  <2> QED
    BY <1>7, <1>10, <2>6, <2>8, <2>9
<1> QED
  BY <1>6, <1>8, <1>9, <1>10

LEMMA FlowInit == Init => Flow
<1> SUFFICES ASSUME Init PROVE Flow
  OBVIOUS
<1>1. \E here \in BOOLEAN :
         card = [present |-> here, seen |-> FALSE, sel |-> MF, df |-> MF, gr |-> 0,
                 over |-> [f \in Efs |-> Blank], enabled |-> env.locked, verified |-> FALSE,
                 pin |-> Pin, tries |-> PinMax, puk |-> PukMax]
  BY DEF Init
<1>2. card.over = [f \in Efs |-> Blank]
  BY <1>1
<1>3. fw.at = "off" /\ fw.got = <<>> /\ fw.holds = [f \in Efs |-> {f}]
  BY DEF Init
<1>4. Remembered
  BY <1>2, <1>3 DEF Remembered, Content
<1> QED
  BY <1>3, <1>4 DEF Flow, OffInv

LEMMA FlowNext == Shape /\ Flow /\ [Next]_vars => Flow'
<1> SUFFICES ASSUME Shape, Flow, [Next]_vars PROVE Flow'
  OBVIOUS
<1>1. CASE UNCHANGED vars
  <2>1. env' = env /\ uart' = uart /\ card' = card /\ fw' = fw
    BY <1>1 DEF vars
  <2>2. Carried /\ Paused
    BY <2>1 DEF Carried, Paused, Stream
  <2> QED
    BY <2>1, <2>2, FlowKept
<1>2. CASE Next
  <2>1. CASE EnterFiq6 \/ Fiq6 \/ Ack6
    BY <2>1, HandlerIs, FlowKept
  <2>2. CASE SetPresent
    BY <2>2, SetPresentIs, FlowKept
  <2>3. CASE GiveUp \/ TakeFiq7
    BY <2>3, FlowOff
  <2>4. CASE PowerUp
    BY <2>4, FlowPowerUp
  <2>5. CASE TakeAtr
    BY <2>5, FlowTakeAtr
  <2>6. ASSUME NEW cmd \in env.cmds, Begin(cmd) PROVE Flow'
    BY <2>6, FlowBegin
  <2>7. CASE Flush
    BY <2>7, FlowFlush
  <2>8. CASE More
    BY <2>8, FlowMore
  <2>9. CASE Done
    BY <2>9, FlowDone
  <2>10. ASSUME NEW paceDue \in BOOLEAN, NEW wwtDue \in BOOLEAN, Tick(paceDue, wwtDue)
         PROVE  Flow'
    BY <2>10, FlowTick
  <2> QED
    BY <1>2, <2>1, <2>2, <2>3, <2>4, <2>5, <2>6, <2>7, <2>8, <2>9, <2>10 DEF Next, Main
<1> QED
  BY <1>1, <1>2

\* A byte of data read from the selected file is what the card holds, and the
\* firmware knows that it may.
LEMMA ReadsKnown == Shape /\ Flow => ReadsLastWrite
<1> SUFFICES ASSUME Shape, Flow, ~env.bridge, ReadsSel, NEW b \in Range(fw.got), b.k = "dat"
             PROVE  b.v \in fw.holds[fw.sel]
  BY DEF ReadsLastWrite
<1>1. Reads(fw.sel, fw.cmd)
  BY DEF ReadsSel, Reads
<1>2. PICK i \in DOMAIN fw.got : b = fw.got[i]
  BY DEF Range
<1>3. i \in 1 .. Len(fw.got) /\ Len(fw.got) \in Nat /\ fw.got # <<>>
  <2>1. fw.got \in Seq(Bytes(env))
    BY StreamIs
  <2>2. DOMAIN fw.got = 1 .. Len(fw.got) /\ Len(fw.got) \in Nat
    BY <2>1
  <2>3. Len(fw.got) # 0
    BY <1>2, <2>2
  <2> QED
    BY <1>2, <2>2, <2>3
<1>4. b = Stream[i] /\ Len(fw.got) <= Len(Stream)
  BY <1>2, <1>3, StreamIs
<1>5. fw.at = "wait" /\ env \in Settings /\ fw.cmd \in env.cmds
  <2>1. fw.cmd.ins # NoCmd.ins
    BY <1>1 DEF Reads, NoCmd
  <2>2. fw.cmd \in env.cmds /\ env \in Settings /\ fw.at \in {"put", "wait"}
    BY <2>1 DEF Shape, Begun
  <2>3. CASE fw.at = "put"
    <3>1. ~InData(fw.cmd.ins)
      BY <1>1 DEF Reads, InData
    <3>2. Stream = <<>>
      BY <2>3, <3>1 DEF Flow, PutInv, Counted
    <3> QED
      BY <1>3, <3>2, StreamIs
  <2> QED
    BY <2>2, <2>3
<1>6. WaitEcho \/ WaitCard
  <2>1. ~Partial
    BY <1>1 DEF Partial, Reads, InData
  <2> QED
    BY <1>5, <2>1 DEF Flow, WaitInv, WaitMore
<1>7. WaitCard
  BY <1>1, <1>6 DEF WaitEcho, Reads
<1>8. PICK n \in Lengths(fw.cmd), v \in Values, sw \in Values :
         Stream = Whole(fw.cmd, n, v, sw) /\ Outcome(n, v, sw)
  BY <1>7 DEF WaitCard
<1>9. n \in Nat
  BY <1>5, LengthsAre
<1> DEFINE m == Acks(fw.cmd, n)
<1>10. /\ m \in Nat /\ m <= 1 /\ Len(Stream) = m + n + 2
       /\ \A j \in 1 .. m + n + 2 :
            Stream[j] = IF j <= m THEN Ack(fw.cmd)
                        ELSE IF j <= m + n THEN Byte(fw.cmd, "dat", v)
                        ELSE IF j = m + n + 1 THEN Byte(fw.cmd, "sw1", sw)
                        ELSE Byte(fw.cmd, "sw2", sw)
  BY <1>8, <1>9, WholeAt
<1> HIDE DEF m
<1>11. i \in 1 .. m + n + 2
  BY <1>3, <1>4, <1>9, <1>10
<1>12. ~(i <= m) /\ i <= m + n
  <2>1. b = IF i <= m THEN Ack(fw.cmd)
            ELSE IF i <= m + n THEN Byte(fw.cmd, "dat", v)
            ELSE IF i = m + n + 1 THEN Byte(fw.cmd, "sw1", sw)
            ELSE Byte(fw.cmd, "sw2", sw)
    BY <1>4, <1>10, <1>11
  <2> QED
    BY <2>1 DEF Ack, Byte
<1>13. b.v = v /\ n > 0
  <2>1. b = Byte(fw.cmd, "dat", v)
    BY <1>4, <1>10, <1>11, <1>12
  <2>2. n > 0
    BY <1>9, <1>10, <1>11, <1>12
  <2> QED
    BY <2>1, <2>2 DEF Byte
<1>14. v = Content(card, fw.sel)
  BY <1>1, <1>8, <1>13 DEF Outcome
<1>15. fw.sel \in Efs
  <2>1. card.sel = fw.sel
    <3>1. fw.cmd.ins # "SELECT"
      BY <1>1 DEF Reads
    <3> QED
      BY <1>8, <3>1 DEF Outcome
  <2>2. card.sel \in Files
    BY DEF Shape, CardOk, CardType
  <2> QED
    BY <1>1, <2>1, <2>2 DEF Reads, Efs
<1>16. Content(card, fw.sel) \in fw.holds[fw.sel]
  <2>1. fw.cmd.ins # WriteIns(fw.sel)
    BY <1>1 DEF Reads, WriteIns
  <2> QED
    BY <1>8, <1>15, <2>1 DEF Outcome
<1> QED
  BY <1>13, <1>14, <1>16

\* A read gives what was last written and acknowledged, or what a write that was
\* cut off may have left: over resets, failed SELECTs and more files than slots.
THEOREM ReadsLastWriteAlways == Spec => []ReadsLastWrite
<1>1. Init => Shape /\ Flow
  BY ShapeInit, FlowInit
<1>2. Shape /\ Flow /\ [Next]_vars => Shape' /\ Flow'
  BY ShapeNext, FlowNext
<1>3. Shape /\ Flow => ReadsLastWrite
  BY ReadsKnown
<1> QED
  BY <1>1, <1>2, <1>3, PTL DEF Spec

-----------------------------------------------------------------------------
(* What the firmware reads is what the rules of T=0 expect.                *)

\* The kinds of an answer's bytes, with or without the procedure byte.
Kindly(m, n) == Joined(m, "ack", n, "dat", "sw1", "sw2")

LEMMA KindlyIs ==
    ASSUME NEW m \in Nat, m <= 1, NEW n \in Nat
    PROVE  /\ Kindly(m, n) \in Seq(Kinds) /\ Len(Kindly(m, n)) = m + n + 2
           /\ \A i \in 1 .. m + n + 2 :
                Kindly(m, n)[i] = IF i <= m THEN "ack" ELSE IF i <= m + n THEN "dat"
                                  ELSE IF i = m + n + 1 THEN "sw1" ELSE "sw2"
           /\ m = 0 /\ n = 0 => Kindly(m, n) = <<"sw1", "sw2">>
           /\ m = 1 /\ n = 0 => Kindly(m, n) = <<"ack">> \o <<"sw1", "sw2">>
           /\ m = 1 => Kindly(m, n) = <<"ack">> \o Times(n, "dat") \o <<"sw1", "sw2">>
<1>1. "ack" \in Kinds /\ "dat" \in Kinds /\ "sw1" \in Kinds /\ "sw2" \in Kinds
  BY DEF Kinds
<1> DEFINE A == IF m = 1 THEN <<"ack">> ELSE <<>>
           T == Times(n, "dat")
           E == <<"sw1", "sw2">>
<1>2. A \in Seq(Kinds) /\ E \in Seq(Kinds)
  BY <1>1
<1>3. T \in Seq(Kinds) /\ (n = 0 => T = <<>>)
  BY <1>1, TimesIs
<1>4. Kindly(m, n) = (A \o T) \o E
  BY DEF Kindly, Joined
<1>5. m = 1 => A = <<"ack">>
  OBVIOUS
<1>6. m = 0 => A = <<>>
  OBVIOUS
<1>7. E = <<"sw1", "sw2">> /\ T = Times(n, "dat")
  OBVIOUS
<1> HIDE DEF A, T, E
<1>8. (A \o T) \o E \in Seq(Kinds)
  BY <1>2, <1>3
<1>9. m = 0 /\ n = 0 => Kindly(m, n) = E
  BY <1>2, <1>3, <1>4, <1>6
<1>10. m = 1 /\ n = 0 => Kindly(m, n) = A \o E
  BY <1>2, <1>3, <1>4
<1>11. /\ Len(Kindly(m, n)) = m + n + 2
       /\ \A i \in 1 .. m + n + 2 :
            Kindly(m, n)[i] = IF i <= m THEN "ack" ELSE IF i <= m + n THEN "dat"
                              ELSE IF i = m + n + 1 THEN "sw1" ELSE "sw2"
  BY JoinedAt DEF Kindly
<1> QED
  BY <1>4, <1>5, <1>7, <1>8, <1>9, <1>10, <1>11

\* What was sent is the first part of something expected.
Foreseen(e) ==
    /\ e \in Expected /\ e \in Seq(Kinds) /\ Len(Stream) <= Len(e)
    /\ \A i \in 1 .. Len(Stream) : Stream[i].k = e[i]

LEMMA ForeseenIs ==
    ASSUME Shape, Flow, fw.at # "off"
    PROVE  \E e : Foreseen(e)
<1>1. fw.at \in {"off", "atr", "idle", "put", "wait"}
  BY DEF Shape, FwType
<1>2. CASE fw.at = "atr"
  <2> DEFINE e == Times(AtrLen, "atr")
  <2>1. e \in Seq(Kinds) /\ Len(e) = AtrLen /\ \A i \in 1 .. AtrLen : e[i] = "atr"
    <3>1. "atr" \in Kinds /\ AtrLen \in Nat
      BY Sizes DEF Kinds
    <3> QED
      BY <3>1, TimesIs
  <2>2. e \in Expected
    BY <1>2 DEF Expected
  <2> HIDE DEF e
  <2>3. CASE Stream = <<>>
    BY <2>1, <2>2, <2>3, Sizes DEF Foreseen
  <2>4. CASE Stream = Atr
    <3>1. Len(Stream) = AtrLen /\ \A i \in 1 .. AtrLen : Stream[i] = Byte(NoCmd, "atr", Blank)
      BY <2>4, AtrIs
    <3>2. Byte(NoCmd, "atr", Blank).k = "atr"
      BY DEF Byte
    <3> QED
      BY <2>1, <2>2, <3>1, <3>2, Sizes DEF Foreseen
  <2> QED
    BY <1>2, <2>3, <2>4 DEF Flow, AtrInv
<1>3. CASE fw.at = "idle"
  <2> DEFINE e == <<>>
  <2>1. e \in Expected
    BY <1>3 DEF Expected, Shape, Begun
  <2>2. Stream = <<>>
    BY <1>3 DEF Flow, IdleInv
  <2>3. e \in Seq(Kinds) /\ Len(e) = 0 /\ Len(Stream) = 0
    BY <2>2
  <2> HIDE DEF e
  <2>4. Foreseen(e)
    BY <2>1, <2>3 DEF Foreseen
  <2> QED
    BY <2>4
<1>4. CASE fw.at \in {"put", "wait"}
  <2>1. env \in Settings /\ fw.cmd \in env.cmds
    BY <1>4 DEF Shape, Begun
  <2>2. fw.cmd.p3 \in Nat /\ fw.cmd # NoCmd
    BY <2>1, CmdFacts
  <2> DEFINE p3 == fw.cmd.p3
             echo == Times(1 + p3, "echo")
  <2>3. /\ fw.cmd.ins = "PPS" => echo \in Expected
        /\ fw.cmd.ins # "PPS" /\ InData(fw.cmd.ins) =>
             (IF p3 = 0 THEN <<"sw1", "sw2">> ELSE <<"ack">> \o <<"sw1", "sw2">>) \in Expected
        /\ fw.cmd.ins # "PPS" /\ ~InData(fw.cmd.ins) =>
             /\ <<"sw1", "sw2">> \in Expected
             /\ \A n \in Due(card, fw.cmd) \ {0} :
                  (<<"ack">> \o Times(n, "dat") \o <<"sw1", "sw2">>) \in Expected
    BY <1>4, <2>2 DEF Expected
  <2>4. /\ echo \in Seq(Kinds) /\ Len(echo) = 1 + p3 /\ \A i \in 1 .. 1 + p3 : echo[i] = "echo"
    <3> DEFINE len == 1 + p3
    <3>1. "echo" \in Kinds /\ len \in Nat
      BY <2>2 DEF Kinds
    <3> HIDE DEF len
    <3>2. /\ Times(len, "echo") \in Seq(Kinds) /\ Len(Times(len, "echo")) = len
          /\ \A i \in 1 .. len : Times(len, "echo")[i] = "echo"
      BY <3>1, TimesIs
    <3> QED
      BY <3>2 DEF len
  <2> HIDE DEF echo
  <2>5. /\ Kindly(0, 0) = <<"sw1", "sw2">> /\ Kindly(0, 0) \in Seq(Kinds)
        /\ Kindly(1, 0) = <<"ack">> \o <<"sw1", "sw2">> /\ Kindly(1, 0) \in Seq(Kinds)
        /\ Len(Kindly(1, 0)) = 3 /\ Kindly(1, 0)[1] = "ack"
    <3> DEFINE z == 0
               o == 1
    <3>1. z \in Nat /\ o \in Nat /\ z <= 1 /\ o <= 1 /\ z = 0 /\ o = 1
      OBVIOUS
    <3> HIDE DEF z, o
    <3>2. /\ Kindly(z, z) = <<"sw1", "sw2">> /\ Kindly(z, z) \in Seq(Kinds)
          /\ Kindly(o, z) = <<"ack">> \o <<"sw1", "sw2">> /\ Kindly(o, z) \in Seq(Kinds)
      BY <3>1, KindlyIs
    <3>3. Len(Kindly(o, z)) = o + z + 2
      BY <3>1, KindlyIs
    <3>4. 1 \in 1 .. o + z + 2
      BY <3>1
    <3>5. Kindly(o, z)[1] = "ack"
      BY <3>1, <3>4, KindlyIs
    <3> QED
      BY <3>1, <3>2, <3>3, <3>5
  <2>6. ASSUME NEW n \in Nat
        PROVE  Kindly(1, n) = <<"ack">> \o Times(n, "dat") \o <<"sw1", "sw2">>
    <3> DEFINE o == 1
    <3>1. o \in Nat /\ o <= 1 /\ o = 1
      OBVIOUS
    <3> HIDE DEF o
    <3>2. Kindly(o, n) = <<"ack">> \o Times(n, "dat") \o <<"sw1", "sw2">>
      BY ONLY <3>1, n \in Nat, KindlyIs
    <3> QED
      BY <3>1, <3>2
  <2>7. ASSUME Stream = <<>> PROVE \E e : Foreseen(e)
    <3>1. \E e : e \in Expected /\ e \in Seq(Kinds)
      BY <2>3, <2>4, <2>5
    <3>2. PICK e : e \in Expected /\ e \in Seq(Kinds)
      BY <3>1
    <3>3. Len(Stream) = 0 /\ Len(e) \in Nat
      BY <2>7, <3>2
    <3> QED
      BY <3>2, <3>3 DEF Foreseen
  <2>8. ASSUME Stream = <<Ack(fw.cmd)>>, InData(fw.cmd.ins), p3 > 0 PROVE \E e : Foreseen(e)
    <3>1. fw.cmd.ins # "PPS"
      BY <2>8 DEF InData
    <3>2. Kindly(1, 0) \in Expected
      <4>1. p3 # 0
        BY <2>2, <2>8
      <4>2. (<<"ack">> \o <<"sw1", "sw2">>) \in Expected
        BY <2>3, <2>8, <3>1, <4>1
      <4> QED
        BY <2>5, <4>2
    <3>3. Len(Stream) = 1 /\ Stream[1].k = "ack"
      BY <2>8 DEF Ack, Byte
    <3>4. Foreseen(Kindly(1, 0))
      BY <2>5, <3>2, <3>3 DEF Foreseen
    <3> QED
      BY <3>4
  <2>9. CASE fw.at = "put"
    <3>1. Stream = <<>> \/ (Stream = <<Ack(fw.cmd)>> /\ fw.sent # 0 /\ Counted)
      BY <2>9 DEF Flow, PutInv
    <3>2. fw.sent # 0 /\ Counted => InData(fw.cmd.ins) /\ p3 > 0
      BY <2>2 DEF Counted
    <3> QED
      BY <2>7, <2>8, <3>1, <3>2
  <2>10. CASE fw.at = "wait"
    <3>1. Counted /\ (WaitMore \/ WaitEcho \/ WaitCard)
      BY <2>10 DEF Flow, WaitInv
    <3>2. CASE WaitMore
      <4>1. Stream = <<Ack(fw.cmd)>> /\ InData(fw.cmd.ins)
        BY <3>2 DEF WaitMore, Partial
      <4>2. p3 > 0
        BY <2>2, <3>1, <3>2 DEF WaitMore, Partial, Counted
      <4> QED
        BY <2>8, <4>1, <4>2
    <3>3. CASE WaitEcho
      <4> DEFINE b == Byte(fw.cmd, "echo", Blank)
                 len == 1 + p3
      <4>1. Stream = Times(len, b) /\ fw.cmd.ins = "PPS"
        BY <3>3 DEF WaitEcho, Echoes
      <4>2. b.k = "echo" /\ len \in Nat
        BY <2>2 DEF Byte
      <4> HIDE DEF b
      <4>3. Len(Stream) = len /\ \A i \in 1 .. len : Stream[i] = b
        <5> HIDE DEF len
        <5> QED
          BY <4>1, <4>2, TimesAll
      <4>4. Foreseen(echo)
        BY <2>3, <2>4, <4>1, <4>2, <4>3 DEF Foreseen
      <4> QED
        BY <4>4
    <3>4. CASE WaitCard
      <4>1. PICK n \in Lengths(fw.cmd), v \in Values, sw \in Values :
               /\ fw.cmd.ins # "PPS" /\ Stream = Whole(fw.cmd, n, v, sw)
               /\ n \in {0} \cup Due(card, fw.cmd)
        BY <3>4 DEF WaitCard
      <4>2. n \in Nat
        BY <2>1, LengthsAre
      <4> DEFINE m == Acks(fw.cmd, n)
      <4>3. /\ m \in Nat /\ m <= 1 /\ Len(Stream) = m + n + 2
            /\ \A i \in 1 .. m + n + 2 :
                 Stream[i] = IF i <= m THEN Ack(fw.cmd)
                             ELSE IF i <= m + n THEN Byte(fw.cmd, "dat", v)
                             ELSE IF i = m + n + 1 THEN Byte(fw.cmd, "sw1", sw)
                             ELSE Byte(fw.cmd, "sw2", sw)
        BY <4>1, <4>2, WholeAt
      <4>4. Kindly(m, n) \in Expected
        <5>1. CASE InData(fw.cmd.ins)
          <6>1. n = 0 /\ m = IF p3 > 0 THEN 1 ELSE 0
            BY <4>1, <5>1 DEF Lengths, Acks
          <6>2. p3 = 0 => Kindly(m, n) = Kindly(0, 0)
            BY <6>1
          <6>3. p3 # 0 => Kindly(m, n) = Kindly(1, 0)
            BY <2>2, <6>1
          <6> HIDE DEF m, p3
          <6> QED
            BY <2>3, <2>5, <4>1, <5>1, <6>2, <6>3
        <5>2. CASE ~InData(fw.cmd.ins)
          <6>1. m = IF n > 0 THEN 1 ELSE 0
            BY <5>2 DEF Acks
          <6>2. n = 0 => Kindly(m, n) = Kindly(0, 0)
            BY <6>1
          <6>3. n # 0 => Kindly(m, n) = Kindly(1, n)
            BY <4>2, <6>1
          <6>4. n # 0 => n \in Due(card, fw.cmd) \ {0}
            BY <4>1
          <6> HIDE DEF m, p3
          <6> QED
            BY <2>3, <2>5, <2>6, <4>1, <4>2, <5>2, <6>2, <6>3, <6>4
        <5> QED
          BY <5>1, <5>2
      <4> HIDE DEF m
      <4>5. /\ Kindly(m, n) \in Seq(Kinds) /\ Len(Kindly(m, n)) = m + n + 2
            /\ \A i \in 1 .. m + n + 2 :
                 Kindly(m, n)[i] = IF i <= m THEN "ack" ELSE IF i <= m + n THEN "dat"
                                   ELSE IF i = m + n + 1 THEN "sw1" ELSE "sw2"
        BY <4>2, <4>3, KindlyIs
      <4>6. \A i \in 1 .. m + n + 2 : Stream[i].k = Kindly(m, n)[i]
        BY <4>3, <4>5 DEF Ack, Byte
      <4>7. Len(Stream) <= Len(Kindly(m, n))
        BY <4>2, <4>3, <4>5
      <4>8. Foreseen(Kindly(m, n))
        BY <4>3, <4>4, <4>5, <4>6, <4>7 DEF Foreseen
      <4> QED
        BY <4>8
    <3> QED
      BY <3>1, <3>2, <3>3, <3>4
  <2> QED
    BY <1>4, <2>9, <2>10
<1> QED
  BY <1>1, <1>2, <1>3, <1>4

\* Every byte sent in a command is of that command.
LEMMA OwnBytes ==
    ASSUME Shape, Flow, Begun
    PROVE  \A i \in 1 .. Len(Stream) : Stream[i].cmd = fw.cmd
<1>1. env \in Settings /\ fw.cmd \in env.cmds
  BY DEF Shape
<1>2. fw.cmd.p3 \in Nat
  BY <1>1, CmdFacts
<1>3. CASE Stream = <<>>
  <2>1. Len(Stream) = 0
    BY <1>3
  <2> QED
    BY <2>1
<1>4. CASE Stream = <<Ack(fw.cmd)>>
  <2>1. Len(Stream) = 1 /\ Stream[1].cmd = fw.cmd
    BY <1>4 DEF Ack, Byte
  <2> QED
    BY <2>1
<1>5. CASE WaitEcho
  <2> DEFINE b == Byte(fw.cmd, "echo", Blank)
             len == 1 + fw.cmd.p3
  <2>1. Stream = Times(len, b)
    BY <1>5 DEF WaitEcho, Echoes
  <2>2. b.cmd = fw.cmd /\ len \in Nat
    BY <1>2 DEF Byte
  <2> HIDE DEF b, len
  <2>3. Len(Stream) = len /\ \A i \in 1 .. len : Stream[i] = b
    BY <2>1, <2>2, TimesAll
  <2> QED
    BY <2>2, <2>3
<1>6. CASE WaitCard
  <2>1. PICK n \in Lengths(fw.cmd), v \in Values, sw \in Values : Stream = Whole(fw.cmd, n, v, sw)
    BY <1>6 DEF WaitCard
  <2>2. n \in Nat
    BY <1>1, LengthsAre
  <2> DEFINE m == Acks(fw.cmd, n)
  <2>3. /\ Len(Stream) = m + n + 2
        /\ \A i \in 1 .. m + n + 2 :
             Stream[i] = IF i <= m THEN Ack(fw.cmd)
                         ELSE IF i <= m + n THEN Byte(fw.cmd, "dat", v)
                         ELSE IF i = m + n + 1 THEN Byte(fw.cmd, "sw1", sw)
                         ELSE Byte(fw.cmd, "sw2", sw)
    BY <2>1, <2>2, WholeAt
  <2> HIDE DEF m
  <2> QED
    BY <2>3 DEF Ack, Byte
<1> QED
  BY <1>3, <1>4, <1>5, <1>6 DEF Begun, Flow, PutInv, WaitInv, WaitMore

LEMMA PrefixIs ==
    ASSUME NEW S, NEW s \in Seq(S), NEW t \in Seq(S), Len(s) <= Len(t),
           \A i \in 1 .. Len(s) : s[i] = t[i]
    PROVE  IsPrefix(s, t)
<1>1. Len(s) \in Nat /\ Len(t) \in Nat
  OBVIOUS
<1>2. SubSeq(s, 1, Len(s)) = [i \in 1 .. Len(s) |-> s[i]]
  BY <1>1
<1>3. SubSeq(t, 1, Len(s)) = [i \in 1 .. Len(s) |-> t[i]]
  BY <1>1
<1>4. [i \in 1 .. Len(s) |-> s[i]] = [i \in 1 .. Len(s) |-> t[i]]
  OBVIOUS
<1> QED
  BY <1>2, <1>3, <1>4 DEF IsPrefix

\* The kinds of what was read begin an expected answer.
LEMMA PrefixExpected ==
    ASSUME Shape, Flow
    PROVE  \E e \in Expected : IsPrefix([i \in DOMAIN fw.got |-> fw.got[i].k], e)
<1> DEFINE ks == [i \in DOMAIN fw.got |-> fw.got[i].k]
<1>1. fw.got \in Seq(Bytes(env))
  BY StreamIs
<1>2. /\ DOMAIN fw.got = 1 .. Len(fw.got) /\ Len(fw.got) \in Nat
      /\ \A i \in 1 .. Len(fw.got) : fw.got[i].k \in Kinds
  <2>1. DOMAIN fw.got = 1 .. Len(fw.got) /\ Len(fw.got) \in Nat
    BY <1>1
  <2>2. \A i \in 1 .. Len(fw.got) : fw.got[i] \in Bytes(env)
    BY <1>1
  <2>3. \A b \in Bytes(env) : b.k \in Kinds
    BY DEF Bytes
  <2> QED
    BY <2>1, <2>2, <2>3
<1>3. ks \in Seq(Kinds) /\ Len(ks) = Len(fw.got) /\ \A i \in 1 .. Len(fw.got) : ks[i] = fw.got[i].k
  <2> DEFINE len == Len(fw.got)
  <2>1. ks = [i \in 1 .. len |-> fw.got[i].k]
    BY <1>2
  <2>2. len \in Nat /\ \A i \in 1 .. len : fw.got[i].k \in Kinds
    BY <1>2
  <2> HIDE DEF len, ks
  <2>3. ks \in [1 .. len -> Kinds]
    BY <2>1, <2>2
  <2>4. ks \in Seq(Kinds) /\ Len(ks) = len
    BY <2>2, <2>3
  <2>5. \A i \in 1 .. len : ks[i] = fw.got[i].k
    BY <2>1
  <2> QED
    BY <2>4, <2>5 DEF len
<1> HIDE DEF ks
<1>4. CASE fw.at = "off"
  <2>1. fw.got = <<>>
    BY <1>4 DEF Flow, OffInv
  <2> DEFINE e == <<>>
  <2>2. e \in Expected
    BY <1>4 DEF Expected, Shape, Begun
  <2>3. e \in Seq(Kinds) /\ Len(ks) = 0 /\ Len(e) = 0
    BY <1>3, <2>1
  <2> HIDE DEF e
  <2>4. IsPrefix(ks, e)
    <3>1. Len(ks) = 0
      BY <1>3, <2>1
    <3>2. ks = e
      <4>1. ks = <<>>
        BY <1>3, <3>1
      <4> QED
        BY <4>1 DEF e
    <3>3. Len(e) <= Len(e) /\ \A i \in 1 .. Len(e) : e[i] = e[i]
      BY <2>3
    <3> QED
      BY <2>3, <3>2, <3>3, PrefixIs
  <2> QED
    BY <2>2, <2>4 DEF ks
<1>5. CASE fw.at # "off"
  <2>1. PICK e : Foreseen(e)
    BY <1>5, ForeseenIs
  <2>2. /\ e \in Expected /\ e \in Seq(Kinds) /\ Len(Stream) <= Len(e)
        /\ \A i \in 1 .. Len(Stream) : Stream[i].k = e[i]
    BY <2>1 DEF Foreseen
  <2>3. Len(fw.got) <= Len(Stream) /\ \A i \in 1 .. Len(fw.got) : Stream[i] = fw.got[i]
    BY StreamIs
  <2>4. Len(Stream) \in Nat
    <3>1. In(uart) \in Seq(Bytes(env))
      BY StreamIs
    <3> QED
      BY <1>1, <3>1 DEF Stream
  <2>5. Len(ks) <= Len(e) /\ \A i \in 1 .. Len(ks) : ks[i] = e[i]
    <3>1. Len(e) \in Nat
      BY <2>2
    <3> QED
      BY <1>2, <1>3, <2>2, <2>3, <2>4, <3>1
  <2>6. IsPrefix(ks, e)
    BY <1>3, <2>2, <2>5, PrefixIs
  <2> QED
    BY <2>2, <2>6 DEF ks
<1> QED
  BY <1>4, <1>5

LEMMA ShapeTypeOK == Shape => TypeOK
<1> SUFFICES ASSUME Shape PROVE TypeOK
  OBVIOUS
<1>1. uart.int \subseteq {"rx", "tx", "wwt"} /\ uart.resets \in 0 .. ResetMod - 1
  BY DEF Shape, Line, UartType
<1>2. Len(uart.rx) <= RxSize /\ Len(uart.stage) <= RxSize
  BY DEF Shape, Line, Wired
<1>3. ASSUME NEW b \in Range(uart.rx \o uart.stage \o fw.got)
      PROVE  b.cmd \in env.cmds \cup {NoCmd} /\ b.k \in Kinds
  <2> DEFINE all == (uart.rx \o uart.stage) \o fw.got
  <2>1. uart.rx \in Seq(Bytes(env)) /\ uart.stage \in Seq(Bytes(env)) /\ fw.got \in Seq(Bytes(env))
    BY DEF Shape, Line, UartType, FwType
  <2>2. all \in Seq(Bytes(env))
    BY <2>1
  <2>3. b \in Range(all)
    BY <1>3
  <2> HIDE DEF all
  <2>4. PICK i \in DOMAIN all : b = all[i]
    BY <2>3 DEF Range
  <2>5. b \in Bytes(env)
    BY <2>2, <2>4
  <2> QED
    BY <2>5 DEF Bytes
<1>4. /\ card.tries \in 0 .. PinMax /\ card.puk \in 0 .. PukMax
      /\ card.sel \in Files /\ card.df \in Files /\ Kind[card.df] = "dir"
      /\ Cardinality(Overlaid(card)) <= Slots /\ card.gr \in Fitting
  BY DEF Shape, CardOk, CardType
<1>5. card.gr \in 0 .. RxSize - 3
  BY <1>4, Sizes DEF Fitting
<1> QED
  BY <1>1, <1>2, <1>3, <1>4, <1>5 DEF TypeOK

\* What the firmware reads is the answer of the command it is in, each byte in its
\* place, and its data is out before the status words come.
LEMMA FramedIs == Shape /\ Flow => Framed
<1> SUFFICES ASSUME Shape, Flow PROVE Framed
  OBVIOUS
<1>1. ASSUME fw.cmd # NoCmd, NEW b \in Range(fw.got) PROVE b.cmd = fw.cmd
  <2>1. Begun
    BY <1>1 DEF Shape
  <2>2. PICK i \in DOMAIN fw.got : b = fw.got[i]
    BY <1>1 DEF Range
  <2>3. fw.got \in Seq(Bytes(env)) /\ In(uart) \in Seq(Bytes(env))
    BY StreamIs
  <2>4. i \in 1 .. Len(fw.got) /\ Len(fw.got) \in Nat /\ Len(Stream) \in Nat
    BY <2>2, <2>3 DEF Stream
  <2>5. b = Stream[i] /\ Len(fw.got) <= Len(Stream)
    BY <2>2, <2>4, StreamIs
  <2>6. i \in 1 .. Len(Stream)
    BY <2>4, <2>5
  <2> QED
    BY <2>1, <2>5, <2>6, OwnBytes
<1>2. ASSUME InData(fw.cmd.ins), Len(fw.got) > 1 PROVE fw.sent = fw.cmd.p3
  <2>1. fw.cmd # NoCmd
    <3>1. NoCmd.ins = "none"
      BY DEF NoCmd
    <3>2. ~InData("none")
      BY DEF InData
    <3> QED
      BY <1>2, <3>1, <3>2
  <2>2. Begun /\ env \in Settings /\ fw.cmd \in env.cmds
    BY <2>1 DEF Shape
  <2>3. fw.cmd.p3 \in Nat
    BY <2>2, CmdFacts
  <2>4. Len(Stream) > 1
    <3>1. fw.got \in Seq(Bytes(env)) /\ In(uart) \in Seq(Bytes(env))
      BY StreamIs
    <3>2. Len(fw.got) \in Nat /\ Len(Stream) \in Nat
      BY <3>1 DEF Stream
    <3> QED
      BY <1>2, <3>2, StreamIs
  <2>5. Stream # <<>> /\ Stream # <<Ack(fw.cmd)>>
    <3>1. Len(<<>>) = 0 /\ Len(<<Ack(fw.cmd)>>) = 1
      OBVIOUS
    <3>2. ASSUME Stream = <<>> PROVE FALSE
      <4>1. Len(Stream) = 0
        BY <3>2
      <4> QED
        BY <2>4, <4>1
    <3>3. ASSUME Stream = <<Ack(fw.cmd)>> PROVE FALSE
      <4>1. Len(Stream) = 1
        BY <3>3
      <4> QED
        BY <2>4, <4>1
    <3> QED
      BY <3>2, <3>3
  <2>6. ~Partial /\ Counted
    BY <2>2, <2>5 DEF Begun, Flow, PutInv, WaitInv, WaitMore
  <2> QED
    BY <1>2, <2>3, <2>6 DEF Partial, Counted
<1> QED
  BY <1>1, <1>2, PrefixExpected, ShapeTypeOK DEF Framed

\* However the chunks, the pacing and the resets fall, the firmware reads the answer
\* of the command it is in and nothing else: see Framed.
THEOREM FramedAlways == Spec => []Framed
<1>1. Init => Shape /\ Flow
  BY ShapeInit, FlowInit
<1>2. Shape /\ Flow /\ [Next]_vars => Shape' /\ Flow'
  BY ShapeNext, FlowNext
<1>3. Shape /\ Flow => Framed
  BY FramedIs
<1> QED
  BY <1>1, <1>2, <1>3, PTL DEF Spec
=============================================================================
