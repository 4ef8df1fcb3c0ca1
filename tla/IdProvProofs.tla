---------------------------- MODULE IdProvProofs ----------------------------
(***************************************************************************)
(* What a run of IdProv may claim, for any prologue, buffers and runs.     *)
(*                                                                         *)
(* A tick handles everything received at once, so each part of the         *)
(* invariant is kept frame by frame (the lemmas Frame...) and carried      *)
(* through the whole ring by HandledBy.                                    *)
(*                                                                         *)
(* WrittenTrue is the hard one.  The service knows an answer by its        *)
(* command alone (identity_provision.c:463-466), so an answer left over    *)
(* from an earlier run passes for one to this run.  It cannot pass for the *)
(* answer to a write, because the ring does not hold as many answers as a  *)
(* run takes before it writes (SmallRing); Late counts them.               *)
(***************************************************************************)
EXTENDS IdProv, FiniteSetTheorems, WellFoundedInduction, TLAPS

Tools == [state : States, step : DOMAIN Prologue, next : {"writeFaid", "verify", "done"},
          expect : Commands \cup {None}, written : 0 .. 2, seq : Seqs,
          staged : Seq([cmd : Commands \cup {Ack}, seq : Seqs]),
          verified : BOOLEAN, verifyOnly : BOOLEAN, resetSent : BOOLEAN]

\* The service keeps its type and its staging buffer's size.
Service(t) == t \in Tools /\ Len(t.staged) <= StageFrames

\* The commands it has staged.
Cmds(t) == {t.staged[i].cmd : i \in DOMAIN t.staged}

\* Where the run is: at a state, or settling before one.
At(t, st) == t.state = st \/ (t.state = "settle" /\ t.next = st)

\* A reply is awaited only for the command of the state, and every state knows how
\* many records were written before it.
Shape(t) ==
    /\ t.expect # None =>
         \/ t.state = "probe" /\ t.expect = Prologue[t.step]
         \/ t.state \in DOMAIN CommandOf /\ t.expect = CommandOf[t.state]
    /\ t.state \in {"probe", "readMsid", "writeImei"} => t.written = 0
    /\ At(t, "writeFaid") => t.written = 1

\* What the service claims is so.
Truthful(t, p) ==
    /\ t.verified => "imei" \in p.stored
    /\ At(t, "done") => t.verified
    /\ (At(t, "verify") \/ At(t, "done")) /\ ~t.verifyOnly =>
         ~p.commits \/ "faid" \in p.stored

\* What a reply says is so.
Says(f, p) ==
    /\ f.good => "imei" \in p.stored
    /\ f.cmd = "write faid" => ~p.commits \/ "faid" \in p.stored

\* A verify-only run is in none of the writing states and sends nothing of theirs.
Harmless(t) ==
    t.verifyOnly =>
        /\ t.state \in {"probe", "readMsid", "verify", "done", "failed"}
        /\ Cmds(t) \cap (Writes \cup {Reset}) = {}

\* The service is what it says, whatever it has received so far.
Sound(t, p) == Service(t) /\ Shape(t) /\ Harmless(t) /\ Truthful(t, p)

Answers(out, p) == \A i \in 1 .. Len(out) : Says(out[i], p)

\* The inductive invariant of a run's claims.
Safe ==
    /\ TypeOK
    /\ Sound(tool, phone)
    /\ Says(phone.unacked, phone) /\ Answers(wire.out, phone)

\* How many answers a run has taken before it writes.
Progress(t) ==
    CASE t.state = "probe" -> t.step - 1
      [] t.state = "readMsid" -> Len(Prologue)
      [] t.state \in Ended -> 0
      [] OTHER -> Len(Prologue) + 1

\* Answers after the first i with command w that are in the ring, or may still come into it.
Comes(p, out, w, i) == p.unacked.cmd = w \/ \E j \in DOMAIN out : j > i /\ out[j].cmd = w

\* The answers after the first i, to other commands, that come before one of them.
Ahead(p, out, w, i) ==
    {k \in DOMAIN out : k > i /\ out[k].cmd # w /\ Comes(p, out, w, k)}

Late(t, p, out, done, i) ==
    \A w \in Writes \ done :
        Comes(p, out, w, i) =>
            Progress(t) + Cardinality(Ahead(p, out, w, i)) <= RingFrames

Counted(t, done) ==
    /\ t.written >= 1 => "write imei" \in done
    /\ t.written >= 2 => "write faid" \in done

-----------------------------------------------------------------------------
(* The whole ring is handled frame by frame. *)

\* A set of naturals that is not empty has a least member.
LEMMA LeastNat ==
    ASSUME NEW S, S \subseteq Nat, S # {}
    PROVE  \E m \in S : \A k \in S : m <= k
<1> DEFINE R == {xy \in Nat \X Nat : xy[1] < xy[2]}
<1>1. IsWellFoundedOn(R, Nat)
  BY NatLessThanWellFounded DEF OpToRel
<1>2. PICK m \in S : \A k \in S : <<k, m>> \notin R
  <2> HIDE DEF R
  <2> QED  BY <1>1, WFMin
<1>3. ASSUME NEW k \in S PROVE m <= k
  <2>1. m \in Nat /\ k \in Nat /\ ~(k < m)
    <3>1. <<k, m>> \notin R
      BY <1>2
    <3>2. <<k, m>> \in Nat \X Nat /\ <<k, m>>[1] = k /\ <<k, m>>[2] = m
      OBVIOUS
    <3> QED  BY <3>1, <3>2
  <2> QED  BY <2>1
<1> QED  BY <1>3

\* The service after each of the first n frames.
After(f, t, out, n) ==
    f = [i \in 0 .. n |-> IF i = 0 THEN t ELSE OnFrame(f[i - 1], out[i])]

LEMMA AfterGrows ==
    ASSUME NEW t, NEW out, NEW n \in Nat, NEW f, After(f, t, out, n)
    PROVE  \E g : After(g, t, out, n + 1)
<1> DEFINE g == [i \in 0 .. n + 1 |-> IF i <= n THEN f[i] ELSE OnFrame(f[n], out[n + 1])]
           h == [i \in 0 .. n + 1 |-> IF i = 0 THEN t ELSE OnFrame(g[i - 1], out[i])]
<1>1. ASSUME NEW i \in 0 .. n + 1 PROVE g[i] = h[i]
  <2>1. CASE i = 0
    <3>1. f[0] = t
      BY DEF After
    <3> QED  BY <2>1, <3>1
  <2>2. CASE i # 0 /\ i <= n
    <3>1. i - 1 \in 0 .. n + 1 /\ i - 1 <= n /\ i \in 0 .. n
      BY <2>2
    <3>2. f[i] = OnFrame(f[i - 1], out[i])
      BY <2>2, <3>1 DEF After
    <3> QED  BY <2>2, <3>1, <3>2
  <2>3. CASE i = n + 1
    <3>1. n \in 0 .. n + 1 /\ g[n] = f[n] /\ i - 1 = n /\ ~(i <= n) /\ i # 0
      BY <2>3
    <3> QED  BY <2>3, <3>1
  <2> QED  BY <2>1, <2>2, <2>3
<1>2. g = h
  BY <1>1
<1> QED  BY <1>2 DEF After

LEMMA AfterExists ==
    ASSUME NEW t, NEW out, NEW n \in Nat
    PROVE  \E f : After(f, t, out, n)
<1> DEFINE Bad == {k \in Nat : ~ \E f : After(f, t, out, k)}
<1>1. 0 \notin Bad
  <2> DEFINE f == [i \in 0 .. 0 |-> t]
  <2>1. f = [i \in 0 .. 0 |-> IF i = 0 THEN t ELSE OnFrame(f[i - 1], out[i])]
    OBVIOUS
  <2>2. After(f, t, out, 0)
    BY <2>1 DEF After
  <2> QED  BY <2>2
<1>2. ASSUME NEW m \in Bad, \A k \in Bad : m <= k PROVE FALSE
  <2>1. m # 0 /\ m - 1 \in Nat /\ m - 1 \notin Bad /\ (m - 1) + 1 = m
    BY <1>1, <1>2
  <2>2. PICK f : After(f, t, out, m - 1)
    BY <2>1
  <2>3. \E g : After(g, t, out, m)
    BY <2>1, <2>2, AfterGrows
  <2> QED  BY <1>2, <2>3
<1>3. Bad = {}
  BY <1>2, LeastNat
<1> QED  BY <1>3

\* If the service is in P[0] and every frame takes it from one set to the next, it is
\* in the last one when all are handled.
LEMMA HandledBy ==
    ASSUME NEW t, NEW out, Len(out) \in Nat, NEW P, t \in P[0],
           \A i \in 1 .. Len(out) : \A u \in P[i - 1] : OnFrame(u, out[i]) \in P[i]
    PROVE  Handled(t, out) \in P[Len(out)]
<1> DEFINE n == Len(out)
           f == CHOOSE f : After(f, t, out, n)
<1>1. After(f, t, out, n)
  BY AfterExists
<1>2. Handled(t, out) = f[n]
  BY DEF Handled, After
<1> HIDE DEF f
<1>3. f[0] = t /\ \A i \in 1 .. n : f[i] = OnFrame(f[i - 1], out[i])
  <2>1. 0 \in 0 .. n
    OBVIOUS
  <2>2. \A i \in 1 .. n : i \in 0 .. n /\ i # 0
    OBVIOUS
  <2> QED  BY <1>1, <2>1, <2>2 DEF After
<1> DEFINE Bad == {i \in 0 .. n : f[i] \notin P[i]}
<1>4. ASSUME NEW m \in Bad, \A k \in Bad : m <= k PROVE FALSE
  <2>1. m # 0 /\ m \in 1 .. n /\ m - 1 \in 0 .. n /\ m - 1 \notin Bad
    BY <1>3, <1>4
  <2>2. f[m - 1] \in P[m - 1]
    BY <2>1
  <2>3. OnFrame(f[m - 1], out[m]) \in P[m]
    BY <2>1, <2>2
  <2> QED  BY <1>3, <2>1, <2>3
<1>5. Bad = {}
  <2>1. Bad \subseteq Nat
    OBVIOUS
  <2> HIDE DEF Bad
  <2> QED  BY <1>4, <2>1, LeastNat
<1>6. n \in 0 .. n
  OBVIOUS
<1> QED  BY <1>2, <1>5, <1>6

-----------------------------------------------------------------------------
(* What the service's operators make of it. *)

\* Nothing but the buffer, the awaited command and the sequence number differs.
Same(v, t) ==
    /\ v.state = t.state /\ v.step = t.step /\ v.next = t.next /\ v.written = t.written
    /\ v.verified = t.verified /\ v.verifyOnly = t.verifyOnly /\ v.resetSent = t.resetSent

LEMMA StageIs ==
    ASSUME NEW t, Service(t), NEW c \in Commands \cup {Ack}, NEW q \in Seqs
    PROVE  LET v == Stage(t, Frame(c, q))
           IN  /\ Service(v) /\ Same(v, t) /\ v.expect = t.expect /\ v.seq = t.seq
               /\ Cmds(v) \subseteq Cmds(t) \cup {c}
<1> DEFINE F == [cmd : Commands \cup {Ack}, seq : Seqs]
           s == t.staged
           g == Append(s, Frame(c, q))
           v == Stage(t, Frame(c, q))
<1>1. s \in Seq(F) /\ Len(s) <= StageFrames /\ StageFrames \in Nat
  BY IdProvAssumption DEF Service, Tools
<1>2. Frame(c, q) \in F /\ Frame(c, q).cmd = c
  BY DEF Frame
<1>3. CASE Len(s) < StageFrames
  <2>1. g \in Seq(F) /\ Len(g) = Len(s) + 1 /\ DOMAIN g = 1 .. Len(s) + 1
    BY <1>1, <1>2
  <2>2. \A i \in DOMAIN g : g[i].cmd = c \/ (i \in DOMAIN s /\ g[i].cmd = s[i].cmd)
    <3>1. DOMAIN s = 1 .. Len(s)
      BY <1>1
    <3>2. \A i \in 1 .. Len(s) : g[i] = s[i]
      BY <1>1, <1>2
    <3>3. g[Len(s) + 1] = Frame(c, q)
      BY <1>1, <1>2
    <3>4. Len(s) \in Nat
      BY <1>1
    <3> HIDE DEF g, s
    <3>5. ASSUME NEW i \in DOMAIN g
          PROVE  g[i].cmd = c \/ (i \in DOMAIN s /\ g[i].cmd = s[i].cmd)
      <4>1. i = Len(s) + 1 \/ i \in 1 .. Len(s)
        BY <2>1, <3>4, <3>5
      <4> QED  BY <1>2, <3>1, <3>2, <3>3, <4>1
    <3> QED  BY <3>5
  <2>3. v = [t EXCEPT !.staged = g]
    BY <1>3 DEF Stage
  <2> HIDE DEF g, v
  <2>4. v \in Tools /\ v.staged = g /\ Same(v, t) /\ v.expect = t.expect /\ v.seq = t.seq
    BY <2>1, <2>3 DEF Service, Tools, Same
  <2>5. Service(v)
    BY <1>1, <1>3, <2>1, <2>4 DEF Service
  <2>6. Cmds(v) \subseteq Cmds(t) \cup {c}
    BY <2>2, <2>4 DEF Cmds
  <2> QED  BY <2>4, <2>5, <2>6 DEF v
<1>4. CASE ~(Len(s) < StageFrames)
  <2>1. v = t
    BY <1>4 DEF Stage
  <2> QED  BY <2>1 DEF Same
<1> QED  BY <1>3, <1>4

LEMMA SendIs ==
    ASSUME NEW t, Service(t), NEW c \in Commands
    PROVE  LET v == Send(t, c)
           IN  /\ Service(v) /\ Same(v, t) /\ v.expect = c
               /\ Cmds(v) \subseteq Cmds(t) \cup {c}
<1> DEFINE u == Stage(t, Frame(c, t.seq))
           v == Send(t, c)
<1>1. t.seq \in Seqs
  BY DEF Service, Tools
<1>2. Service(u) /\ Same(u, t) /\ Cmds(u) \subseteq Cmds(t) \cup {c}
  BY <1>1, StageIs
<1>3. v = [u EXCEPT !.expect = c]
  BY DEF Send
<1> HIDE DEF u, v
<1>4. v \in Tools /\ v.expect = c /\ v.staged = u.staged /\ Same(v, u)
  BY <1>2, <1>3 DEF Service, Tools, Same
<1>5. Service(v) /\ Cmds(v) = Cmds(u) /\ Same(v, t)
  BY <1>2, <1>4 DEF Service, Cmds, Same
<1> QED  BY <1>2, <1>4, <1>5 DEF v

\* A state other than the reset sends its command and waits for the reply.
LEMMA BeginStateIs ==
    ASSUME NEW t, Service(t), NEW st \in DOMAIN CommandOf
    PROVE  LET v == BeginState(t, st)
           IN  /\ Service(v)
               /\ v.state = st /\ v.expect = CommandOf[st]
               /\ v.step = t.step /\ v.next = t.next /\ v.written = t.written
               /\ v.verified = t.verified /\ v.verifyOnly = t.verifyOnly
               /\ Cmds(v) \subseteq Cmds(t) \cup {CommandOf[st]}
<1> DEFINE u == [t EXCEPT !.state = st]
           c == CommandOf[st]
           v == BeginState(t, st)
<1>1. st \in States /\ st # "reset" /\ c \in Commands
  <2>1. DOMAIN CommandOf = {"readMsid", "writeImei", "writeFaid", "verify"}
    BY DEF CommandOf
  <2>2. CASE st = "readMsid"
    BY <2>2 DEF CommandOf, States, Commands
  <2>3. CASE st = "writeImei"
    BY <2>3 DEF CommandOf, States, Commands, Writes
  <2>4. CASE st = "writeFaid"
    BY <2>4 DEF CommandOf, States, Commands, Writes
  <2>5. CASE st = "verify"
    BY <2>5 DEF CommandOf, States, Commands
  <2> QED  BY <2>1, <2>2, <2>3, <2>4, <2>5
<1>2. v = Send(u, c)
  BY <1>1 DEF BeginState
<1>3. /\ u \in Tools /\ u.state = st /\ u.staged = t.staged
      /\ u.step = t.step /\ u.next = t.next /\ u.written = t.written
      /\ u.verified = t.verified /\ u.verifyOnly = t.verifyOnly
  BY <1>1 DEF Service, Tools
<1> HIDE DEF u, c, v
<1>4. Service(u) /\ Cmds(u) = Cmds(t)
  BY <1>3 DEF Service, Cmds
<1>5. Service(v) /\ Same(v, u) /\ v.expect = c /\ Cmds(v) \subseteq Cmds(u) \cup {c}
  BY <1>1, <1>2, <1>4, SendIs
<1> QED  BY <1>3, <1>4, <1>5 DEF v, c, Same

\* The reset sends its command, waits for nothing and settles before the end.
LEMMA BeginResetIs ==
    ASSUME NEW t, Service(t)
    PROVE  LET v == BeginState(t, "reset")
           IN  /\ Service(v)
               /\ v.state = "settle" /\ v.next = "done" /\ v.expect = None
               /\ v.step = t.step /\ v.written = t.written
               /\ v.verified = t.verified /\ v.verifyOnly = t.verifyOnly
<1> DEFINE u == Send(t, Reset)
           v == BeginState(t, "reset")
<1>1. Service(u) /\ Same(u, t)
  <2>1. Reset \in Commands
    BY DEF Commands
  <2> QED  BY <2>1, SendIs
<1>2. v = [[u EXCEPT !.state = "settle", !.next = "done"] EXCEPT !.expect = None, !.resetSent = TRUE]
  BY DEF BeginState, Settle
<1> HIDE DEF u, v
<1>3. /\ v \in Tools /\ v.state = "settle" /\ v.next = "done" /\ v.expect = None
      /\ v.step = u.step /\ v.written = u.written /\ v.staged = u.staged
      /\ v.verified = u.verified /\ v.verifyOnly = u.verifyOnly
  BY <1>1, <1>2 DEF Service, Tools, States
<1> QED  BY <1>1, <1>3 DEF Service, Same, v

-----------------------------------------------------------------------------
(* One frame. *)

\* The commands that change nothing in the phone.
Quiet == (Commands \cup {Ack}) \ (Writes \cup {Reset})

\* What the awaited answer f makes of t.
Answered(t, f, e) ==
    \/ /\ t.state = "probe" /\ t.step < Len(Prologue)
       /\ e.state = "probe" /\ e.step = t.step + 1
       /\ e.written = t.written /\ e.verified = t.verified
    \/ /\ t.state = "probe" /\ t.step >= Len(Prologue) /\ e.state = "readMsid"
       /\ e.written = t.written /\ e.verified = t.verified
    \/ /\ t.state = "readMsid" /\ e.state = IF t.verifyOnly THEN "verify" ELSE "writeImei"
       /\ e.written = t.written /\ e.verified = t.verified
    \/ /\ t.state = "writeImei" /\ e.state = "settle" /\ e.next = "writeFaid"
       /\ e.written = t.written + 1 /\ e.verified = t.verified
    \/ /\ t.state = "writeFaid" /\ e.state = "settle" /\ e.next = "verify"
       /\ e.written = t.written + 1 /\ e.verified = t.verified
    \/ /\ t.state = "verify" /\ e.written = t.written /\ e.verified = f.good
       /\ \/ ~f.good /\ e.state = "failed"
          \/ f.good /\ t.verifyOnly /\ e.state = "done"
          \/ f.good /\ ~t.verifyOnly /\ e.state = "settle" /\ e.next = "done"

\* A command of the prologue is one that changes nothing.
LEMMA PrologueQuiet ==
    /\ \A i \in DOMAIN Prologue : Prologue[i] \in Commands /\ Prologue[i] \in Quiet /\ Prologue[i] # None
    /\ DOMAIN Prologue = 1 .. Len(Prologue) /\ Len(Prologue) \in Nat \ {0}
<1>1. \A i \in DOMAIN Prologue : Prologue[i] \in Commands
  BY DEF Commands
<1>2. ASSUME NEW i \in DOMAIN Prologue PROVE Prologue[i] \notin Writes \cup {Reset, None}
  <2> DEFINE P == {Prologue[k] : k \in DOMAIN Prologue}
  <2>1. Prologue[i] \in P
    OBVIOUS
  <2>2. P \cap ({Reset, Ack, None, "read msid"} \cup Writes) = {}
    BY IdProvAssumption
  <2> HIDE DEF P
  <2> QED  BY <2>1, <2>2
<1>3. DOMAIN Prologue = 1 .. Len(Prologue) /\ Len(Prologue) \in Nat \ {0}
  <2>1. Prologue \in Seq(STRING) /\ Prologue # <<>>
    BY IdProvAssumption
  <2> QED  BY <2>1
<1> QED  BY <1>1, <1>2, <1>3 DEF Quiet

\* A state that is begun waits for its own command.
LEMMA BegunShape ==
    ASSUME NEW t, Service(t), NEW st \in DOMAIN CommandOf, t.expect = None,
           st \in {"readMsid", "writeImei"} => t.written = 0, st = "writeFaid" => t.written = 1
    PROVE  Shape(BeginState(t, st))
<1> DEFINE v == BeginState(t, st)
<1>1. v.state = st /\ v.expect = CommandOf[st] /\ v.written = t.written
  BY BeginStateIs
<1> HIDE DEF v
<1>2. DOMAIN CommandOf = {"readMsid", "writeImei", "writeFaid", "verify"}
  BY DEF CommandOf
<1>3. st # "probe" /\ st # "settle"
  BY <1>2
<1> QED  BY <1>1, <1>2, <1>3 DEF Shape, At, v

\* The answer to the command of a state is taken, and the next command sent.
LEMMA ReplyIs ==
    ASSUME NEW b, Service(b), NEW t, Service(t), Shape(t), Same(b, t), t.expect # None,
           b.expect = None, NEW f \in Replies
    PROVE  LET e == OnReply(b, f)
           IN  /\ Service(e) /\ Shape(e)
               /\ e.verifyOnly = t.verifyOnly
               /\ t.verifyOnly => Cmds(e) \subseteq Cmds(b) \cup Quiet
               /\ Answered(t, f, e)
<1> DEFINE e == OnReply(b, f)
           Goal == /\ Service(e) /\ Shape(e)
                   /\ e.verifyOnly = t.verifyOnly
                   /\ t.verifyOnly => Cmds(e) \subseteq Cmds(b) \cup Quiet
                   /\ Answered(t, f, e)
<1>0. t.state \in {"probe", "readMsid", "writeImei", "writeFaid", "verify"}
  BY DEF Shape, CommandOf
<1>1. CASE t.state = "probe" /\ t.step < Len(Prologue)
  <2> DEFINE u == [b EXCEPT !.step = b.step + 1]
             c == Prologue[b.step + 1]
  <2>1. b.step \in DOMAIN Prologue /\ b.step = t.step /\ b.step + 1 \in DOMAIN Prologue
    BY <1>1, PrologueQuiet DEF Same, Service, Tools
  <2>2. c \in Commands /\ c \in Quiet
    BY <2>1, PrologueQuiet
  <2>3. e = Send(u, c)
    BY <1>1 DEF OnReply, Same
  <2>4. /\ u \in Tools /\ u.staged = b.staged /\ u.step = t.step + 1 /\ u.state = "probe"
        /\ u.written = t.written /\ u.verified = t.verified /\ u.verifyOnly = t.verifyOnly
    BY <1>1, <2>1 DEF Service, Tools, Same
  <2> HIDE DEF u, e
  <2>5. Service(u) /\ Cmds(u) = Cmds(b)
    BY <2>4 DEF Service, Cmds
  <2>6. Service(e) /\ Same(e, u) /\ e.expect = c /\ Cmds(e) \subseteq Cmds(u) \cup {c}
    BY <2>2, <2>3, <2>5, SendIs
  <2>7. Shape(e)
    BY <1>1, <2>1, <2>4, <2>6 DEF Shape, Same, At
  <2>8. Answered(t, f, e)
    BY <1>1, <2>4, <2>6 DEF Answered, Same
  <2> QED  BY <2>2, <2>4, <2>5, <2>6, <2>7, <2>8 DEF Same, e
<1>2. CASE t.state = "probe" /\ ~(t.step < Len(Prologue))
  <2>1. e = BeginState(b, "readMsid") /\ "readMsid" \in DOMAIN CommandOf /\ CommandOf["readMsid"] \in Quiet
    BY <1>2 DEF OnReply, Same, CommandOf, Quiet, Commands, Writes, Reset
  <2>2. b.written = 0
    BY <1>2 DEF Shape, Same
  <2>3. /\ Service(e) /\ e.state = "readMsid" /\ Cmds(e) \subseteq Cmds(b) \cup {CommandOf["readMsid"]}
        /\ e.written = b.written /\ e.verified = b.verified /\ e.verifyOnly = b.verifyOnly
    BY <2>1, BeginStateIs
  <2>4. Shape(e)
    BY <2>1, <2>2, BegunShape
  <2>5. t.step \in Nat /\ Len(Prologue) \in Nat
    BY PrologueQuiet DEF Service, Tools
  <2> HIDE DEF e
  <2>6. Answered(t, f, e)
    BY <1>2, <2>3, <2>5 DEF Answered, Same
  <2> QED  BY <2>1, <2>3, <2>4, <2>6 DEF Same, e
<1>3. CASE t.state = "readMsid"
  <2> DEFINE st == IF t.verifyOnly THEN "verify" ELSE "writeImei"
  <2>1. e = BeginState(b, st) /\ st \in DOMAIN CommandOf /\ st # "writeFaid"
    BY <1>3 DEF OnReply, Same, CommandOf
  <2>2. b.written = 0
    BY <1>3 DEF Shape, Same
  <2>3. t.verifyOnly => CommandOf[st] \in Quiet
    BY DEF CommandOf, Quiet, Commands, Writes, Reset
  <2>4. /\ Service(e) /\ e.state = st /\ Cmds(e) \subseteq Cmds(b) \cup {CommandOf[st]}
        /\ e.written = b.written /\ e.verified = b.verified /\ e.verifyOnly = b.verifyOnly
    BY <2>1, BeginStateIs
  <2>5. Shape(e)
    BY <2>1, <2>2, BegunShape
  <2> HIDE DEF e
  <2>6. Answered(t, f, e)
    BY <1>3, <2>4 DEF Answered, Same
  <2> QED  BY <2>3, <2>4, <2>5, <2>6 DEF Same, e
<1>4. CASE t.state \in {"writeImei", "writeFaid"}
  <2> DEFINE next == IF t.state = "writeImei" THEN "writeFaid" ELSE "verify"
             u == [b EXCEPT !.written = b.written + 1]
  <2>1. e = Settle(u, next) /\ next \in {"writeFaid", "verify", "done"}
    BY <1>4 DEF OnReply, Same
  <2>2. /\ t.state = "writeImei" => b.written = 0
        /\ t.state = "writeFaid" => b.written = 1
    BY <1>4 DEF Shape, Same, At
  <2>3. b.written + 1 \in 0 .. 2
    BY <1>4, <2>2
  <2>4. /\ u \in Tools /\ u.staged = b.staged /\ u.written = b.written + 1 /\ u.expect = None
        /\ u.verified = b.verified /\ u.verifyOnly = b.verifyOnly
    BY <2>3 DEF Service, Tools
  <2>5. e = [u EXCEPT !.state = "settle", !.next = next]
    BY <2>1 DEF Settle
  <2> HIDE DEF u, e
  <2>6. /\ e \in Tools /\ e.staged = b.staged /\ e.written = b.written + 1 /\ e.expect = None
        /\ e.verified = b.verified /\ e.verifyOnly = b.verifyOnly
        /\ e.state = "settle" /\ e.next = next
    BY <2>1, <2>4, <2>5 DEF Tools, States
  <2>7. Service(e) /\ Cmds(e) = Cmds(b)
    BY <2>6 DEF Service, Cmds
  <2>8. Shape(e)
    BY <1>4, <2>2, <2>6 DEF Shape, At
  <2>9. Answered(t, f, e)
    BY <1>4, <2>6 DEF Answered, Same
  <2> QED  BY <2>6, <2>7, <2>8, <2>9 DEF Same, e
<1>5. CASE t.state = "verify"
  <2> DEFINE v == [b EXCEPT !.verified = f.good]
  <2>1. e = OnVerify(b, f)
    BY <1>5 DEF OnReply, Same
  <2>2. f.good \in BOOLEAN
    BY DEF Replies
  <2>3. /\ v \in Tools /\ v.staged = b.staged /\ v.written = b.written /\ v.expect = None
        /\ v.verified = f.good /\ v.verifyOnly = b.verifyOnly
    BY <2>2 DEF Service, Tools
  <2>4. e = IF ~f.good THEN [v EXCEPT !.state = "failed"]
            ELSE IF b.verifyOnly THEN [v EXCEPT !.state = "done"]
            ELSE BeginState(v, "reset")
    BY <2>1 DEF OnVerify
  <2> HIDE DEF v, e
  <2>5. Service(v) /\ Cmds(v) = Cmds(b)
    BY <2>3 DEF Service, Cmds
  <2>6. CASE ~f.good \/ b.verifyOnly
    <3> DEFINE st == IF ~f.good THEN "failed" ELSE "done"
    <3>1. e = [v EXCEPT !.state = st]
      BY <2>4, <2>6
    <3>2. st \in States /\ st \in {"failed", "done"}
      BY DEF States, Ended
    <3> HIDE DEF st
    <3>3. /\ e \in Tools /\ e.staged = b.staged /\ e.written = b.written /\ e.expect = None
          /\ e.verified = f.good /\ e.verifyOnly = b.verifyOnly /\ e.state = st
      BY <2>3, <3>1, <3>2 DEF Tools
    <3>4. Service(e) /\ Cmds(e) = Cmds(b)
      BY <3>3, <2>5 DEF Service, Cmds
    <3>5. Shape(e)
      BY <3>2, <3>3 DEF Shape, At
    <3>6. Answered(t, f, e)
      BY <1>5, <2>6, <3>3 DEF Answered, Same, st
    <3> QED  BY <3>3, <3>4, <3>5, <3>6 DEF Same, e
  <2>7. CASE f.good /\ ~b.verifyOnly
    <3>1. e = BeginState(v, "reset")
      BY <2>4, <2>7
    <3>2. /\ Service(e) /\ e.state = "settle" /\ e.next = "done" /\ e.expect = None
          /\ e.written = v.written /\ e.verified = v.verified /\ e.verifyOnly = v.verifyOnly
      BY <2>5, <3>1, BeginResetIs
    <3>3. Shape(e)
      BY <3>2 DEF Shape, At
    <3>4. Answered(t, f, e)
      BY <1>5, <2>3, <2>7, <3>2 DEF Answered, Same
    <3> QED  BY <2>3, <2>7, <3>2, <3>3, <3>4 DEF Same, e
  <2> QED  BY <2>2, <2>6, <2>7
<1> QED  BY <1>0, <1>1, <1>2, <1>3, <1>4, <1>5

\* A frame is acknowledged, and taken only for the awaited answer.
LEMMA FrameIs ==
    ASSUME NEW t, Service(t), Shape(t), NEW f \in Replies
    PROVE  LET e == OnFrame(t, f)
           IN  /\ Service(e) /\ Shape(e)
               /\ e.verifyOnly = t.verifyOnly
               /\ t.verifyOnly => Cmds(e) \subseteq Cmds(t) \cup Quiet
               /\ Same(e, t) \/ (t.expect # None /\ f.cmd = t.expect /\ Answered(t, f, e))
<1> DEFINE a == Stage(t, Frame(Ack, f.seq))
           b == [a EXCEPT !.seq = f.seq, !.expect = None]
           e == OnFrame(t, f)
<1>1. f.seq \in Seqs
  BY DEF Replies
<1>2. Service(a) /\ Same(a, t) /\ a.expect = t.expect /\ Cmds(a) \subseteq Cmds(t) \cup {Ack}
  BY <1>1, StageIs
<1>3. e = IF Hits(t, f) THEN OnReply(b, f) ELSE a
  BY DEF OnFrame
<1>4. Ack \in Quiet
  BY DEF Quiet, Ack, Writes, Reset
<1> HIDE DEF a, e
<1>5. CASE Hits(t, f)
  <2>1. b \in Tools /\ b.staged = a.staged /\ b.expect = None /\ Same(b, a)
    BY <1>1, <1>2 DEF Service, Tools, Same
  <2> HIDE DEF b
  <2>2. Service(b) /\ Cmds(b) = Cmds(a) /\ Same(b, t)
    BY <1>2, <2>1 DEF Service, Cmds, Same
  <2>3. t.expect # None /\ f.cmd = t.expect
    BY <1>5 DEF Hits
  <2>4. /\ Service(e) /\ Shape(e) /\ e.verifyOnly = t.verifyOnly
        /\ t.verifyOnly => Cmds(e) \subseteq Cmds(b) \cup Quiet
        /\ Answered(t, f, e)
    BY <1>3, <1>5, <2>1, <2>2, <2>3, ReplyIs
  <2> QED  BY <1>2, <1>4, <2>2, <2>3, <2>4 DEF e
<1>6. CASE ~Hits(t, f)
  <2>1. e = a
    BY <1>3, <1>6
  <2>2. Shape(e)
    BY <1>2, <2>1 DEF Shape, At, Same
  <2> QED  BY <1>2, <1>4, <2>1, <2>2 DEF Same, e
<1> QED  BY <1>5, <1>6

\* Where an answer was awaited, its command tells the state.
LEMMA AwaitedIs ==
    ASSUME NEW t, Shape(t), t.expect # None
    PROVE  /\ t.state \in {"probe", "readMsid", "writeImei", "writeFaid", "verify"}
           /\ t.state = "probe" => t.expect = Prologue[t.step]
           /\ t.state = "readMsid" => t.expect = "read msid"
           /\ t.state = "writeImei" => t.expect = "write imei"
           /\ t.state = "writeFaid" => t.expect = "write faid"
           /\ t.state = "verify" => t.expect = "read imei"
<1>1. DOMAIN CommandOf = {"readMsid", "writeImei", "writeFaid", "verify"}
  BY DEF CommandOf
<1>2. /\ CommandOf["readMsid"] = "read msid" /\ CommandOf["writeImei"] = "write imei"
      /\ CommandOf["writeFaid"] = "write faid" /\ CommandOf["verify"] = "read imei"
  BY DEF CommandOf
<1> QED  BY <1>1, <1>2 DEF Shape

\* A true answer keeps the service's claims true.
LEMMA FrameTruth ==
    ASSUME NEW t, Service(t), Shape(t), NEW p, Truthful(t, p),
           NEW f \in Replies, Says(f, p)
    PROVE  Truthful(OnFrame(t, f), p)
<1> DEFINE e == OnFrame(t, f)
<1>1. /\ e.verifyOnly = t.verifyOnly
      /\ Same(e, t) \/ (t.expect # None /\ f.cmd = t.expect /\ Answered(t, f, e))
  BY FrameIs
<1> HIDE DEF e
<1>2. CASE Same(e, t)
  BY <1>2 DEF Same, Truthful, At, e
<1>3. CASE t.expect # None /\ f.cmd = t.expect /\ Answered(t, f, e)
  <2>1. CASE t.state = "writeFaid"
    <3>1. f.cmd = "write faid"
      BY <1>3, <2>1, AwaitedIs
    <3>2. e.state = "settle" /\ e.next = "verify" /\ e.verified = t.verified
      BY <1>3, <2>1 DEF Answered
    <3> QED  BY <3>1, <3>2 DEF Truthful, Says, At, e
  <2>2. CASE t.state = "verify"
    <3>1. /\ e.verified = f.good
          /\ \/ ~f.good /\ e.state = "failed"
             \/ f.good /\ t.verifyOnly /\ e.state = "done"
             \/ f.good /\ ~t.verifyOnly /\ e.state = "settle" /\ e.next = "done"
      BY <1>3, <2>2 DEF Answered
    <3>2. f.good \in BOOLEAN
      BY DEF Replies
    <3> QED  BY <1>1, <2>2, <3>1, <3>2 DEF Truthful, Says, At, e
  <2>3. CASE t.state \notin {"writeFaid", "verify"}
    <3>1. /\ e.verified = t.verified
          /\ ~At(e, "done")
          /\ At(e, "verify") => e.verifyOnly
      BY <1>1, <1>3, <2>3 DEF Answered, At
    <3> QED  BY <3>1 DEF Truthful, e
  <2> QED  BY <2>1, <2>2, <2>3
<1> QED  BY <1>1, <1>2, <1>3 DEF e

\* A verify-only run stays one: no answer takes it into a writing state.
LEMMA FrameHarmless ==
    ASSUME NEW t, Service(t), Shape(t), Harmless(t), NEW f \in Replies
    PROVE  Harmless(OnFrame(t, f))
<1> DEFINE e == OnFrame(t, f)
<1>1. /\ e.verifyOnly = t.verifyOnly
      /\ t.verifyOnly => Cmds(e) \subseteq Cmds(t) \cup Quiet
      /\ Same(e, t) \/ (t.expect # None /\ f.cmd = t.expect /\ Answered(t, f, e))
  BY FrameIs
<1> HIDE DEF e
<1>2. Quiet \cap (Writes \cup {Reset}) = {}
  BY DEF Quiet
<1>3. ASSUME t.verifyOnly
      PROVE  e.state \in {"probe", "readMsid", "verify", "done", "failed"}
  <2>1. t.state \in {"probe", "readMsid", "verify", "done", "failed"}
    BY <1>3 DEF Harmless
  <2>2. CASE Same(e, t)
    BY <2>1, <2>2 DEF Same
  <2>3. CASE Answered(t, f, e)
    BY <1>3, <2>1, <2>3 DEF Answered
  <2> QED  BY <1>1, <2>2, <2>3
<1> QED  BY <1>1, <1>2, <1>3 DEF Harmless, e

\* So the whole ring does.
LEMMA RingTruth ==
    ASSUME NEW t, NEW p, Sound(t, p), NEW out \in Seq(Replies), Answers(out, p)
    PROVE  Sound(Handled(t, out), p)
<1> DEFINE n == Len(out)
           S == {u \in Tools : Sound(u, p)}
           P == [i \in 0 .. n |-> S]
<1>1. n \in Nat /\ \A i \in 1 .. n : out[i] \in Replies
  OBVIOUS
<1>2. t \in S
  BY DEF Sound, Service
<1>3. ASSUME NEW u \in S, NEW i \in 1 .. n PROVE OnFrame(u, out[i]) \in S
  <2>1. out[i] \in Replies /\ Says(out[i], p) /\ Service(u) /\ Shape(u) /\ Harmless(u) /\ Truthful(u, p)
    BY <1>1, <1>3 DEF Answers, Sound
  <2>2. Service(OnFrame(u, out[i])) /\ Shape(OnFrame(u, out[i]))
    BY <2>1, FrameIs
  <2>3. Harmless(OnFrame(u, out[i]))
    BY <2>1, FrameHarmless
  <2>4. Truthful(OnFrame(u, out[i]), p)
    BY <2>1, FrameTruth
  <2>5. OnFrame(u, out[i]) \in Tools
    BY <2>2 DEF Service
  <2> QED  BY <2>2, <2>3, <2>4, <2>5 DEF Sound
<1> HIDE DEF S
<1>4. P[0] = S /\ P[n] = S /\ \A i \in 1 .. n : P[i - 1] = S /\ P[i] = S
  <2>1. 0 \in 0 .. n /\ n \in 0 .. n /\ \A i \in 1 .. n : i - 1 \in 0 .. n /\ i \in 0 .. n
    BY <1>1
  <2> QED  BY <2>1
<1> HIDE DEF P
<1>5. Handled(t, out) \in P[n]
  BY <1>1, <1>2, <1>3, <1>4, HandledBy
<1> QED  BY <1>4, <1>5 DEF S

-----------------------------------------------------------------------------
(* The ticks and the phone. *)

\* What has been stored stays, so what was true of it stays.
LEMMA StoredGrows ==
    ASSUME NEW p, NEW q, p.stored \subseteq q.stored, q.commits = p.commits
    PROVE  /\ \A t : Truthful(t, p) => Truthful(t, q)
           /\ \A t : Sound(t, p) => Sound(t, q)
           /\ \A f : Says(f, p) => Says(f, q)
           /\ \A out : Answers(out, p) => Answers(out, q)
<1>1. \A t : Truthful(t, p) => Truthful(t, q)
  BY DEF Truthful
<1>2. \A f : Says(f, p) => Says(f, q)
  BY DEF Says
<1> QED  BY <1>1, <1>2 DEF Answers, Sound

\* An empty buffer fits and holds no command.
LEMMA NothingStaged ==
    /\ <<>> \in Seq([cmd : Commands \cup {Ack}, seq : Seqs])
    /\ \A t \in Tools : t.staged = <<>> => Service(t) /\ Cmds(t) = {}
<1>1. ASSUME NEW t \in Tools, t.staged = <<>> PROVE Service(t) /\ Cmds(t) = {}
  <2>1. Len(t.staged) = 0 /\ DOMAIN t.staged = {}
    BY <1>1
  <2>2. StageFrames \in Nat
    BY IdProvAssumption
  <2> QED  BY <2>1, <2>2 DEF Service, Cmds
<1> QED  BY <1>1

\* A run that has failed claims nothing.
LEMMA FailIs ==
    ASSUME NEW t, Service(t), NEW p, t.verified => "imei" \in p.stored
    PROVE  Sound(Fail(t), p) /\ Fail(t).state = "failed" /\ Fail(t).written = t.written
<1> DEFINE v == Fail(t)
<1>1. v = [t EXCEPT !.state = "failed", !.expect = None, !.staged = <<>>]
  BY DEF Fail
<1> HIDE DEF v
<1>2. /\ v \in Tools /\ v.state = "failed" /\ v.expect = None /\ v.staged = <<>>
      /\ v.verified = t.verified /\ v.written = t.written
  <2>1. "failed" \in States /\ None \in Commands \cup {None}
    BY DEF States, Ended
  <2> QED  BY <1>1, <2>1, NothingStaged DEF Service, Tools
<1>3. Service(v) /\ Cmds(v) = {}
  BY <1>2, NothingStaged
<1>4. Shape(v) /\ Harmless(v) /\ Truthful(v, p)
  BY <1>2, <1>3 DEF Shape, Harmless, Truthful, At
<1> QED  BY <1>2, <1>3, <1>4 DEF Sound, v

\* A new run has claimed nothing yet.
LEMMA FreshIs ==
    ASSUME NEW vo \in BOOLEAN, NEW p
    PROVE  LET t == [Fresh EXCEPT !.verifyOnly = vo]
           IN  /\ Service(t) /\ Sound(BeginRun(t), p)
               /\ t.written = 0 /\ ~t.verified
               /\ BeginRun(t).state = "probe" /\ BeginRun(t).step = 1 /\ BeginRun(t).written = 0
<1> DEFINE t == [Fresh EXCEPT !.verifyOnly = vo]
           u == [t EXCEPT !.state = "probe", !.step = 1]
           e == BeginRun(t)
<1>1. 1 \in DOMAIN Prologue
  BY PrologueQuiet
<1>2. /\ t \in Tools /\ t.state = "idle" /\ t.expect = None /\ t.staged = <<>> /\ ~t.verified
      /\ t.verifyOnly = vo /\ t.written = 0
  <2>1. "idle" \in States /\ None \in Commands \cup {None} /\ 1 \in Seqs /\ 0 \in 0 .. 2
    BY DEF States, Ended, Seqs
  <2>2. /\ Fresh \in Tools /\ Fresh.state = "idle" /\ Fresh.expect = None /\ Fresh.staged = <<>>
        /\ Fresh.verified = FALSE /\ Fresh.written = 0
    BY <1>1, <2>1, NothingStaged DEF Fresh, Tools
  <2> QED  BY <2>2 DEF Tools
<1>3. Service(t) /\ Cmds(t) = {}
  BY <1>2, NothingStaged
<1>4. e = Send(u, Prologue[1])
  BY DEF BeginRun
<1> HIDE DEF t
<1>5. /\ u \in Tools /\ u.state = "probe" /\ u.step = 1 /\ u.staged = <<>> /\ ~u.verified
      /\ u.verifyOnly = vo /\ u.written = 0
  BY <1>1, <1>2 DEF Tools, States
<1> HIDE DEF u, e
<1>6. Service(u) /\ Cmds(u) = {}
  BY <1>5, NothingStaged
<1>7. Service(e) /\ Same(e, u) /\ e.expect = Prologue[1] /\ Cmds(e) \subseteq {Prologue[1]}
  BY <1>1, <1>4, <1>6, PrologueQuiet, SendIs
<1>8. Shape(e) /\ Truthful(e, p)
  BY <1>5, <1>7 DEF Shape, Truthful, At, Same
<1>9. Harmless(e)
  BY <1>1, <1>5, <1>7, PrologueQuiet DEF Harmless, Same, Quiet
<1> QED  BY <1>2, <1>3, <1>5, <1>7, <1>8, <1>9 DEF Sound, Same, t, e

\* A settle ends in the next state, or in the end.
LEMMA SettleEnds ==
    ASSUME NEW p, Sound(tool, p), TickSettle
    PROVE  /\ Sound(tool', p) /\ tool'.written = tool.written
           /\ \/ tool'.state = "done"
              \/ tool'.state \in {"writeFaid", "verify"}
<1>0. tool.next \in {"writeFaid", "verify", "done"}
  BY DEF Sound, Service, Tools
<1>1. CASE tool.next = "done"
  <2>1. tool.state = "settle" /\ tool' = [tool EXCEPT !.state = "done"]
    BY <1>1 DEF TickSettle
  <2>2. /\ tool' \in Tools /\ tool'.state = "done" /\ tool'.staged = tool.staged
        /\ tool'.verifyOnly = tool.verifyOnly /\ tool'.verified = tool.verified
        /\ tool'.written = tool.written /\ tool'.expect = tool.expect
    BY <2>1 DEF Sound, Service, Tools, States, Ended
  <2>3. Service(tool') /\ Cmds(tool') = Cmds(tool)
    BY <2>2 DEF Sound, Service, Cmds
  <2>4. DOMAIN CommandOf = {"readMsid", "writeImei", "writeFaid", "verify"}
    BY DEF CommandOf
  <2>5. Shape(tool') /\ Harmless(tool')
    BY <2>1, <2>2, <2>3, <2>4 DEF Sound, Shape, Harmless, At
  <2>6. Truthful(tool', p)
    BY <1>1, <2>1, <2>2 DEF Sound, Truthful, At
  <2> QED  BY <2>2, <2>3, <2>5, <2>6 DEF Sound
<1>2. CASE tool.next \in {"writeFaid", "verify"}
  <2>1. tool.state = "settle" /\ tool' = BeginState(tool, tool.next)
    BY <1>2 DEF TickSettle
  <2>2. tool.next \in DOMAIN CommandOf
    BY <1>2 DEF CommandOf
  <2>3. ~tool.verifyOnly
    BY <2>1 DEF Sound, Harmless
  <2>4. tool.expect = None
    <3>1. "settle" \notin DOMAIN CommandOf
      BY DEF CommandOf
    <3> QED  BY <2>1, <3>1 DEF Sound, Shape
  <2>5. tool.next = "writeFaid" => tool.written = 1
    BY <2>1 DEF Sound, Shape, At
  <2>6. Service(tool)
    BY DEF Sound
  <2>7. Shape(tool')
    BY <1>2, <2>1, <2>2, <2>4, <2>5, <2>6, BegunShape
  <2>8. /\ Service(tool') /\ tool'.state = tool.next /\ tool'.written = tool.written
        /\ tool'.verified = tool.verified /\ tool'.verifyOnly = tool.verifyOnly
    BY <2>1, <2>2, <2>6, BeginStateIs
  <2>9. Truthful(tool', p)
    BY <1>2, <2>1, <2>8 DEF Sound, Truthful, At
  <2>10. Harmless(tool')
    BY <2>3, <2>8 DEF Harmless
  <2> QED  BY <1>2, <2>7, <2>8, <2>9, <2>10 DEF Sound
<1> QED  BY <1>0, <1>1, <1>2

\* What a tick sends is taken from the front of the buffer.
LEMMA UnstageIs ==
    ASSUME NEW t, NEW p, Sound(t, p), t.staged # <<>>
    PROVE  LET u == [t EXCEPT !.staged = Tail(@)]
           IN  Sound(u, p) /\ Same(u, t) /\ u.expect = t.expect
<1> DEFINE s == t.staged
           r == Tail(s)
           u == [t EXCEPT !.staged = r]
<1>1. s \in Seq([cmd : Commands \cup {Ack}, seq : Seqs]) /\ s # <<>> /\ Len(s) <= StageFrames
  BY DEF Sound, Service, Tools
<1>2. r \in Seq([cmd : Commands \cup {Ack}, seq : Seqs]) /\ Len(r) = Len(s) - 1 /\ Len(s) \in Nat
  BY <1>1
<1>3. \A i \in DOMAIN r : i + 1 \in DOMAIN s /\ r[i] = s[i + 1]
  BY <1>1, <1>2
<1> HIDE DEF r
<1>4. u \in Tools /\ u.staged = r /\ Same(u, t) /\ u.expect = t.expect
  BY <1>2 DEF Sound, Service, Tools, Same
<1> HIDE DEF u
<1>5. StageFrames \in Nat
  BY IdProvAssumption
<1>6. Service(u)
  BY <1>1, <1>2, <1>4, <1>5 DEF Service
<1>7. Cmds(u) \subseteq Cmds(t)
  BY <1>3, <1>4 DEF Cmds
<1>8. Shape(u) /\ Truthful(u, p) /\ Harmless(u)
  BY <1>4, <1>7 DEF Sound, Shape, Truthful, Harmless, At, Same
<1> QED  BY <1>4, <1>6, <1>8 DEF Sound, u, r

LEMMA Sizes ==
    /\ StageFrames \in Nat /\ RingFrames \in Nat \ {0} /\ Unread \in Nat \ {0} /\ MaxRuns \in Nat
BY IdProvAssumption

LEMMA FirstIn ==
    ASSUME NEW S, NEW s \in Seq(S), s # <<>>
    PROVE  Head(s) \in S /\ Tail(s) \in Seq(S) /\ Len(Tail(s)) <= Len(s)
OBVIOUS

\* A tick handles the ring for the service as it is after it has sent.
LEMMA PumpIs ==
    ASSUME TypeOK, Sound(tool, phone), NEW open \in BOOLEAN, NEW over \in BOOLEAN,
           TickPump(open, over)
    PROVE  \E t : /\ Sound(t, phone) /\ Same(t, tool) /\ t.expect = tool.expect
                  /\ \/ tool' = Handled(t, wire.out)
                     \/ tool' = Fail(Handled(t, wire.out))
                  /\ wire' \in [in : Seq([cmd : Commands \cup {Ack}, seq : Seqs]), out : Seq(Replies)]
                  /\ Len(wire'.in) <= Unread /\ wire'.out = <<>>
<1> DEFINE F == [cmd : Commands \cup {Ack}, seq : Seqs]
           sends == open /\ tool.staged # <<>> /\ Len(wire.in) < Unread
           t == IF sends THEN [tool EXCEPT !.staged = Tail(@)] ELSE tool
           h == Handled(t, wire.out)
           in == IF sends THEN Append(wire.in, Head(tool.staged)) ELSE wire.in
<1>1. Sound(t, phone) /\ Same(t, tool) /\ t.expect = tool.expect
  <2>1. CASE sends
    BY <2>1, UnstageIs
  <2>2. CASE ~sends
    BY <2>2 DEF Same
  <2> QED  BY <2>1, <2>2
<1>2. tool' = h \/ tool' = Fail(h)
  BY DEF TickPump
<1>3. wire' = [in |-> in, out |-> <<>>]
  BY DEF TickPump
<1>4. in \in Seq(F) /\ Len(in) <= Unread
  <2>1. wire.in \in Seq(F) /\ Len(wire.in) <= Unread /\ Unread \in Nat /\ tool.staged \in Seq(F)
    BY IdProvAssumption DEF TypeOK
  <2>2. CASE sends
    <3> HIDE DEF F
    <3>1. Head(tool.staged) \in F
      BY <2>1, <2>2, FirstIn
    <3>2. Append(wire.in, Head(tool.staged)) \in Seq(F) /\ Len(Append(wire.in, Head(tool.staged))) = Len(wire.in) + 1
      BY <2>1, <3>1
    <3> QED  BY <2>1, <2>2, <3>2
  <2>3. CASE ~sends
    BY <2>1, <2>3
  <2> QED  BY <2>2, <2>3
<1>5. /\ wire' \in [in : Seq(F), out : Seq(Replies)]
      /\ Len(wire'.in) <= Unread /\ wire'.out = <<>>
  <2>1. <<>> \in Seq(Replies)
    OBVIOUS
  <2> HIDE DEF in, F
  <2> QED  BY <1>3, <1>4, <2>1
<1> HIDE DEF t
<1> QED  BY <1>1, <1>2, <1>5

\* What the phone stores only grows, and what it answers is so.
LEMMA AnswerIs ==
    ASSUME TypeOK, Says(phone.unacked, phone), Answers(wire.out, phone), PhoneAnswers
    PROVE  /\ phone' \in [stored : SUBSET Records, commits : BOOLEAN, unacked : Replies]
           /\ phone.stored \subseteq phone'.stored /\ phone'.commits = phone.commits
           /\ phone'.unacked.cmd = Head(wire.in).cmd
           /\ Says(phone'.unacked, phone')
           /\ wire' = [in |-> Tail(wire.in), out |-> Into(wire.out, phone'.unacked)]
           /\ did' = did \cup (Writes \cap {Head(wire.in).cmd})
<1> DEFINE f == Head(wire.in)
           stored == Stored(f.cmd)
           reply == [cmd |-> f.cmd, seq |-> (f.seq + 1) % 256, good |-> "imei" \in stored]
<1>1. f \in [cmd : Commands \cup {Ack}, seq : Seqs] /\ f.cmd \notin {Ack, Reset}
  <2>1. wire.in \in Seq([cmd : Commands \cup {Ack}, seq : Seqs]) /\ wire.in # <<>>
    BY DEF PhoneAnswers, TypeOK
  <2>2. f \in [cmd : Commands \cup {Ack}, seq : Seqs]
    BY <2>1, FirstIn
  <2> QED  BY <2>2 DEF PhoneAnswers
<1>2. /\ stored \in SUBSET Records /\ phone.stored \subseteq stored
      /\ f.cmd = "write faid" => ~phone.commits \/ "faid" \in stored
  BY DEF Stored, TypeOK, Records
<1>3. reply \in Replies
  <2>1. (f.seq + 1) % 256 \in Seqs
    <3>1. f.seq \in Nat
      BY <1>1 DEF Seqs
    <3> HIDE DEF f
    <3> QED  BY ONLY <3>1 DEF Seqs
  <2>2. f.cmd \in Commands
    BY <1>1
  <2>3. ("imei" \in stored) \in BOOLEAN
    OBVIOUS
  <2> HIDE DEF f, stored
  <2> QED  BY <2>1, <2>2, <2>3 DEF Replies
<1>4. phone' = [phone EXCEPT !.stored = stored, !.unacked = reply]
  BY DEF PhoneAnswers
<1>5. wire' = [in |-> Tail(wire.in), out |-> Into(wire.out, reply)]
      /\ did' = did \cup (Writes \cap {f.cmd})
  BY DEF PhoneAnswers
<1>6. reply.cmd = f.cmd /\ (reply.good => "imei" \in stored)
  OBVIOUS
<1> HIDE DEF stored, reply, f
<1>7. /\ phone' \in [stored : SUBSET Records, commits : BOOLEAN, unacked : Replies]
      /\ phone'.stored = stored /\ phone'.commits = phone.commits /\ phone'.unacked = reply
  BY <1>2, <1>3, <1>4 DEF TypeOK
<1>8. Says(reply, phone')
  BY <1>2, <1>6, <1>7 DEF Says
<1> QED  BY <1>2, <1>5, <1>6, <1>7, <1>8 DEF f

\* An answer is put into the ring behind the others, if there is room.
LEMMA IntoIs ==
    ASSUME NEW ring \in Seq(Replies), Len(ring) <= RingFrames, NEW f \in Replies
    PROVE  /\ Into(ring, f) \in Seq(Replies) /\ Len(Into(ring, f)) <= RingFrames
           /\ \/ Into(ring, f) = ring
              \/ /\ Len(Into(ring, f)) = Len(ring) + 1
                 /\ Into(ring, f)[Len(ring) + 1] = f
                 /\ \A i \in 1 .. Len(ring) : Into(ring, f)[i] = ring[i]
           /\ \A p : Answers(ring, p) /\ Says(f, p) => Answers(Into(ring, f), p)
<1> DEFINE g == Append(ring, f)
<1>1. CASE Len(ring) < RingFrames
  <2>1. Into(ring, f) = g
    BY <1>1 DEF Into
  <2>2. /\ g \in Seq(Replies) /\ Len(g) = Len(ring) + 1 /\ g[Len(ring) + 1] = f
        /\ \A i \in 1 .. Len(ring) : g[i] = ring[i]
    OBVIOUS
  <2>3. Len(ring) \in Nat /\ RingFrames \in Nat
    <3>1. Len(ring) \in Nat
      OBVIOUS
    <3>2. RingFrames \in Nat
      BY IdProvAssumption
    <3> QED  BY <3>1, <3>2
  <2> HIDE DEF g
  <2>4. ASSUME NEW p, Answers(ring, p), Says(f, p) PROVE Answers(g, p)
    <3>1. ASSUME NEW i \in 1 .. Len(g) PROVE Says(g[i], p)
      <4>1. i = Len(ring) + 1 \/ i \in 1 .. Len(ring)
        BY <2>2, <2>3
      <4> QED  BY <2>2, <2>4, <4>1 DEF Answers
    <3> QED  BY <3>1 DEF Answers
  <2> QED  BY <1>1, <2>1, <2>2, <2>3, <2>4
<1>2. CASE ~(Len(ring) < RingFrames)
  BY <1>2 DEF Into
<1> QED  BY <1>1, <1>2

-----------------------------------------------------------------------------
(* The invariant. *)

\* The type of the phone and of the wire.
Outside ==
    /\ phone \in [stored : SUBSET Records, commits : BOOLEAN, unacked : Replies]
    /\ wire \in [in : Seq([cmd : Commands \cup {Ack}, seq : Seqs]), out : Seq(Replies)]
    /\ Len(wire.in) <= Unread /\ Len(wire.out) <= RingFrames
    /\ did \subseteq Writes /\ runs \in 0 .. MaxRuns

LEMMA TypeParts == TypeOK <=> Service(tool) /\ Outside
BY DEF TypeOK, Service, Outside, Tools

LEMMA WireTail ==
    ASSUME Outside, wire.in # <<>>
    PROVE  /\ Tail(wire.in) \in Seq([cmd : Commands \cup {Ack}, seq : Seqs])
           /\ Len(Tail(wire.in)) <= Unread
<1> DEFINE F == [cmd : Commands \cup {Ack}, seq : Seqs]
<1>1. wire.in \in Seq(F) /\ Len(wire.in) <= Unread /\ Unread \in Nat
  BY Sizes DEF Outside
<1> HIDE DEF F
<1>2. Tail(wire.in) \in Seq(F) /\ Len(Tail(wire.in)) <= Len(wire.in)
  BY <1>1, FirstIn
<1>3. Len(Tail(wire.in)) \in Nat /\ Len(wire.in) \in Nat
  BY <1>1, <1>2
<1> QED  BY <1>1, <1>2, <1>3 DEF F

LEMMA TypeNext ==
    ASSUME Service(tool'), Outside' PROVE TypeOK'
BY DEF TypeOK, Service, Outside, Tools

LEMMA SafeInit ==
    ASSUME Init PROVE Safe
<1>1. Fresh \in Tools /\ Fresh.staged = <<>> /\ Fresh.state = "idle"
      /\ Fresh.verifyOnly = FALSE /\ Fresh.verified = FALSE /\ Fresh.expect = None
  <2>1. "idle" \in States /\ None \in Commands \cup {None} /\ 1 \in Seqs /\ 0 \in 0 .. 2
    BY DEF States, Ended, Seqs
  <2>2. 1 \in DOMAIN Prologue
    BY PrologueQuiet
  <2> QED  BY <2>1, <2>2, NothingStaged DEF Fresh, Tools
<1>2. Service(Fresh)
  BY <1>1, NothingStaged
<1>3. Shape(Fresh) /\ Harmless(Fresh) /\ \A p : Truthful(Fresh, p)
  BY <1>1 DEF Shape, Harmless, Truthful, At
<1>4. NoReply \in Replies /\ NoReply.good = FALSE /\ NoReply.cmd = None
  BY DEF NoReply, Replies, Seqs
<1>5. /\ phone \in [stored : SUBSET Records, commits : BOOLEAN, unacked : Replies]
      /\ phone.unacked = NoReply
  BY <1>4 DEF Init
<1>6. /\ wire \in [in : Seq([cmd : Commands \cup {Ack}, seq : Seqs]), out : Seq(Replies)]
      /\ wire.in = <<>> /\ wire.out = <<>>
  <2>1. <<>> \in Seq([cmd : Commands \cup {Ack}, seq : Seqs]) /\ <<>> \in Seq(Replies)
    OBVIOUS
  <2> QED  BY <2>1 DEF Init
<1>7. Len(wire.in) = 0 /\ Len(wire.out) = 0
  BY <1>6
<1>8. 0 <= Unread /\ 0 <= RingFrames /\ 0 \in 0 .. MaxRuns
  BY Sizes
<1>9. Outside
  BY <1>5, <1>6, <1>7, <1>8 DEF Outside, Init
<1>10. tool = Fresh
  BY DEF Init
<1>11. Says(phone.unacked, phone) /\ Answers(wire.out, phone)
  <2>1. Says(NoReply, phone)
    BY <1>4 DEF Says, None
  <2>2. 1 .. Len(wire.out) = {}
    BY <1>7
  <2> QED  BY <1>5, <2>1, <2>2 DEF Answers
<1> QED  BY <1>2, <1>3, <1>9, <1>10, <1>11, TypeParts DEF Safe, Sound

LEMMA SafeNext ==
    ASSUME Safe, [Next]_vars PROVE Safe'
<1> USE DEF Safe
<1>0. Service(tool) /\ Outside /\ Sound(tool, phone)
  BY TypeParts
<1>1. CASE UNCHANGED vars
  BY <1>1 DEF vars, TypeOK, Outside
<1>2. ASSUME NEW vo \in BOOLEAN, Start(vo) PROVE Safe'
  <2> DEFINE t == [Fresh EXCEPT !.verifyOnly = vo]
  <2>1. Service(t) /\ Sound(BeginRun(t), phone) /\ Sound(Fail(t), phone)
    BY FreshIs, FailIs
  <2>2. tool' = BeginRun(t) \/ tool' = Fail(t)
    BY <1>2 DEF Start
  <2> HIDE DEF t
  <2>3. Sound(tool', phone) /\ Service(tool')
    BY <2>1, <2>2 DEF Sound
  <2>4. runs' \in 0 .. MaxRuns /\ did' = {} /\ phone' = phone /\ wire' = wire
    <3>1. runs \in 0 .. MaxRuns /\ runs < MaxRuns /\ runs' = runs + 1 /\ MaxRuns \in Nat
      BY <1>0, <1>2, IdProvAssumption DEF Outside, Start
    <3> QED  BY <1>2, <3>1 DEF Start
  <2>5. Outside'
    BY <1>0, <2>4 DEF Outside
  <2>6. TypeOK'
    BY <2>3, <2>5, TypeNext
  <2> QED  BY <2>3, <2>4, <2>6
<1>3. CASE TickSettle
  <2>1. Sound(tool', phone) /\ Service(tool')
    BY <1>0, <1>3, SettleEnds DEF Sound
  <2>2. UNCHANGED <<phone, wire, did, runs>>
    BY <1>3 DEF TickSettle
  <2>3. Outside'
    BY <1>0, <2>2 DEF Outside
  <2>4. TypeOK'
    BY <2>1, <2>3, TypeNext
  <2> QED  BY <2>1, <2>2, <2>4
<1>4. ASSUME NEW open \in BOOLEAN, NEW over \in BOOLEAN, TickPump(open, over) PROVE Safe'
  <2>1. PICK t : /\ Sound(t, phone) /\ Same(t, tool) /\ t.expect = tool.expect
                 /\ \/ tool' = Handled(t, wire.out)
                    \/ tool' = Fail(Handled(t, wire.out))
                 /\ wire' \in [in : Seq([cmd : Commands \cup {Ack}, seq : Seqs]), out : Seq(Replies)]
                 /\ Len(wire'.in) <= Unread /\ wire'.out = <<>>
    BY <1>0, <1>4, PumpIs
  <2>2. Sound(Handled(t, wire.out), phone)
    BY <1>0, <2>1, RingTruth DEF Outside
  <2>3. Sound(Fail(Handled(t, wire.out)), phone)
    BY <2>2, FailIs DEF Sound, Truthful
  <2>4. Sound(tool', phone) /\ Service(tool')
    BY <2>1, <2>2, <2>3 DEF Sound
  <2>5. UNCHANGED <<phone, did, runs>>
    BY <1>4 DEF TickPump
  <2>6. Len(wire'.out) = 0 /\ 0 <= RingFrames
    BY <2>1, Sizes
  <2>7. Outside'
    BY <1>0, <2>1, <2>5, <2>6 DEF Outside
  <2>8. Answers(wire'.out, phone)
    BY <2>6 DEF Answers
  <2>9. TypeOK'
    BY <2>4, <2>7, TypeNext
  <2> QED  BY <2>4, <2>5, <2>8, <2>9
<1>5. CASE PhoneMisses \/ PhoneAcked
  <2>1. wire.in # <<>> /\ wire' = [wire EXCEPT !.in = Tail(@)] /\ UNCHANGED <<tool, did, runs>>
    BY <1>5 DEF PhoneMisses, PhoneAcked
  <2>2. phone' = phone \/ phone' = [phone EXCEPT !.unacked = NoReply]
    BY <1>5 DEF PhoneMisses, PhoneAcked
  <2>3. NoReply \in Replies /\ NoReply.good = FALSE /\ NoReply.cmd = None
    BY DEF NoReply, Replies, Seqs
  <2>4. /\ phone' \in [stored : SUBSET Records, commits : BOOLEAN, unacked : Replies]
        /\ phone'.stored = phone.stored /\ phone'.commits = phone.commits
        /\ phone'.unacked = phone.unacked \/ phone'.unacked = NoReply
    BY <1>0, <2>2, <2>3 DEF Outside
  <2>5. /\ wire' \in [in : Seq([cmd : Commands \cup {Ack}, seq : Seqs]), out : Seq(Replies)]
        /\ Len(wire'.in) <= Unread /\ wire'.out = wire.out
    <3>1. Tail(wire.in) \in Seq([cmd : Commands \cup {Ack}, seq : Seqs]) /\ Len(Tail(wire.in)) <= Unread
      BY <1>0, <2>1, WireTail
    <3> QED  BY <1>0, <2>1, <3>1 DEF Outside
  <2>6. Outside'
    BY <1>0, <2>1, <2>4, <2>5 DEF Outside
  <2>7. Sound(tool, phone') /\ Answers(wire.out, phone') /\ Says(phone.unacked, phone')
    BY <1>0, <2>4, StoredGrows
  <2>8. Says(NoReply, phone')
    BY <2>3 DEF Says, None
  <2>9. TypeOK'
    BY <1>0, <2>1, <2>6, TypeNext
  <2> QED  BY <1>0, <2>1, <2>4, <2>5, <2>7, <2>8, <2>9
<1>6. CASE PhoneAnswers
  <2>1. /\ phone' \in [stored : SUBSET Records, commits : BOOLEAN, unacked : Replies]
        /\ phone.stored \subseteq phone'.stored /\ phone'.commits = phone.commits
        /\ Says(phone'.unacked, phone')
        /\ wire' = [in |-> Tail(wire.in), out |-> Into(wire.out, phone'.unacked)]
        /\ did' = did \cup (Writes \cap {Head(wire.in).cmd})
    BY <1>6, AnswerIs
  <2>2. wire.in # <<>> /\ UNCHANGED <<tool, runs>>
    BY <1>6 DEF PhoneAnswers
  <2>3. Sound(tool, phone') /\ Answers(wire.out, phone')
    BY <1>0, <2>1, StoredGrows
  <2>4. phone'.unacked \in Replies /\ wire.out \in Seq(Replies) /\ Len(wire.out) <= RingFrames
    BY <1>0, <2>1 DEF Outside
  <2>5. /\ Into(wire.out, phone'.unacked) \in Seq(Replies)
        /\ Len(Into(wire.out, phone'.unacked)) <= RingFrames
        /\ Answers(Into(wire.out, phone'.unacked), phone')
    BY <2>1, <2>3, <2>4, IntoIs
  <2>6. Tail(wire.in) \in Seq([cmd : Commands \cup {Ack}, seq : Seqs]) /\ Len(Tail(wire.in)) <= Unread
    BY <1>0, <2>2, WireTail
  <2>7. Outside'
    BY <1>0, <2>1, <2>2, <2>5, <2>6 DEF Outside
  <2>8. TypeOK'
    BY <1>0, <2>2, <2>7, TypeNext
  <2> QED  BY <2>1, <2>2, <2>3, <2>5, <2>8
<1>7. CASE PhoneRepeats
  <2>1. /\ wire' = [wire EXCEPT !.out = Into(@, phone.unacked)]
        /\ UNCHANGED <<tool, phone, did, runs>>
    BY <1>7 DEF PhoneRepeats
  <2>2. phone.unacked \in Replies /\ wire.out \in Seq(Replies) /\ Len(wire.out) <= RingFrames
    BY <1>0 DEF Outside
  <2>3. /\ Into(wire.out, phone.unacked) \in Seq(Replies)
        /\ Len(Into(wire.out, phone.unacked)) <= RingFrames
        /\ Answers(Into(wire.out, phone.unacked), phone)
    BY <2>2, IntoIs
  <2>4. wire'.out = Into(wire.out, phone.unacked) /\ wire'.in = wire.in
        /\ wire' \in [in : Seq([cmd : Commands \cup {Ack}, seq : Seqs]), out : Seq(Replies)]
    BY <1>0, <2>1, <2>3 DEF Outside
  <2>5. Outside'
    BY <1>0, <2>1, <2>3, <2>4 DEF Outside
  <2>6. TypeOK'
    BY <1>0, <2>1, <2>5, TypeNext
  <2> QED  BY <1>0, <2>1, <2>3, <2>4, <2>6
<1> QED  BY <1>1, <1>2, <1>3, <1>4, <1>5, <1>6, <1>7 DEF Next

LEMMA SafeAlways == Spec => []Safe
<1>1. Init => Safe
  BY SafeInit
<1>2. Safe /\ [Next]_vars => Safe'
  BY SafeNext
<1> QED  BY <1>1, <1>2, PTL DEF Spec

\* The service, the phone and the wire keep their types, and both buffers their bounds.
THEOREM TypeAlways == Spec => []TypeOK
<1>1. Safe => TypeOK
  BY DEF Safe
<1> QED  BY <1>1, SafeAlways, PTL

\* A run that says it is done has left in the phone what it says (DoneMeansStored):
\* whatever the phone answers, repeats or misses, and for any prologue and buffers.
THEOREM DoneMeansStoredAlways == Spec => []DoneMeansStored
<1>1. Safe => DoneMeansStored
  BY DEF Safe, Sound, Truthful, At, DoneMeansStored
<1> QED  BY <1>1, SafeAlways, PTL

\* A verify-only run never has a command staged that changes the phone
\* (VerifyChangesNothing).
THEOREM VerifyChangesNothingAlways == Spec => []VerifyChangesNothing
<1>1. Safe => VerifyChangesNothing
  BY DEF Safe, Sound, Harmless, Cmds, VerifyChangesNothing
<1> QED  BY <1>1, SafeAlways, PTL

-----------------------------------------------------------------------------
(* The count of written records. *)

LEMMA AheadFinite ==
    ASSUME NEW p, NEW out \in Seq(Replies), NEW w, NEW i \in Nat
    PROVE  /\ IsFiniteSet(Ahead(p, out, w, i))
           /\ Cardinality(Ahead(p, out, w, i)) \in Nat
           /\ Cardinality(Ahead(p, out, w, i)) <= Len(out)
<1>1. Ahead(p, out, w, i) \subseteq 1 .. Len(out) /\ Len(out) \in Nat
  BY DEF Ahead
<1>2. IsFiniteSet(1 .. Len(out)) /\ Cardinality(1 .. Len(out)) = Len(out)
  <2> DEFINE n == Len(out)
  <2>1. n \in Nat /\ 1 \in Int /\ n \in Int
    BY <1>1
  <2> HIDE DEF n
  <2>2. IsFiniteSet(1 .. n) /\ Cardinality(1 .. n) = n
    BY <2>1, FS_Interval
  <2> QED  BY <2>2 DEF n
<1>3. IsFiniteSet(Ahead(p, out, w, i)) /\ Cardinality(Ahead(p, out, w, i)) <= Cardinality(1 .. Len(out))
  BY <1>1, <1>2, FS_Subset
<1>4. Cardinality(Ahead(p, out, w, i)) \in Nat
  BY <1>3, FS_CardinalityType
<1> QED  BY <1>2, <1>3, <1>4

LEMMA ProgressIs ==
    ASSUME NEW t, Service(t)
    PROVE  /\ Progress(t) \in Nat
           /\ t.state = "probe" => Progress(t) = t.step - 1 /\ t.step \in 1 .. Len(Prologue)
           /\ t.state = "readMsid" => Progress(t) = Len(Prologue)
           /\ t.state \in Ended => Progress(t) = 0
           /\ t.state \notin Ended \cup {"probe", "readMsid"} => Progress(t) = Len(Prologue) + 1
           /\ Progress(t) <= Len(Prologue) + 1
<1>1. t.step \in 1 .. Len(Prologue) /\ Len(Prologue) \in Nat
  BY PrologueQuiet DEF Service, Tools
<1>2. CASE t.state = "probe"
  BY <1>1, <1>2 DEF Progress, Ended
<1>3. CASE t.state = "readMsid"
  BY <1>1, <1>3 DEF Progress, Ended
<1>4. CASE t.state \in Ended
  BY <1>1, <1>4 DEF Progress, Ended
<1>5. CASE t.state \notin Ended \cup {"probe", "readMsid"}
  BY <1>1, <1>5 DEF Progress
<1> QED  BY <1>2, <1>3, <1>4, <1>5

\* With less before a write's answer, and no more progress, the count still holds.
LEMMA LateShrinks ==
    ASSUME NEW t, Service(t), NEW u, Service(u), Progress(u) <= Progress(t),
           NEW p, NEW q, NEW done, NEW more, done \subseteq more,
           NEW out \in Seq(Replies), NEW ring \in Seq(Replies), NEW i \in Nat, NEW j \in Nat,
           Late(t, p, out, done, i),
           \A w \in Writes \ more : Comes(q, ring, w, j) =>
               Comes(p, out, w, i) /\ Ahead(q, ring, w, j) \subseteq Ahead(p, out, w, i)
    PROVE  Late(u, q, ring, more, j)
<1> SUFFICES ASSUME NEW w \in Writes \ more, Comes(q, ring, w, j)
             PROVE  Progress(u) + Cardinality(Ahead(q, ring, w, j)) <= RingFrames
  BY DEF Late
<1> DEFINE A == Ahead(p, out, w, i)
           B == Ahead(q, ring, w, j)
<1>1. Progress(t) + Cardinality(A) <= RingFrames /\ B \subseteq A
  BY DEF Late
<1>2. IsFiniteSet(A) /\ Cardinality(A) \in Nat /\ Cardinality(B) \in Nat
  BY AheadFinite
<1>3. Progress(t) \in Nat /\ Progress(u) \in Nat /\ RingFrames \in Nat
  BY ProgressIs, Sizes
<1> HIDE DEF A, B
<1>4. Cardinality(B) <= Cardinality(A)
  BY <1>1, <1>2, FS_Subset
<1>5. Progress(u) + Cardinality(B) <= RingFrames
  BY <1>1, <1>2, <1>3, <1>4
<1> QED  BY <1>5 DEF B

\* The ring holds no more answers than the prologue has commands.  (64 bytes, and an
\* answer has 11 at least: 5 answers, for a prologue of 6.)
SmallRing == RingFrames <= Len(Prologue)

\* An answer to a write that the phone has not had since the run began comes too early to
\* be the awaited one.
LEMMA StaleMisses ==
    ASSUME SmallRing, NEW t, Service(t), Shape(t), NEW p, NEW done, NEW i \in Nat,
           NEW out \in Seq(Replies), NEW w \in Writes \ done,
           Late(t, p, out, done, i), Comes(p, out, w, i)
    PROVE  t.expect # w
<1>1. Progress(t) + Cardinality(Ahead(p, out, w, i)) <= RingFrames
  BY DEF Late
<1>2. Progress(t) <= Len(Prologue)
  <2>1. Progress(t) \in Nat /\ RingFrames \in Nat /\ Len(Prologue) \in Nat
    BY ProgressIs, Sizes, PrologueQuiet
  <2>2. Cardinality(Ahead(p, out, w, i)) \in Nat
    BY AheadFinite
  <2> QED  BY <1>1, <2>1, <2>2 DEF SmallRing
<1>3. t.state \in Ended \cup {"probe", "readMsid"}
  <2>1. Len(Prologue) \in Nat
    BY PrologueQuiet
  <2> QED  BY <1>2, <2>1, ProgressIs
<1>4. w \in {"write imei", "write faid"} /\ w # None
  BY DEF Writes, None
<1>5. CASE t.expect # None
  <2>1. t.state \in {"probe", "readMsid"}
    BY <1>3, <1>5, AwaitedIs DEF Ended
  <2>2. CASE t.state = "probe"
    <3>1. t.expect = Prologue[t.step] /\ t.step \in DOMAIN Prologue
      BY <1>5, <2>2, AwaitedIs DEF Service, Tools
    <3>2. t.expect \in Quiet
      BY <3>1, PrologueQuiet
    <3> QED  BY <3>2 DEF Quiet
  <2>3. CASE t.state = "readMsid"
    BY <1>4, <1>5, <2>3, AwaitedIs
  <2> QED  BY <2>1, <2>2, <2>3
<1> QED  BY <1>4, <1>5

\* A frame taken from the ring is one less before the write's answer.
LEMMA FrameLate ==
    ASSUME SmallRing, NEW t, Service(t), Shape(t), NEW p, NEW done,
           NEW out \in Seq(Replies), NEW i \in 1 .. Len(out),
           Late(t, p, out, done, i - 1), Counted(t, done)
    PROVE  LET e == OnFrame(t, out[i])
           IN  Late(e, p, out, done, i) /\ Counted(e, done)
<1> DEFINE f == out[i]
           e == OnFrame(t, f)
<1>0. Len(out) \in Nat /\ i \in Nat /\ i - 1 \in Nat /\ i \in DOMAIN out /\ f \in Replies
  OBVIOUS
<1>1. /\ Service(e) /\ Shape(e)
      /\ Same(e, t) \/ (t.expect # None /\ f.cmd = t.expect /\ Answered(t, f, e))
  BY <1>0, FrameIs
<1> HIDE DEF e, f
<1>2. ASSUME NEW w \in Writes \ done, f.cmd = w PROVE Same(e, t)
  <2>1. Comes(p, out, w, i - 1)
    BY <1>0, <1>2 DEF Comes, f
  <2>2. t.expect # w
    BY <1>0, <2>1, StaleMisses
  <2> QED  BY <1>1, <1>2, <2>2
<1>3. Progress(e) \in Nat /\ Progress(t) \in Nat /\ Progress(e) <= Progress(t) + 1
  <2>1. CASE Same(e, t)
    <3>1. Progress(e) = Progress(t)
      BY <2>1 DEF Same, Progress
    <3> QED  BY <1>1, <3>1, ProgressIs
  <2>2. CASE t.expect # None /\ Answered(t, f, e)
    <3>1. Len(Prologue) \in Nat
      BY PrologueQuiet
    <3>2. CASE t.state = "probe" /\ e.state = "probe"
      <4>1. e.step = t.step + 1 /\ Progress(t) = t.step - 1 /\ Progress(e) = e.step - 1
        BY <1>1, <2>2, <3>2, ProgressIs DEF Answered
      <4>2. t.step \in Nat /\ Progress(t) \in Nat /\ Progress(e) \in Nat
        BY <1>1, <3>2, ProgressIs
      <4> QED  BY <4>1, <4>2
    <3>3. CASE t.state = "probe" /\ e.state # "probe"
      <4>1. t.step >= Len(Prologue) /\ e.state = "readMsid"
        BY <2>2, <3>3 DEF Answered
      <4>2. Progress(t) = t.step - 1 /\ Progress(e) = Len(Prologue) /\ t.step \in 1 .. Len(Prologue)
        BY <1>1, <3>3, <4>1, ProgressIs
      <4> QED  BY <3>1, <4>1, <4>2
    <3>4. CASE t.state # "probe"
      <4>1. t.state \in {"readMsid", "writeImei", "writeFaid", "verify"}
        BY <2>2, <3>4 DEF Answered
      <4>2. Progress(t) >= Len(Prologue) /\ Progress(t) \in Nat
        BY <3>1, <4>1, ProgressIs DEF Ended
      <4>3. Progress(e) \in Nat /\ Progress(e) <= Len(Prologue) + 1
        BY <1>1, ProgressIs
      <4> QED  BY <3>1, <4>2, <4>3
    <3> QED  BY <3>2, <3>3, <3>4
  <2> QED  BY <1>1, <2>1, <2>2
<1>4. ASSUME NEW w \in Writes \ done, Comes(p, out, w, i)
      PROVE  Progress(e) + Cardinality(Ahead(p, out, w, i)) <= RingFrames
  <2> DEFINE A == Ahead(p, out, w, i - 1)
             B == Ahead(p, out, w, i)
  <2>1. Comes(p, out, w, i - 1)
    BY <1>0, <1>4 DEF Comes
  <2>2. Progress(t) + Cardinality(A) <= RingFrames
    BY <2>1 DEF Late
  <2>3. IsFiniteSet(A) /\ IsFiniteSet(B) /\ Cardinality(A) \in Nat /\ Cardinality(B) \in Nat
    BY <1>0, AheadFinite
  <2>4. RingFrames \in Nat
    BY Sizes
  <2>5. B \subseteq A
    BY <1>0 DEF Ahead
  <2>6. CASE f.cmd = w
    <3>1. Progress(e) = Progress(t)
      BY <1>2, <2>6 DEF Same, Progress
    <3> HIDE DEF A, B
    <3>2. Cardinality(B) <= Cardinality(A)
      BY <2>3, <2>5, FS_Subset
    <3>3. Progress(e) + Cardinality(B) <= RingFrames
      BY <1>3, <2>2, <2>3, <2>4, <3>1, <3>2
    <3> QED  BY <3>3 DEF B
  <2>7. CASE f.cmd # w
    <3>1. i \in A /\ i \notin B
      BY <1>0, <1>4, <2>7 DEF Ahead, Comes, f
    <3> HIDE DEF A, B
    <3>2. B \subseteq A \ {i}
      BY <2>5, <3>1
    <3>3. IsFiniteSet(A \ {i}) /\ Cardinality(A \ {i}) = Cardinality(A) - 1
      BY <2>3, <3>1, FS_RemoveElement
    <3>4. Cardinality(B) <= Cardinality(A) - 1
      BY <3>2, <3>3, FS_Subset
    <3>5. Progress(e) + Cardinality(B) <= RingFrames
      BY <1>3, <2>2, <2>3, <2>4, <3>4
    <3> QED  BY <3>5 DEF B
  <2> QED  BY <2>6, <2>7
<1>5. Late(e, p, out, done, i)
  BY <1>4 DEF Late
<1>6. Counted(e, done)
  <2>1. CASE Same(e, t)
    BY <2>1 DEF Same, Counted
  <2>2. CASE ~Same(e, t)
    <3>1. t.expect # None /\ f.cmd = t.expect /\ Answered(t, f, e)
      BY <1>1, <2>2
    <3>2. f.cmd \notin Writes \ done
      BY <1>2, <2>2
    <3>3. CASE t.state = "writeImei"
      <4>1. "write imei" \in done
        BY <3>1, <3>2, <3>3, AwaitedIs DEF Writes
      <4>2. e.written = 1
        BY <3>1, <3>3 DEF Shape, Answered
      <4>3. ~(e.written >= 2)
        BY <4>2
      <4> QED  BY <4>1, <4>3 DEF Counted
    <3>4. CASE t.state = "writeFaid"
      <4>1. "write faid" \in done
        BY <3>1, <3>2, <3>4, AwaitedIs DEF Writes
      <4>2. t.written = 1
        BY <3>4 DEF Shape, At
      <4>3. t.written >= 1
        BY <4>2
      <4>4. "write imei" \in done
        BY <4>3 DEF Counted
      <4> QED  BY <4>1, <4>4 DEF Counted
    <3>5. CASE t.state \notin {"writeImei", "writeFaid"}
      <4>1. e.written = t.written
        BY <3>1, <3>5 DEF Answered
      <4> QED  BY <4>1 DEF Counted
    <3> QED  BY <3>3, <3>4, <3>5
  <2> QED  BY <2>1, <2>2
<1> QED  BY <1>5, <1>6 DEF e, f

\* So the whole ring is.
LEMMA RingLate ==
    ASSUME SmallRing, NEW t, Service(t), Shape(t), NEW p, NEW done,
           NEW out \in Seq(Replies), Late(t, p, out, done, 0), Counted(t, done)
    PROVE  LET e == Handled(t, out)
           IN  Late(e, p, out, done, Len(out)) /\ Counted(e, done)
<1> DEFINE n == Len(out)
           S(i) == {u \in Tools : Service(u) /\ Shape(u) /\ Late(u, p, out, done, i) /\ Counted(u, done)}
           P == [i \in 0 .. n |-> S(i)]
<1>1. n \in Nat /\ \A i \in 1 .. n : out[i] \in Replies
  OBVIOUS
<1>2. t \in S(0)
  BY DEF Service
<1>3. ASSUME NEW i \in 1 .. n, NEW u \in S(i - 1) PROVE OnFrame(u, out[i]) \in S(i)
  <2>1. Service(u) /\ Shape(u) /\ Late(u, p, out, done, i - 1) /\ Counted(u, done)
    BY <1>3
  <2>2. Service(OnFrame(u, out[i])) /\ Shape(OnFrame(u, out[i]))
    BY <1>1, <2>1, FrameIs
  <2>3. Late(OnFrame(u, out[i]), p, out, done, i) /\ Counted(OnFrame(u, out[i]), done)
    BY <2>1, FrameLate
  <2>4. OnFrame(u, out[i]) \in Tools
    BY <2>2 DEF Service
  <2> QED  BY <2>2, <2>3, <2>4
<1> HIDE DEF S
<1>4. P[0] = S(0) /\ P[n] = S(n) /\ \A i \in 1 .. n : P[i - 1] = S(i - 1) /\ P[i] = S(i)
  <2>1. 0 \in 0 .. n /\ n \in 0 .. n /\ \A i \in 1 .. n : i - 1 \in 0 .. n /\ i \in 0 .. n
    BY <1>1
  <2> QED  BY <2>1
<1> HIDE DEF P
<1>5. Handled(t, out) \in P[n]
  BY <1>1, <1>2, <1>3, <1>4, HandledBy
<1> QED  BY <1>4, <1>5 DEF S

\* The inductive invariant of the count.
Kept == Safe /\ Counted(tool, did) /\ Late(tool, phone, wire.out, did, 0)

\* A service that has made no progress is never ahead of the phone.
LEMMA StartLate ==
    ASSUME NEW t, Service(t), Progress(t) = 0, NEW p, NEW done, NEW out \in Seq(Replies),
           Len(out) <= RingFrames
    PROVE  Late(t, p, out, done, 0)
<1> SUFFICES ASSUME NEW w \in Writes \ done
             PROVE  Progress(t) + Cardinality(Ahead(p, out, w, 0)) <= RingFrames
  BY DEF Late
<1>1. /\ Cardinality(Ahead(p, out, w, 0)) \in Nat
      /\ Cardinality(Ahead(p, out, w, 0)) <= Len(out)
  BY AheadFinite
<1>2. Len(out) \in Nat /\ RingFrames \in Nat
  BY Sizes
<1> QED  BY <1>1, <1>2

LEMMA KeptNext ==
    ASSUME SmallRing, Safe, Counted(tool, did), Late(tool, phone, wire.out, did, 0),
           Safe', [Next]_vars
    PROVE  Counted(tool', did') /\ Late(tool', phone', wire'.out, did', 0)
<1>0. /\ Service(tool) /\ Service(tool') /\ Shape(tool) /\ Sound(tool, phone) /\ TypeOK
      /\ Says(phone.unacked, phone) /\ Answers(wire.out, phone)
      /\ wire.out \in Seq(Replies) /\ wire'.out \in Seq(Replies)
      /\ Len(wire.out) <= RingFrames /\ phone.unacked \in Replies
      /\ RingFrames \in Nat /\ Progress(tool) \in Nat
  <2>1. TypeOK /\ TypeOK' /\ Sound(tool, phone) /\ Sound(tool', phone')
    BY DEF Safe
  <2>2. Service(tool) /\ Service(tool') /\ Shape(tool)
    BY <2>1 DEF Sound
  <2> QED  BY <2>1, <2>2, Sizes, ProgressIs DEF Safe, TypeOK
<1>1. CASE UNCHANGED vars
  BY <1>1 DEF vars
<1>2. ASSUME NEW vo \in BOOLEAN, Start(vo)
      PROVE  Counted(tool', did') /\ Late(tool', phone', wire'.out, did', 0)
  <2> DEFINE t == [Fresh EXCEPT !.verifyOnly = vo]
  <2>1. /\ Service(t) /\ t.written = 0 /\ ~t.verified
        /\ BeginRun(t).state = "probe" /\ BeginRun(t).step = 1 /\ BeginRun(t).written = 0
    BY FreshIs
  <2>2. tool' = BeginRun(t) \/ tool' = Fail(t)
    BY <1>2 DEF Start
  <2> HIDE DEF t
  <2>3. Fail(t).state = "failed" /\ Fail(t).written = 0
    BY <2>1, FailIs
  <2>4. Progress(tool') = 0
    BY <1>0, <2>1, <2>2, <2>3, ProgressIs DEF Ended
  <2>5. Late(tool', phone, wire.out, did', 0)
    BY <1>0, <2>4, StartLate
  <2>6. tool'.written = 0
    BY <2>1, <2>2, <2>3
  <2>7. ~(tool'.written >= 1) /\ ~(tool'.written >= 2)
    BY <2>6
  <2>8. phone' = phone /\ wire' = wire
    BY <1>2 DEF Start
  <2> QED  BY <2>5, <2>7, <2>8 DEF Counted
<1>3. CASE TickSettle
  <2>1. UNCHANGED <<phone, wire, did, runs>> /\ tool.state = "settle"
    BY <1>3 DEF TickSettle
  <2>2. tool'.written = tool.written
    BY <1>0, <1>3, SettleEnds
  <2>3. Progress(tool') <= Progress(tool)
    BY <1>0, <2>1, ProgressIs DEF Ended
  <2>4. Late(tool', phone, wire.out, did, 0)
    BY <1>0, <2>3, LateShrinks
  <2> QED  BY <2>1, <2>2, <2>4 DEF Counted
<1>4. ASSUME NEW open \in BOOLEAN, NEW over \in BOOLEAN, TickPump(open, over)
      PROVE  Counted(tool', did') /\ Late(tool', phone', wire'.out, did', 0)
  <2>1. PICK t : /\ Sound(t, phone) /\ Same(t, tool) /\ t.expect = tool.expect
                 /\ \/ tool' = Handled(t, wire.out)
                    \/ tool' = Fail(Handled(t, wire.out))
                 /\ wire'.out = <<>>
    BY <1>0, <1>4, PumpIs
  <2>2. phone' = phone /\ did' = did
    BY <1>4 DEF TickPump
  <2>3. Service(t) /\ Shape(t) /\ Progress(t) = Progress(tool) /\ Counted(t, did)
    BY <2>1 DEF Sound, Same, Progress, Counted
  <2>4. Late(t, phone, wire.out, did, 0)
    BY <1>0, <2>3, LateShrinks
  <2> DEFINE h == Handled(t, wire.out)
             n == Len(wire.out)
  <2>5. Late(h, phone, wire.out, did, n) /\ Counted(h, did)
    BY <1>0, <2>3, <2>4, RingLate
  <2>6. Sound(h, phone)
    BY <1>0, <2>1, RingTruth
  <2>7. Service(h) /\ Service(Fail(h)) /\ Fail(h).state = "failed" /\ Fail(h).written = h.written
    BY <2>6, FailIs DEF Sound, Truthful
  <2> HIDE DEF h
  <2>8. Counted(tool', did)
    BY <2>1, <2>5, <2>7 DEF Counted, h
  <2>9. Progress(tool') <= Progress(h)
    <3>1. Progress(h) \in Nat /\ Progress(Fail(h)) = 0
      BY <2>7, ProgressIs DEF Ended
    <3> QED  BY <2>1, <3>1 DEF h
  <2>10. ASSUME NEW w \in Writes \ did, Comes(phone, <<>>, w, 0)
         PROVE  /\ Comes(phone, wire.out, w, n)
                /\ Ahead(phone, <<>>, w, 0) \subseteq Ahead(phone, wire.out, w, n)
    <3>1. DOMAIN <<>> = {}
      OBVIOUS
    <3> QED  BY <2>10, <3>1 DEF Comes, Ahead
  <2>11. <<>> \in Seq(Replies) /\ n \in Nat
    BY <1>0
  <2>12. Late(tool', phone, <<>>, did, 0)
    <3> HIDE DEF n
    <3> QED  BY <1>0, <2>5, <2>7, <2>9, <2>10, <2>11, LateShrinks, ZenonT(40)
  <2> QED  BY <2>1, <2>2, <2>8, <2>12
<1>5. CASE PhoneMisses \/ PhoneAcked
  <2>1. wire'.out = wire.out /\ UNCHANGED <<tool, did, runs>>
    BY <1>0, <1>5 DEF PhoneMisses, PhoneAcked, TypeOK
  <2>2. phone' = phone \/ phone'.unacked = NoReply
    BY <1>0, <1>5 DEF PhoneMisses, PhoneAcked, TypeOK
  <2>3. ASSUME NEW w \in Writes \ did, Comes(phone', wire.out, w, 0)
        PROVE  /\ Comes(phone, wire.out, w, 0)
               /\ Ahead(phone', wire.out, w, 0) \subseteq Ahead(phone, wire.out, w, 0)
    <3>1. CASE phone' = phone
      BY <2>3, <3>1
    <3>2. CASE phone'.unacked = NoReply
      <4>1. phone'.unacked.cmd # w
        <5>1. NoReply.cmd = None
          BY DEF NoReply
        <5>2. w # None
          BY DEF Writes, None
        <5> QED  BY <3>2, <5>1, <5>2
      <4> QED  BY <2>3, <4>1 DEF Comes, Ahead
    <3> QED  BY <2>2, <3>1, <3>2
  <2>4. Late(tool, phone', wire.out, did, 0)
    BY <1>0, <2>3, LateShrinks
  <2> QED  BY <2>1, <2>4 DEF Counted
<1>6. CASE PhoneAnswers
  <2> DEFINE g == Into(wire.out, phone'.unacked)
  <2>1. /\ phone'.unacked \in Replies /\ phone'.unacked.cmd = Head(wire.in).cmd
        /\ wire'.out = g /\ did' = did \cup (Writes \cap {Head(wire.in).cmd})
    BY <1>0, <1>6, AnswerIs
  <2>2. tool' = tool
    BY <1>6 DEF PhoneAnswers
  <2>3. /\ g \in Seq(Replies)
        /\ \/ g = wire.out
           \/ /\ Len(g) = Len(wire.out) + 1 /\ g[Len(wire.out) + 1] = phone'.unacked
              /\ \A i \in 1 .. Len(wire.out) : g[i] = wire.out[i]
    BY <1>0, <2>1, IntoIs
  <2> HIDE DEF g
  <2>4. ASSUME NEW w \in Writes \ did'
        PROVE  phone'.unacked.cmd # w
    BY <2>1, <2>4
  <2>5. ASSUME NEW w \in Writes \ did', Comes(phone', g, w, 0)
        PROVE  /\ Comes(phone, wire.out, w, 0)
               /\ Ahead(phone', g, w, 0) \subseteq Ahead(phone, wire.out, w, 0)
    <3>1. ASSUME NEW k \in DOMAIN g, g[k].cmd = w
          PROVE  k \in DOMAIN wire.out /\ wire.out[k].cmd = w
      <4>1. CASE g = wire.out
        BY <3>1, <4>1
      <4>2. CASE g # wire.out
        <5>1. k \in 1 .. Len(wire.out) \/ k = Len(wire.out) + 1
          BY <1>0, <2>3, <4>2
        <5>2. k # Len(wire.out) + 1
          BY <2>3, <2>4, <2>5, <3>1, <4>2
        <5> QED  BY <1>0, <2>3, <3>1, <4>2, <5>1, <5>2
      <4> QED  BY <4>1, <4>2
    <3>2. ASSUME NEW k \in Ahead(phone', g, w, 0) PROVE k \in Ahead(phone, wire.out, w, 0)
      <4>1. k \in DOMAIN g /\ g[k].cmd # w /\ Comes(phone', g, w, k) /\ k > 0
        BY <3>2 DEF Ahead
      <4>2. PICK j \in DOMAIN g : j > k /\ g[j].cmd = w
        BY <2>4, <2>5, <4>1 DEF Comes
      <4>3. j \in DOMAIN wire.out /\ wire.out[j].cmd = w
        BY <3>1, <4>2
      <4>4. k \in DOMAIN wire.out /\ wire.out[k] = g[k]
        BY <1>0, <2>3, <4>1, <4>2, <4>3
      <4> QED  BY <4>1, <4>2, <4>3, <4>4 DEF Ahead, Comes
    <3>3. Comes(phone, wire.out, w, 0)
      BY <2>4, <2>5, <3>1 DEF Comes
    <3> QED  BY <3>2, <3>3
  <2>6. did \subseteq did'
    BY <2>1
  <2>7. Late(tool, phone', g, did', 0)
    BY <1>0, <2>3, <2>5, <2>6, LateShrinks
  <2>8. Counted(tool, did')
    BY <2>6 DEF Counted
  <2> QED  BY <2>1, <2>2, <2>7, <2>8
<1>7. CASE PhoneRepeats
  <2> DEFINE g == Into(wire.out, phone.unacked)
  <2>1. wire'.out = g /\ UNCHANGED <<tool, phone, did, runs>>
    BY <1>0, <1>7 DEF PhoneRepeats, TypeOK
  <2>2. /\ g \in Seq(Replies)
        /\ \/ g = wire.out
           \/ /\ Len(g) = Len(wire.out) + 1 /\ g[Len(wire.out) + 1] = phone.unacked
              /\ \A i \in 1 .. Len(wire.out) : g[i] = wire.out[i]
    BY <1>0, IntoIs
  <2> HIDE DEF g
  <2>3. ASSUME NEW w \in Writes \ did, Comes(phone, g, w, 0)
        PROVE  /\ Comes(phone, wire.out, w, 0)
               /\ Ahead(phone, g, w, 0) \subseteq Ahead(phone, wire.out, w, 0)
    <3>1. ASSUME NEW k \in DOMAIN g, phone.unacked.cmd # w \/ g[k].cmd # w
          PROVE  (g[k].cmd = w \/ Comes(phone, g, w, k)) =>
                     k \in DOMAIN wire.out /\ g[k] = wire.out[k]
      <4>1. CASE g = wire.out
        BY <4>1
      <4>2. CASE g # wire.out
        <5>1. k \in 1 .. Len(wire.out) \/ k = Len(wire.out) + 1
          BY <1>0, <2>2, <4>2
        <5>2. CASE k = Len(wire.out) + 1
          <6>1. g[k].cmd # w /\ phone.unacked.cmd # w
            BY <2>2, <3>1, <4>2, <5>2
          <6>2. \A j \in DOMAIN g : ~(j > k)
            BY <1>0, <2>2, <4>2, <5>2
          <6> QED  BY <6>1, <6>2 DEF Comes
        <5>3. CASE k \in 1 .. Len(wire.out)
          BY <1>0, <2>2, <4>2, <5>3
        <5> QED  BY <5>1, <5>2, <5>3
      <4> QED  BY <4>1, <4>2
    <3>2. ASSUME NEW k \in Ahead(phone, g, w, 0) PROVE k \in Ahead(phone, wire.out, w, 0)
      <4>1. k \in DOMAIN g /\ g[k].cmd # w /\ Comes(phone, g, w, k) /\ k > 0
        BY <3>2 DEF Ahead
      <4>2. k \in DOMAIN wire.out /\ wire.out[k] = g[k]
        BY <3>1, <4>1
      <4>3. CASE phone.unacked.cmd = w
        BY <4>1, <4>2, <4>3 DEF Ahead, Comes
      <4>4. CASE phone.unacked.cmd # w
        <5>1. PICK j \in DOMAIN g : j > k /\ g[j].cmd = w
          BY <4>1, <4>4 DEF Comes
        <5>2. j \in DOMAIN wire.out /\ wire.out[j].cmd = w
          BY <3>1, <4>4, <5>1
        <5> QED  BY <4>1, <4>2, <5>1, <5>2 DEF Ahead, Comes
      <4> QED  BY <4>3, <4>4
    <3>3. Comes(phone, wire.out, w, 0)
      BY <2>3, <3>1 DEF Comes
    <3> QED  BY <3>2, <3>3
  <2>4. Late(tool, phone, g, did, 0)
    BY <1>0, <2>2, <2>3, LateShrinks
  <2> QED  BY <2>1, <2>4
<1> QED  BY <1>1, <1>2, <1>3, <1>4, <1>5, <1>6, <1>7 DEF Next

\* The count of written records never runs ahead of the phone (WrittenTrue), for any
\* prologue and any ring that holds no more answers than it: an answer left over from an
\* earlier run is not taken for the answer to a write.
THEOREM WrittenTrueAlways == SmallRing /\ Spec => []WrittenTrue
<1> SUFFICES ASSUME SmallRing PROVE Spec => []WrittenTrue
  OBVIOUS
<1>1. Init => Kept
  <2> SUFFICES ASSUME Init PROVE Kept
    OBVIOUS
  <2>2. Safe
    BY SafeInit
  <2>3. Service(tool) /\ wire.out \in Seq(Replies) /\ Len(wire.out) <= RingFrames
    BY <2>2 DEF Safe, Sound, TypeOK
  <2>4. tool.state = "idle" /\ tool.written = 0
    BY DEF Init, Fresh
  <2>5. Progress(tool) = 0
    BY <2>3, <2>4, ProgressIs DEF Ended
  <2>6. Late(tool, phone, wire.out, did, 0)
    BY <2>3, <2>5, StartLate
  <2>7. ~(tool.written >= 1) /\ ~(tool.written >= 2)
    BY <2>4
  <2> QED  BY <2>2, <2>6, <2>7 DEF Kept, Counted
<1>2. Kept /\ [Next]_vars => Kept'
  BY SafeNext, KeptNext DEF Kept
<1>3. Kept => WrittenTrue
  BY DEF Kept, Safe, Counted, WrittenTrue
<1> QED  BY <1>1, <1>2, <1>3, PTL DEF Spec
=============================================================================
