---------------------------- MODULE CcontProofs ----------------------------
(***************************************************************************)
(* Proofs about Ccont, for every length of a second, a minute and an hour, *)
(* every set of register writes and every setting of the environment.      *)
(***************************************************************************)
EXTENDS Ccont, TLAPS

-----------------------------------------------------------------------------
(* Division.  The cycles per second and per minute are parameters, so these *)
(* few facts about a variable divisor carry the arithmetic.                 *)

\* The quotient and the remainder, and what they make together.
LEMMA DivMod ==
    ASSUME NEW a \in Int, NEW m \in Nat \ {0}
    PROVE  /\ a \div m \in Int /\ a % m \in 0 .. m - 1
           /\ a = m * (a \div m) + (a % m)
BY Z3

\* A natural number has a natural quotient and a natural remainder.
LEMMA DivNat ==
    ASSUME NEW a \in Nat, NEW m \in Nat \ {0}
    PROVE  a \div m \in Nat /\ a % m \in Nat
BY DivMod, Z3

\* Below the next multiple the quotient has not grown.
LEMMA DivBelow ==
    ASSUME NEW a \in Nat, NEW q \in Nat, NEW m \in Nat \ {0}, a < (q + 1) * m
    PROVE  a \div m <= q
BY DivMod, Z3

\* The next multiple lies ahead.
LEMMA NextAfter ==
    ASSUME NEW a \in Nat, NEW m \in Nat \ {0}
    PROVE  (a \div m + 1) * m \in Nat /\ (a \div m + 1) * m > a
BY DivMod, DivNat, Z3

\* The quotient grows with its dividend.
LEMMA DivMono ==
    ASSUME NEW a \in Nat, NEW b \in Nat, NEW m \in Nat \ {0}, a <= b
    PROVE  a \div m <= b \div m
BY DivMod, Z3

\* Products of natural numbers are natural numbers.
LEMMA MulNat ==
    ASSUME NEW a \in Nat, NEW m \in Nat
    PROVE  a * m \in Nat
BY Z3

\* Products of positive numbers are positive.
LEMMA MulPos ==
    ASSUME NEW a \in Nat \ {0}, NEW m \in Nat \ {0}
    PROVE  a * m \in Nat \ {0}
BY Z3

\* A minute has a positive number of cycles.
LEMMA MinCycPos == MinCyc \in Nat \ {0}
BY CcontAssumption, MulPos DEF MinCyc

-----------------------------------------------------------------------------
(* The inductive invariant. *)

\* The next minute edge is the first minute after now: none is overdue and
\* none has been jumped over.
MinuteAhead == rtc.minNext = NextMinute(now)

\* An alarm line that is up has the time of its assertion noted.
AlarmTimed == "alarm" \in int.lines => alarm.since # 0

\* A running deadline lies a whole window after the last feed, a dog that is
\* disabled has none, and one fed on both registers has one.
DogTimed(d) ==
    /\ d.window > 0
    /\ d.deadline # 0 => d.deadline >= d.lastKick + d.window
    /\ d.disabled => d.deadline = 0
    /\ d.cc # 0 /\ d.ctsi # 0 /\ ~d.disabled => d.deadline # 0

RtcType == [base : Nat, baseCyc : Int, secNext : Nat, minNext : Nat]
DogType == [cc : Nat, ctsi : Nat, disabled : BOOLEAN, deadline : Nat,
            window : Nat, lastKick : Nat, starved : Nat, service : BOOLEAN,
            resetArmed : BOOLEAN, tripped : BOOLEAN, off : BOOLEAN]

Inv ==
    /\ TypeOK /\ rtc.baseCyc <= now
    /\ Irq2Level /\ AlarmReleased
    /\ MinuteAhead /\ AlarmTimed /\ DogTimed(dog)

-----------------------------------------------------------------------------
(* Type lemmas for the operators. *)

\* The seconds a clock counts are a natural number.
LEMMA SecondsType ==
    ASSUME NEW r, r.base \in Nat, r.baseCyc \in Int, NEW t \in Nat, r.baseCyc <= t
    PROVE  Seconds(r, t) \in Nat
<1>1. t - r.baseCyc \in Nat
  OBVIOUS
<1>2. (t - r.baseCyc) \div SecCyc \in Nat
  BY <1>1, DivNat, CcontAssumption
<1> QED
  BY <1>2 DEF Seconds

\* Every counter reads a natural number.
LEMMA CounterType ==
    ASSUME NEW n \in Nat, NEW reg \in Counters
    PROVE  Counter(reg, n) \in Nat
<1> DEFINE M == SecsPerMin
           H == SecsPerMin * MinsPerHour
           D == SecsPerMin * MinsPerHour * HoursPerDay
<1>1. M \in Nat \ {0} /\ H \in Nat \ {0} /\ D \in Nat \ {0}
  BY MulPos, CcontAssumption
<1>2. n \div M \in Nat /\ n \div H \in Nat /\ n \div D \in Nat /\ n % M \in Nat
  <2> HIDE DEF M, H, D
  <2> QED
    BY <1>1, DivNat
<1>3. (n \div M) % MinsPerHour \in Nat /\ (n \div H) % HoursPerDay \in Nat
  <2> HIDE DEF M, H, D
  <2>1. MinsPerHour \in Nat \ {0} /\ HoursPerDay \in Nat \ {0}
    BY CcontAssumption
  <2> QED
    BY <1>2, <2>1, DivNat
<1>4. reg \in {7, 8, 9, 10}
  BY DEF Counters
<1> QED
  BY <1>2, <1>3, <1>4 DEF Counter

\* Four natural counters make a natural number of seconds.
LEMMA ComposeType ==
    ASSUME NEW s \in Nat, NEW m \in Nat, NEW h \in Nat, NEW d \in Nat
    PROVE  Compose(s, m, h, d) \in Nat
<1>1. d * HoursPerDay + h \in Nat
  BY MulNat, CcontAssumption
<1>2. (d * HoursPerDay + h) * MinsPerHour + m \in Nat
  BY <1>1, MulNat, CcontAssumption
<1>3. ((d * HoursPerDay + h) * MinsPerHour + m) * SecsPerMin \in Nat
  BY <1>2, MulNat, CcontAssumption
<1> QED
  BY <1>3 DEF Compose

\* Setting a counter keeps the clock well formed, and its base not ahead of now.
LEMMA SetCounterType ==
    ASSUME NEW r \in RtcType,
           NEW t \in Nat, r.baseCyc <= t, NEW reg \in Counters, NEW value \in Nat
    PROVE  /\ SetCounter(r, t, reg, value) \in RtcType
           /\ SetCounter(r, t, reg, value).baseCyc <= t
           /\ SetCounter(r, t, reg, value).minNext = r.minNext
<1> DEFINE n == Seconds(r, t)
           read(k) == IF k = reg THEN value ELSE Counter(k, n)
           base == Compose(read(7), read(8), read(9), read(10))
<1>1. n \in Nat
  BY SecondsType DEF RtcType
<1>2. \A k \in Counters : read(k) \in Nat
  <2> HIDE DEF n
  <2> QED
    BY <1>1, CounterType
<1>3. 7 \in Counters /\ 8 \in Counters /\ 9 \in Counters /\ 10 \in Counters
  BY DEF Counters
<1>4. base \in Nat
  <2> HIDE DEF read
  <2> QED
    BY <1>2, <1>3, ComposeType
<1>5. (t - r.baseCyc) % SecCyc \in Nat /\ r.baseCyc \in Int
  BY DivNat, CcontAssumption DEF RtcType
<1> DEFINE cyc == t - ((t - r.baseCyc) % SecCyc)
<1>6. cyc \in Int /\ cyc <= t
  BY <1>5
<1>7. SetCounter(r, t, reg, value) = [r EXCEPT !.base = base, !.baseCyc = cyc]
  BY DEF SetCounter
<1> HIDE DEF base, cyc
<1> QED
  BY <1>4, <1>6, <1>7 DEF RtcType

\* A feed, a disable or a power-off keeps the watchdog well formed, whichever
\* register it is written to.
LEMMA KickTimed ==
    ASSUME NEW d \in DogType, NEW e \in DogType, DogTimed(d), NEW t \in Nat, NEW value \in Nat,
           \/ e = [d EXCEPT !.cc = value]
           \/ e = [d EXCEPT !.ctsi = value]
    PROVE  /\ PowerOff(Kick(e, t, value), value) \in DogType
           /\ DogTimed(PowerOff(Kick(e, t, value), value))
           /\ PowerOff(Kick(e, t, value), value).starved = d.starved
<1> DEFINE k == Kick(e, t, value)
           p == PowerOff(k, value)
           w == value * SecCyc
<1>0. DogOff # 0 /\ DogOff \in Nat
  BY CcontAssumption
<1>e. /\ e \in DogType
      /\ e.window = d.window /\ e.deadline = d.deadline /\ e.lastKick = d.lastKick
      /\ e.disabled = d.disabled /\ e.starved = d.starved
      /\ e.cc = value \/ e.ctsi = value
  BY DEF DogType
<1> DEFINE yes == TRUE
           no  == FALSE
<1>b. yes \in BOOLEAN /\ yes /\ no \in BOOLEAN /\ ~no
  OBVIOUS
<1>1. CASE value \in {0, DogOff}
  <2> DEFINE dis == IF value = DogOff THEN TRUE ELSE e.disabled
  <2>1. k = [e EXCEPT !.disabled = dis, !.deadline = 0]
    BY <1>1 DEF Kick
  <2>2. p = k \/ p = [k EXCEPT !.off = yes]
    BY DEF PowerOff
  <2>3. dis \in BOOLEAN /\ (value = DogOff => dis)
    BY <1>e DEF DogType
  <2> HIDE DEF k, p, dis, yes, no
  <2>4. /\ k \in DogType
        /\ k.deadline = 0 /\ k.window = d.window /\ k.starved = d.starved
        /\ k.cc = value \/ k.ctsi = value
        /\ k.disabled = dis
    BY <1>e, <2>1, <2>3 DEF DogType
  <2>5. /\ p \in DogType
        /\ p.deadline = 0 /\ p.window = d.window /\ p.starved = d.starved
        /\ p.cc = value \/ p.ctsi = value
        /\ p.disabled = dis
    BY <1>b, <2>2, <2>4 DEF DogType
  <2>6. DogTimed(p)
    BY <1>1, <2>3, <2>5 DEF DogTimed
  <2> QED
    BY <2>5, <2>6 DEF p, k
<1>2. CASE value \notin {0, DogOff}
  <2>1. w \in Nat /\ w > 0
    BY <1>2, MulPos, CcontAssumption
  <2> DEFINE due == t + w
  <2>2. k = [e EXCEPT !.disabled = no, !.lastKick = t, !.window = w, !.deadline = due]
    BY <1>2 DEF Kick
  <2>3. p = k
    BY <1>2 DEF PowerOff
  <2>t. due \in Nat /\ due = t + w
    BY <2>1
  <2> HIDE DEF k, p, w, yes, no, due
  <2>4. /\ k \in DogType
        /\ k.deadline = due /\ k.window = w /\ k.lastKick = t /\ k.starved = d.starved
        /\ k.disabled = no
    BY <1>b, <1>e, <2>1, <2>2, <2>t DEF DogType
  <2>5. DogTimed(k)
    BY <1>b, <2>1, <2>4, <2>t DEF DogTimed
  <2> QED
    BY <2>3, <2>4, <2>5 DEF p, k
<1> QED
  BY <1>1, <1>2

\* A look at the watchdog keeps it well formed; it counts a starvation only a
\* window after the last feed, and leaves no deadline behind of a dog that is on.
LEMMA WatchTimed ==
    ASSUME NEW d \in DogType, DogTimed(d), NEW t \in Nat
    PROVE  /\ Watch(d, t) \in DogType /\ DogTimed(Watch(d, t))
           /\ Watch(d, t).starved # d.starved => t >= d.lastKick + d.window /\ ~d.disabled /\ ~d.off
           /\ d.cc # 0 /\ d.ctsi # 0 /\ ~d.disabled /\ ~d.off => Watch(d, t).deadline > t
<1>1. CASE ~Starving(d, t)
  <2>1. Watch(d, t) = d
    BY <1>1 DEF Watch
  <2> QED
    BY <1>1, <2>1 DEF Starving, DogTimed, DogType
<1>2. CASE Starving(d, t)
  <2> DEFINE n == Missed(d, t)
             m == n * d.window
             w == Watch(d, t)
  <2>1. t - d.deadline \in Nat /\ d.window \in Nat \ {0}
    BY <1>2 DEF Starving, DogTimed, DogType
  <2>2. n \in Nat
    BY <2>1, DivNat DEF Missed
  <2>3. m \in Nat /\ m > t - d.deadline
    <3>1. n = (t - d.deadline) \div d.window + 1
      BY <2>1, DivNat DEF Missed
    <3> HIDE DEF n
    <3> QED
      BY <2>1, <3>1, NextAfter
  <2> DEFINE tr == IF d.resetArmed THEN TRUE ELSE d.tripped
             st == d.starved + n
             due == d.deadline + m
  <2>4. w = [d EXCEPT !.starved = st, !.deadline = due, !.tripped = tr]
    BY <1>2 DEF Watch
  <2>t. /\ tr \in BOOLEAN
        /\ st \in Nat
        /\ due \in Nat /\ due = d.deadline + m
    <3>1. tr \in BOOLEAN
      BY DEF DogType
    <3>2. d.starved \in Nat /\ d.deadline \in Nat
      BY DEF DogType
    <3> HIDE DEF n, m, tr
    <3> QED
      BY <2>2, <2>3, <3>1, <3>2
  <2> HIDE DEF n, m, w, tr, st, due
  <2>5. w \in DogType
    BY <2>4, <2>t DEF DogType
  <2>6. /\ w.deadline = due /\ w.window = d.window /\ w.lastKick = d.lastKick
        /\ w.disabled = d.disabled /\ w.cc = d.cc /\ w.ctsi = d.ctsi
    BY <2>4, <2>t DEF DogType
  <2>7. DogTimed(w) /\ w.deadline > t
    BY <1>2, <2>3, <2>5, <2>6, <2>t DEF Starving, DogTimed, DogType
  <2>8. t >= d.lastKick + d.window /\ ~d.disabled /\ ~d.off
    BY <1>2 DEF Starving, DogTimed, DogType
  <2> QED
    BY <2>5, <2>7, <2>8 DEF w
<1> QED
  BY <1>1, <1>2
-----------------------------------------------------------------------------
(* The invariant is inductive. *)

IntType == [lines : SUBSET Lines, mask : SUBSET Lines, irq2 : BOOLEAN]
AlarmType == [enabled : BOOLEAN, armed : BOOLEAN, fired : BOOLEAN,
              min : Nat, hr : Nat, since : Nat]

\* The cascade after an update is well formed and level.
LEMMA CascadeType ==
    ASSUME NEW lines \in SUBSET Lines, NEW mask \in SUBSET Lines
    PROVE  /\ Cascade(lines, mask) \in IntType
           /\ Cascade(lines, mask).lines = lines
           /\ Cascade(lines, mask).mask = mask
           /\ Cascade(lines, mask).irq2 <=> lines \ mask # {}
<1> DEFINE level == lines \ mask # {}
<1>1. level \in BOOLEAN
  OBVIOUS
<1>2. Cascade(lines, mask) = [lines |-> lines, mask |-> mask, irq2 |-> level]
  BY DEF Cascade
<1> HIDE DEF level
<1>3. /\ Cascade(lines, mask) \in IntType
      /\ Cascade(lines, mask).lines = lines
      /\ Cascade(lines, mask).mask = mask
      /\ Cascade(lines, mask).irq2 = level
  BY <1>1, <1>2 DEF IntType
<1> QED
  BY <1>3 DEF level

\* The first minute edge is the end of the first minute.
LEMMA FirstMinute == NextMinute(0) = MinCyc
<1> DEFINE m == MinCyc
           q == 0 \div m
<1>1. m \in Nat \ {0}
  BY MinCycPos
<1>2. q \in Nat /\ q <= 0
  <2> HIDE DEF m
  <2> QED
    BY <1>1, DivNat, DivBelow, Z3
<1>3. (q + 1) * m = m
  <2> HIDE DEF m, q
  <2> QED
    BY <1>1, <1>2
<1> QED
  BY <1>3 DEF NextMinute

\* A tick that stops short of the next minute stays in this one.
LEMMA SameMinute ==
    ASSUME NEW a \in Nat, NEW b \in Nat, a <= b, b < NextMinute(a)
    PROVE  b \div MinCyc = a \div MinCyc
<1> DEFINE m == MinCyc
<1>1. m \in Nat \ {0}
  BY MinCycPos
<1>2. b < (a \div m + 1) * m
  BY DEF NextMinute
<1> HIDE DEF m
<1>3. a \div m \in Nat /\ b \div m \in Nat
  BY <1>1, DivNat
<1>4. b \div m <= a \div m
  BY <1>1, <1>2, <1>3, DivBelow
<1>5. a \div m <= b \div m
  BY <1>1, DivMono
<1>6. b \div m = a \div m
  BY <1>3, <1>4, <1>5
<1> QED
  BY <1>6 DEF m

\* The next minute lies ahead.
LEMMA MinuteLater ==
    ASSUME NEW t \in Nat
    PROVE  NextMinute(t) \in Nat /\ NextMinute(t) > t
BY MinCycPos, NextAfter DEF NextMinute

\* The next second lies ahead.
LEMMA SecondLater ==
    ASSUME NEW t \in Nat
    PROVE  NextSecond(t) \in Nat /\ NextSecond(t) > t
BY CcontAssumption, NextAfter DEF NextSecond

\* TypeOK by the sets the lemmas name.
LEMMA TypeSplit ==
    TypeOK <=> /\ now \in Nat
               /\ addr \in Regs \cup {NoReg}
               /\ int \in IntType
               /\ rtc \in RtcType
               /\ alarm \in AlarmType
               /\ charger \in [plugged : BOOLEAN, present : BOOLEAN]
               /\ dog \in DogType
BY DEF TypeOK, IntType, RtcType, AlarmType, DogType

\* The initial states satisfy the invariant.
LEMMA InitInv == Init => Inv
<1> SUFFICES ASSUME Init PROVE Inv
  OBVIOUS
<1>1. PICK mode \in Modes :
        /\ alarm = [enabled |-> mode.alarm, armed |-> FALSE, fired |-> FALSE,
                    min |-> 0, hr |-> 0, since |-> 0]
        /\ dog = [cc |-> 0, ctsi |-> 0, disabled |-> FALSE, deadline |-> 0,
                  window |-> 49 * SecCyc, lastKick |-> 0, starved |-> 0,
                  service |-> mode.service, resetArmed |-> mode.resetArmed,
                  tripped |-> FALSE, off |-> FALSE]
  BY DEF Init
<1>2. mode \in [alarm : BOOLEAN, service : BOOLEAN, resetArmed : BOOLEAN]
  BY CcontAssumption
<1>3. int \in IntType /\ int.lines = {} /\ (int.irq2 <=> int.lines \ int.mask # {})
  BY CascadeType DEF Init
<1>4. rtc \in RtcType /\ rtc.baseCyc = 0 /\ rtc.minNext = MinCyc
  <2>1. MinCyc \in Nat
    BY MinCycPos
  <2> QED
    BY <2>1 DEF Init, RtcType
<1> DEFINE no == FALSE
           w  == 49 * SecCyc
<1>5. no \in BOOLEAN /\ ~no /\ w \in Nat /\ w > 0
  BY CcontAssumption
<1>6. alarm \in AlarmType
  <2>1. alarm = [enabled |-> mode.alarm, armed |-> no, fired |-> no,
                 min |-> 0, hr |-> 0, since |-> 0]
    BY <1>1
  <2> HIDE DEF no
  <2> QED
    BY <1>2, <1>5, <2>1 DEF AlarmType
<1>7. dog \in DogType /\ DogTimed(dog)
  <2>1. dog = [cc |-> 0, ctsi |-> 0, disabled |-> no, deadline |-> 0,
               window |-> w, lastKick |-> 0, starved |-> 0,
               service |-> mode.service, resetArmed |-> mode.resetArmed,
               tripped |-> no, off |-> no]
    BY <1>1
  <2> HIDE DEF no, w
  <2>2. dog \in DogType
    BY <1>2, <1>5, <2>1 DEF DogType
  <2>3. dog.cc = 0 /\ dog.deadline = 0 /\ dog.window = w
    BY <2>1
  <2> QED
    BY <1>5, <2>2, <2>3 DEF DogTimed
<1>8. now = 0 /\ addr = NoReg /\ charger \in [plugged : BOOLEAN, present : BOOLEAN]
  <2>1. charger = [plugged |-> no, present |-> no]
    BY DEF Init
  <2> HIDE DEF no
  <2>2. charger \in [plugged : BOOLEAN, present : BOOLEAN]
    BY <1>5, <2>1
  <2> QED
    BY <2>2 DEF Init
<1>9. TypeOK
  BY <1>3, <1>4, <1>6, <1>7, <1>8, TypeSplit
<1>10. MinuteAhead
  BY <1>4, <1>8, FirstMinute DEF MinuteAhead
<1> QED
  BY <1>3, <1>4, <1>7, <1>8, <1>9, <1>10 DEF Inv, Irq2Level, AlarmReleased, AlarmTimed

\* What a step keeps when it moves neither the clock nor the minute edge.
LEMMA Standing ==
    ASSUME Inv, now' = now, rtc'.minNext = rtc.minNext
    PROVE  MinuteAhead'
BY DEF Inv, MinuteAhead, NextMinute

\* The bus actions that leave the controller's state alone.
LEMMA PlainInv ==
    ASSUME Inv, SelectReg \/ ReadReg \/ UNCHANGED vars
    PROVE  Inv'
<1>1. now' = now /\ int' = int /\ rtc' = rtc /\ alarm' = alarm /\ dog' = dog /\ charger' = charger
  BY DEF SelectReg, ReadReg, vars
<1>2. addr' \in Regs \cup {NoReg}
  BY CcontAssumption DEF Inv, TypeOK, SelectReg, ReadReg, vars, Regs
<1>3. TypeOK'
  BY <1>1, <1>2 DEF Inv, TypeOK
<1> QED
  BY <1>1, <1>3, Standing
  DEF Inv, Irq2Level, AlarmReleased, AlarmTimed, DogTimed

\* The charger raises a line of its own.
LEMMA PlugInv ==
    ASSUME Inv, Plug
    PROVE  Inv'
<1> DEFINE in == ~charger.plugged
           up == int.lines \cup {"charger"}
<1>1. /\ charger' = [plugged |-> in, present |-> in]
      /\ int' = Cascade(up, int.mask) \/ int' = int
      /\ now' = now /\ addr' = addr /\ rtc' = rtc /\ alarm' = alarm /\ dog' = dog
  BY DEF Plug
<1>2. up \in SUBSET Lines /\ int.mask \in SUBSET Lines /\ ("alarm" \in up <=> "alarm" \in int.lines)
  BY DEF Inv, TypeOK, Lines
<1>3. in \in BOOLEAN
  OBVIOUS
<1> HIDE DEF in, up
<1>4. /\ int' \in IntType /\ (int'.irq2 <=> int'.lines \ int'.mask # {})
      /\ ("alarm" \in int'.lines <=> "alarm" \in int.lines)
  <2>1. CASE int' = Cascade(up, int.mask)
    BY <1>2, <2>1, CascadeType
  <2>2. CASE int' = int
    BY <2>2, TypeSplit DEF Inv, Irq2Level
  <2> QED  BY <1>1, <2>1, <2>2
<1>5. charger' \in [plugged : BOOLEAN, present : BOOLEAN]
  BY <1>1, <1>3
<1>6. TypeOK'
  BY <1>1, <1>4, <1>5 DEF Inv, TypeOK, IntType
<1> QED
  BY <1>1, <1>4, <1>6, Standing
  DEF Inv, Irq2Level, AlarmReleased, AlarmTimed, DogTimed

\* Acknowledging, masking and the latch's acknowledge keep the cascade level.
LEMMA CascadeInv ==
    ASSUME Inv, IrqAct
    PROVE  Inv'
<1>1. int.lines \in SUBSET Lines /\ int.mask \in SUBSET Lines
  BY DEF Inv, TypeOK
<1>2. int' \in IntType /\ int'.lines = int.lines /\ (int'.irq2 <=> int'.lines \ int'.mask # {})
  BY <1>1, CascadeType DEF IrqAct
<1>3. /\ now' = now /\ addr' = addr /\ rtc' = rtc /\ alarm' = alarm
      /\ charger' = charger /\ dog' = dog
  BY DEF IrqAct
<1>4. TypeOK'
  BY <1>2, <1>3 DEF Inv, TypeOK, IntType
<1> QED
  BY <1>2, <1>3, <1>4, Standing
  DEF Inv, Irq2Level, AlarmReleased, AlarmTimed, DogTimed

\* A feed through CTSI.
LEMMA FeedCtsiInv ==
    ASSUME Inv, FeedCtsi
    PROVE  Inv'
<1>1. PICK w \in Writes : w.reg = Watchdog /\ dog' = KickCtsi(dog, now, w.value)
  BY DEF FeedCtsi
<1>2. w.value \in Nat
  BY <1>1, CcontAssumption DEF Watchdog, IntAck, IntMask
<1> DEFINE e == [dog EXCEPT !.ctsi = w.value]
<1>3. dog \in DogType /\ DogTimed(dog) /\ now \in Nat
  BY TypeSplit DEF Inv
<1>4. e \in DogType
  BY <1>2, <1>3 DEF DogType
<1>5. dog' = PowerOff(Kick(e, now, w.value), w.value)
  BY <1>1 DEF KickCtsi
<1> HIDE DEF e
<1>6. e = [dog EXCEPT !.ctsi = w.value]
  BY DEF e
<1>7. dog' \in DogType /\ DogTimed(dog')
  BY <1>2, <1>3, <1>4, <1>5, <1>6, KickTimed
<1>8. /\ now' = now /\ addr' = addr /\ rtc' = rtc /\ alarm' = alarm
      /\ charger' = charger /\ int' = int
  BY DEF FeedCtsi
<1>9. TypeOK'
  BY <1>7, <1>8 DEF Inv, TypeOK, DogType
<1> QED
  BY <1>7, <1>8, <1>9, Standing
  DEF Inv, Irq2Level, AlarmReleased, AlarmTimed, DogTimed

\* The data byte of a write, whichever register it goes to.
LEMMA WriteRegInv ==
    ASSUME Inv, WriteReg
    PROVE  Inv'
<1>1. PICK w \in Writes :
        /\ w.reg = addr
        /\ \/ addr = IntAck /\ Acknowledge(w.value)
           \/ addr = IntMask /\ SetMask(w.value)
           \/ addr \in {AlarmMin, AlarmHr} /\ SetAlarm(addr, w.value)
           \/ addr \in Counters /\ SetClock(addr, w.value)
           \/ addr = Watchdog /\ FeedCcont(w.value)
  BY DEF WriteReg
<1>2. now' = now /\ addr' = NoReg /\ charger' = charger
  BY DEF WriteReg
<1>3. /\ now \in Nat /\ int \in IntType /\ rtc \in RtcType /\ alarm \in AlarmType
      /\ dog \in DogType
      /\ charger \in [plugged : BOOLEAN, present : BOOLEAN]
  BY TypeSplit DEF Inv
<1>4. /\ w.reg \in {IntAck, IntMask} => w.value \in SUBSET Lines
      /\ w.reg \in {AlarmMin, AlarmHr, Watchdog} \cup Counters => w.value \in Nat
  BY CcontAssumption DEF Watchdog, IntAck, IntMask, AlarmMin, AlarmHr, Counters
<1>5. CASE addr \in {IntAck, IntMask} /\ (Acknowledge(w.value) \/ SetMask(w.value))
  <2>1. w.value \in SUBSET Lines
    BY <1>1, <1>4, <1>5
  <2>2. /\ int' \in IntType /\ (int'.irq2 <=> int'.lines \ int'.mask # {})
        /\ \/ int'.lines = int.lines \ w.value /\ Acknowledge(w.value)
           \/ int'.lines = int.lines /\ SetMask(w.value)
    <3>1. int.lines \in SUBSET Lines /\ int.mask \in SUBSET Lines
      BY <1>3 DEF IntType
    <3>2. CASE Acknowledge(w.value)
      <4>1. int' = Cascade(int.lines \ w.value, int.mask) /\ int.lines \ w.value \in SUBSET Lines
        BY <3>1, <3>2 DEF Acknowledge
      <4> QED
        BY <3>1, <3>2, <4>1, CascadeType
    <3>3. CASE SetMask(w.value)
      <4>1. int' = Cascade(int.lines, w.value)
        BY <3>3 DEF SetMask
      <4> QED
        BY <2>1, <3>1, <3>3, <4>1, CascadeType
    <3> QED
      BY <1>5, <3>2, <3>3
  <2>3. rtc' = rtc /\ dog' = dog
    BY <1>5 DEF Acknowledge, SetMask
  <2>4. /\ alarm' \in AlarmType
        /\ "alarm" \in int'.lines => "alarm" \in int.lines /\ alarm'.since = alarm.since
    <3>1. CASE Acknowledge(w.value) /\ int'.lines = int.lines \ w.value /\ "alarm" \in w.value
      <4>1. alarm' = [alarm EXCEPT !.since = 0]
        BY <3>1 DEF Acknowledge
      <4> QED
        BY <1>3, <3>1, <4>1 DEF AlarmType
    <3>2. CASE Acknowledge(w.value) /\ int'.lines = int.lines \ w.value /\ "alarm" \notin w.value
      BY <1>3, <3>2 DEF Acknowledge
    <3>3. CASE SetMask(w.value) /\ int'.lines = int.lines
      BY <1>3, <3>3 DEF SetMask
    <3> QED
      BY <2>2, <3>1, <3>2, <3>3
  <2>5. TypeOK'
    BY <1>2, <1>3, <2>2, <2>3, <2>4 DEF TypeOK, IntType, RtcType, AlarmType, DogType, NoReg
  <2> QED
    BY <1>2, <2>2, <2>3, <2>4, <2>5, Standing
    DEF Inv, Irq2Level, AlarmReleased, AlarmTimed, DogTimed
<1>6. CASE addr \in {AlarmMin, AlarmHr} /\ SetAlarm(addr, w.value)
  <2>1. int' = int /\ rtc' = rtc /\ dog' = dog
    BY <1>6 DEF SetAlarm
  <2> DEFINE m == IF addr = AlarmMin THEN w.value % 64 ELSE alarm.min
             h == IF addr = AlarmHr THEN w.value % 32 ELSE alarm.hr
             yes == TRUE
             no == FALSE
  <2>2. m \in Nat /\ h \in Nat /\ yes \in BOOLEAN /\ no \in BOOLEAN
    <3>1. addr \in {AlarmMin, AlarmHr} => w.value \in Nat
      BY <1>1, <1>4, <1>6
    <3>2. \A v \in Nat : v % 64 \in Nat /\ v % 32 \in Nat
      OBVIOUS
    <3> QED  BY <1>3, <1>6, <3>1, <3>2 DEF AlarmType
  <2>3. alarm' = [alarm EXCEPT !.min = m, !.hr = h, !.armed = yes, !.fired = no]
    BY <1>6 DEF SetAlarm
  <2> HIDE DEF m, h, yes, no
  <2>4. alarm' \in AlarmType /\ alarm'.since = alarm.since
    BY <1>3, <2>2, <2>3 DEF AlarmType
  <2>5. TypeOK'
    BY <1>2, <1>3, <2>1, <2>4 DEF TypeOK, IntType, RtcType, AlarmType, DogType, NoReg
  <2> QED
    BY <1>2, <2>1, <2>4, <2>5, Standing
    DEF Inv, Irq2Level, AlarmReleased, AlarmTimed, DogTimed
<1>7. CASE addr \in Counters /\ SetClock(addr, w.value)
  <2>1. int' = int /\ alarm' = alarm /\ dog' = dog
    BY <1>7 DEF SetClock
  <2>2. rtc' = SetCounter(rtc, now, addr, w.value) /\ w.value \in Nat /\ rtc.baseCyc <= now
    BY <1>1, <1>4, <1>7 DEF SetClock, Inv
  <2>3. rtc' \in RtcType /\ rtc'.baseCyc <= now /\ rtc'.minNext = rtc.minNext
    BY <1>3, <1>7, <2>2, SetCounterType
  <2>4. TypeOK'
    BY <1>2, <1>3, <2>1, <2>3 DEF TypeOK, IntType, RtcType, AlarmType, DogType, NoReg
  <2> QED
    BY <1>2, <2>1, <2>3, <2>4, Standing
    DEF Inv, Irq2Level, AlarmReleased, AlarmTimed, DogTimed
<1>8. CASE addr = Watchdog /\ FeedCcont(w.value)
  <2>1. int' = int /\ rtc' = rtc /\ alarm' = alarm
    BY <1>8 DEF FeedCcont
  <2>2. dog' = KickCcont(dog, now, w.value) /\ w.value \in Nat
    BY <1>1, <1>4, <1>8 DEF FeedCcont
  <2> DEFINE e == [dog EXCEPT !.cc = w.value]
  <2>3. e \in DogType /\ DogTimed(dog)
    BY <1>3, <2>2 DEF DogType, Inv
  <2>4. dog' = PowerOff(Kick(e, now, w.value), w.value)
    BY <2>2 DEF KickCcont
  <2>5. e = [dog EXCEPT !.cc = w.value]
    OBVIOUS
  <2> HIDE DEF e
  <2>6. dog' \in DogType /\ DogTimed(dog')
    BY <1>3, <2>2, <2>3, <2>4, <2>5, KickTimed
  <2>7. TypeOK'
    BY <1>2, <1>3, <2>1, <2>6 DEF TypeOK, IntType, RtcType, AlarmType, DogType, NoReg
  <2> QED
    BY <1>2, <2>1, <2>6, <2>7, Standing
    DEF Inv, Irq2Level, AlarmReleased, AlarmTimed, DogTimed
<1> QED
  BY <1>1, <1>5, <1>6, <1>7, <1>8

\* A tick whose body is skipped: nothing was due.
LEMMA QuietInv ==
    ASSUME Inv, NEW t \in Nat, t > now, now' = t, addr' = addr,
           charger' = [charger EXCEPT !.present = charger.plugged], Quiet(t),
           int' = IF ChargerEdge THEN Cascade(int.lines \cup {"charger"}, int.mask) ELSE int,
           UNCHANGED <<rtc, alarm, dog>>
    PROVE  Inv'
<1>1. /\ now \in Nat /\ int \in IntType /\ rtc \in RtcType /\ alarm \in AlarmType
      /\ dog \in DogType /\ addr \in Regs \cup {NoReg}
      /\ charger \in [plugged : BOOLEAN, present : BOOLEAN]
  BY TypeSplit DEF Inv
<1>2. /\ int' \in IntType /\ (int'.irq2 <=> int'.lines \ int'.mask # {})
      /\ "alarm" \notin int'.lines
  <2>1. int.lines \cup {"charger"} \in SUBSET Lines /\ int.mask \in SUBSET Lines
    BY <1>1 DEF IntType, Lines
  <2>2. "alarm" \notin int.lines \cup {"charger"}
    BY DEF Quiet
  <2>3. CASE ChargerEdge
    BY <2>1, <2>2, <2>3, CascadeType
  <2>4. CASE ~ChargerEdge
    BY <1>1, <2>2, <2>4 DEF Inv, Irq2Level
  <2> QED
    BY <2>3, <2>4
<1>3. charger' \in [plugged : BOOLEAN, present : BOOLEAN]
  <2> DEFINE p == charger.plugged
  <2>1. p \in BOOLEAN
    BY <1>1
  <2>2. charger' = [charger EXCEPT !.present = p]
    OBVIOUS
  <2> HIDE DEF p
  <2> QED
    BY <1>1, <2>1, <2>2
<1>4. MinuteAhead'
  <2>1. t < NextMinute(now)
    BY DEF Quiet, Inv, MinuteAhead
  <2>2. t \div MinCyc = now \div MinCyc
    BY <1>1, <2>1, SameMinute
  <2> QED
    BY <2>2 DEF Inv, MinuteAhead, NextMinute
<1>5. TypeOK'
  BY <1>1, <1>2, <1>3 DEF TypeOK, IntType, RtcType, AlarmType, DogType
<1>6. rtc'.baseCyc <= now'
  BY <1>1 DEF Inv, RtcType
<1> QED
  BY <1>2, <1>4, <1>5, <1>6 DEF Inv, Irq2Level, AlarmReleased, AlarmTimed, DogTimed

\* The body's minute edge: the next one is ahead, and one that was crossed is
\* latched.
LEMMA BodyMinute ==
    ASSUME Inv, NEW t \in Nat, t > now, Body(t)
    PROVE  /\ rtc'.minNext = NextMinute(t)
           /\ t \div MinCyc > now \div MinCyc => t >= rtc.minNext
<1>1. now \in Nat /\ rtc \in RtcType /\ rtc.minNext = NextMinute(now)
  BY TypeSplit DEF Inv, MinuteAhead
<1>2. rtc'.minNext = IF t >= rtc.minNext THEN NextMinute(t) ELSE rtc.minNext
  BY <1>1 DEF Body, RtcType
<1>3. CASE t >= rtc.minNext
  BY <1>2, <1>3
<1>4. CASE t < rtc.minNext
  <2>1. t \div MinCyc = now \div MinCyc
    BY <1>1, <1>4, SameMinute
  <2>2. NextMinute(t) = NextMinute(now)
    BY <2>1 DEF NextMinute
  <2>3. t \div MinCyc \in Nat /\ now \div MinCyc \in Nat
    BY <1>1, MinCycPos, DivNat
  <2> QED
    BY <1>1, <1>2, <1>4, <2>1, <2>2, <2>3
<1> QED
  BY <1>1, <1>3, <1>4, MinuteLater DEF RtcType

\* The body's clock record stays well formed.
LEMMA BodyRtc ==
    ASSUME Inv, NEW t \in Nat, t > now, Body(t)
    PROVE  /\ rtc' \in RtcType /\ rtc'.base = rtc.base /\ rtc'.baseCyc = rtc.baseCyc
<1>1. rtc \in RtcType
  BY TypeSplit DEF Inv
<1> DEFINE secNext == IF rtc.secNext = 0 THEN NextSecond(t) ELSE rtc.secNext
           m == IF t >= rtc.minNext THEN NextMinute(t) ELSE rtc.minNext
           s == IF t >= secNext THEN NextSecond(t) ELSE secNext
<1>2. m \in Nat /\ s \in Nat
  BY <1>1, MinuteLater, SecondLater DEF RtcType
<1>3. rtc' = [rtc EXCEPT !.minNext = m, !.secNext = s]
  BY DEF Body
<1> HIDE DEF m, s
<1> QED
  BY <1>1, <1>2, <1>3 DEF RtcType

\* The body's lines and alarm: the cascade stays level, a line that stays up is
\* within its hold, an edge is latched, and an alarm whose minute has come fires.
LEMMA BodyLines ==
    ASSUME Inv, NEW t \in Nat, t > now, Body(t)
    PROVE  /\ int' \in IntType /\ alarm' \in AlarmType
           /\ int'.irq2 <=> int'.lines \ int'.mask # {}
           /\ "alarm" \in int'.lines => alarm'.since # 0 /\ t <= alarm'.since + AlarmHold
           /\ t >= rtc.minNext => "min" \in int'.lines
           /\ ~(/\ alarm'.enabled /\ alarm'.armed /\ ~alarm'.fired
                /\ AlarmMatches(rtc, alarm', t))
<1>1. now \in Nat /\ int \in IntType /\ rtc \in RtcType /\ alarm \in AlarmType
  BY TypeSplit DEF Inv
<1> DEFINE secNext == IF rtc.secNext = 0 THEN NextSecond(t) ELSE rtc.secNext
           rings   == /\ alarm.enabled /\ alarm.armed /\ ~alarm.fired
                      /\ AlarmMatches(rtc, alarm, t)
           since   == IF rings THEN t ELSE alarm.since
           edge    == [charger |-> ChargerEdge, min |-> t >= rtc.minNext,
                       sec |-> t >= secNext, alarm |-> rings]
           edges   == {l \in Lines : edge[l]}
           release == "alarm" \in int.lines \cup edges /\ since # 0 /\ t - since > AlarmHold
           up      == (int.lines \cup edges) \ (IF release THEN {"alarm"} ELSE {})
<1>2. edges \in SUBSET Lines
  OBVIOUS
<1>3. ("alarm" \in edges <=> rings) /\ (t >= rtc.minNext => "min" \in edges)
  BY DEF Lines
<1>4. int' = IF edges # {} \/ release THEN Cascade(up, int.mask) ELSE int
  BY DEF Body
<1> DEFINE fired == IF rings THEN TRUE ELSE alarm.fired
           due   == IF release THEN 0 ELSE since
<1>5. alarm' = [alarm EXCEPT !.fired = fired, !.since = due]
  BY DEF Body
<1>6. /\ fired \in BOOLEAN /\ (rings => fired) /\ (~rings => fired = alarm.fired)
      /\ since \in Nat /\ due \in Nat /\ (rings => since = t) /\ (~rings => since = alarm.since)
      /\ (~release => due = since)
  BY <1>1 DEF AlarmType
<1>7. rings <=> /\ alarm.enabled /\ alarm.armed /\ ~alarm.fired
                /\ AlarmMatches(rtc, alarm, t)
  OBVIOUS
<1>8. release <=> "alarm" \in int.lines \cup edges /\ since # 0 /\ t - since > AlarmHold
  OBVIOUS
<1>9. up = (int.lines \cup edges) \ (IF release THEN {"alarm"} ELSE {})
  OBVIOUS
<1> HIDE DEF edges, rings, since, release, up, fired, due
<1>10. /\ int' \in IntType /\ (int'.irq2 <=> int'.lines \ int'.mask # {})
       /\ int'.lines = up
  <2>1. int.lines \in SUBSET Lines /\ int.mask \in SUBSET Lines /\ up \in SUBSET Lines
    BY <1>1, <1>2, <1>9 DEF IntType
  <2>2. CASE edges # {} \/ release
    BY <1>4, <2>1, <2>2, CascadeType
  <2>3. CASE edges = {} /\ ~release
    <3>1. int' = int /\ up = int.lines
      BY <1>4, <1>9, <2>3
    <3> QED
      BY <1>1, <3>1 DEF Inv, Irq2Level
  <2> QED
    BY <2>2, <2>3
<1>11. /\ alarm' \in AlarmType
       /\ alarm'.enabled = alarm.enabled /\ alarm'.armed = alarm.armed
       /\ alarm'.min = alarm.min /\ alarm'.hr = alarm.hr
       /\ alarm'.fired = fired /\ alarm'.since = due
  BY <1>1, <1>5, <1>6 DEF AlarmType
<1>12. "alarm" \in int'.lines => alarm'.since # 0 /\ t <= alarm'.since + AlarmHold
  <2> SUFFICES ASSUME "alarm" \in up
               PROVE  due # 0 /\ t <= due + AlarmHold
    BY <1>10, <1>11
  <2>1. ~release /\ due = since /\ "alarm" \in int.lines \cup edges
    BY <1>6, <1>9
  <2>2. since # 0
    BY <1>1, <1>3, <1>6, <2>1 DEF Inv, AlarmTimed
  <2> QED
    BY <1>6, <1>8, <2>1, <2>2, CcontAssumption
<1>13. t >= rtc.minNext => "min" \in int'.lines
  BY <1>3, <1>9, <1>10
<1>14. ~(/\ alarm'.enabled /\ alarm'.armed /\ ~alarm'.fired
         /\ AlarmMatches(rtc, alarm', t))
  <2>1. AlarmMatches(rtc, alarm', t) <=> AlarmMatches(rtc, alarm, t)
    BY <1>11 DEF AlarmMatches
  <2> QED
    BY <1>6, <1>7, <1>11, <2>1
<1> QED
  BY <1>10, <1>11, <1>12, <1>13, <1>14

\* A tick whose body runs.
LEMMA BodyInv ==
    ASSUME Inv, NEW t \in Nat, t > now, now' = t, addr' = addr,
           charger' = [charger EXCEPT !.present = charger.plugged], Body(t)
    PROVE  Inv'
<1>1. /\ now \in Nat /\ dog \in DogType /\ DogTimed(dog) /\ addr \in Regs \cup {NoReg}
      /\ charger \in [plugged : BOOLEAN, present : BOOLEAN] /\ rtc.baseCyc <= now
      /\ rtc \in RtcType
  BY TypeSplit DEF Inv
<1>2. charger' \in [plugged : BOOLEAN, present : BOOLEAN]
  <2> DEFINE p == charger.plugged
  <2>1. p \in BOOLEAN
    BY <1>1
  <2>2. charger' = [charger EXCEPT !.present = p]
    OBVIOUS
  <2> HIDE DEF p
  <2> QED
    BY <1>1, <2>1, <2>2
<1>3. dog' \in DogType /\ DogTimed(dog')
  <2>1. dog' = Watch(dog, t)
    BY DEF Body
  <2> QED
    BY <1>1, <2>1, WatchTimed
<1>4. /\ rtc' \in RtcType /\ rtc'.baseCyc <= t /\ rtc'.minNext = NextMinute(t)
  BY <1>1, BodyRtc, BodyMinute DEF RtcType
<1>5. /\ int' \in IntType /\ alarm' \in AlarmType
      /\ int'.irq2 <=> int'.lines \ int'.mask # {}
      /\ "alarm" \in int'.lines => alarm'.since # 0 /\ t <= alarm'.since + AlarmHold
  BY BodyLines
<1>6. TypeOK'
  BY <1>1, <1>2, <1>3, <1>4, <1>5 DEF TypeOK, IntType, RtcType, AlarmType, DogType
<1>7. MinuteAhead'
  BY <1>4 DEF MinuteAhead, NextMinute
<1> QED
  BY <1>3, <1>4, <1>5, <1>6, <1>7 DEF Inv, Irq2Level, AlarmReleased, AlarmTimed, DogTimed

\* A tick either skips its body, with nothing due, or runs it.
LEMMA TickCases ==
    ASSUME Tick
    PROVE  \E t \in now + 1 .. now + MaxStep :
             /\ now' = t /\ addr' = addr
             /\ charger' = [charger EXCEPT !.present = charger.plugged]
             /\ \/ /\ Quiet(t)
                   /\ int' = IF ChargerEdge THEN Cascade(int.lines \cup {"charger"}, int.mask)
                                            ELSE int
                   /\ UNCHANGED <<rtc, alarm, dog>>
                \/ Body(t)
BY DEF Tick

\* Every tick keeps the invariant.
LEMMA TickInv ==
    ASSUME Inv, Tick
    PROVE  Inv'
<1>1. now \in Nat
  BY DEF Inv, TypeOK
<1>2. PICK t \in now + 1 .. now + MaxStep :
        /\ now' = t /\ addr' = addr
        /\ charger' = [charger EXCEPT !.present = charger.plugged]
        /\ \/ /\ Quiet(t)
              /\ int' = IF ChargerEdge THEN Cascade(int.lines \cup {"charger"}, int.mask)
                                       ELSE int
              /\ UNCHANGED <<rtc, alarm, dog>>
           \/ Body(t)
  BY TickCases
<1>3. t \in Nat /\ t > now
  BY <1>1, <1>2, CcontAssumption
<1>4. CASE Body(t)
  BY <1>2, <1>3, <1>4, BodyInv
<1>5. CASE Quiet(t) /\ UNCHANGED <<rtc, alarm, dog>>
           /\ int' = IF ChargerEdge THEN Cascade(int.lines \cup {"charger"}, int.mask) ELSE int
  BY <1>2, <1>3, <1>5, QuietInv
<1> QED
  BY <1>2, <1>4, <1>5

\* Every step keeps the invariant.
LEMMA StepInv == Inv /\ [Next]_vars => Inv'
BY PlainInv, PlugInv, WriteRegInv, FeedCtsiInv, CascadeInv, TickInv DEF Next

\* Everything below rests on this: the invariant holds in every reachable state.
THEOREM InvAlways == Spec => []Inv
BY InitInv, StepInv, PTL DEF Spec

-----------------------------------------------------------------------------
(* State properties. *)

\* Every variable keeps its type; in particular no counter write makes the clock
\* or the watchdog go negative.
THEOREM TypeCorrect == Spec => []TypeOK
<1>1. Inv => TypeOK
  BY DEF Inv
<1> QED
  BY <1>1, InvAlways, PTL

\* IRQ2 is pending exactly while an unmasked line is up (cc_int_update).
THEOREM Irq2LevelAlways == Spec => []Irq2Level
<1>1. Inv => Irq2Level
  BY DEF Inv
<1> QED
  BY <1>1, InvAlways, PTL

\* An alarm line left alone is dropped once its hold is over (the release in
\* mad2_timers_tick).
THEOREM AlarmReleasedAlways == Spec => []AlarmReleased
<1>1. Inv => AlarmReleased
  BY DEF Inv
<1> QED
  BY <1>1, InvAlways, PTL

-----------------------------------------------------------------------------
(* Action properties. *)

\* Only a tick moves the clock.
LEMMA OnlyTick ==
    ASSUME Inv, [Next]_vars, now' # now
    PROVE  Tick
BY DEF Next, SelectReg, ReadReg, WriteReg, FeedCtsi, IrqAct, Plug, vars

\* The tick that crosses a minute raises INT5, though most ticks skip the body.
THEOREM MinuteLatchedAlways == Spec => MinuteLatched
<1> DEFINE Edge == now' \div MinCyc > now \div MinCyc => "min" \in int'.lines
<1>1. ASSUME Inv, [Next]_vars PROVE Edge
  <2> SUFFICES ASSUME now' \div MinCyc > now \div MinCyc
               PROVE  "min" \in int'.lines
    OBVIOUS
  <2>1. now \in Nat /\ now \div MinCyc \in Nat
    BY <1>1, MinCycPos, DivNat DEF Inv, TypeOK
  <2>2. Tick
    BY <1>1, <2>1, OnlyTick
  <2>3. PICK t \in now + 1 .. now + MaxStep : now' = t /\ (Quiet(t) \/ Body(t))
    BY <2>2, TickCases
  <2>4. t \in Nat /\ t > now
    BY <2>1, <2>3, CcontAssumption
  <2>5. t < NextMinute(now) => t \div MinCyc = now \div MinCyc
    BY <2>1, <2>4, SameMinute
  <2>6. CASE Quiet(t)
    BY <1>1, <2>1, <2>3, <2>5, <2>6 DEF Quiet, Inv, MinuteAhead
  <2>7. CASE Body(t)
    BY <1>1, <2>3, <2>4, <2>7, BodyMinute, BodyLines
  <2> QED
    BY <2>3, <2>6, <2>7
<1>2. Inv /\ [Next]_vars => [Edge]_vars
  BY <1>1
<1> HIDE DEF Edge
<1>3. [][Edge]_vars => MinuteLatched
  BY PTL DEF Edge, MinuteLatched
<1> QED
  BY <1>2, <1>3, InvAlways, PTL DEF Spec

\* An armed alarm whose minute has come has fired by the end of the tick,
\* whatever was written to the clock or to the alarm just before.
THEOREM AlarmCaughtAlways == Spec => AlarmCaught
<1> DEFINE Caught ==
      now' > now => ~(/\ alarm'.enabled /\ alarm'.armed /\ ~alarm'.fired
                      /\ AlarmMatches(rtc', alarm', now'))
<1>1. ASSUME Inv, [Next]_vars PROVE Caught
  <2> SUFFICES ASSUME now' > now
               PROVE  ~(/\ alarm'.enabled /\ alarm'.armed /\ ~alarm'.fired
                        /\ AlarmMatches(rtc', alarm', now'))
    OBVIOUS
  <2>1. now \in Nat
    BY <1>1 DEF Inv, TypeOK
  <2>2. Tick
    BY <1>1, <2>1, OnlyTick
  <2>3. PICK t \in now + 1 .. now + MaxStep :
          now' = t /\ ((Quiet(t) /\ UNCHANGED <<rtc, alarm, dog>>) \/ Body(t))
    BY <2>2, TickCases
  <2>4. t \in Nat /\ t > now
    BY <2>1, <2>3, CcontAssumption
  <2>5. CASE Quiet(t) /\ UNCHANGED <<rtc, alarm, dog>>
    BY <2>5 DEF Quiet
  <2>6. CASE Body(t)
    <3>1. rtc'.base = rtc.base /\ rtc'.baseCyc = rtc.baseCyc
      BY <1>1, <2>4, <2>6, BodyRtc
    <3>2. AlarmMatches(rtc', alarm', t) <=> AlarmMatches(rtc, alarm', t)
      BY <3>1 DEF AlarmMatches, Seconds
    <3> QED
      BY <1>1, <2>3, <2>4, <2>6, <3>2, BodyLines
  <2> QED
    BY <2>3, <2>5, <2>6
<1>2. Inv /\ [Next]_vars => [Caught]_vars
  BY <1>1
<1> HIDE DEF Caught
<1>3. [][Caught]_vars => AlarmCaught
  BY PTL DEF Caught, AlarmCaught
<1> QED
  BY <1>2, <1>3, InvAlways, PTL DEF Spec

\* A feed never counts a starvation.
LEMMA FeedCountsNothing ==
    ASSUME Inv, Next, ~Tick
    PROVE  dog'.starved = dog.starved
<1>1. now \in Nat /\ dog \in DogType /\ DogTimed(dog)
  BY TypeSplit DEF Inv
<1>2. CASE \E w \in Writes : w.reg = Watchdog /\ dog' = KickCtsi(dog, now, w.value)
  <2>1. PICK w \in Writes : w.reg = Watchdog /\ dog' = KickCtsi(dog, now, w.value)
    BY <1>2
  <2>2. w.value \in Nat
    BY <2>1, CcontAssumption DEF Watchdog, IntAck, IntMask
  <2> DEFINE e == [dog EXCEPT !.ctsi = w.value]
  <2>3. dog' = PowerOff(Kick(e, now, w.value), w.value) /\ e = [dog EXCEPT !.ctsi = w.value]
    BY <2>1 DEF KickCtsi
  <2>4. e \in DogType
    BY <1>1, <2>2 DEF DogType
  <2> HIDE DEF e
  <2> QED
    BY <1>1, <2>2, <2>3, <2>4, KickTimed
<1>3. CASE \E w \in Writes : w.reg = Watchdog /\ dog' = KickCcont(dog, now, w.value)
  <2>1. PICK w \in Writes : w.reg = Watchdog /\ dog' = KickCcont(dog, now, w.value)
    BY <1>3
  <2>2. w.value \in Nat
    BY <2>1, CcontAssumption DEF Watchdog, IntAck, IntMask
  <2> DEFINE e == [dog EXCEPT !.cc = w.value]
  <2>3. dog' = PowerOff(Kick(e, now, w.value), w.value) /\ e = [dog EXCEPT !.cc = w.value]
    BY <2>1 DEF KickCcont
  <2>4. e \in DogType
    BY <1>1, <2>2 DEF DogType
  <2> HIDE DEF e
  <2> QED
    BY <1>1, <2>2, <2>3, <2>4, KickTimed
<1>4. \/ \E w \in Writes : w.reg = Watchdog /\ dog' = KickCtsi(dog, now, w.value)
      \/ \E w \in Writes : w.reg = Watchdog /\ dog' = KickCcont(dog, now, w.value)
      \/ dog' = dog
  <2>1. SelectReg \/ ReadReg \/ IrqAct \/ Plug => dog' = dog
    BY DEF SelectReg, ReadReg, IrqAct, Plug
  <2>2. WriteReg => \/ \E w \in Writes : w.reg = Watchdog /\ dog' = KickCcont(dog, now, w.value)
                    \/ dog' = dog
    BY DEF WriteReg, Acknowledge, SetMask, SetAlarm, SetClock, FeedCcont
  <2>3. FeedCtsi => \E w \in Writes : w.reg = Watchdog /\ dog' = KickCtsi(dog, now, w.value)
    BY DEF FeedCtsi
  <2> QED
    BY <2>1, <2>2, <2>3 DEF Next
<1> QED
  BY <1>2, <1>3, <1>4

\* What a tick does with the watchdog.
LEMMA TickDog ==
    ASSUME Inv, Tick
    PROVE  /\ dog'.starved # dog.starved =>
                now' >= dog.lastKick + dog.window /\ ~dog.disabled /\ ~dog.off
           /\ dog.cc # 0 /\ dog.ctsi # 0 /\ ~dog.disabled /\ ~dog.off => dog'.deadline > now'
<1>1. now \in Nat /\ dog \in DogType /\ DogTimed(dog)
  BY TypeSplit DEF Inv
<1>2. PICK t \in now + 1 .. now + MaxStep :
        now' = t /\ ((Quiet(t) /\ UNCHANGED <<rtc, alarm, dog>>) \/ Body(t))
  BY TickCases
<1>3. t \in Nat /\ t > now
  BY <1>1, <1>2, CcontAssumption
<1>4. CASE Quiet(t) /\ UNCHANGED <<rtc, alarm, dog>>
  BY <1>1, <1>2, <1>3, <1>4 DEF Quiet, DogTimed, DogType
<1>5. CASE Body(t)
  <2>1. dog' = Watch(dog, t)
    BY <1>5 DEF Body
  <2> QED
    BY <1>1, <1>2, <1>3, <2>1, WatchTimed
<1> QED
  BY <1>2, <1>4, <1>5

\* A starvation is counted only when nothing fed the dog for a whole window.
THEOREM NoFalseStarvationAlways == Spec => NoFalseStarvation
<1> DEFINE Fair == dog'.starved # dog.starved =>
                     now' >= dog.lastKick + dog.window /\ ~dog.disabled /\ ~dog.off
<1>1. ASSUME Inv, [Next]_vars PROVE Fair
  <2>1. CASE Tick
    BY <1>1, <2>1, TickDog
  <2>2. CASE Next /\ ~Tick
    BY <1>1, <2>2, FeedCountsNothing
  <2>3. CASE UNCHANGED vars
    BY <2>3 DEF vars
  <2> QED
    BY <1>1, <2>1, <2>2, <2>3
<1>2. Inv /\ [Next]_vars => [Fair]_vars
  BY <1>1
<1> HIDE DEF Fair
<1>3. [][Fair]_vars => NoFalseStarvation
  BY PTL DEF Fair, NoFalseStarvation
<1> QED
  BY <1>2, <1>3, InvAlways, PTL DEF Spec

\* A dog fed on both registers has its deadline ahead after every tick.
THEOREM DogAwakeAlways == Spec => DogAwake
<1> DEFINE Awake == now' > now /\ dog.cc # 0 /\ dog.ctsi # 0 /\ ~dog.disabled /\ ~dog.off
                      => dog'.deadline > now'
<1>1. ASSUME Inv, [Next]_vars PROVE Awake
  <2> SUFFICES ASSUME now' > now
               PROVE  dog.cc # 0 /\ dog.ctsi # 0 /\ ~dog.disabled /\ ~dog.off
                        => dog'.deadline > now'
    OBVIOUS
  <2>1. now \in Nat
    BY <1>1 DEF Inv, TypeOK
  <2>2. Tick
    BY <1>1, <2>1, OnlyTick
  <2> QED
    BY <1>1, <2>2, TickDog
<1>2. Inv /\ [Next]_vars => [Awake]_vars
  BY <1>1
<1> HIDE DEF Awake
<1>3. [][Awake]_vars => DogAwake
  BY PTL DEF Awake, DogAwake
<1> QED
  BY <1>2, <1>3, InvAlways, PTL DEF Spec

-----------------------------------------------------------------------------
(* A write to one clock counter. *)

\* The quotient and the remainder of a number that is given by them.
LEMMA DivUnique ==
    ASSUME NEW m \in Nat \ {0}, NEW q \in Nat, NEW r \in 0 .. m - 1
    PROVE  (q * m + r) \div m = q /\ (q * m + r) % m = r
<1> DEFINE a == q * m + r
           p == a \div m
           y == a % m
<1>1. q * m \in Nat /\ a \in Nat /\ a = q * m + r
  BY MulNat
<1>2. (q + 1) * m = q * m + m
  BY Z3
<1>3. p \in Nat /\ y \in 0 .. m - 1 /\ a = m * p + y
  <2> HIDE DEF a
  <2>1. p \in Nat
    BY <1>1, DivNat
  <2>2. y \in 0 .. m - 1 /\ a = m * p + y
    BY <1>1, DivMod
  <2> QED
    BY <2>1, <2>2
<1>4. p <= q
  <2>1. a < (q + 1) * m
    <3> HIDE DEF a, p, y
    <3> QED
      BY <1>1, <1>2
  <2> HIDE DEF a
  <2> QED
    BY <1>1, <2>1, DivBelow
<1>5. q <= p
  <2> HIDE DEF a, p, y
  <2> SUFFICES ASSUME p + 1 <= q PROVE FALSE
    BY <1>3
  <2>1. (p + 1) * m <= q * m
    BY <1>3, Z3
  <2>2. (p + 1) * m = m * p + m
    BY <1>3, Z3
  <2>3. m * p \in Nat
    BY <1>3, MulNat
  <2> QED
    BY <1>1, <1>3, <2>1, <2>2, <2>3
<1>6. p = q
  <2> HIDE DEF p
  <2> QED
    BY <1>3, <1>4, <1>5
<1>7. y = r
  <2>1. m * q = q * m
    BY Z3
  <2> HIDE DEF a, p, y
  <2> QED
    BY <1>1, <1>3, <1>6, <2>1
<1> QED
  BY <1>6, <1>7

\* The whole multiples of a sum can be counted apart.
LEMMA DivAdd ==
    ASSUME NEW e \in Nat, NEW n \in Nat, NEW m \in Nat \ {0}
    PROVE  (e + n) \div m = e \div m + ((e % m) + n) \div m
<1> DEFINE q == e \div m
           x == e % m
           z == x + n
           p == z \div m
           y == z % m
<1>1. q \in Nat /\ x \in 0 .. m - 1 /\ e = m * q + x
  <2>1. q \in Nat
    BY DivNat
  <2>2. x \in 0 .. m - 1 /\ e = m * q + x
    BY DivMod
  <2> QED
    BY <2>1, <2>2
<1>2. p \in Nat /\ y \in 0 .. m - 1 /\ x + n = m * p + y
  <2>1. \A a \in Nat : a \div m \in Nat
    BY DivNat
  <2>2. \A a \in Nat : (a % m) \in 0 .. m - 1 /\ a = m * (a \div m) + (a % m)
    BY DivMod
  <2>3. z \in Nat /\ z = x + n
    BY <1>1
  <2> HIDE DEF z
  <2> QED
    BY <2>1, <2>2, <2>3, Zenon
<1> HIDE DEF q, x, p, y
<1>3. (q + p) * m = m * q + m * p
  BY <1>1, <1>2, Z3
<1>4. m * q \in Nat /\ m * p \in Nat
  BY <1>1, <1>2, MulNat
<1>5. e + n = (q + p) * m + y
  BY <1>1, <1>2, <1>3, <1>4
<1>6. ((q + p) * m + y) \div m = q + p
  <2>1. q + p \in Nat
    BY <1>1, <1>2
  <2> QED
    BY <1>2, <2>1, DivUnique
<1>7. (e + n) \div m = q + p
  BY <1>5, <1>6
<1> QED
  BY <1>7 DEF q, x, p, z

\* Two counters in one: what the lower one makes of the higher stays below.
LEMMA Nest ==
    ASSUME NEW a \in Nat \ {0}, NEW b \in Nat \ {0}, NEW x \in 0 .. a - 1, NEW y \in 0 .. b - 1
    PROVE  y * a + x \in 0 .. a * b - 1 /\ a * b \in Nat \ {0}
<1>1. a * b \in Nat \ {0} /\ y * a \in Nat
  BY MulPos, MulNat
<1>2. (y + 1) * a <= a * b
  BY Z3
<1>3. (y + 1) * a = y * a + a
  BY Z3
<1> QED
  BY <1>1, <1>2, <1>3

\* The seconds of a clock, by its base.
LEMMA SecondsAt ==
    ASSUME NEW r, NEW t
    PROVE  Seconds(r, t) = r.base + (t - r.baseCyc) \div SecCyc
BY DEF Seconds

\* Each counter's range.
InRange(reg, value) ==
    /\ reg = 7 => value < SecsPerMin
    /\ reg = 8 => value < MinsPerHour
    /\ reg = 9 => value < HoursPerDay

\* A counter reads a number in its range.
LEMMA CounterInRange ==
    ASSUME NEW n \in Nat, NEW reg \in Counters
    PROVE  Counter(reg, n) \in Nat /\ InRange(reg, Counter(reg, n))
<1>1. Counter(reg, n) \in Nat
  BY CounterType
<1>2. n % SecsPerMin < SecsPerMin
  BY DivMod, CcontAssumption
<1> DEFINE q == n \div SecsPerMin
           p == n \div (SecsPerMin * MinsPerHour)
<1>3. q \in Nat /\ p \in Nat
  <2>1. SecsPerMin * MinsPerHour \in Nat \ {0}
    BY MulPos, CcontAssumption
  <2> QED
    BY <2>1, DivNat, CcontAssumption
<1>4. q % MinsPerHour < MinsPerHour /\ p % HoursPerDay < HoursPerDay
  <2> HIDE DEF q, p
  <2> QED
    BY <1>3, DivMod, CcontAssumption
<1>5. reg \in {7, 8, 9, 10}
  BY DEF Counters
<1> QED
  BY <1>1, <1>2, <1>4, <1>5 DEF Counter, InRange

\* Four counters in their ranges are read back from the seconds they make.
LEMMA ReadBack ==
    ASSUME NEW s \in Nat, NEW m \in Nat, NEW h \in Nat, NEW d \in Nat,
           InRange(7, s), InRange(8, m), InRange(9, h)
    PROVE  /\ Counter(7, Compose(s, m, h, d)) = s
           /\ Counter(8, Compose(s, m, h, d)) = m
           /\ Counter(9, Compose(s, m, h, d)) = h
           /\ Counter(10, Compose(s, m, h, d)) = d
<1> DEFINE S == SecsPerMin
           M == MinsPerHour
           H == HoursPerDay
           Y == d * H + h
           X == Y * M + m
           n == Compose(s, m, h, d)
           low == m * S + s
           lower == h * M + m
           lowest == h * (S * M) + low
<1>1. /\ S \in Nat \ {0} /\ M \in Nat \ {0} /\ H \in Nat \ {0}
      /\ s \in 0 .. S - 1 /\ m \in 0 .. M - 1 /\ h \in 0 .. H - 1
  BY CcontAssumption DEF InRange
<1>2. n = X * S + s
  BY DEF Compose
<1> HIDE DEF S, M, H, n
<1>3. Y \in Nat /\ X \in Nat
  BY <1>1, MulNat
<1>4. n % S = s /\ n \div S = X
  <2> HIDE DEF X
  <2> QED
    BY <1>1, <1>2, <1>3, DivUnique
<1>5. X % M = m
  <2> HIDE DEF Y
  <2> QED
    BY <1>1, <1>3, DivUnique
<1>6. low \in 0 .. S * M - 1 /\ S * M \in Nat \ {0}
  BY <1>1, Nest
<1>7. n = Y * (S * M) + low
  <2>1. (Y * M + m) * S = Y * (S * M) + m * S
    <3> HIDE DEF Y
    <3> QED
      BY <1>1, <1>3, Z3
  <2>2. Y * (S * M) \in Nat /\ m * S \in Nat
    <3> HIDE DEF Y
    <3> QED
      BY <1>1, <1>3, <1>6, MulNat
  <2> HIDE DEF Y
  <2> QED
    BY <1>1, <1>2, <2>1, <2>2
<1>8. n \div (S * M) = Y
  <2> HIDE DEF Y, low
  <2> QED
    BY <1>3, <1>6, <1>7, DivUnique
<1>9. Y % H = h
  BY <1>1, DivUnique
<1>10. lowest \in 0 .. (S * M) * H - 1 /\ (S * M) * H \in Nat \ {0}
  <2> DEFINE SM == S * M
  <2>1. SM \in Nat \ {0} /\ low \in 0 .. SM - 1
    BY <1>6
  <2> HIDE DEF SM, low
  <2>2. h * SM + low \in 0 .. SM * H - 1 /\ SM * H \in Nat \ {0}
    BY <1>1, <2>1, Nest
  <2> QED
    BY <2>2 DEF SM
<1>11. n = d * ((S * M) * H) + lowest
  <2> DEFINE SM == S * M
  <2>1. SM \in Nat \ {0} /\ low \in Nat
    BY <1>6
  <2>2. n = (d * H + h) * SM + low
    BY <1>7
  <2> HIDE DEF SM, low
  <2>3. (d * H + h) * SM = d * (SM * H) + h * SM
    BY <1>1, <2>1, Z3
  <2>4. SM * H \in Nat /\ h * SM \in Nat
    BY <1>1, <2>1, MulNat
  <2>5. d * (SM * H) \in Nat
    BY <2>4, MulNat
  <2>6. n = d * (SM * H) + (h * SM + low)
    BY <2>1, <2>2, <2>3, <2>4, <2>5
  <2> QED
    BY <2>6 DEF SM
<1>12. n \div ((S * M) * H) = d
  <2> HIDE DEF lowest
  <2> QED
    BY <1>10, <1>11, DivUnique
<1>13. /\ n % S = s
       /\ (n \div S) % M = m
       /\ (n \div (S * M)) % H = h
       /\ n \div (S * M * H) = d
  BY <1>4, <1>5, <1>8, <1>9, <1>12
<1> QED
  BY <1>13 DEF S, M, H, n, Counter

\* Clock w reads at t what clock r does, but for one counter.
OthersKept(w, r, t, reg) ==
    \A k \in Counters \ {reg} : Counter(k, Seconds(w, t)) = Counter(k, Seconds(r, t))

\* From t on the seconds of both clocks turn at the same cycles.
SameBeat(w, r, t) ==
    \A n \in Nat : Seconds(w, t + n) - Seconds(w, t) = Seconds(r, t + n) - Seconds(r, t)

\* A counter that is set to a number in its range reads it, the other three read
\* what they did, and no cycle of the running second is gained or lost.
LEMMA SetOneCounter ==
    ASSUME NEW r \in RtcType, NEW t \in Nat, r.baseCyc <= t,
           NEW reg \in Counters, NEW value \in Nat, InRange(reg, value),
           NEW w, w = SetCounter(r, t, reg, value)
    PROVE  /\ Counter(reg, Seconds(w, t)) = value
           /\ OthersKept(w, r, t, reg) /\ SameBeat(w, r, t)
<1> DEFINE now0 == Seconds(r, t)
           read(k) == IF k = reg THEN value ELSE Counter(k, now0)
           base == Compose(read(7), read(8), read(9), read(10))
           e == t - r.baseCyc
           x == e % SecCyc
           q == e \div SecCyc
<1>1. now0 \in Nat
  BY SecondsType DEF RtcType
<1>2. \A k \in Counters : read(k) \in Nat /\ InRange(k, read(k))
  <2> HIDE DEF now0
  <2> QED
    BY <1>1, CounterInRange
<1>3. 7 \in Counters /\ 8 \in Counters /\ 9 \in Counters /\ 10 \in Counters
  BY DEF Counters
<1>4. base \in Nat /\ \A k \in Counters : Counter(k, base) = read(k)
  <2> HIDE DEF read
  <2>1. /\ Counter(7, base) = read(7) /\ Counter(8, base) = read(8)
        /\ Counter(9, base) = read(9) /\ Counter(10, base) = read(10)
    BY <1>2, <1>3, ReadBack
  <2>2. base \in Nat
    BY <1>2, <1>3, ComposeType
  <2>3. Counters = {7, 8, 9, 10}
    BY DEF Counters
  <2> QED
    BY <2>1, <2>2, <2>3
<1>5. /\ e \in Nat /\ SecCyc \in Nat \ {0} /\ r.baseCyc \in Int /\ r.base \in Nat
      /\ x \in 0 .. SecCyc - 1 /\ q \in Nat
  <2>1. e \in Nat /\ r.baseCyc \in Int /\ r.base \in Nat /\ SecCyc \in Nat \ {0}
    BY CcontAssumption DEF RtcType
  <2> HIDE DEF e
  <2>2. x \in 0 .. SecCyc - 1
    BY <2>1, DivMod
  <2>3. q \in Nat
    BY <2>1, DivNat
  <2> QED
    BY <2>1, <2>2, <2>3
<1>6. w.base = base /\ w.baseCyc = t - x
  <2>1. w = [r EXCEPT !.base = base, !.baseCyc = t - x]
    BY DEF SetCounter
  <2> HIDE DEF base, x, e
  <2> QED
    BY <2>1 DEF RtcType
<1>7. ASSUME NEW n \in Nat
      PROVE  /\ Seconds(w, t + n) = base + (x + n) \div SecCyc
             /\ Seconds(r, t + n) = r.base + q + (x + n) \div SecCyc
  <2>1. (t + n) - w.baseCyc = x + n
    <3> HIDE DEF x, base
    <3> QED
      BY <1>5, <1>6
  <2>2. (t + n) - r.baseCyc = e + n
    BY <1>5
  <2>3. (e + n) \div SecCyc = q + (x + n) \div SecCyc
    <3> HIDE DEF e
    <3> QED
      BY <1>5, DivAdd
  <2>4. (x + n) \div SecCyc \in Nat
    <3>1. x + n \in Nat
      BY <1>5
    <3> HIDE DEF x
    <3> QED
      BY <1>5, <3>1, DivNat
  <2>5. Seconds(w, t + n) = base + (x + n) \div SecCyc
    <3> HIDE DEF x, base
    <3>1. Seconds(w, t + n) = w.base + ((t + n) - w.baseCyc) \div SecCyc
      BY SecondsAt, Zenon
    <3> QED
      BY <1>6, <2>1, <3>1, Zenon
  <2>6. Seconds(r, t + n) = r.base + (q + (x + n) \div SecCyc)
    <3> HIDE DEF x, base, e, q
    <3>1. Seconds(r, t + n) = r.base + ((t + n) - r.baseCyc) \div SecCyc
      BY SecondsAt, Zenon
    <3> QED
      BY <2>2, <2>3, <3>1, Zenon
  <2> HIDE DEF x, base, e, q
  <2> QED
    BY <1>5, <2>4, <2>5, <2>6
<1>8. (x + 0) \div SecCyc = 0
  <2>1. (0 * SecCyc + x) \div SecCyc = 0
    <3> HIDE DEF x
    <3> QED
      BY <1>5, DivUnique
  <2>2. x + 0 = 0 * SecCyc + x
    BY <1>5
  <2> QED
    BY <2>1, <2>2
<1>9. Seconds(w, t) = base /\ Seconds(r, t) = r.base + q
  <2>1. /\ Seconds(w, t + 0) = base + (x + 0) \div SecCyc
        /\ Seconds(r, t + 0) = r.base + q + (x + 0) \div SecCyc
    BY <1>7
  <2>2. t + 0 = t
    OBVIOUS
  <2> HIDE DEF x, base, e, q
  <2> QED
    BY <1>4, <1>5, <1>8, <2>1, <2>2
<1>10. SameBeat(w, r, t)
  <2> SUFFICES ASSUME NEW n \in Nat
               PROVE  Seconds(w, t + n) - Seconds(w, t) = Seconds(r, t + n) - Seconds(r, t)
    BY DEF SameBeat
  <2>1. (x + n) \div SecCyc \in Nat
    <3>1. x + n \in Nat
      BY <1>5
    <3> HIDE DEF x
    <3> QED
      BY <1>5, <3>1, DivNat
  <2>2. /\ Seconds(w, t + n) = base + (x + n) \div SecCyc
        /\ Seconds(r, t + n) = r.base + q + (x + n) \div SecCyc
    BY <1>7
  <2> HIDE DEF x, base, e, q
  <2> QED
    BY <1>4, <1>5, <1>9, <2>1, <2>2
<1>11. \A k \in Counters : Counter(k, Seconds(w, t)) = read(k)
  <2> HIDE DEF base, read
  <2> QED
    BY <1>4, <1>9
<1>12. OthersKept(w, r, t, reg)
  <2> HIDE DEF base
  <2> QED
    BY <1>11 DEF OthersKept
<1>13. Counter(reg, Seconds(w, t)) = value
  <2> HIDE DEF base
  <2> QED
    BY <1>11
<1> QED
  BY <1>10, <1>12, <1>13

\* Only a counter write sets the clock.
LEMMA OnlySetClock ==
    ASSUME Inv, [Next]_vars, <<rtc'.base, rtc'.baseCyc>> # <<rtc.base, rtc.baseCyc>>
    PROVE  addr \in Counters /\ \E w \in Writes : w.reg = addr /\ SetClock(addr, w.value)
<1>1. CASE Tick
  <2>1. now \in Nat
    BY DEF Inv, TypeOK
  <2>2. PICK t \in now + 1 .. now + MaxStep : UNCHANGED rtc \/ Body(t)
    BY <1>1, TickCases
  <2>3. t \in Nat /\ t > now
    BY <2>1, <2>2, CcontAssumption
  <2> QED
    BY <2>2, <2>3, BodyRtc
<1>2. CASE WriteReg
  BY <1>2 DEF WriteReg, Acknowledge, SetMask, SetAlarm, FeedCcont
<1>3. CASE SelectReg \/ ReadReg \/ FeedCtsi \/ IrqAct \/ Plug \/ UNCHANGED vars
  BY <1>3 DEF SelectReg, ReadReg, FeedCtsi, IrqAct, Plug, vars
<1> QED
  BY <1>1, <1>2, <1>3 DEF Next

\* The firmware sets a counter to a number the counter can hold.  The code takes
\* any byte, and one out of range carries into the next counter.
ValidWrites == \A w \in Writes : InRange(w.reg, w.value)

\* Writing one clock counter leaves what the other three read, and the running
\* second (the read-modify-write of ccont_byte).
THEOREM CounterWriteIsolatedAlways == ValidWrites /\ Spec => CounterWriteIsolated
<1> DEFINE Isolated ==
      <<rtc'.base, rtc'.baseCyc>> # <<rtc.base, rtc.baseCyc>> =>
         /\ \A reg \in Counters \ {addr} :
               Counter(reg, Seconds(rtc', now)) = Counter(reg, Seconds(rtc, now))
         /\ \A n \in 1 .. SecCyc :
               Seconds(rtc', now + n) - Seconds(rtc', now)
                 = Seconds(rtc, now + n) - Seconds(rtc, now)
<1>1. ASSUME ValidWrites, Inv, [Next]_vars PROVE Isolated
  <2> SUFFICES ASSUME <<rtc'.base, rtc'.baseCyc>> # <<rtc.base, rtc.baseCyc>>
               PROVE  /\ \A reg \in Counters \ {addr} :
                           Counter(reg, Seconds(rtc', now)) = Counter(reg, Seconds(rtc, now))
                      /\ \A n \in 1 .. SecCyc :
                           Seconds(rtc', now + n) - Seconds(rtc', now)
                             = Seconds(rtc, now + n) - Seconds(rtc, now)
    OBVIOUS
  <2>1. addr \in Counters
    BY <1>1, OnlySetClock
  <2>2. PICK w \in Writes : w.reg = addr /\ SetClock(addr, w.value)
    BY <1>1, OnlySetClock
  <2>3. w.value \in Nat /\ InRange(addr, w.value)
    <3>1. addr \notin {IntAck, IntMask}
      BY <2>1 DEF Counters, IntAck, IntMask
    <3> QED
      BY <1>1, <2>2, <3>1, CcontAssumption DEF ValidWrites
  <2>4. rtc' = SetCounter(rtc, now, addr, w.value)
    BY <2>2 DEF SetClock
  <2>5. rtc \in RtcType /\ now \in Nat /\ rtc.baseCyc <= now
    BY <1>1, TypeSplit DEF Inv
  <2>6. \A n \in 1 .. SecCyc : n \in Nat
    BY CcontAssumption
  <2>7. OthersKept(rtc', rtc, now, addr) /\ SameBeat(rtc', rtc, now)
    BY <2>1, <2>3, <2>4, <2>5, SetOneCounter
  <2> QED
    BY <2>6, <2>7 DEF OthersKept, SameBeat
<1>2. ValidWrites /\ Inv /\ [Next]_vars => [Isolated]_vars
  BY <1>1
<1>3. ASSUME ValidWrites PROVE Spec => [][Isolated]_vars
  <2>1. Inv /\ [Next]_vars => [Isolated]_vars
    BY <1>2, <1>3
  <2> HIDE DEF Isolated
  <2> QED
    BY <2>1, InvAlways, PTL DEF Spec
<1>4. [][Isolated]_vars => CounterWriteIsolated
  <2> HIDE DEF Isolated
  <2> QED
    BY PTL DEF Isolated, CounterWriteIsolated
<1> QED
  BY <1>3, <1>4
=============================================================================
