------------------------------- MODULE Ccont -------------------------------
(***************************************************************************)
(* The CCONT power and clock controller, mad2/mad2_ccont.c, with the part  *)
(* of mad2_timers_tick that serves it (mad2/mad2_timers.c): the interrupt  *)
(* cascade onto IRQ2, the minute and second edges, the wake-up alarm, the  *)
(* charger edge, the clock counters and the watchdog.                      *)
(*                                                                         *)
(* The tick leaves early when a guard finds no source due.  The guard also *)
(* looks at sources of other components (Timer1, FIQ8, FIQ3, FIQ4, MBUS);  *)
(* whether one of those is due is a free choice here.                      *)
(*                                                                         *)
(* Operators marked "Wrong on purpose" are variants with a plausible       *)
(* mistake and not part of the model, see MdiRing.                         *)
(***************************************************************************)
EXTENDS Integers

CONSTANTS
    SecCyc,         \* CPU cycles of a second (13e6)
    SecsPerMin,     \* 60
    MinsPerHour,    \* 60
    HoursPerDay,    \* 24
    AlarmHold,      \* an alarm line unacknowledged for longer is dropped (13e6/4)
    DogOff,         \* the watchdog value that disables it (0x3F)
    Writes,         \* the register writes the firmware does: [reg, value]
    Modes,          \* settings of the environment: RTCALARM, WDTSERVICE, WDTRESET
    MaxTime,        \* bound: the clock stops here
    MaxStep         \* bound: cycles of one instruction

Lines == {"charger", "sec", "min", "alarm"}         \* INT3, INT4, INT5, INT7

\* The registers that do something when written; the rest are plain storage.
Watchdog == 5
Counters == 7 .. 10                                 \* second, minute, hour, day
AlarmMin == 11
AlarmHr  == 12
IntAck   == 14
IntMask  == 15
Regs     == {Watchdog, AlarmMin, AlarmHr, IntAck, IntMask} \cup Counters
NoReg    == 0

ASSUME CcontAssumption ==
    /\ SecCyc \in Nat \ {0} /\ SecsPerMin \in Nat \ {0}
    /\ MinsPerHour \in Nat \ {0} /\ HoursPerDay \in Nat \ {0}
    /\ AlarmHold \in Nat /\ DogOff \in Nat \ {0}
    /\ MaxTime \in Nat /\ MaxStep \in Nat
    /\ Modes \subseteq [alarm : BOOLEAN, service : BOOLEAN, resetArmed : BOOLEAN]
    /\ \A w \in Writes :
         \/ w.reg \in Regs \ {IntAck, IntMask} /\ w.value \in Nat
         \/ w.reg \in {IntAck, IntMask} /\ w.value \subseteq Lines

VARIABLES
    now,            \* rtc_mono
    addr,           \* the register of a transaction in progress, or NoReg
    int,            \* cc_int_lines, cc_int_mask, and bit 2 of irq_pending
    rtc,            \* rtc_base_sec, rtc_base_cyc, rtc_sec_next, rtc_min_next
    alarm,          \* rtc_alr_enabled, armed, fired, min, hr, assert_cyc
    charger,        \* what the ADC shows, and the last edge seen
    dog             \* the watchdog: both registers, deadline, window, counts

vars == <<now, addr, int, rtc, alarm, charger, dog>>

MinCyc == SecCyc * SecsPerMin

-----------------------------------------------------------------------------
(* The clock: seconds since the base was set, read as four counters. *)

Seconds(r, t) == r.base + (t - r.baseCyc) \div SecCyc

\* What a read of counter 7 .. 10 gives when the clock stands at n seconds
\* (the day counter's own wrap at 256 is left out).
Counter(reg, n) ==
    CASE reg = 7  -> n % SecsPerMin
      [] reg = 8  -> (n \div SecsPerMin) % MinsPerHour
      [] reg = 9  -> (n \div (SecsPerMin * MinsPerHour)) % HoursPerDay
      [] reg = 10 -> n \div (SecsPerMin * MinsPerHour * HoursPerDay)

\* Wrong on purpose: days count from one.
Compose_DayOne(s, m, h, d) == (((d - 1) * HoursPerDay + h) * MinsPerHour + m) * SecsPerMin + s

Compose(s, m, h, d) == ((d * HoursPerDay + h) * MinsPerHour + m) * SecsPerMin + s

\* Wrong on purpose: the fraction of the running second is thrown away.
SetCounter_NoPhase(r, t, reg, value) ==
    LET n == Seconds(r, t)
        read(k) == IF k = reg THEN value ELSE Counter(k, n)
    IN  [r EXCEPT !.base = Compose(read(7), read(8), read(9), read(10)),
                  !.baseCyc = t]

\* One counter is set; the others and the running second go on.
SetCounter(r, t, reg, value) ==
    LET n == Seconds(r, t)
        read(k) == IF k = reg THEN value ELSE Counter(k, n)
    IN  [r EXCEPT !.base = Compose(read(7), read(8), read(9), read(10)),
                  !.baseCyc = t - ((t - r.baseCyc) % SecCyc)]

\* The alarm's hour and minute are the clock's.
AlarmMatches(r, a, t) ==
    Counter(8, Seconds(r, t)) = a.min /\ Counter(9, Seconds(r, t)) = a.hr

NextSecond(t) == (t \div SecCyc + 1) * SecCyc
NextMinute(t) == (t \div MinCyc + 1) * MinCyc

-----------------------------------------------------------------------------
(* The interrupt cascade. *)

\* IRQ2 follows the unmasked lines.
Cascade(lines, mask) == [lines |-> lines, mask |-> mask, irq2 |-> lines \ mask # {}]

-----------------------------------------------------------------------------
(* The watchdog.  A value is its own window, in seconds. *)

\* Wrong on purpose: a feed does not move a deadline that is running.
Kick_KeepsDeadline(d, t, value) ==
    IF value \in {0, DogOff}
    THEN [d EXCEPT !.disabled = IF value = DogOff THEN TRUE ELSE @, !.deadline = 0]
    ELSE [d EXCEPT !.disabled = FALSE, !.lastKick = t, !.window = value * SecCyc,
                   !.deadline = IF @ = 0 THEN t + value * SecCyc ELSE @]

\* A zero and the disabling value stop the deadline, any other value restarts it.
Kick(d, t, value) ==
    IF value \in {0, DogOff}
    THEN [d EXCEPT !.disabled = IF value = DogOff THEN TRUE ELSE @, !.deadline = 0]
    ELSE [d EXCEPT !.disabled = FALSE, !.lastKick = t, !.window = value * SecCyc,
                   !.deadline = t + value * SecCyc]

\* A zero is the power-off request, unless the service mode inhibits it.
PowerOff(d, value) == IF value = 0 /\ ~d.service THEN [d EXCEPT !.off = TRUE] ELSE d

KickCcont(d, t, value) == PowerOff(Kick([d EXCEPT !.cc = value], t, value), value)
KickCtsi(d, t, value)  == PowerOff(Kick([d EXCEPT !.ctsi = value], t, value), value)

Starving(d, t) ==
    /\ d.deadline # 0 /\ t >= d.deadline
    /\ d.ctsi # 0 /\ d.cc # 0 /\ ~d.off /\ ~d.disabled

\* Every window missed since the deadline counts once.
Missed(d, t) == 1 + (t - d.deadline) \div d.window

Watch(d, t) ==
    IF Starving(d, t)
    THEN [d EXCEPT !.starved = @ + Missed(d, t),
                   !.deadline = @ + Missed(d, t) * d.window,
                   !.tripped = IF d.resetArmed THEN TRUE ELSE @]
    ELSE d

-----------------------------------------------------------------------------
Init ==
    /\ now = 0
    /\ addr = NoReg
    /\ int = Cascade({}, Lines)
    /\ rtc = [base |-> 0, baseCyc |-> 0, secNext |-> 0, minNext |-> MinCyc]
    /\ charger = [plugged |-> FALSE, present |-> FALSE]
    /\ \E mode \in Modes :
         /\ alarm = [enabled |-> mode.alarm, armed |-> FALSE, fired |-> FALSE,
                     min |-> 0, hr |-> 0, since |-> 0]
         /\ dog = [cc |-> 0, ctsi |-> 0, disabled |-> FALSE, deadline |-> 0,
                   window |-> 49 * SecCyc, lastKick |-> 0, starved |-> 0,
                   service |-> mode.service, resetArmed |-> mode.resetArmed,
                   tripped |-> FALSE, off |-> FALSE]

-----------------------------------------------------------------------------
(* Bus writes of the firmware.  A CCONT transaction is an address byte and  *)
(* a data byte; ticks fall between the two.                                 *)

SelectReg ==
    /\ addr = NoReg
    /\ \E w \in Writes : addr' = w.reg
    /\ UNCHANGED <<now, int, rtc, alarm, charger, dog>>

\* A read ends the transaction and changes nothing else.
ReadReg ==
    /\ addr # NoReg /\ addr' = NoReg
    /\ UNCHANGED <<now, int, rtc, alarm, charger, dog>>

\* Wrong on purpose: every acknowledge ends the alarm's release window.
Acknowledge_EndsWindow(value) ==
    /\ int' = Cascade(int.lines \ value, int.mask)
    /\ alarm' = [alarm EXCEPT !.since = 0]
    /\ UNCHANGED <<rtc, dog>>

\* Write-one-to-clear.
Acknowledge(value) ==
    /\ int' = Cascade(int.lines \ value, int.mask)
    /\ alarm' = IF "alarm" \in value THEN [alarm EXCEPT !.since = 0] ELSE alarm
    /\ UNCHANGED <<rtc, dog>>

\* Wrong on purpose: the new mask is stored and IRQ2 is left as it was.
SetMask_NoUpdate(value) ==
    /\ int' = [int EXCEPT !.mask = value]
    /\ UNCHANGED <<rtc, alarm, dog>>

SetMask(value) ==
    /\ int' = Cascade(int.lines, value)
    /\ UNCHANGED <<rtc, alarm, dog>>

\* Either half of the alarm's time arms it, and re-arms it once it has fired.
SetAlarm(reg, value) ==
    /\ alarm' = [alarm EXCEPT !.min = IF reg = AlarmMin THEN value % 64 ELSE @,
                              !.hr  = IF reg = AlarmHr THEN value % 32 ELSE @,
                              !.armed = TRUE, !.fired = FALSE]
    /\ UNCHANGED <<int, rtc, dog>>

SetClock(reg, value) ==
    /\ rtc' = SetCounter(rtc, now, reg, value)
    /\ UNCHANGED <<int, alarm, dog>>

FeedCcont(value) ==
    /\ dog' = KickCcont(dog, now, value)
    /\ UNCHANGED <<int, rtc, alarm>>

\* The data byte of a write.
WriteReg ==
    /\ \E w \in Writes :
         /\ w.reg = addr
         /\ \/ addr = IntAck /\ Acknowledge(w.value)
            \/ addr = IntMask /\ SetMask(w.value)
            \/ addr \in {AlarmMin, AlarmHr} /\ SetAlarm(addr, w.value)
            \/ addr \in Counters /\ SetClock(addr, w.value)
            \/ addr = Watchdog /\ FeedCcont(w.value)
    /\ addr' = NoReg
    /\ UNCHANGED <<now, charger>>

\* The watchdog's other register, on the CTSI bus.
FeedCtsi ==
    /\ \E w \in Writes : w.reg = Watchdog /\ dog' = KickCtsi(dog, now, w.value)
    /\ UNCHANGED <<now, addr, int, rtc, alarm, charger>>

\* The acknowledge of the IRQ latch: a line still up raises IRQ2 again.
IrqAct ==
    /\ int' = Cascade(int.lines, int.mask)
    /\ UNCHANGED <<now, addr, rtc, alarm, charger, dog>>

\* The user plugs the charger in or out, and INT3 rises at once.
Plug ==
    LET in == ~charger.plugged
    IN  /\ charger' = [plugged |-> in, present |-> in]
        /\ int' = IF in # charger.present THEN Cascade(int.lines \cup {"charger"}, int.mask) ELSE int
        /\ UNCHANGED <<now, addr, rtc, alarm, dog>>

-----------------------------------------------------------------------------
(* The tick after every instruction. *)

\* Wrong on purpose: the alarm is not looked at.
Quiet_NoAlarm(t) ==
    /\ t < rtc.minNext
    /\ "alarm" \notin int.lines
    /\ ~dog.off
    /\ dog.deadline = 0 \/ t < dog.deadline

\* Wrong on purpose: the minute is not looked at.
Quiet_NoMinute(t) ==
    /\ ~alarm.enabled /\ "alarm" \notin int.lines
    /\ ~dog.off
    /\ dog.deadline = 0 \/ t < dog.deadline

\* Wrong on purpose: the watchdog is not looked at.
Quiet_NoDog(t) ==
    /\ t < rtc.minNext
    /\ ~alarm.enabled /\ "alarm" \notin int.lines
    /\ ~dog.off

\* The guard that skips the body: none of these sources is due.
Quiet(t) ==
    /\ t < rtc.minNext
    /\ ~alarm.enabled /\ "alarm" \notin int.lines
    /\ ~dog.off
    /\ dog.deadline = 0 \/ t < dog.deadline

\* An edge that nobody reported yet.  Plug leaves none, but the code looks for one.
ChargerEdge == charger.plugged # charger.present

\* The charger's edge, and the body: minute and second edge, alarm, its
\* release, watchdog.
Body(t) ==
    LET secNext == IF rtc.secNext = 0 THEN NextSecond(t) ELSE rtc.secNext
        rings   == /\ alarm.enabled /\ alarm.armed /\ ~alarm.fired
                   /\ AlarmMatches(rtc, alarm, t)
        since   == IF rings THEN t ELSE alarm.since
        edge    == [charger |-> ChargerEdge, min |-> t >= rtc.minNext,
                    sec |-> t >= secNext, alarm |-> rings]
        edges   == {l \in Lines : edge[l]}
        release == "alarm" \in int.lines \cup edges /\ since # 0 /\ t - since > AlarmHold
        up      == (int.lines \cup edges) \ (IF release THEN {"alarm"} ELSE {})
    IN  /\ int' = IF edges # {} \/ release THEN Cascade(up, int.mask) ELSE int
        /\ rtc' = [rtc EXCEPT !.minNext = IF t >= @ THEN NextMinute(t) ELSE @,
                              !.secNext = IF t >= secNext THEN NextSecond(t) ELSE secNext]
        /\ alarm' = [alarm EXCEPT !.fired = IF rings THEN TRUE ELSE @,
                                  !.since = IF release THEN 0 ELSE since]
        /\ dog' = Watch(dog, t)

Tick ==
    \E t \in now + 1 .. now + MaxStep, otherDue \in BOOLEAN :
      /\ t <= MaxTime
      /\ now' = t
      /\ charger' = [charger EXCEPT !.present = charger.plugged]
      /\ IF Quiet(t) /\ ~otherDue
         THEN /\ int' = IF ChargerEdge THEN Cascade(int.lines \cup {"charger"}, int.mask) ELSE int
              /\ UNCHANGED <<rtc, alarm, dog>>
         ELSE Body(t)
      /\ UNCHANGED addr

Next == SelectReg \/ ReadReg \/ WriteReg \/ FeedCtsi \/ IrqAct \/ Plug \/ Tick

Spec == Init /\ [][Next]_vars

-----------------------------------------------------------------------------
(* Properties. *)

TypeOK ==
    /\ now \in Nat
    /\ addr \in Regs \cup {NoReg}
    /\ int \in [lines : SUBSET Lines, mask : SUBSET Lines, irq2 : BOOLEAN]
    /\ rtc \in [base : Nat, baseCyc : Int, secNext : Nat, minNext : Nat]
    /\ alarm \in [enabled : BOOLEAN, armed : BOOLEAN, fired : BOOLEAN,
                  min : Nat, hr : Nat, since : Nat]
    /\ charger \in [plugged : BOOLEAN, present : BOOLEAN]
    /\ dog \in [cc : Nat, ctsi : Nat, disabled : BOOLEAN, deadline : Nat,
                window : Nat, lastKick : Nat, starved : Nat, service : BOOLEAN,
                resetArmed : BOOLEAN, tripped : BOOLEAN, off : BOOLEAN]

\* IRQ2 is pending exactly while an unmasked line is up, whatever order lines
\* rise, are acknowledged, masked, unmasked and released in (cc_int_update is
\* called by every code path that touches one of its inputs).
Irq2Level == int.irq2 <=> int.lines \ int.mask # {}

\* No minute goes by unseen: the tick that crosses a minute raises INT5, though
\* the guard skips the body on most ticks.
MinuteLatched ==
    [][now' \div MinCyc > now \div MinCyc => "min" \in int'.lines]_vars

\* The same for the second: "Latch INT4 per second" (mad2_timers.c:184).
SecondLatched ==
    [][now' \div SecCyc > now \div SecCyc => "sec" \in int'.lines]_vars

\* An armed alarm whose minute has come has fired by the end of the tick, also
\* when the clock or either half of the alarm's time was written just before.
AlarmCaught ==
    [][now' > now =>
         ~(/\ alarm'.enabled /\ alarm'.armed /\ ~alarm'.fired
           /\ AlarmMatches(rtc', alarm', now'))]_vars

\* The safety release: however the firmware behaves, the alarm's line is not up
\* for longer than AlarmHold after it was last asserted.
AlarmReleased == "alarm" \in int.lines => now <= alarm.since + AlarmHold

\* Writing one clock counter leaves what the other three read, and the running
\* second: it still turns at the cycle it would have turned at.
CounterWriteIsolated ==
    [][<<rtc'.base, rtc'.baseCyc>> # <<rtc.base, rtc.baseCyc>> =>
         /\ \A reg \in Counters \ {addr} :
               Counter(reg, Seconds(rtc', now)) = Counter(reg, Seconds(rtc, now))
         /\ \A n \in 1 .. SecCyc :
               Seconds(rtc', now + n) - Seconds(rtc', now)
                 = Seconds(rtc, now + n) - Seconds(rtc, now)]_vars

\* A starvation is only counted when nothing has fed the dog for a whole window
\* of the last value fed, and never while it is disabled or the power is off.
NoFalseStarvation ==
    [][dog'.starved # dog.starved =>
         now' >= dog.lastKick + dog.window /\ ~dog.disabled /\ ~dog.off]_vars

\* No starvation is missed: after a tick a dog fed on both registers has its
\* deadline ahead, so the next one is noticed too.
DogAwake ==
    [][now' > now /\ dog.cc # 0 /\ dog.ctsi # 0 /\ ~dog.disabled /\ ~dog.off
         => dog'.deadline > now']_vars
=============================================================================
