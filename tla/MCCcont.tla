------------------------------ MODULE MCCcont ------------------------------
(***************************************************************************)
(* Small instances of Ccont: seconds of two cycles, minutes of two         *)
(* seconds, hours of two minutes, so that a few ticks cross all of them.   *)
(* The watchdog shares nothing with the rest but the clock and the power-  *)
(* off latch, so a behaviour of the instance is either about the watchdog  *)
(* (resetArmed) or about clock, alarm and interrupts, which stop earlier.  *)
(***************************************************************************)
EXTENDS Ccont

CONSTANT ClockTime      \* bound: where a behaviour about the clock stops

MCClockWrites ==
    [reg : {7, 8, 10}, value : {1}]
      \cup [reg : {AlarmMin}, value : {65}] \cup [reg : {AlarmHr}, value : {0}]
      \cup [reg : {IntAck}, value : {{"min"}, {"alarm"}}]
      \cup [reg : {IntMask}, value : {{"sec"}}]
MCClockModes == {[alarm |-> a, service |-> FALSE, resetArmed |-> FALSE] : a \in BOOLEAN}

MCWrites == MCClockWrites \cup [reg : {Watchdog}, value : {0, 1, 2, DogOff}]
MCModes  == MCClockModes \cup [alarm : {FALSE}, service : BOOLEAN, resetArmed : {TRUE}]

\* The states that are explored further.
Apart ==
    IF dog.resetArmed
    THEN addr \in {NoReg, Watchdog}
    ELSE now <= ClockTime /\ addr # Watchdog /\ dog.ctsi = 0 /\ ~dog.off /\ ~dog.disabled
=============================================================================
