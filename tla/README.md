# A verification project for the DCT3 phone emulator

The repository emulates Nokia DCT3 phones: an ARM interpreter runs the phone's
original firmware, and C code under `src/` plays the MAD2 chip around it, the DSP
engine behind its shared RAM, the CCONT power controller, the SIM, the buses, and
host-side services that speak to the running phone. This directory holds TLA+ models
of the parts of that code whose correctness depends on the order in which things
happen, TLC configurations that check them, and proofs that TLAPS checks.

1. [The system](#1-the-system)
2. [Modules and code](#2-modules-and-code)
3. [What the runs check](#3-what-the-runs-check)
4. [What is proved](#4-what-is-proved)
5. [Findings](#5-findings)
6. [What is not modelled](#6-what-is-not-modelled)
7. [Plan](#7-plan)

To repeat everything:

    tlc -workers 2 -config MCMdiEgress.cfg MCMdiEgress      (and so on, section 3)
    tlapm MdiEgressProofs.tla                               (and so on, section 4)

## 1. The system

### What runs when

The emulator is one thread. The interpreter executes an instruction; if the
instruction touches a device, `mad2_write`/`mad2_read` (`mad2/mad2_bus.c`) runs that
device's handler to its end; after the instruction `mad2_tick` (`mad2/mad2_timers.c`)
moves the clock on, runs every device whose deadline has come, and delivers IRQ and
FIQ. Host code (bridges, the user interface, the provisioning service) runs between
instructions.

So handlers are atomic, and the hard behaviour is the interleaving of *register
accesses of the firmware* with *ticks*. The firmware's handlers are sequences of such
accesses, and a tick, with anything that is due in it, falls between any two. The
hazards of this code are the classical ones of device and driver: a cause that comes
back between its service and its acknowledge, a cursor read before and used after
another side moved it, a deadline no wake-up knows of.

The firmware itself is outside the repository. What a model needs of it is written
down from how the code in `src/` describes and uses it, and marked external in
`PROJECT.json`.

### Components

| Component | State | Operations | Interacts with | Correct when |
|---|---|---|---|---|
| DSP egress queues, `mad2/dsp/mdi_queue.c` | pending FIFO, delayed slots | enqueue, enqueue_at, pump_delayed, expire_stale, post | filled by the DSP engine; empties into the ring; raises FIQ0 | each record has exactly one fate; nothing stale is posted; nothing is stranded |
| MDI ring, `mad2/dsp/mdi.h` | cells in shared RAM, two cursors | append; the firmware's drain | DSP engine writes, firmware reads | no word lost, repeated, overwritten or read early |
| DSP engine ROM 6 (3410), `dsp_rom6.c` | radio, paging, calls, LAPDm links, dedicated channel, heartbeat | bus write, host interrupt, advance_to, tick | the above; RLP/PPP/WAP; commands from the firmware | the engine is never silent; network and phone agree on the link; a service is paged for and delivered; a channel is given back; blocks carry the frame they belong to |
| DSP engine ROM 4 (3310), `dsp_rom4.c` | transaction of the radio peer, security requests | search list, channel configure, idle RA, send block, deactivate, emit report, respond | queue and ring as ROM 6 | a request is answered by its own reports; a phone always comes to camp |
| Legacy mailbox, `dsp_mailbox.c` | one reply ring | write, tick | 5110 co-simulation | - |
| CSD bearer, `rlp.c`, `ppp.c`, `wap.c`, `wap_host.c` | V(S)/V(R), character queues, one pending fetch | uplink, next_downlink, take, deliver | traffic channel; host process or web page | both ends of the link in step; no frame cut short; a result goes to the transaction that asked; every request is answered |
| CCONT, `mad2_ccont.c` | interrupt lines and mask, clock base, alarm, watchdog | address byte, data byte, read | tick, IRQ2 | IRQ2 is the level of its lines; no edge is missed; the alarm rings; the dog bites when and only when starved |
| Timers and the tick, `mad2_timers.c` | a deadline per source | one function in a fixed order, with a guard that skips it | everything | the guard skips nothing that is due |
| Bus and interrupt controller, `mad2_bus.c`, `mad2.c` | pending and mask of IRQ and FIQ | register writes, acknowledges with re-raise | all devices | a level still up is pending again after its acknowledge |
| MBUS UART, `mad2_mbus.c` | receive FIFO, RXDRDY, shifter, output ring, FIQ2, FIQ3 | push, pop, control, load, mask, acknowledge, tick | firmware's FIQ handlers; host bridge | every byte heard, every frame sent once and in order |
| Identity re-provisioning, `services/identity_provision.c` | session state, staging buffer, expected reply | run, tick, reply handlers, fail | phone over MBUS | a reported success is true; every run ends |
| SIM, `mad2_sim.c` | receive ring and stage, APDU assembly, CHV counters, WWT | UART registers, APDU engine, tick | FIQ6, FIQ7; SIM bridge | no byte strands the link; an answer belongs to its command; every command ends; a write is read back |
| Flash, `mad2_flash.c`; I2C EEPROM, `ext_eeprom.c` | command state; bus decoder | write, read | firmware's drivers | programming only clears bits, a block erase stays in its block |
| COBBA, LCD, keypad, audio | samples, framebuffer, matrix | register writes | - | data, no protocol |
| Bridges, harness, models, web, tools | sockets, traces, tables | - | host | - |

The hard-to-test behaviour of each is listed line by line under `hazards` in
`PROJECT.json`, with the property that covers it or the reason none does yet.

## 2. Modules and code

| Module | What it is |
|---|---|
| `MdiRing` | the ring's arithmetic: cursors, occupancy, deposit, the reader's window |
| `MdiEgress` | extends it: the queues, the engine's handlers, the heartbeat, FIQ0, the firmware's drain |
| `MdiLink` | the abstract specification: a lossy link with a single fate per record |
| `Ccont` | the CCONT and the tick that serves it |
| `Mbus` | the MBUS UART between the host's feed and the firmware's FIQ handlers |
| `IdProv` | the re-provisioning service against a phone |
| `Sim` | the SIM UART, the T=0 exchange and the synthetic card against the firmware's driver |
| `Rom6Link` | ROM 6 as the network: paging, LAPDm, transactions, against a phone |
| `Rom6Frames` | the frame arithmetic of ROM 6: which frame a block is stamped with, when a slot is due |
| `Rom6Text` | how ROM 6 codes numbers and texts and cuts a message into parts |
| `CsdData` | the far end of a data call: RLP, PPP, the WAP gateway and its host, against a phone |
| `Rom4Radio` | ROM 4 as the radio: search, camping, access, and the security responder, against a phone |
| `MdiEgressProofs` | theorems and proofs about `MdiRing` and `MdiEgress`, the fates of records, and that `MdiEgress` implements the safety of `MdiLink` |
| `CcontProofs`, `MbusProofs`, `IdProvProofs`, `SimProofs`, `Rom4RadioProofs`, `Rom6LinkProofs` | theorems and proofs about the module each is named after |
| `Rom6CodeProofs` | theorems and proofs about `Rom6Frames` and `Rom6Text` |
| `MC*` | small instances for TLC |

Every constant is a parameter of the code (`MDI_PENDING_N`, `ROM6_KA_CYC`, ...) or a
bound of the model (`MaxRec`, `MaxTime`, ...; the comment at its declaration says
"bound"). The line-by-line correspondence is `map` in `PROJECT.json`.

Operators whose comment begins "Wrong on purpose" are variants with a plausible
mistake; each stands before the definition it can take the place of. They are not
part of the model. Putting one in place of its definition makes TLC find a named
property violated, which shows that the property would notice the mistake
(`mutants` in `PROJECT.json`).

### MdiEgress

`dsp` is the engine's side: `pending` and `delayed` are the `MdiQueue`, `ring` and
`producer` its half of the shared RAM, `fiq0` and `hbNext` the line and the
heartbeat's deadline. `lost`, `posted`, `written` and the variable `heard` are
history. The actions are whole handlers:

* `Tick` is the DSP's share of `mad2_tick`: `advance_to` if a deadline of
  `rom6_next_wake` is due (matured slots, expiry, at most one post), then heartbeat
  and self-test responder, in that order.
* `M2d` is the write of the command cursor, `HostInterrupt` bit 2 of DSPIF,
  `DspReset` the reset register, `McuCommit` the write of the receive cursor, whose
  handler posts at once.
* `TakeFiq0`, `ReadWord`, `McuCommit` and `DrainDone` are the firmware's drain, one
  halfword at a time.

*Which* records a command or a radio event asks for is a free choice from `Kinds`; the
queue's behaviour does not depend on what they say. Sequences of several calls of
`enqueue` in one handler are batches of at most two. Left out: the base 0x80 of the
cursors, the firmware's own initialisation of its cursors when it reboots, and the
lower-bound check the heartbeat has and `mdi_d2m_append` has not.

`BeatLen` is what the drain takes the payload length of the heartbeat's word to be.
With 0 the beat is the single word the code advances by; with 3 it is what the frame
ABI makes of it (see Findings).

### Ccont

A CCONT transaction is an address byte and a data byte; `SelectReg`, `WriteReg` and
`ReadReg` are its halves, and a tick can fall between. `WriteReg` has one disjunct per
register that does something; `FeedCtsi` is the watchdog's other register, `IrqAct`
the acknowledge of the IRQ latch. `Tick` has the guard of the code (`Quiet`) over the
sources of this component; whether a source of another component opens the guard is a
free choice (`otherDue`). The order inside `Body` is the code's: charger, minute,
second, alarm, release, watchdog. `Plug` is the user interface
setting the charger's voltage, which raises INT3 at once; the tick looks for the same edge
and never finds one. Left out: the ADC, the battery ramp, the commit of a
power-off, the diagnostic `CCFORCE5`, and the day counter's wrap at 256.

### Mbus

`uart` is the device, `fw` the firmware's place in its handlers, `wire` what has
crossed. The device's operations are operators on `uart` (`Signal`, `Push`, `Pop`,
`WriteCtrl`, `LoadTx`, `AckFiq2`, `MaskFiq3`, `KickDone`, `ShiftDone`); the firmware's
actions call one of them each, so a tick falls between any two register accesses.
The host feeds a byte only into an empty FIFO whose receiver is on, as `pump_tx` and
the bridge do. Bytes are their numbers. A byte is sent when it is shifted out
(`SentInOrder`, `EveryFrameSent`): a host that does not drain its ring of sent bytes loses
those that find it full (`mad2_timers.c:351`), and the properties do not promise it more.

### IdProv

`tool` is the service's static state, `phone` the phone, `wire` the frames on their
way. A tick is one action: while settling (`TickSettle`) nothing is sent or received;
otherwise (`TickPump`) a frame may leave, all received frames are handled, and then
the deadline is looked at. A frame is one element, since bytes are the business of
`Mbus`, and one that does not fit the staging buffer is dropped whole (the code stages its
first bytes, which no receiver takes for a frame); the gap the service leaves between
frames is the choice `open`. The phone may
miss frames, repeat answers, or acknowledge writes without storing them. The phone's
own acknowledges and hello frames, which the service skips, are left out.

### Sim

`uart` is the reader (receive FIFO and the stage that paces it, transmit FIFO, the
APDU being assembled, the interrupt lines, FIQ6 and FIQ7, the work-waiting timer),
`card` the synthetic card of `mad2_sim.c` (selected file, written files, CHV1 and its
counters), `fw` the firmware's driver and its FIQ6 handler.

* `Tick` is the SIM's share of `mad2_tick`: presence, ATR, a paced byte, a deferred
  release, a work-waiting timeout. Whether a deadline has passed is a choice.
* `Flush` and `More` write a header and the chunks of data, and each runs the T=0
  engine of the code (`RunApdu`): procedure byte, data, command, status word.
* `EnterFiq6`, `WriteBack`, `ReadByte`, `Leave6` and `Ack6` are the handler, one register
  access at a time; it takes the lines, writes them back, and reads until the FIFO is
  empty, as the comments of the code describe the driver.
* `GiveUp` is the driver's own time-out, `SetPresent` a card taken out or put in.

`env` chooses whether the line is paced, whether a real card is behind the bridge
(it answers anything the rules of T=0 allow: as many bytes as the command asks for, or a
status alone), whether RUN GSM is refused (`SIMNOAUTH`), whether CHV1 is asked for, and which
commands the firmware uses. The synthetic card gives fewer bytes than P3 where less was
prepared (`FcpLen` by a SELECT or for STATUS, `KeyLen` by RUN GSM), and for P3 = 0 all of it, or a
whole record (`RecLen`). Left out: the contents of files and the seed, CHV2, the native card
behind `swSIM`, and commands that ask for more than 253 bytes, whose answer does not fit the
FIFO (`SimAssumption`). Two things of the code that the model
follows and no line of the repository promises otherwise: a reset leaves
`pin_verified` up, and DISABLE and ENABLE CHV do not look at the exhausted counter
(`mad2_sim.c:750`). The reset counter is a byte: with it at 0 again the work-waiting
timer is off (`mad2_sim.c:1198`, `mad2.h:747`), which is why `ResetMod` is a parameter.

### Rom6Link

`r` is the engine: the ring of services (`inq`), paging, the queue of LAPDm frames for
the dedicated channel, the two links with their rings of awaited acknowledges, and the
state of registration, service and call. `ms` is the phone. `PagingBlock` and `Slot` are
the two events of `rom6_advance_to`, `Rach`, `ConfigureSdcch` and `ConfigureTch` the
commands of `rom6_handle_mdi`, `Uplink` and `Repeat` a received block (`LapdmUplink`, and
under it `AckPending`, `NetActive`, `NetEstablished`, `NetOnAck`), `QueueIncoming` the
host. A downlink frame is handed to the phone by the slot itself; the queue between is
`MdiEgress`. A message is its name and its number of frames: `SendI` sends all of them in one
step, as `rom6_send_iframes` does. How long the next call's SETUP and the next short message
are is chosen from `Sizes` with each dedicated channel.

Assumed of the phone: a window of one per link, an acknowledge before the reaction, one
block per block request. Excluded, because the engine does not survive it: a SABM
repeated while its UA is under way (`LapdmSabm` resets the link again), a hang-up
between SETUP and the traffic channel, a message of more parts than the ring of
services holds (`Queue`), and a dedicated channel that is dropped without an
acknowledged CHANNEL RELEASE, after which `page.on` with `answered` stays up and nothing
is ever paged again (`dsp_rom6.c:1867`). The network repeats nothing.

### Rom6Frames

Pure operators from cycles to frames: the stamps of synchronisation (`LastSchFn`),
broadcast (`LastBcchFn`), assignments (`NextCcch`) and pages (`PagingFn`), the contents
that repeat them (`SchInfo`, `ImmAssign`), the paging group of an identity and its cycles
(`PagingPhase`, `PagingOffset`, `NextPagingGroup`, `NextBurst`, `BackOff`), and the first
slot and block request of a dedicated channel (`FirstSlot`, `FirstRequest`). `Unsigned`
is the code's 32-bit subtraction before it is reduced to the hyperframe. External are
the three operators for what the firmware reads out of a stamp. `Cpf` is the code's
default; the environment variable `ROM6_FNDIV` that replaces it is not modelled.

### Rom6Text

Pure operators again: the octets of a number (`EncodeDigits`, `DecodeDigits`, `MoNumber` for
the number the phone dials), the septets of a text in its octets (`CopySms`, `Pack`,
`Unpack`), the parts of a binary message (`Parts`, `From`, `Chunk`) and the lengths of what
`rom6_build_mt_sms` builds (`Tpdu`, `Rpdu`, `L3`, `Segments`). A string is a function from 0
on, an octet its eight bits or its two halves, a running offset is given in closed form.
Left out: the search for the called party's element in a SETUP, the digits that
`rom6_copy_digits` picks out of the host's string, the text sent for an empty one, and the
values of the fixed octets.

### CsdData

`p` is the RLP peer, `g` PPP and the gateway, `call` the call, `host` the page that
answers later, `ms` the phone. A character is a cell that knows its frame and its place
in it, so that a frame which lost a character is recognised as the FCS would.
`UplinkFrame` is the handler of an uplink block to its end: RLP (`OnUplink`), PPP
(`RxBytes`, `HandleFrame`, `HandleLcp`, `HandleIpcp`), WAP (`WapHandleIp`) and the drain of
the answers (`Drain`). `CsdBlock` is the downlink block with the host that answers at
once; `PagePoll` and `PageDeliver` are the page that answers later. `Retransmit`, `Abort`
and `HangUp` are the user and WTP.

`Settings` are the ways a request can be answered: the gateway's own deck, a host that
fetches at once, a page that fetches later, a relay to a real gateway, and requests
without a connection; and what the phone says besides. Excluded (`CsdAssumption`):
results longer than the RLP queue or of more datagrams than the gateway's ring, which
never get through, and connectionless requests with a host, which are answered in the
context of an older WTP transaction. The patient user of a page waits for it before
asking again; without that see Findings. A page has a length (`ReplyLen`), and three things
can come of it: it fits a datagram, it is longer than one and becomes a 500, or it is longer
only with the WTP, UDP and IP headers (31 octets). That last one `wap_stage_result` drops
when nothing is pending any more (`wap.c:193`, `:105`; for the relay `:181`), and so again each
time the phone asks: `Answered` is about every page but such a one (`Lost`), those included
that are asked for after it. The helpers of the repository make pages of at most 1100
octets (`tools/wapfetch.mjs:76`), but pass other content on as it comes. Left out: the text of pages, XID and TEST
echoes' contents, and PPP's identifiers. `ppp.c` never clears that it has sent its
Configure-Request (`ppp.c:110`), so a second negotiation in one call gets none; the
model does the same and the phone keeps what it had.

### Rom4Radio

`radio` is the transaction of the radio peer (phase, reports to come, what was searched
for, whether a selected-cell scan is suspended), `egress` the queue and the ring as
sequences, `sec` the security responder, `fw` the phone. A request runs `SearchList`,
`ChannelConfigure`, `IdleRa`, `SendBlock` or `Deactivate`; `Tick` emits the report in turn
(`EmitReport`, then `AdvanceAfterReport`), expires a stale record and answers the security
responder. Every record carries whether it answers the newest request (`fresh`), which
is history.

The phone has one request under way and judges it when no report is to come any more.
`lossy` lets records expire in the queue; such a phone does not register, because every
access phase takes only its next request: one lost report and the request that is
repeated is ignored for good (`dsp_rom4.c:602`), and not a security answer either, which
is sent once. Left out: the boot mailbox and the pump of code blocks, the heartbeat
(the same code as in `MdiEgress`), and `searchRequested`, a field that nothing sets
(`dsp_rom4.c:651-654`).

### How they compose

`MdiEgress` extends `MdiRing` and is shown to implement `MdiLink` through
`Link == INSTANCE MdiLink WITH ...`. `Rom4Radio`, `Rom6Link` and `CsdData` stand on that
link: their records are the `Kinds` of `MdiEgress`. `CsdData` begins where `Rom6Link` has moved
a call to the traffic channel, and ends with it. `Rom6Frames` gives the times and stamps
that `Rom6Link`'s `PagingBlock` and `Slot` abstract from. `Mbus` and `IdProv` meet at the
byte: what `IdProv` calls a frame sent is `Mbus!EveryByteHeard` for its bytes, and what it
calls an answer arriving is `Mbus!EveryFrameSent`. `Ccont`, `Mbus`, `Sim` and `MdiEgress`
share the tick, in which their parts touch disjoint state; the guard's view of the
others is a free choice.

## 3. What the runs check

| Run | Module, cfg | Question |
|---|---|---|
| `mdi_egress` | `MCMdiEgress.cfg` | Is the egress safe, and does it implement `MdiLink` with every record settling? `TypeOK`, `Intact`, `ReadsOnlyWritten`, `NoStrandedRecord`, `WakeupNotLost`, `FreshPosts`, `OneFate`, `NeverSilent`, `LinkSpec` |
| `mdi_beat_framing` | `MCMdiBeat.cfg` | Is the heartbeat a record of the frame ABI? (It is not.) |
| `ccont` | `MCCcont.cfg` | Interrupts, edges, alarm, clock, watchdog: `TypeOK`, `Irq2Level`, `MinuteLatched`, `AlarmCaught`, `AlarmReleased`, `CounterWriteIsolated`, `DogAwake`, `NoFalseStarvation` |
| `ccont_second` | `MCCcontSecond.cfg` | Is every second latched? (It is not.) |
| `mbus` | `MCMbus.cfg` | Are bytes and frames never lost, doubled or left waiting? `TypeOK`, `Fiq2Follows`, `SentInOrder`, `EveryByteHeard`, `EveryFrameSent` |
| `idprov` | `MCIdProv.cfg` | Is a reported success true, does every run end? `DoneMeansStored`, `WrittenTrue`, `VerifyChangesNothing`, `EveryRunEnds` |
| `idprov_reset` | `MCIdProvReset.cfg` | Does the reset reach the phone? (It does not.) |
| `sim` | `MCSim.cfg` | Does the firmware read the answer of the command it is in, does no byte, time-out or command get stuck, and does the card keep what is written? `Framed`, `NoByteStranded`, `ReadsLastWrite`, `CommandEnds`, `TimeoutSeen` |
| `rom6_link` | `MCRom6Link.cfg` | Do network and phone agree on the links, is a queued service paged for and delivered, is a channel given back? `InStep`, `Paged`, `Delivered`, `ChannelFreed` |
| `csd_data` | `MCCsdData.cfg` | Do the stacks of the data call agree, and is every request answered with its own page? `Consistent`, `Answered` |
| `csd_stale` | `MCCsdStale.cfg` | Is that so for a user who does not wait for a page? (It is not.) `RightPage` |
| `rom4_radio` | `MCRom4Radio.cfg` | Is a request answered by its own reports, and does the phone always come to camp? `Correlated`, `Camps`, `SecurityAnswered` |

The type invariant of the later modules is a conjunct of a safety property
(`WrittenTrue`, `Framed`, `InStep`, `Consistent`, `Correlated`).

### Bounds, and why they are enough

* `MCMdiEgress`: a ring of four cells, three usable, and records of two and three
  words: two records do not fit together, a record straddles the wrap, and the cursors
  come around. The FIFO takes two records and there is one delayed slot. With three
  records, one of them long, and a heartbeat in the ring that keeps the long one out,
  FIFO and slot overflow. A lifetime of one cycle and a cadence of two under a clock of
  three bring expiry and heartbeat before, between and after posts. The proofs cover the
  other sizes.
* `MCCcont`: seconds of two cycles, minutes of two seconds, hours of two minutes. The
  constraint `Apart` keeps a behaviour either about the watchdog, with nine cycles
  (several windows of one and two seconds), or about clock, alarm and interrupts, with
  four (seconds, a minute and the alarm's match); the two share only clock and
  power-off. The writes are one value for each counter that can disturb another, both
  halves of the alarm, two acknowledges and a mask.
* `MCMbus`: frames of one and of three bytes, so that the unmask of FIQ3 falls after
  byte 0, in the middle and never; two bytes received while they go out; rings of two.
* `MCIdProv`: two runs, each normal or verify-only; three staged frames and two
  answers in the ring, which both overflow by repeated answers; a session opened by
  two commands. One of them is the IMEI read, which is the command of the read-back
  too, so an old answer can be taken for a new one if the code lets it.
* `MCSim`: four repertoires. Files: a record file behind CHV1, an open file, one slot
  for written files (so a second file finds none), writes of one and two units with a
  transmit FIFO of two, in and out of range. CHV1: one try each for code and unblock
  code, two codes. The rest, with a real card, paced and not, and the card moved in and
  out. Resets are counted modulo two, so the work-waiting timer is on and off.
* `MCRom6Link`: two usable slots for a call and a message of two parts, so that the
  second offer finds room for all, one or none; two cycles of two pages; two
  transactions of the phone's own and one repeated frame. A SETUP of two frames and a short
  message of nine, the longest there is, so that the ring of acknowledges holds two with the
  same N(R) at once. Sequence numbers modulo eight, sixteen acknowledges to a link and
  thirty-two frames in the queue, as in the code. `InStep` contains `Room`: in every state
  reached the queue has room for the frames of another step, and a ring for its
  acknowledges, so nothing is dropped silently.
* `MCCsdData`: the settings above, and pages that just fit, are just too long with their
  headers, and are longer than a datagram (2017, 2018 and 2049 octets of 2048); three characters to an I frame and frames of one
  to four, so that a frame straddles blocks and a block holds parts of two; sequence
  numbers modulo four wrap; two calls, one retransmission before the line is quiet, one
  abort, one odd frame, one silence of a real gateway. The queues hold two results.
* `MCRom4Radio`: the three search modes with and without the cell's channel, rounds of
  two and scans of four reports, three measurements (the counter wraps at three), one
  loss, one rejected candidate, two access octets and two frame numbers so that an
  assignment for another burst can be told; a ring of one record behind a queue of
  three, so that reports pile up under requests.

`MCMdiEgress` is deadlock-checked although its clock stops: the firmware can always send a
command. So are `MCMbus`, `MCSim` and `MCRom4Radio`. In `Ccont` and `IdProv` the clock's
bound and the bound on runs end a behaviour; in `Rom6Link` and `CsdData` all services may
be delivered and the last call may be over. Hence `CHECK_DEADLOCK FALSE` there.

### Fairness

* `MdiEgress`: `Tick` with an advancing clock, because the run loop ticks after every
  instruction; and each step of the drain, because an interrupt handler runs to its
  end. Nothing is assumed of commands.
* `Mbus`: a tick that serves what is due; `EnterFiq2` is strongly fair because the
  firmware comes back to its main program again and again and FIQ2 is enabled there;
  each handler step, as above; and the firmware does not leave the receiver closed for
  good. Nothing is assumed of the host.
* `IdProv`: a settle ends and a deadline comes, because both compare with a clock that
  the run loop advances. Nothing is assumed of the phone: it may be silent for ever.
* `Sim`: the tick with its deadlines passed; `EnterFiq6` and the driver's next step are
  strongly fair because each is interrupted by the other again and again and comes
  back; the handler's steps. Nothing is assumed of the real card but that it answers,
  nor of who takes it out.
* `Rom6Link`: the engine's events have deadlines; the phone answers a page it heard in
  idle, configures the channel it was assigned, sends what it has, and its user hangs
  up some time. Nothing is assumed of the host, nor that calls are answered.
* `CsdData`: blocks and the phone's frames follow the TDMA clock; WTP retransmits when
  the line is quiet; a page polls and delivers some time. Nothing is assumed of the
  user or of the length of a call.
* `Rom4Radio`: the deadline of the next report comes, the firmware drains its ring and
  takes the step its procedure has next.
* `Ccont` has safety properties only and no fairness.

## 4. What is proved

Each theorem holds for every value of the constants that satisfies the module's
assumption (`SlotsAssumption`: the ring has at least two cells; `EgressAssumption`: every
record fits an empty ring; `CcontAssumption`, `MbusAssumption`: sizes are positive
naturals; `IdProvAssumption`, `SimAssumption`: sizes, and how a prologue or a repertoire of
commands is made; `Rom4Assumption`: sizes, and which phones lose reports; `Rom6Assumption`:
sizes, and that an offer names a service once). TLC evaluates the assumptions in the runs.

**The ring** (`MdiEgressProofs`, first part). `WindowDeposit`: depositing words that fit appends them
to the reader's window. `WindowRead`: reading takes the head off the window. Everything
modular about the cursors is in these two and the lemmas under them.

**The egress** (`MdiEgressProofs`). `Inv` is inductive, and from it `TypeOK`, `Intact`,
`NoStrandedRecord`, `WakeupNotLost`, `ReadsOnlyWritten`, `FreshPosts` and `NeverSilent` follow.
All are of the form `BeatIsOneWord /\ Spec => ...` where `BeatIsOneWord` is `BeatLen = 0`. Why
the properties are not inductive by themselves, and what is added:

* *Framed*: the words between the drain's place and the producer are whole records.
  `ReadsOnlyWritten` speaks of one frame word; the next read finds a word whose
  announced length must have been written as well.
* *Occupancy*: the drain has not more to read than the consumer's cursor says, so
  room computed from the stale committed cursor is never too much.
* *Fifo*: entries are queued in the order of their enqueue times, so a fresh head
  means that nothing behind it is stale; this is what makes looking at the head only
  enough for `FreshPosts`.
* *Owed*: while the ring is not empty FIQ0 is pending or the drain runs, and a queued
  record implies a ring that is not empty.

**The link** (`MdiEgressProofs`, second part). `OneFate` says that a record asked for waits in a slot, is
queued, was posted or was dropped, and only one of these. It is not inductive: a record
that is in a queue twice still has one fate, until its first copy is posted. `Fates`
says more: slots, queue, posted and dropped records are a partition of what was asked for,
and neither slots nor queue nor the posted sequence holds a record twice. Every queue
operation moves records from one part to another; that such a move keeps the partition is
one lemma (`Moved`), and every operator is shown to be such a move. `Ended` adds that there is
a posted record for each last word put into the ring, which together with `Intact` counts
what the firmware has heard. From the two follow `OneFateAlways` and `IsLossyLink`: each step
of the egress is a `Send` or a `Hear` of `MdiLink` or a stutter. This is the safety half of
`LinkSpec`; that every record settles in the end stays with TLC.

**The CCONT** (`CcontProofs`). `Inv` adds to the checked invariants: the next minute edge
is the first minute after now (`MinuteAhead`; it rests on the guard comparing with it);
an alarm line that is up has its time noted (`AlarmTimed`), without which the release
window could not be computed; the deadline lies a whole window after the last feed
(`DogTimed`). Proved: `TypeOK`, `Irq2Level`, `AlarmReleased`, `MinuteLatched`, `AlarmCaught`,
`NoFalseStarvation`, `DogAwake`; and the action property `CounterWriteIsolated`, mixed-radix
arithmetic over lengths of second, minute and hour of any size. That one assumes
`ValidWrites`: the value is one the counter can show. The code takes any byte
(`mad2_ccont.c:124-145`), and 75 seconds carry into the minutes.

**The MBUS** (`MbusProofs`). `Inv` adds: RXDRDY is up only over a waiting byte and the
transmit register is not empty while a byte shifts (`Rings`); FIQ3 is under way or
pending only before byte 0 of a started frame, and the transmitter is on from then on
(`Kickoff`), the reason why the unmask after a byte does not start the frame again; and
the bytes shifted out are those of the frames but for the one in the shifter
(`Numbered`). Proved: `TypeOK`, `Fiq2Follows`, `SentInOrder`.

**The re-provisioning service** (`IdProvProofs`). `Safe` says of every state of a run which
command it may wait for and how many records it has written by then (`Shape`), that what
the service claims is so (`Truthful`), that every answer on the wire says something true
of the phone (`Says`), and that a verify-only run has nothing staged that writes
(`Harmless`); the last needs that a new run clears what an old one left. From it
`TypeOK`, `DoneMeansStored` and `VerifyChangesNothing`, for every prologue, every buffer size
and any number of runs. A tick handles all frames received at once, so each part is
kept frame by frame and carried through the ring by `HandledBy`.

`WrittenTrue` needs more, because the service knows an answer by its command alone
(`identity_provision.c:463-466`): what an earlier, broken-off run left in the phone's ring
can pass for answers to the next run. With a prologue of one command and a ring of two
answers TLC finds a run that is carried to its first write, and past it, by old answers.
`SmallRing` says that the ring holds no more answers than the prologue has commands. In the
code it holds 64 bytes, an answer takes at least 11, and the prologue has six commands.
Then a run that has come as far as a write has used up every old answer; `Late` counts them:
the replies a run has had, and those that stand in the ring before an answer to a write,
are together no more than the ring can hold.

**The SIM** (`SimProofs`). `Shape` has the types, the sizes of both FIFOs, the lines
(`Line`: each byte in the FIFO has the receive line up, or the handler has taken the line
and is going to read; every line has FIQ6 pending or the handler under way, at each of
its register accesses), and which command the reader is assembling. `NoByteStranded`
follows from it. `Flow` says, for each place of the firmware's program, what the whole
answer is as far as it was sent: what the firmware has read, then the FIFO, then the stage.
It is that of the command begun, cut into procedure byte, data and status; after a reset
it is the ATR; and while a command is put out it is not more than its procedure byte.
`Framed` is read off this; how much data the answer has is what the card owes the command
(`Owes`), for all lengths of what it prepared and of a record. `Flow` also ties the card's selected file and written files to
what the firmware may conclude from the answers, the write included that was done
and whose answer was cut off by a reset; from this `ReadsLastWrite` follows. All
three hold for FIFOs of any size, any files, any number of slots and any repertoire of
commands whose answers fit the FIFO. Two things the firmware must do in the model for the
last: it trusts a read only if the SELECT before it succeeded, and only if data
came with the status.

**The radio of ROM 4** (`Rom4RadioProofs`). `Correlated` says that what is queued and could pass
for an answer answers the newest request. It is not inductive: a request makes
everything queued an answer to an older one, so it matters what is queued when the
phone asks. It asks when no answer is to come (`Settled`), while it camps, or when it
gives up a search in the middle. `Inv` therefore adds which phases the peer can be in at each
place of the phone's procedure (`Place`: a camping phone finds the peer in a broadcast);
that what the phone did not begin is a broadcast and that a phase which its last report
leaves has a report to come (`Peer`); and what the records of queue and ring can be
there (`Queued`, `Underway`): a record that could pass for an answer is of the newest request,
and none such is queued for a phone that camps. The request in the middle of a search
is the one that needs the code's help: the peer drops the queued reports
(`rom4_drop_radio_backlog`); if it left the reports of a search there, `Correlated` would fail.
`CorrelatedAlways` holds for queues, rings, rounds and scans of any size and every setting.
(`Kept`, the records that survive the drop, is written as a selection of places because the
prover knows nothing of `SelectSeq`.)

**The network of ROM 6** (`Rom6LinkProofs`). `TypeCorrect` and `PagedAlways` hold of every behaviour,
for any sizes, services and offers. `Paged` needs only the types besides (`Typed`, every
field of engine and phone): the one step that takes the channel away (`Slot`) looks at the
ring of services before it ends, the host's step does so when no channel is there, and the
steps of paging leave a page that is on, or the last cycle behind them.

`InStepAlways` is `Spec /\ []Room => []InStep`: as long as queue and rings have room
for another step, network and phone agree on both links. The premise does not hold for
every value of the constants: each frame that the phone repeats is answered with an RR, and
nothing in the code bounds how many are repeated between two slots. Beyond it
`rom6_queue_lapdm` and `rom6_record_ack` drop without a word, V(S) having been advanced, and the
links do part. For one repeated frame and the sizes of the code TLC checks it, in
`rom6_link`, as a part of `InStep`.

`InStep` speaks of one link in one state and is far from inductive. What keeps it is the order in which things are under way, and `Linked` says that order:

* a frame that opens a link has no numbered frame of that link before it, no SABM waits
  behind a CHANNEL RELEASE, and on the main link nothing waits behind an assignment (`Order`);
* each link's numbers run from what the phone expects, or from 0 while it is being
  opened: with the phone's SABM still to come, or with the answer on its way (`Sync`, `Tracks`);
* a link that is opened again must be at rest, since its numbers start anew. For link 0
  that is the traffic channel (`Call`: between the assignment and the phone's SABM on it no
  other frame is under way), for link 3 the short messages (`Link3`: the link cannot
  be in use before the cipher is set, and the phone asks for it only when it is silent);
* which reports and commands can be under way while registration, cipher and call
  go through their phases (`Sms`, `Cipher`, `Call`, `Unasked`), without which a late
  message would be answered in the wrong phase with frames the phone does not expect;
* a phone without a channel has nothing under way (`Dead`), so that the next channel
  starts clean.

The proof has three parts: every operator of the engine adds so many frames of a certain set
and keeps `Tracks`; every operator of the phone is a relation between the phone before
and after; and under each action `Alive` or `Dead`, the two halves of `Linked`, hold again.
`Room` asks for as much as the first part shows a step to add: nine frames, the longest
message, and six acknowledges, or nine on a link that is being opened, where the message
can follow. With nine frames on their way and eight numbers, an N(R)
that acknowledges nothing has the name of the eighth frame's, and `rom6_ack_pending` would
take eight frames for received (`dsp_rom6.c:1233-1250`). `Room` therefore has a second part (`Told`): while eight frames or
more wait of which none has been acknowledged, the phone has no frame to send whose N(R)
could be taken for the last of them. It holds because the engine sends the message in answer
to a UA; TLC checks it with the rest of `Room`.

**The frames of ROM 6** (`Rom6CodeProofs`), about all 2,715,648 frames and all cycles,
which no run could enumerate. Everything rests on two lemmas: a frame is 51 times its
multiframe plus its place (`Split`, `Join`), and reducing to the hyperframe keeps place and
parity (`Reduced`). Proved:

* `SchMostRecent`, `BcchMostRecent`: the stamp is the *most recent* frame that carried
  the block, as the comments at `dsp_rom6.c:74` and `:85-86` say, for every frame but 0,
  and from the ninth multiframe on. `SchWrapsWrong`: at frame 0 it is not, because
  the code subtracts below zero modulo 2^32, which is no multiple of the hyperframe.
  For the broadcast the same happens in the first eight multiframes. The engine starts
  at frame 0 and comes back to it every three and a half hours.
* `SchRoundTrip`: the synchronisation information decodes to its frame.
* `RequestQuoted`: the assignment quotes the request reference that the firmware derives
  from the reported burst, though one of the two is reduced by 42432 and the other not
  (`dsp_rom6.c:331-332` rests on it).
* `CcchIsNext`: an assignment is stamped with the first common-control block from its
  delivery on, over the ends of multiframe and hyperframe.
* `IdentityGroup`, `NextGroupIsNext`, `PagesKeepGroup`, `PageStamped`: a page is armed for
  the first cycle at which the phone listens, later ones stay in its group, and the
  stamp is the very frame it goes out in, a frame of the group modulo the hyperframe too.
* `RequestFollowsSlot`: on a new channel the first block request follows the first slot
  by fifteen frames, at whatever cycle the channel is configured; with a common period
  they alternate from then on.

**Numbers and texts** (`Rom6CodeProofs`, second part), about every number of up to twenty digits and every
text. A half of an octet is a digit of the number or the filler (`Halves`), and a bit of the
stream belongs to one septet only (`SetsOne`). Proved:

* `CountedKept`: a number comes back from its octets and its count of digits.
  `MoNumberKept`: a dialled number, of which the firmware gives the octets only, comes back
  unless it has an odd number of digits and ends in 0. `MoNumberLosesZero`: then its last
  digit is lost (see Findings).
* `PackIsStream`: the packed octets are the septets in a row, low bit first, with zeros
  after. From it `TextKept`: a printable text is unpacked as it was packed, at every shift,
  the one included at which the code skips the second octet. `CopyPrintable`: what the host
  queues is made printable and cut to a message first.
* `PartsCarryAll`: the parts of a binary message are not empty, follow one another without
  gap or overlap, end where the message ends, and none is cut again when it is built.
  `MessageFits`, `TextFits`: every buffer and length octet of `rom6_build_mt_sms` is large
  enough, and a message takes at most nine frames, where the link can await sixteen.

**Only model-checked**: liveness (`LinkSpec`'s half of it, `EveryByteHeard`, `EveryFrameSent`,
`EveryRunEnds`, `CommandEnds`, `TimeoutSeen`, `Delivered`, `ChannelFreed`, `Answered`, `Camps`,
`SecurityAnswered`), which the prover's back ends do not reach; `Room` of `Rom6Link`, the premise
of `InStepAlways`; and the safety property of `CsdData` (`Consistent`). `CsdData` hands data on
by a recursive operator (`Drain`) and by folds over frames, about which the prover cannot
reason.

## 5. Findings

* **The heartbeat's byte order** (`mdi_beat_framing`, `ReadsOnlyWritten`). `mdi.h:21` puts the
  opcode of a frame word into its low byte and the length into its high byte; the
  heartbeat (`dsp_rom6.c:226-228`, and the same code in `dsp_rom4.c`) stores 0x03 high and
  0x00 low and advances by one word. Read by the ABI it announces three payload bytes that
  were not written.
* **Seconds are not latched** (`ccont_second`, `SecondLatched`). The guard of the tick says it
  covers every source (`mad2_timers.c:142-143`) and does not compare the second's edge.
  INT4 comes when another source opens the guard.
* **The settings reset is never sent** (`idprov_reset`, `ResetReachesPhone`). The frame is
  staged on entry to the settle state (`identity_provision.c:275`), in which the tick
  returns before it transmits, and the run is done after it.
* **A late page answers the wrong request** (`csd_stale`, `RightPage`). `wap.c:382-383` saves
  the context of a request so that a late fetch can "address the reply exactly as we
  would now"; there is one such context, every Invoke overwrites it and an Abort leaves
  the fetch alone. A user who goes back and asks for another page gets the first one
  under the second request's transaction.

Noted on the way, without a run of their own:

* A dialled number with an odd number of digits that ends in 0 loses that 0:
  `rom6_decode_digits` already stops at the filler (`dsp_rom6.c:832-837`), and its caller then
  removes a last `0` before a filler once more (`:1036-1038`). A call to 120 goes to 12
  (`MoNumberLosesZero`).
* The frame stamps at the start of a hyperframe (section 4).
* A page that fits a datagram but not with its headers is never answered, not even with the
  500 that a longer one gets (`wap.c:209`, `:193`, `:105`; section 2, `CsdData`).
* The read-back cannot tell whether a phone that already held the IMEI stored the
  second record (`DoneMeansStored` says so in its last disjunct).
* Blocks that mature in the same tick leave in slot order, not in the time order that
  `mdi_queue.h:17` describes.
* The scan of a selected cell ends with NO_BCCH_LEFT (`dsp_rom4.c:288-290`) although a
  comment says that a usable cell does not produce it (`:337-340`); `Correlated` does not
  hold that scan to its rule.
* A deactivated receiver outside the two phases that expect it is ignored or starts a
  search (`dsp_rom4.c`, `Deactivate`), although the comment there speaks of queued work
  that is cancelled.

## 6. What is not modelled

* The contents of records, frames and messages, and everything that only encodes them:
  `gsm_dl.c`, the bodies of system information, the fixed fields of a message, the IMSI, the
  pages. (How numbers and texts are coded is in `Rom6Text`.)
* ROM 6's cell search and the turns of its broadcast; ROM 4's boot mailbox and code pump.
* Flash (`mad2_flash.c`): programs and erases complete in the write that asks for them,
  the busy status is two answers of the status register, one driver uses it. What is
  delicate there, an erase set up by one command and confirmed by a later one
  (`mad2_flash.c:142`), is on the hazard list without a property.
* The external I2C EEPROM (`ext_eeprom.c`): one driver clocks it bit by bit, in one order;
  `ext_eeprom_blobs.c` is generated data.
* Timer0, Timer1, FIQ4, FIQ8 and the interrupt-enable gate: each is a counter compared
  with a deadline; they appear only as other sources that open the tick's guard.
* The legacy mailbox (used by the 5110 co-simulation and tests), the trace observer,
  harness and diagnostics, which change no emulated state.
* COBBA, LCD, keypad, audio: data without a protocol.
* Socket bridges, web front end (but for its page fetch), tools, models, generated
  images, vendored code.
* Crash and restart: the emulator persists flash and EEPROM images as a whole, and an MCU
  software reset zeroes the whole machine, so no component has a recovery protocol. A
  reset of the DSP alone, with its queues as they were, is `DspReset`.

## 7. Plan

Done, in this order: `MdiRing`, `MdiEgress` and `MdiLink` with their proofs (the path every
DSP message takes); `Ccont` with proofs; `Mbus` with proofs; `IdProv`; `Sim`; `Rom6Link`;
`CsdData`; `Rom4Radio`; `Rom6Frames` and `Rom6Text` with proofs.

Then `MdiLink`'s safety, `CounterWriteIsolated`, and the safety of `IdProv`, `Sim`,
`Rom4Radio` and `Rom6Link` proved.

Theorems to come, in order of weight:

1. `Consistent` of `CsdData`, once `Drain` is written without recursion.
2. `Room` of `Rom6Link` from a bound on the frames the phone repeats, so that
   `InStepAlways` loses its premise.

Modules to come: the flash command decoder with a driver that is interrupted between
setup and confirm; ROM 6's cell search in the manner of `Rom4Radio`.
