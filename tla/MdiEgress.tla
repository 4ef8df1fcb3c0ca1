----------------------------- MODULE MdiEgress -----------------------------
(***************************************************************************)
(* How a record leaves the emulated DSP: the software queues in front of   *)
(* the d2m ring (mad2/dsp/mdi_queue.c), the ring itself (mdi.h), the       *)
(* engine's handlers that feed and pump them (mad2/dsp/dsp_rom6.c), and    *)
(* the firmware's drain on the other side.                                 *)
(*                                                                         *)
(* The emulator is one thread.  One MCU instruction may be a bus write     *)
(* that runs an engine handler (M2d, HostInterrupt, DspReset, McuCommit)   *)
(* or a step of the drain; between two instructions comes Tick, the DSP    *)
(* part of mad2_tick.  Each is one action, so the interleavings of the DSP *)
(* and the MCU are those of Next.                                          *)
(***************************************************************************)
EXTENDS MdiRing

CONSTANTS
    PendingN,       \* MDI_PENDING_N: size of the pending array (48)
    DelayedN,       \* MDI_DELAYED_N: number of delayed slots (48)
    Ttl,            \* a record unposted for longer is dropped (2 s)
    KaCyc,          \* ROM6_KA_CYC: the heartbeat's cadence (about 5 s)
    BeatLen,        \* payload length the drain reads in a heartbeat's word
    MaxRec,         \* bound: records asked for in a behaviour
    MaxTime,        \* bound: the clock stops here
    MaxStep,        \* bound: cycles of one instruction
    MaxBatch,       \* bound: records one command makes the engine ask for
    Kinds           \* the kinds of record asked for: [len, radio, delay]

ASSUME EgressAssumption ==
    /\ PendingN \in Nat \ {0} /\ DelayedN \in Nat
    /\ Ttl \in Nat /\ KaCyc \in Nat \ {0} /\ BeatLen \in Nat
    /\ MaxRec \in Nat /\ MaxTime \in Nat /\ MaxStep \in Nat /\ MaxBatch \in Nat
    /\ Kinds \subseteq [len : Nat, radio : BOOLEAN, delay : Nat]
    \* every record fits an empty ring: MDI_RCVMAX is 85 words, the ring takes 99
    /\ \A kind \in Kinds : RecWords(kind.len) <= Slots - 1

VARIABLES
    clock,          \* rtc_mono, as the engine last saw it
    dsp,            \* the engine's egress state, see DspState
    consumer,       \* the MCU's cursor, mdircv_head
    running,        \* dsp_running: the DSP has booted since its last reset
    answered,       \* dsp_selftest_replied or dsp_selftest_off
    mcu,            \* the firmware's drain: in progress, read cursor, words left
    asked,          \* how many records have been asked for
    heard           \* the words the firmware has read, in order

vars == <<clock, dsp, consumer, running, answered, mcu, asked, heard>>

Ids   == 1 .. MaxRec
Beat  == 0                      \* the heartbeat's word carries no record
Delayed == 1 .. DelayedN
Rec   == [id : Ids, len : {kind.len : kind \in Kinds}, radio : BOOLEAN, enq : Nat, due : Nat]
None  == [id |-> 0]             \* a delayed slot whose used flag is clear
Word  == [id : Ids \cup {Beat}, part : Nat, words : Nat]
Blank == [id |-> Beat, part |-> 0, words |-> 0]

\* Wrong on purpose: the length in the frame word counts the frame word too.
WordsOf_LengthWithHeader(id, n) == [k \in 1 .. n |-> [id |-> id, part |-> k, words |-> n + 1]]

WordsOf(id, n) == [k \in 1 .. n |-> [id |-> id, part |-> k, words |-> n]]

\* pending and delayed are the MdiQueue; ring and producer the DSP's side of
\* the shared RAM; fiq0 the interrupt line; hbNext is dsp_hb_next_cyc.  The
\* rest is history: the fate of each record, and every word ever written.
DspState ==
    [pending : Seq(Rec), delayed : [Delayed -> Rec \cup {None}],
     ring : [Index -> Word], producer : Index,
     fiq0 : BOOLEAN, hbNext : Nat,
     lost : SUBSET Ids, posted : Seq([id : Ids, wait : Int]), written : Seq(Word)]

Init ==
    /\ clock = 0
    /\ dsp = [pending |-> <<>>, delayed |-> [i \in Delayed |-> None],
              ring |-> [i \in Index |-> Blank], producer |-> 0,
              fiq0 |-> FALSE, hbNext |-> 0,
              lost |-> {}, posted |-> <<>>, written |-> <<>>]
    /\ consumer = 0
    /\ running = FALSE
    /\ answered \in BOOLEAN
    /\ mcu = [on |-> FALSE, at |-> 0, left |-> 0]
    /\ asked = 0
    /\ heard = <<>>

-----------------------------------------------------------------------------
(* The queue operations of mdi_queue.c, as functions of the engine's state. *)

\* A full FIFO drops the record.
Enqueue(d, now, rec) ==
    IF Len(d.pending) = PendingN - 1
    THEN [d EXCEPT !.lost = @ \cup {rec.id}]
    ELSE [d EXCEPT !.pending = Append(@, [rec EXCEPT !.enq = now, !.due = now])]

FirstFree(d, i) == d.delayed[i] = None /\ \A j \in 1 .. i - 1 : d.delayed[j] # None

\* The first free slot takes the record; without one it is pending at once.
EnqueueAt(d, now, due, rec) ==
    IF \A i \in Delayed : d.delayed[i] # None
    THEN Enqueue(d, now, rec)
    ELSE [d EXCEPT !.delayed = [i \in Delayed |->
             IF FirstFree(d, i) THEN [rec EXCEPT !.enq = now, !.due = due] ELSE @[i]]]

\* The one enumeration of S in ascending order (S has at most n members).
Ascending(S, n) ==
    {ord \in UNION {[1 .. k -> S] : k \in 0 .. n} :
        /\ \A a, b \in DOMAIN ord : a < b => ord[a] < ord[b]
        /\ \A i \in S : \E a \in DOMAIN ord : ord[a] = i}

Matured(d, now) == {i \in Delayed : d.delayed[i] # None /\ d.delayed[i].due <= now}

\* Wrong on purpose: the used flag of a matured slot is not cleared.
PumpDelayed_SlotKept(d, now) ==
    {[d EXCEPT !.pending = @ \o [k \in DOMAIN ord |-> d.delayed[ord[k]]]] :
        ord \in Ascending(Matured(d, now), PendingN - 1 - Len(d.pending))}

\* Matured records enter the FIFO in the order of their slots; those that
\* find it full are dropped, and their slots are freed all the same.
PumpDelayed(d, now) ==
    LET room == PendingN - 1 - Len(d.pending)
        entered(ord) == [k \in {k \in DOMAIN ord : k <= room} |->
                            [d.delayed[ord[k]] EXCEPT !.enq = now, !.due = now]]
    IN  {[d EXCEPT !.pending = @ \o entered(ord),
                   !.delayed = [i \in Delayed |-> IF i \in Matured(d, now) THEN None ELSE @[i]],
                   !.lost = @ \cup {d.delayed[ord[k]].id : k \in {k \in DOMAIN ord : k > room}}] :
            ord \in Ascending(Matured(d, now), DelayedN)}

Stale(rec, now) == now - rec.enq > Ttl

\* The stale records at the head of the FIFO go, up to the first fresh one.
ExpireStale(d, now) ==
    {[d EXCEPT !.pending = SubSeq(@, k + 1, Len(@)),
               !.lost = @ \cup {d.pending[i].id : i \in 1 .. k}] :
        k \in {k \in 0 .. Len(d.pending) :
                  /\ \A i \in 1 .. k : Stale(d.pending[i], now)
                  /\ k < Len(d.pending) => ~Stale(d.pending[k + 1], now)}}

\* Wrong on purpose: FIQ0 is not raised.
Written_NoFiq(d, now, words) ==
    [d EXCEPT !.ring = Deposit(@, d.producer, words),
              !.producer = Forward(@, Len(words)),
              !.written = @ \o words,
              !.hbNext = now + KaCyc]

\* Words written at the producer's cursor; only the producer moves, FIQ0 is
\* raised and the heartbeat is put off.
Written(d, now, words) ==
    [d EXCEPT !.ring = Deposit(@, d.producer, words),
              !.producer = Forward(@, Len(words)),
              !.written = @ \o words,
              !.fiq0 = TRUE,
              !.hbNext = now + KaCyc]

\* One record goes from the FIFO's head to the ring, if the ring has room.
Post(d, c, now) ==
    IF d.pending # <<>> /\ Fits(d.producer, c, RecWords(Head(d.pending).len))
    THEN LET rec == Head(d.pending)
         IN  [Written(d, now, WordsOf(rec.id, RecWords(rec.len)))
                EXCEPT !.pending = Tail(@),
                       !.posted = Append(@, [id |-> rec.id, wait |-> now - rec.enq])]
    ELSE d

\* A retune to a dedicated channel: idle BCCH/CCCH blocks are not receivable
\* any more, and leave both queues.
DropIdleRadio(d) ==
    LET kept(ord) == [k \in DOMAIN ord |-> d.pending[ord[k]]]
    IN  {[d EXCEPT !.pending = kept(ord),
                   !.delayed = [i \in Delayed |-> IF @[i] # None /\ @[i].radio THEN None ELSE @[i]],
                   !.lost = @ \cup {d.pending[i].id : i \in {i \in DOMAIN d.pending : d.pending[i].radio}}
                              \cup {d.delayed[i].id : i \in {i \in Delayed : d.delayed[i] # None /\ d.delayed[i].radio}}] :
            ord \in Ascending({i \in DOMAIN d.pending : ~d.pending[i].radio}, Len(d.pending))}

\* Wrong on purpose: one cycle late.
Heartbeat_OneLate(d, c, now) ==
    IF ~(running /\ answered) THEN [d EXCEPT !.hbNext = 0]
    ELSE IF d.hbNext = 0 THEN [d EXCEPT !.hbNext = now + KaCyc]
    ELSE IF now <= d.hbNext \/ d.pending # <<>> \/ d.producer # c THEN d
    ELSE Written(d, now, <<[id |-> Beat, part |-> 1, words |-> RecWords(BeatLen)]>>)

\* The idle telemetry: one bare word, only into an empty ring, only when the
\* queue is empty and the link has been silent for KaCyc.
Heartbeat(d, c, now) ==
    IF ~(running /\ answered) THEN [d EXCEPT !.hbNext = 0]
    ELSE IF d.hbNext = 0 THEN [d EXCEPT !.hbNext = now + KaCyc]
    ELSE IF now < d.hbNext \/ d.pending # <<>> \/ d.producer # c THEN d
    ELSE Written(d, now, <<[id |-> Beat, part |-> 1, words |-> RecWords(BeatLen)]>>)

\* Wrong on purpose: the expiry of the FIFO's head is no deadline.
WakeDue_NoExpiry(d, now) ==
    \/ d.hbNext # 0 /\ d.hbNext <= now
    \/ \E i \in Delayed : d.delayed[i] # None /\ d.delayed[i].due <= now

\* Wrong on purpose: the delayed slots are no deadline.
WakeDue_NoDelayed(d, now) ==
    \/ d.hbNext # 0 /\ d.hbNext <= now
    \/ d.pending # <<>> /\ Head(d.pending).enq + Ttl <= now

\* The part of next_wake that speaks of the queues and the heartbeat.
WakeDue(d, now) ==
    \/ d.hbNext # 0 /\ d.hbNext <= now
    \/ \E i \in Delayed : d.delayed[i] # None /\ d.delayed[i].due <= now
    \/ d.pending # <<>> /\ Head(d.pending).enq + Ttl <= now

-----------------------------------------------------------------------------
(* The engine's handlers. *)

NewRec(kind, n) == [id |-> asked + n, len |-> kind.len, radio |-> kind.radio,
                    enq |-> 0, due |-> 0]

Ask(d, now, kind, n) ==
    IF kind.delay = 0 THEN Enqueue(d, now, NewRec(kind, n))
    ELSE EnqueueAt(d, now, now + kind.delay, NewRec(kind, n))

AskAll(d, now, batch) ==
    CASE Len(batch) = 0 -> d
      [] Len(batch) = 1 -> Ask(d, now, batch[1], 1)
      [] OTHER          -> Ask(Ask(d, now, batch[1], 1), now, batch[2], 2)

Batches(now) ==
    {batch \in UNION {[1 .. n -> Kinds] : n \in 0 .. 2} :
        /\ Len(batch) <= MaxBatch
        /\ asked + Len(batch) <= MaxRec
        /\ \A i \in DOMAIN batch : now + batch[i].delay <= MaxTime}

\* advance_to: due work of the radio, the queues' upkeep, one pump.
AdvanceTo(d, now, batch) ==
    {Post(AskAll(d2, now, batch), consumer, now) :
        d2 \in UNION {PumpDelayed(d1, now) : d1 \in ExpireStale(d, now)}}

\* The engine's share of mad2_tick.  advance_to runs when a deadline is due,
\* one of the queues' or, with a batch, one of the radio's.  The heartbeat and
\* the self-test responder run each time; the responder asks for one reply.
Tick ==
    /\ \E now \in clock .. clock + MaxStep : now <= MaxTime /\ clock' = now
    /\ \E radio, reply \in {b \in Batches(clock') : Len(b) <= 1} :
         /\ Len(radio) + Len(reply) <= 1
         /\ \A i \in DOMAIN reply : reply[i].delay = 0 /\ ~reply[i].radio
         /\ asked' = asked + Len(radio) + Len(reply)
         /\ answered' \in IF reply = <<>> THEN {answered} ELSE {answered, TRUE}
         /\ \E d1 \in IF WakeDue(dsp, clock') \/ radio # <<>>
                      THEN AdvanceTo(dsp, clock', radio) ELSE {dsp} :
              LET d2 == Heartbeat(d1, consumer, clock')
              IN  dsp' = IF reply = <<>> THEN d2
                         ELSE Post(AskAll(d2, clock', reply), consumer, clock')
    /\ running' \in {running, TRUE}
    /\ UNCHANGED <<consumer, mcu, heard>>

\* The firmware sends a command (the MDISND cursor is written): the engine
\* asks for its answers, after a retune without the idle backlog, and pumps.
M2d ==
    \E batch \in Batches(clock), retune \in BOOLEAN :
      \E d1 \in IF retune THEN DropIdleRadio(dsp) ELSE {dsp} :
        /\ asked' = asked + Len(batch)
        /\ dsp' = Post(AskAll(d1, clock, batch), consumer, clock)
        /\ UNCHANGED <<clock, consumer, running, answered, mcu, heard>>

\* DSPIF bit 2: short commands are answered, then one pump.
HostInterrupt ==
    /\ running
    /\ \E batch \in Batches(clock) :
         /\ \A i \in DOMAIN batch : batch[i].delay = 0 /\ ~batch[i].radio
         /\ asked' = asked + Len(batch)
         /\ dsp' = Post(AskAll(dsp, clock, batch), consumer, clock)
    /\ UNCHANGED <<clock, consumer, running, answered, mcu, heard>>

\* The MCU puts the DSP in reset; queues and ring are left as they are.
DspReset ==
    /\ running /\ running' = FALSE
    /\ UNCHANGED <<clock, dsp, consumer, answered, mcu, asked, heard>>

-----------------------------------------------------------------------------
(* The firmware's drain (not under src/): the FIQ0 handler acknowledges the *)
(* line, reads records halfword by halfword until the cursors meet, and     *)
(* commits its cursor at record boundaries.                                 *)

TakeFiq0 ==
    /\ dsp.fiq0 /\ ~mcu.on
    /\ dsp' = [dsp EXCEPT !.fiq0 = FALSE]
    /\ mcu' = [on |-> TRUE, at |-> consumer, left |-> 0]
    /\ UNCHANGED <<clock, consumer, running, answered, asked, heard>>

ReadWord ==
    /\ mcu.on
    /\ mcu.left > 0 \/ mcu.at # dsp.producer
    /\ LET word == dsp.ring[mcu.at]
       IN  /\ heard' = Append(heard, word)
           /\ mcu' = [mcu EXCEPT !.at = Forward(@, 1),
                                 !.left = IF @ = 0 THEN word.words - 1 ELSE @ - 1]
    /\ UNCHANGED <<clock, dsp, consumer, running, answered, asked>>

\* Wrong on purpose: the cursor is stored and nothing else.
McuCommit_NoPump ==
    /\ mcu.on /\ mcu.left = 0 /\ mcu.at # consumer
    /\ consumer' = mcu.at
    /\ UNCHANGED <<clock, dsp, running, answered, mcu, asked, heard>>

\* The write of mdircv_head: the cursor is stored, then the engine pumps.
McuCommit ==
    /\ mcu.on /\ mcu.left = 0 /\ mcu.at # consumer
    /\ consumer' = mcu.at
    /\ dsp' = Post(dsp, consumer', clock)
    /\ UNCHANGED <<clock, running, answered, mcu, asked, heard>>

DrainDone ==
    /\ mcu.on /\ mcu.left = 0 /\ mcu.at = consumer /\ consumer = dsp.producer
    /\ mcu' = [mcu EXCEPT !.on = FALSE]
    /\ UNCHANGED <<clock, dsp, consumer, running, answered, asked, heard>>

-----------------------------------------------------------------------------
Next == Tick \/ M2d \/ HostInterrupt \/ DspReset
          \/ TakeFiq0 \/ ReadWord \/ McuCommit \/ DrainDone

\* The emulator's run loop never stops ticking, and the firmware's interrupt
\* handler runs to its end.
Fairness ==
    /\ WF_vars(clock' \in clock + 1 .. MaxTime /\ Tick)
    /\ WF_vars(TakeFiq0) /\ WF_vars(ReadWord) /\ WF_vars(McuCommit) /\ WF_vars(DrainDone)

Spec == Init /\ [][Next]_vars /\ Fairness

-----------------------------------------------------------------------------
(* Properties. *)

TypeOK ==
    /\ clock \in Nat
    /\ dsp \in DspState
    /\ consumer \in Index
    /\ running \in BOOLEAN /\ answered \in BOOLEAN
    /\ mcu \in [on : BOOLEAN, at : Index, left : Nat]
    /\ asked \in 0 .. MaxRec
    /\ heard \in Seq(Word)

\* The ring neither loses, nor repeats, nor overwrites a word, whatever the
\* interleaving of posts, reads and commits: what the firmware has read and
\* what it still has to read are the words written, in their order
\* (mdi_d2m_append against the drain, through the wrap).
Intact == heard \o Window(dsp.ring, dsp.producer, mcu.at) = dsp.written

\* A record waits in the FIFO only while the ring holds something unread: the
\* commit that empties the ring pumps.  next_wake has no deadline for "queued,
\* and the ring has room", so a record stranded here would wait until it is
\* dropped.
NoStrandedRecord == dsp.pending # <<>> => dsp.producer # consumer

\* While the ring holds something uncommitted, the drain runs or FIQ0 is
\* pending: the acknowledge never swallows the wake-up of a later post.
WakeupNotLost == dsp.producer # consumer => dsp.fiq0 \/ mcu.on

\* The drain is never inside a record whose rest has not been written, so it
\* never runs past the producer's cursor.
ReadsOnlyWritten == mcu.left <= Avail(dsp.producer, mcu.at)

\* No record is posted that has waited in the FIFO longer than the Ttl, though
\* only the head is looked at and only when a deadline wakes advance_to.
FreshPosts == \A i \in DOMAIN dsp.posted : dsp.posted[i].wait <= Ttl

\* The fates a record asked for can have, each exactly one of them.
InDelayed(id) == \E i \in Delayed : dsp.delayed[i].id = id
InPending(id) == \E i \in DOMAIN dsp.pending : dsp.pending[i].id = id
Posted(id)    == \E i \in DOMAIN dsp.posted : dsp.posted[i].id = id

\* Every record asked for is delayed, pending, posted or lost, and only one of
\* these: no queue operation forgets a record or leaves a second copy.
OneFate ==
    \A id \in Ids :
        IF id <= asked
        THEN \E fate \in 1 .. 4 :
                /\ InDelayed(id) <=> fate = 1
                /\ InPending(id) <=> fate = 2
                /\ Posted(id)    <=> fate = 3
                /\ id \in dsp.lost <=> fate = 4
        ELSE ~(InDelayed(id) \/ InPending(id) \/ Posted(id) \/ id \in dsp.lost)

\* A DSP that is up is never silent for longer than KaCyc: after a tick the
\* next heartbeat lies ahead or the firmware has something to read.
NeverSilent ==
    [][clock' > clock /\ running /\ answered
         => dsp'.hbNext > clock' \/ dsp'.producer # consumer']_vars

\* How many records the firmware has read to their last word.
Ends(words) == {k \in DOMAIN words : words[k].id # Beat /\ words[k].part = words[k].words}

HeardRecords == Cardinality(Ends(heard))

Link == INSTANCE MdiLink WITH
            lost   <- dsp.lost,
            posted <- [i \in DOMAIN dsp.posted |-> dsp.posted[i].id],
            heard  <- HeardRecords

\* The egress is the lossy link of MdiLink: in order, at most once, and every
\* record asked for is eventually read or dropped.
LinkSpec == Link!Spec
=============================================================================
