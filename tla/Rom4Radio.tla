----------------------------- MODULE Rom4Radio -----------------------------
(***************************************************************************)
(* The radio peer of the ROM 4 engine, mad2/dsp/dsp_rom4.c: the laboratory *)
(* cell that a phone searches, measures, camps on and registers with, and  *)
(* the responder of the start-up's security conversation.                  *)
(*                                                                         *)
(* A request of the firmware starts a transaction, which is a phase and a  *)
(* number of reports to come.  The reports are emitted one at a time, each *)
(* at least a TDMA frame after the one before, so the firmware can act     *)
(* between any two; that a deadline has passed is a free choice.  What a   *)
(* report is follows from phase and number alone.  Reports leave through   *)
(* the queue and the ring of MdiEgress, here sequences of records.         *)
(*                                                                         *)
(* The firmware is external.  It has one request under way and judges by   *)
(* what it heard when nothing more is to come (its timers are seconds, a   *)
(* transaction takes some frames); a camped phone may deactivate its       *)
(* receiver at any time.                                                   *)
(*                                                                         *)
(* Operators marked "Wrong on purpose" are variants with a plausible       *)
(* mistake and not part of the model, see MdiRing.                         *)
(***************************************************************************)
EXTENDS Integers, Sequences, SequencesExt

CONSTANTS
    QueueN,         \* records the FIFO holds (47)
    RingN,          \* records the ring holds, from one long to many short ones
    ServingN,       \* reports of a round of the serving cell's broadcast (8)
    SelectedN,      \* reports of the scan of a selected cell (16)
    MeasureN,       \* measurements before a candidate is reported (3)
    RoundMod,       \* the counter of measurements is a byte (256)
    Frames,         \* TDMA frame numbers (0 .. 2715647)
    Ras,            \* random-access octets
    Settings,       \* see below
    LossMax,        \* bound: records that expire in the queue
    RejectMax       \* bound: candidates the firmware rejects

\* mode, arfcn1: what the phone's SEARCH_LIST says;
\* access:       the phone registers, too;
\* asks:         the security requests of its start-up;
\* lossy:        the firmware may leave records in the queue until they expire.
ASSUME Rom4Assumption ==
    /\ {QueueN, RingN, MeasureN, RoundMod} \subseteq Nat \ {0}
    /\ ServingN \in {2 * k : k \in 1 .. 128} /\ SelectedN \in {2 * k : k \in 1 .. 128}
    /\ MeasureN < RoundMod /\ 0 \notin Ras /\ Frames # {}
    /\ {LossMax, RejectMax} \subseteq Nat
    /\ \A s \in Settings :
          /\ s.mode \in {"0x00", "0x40", "0x50"} /\ s.arfcn1 \in BOOLEAN
          /\ s.access \in BOOLEAN /\ s.lossy \in BOOLEAN
          /\ s.asks \subseteq {"0x13", "0x16", "0x17", "0x0D", "0x0A"}
          /\ s.lossy => ~s.access /\ s.asks = {}  \* see RandomAccess and Respond

VARIABLES
    env,            \* the setting
    radio,          \* the peer's transaction
    egress,         \* queue and ring
    sec,            \* siml_want, dsp_st_req and dsp_selftest_replied
    fw              \* the phone

vars == <<env, radio, egress, sec, fw>>

Before == {"inactive", "initial_search", "post_deactivate_search"}
Search == {"candidate_measurement", "candidate_sync"}
Dedicated == {"contention_resolution", "location_update_accept", "rr_channel_release"}
Phases == Before \cup Search \cup Dedicated \cup
    {"candidate_channel_change", "candidate_ra_info", "serving_bcch", "serving_idle_ra",
     "candidate_retry", "selected_search", "serving_channel_change",
     "selected_channel_change", "selected_bcch", "selected_ra_info",
     "selected_bcch_channel_change", "random_access", "assigned_channel_change",
     "lapdm_establish", "release_deconfigure", "release_channel_change"}

-----------------------------------------------------------------------------
(* What a phase reports. *)

\* Wrong on purpose: the serving cell is verified by the mode of the search alone.
StillThere_ByMode(r) == (r.mode = "0x00" /\ r.arfcn1) \/ r.mode \in {"0x40", "0x50"}

\* A search finds the cell if it was made while camped on it, or asks for it.
StillThere(r) ==
    r.serving \/ (r.mode = "0x00" /\ r.arfcn1) \/ r.mode \in {"0x40", "0x50"}

Even(n) == n % 2 = 0

NextReportType(r) ==
    CASE r.phase \in Before \cup {"release_deconfigure"} -> "0x87"
      [] r.phase = "candidate_measurement" -> "0x8b"
      [] r.phase = "candidate_sync" -> IF r.remaining = 2 THEN "0x8b" ELSE "0x80"
      [] r.phase = "candidate_retry" -> IF r.remaining = 2 THEN "0x8b" ELSE "0x87"
      [] r.phase = "candidate_channel_change" -> IF r.remaining = 2 THEN "0x8f" ELSE "0x89"
      [] r.phase = "selected_search" ->
            IF r.remaining = 2 THEN "0x8b" ELSE IF StillThere(r) THEN "0x80" ELSE "0x87"
      [] r.phase = "serving_bcch" -> IF Even(r.remaining) THEN "0x80" ELSE "0x83"
      [] r.phase = "selected_bcch" ->
            IF r.remaining = 1 THEN "0x87" ELSE IF Even(r.remaining) THEN "0x83" ELSE "0x80"
      [] r.phase \in {"candidate_ra_info", "selected_ra_info"} -> "0x84"
      [] r.phase = "serving_idle_ra" -> "0x8c"
      [] r.phase \in {"serving_channel_change", "selected_channel_change",
                      "selected_bcch_channel_change", "assigned_channel_change",
                      "release_channel_change"} -> "0x89"
      [] r.phase = "random_access" ->
            IF r.remaining = 3 THEN "0x8c" ELSE IF r.remaining = 2 THEN "0x84" ELSE "0x80"
      [] r.phase = "lapdm_establish" -> "0x86"
      [] r.phase \in Dedicated -> "0x80"

\* The logical channel of a block.
Channel(phase) ==
    CASE phase \in Dedicated -> "sdcch"
      [] phase = "random_access" -> "ccch"
      [] phase \in Before \cup Search \cup {"selected_search"} -> "sch"
      [] OTHER -> "bcch"

\* The next phase of a transaction, and a transaction that the firmware began.
Go(r, phase, n) == [r EXCEPT !.phase = phase, !.remaining = n]
Begin(r, phase, n) == [Go(r, phase, n) EXCEPT !.fresh = TRUE]

\* Broadcast answers nobody.
Serve(r) == [Go(r, "serving_bcch", ServingN) EXCEPT !.fresh = FALSE]

\* What follows a report; r has one report less to come already.
AdvanceAfterReport(r, op) ==
    CASE r.phase = "candidate_channel_change" /\ op = "0x89" -> Go(r, "candidate_ra_info", 1)
      [] r.phase = "selected_channel_change" -> Go(r, "selected_ra_info", 1)
      [] r.phase = "selected_ra_info" ->
            [Go(r, "selected_bcch", SelectedN) EXCEPT !.fresh = FALSE]
      [] r.phase = "serving_bcch" /\ op = "0x83" /\ r.remaining = 0 -> Serve(r)
      [] \/ r.phase \in {"candidate_ra_info", "serving_idle_ra", "serving_channel_change",
                         "release_channel_change"}
         \/ r.phase \in {"selected_search", "selected_bcch"} /\ op = "0x87" -> Serve(r)
      [] r.phase = "selected_bcch_channel_change" -> [Serve(r) EXCEPT !.suspended = 0]
      [] r.phase = "assigned_channel_change" -> Go(r, "lapdm_establish", 1)
      [] r.phase = "contention_resolution" -> Go(r, "location_update_accept", 1)
      [] r.phase = "location_update_accept" -> Go(r, "rr_channel_release", 1)
      [] r.phase = "rr_channel_release" -> Go(r, "release_deconfigure", 0)
      [] OTHER -> r

-----------------------------------------------------------------------------
(* Queue and ring. *)

\* A record knows, as history, its phase and whether it answers the firmware's
\* latest request.
Rec(op, r) == [op |-> op, of |-> r.phase, fresh |-> r.fresh, ra |-> 0, fn |-> 0]

Enqueue(e, rec) ==
    IF Len(e.queue) < QueueN THEN [e EXCEPT !.queue = Append(@, rec)] ELSE e

\* At most one record at a time, if the ring has room.
Post(e) ==
    IF e.queue # <<>> /\ Len(e.ring) < RingN
    THEN [e EXCEPT !.queue = Tail(@), !.ring = Append(@, Head(e.queue))]
    ELSE e

\* What is left of a queue, in its order, if only some records stay (one value).
Kept(queue, ops) ==
    LET at == {i \in DOMAIN queue : queue[i].op \in ops}
    IN  {[k \in DOMAIN ord |-> queue[ord[k]]] :
            ord \in {o \in UNION {[1 .. n -> at] : n \in 0 .. Len(queue)} :
                       /\ \A k, l \in DOMAIN o : k < l => o[k] < o[l]
                       /\ at \subseteq Range(o)}}

\* Wrong on purpose: the reports of a search are not taken for radio work.
DropRadioBacklog_KeepsSearch(e) ==
    {[e EXCEPT !.queue = q] : q \in Kept(e.queue, {"0x74", "0x87", "0x8b"})}

\* Wrong on purpose: the whole queue is taken for radio work.
DropRadioBacklog_All(e) == {[e EXCEPT !.queue = <<>>]}

\* Only the answers of the security conversation are not radio work.
DropRadioBacklog(e) == {[e EXCEPT !.queue = q] : q \in Kept(e.queue, {"0x74"})}

ExpireStale(e) == [e EXCEPT !.queue = Tail(@), !.lost = @ + 1]

-----------------------------------------------------------------------------
(* One report. *)

\* RA_INFO tells the frame of the access burst, the Immediate Assignment repeats
\* octet and frame.
Payload(r, op, now) ==
    IF r.phase = "random_access" /\ op \in {"0x80", "0x84"}
    THEN [Rec(op, r) EXCEPT !.ra = r.ra, !.fn = IF op = "0x84" THEN now ELSE r.accessFrame]
    ELSE Rec(op, r)

Counted(r, op, now) ==
    [r EXCEPT !.round = IF op = "0x8b" /\ r.phase \notin Before
                        THEN (@ + 1) % RoundMod ELSE @,
              !.accessFrame = IF op = "0x84" /\ r.phase = "random_access" THEN now ELSE @,
              !.remaining = @ - 1]

Due(r) == r.phase # "inactive" /\ r.remaining # 0

EmitReport(r, e, now) ==
    LET op == NextReportType(r)
    IN  [r |-> AdvanceAfterReport(Counted(r, op, now), op),
         e |-> Post(Enqueue(e, Payload(r, op, now)))]

-----------------------------------------------------------------------------
(* The requests of the firmware. *)

SearchList(s, mode, arfcn1) ==
    LET r == [s EXCEPT !.mode = mode, !.arfcn1 = arfcn1]
        idle == r.remaining = 0
    IN  CASE r.phase = "inactive" /\ idle -> Begin(r, "initial_search", 2)
          [] r.phase = "initial_search" /\ idle -> Begin(r, "post_deactivate_search", 2)
          [] r.phase \in {"post_deactivate_search", "candidate_retry"} /\ idle ->
                Begin(r, "candidate_measurement", 1)
          [] r.phase = "candidate_measurement" /\ idle ->
                IF r.round >= MeasureN THEN Begin(r, "candidate_sync", 2)
                ELSE Begin(r, "candidate_measurement", 1)
          [] r.phase = "candidate_sync" /\ idle -> Begin(r, "candidate_retry", 2)
          [] r.phase = "serving_bcch" ->
                [Begin(r, "selected_search", 2) EXCEPT !.serving = TRUE]
          [] r.phase = "selected_search" /\ idle ->
                [Begin(r, "selected_search", 2) EXCEPT !.serving = FALSE]
          [] OTHER -> r

ChannelConfigure(r, channel) ==
    CASE r.phase = "candidate_sync" /\ r.remaining = 0 ->
            Begin(r, "candidate_channel_change", 2)
      [] r.phase = "selected_search" /\ r.remaining = 0 ->
            IF r.mode = "0x50" THEN Begin(r, "selected_channel_change", 1)
            ELSE Begin(r, "candidate_channel_change", 2)
      [] r.phase = "serving_bcch" /\ channel = "0x60" -> Begin(r, "serving_channel_change", 1)
      [] r.phase = "selected_bcch" /\ channel = "0x60" ->
            [Begin(r, "selected_bcch_channel_change", 1) EXCEPT !.suspended = r.remaining]
      [] r.phase = "random_access" /\ channel = "0x80" -> Begin(r, "assigned_channel_change", 1)
      [] r.phase = "release_deconfigure" /\ channel = "off" ->
            Begin(r, "release_channel_change", 1)
      [] OTHER -> r

\* Without an octet the receiver is configured only.  An access is the firmware's
\* from here on: of its phases none takes anything but the request that comes next.
IdleRa(r, ra) ==
    IF r.phase # "serving_bcch" THEN r
    ELSE [(IF ra # 0 THEN Begin(r, "random_access", 3) ELSE Begin(r, "serving_idle_ra", 1))
            EXCEPT !.ra = ra, !.accessFrame = 0]

\* The SABM with the location updating request.
SendBlock(r) ==
    IF r.phase = "lapdm_establish" THEN Begin(r, "contention_resolution", 1) ELSE r

\* The receiver is retired and what it had to say cancelled.
Deactivate(r, e) ==
    IF r.phase = "initial_search" /\ r.remaining = 0
    THEN {[r |-> Begin(r, "post_deactivate_search", 2), e |-> e]}
    ELSE IF r.phase \in {"serving_bcch", "selected_search"}
    THEN {[r |-> [r EXCEPT !.serving = FALSE, !.remaining = 0], e |-> d] :
              d \in DropRadioBacklog(e)}
    ELSE {[r |-> r, e |-> e]}

-----------------------------------------------------------------------------
(* The responder of the security conversation. *)

\* A self-test is answered once in the life of the engine.
WantsTest == sec.test /\ ~sec.replied

Answer(sub) ==
    IF sub = "0x0D" THEN [sec EXCEPT !.test = FALSE, !.replied = TRUE]
    ELSE [sec EXCEPT !.want = @ \ {sub}]

\* One answer a tick, the lock's records before the self-test and its version last.
First ==
    CASE "0x13" \in sec.want -> "0x13"
      [] "0x13" \notin sec.want /\ "0x16" \in sec.want -> "0x16"
      [] sec.want \cap {"0x13", "0x16"} = {} /\ "0x17" \in sec.want -> "0x17"
      [] sec.want \subseteq {"0x0A"} /\ WantsTest -> "0x0D"
      [] OTHER -> "0x0A"

Security(sub) == [op |-> "0x74", of |-> sub, fresh |-> FALSE, ra |-> 0, fn |-> 0]

\* A record that the full queue drops is not answered again.
Respond(e) ==
    IF sec.want # {} \/ WantsTest
    THEN [e |-> Post(Enqueue(e, Security(First))), sec |-> Answer(First)]
    ELSE [e |-> e, sec |-> sec]

-----------------------------------------------------------------------------
(* Ticks of the engine, and what it does when the firmware strobes it. *)

NoRadio == [phase |-> "inactive", remaining |-> 0, mode |-> "0x00", arfcn1 |-> FALSE,
            round |-> 0, serving |-> FALSE, suspended |-> 0, ra |-> 0, accessFrame |-> 0,
            fresh |-> FALSE]

Init ==
    /\ env \in Settings
    /\ radio = NoRadio
    /\ egress = [queue |-> <<>>, ring |-> <<>>, lost |-> 0]
    /\ sec = [want |-> {}, test |-> FALSE, replied |-> FALSE]
    /\ fw = [st |-> "off", heard |-> {}, ra |-> 0, info |-> <<0, 0>>, rejects |-> 0,
             asked |-> {}, answered |-> {}]

\* A deadline of the report in turn, and the lifetime of the record at the head of
\* the queue, may be over; then the responder has its turn.  The firmware drains its
\* ring before the queue is full.
Tick(due, stale, now) ==
    /\ stale => env.lossy /\ egress.queue # <<>> /\ egress.lost < LossMax
    /\ Len(egress.queue) + 2 <= QueueN
    /\ LET e == IF stale THEN ExpireStale(egress) ELSE egress
           out == IF due /\ Due(radio) THEN EmitReport(radio, e, now) ELSE [r |-> radio, e |-> e]
           ans == Respond(IF due \/ stale THEN Post(out.e) ELSE out.e)
       IN  radio' = out.r /\ egress' = ans.e /\ sec' = ans.sec
    /\ UNCHANGED <<env, fw>>

HostInterrupt ==
    /\ egress' = Post(egress)
    /\ UNCHANGED <<env, radio, sec, fw>>

-----------------------------------------------------------------------------
(* The firmware. *)

\* What a report is to the firmware.  It takes the assignment that matches its
\* own access burst only.
Means(rec) ==
    CASE rec.op # "0x80" -> rec.op
      [] rec.op = "0x80" /\ Channel(rec.of) = "ccch" ->
            IF fw.info = <<rec.ra, rec.fn>> /\ rec.ra = fw.ra THEN "ccch" ELSE "other"
      [] OTHER -> Channel(rec.of)

\* Not taken for an answer: broadcast, and anything while no request is under way.
Ignored(rec) ==
    Means(rec) \in {"bcch", "other", "0x83"} \/ fw.st \in {"off", "camped", "retired"}

\* A record is taken from the ring and the cursor committed.
Hear ==
    /\ egress.ring # <<>>
    /\ LET rec == Head(egress.ring)
       IN  fw' = IF rec.op = "0x74" THEN [fw EXCEPT !.answered = @ \cup {rec.of}]
                 ELSE IF Ignored(rec) THEN fw
                 ELSE [fw EXCEPT !.heard = @ \cup {Means(rec)},
                                 !.info = IF rec.op = "0x84" THEN <<rec.ra, rec.fn>> ELSE @]
    /\ egress' = Post([egress EXCEPT !.ring = Tail(@)])
    /\ UNCHANGED <<env, radio, sec>>

\* No answer is under way or still to come.
Settled ==
    /\ ~(radio.fresh /\ radio.remaining > 0)
    /\ \A rec \in Range(egress.queue) \cup Range(egress.ring) : ~rec.fresh

\* A request is written: what is on its way from now on answers an older one.
Aged(recs) == [i \in DOMAIN recs |-> [recs[i] EXCEPT !.fresh = FALSE]]
Old == [egress EXCEPT !.queue = Aged(@), !.ring = Aged(@)]
Unasked == [radio EXCEPT !.fresh = FALSE]

Request(r, e, st) ==
    /\ radio' = r /\ egress' = Post(e)
    /\ fw' = [fw EXCEPT !.st = st, !.heard = {}, !.info = <<0, 0>>]
    /\ UNCHANGED <<env, sec>>

Goes(st) ==
    /\ fw' = [fw EXCEPT !.st = st, !.heard = {}, !.info = <<0, 0>>, !.ra = 0]
    /\ UNCHANGED <<env, radio, egress, sec>>

AskSearch(st) == Request(SearchList(Unasked, env.mode, env.arfcn1), Old, st)

\* A phone without a cell searches until a search brings a synchronisation block.
Seek ==
    /\ \/ fw.st = "off"
       \/ fw.st \in {"search", "retired"} /\ Settled /\ "sch" \notin fw.heard
       \/ fw.st = "config" /\ Settled /\ "0x89" \notin fw.heard
    /\ AskSearch("search")

Reject ==
    /\ fw.st = "search" /\ Settled /\ "sch" \in fw.heard /\ fw.rejects < RejectMax
    /\ radio' = SearchList(Unasked, env.mode, env.arfcn1) /\ egress' = Post(Old)
    /\ fw' = [fw EXCEPT !.heard = {}, !.rejects = @ + 1]
    /\ UNCHANGED <<env, sec>>

Select ==
    /\ fw.st \in {"search", "verify"} /\ Settled /\ "sch" \in fw.heard
    /\ Request(ChannelConfigure(Unasked, "bcch"), Old, "config")

\* Its receiver is given up: because nothing was found, because the cell is gone,
\* or because the phone wants to.
Retire ==
    /\ \/ fw.st = "search" /\ Settled /\ fw.heard = {"0x87"}
       \/ fw.st = "verify" /\ Settled /\ "0x87" \in fw.heard
       \/ fw.st \in {"camped", "verify"}
    /\ \E d \in Deactivate(Unasked, Old) : Request(d.r, d.e, "retired")

Camp ==
    /\ \/ fw.st = "config" /\ Settled /\ "0x89" \in fw.heard
       \/ fw.st \in {"receiver", "channel"} /\ Settled
       \/ fw.st = "release" /\ Settled /\ "0x89" \in fw.heard
    /\ Goes("camped")

\* A camped phone configures its receiver, or looks whether the cell is still there,
\* and again when it does not hear.
Receiver == fw.st = "camped" /\ Request(IdleRa(Unasked, 0), Old, "receiver")
ServingChannel == fw.st = "camped" /\ Request(ChannelConfigure(Unasked, "0x60"), Old, "channel")
Unheard == fw.st = "verify" /\ Settled /\ fw.heard \cap {"sch", "0x87"} = {}
Verify == (fw.st = "camped" \/ Unheard) /\ AskSearch("verify")

\* Or it registers, one step after the other, and begins again when it hears nothing.
RandomAccess ==
    /\ env.access
    /\ fw.st = "camped" \/ (fw.st = "access" /\ Settled /\ "ccch" \notin fw.heard)
    /\ \E ra \in Ras :
         /\ radio' = IdleRa(Unasked, ra) /\ egress' = Post(Old)
         /\ fw' = [fw EXCEPT !.st = "access", !.heard = {}, !.info = <<0, 0>>, !.ra = ra]
    /\ UNCHANGED <<env, sec>>

Assigned ==
    /\ fw.st = "access" /\ Settled /\ "ccch" \in fw.heard
    /\ Request(ChannelConfigure(Unasked, "0x80"), Old, "assigned")

Establish ==
    /\ fw.st = "assigned" /\ Settled /\ "0x86" \in fw.heard
    /\ Request(SendBlock(Unasked), Old, "update")

Release ==
    /\ fw.st = "update" /\ Settled /\ "sdcch" \in fw.heard
    /\ Request(ChannelConfigure(Unasked, "off"), Old, "release")

\* m2d 0x70: the security requests of the start-up, each once.
AskSecurity(sub) ==
    /\ sub \in env.asks \ fw.asked
    /\ sec' = IF sub = "0x0D" THEN [sec EXCEPT !.test = TRUE] ELSE [sec EXCEPT !.want = @ \cup {sub}]
    /\ egress' = Post(egress)
    /\ fw' = [fw EXCEPT !.asked = @ \cup {sub}]
    /\ UNCHANGED <<env, radio>>

-----------------------------------------------------------------------------
Subs == {"0x13", "0x16", "0x17", "0x0D", "0x0A"}

\* What the firmware goes on to do by itself.
Proceed == Seek \/ Select \/ Camp \/ Assigned \/ Establish \/ Release
           \/ (fw.st # "camped" /\ (RandomAccess \/ Verify))
           \/ (fw.st = "verify" /\ Settled /\ Retire)

Next ==
    \/ \E due, stale \in BOOLEAN, now \in Frames : Tick(due, stale, now)
    \/ HostInterrupt \/ Hear
    \/ Seek \/ Reject \/ Select \/ Retire \/ Camp
    \/ Receiver \/ ServingChannel \/ Verify
    \/ RandomAccess \/ Assigned \/ Establish \/ Release
    \/ \E sub \in Subs : AskSecurity(sub)

\* Deadlines come, the firmware drains its ring, and it goes on with what it began.
Fairness == WF_vars(\E now \in Frames : Tick(TRUE, FALSE, now)) /\ WF_vars(Hear) /\ WF_vars(Proceed)

Spec == Init /\ [][Next]_vars /\ Fairness

-----------------------------------------------------------------------------
(* Properties. *)

TypeOK ==
    /\ radio.phase \in Phases /\ radio.remaining \in 0 .. ServingN + SelectedN
    /\ radio.round \in 0 .. RoundMod - 1 /\ radio.suspended \in 0 .. SelectedN
    /\ Len(egress.queue) <= QueueN /\ Len(egress.ring) <= RingN
    /\ sec.want \subseteq Subs /\ sec.test \in BOOLEAN /\ sec.replied \in BOOLEAN

Answers(rec) == Means(rec) \notin {"bcch", "other", "0x83", "0x74"} /\ rec.of # "selected_bcch"

\* A request is answered by reports of its own: what was still queued for an older
\* one, or for a receiver that the firmware has deactivated since, never enters the
\* ring.  The scan of a selected cell is not held to it: its closing terminal comes
\* unasked.  And while the phone camps, reports of the cell are to come.
Correlated ==
    /\ TypeOK
    /\ \A rec \in Range(egress.queue) : Answers(rec) => rec.fresh
    /\ fw.st = "camped" => Due(radio)

\* Whatever the phone searches for, loses, verifies and gives up, and however often it
\* registers, it comes to camp again: no transaction leaves the peer in a phase that
\* does not take what the phone asks for next.
Camps == []<>(fw.st = "camped")

\* What the start-up asks the security responder is answered, the self-test among
\* it, though a deactivated receiver empties the queue under the answers.
SecurityAnswered == []<>(fw.asked = fw.answered)
=============================================================================
