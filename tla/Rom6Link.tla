------------------------------ MODULE Rom6Link ------------------------------
(***************************************************************************)
(* The network side of the 3410 DSP engine (mad2/dsp/dsp_rom6.c): incoming *)
(* services and their paging, the dedicated channel with its LAPDm links,  *)
(* and the transactions of GSM 04.08 it plays: location update, calls and  *)
(* short messages both ways, and the data call that moves to a traffic     *)
(* channel.  Against it runs the phone, external: it answers pages from    *)
(* idle, has a window of one on each link, acknowledges what it accepts    *)
(* before it reacts, and sends one block per block request.                *)
(*                                                                         *)
(* A downlink slot hands its frame to the phone at once.  The egress queue *)
(* between them keeps the order (MdiEgress); a record lost there is not    *)
(* repeated by this engine and not modelled here.  The phone does not      *)
(* repeat a SABM whose UA is on its way, and does not hang up between      *)
(* SETUP and the assignment of a data call: the engine survives neither.   *)
(*                                                                         *)
(* Operators marked "Wrong on purpose" are variants with a plausible       *)
(* mistake and not part of the model, see MdiRing.                         *)
(***************************************************************************)
EXTENDS Integers, Sequences, SequencesExt, FiniteSets

CONSTANTS
    IncomingN,      \* slots of the ring of services, one of them never used (8)
    DedicatedN,     \* slots of the queue of LAPDm frames, one never used (32)
    AckN,           \* entries of a link's ring of acknowledges (16)
    Bursts, Cycles, \* paging blocks of a cycle, cycles before giving up (8 and 6)
    Modulus,        \* LAPDm sequence numbers (8)
    Sizes,          \* frames a service's SETUP and CP-DATA may take: [setup, cp]
    Services,       \* incoming services; Kind[s] is "call" or "sms"
    Kind,
    Offers,         \* what the host queues at once: sequences of services
    OwnMax, RepeatMax   \* bounds: transactions the phone starts, frames it repeats

\* Frames of the longest message, a short message to the phone with all its user
\* data (Rom6CodeProofs!MessageFits).  A SETUP takes a second one for a long number.
Longest == 9

ASSUME Rom6Assumption ==
    /\ {IncomingN, DedicatedN, AckN, Bursts, Cycles, Modulus} \subseteq Nat \ {0}
    /\ {OwnMax, RepeatMax} \subseteq Nat
    /\ Offers \subseteq Seq(Services)
    /\ \A o \in Offers : o # <<>> /\ IsInjective(o)
    /\ \A o, p \in Offers : o # p => Range(o) \cap Range(p) = {}
    /\ \A o \in Offers : Len(o) < IncomingN     \* see Queue
    /\ Sizes # {} /\ Sizes \subseteq [setup : 1 .. 2, cp : 1 .. Longest]

VARIABLES
    r,              \* the engine
    ms,             \* the phone
    offered         \* services the host has offered

vars == <<r, ms, offered>>

Sapis == {0, 3}
Next_(n) == (n + 1) % Modulus

-----------------------------------------------------------------------------
(* Incoming services and paging. *)

StartPaging(n) == [n EXCEPT !.page = [on |-> TRUE, answered |-> FALSE, bursts |-> 0, cycles |-> 0]]

\* Registered, and neither on a channel nor paging already.
Arm(n) == IF n.suppress /\ ~n.conf /\ ~n.page.on THEN StartPaging(n) ELSE n

\* Wrong on purpose: the end of a channel does not look at what has queued up.
StartNext_Never(n) == n

StartNext(n) == IF n.inq = <<>> THEN n ELSE Arm(n)

\* The parts of a message go in one by one; at the first that does not fit the
\* rest is refused, and paging is left as it is.  A message of more parts than
\* the ring holds would be stuck there with no page for it: see the assumption.
Queue(n, parts) ==
    LET room == IncomingN - 1 - Len(n.inq)
    IN  IF Len(parts) <= room THEN Arm([n EXCEPT !.inq = @ \o parts])
        ELSE [n EXCEPT !.inq = @ \o SubSeq(parts, 1, room)]

-----------------------------------------------------------------------------
(* LAPDm, network side. *)

NewLink == [vs |-> 0, vr |-> 0, acks |-> <<>>, ua |-> "NONE"]

\* A full queue drops the frame, and nobody is told.
QueueLapdm(n, f) == IF Len(n.q) >= DedicatedN - 1 THEN n ELSE [n EXCEPT !.q = Append(@, f)]

\* The i-th frame of a message, and the acknowledge recorded for it: its N(R).
IFrameOf(k, sapi, i, kind) ==
    [t |-> "I", sapi |-> sapi, ns |-> (k.vs + i - 1) % Modulus, nr |-> k.vr, kind |-> kind]

\* Wrong on purpose: the acknowledge is keyed by the frame's own number.
AckOf_OffByOne(k, i, kind) == [rs |-> (k.vs + i - 1) % Modulus, kind |-> kind]

AckOf(k, i, kind) == [rs |-> (k.vs + i) % Modulus, kind |-> kind]

\* A sequence goes in as far as there is room.
Fill(s, t, max) == s \o SubSeq(t, 1, IF Len(t) <= max - Len(s) THEN Len(t) ELSE max - Len(s))

\* A message goes out in one step, frame after frame, one of these kinds each.  What a full
\* queue drops is still counted in V(S); a full ring drops the acknowledge, and the step
\* that waits for it.
SendI(n, sapi, kinds) ==
    LET k == n.link[sapi]
    IN  [n EXCEPT
           !.q = Fill(@, [i \in DOMAIN kinds |-> IFrameOf(k, sapi, i, kinds[i])], DedicatedN - 1),
           !.link[sapi].vs = (@ + Len(kinds)) % Modulus,
           !.link[sapi].acks = Fill(@, [i \in DOMAIN kinds |-> AckOf(k, i, kinds[i])], AckN)]

\* A message of so many frames; its kind belongs to the last one.
Message(frames, kind) == [i \in 1 .. frames |-> IF i < frames THEN "SEGMENT" ELSE kind]

SendSabm(n, sapi, kind) ==
    QueueLapdm([n EXCEPT !.link[sapi] = [NewLink EXCEPT !.ua = kind]], [t |-> "SABM", sapi |-> sapi])

SendUa(n, sapi) == QueueLapdm(n, [t |-> "UA", sapi |-> sapi])
SendRr(n, sapi) == QueueLapdm(n, [t |-> "RR", sapi |-> sapi, nr |-> n.link[sapi].vr])

-----------------------------------------------------------------------------
(* The network's steps. *)

ChannelRelease(n) == SendI([n EXCEPT !.reg = "AWAIT_REL_ACK"], 0, <<"CHAN_REL">>)

\* The phone has acknowledged a frame of this kind.
NetOnAck(n, sapi, kind) ==
    CASE kind = "LU_ACCEPT" /\ n.reg = "AWAIT_LU_ACK" ->
           SendI([n EXCEPT !.reg = "AWAIT_REL_ACK"], 0, <<"MM_INFO", "CHAN_REL">>)
      [] kind = "CHAN_REL" /\ n.reg = "AWAIT_REL_ACK" ->
           StartNext([n EXCEPT !.reg = "RELEASED", !.suppress = TRUE, !.svc = "NONE",
                               !.active = <<>>, !.call = IF @ = 0 THEN 0 ELSE 3,
                               !.page = [@ EXCEPT !.on = FALSE, !.answered = FALSE]])
      [] kind = "CIPHER_COMMAND" /\ n.reg = "AWAIT_CIPHER_ACK" ->
           [n EXCEPT !.reg = "AWAIT_CIPHER_COMPLETE"]
      [] kind = "SAPI3_ESTABLISH" /\ sapi = 3 /\ n.reg = "MM_ACTIVE" /\ n.svc = "MT_SMS" ->
           SendI(n, 3, Message(n.size.cp, "CP_DATA"))
      [] OTHER -> n

\* An N(R) that names a recorded frame acknowledges it and those before it.
AckPending(n, sapi, nr) ==
    LET acks == n.link[sapi].acks
        hit == {i \in DOMAIN acks : acks[i].rs = nr}
        after[i \in 0 .. Len(acks)] ==
            IF i = 0 THEN n
            ELSE NetOnAck([after[i - 1] EXCEPT !.link[sapi].acks = Tail(@)], sapi, acks[i].kind)
    IN  IF hit = {} THEN n ELSE after[CHOOSE i \in hit : \A j \in hit : i <= j]

QueueCipher(n, svc) == SendI([n EXCEPT !.svc = svc, !.reg = "AWAIT_CIPHER_ACK"], 0, <<"CIPHER_COMMAND">>)

\* The outcome of an assignment resumes the call where it was left.
Assigned(n, msg) ==
    IF ~n.assign THEN n
    ELSE SendI([n EXCEPT !.assign = FALSE, !.tch = @ /\ msg = "ASSIGNMENT_COMPLETE"], 0, <<"CONNECT">>)

Outcomes == {"ASSIGNMENT_COMPLETE", "ASSIGNMENT_FAILURE"}

CmService == [CM_CALL |-> "MO_CALL", CM_EMERGENCY |-> "EMERGENCY", CM_SMS |-> "SMS"]

\* A message that opens a connection: as the information of a SABM, or before one is open.
NetEstablished(n, msg) ==
    CASE msg \in Outcomes -> Assigned(n, msg)
      [] msg = "LU_REQUEST" /\ n.reg = "IDLE" ->
           SendI([n EXCEPT !.reg = "AWAIT_LU_ACK"], 0, <<"LU_ACCEPT">>)
      [] msg \in DOMAIN CmService /\ n.reg = "IDLE" ->
           QueueCipher(IF msg = "CM_SMS" THEN n
                       ELSE [n EXCEPT !.call = 0, !.setup = FALSE, !.assign = FALSE],
                       CmService[msg])
      [] msg = "PAGING_RESPONSE" /\ n.reg = "IDLE" /\ n.inq # <<>> ->
           QueueCipher([n EXCEPT !.active = <<Head(n.inq)>>, !.inq = Tail(@)],
                       IF Kind[Head(n.inq)] = "call" THEN "MT_CALL" ELSE "MT_SMS")
      [] OTHER -> n

CipherComplete(n) ==
    LET open == SendI([n EXCEPT !.reg = "MM_ACTIVE"], 0, <<"MM_INFO">>)
    IN  CASE n.svc = "MT_CALL" ->
               SendI([open EXCEPT !.call = 1], 0, Message(n.size.setup, "MT_CALL_SETUP"))
          [] n.svc = "MT_SMS" -> SendSabm(open, 3, "SAPI3_ESTABLISH")
          [] OTHER -> open

\* A SETUP; one that repeats the running call's is ignored.  A data call is
\* first assigned a traffic channel, the rest of the handshake waits for it.
Setup(n, data) ==
    LET n1 == SendI([n EXCEPT !.call = 1, !.setup = TRUE], 0, <<"CALL_PROCEEDING">>)
    IN  IF n.call # 0 /\ n.setup THEN n
        ELSE IF data /\ ~n.tch THEN [SendI(n1, 0, <<"ASSIGNMENT_CMD">>) EXCEPT !.assign = TRUE]
        ELSE SendI(n1, 0, <<"ALERTING", "CONNECT">>)

\* A message on an open connection.
NetActive(n, sapi, msg) ==
    IF msg \in Outcomes THEN Assigned(n, msg)
    ELSE IF n.reg = "AWAIT_CIPHER_COMPLETE" THEN IF msg = "CIPHER_COMPLETE" THEN CipherComplete(n) ELSE n
    ELSE IF n.reg # "MM_ACTIVE" THEN n
    ELSE CASE
         msg \in {"SETUP", "SETUP_UDI"} /\ n.svc = "MO_CALL" -> Setup(n, msg = "SETUP_UDI")
      [] msg = "EMERGENCY_SETUP" /\ n.svc = "EMERGENCY" ->
           SendI([n EXCEPT !.call = 1], 0, <<"CALL_PROCEEDING", "CONNECT">>)
      [] msg \in {"CALL_CONFIRMED", "ALERTING"} /\ n.svc = "MT_CALL" -> [n EXCEPT !.call = 1]
      [] msg = "CONNECT" /\ n.svc = "MT_CALL" -> SendI([n EXCEPT !.call = 2], 0, <<"CONNECT_ACK">>)
      [] msg = "CONNECT_ACK" -> [n EXCEPT !.call = 2]
      [] msg = "DISCONNECT" -> SendI([n EXCEPT !.call = 3], 0, <<"RELEASE">>)
      [] msg = "RELEASE_COMPLETE" -> ChannelRelease([n EXCEPT !.call = 3])
      [] msg = "CP_DATA" /\ n.svc = "SMS" -> SendI(n, sapi, <<"CP_ACK", "RP_ACK">>)
      [] msg = "CP_ACK" /\ n.svc = "SMS" -> ChannelRelease(n)
      [] msg = "CP_DATA" /\ n.svc = "MT_SMS" -> ChannelRelease(SendI(n, sapi, <<"CP_ACK">>))
      [] OTHER -> n

\* Wrong on purpose: the link is opened again with the numbers it had.
LapdmSabm_KeepsLink(n, f) ==
    LET up == SendUa(n, f.sapi) IN IF f.msg = "NONE" THEN up ELSE NetEstablished(up, f.msg)

LapdmSabm(n, f) ==
    LET up == SendUa([n EXCEPT !.link[f.sapi] = NewLink], f.sapi)
    IN  IF f.msg = "NONE" THEN up ELSE NetEstablished(up, f.msg)

\* A block from the phone.
LapdmUplink(n, f) ==
    LET k == n.link[f.sapi]
        next == [n EXCEPT !.link[f.sapi].vr = IF f.ns = @ THEN Next_(@) ELSE @]
        seen == SendRr(AckPending(next, f.sapi, f.nr), f.sapi)
    IN  CASE f.t = "SABM" -> LapdmSabm(n, f)
          [] f.t = "DISC" -> [SendUa(n, f.sapi) EXCEPT !.rel = TRUE]
          [] f.t = "RR" -> AckPending(n, f.sapi, f.nr)
          [] f.t = "UA" ->
               LET n1 == [n EXCEPT !.link[f.sapi].ua = "NONE"]
               IN  IF k.ua = "NONE" THEN n1 ELSE NetOnAck(n1, f.sapi, k.ua)
          [] f.t = "I" ->
               IF f.ns # k.vr \/ f.msg = "SEGMENT" THEN seen
               ELSE IF seen.reg = "IDLE" THEN NetEstablished(seen, f.msg)
               ELSE NetActive(seen, f.sapi, f.msg)

-----------------------------------------------------------------------------
(* The phone (external). *)

NoFrames == [s \in Sapis |-> <<>>]
Idle(p) == [p EXCEPT !.at = "idle", !.why = "NONE", !.ctl = <<>>, !.out = NoFrames, !.call = "no",
                     !.una = [s \in Sapis |-> "NONE"]]

Send(p, sapi, msgs) == [p EXCEPT !.out[sapi] = @ \o msgs]
Control(p, f) == [p EXCEPT !.ctl = IF f \in Range(@) THEN @ ELSE Append(@, f)]
FreshLink(p, sapi) == [p EXCEPT !.vs[sapi] = 0, !.vr[sapi] = 0, !.una[sapi] = "NONE"]

\* What it does on a message, with the choices it has.
React(p, kind) ==
    CASE kind = "CIPHER_COMMAND" ->
           {Send(p, 0, <<"CIPHER_COMPLETE">> \o first) :
              first \in CASE p.why = "CM_CALL" -> {<<"SETUP">>, <<"SETUP_UDI">>}
                           [] p.why = "CM_EMERGENCY" -> {<<"EMERGENCY_SETUP">>}
                           [] OTHER -> {<<>>}}
      [] kind = "MT_CALL_SETUP" ->
           {[Send(p, 0, <<"CALL_CONFIRMED", "ALERTING">>) EXCEPT !.call = "ring", !.got = @ \cup Range(r.active)]}
      [] kind = "CONNECT" -> {[Send(p, 0, <<"CONNECT_ACK">>) EXCEPT !.call = "up"]}
      [] kind = "CONNECT_ACK" -> {[p EXCEPT !.call = "up"]}
      [] kind = "RELEASE" -> {Send(p, 0, <<"RELEASE_COMPLETE">>)}
      [] kind = "ASSIGNMENT_CMD" -> {Send(p, 0, <<"ASSIGNMENT_FAILURE">>), [p EXCEPT !.at = "tune"]}
      [] kind = "CP_DATA" ->
           {[Send(p, 3, <<"CP_ACK", "CP_DATA">>) EXCEPT !.got = @ \cup Range(r.active)]}
      [] kind = "RP_ACK" -> {Send(p, 3, <<"CP_ACK">>)}
      [] kind = "CHAN_REL" ->
           {[Control(p, [t |-> "DISC", sapi |-> 0]) EXCEPT !.at = "off", !.out = NoFrames, !.call = "no",
                !.reg = @ \/ p.why = "LU_REQUEST"]}
      [] OTHER -> {p}

\* An N(R) opens the window again; the link for short messages follows the cipher.
Acked(p, f) ==
    IF p.una[f.sapi] = "NONE" \/ f.nr # p.vs[f.sapi] THEN p
    ELSE LET p1 == [p EXCEPT !.una[f.sapi] = "NONE"]
         IN  IF p.una[f.sapi] = "CIPHER_COMPLETE" /\ p.why = "CM_SMS"
             THEN Control(p1, [t |-> "SABM", sapi |-> 3, msg |-> "NONE"]) ELSE p1

\* What it may do with a frame from the network.
Receive(p, f) ==
    CASE f.t = "SABM" -> {Control(FreshLink(p, f.sapi), [t |-> "UA", sapi |-> f.sapi])}
      [] f.t = "UA" /\ p.at = "sabm" /\ f.sapi = 0 -> {[FreshLink(p, 0) EXCEPT !.at = "on"]}
      [] f.t = "UA" /\ p.at = "on" /\ f.sapi = 3 -> {Send(FreshLink(p, 3), 3, <<"SEGMENT", "CP_DATA">>)}
      [] f.t = "UA" /\ p.at = "off" -> {Idle(p)}
      [] f.t = "RR" -> {Acked(p, f)}
      [] f.t = "I" /\ p.at = "on" ->
           LET p1 == Control(Acked(p, f), [t |-> "RR", sapi |-> f.sapi])
           IN  IF f.ns = p.vr[f.sapi] THEN React([p1 EXCEPT !.vr[f.sapi] = Next_(@)], f.kind) ELSE {p1}
      [] OTHER -> {p}

-----------------------------------------------------------------------------
(* The actions: the host's, the engine's events, and the phone's. *)

\* The host queues a call or a message.
QueueIncoming(o) ==
    /\ Range(o) \cap offered = {}
    /\ r' = Queue(r, o)
    /\ offered' = offered \cup Range(SubSeq(o, 1, Len(r'.inq) - Len(r.inq)))
    /\ UNCHANGED ms

\* Wrong on purpose: one cycle of blocks is the verdict.
PagingBlock_OneCycle ==
    /\ r.page.on /\ ~r.page.answered /\ ~r.conf
    /\ r' = [r EXCEPT !.page.bursts = @ + 1, !.page.on = r.page.bursts + 1 < Bursts]
    /\ \E heard \in BOOLEAN : ms' = [ms EXCEPT !.paged = @ \/ (heard /\ ms.at = "idle")]
    /\ UNCHANGED offered

\* A paging block in the phone's group.  The phone may be too busy to answer.
\* After a cycle of blocks a pause, after the last cycle no more.
PagingBlock ==
    /\ r.page.on /\ ~r.page.answered /\ ~r.conf
    /\ LET last == r.page.bursts + 1 >= Bursts
       IN  r' = [r EXCEPT !.page.bursts = IF last /\ r.page.cycles + 1 < Cycles THEN 0 ELSE @ + 1,
                          !.page.cycles = IF last THEN @ + 1 ELSE @,
                          !.page.on = ~last \/ r.page.cycles + 1 < Cycles]
    /\ \E heard \in BOOLEAN : ms' = [ms EXCEPT !.paged = @ \/ (heard /\ ms.at = "idle")]
    /\ UNCHANGED offered

\* A downlink slot: the next frame, or fill.  A release that waits for the queue
\* is complete with its last frame.
Slot ==
    /\ r.conf /\ (r.q # <<>> \/ r.rel)
    /\ LET n == [r EXCEPT !.q = IF @ = <<>> THEN @ ELSE Tail(@)]
       IN  r' = IF n.rel /\ n.q = <<>> THEN StartNext([n EXCEPT !.conf = FALSE, !.rel = FALSE]) ELSE n
    /\ IF r.q = <<>> THEN UNCHANGED ms ELSE ms' \in Receive(ms, Head(r.q))
    /\ UNCHANGED offered

\* Random access: it answers a page, whatever the phone's reason.
Rach(why) ==
    /\ ms.at = "idle"
    /\ IF why = "PAGING_RESPONSE" THEN ms.paged ELSE ms.own < OwnMax
    /\ why \in {"CM_CALL", "CM_SMS"} => ms.reg
    /\ ms' = [ms EXCEPT !.at = "rach", !.why = why, !.paged = FALSE,
                        !.own = IF why = "PAGING_RESPONSE" THEN @ ELSE @ + 1]
    /\ r' = [r EXCEPT !.page.answered = @ \/ r.page.on]
    /\ UNCHANGED offered

Reasons == {"PAGING_RESPONSE", "LU_REQUEST"} \cup DOMAIN CmService

\* The phone takes the channel it was assigned.  The size of what is then sent to it
\* is data of the service that waits: chosen here, any that the services may have.
ConfigureSdcch ==
    /\ ms.at = "rach"
    /\ \E size \in Sizes :
         r' = [r EXCEPT !.conf = TRUE, !.rel = FALSE, !.tch = FALSE, !.q = <<>>,
                        !.link = [s \in Sapis |-> NewLink], !.reg = "IDLE", !.svc = "NONE",
                        !.active = <<>>, !.size = size]
    /\ ms' = Control([FreshLink(FreshLink(ms, 0), 3) EXCEPT !.at = "sabm"],
                     [t |-> "SABM", sapi |-> 0, msg |-> ms.why])
    /\ UNCHANGED offered

\* It moves to the traffic channel and opens its link there; a SETUP may come again.
ConfigureTch ==
    /\ ms.at = "tune"
    /\ r' = [r EXCEPT !.tch = TRUE]
    /\ \E again \in {<<>>, <<"SETUP_UDI">>} :
         ms' = [Idle(ms) EXCEPT !.at = "sabm", !.why = ms.why, !.out[0] = again,
                  !.ctl = <<[t |-> "SABM", sapi |-> 0, msg |-> "ASSIGNMENT_COMPLETE"]>>]
    /\ UNCHANGED offered

\* On a block request the phone sends a control frame it owes, or information
\* for which the window is open.
Uplink ==
    /\ r.conf
    /\ \/ /\ ms.ctl # <<>>
          /\ LET f == Head(ms.ctl)
             IN  r' = LapdmUplink(r, IF f.t = "RR" THEN [t |-> "RR", sapi |-> f.sapi, nr |-> ms.vr[f.sapi]]
                                     ELSE f)
          /\ ms' = [ms EXCEPT !.ctl = Tail(@)]
       \/ /\ ms.at = "on"
          /\ \E s \in Sapis :
               /\ ms.out[s] # <<>> /\ ms.una[s] = "NONE"
               /\ r' = LapdmUplink(r, [t |-> "I", sapi |-> s, ns |-> ms.vs[s], nr |-> ms.vr[s],
                                      msg |-> Head(ms.out[s])])
               /\ ms' = [ms EXCEPT !.out[s] = Tail(@), !.una[s] = Head(ms.out[s]), !.vs[s] = Next_(@)]
    /\ UNCHANGED offered

\* Its timer runs out before the acknowledge comes.
Repeat(s) ==
    /\ r.conf /\ ms.at = "on" /\ ms.una[s] # "NONE" /\ ms.reps < RepeatMax
    /\ r' = LapdmUplink(r, [t |-> "I", sapi |-> s, ns |-> (ms.vs[s] + Modulus - 1) % Modulus,
                           nr |-> ms.vr[s], msg |-> ms.una[s]])
    /\ ms' = [ms EXCEPT !.reps = @ + 1]
    /\ UNCHANGED offered

Answer ==
    /\ ms.at = "on" /\ ms.call = "ring"
    /\ ms' = [Send(ms, 0, <<"CONNECT">>) EXCEPT !.call = "wait"]
    /\ UNCHANGED <<r, offered>>

HangUp ==
    /\ ms.at = "on" /\ ms.call \in {"ring", "up"}
    /\ ms' = [Send(ms, 0, <<"DISCONNECT">>) EXCEPT !.call = "no"]
    /\ UNCHANGED <<r, offered>>

-----------------------------------------------------------------------------
Init ==
    /\ r = [inq |-> <<>>, page |-> [on |-> FALSE, answered |-> FALSE, bursts |-> 0, cycles |-> 0],
            suppress |-> FALSE, conf |-> FALSE, rel |-> FALSE, tch |-> FALSE, q |-> <<>>,
            link |-> [s \in Sapis |-> NewLink], reg |-> "IDLE", svc |-> "NONE", active |-> <<>>,
            size |-> CHOOSE size \in Sizes : TRUE, call |-> 0, setup |-> FALSE, assign |-> FALSE]
    /\ ms = [at |-> "idle", why |-> "NONE", reg |-> FALSE, vs |-> [s \in Sapis |-> 0],
             vr |-> [s \in Sapis |-> 0], una |-> [s \in Sapis |-> "NONE"], ctl |-> <<>>, out |-> NoFrames,
             call |-> "no", paged |-> FALSE, got |-> {}, own |-> 0, reps |-> 0]
    /\ offered = {}

Next ==
    \/ \E o \in Offers : QueueIncoming(o)
    \/ PagingBlock \/ Slot
    \/ \E why \in Reasons : Rach(why)
    \/ ConfigureSdcch \/ ConfigureTch \/ Uplink
    \/ \E s \in Sapis : Repeat(s)
    \/ Answer \/ HangUp

\* The engine's events come, and the phone goes on with what it has begun.
Fairness ==
    /\ WF_vars(PagingBlock) /\ WF_vars(Slot)
    /\ WF_vars(Rach("PAGING_RESPONSE")) /\ WF_vars(ConfigureSdcch) /\ WF_vars(ConfigureTch)
    /\ WF_vars(Uplink) /\ WF_vars(HangUp)

Spec == Init /\ [][Next]_vars /\ Fairness

-----------------------------------------------------------------------------
(* Properties. *)

Messages == {"SEGMENT", "LU_ACCEPT", "MM_INFO", "CHAN_REL", "CIPHER_COMMAND", "MT_CALL_SETUP",
             "CP_DATA", "CP_ACK", "RP_ACK", "CALL_PROCEEDING", "ALERTING", "CONNECT",
             "CONNECT_ACK", "RELEASE", "ASSIGNMENT_CMD"}

TypeOK ==
    /\ Len(r.inq) < IncomingN /\ Range(r.inq) \subseteq offered
    /\ r.page.bursts \in 0 .. Bursts /\ r.page.cycles \in 0 .. Cycles
    /\ r.call \in 0 .. 3 /\ Len(r.q) < DedicatedN /\ (~r.conf => ~r.rel)
    /\ \A s \in Sapis : /\ r.link[s].vs \in 0 .. Modulus - 1 /\ r.link[s].vr \in 0 .. Modulus - 1
                        /\ Len(r.link[s].acks) <= AckN
                        /\ \A e \in Range(r.link[s].acks) : e.kind \in Messages

\* The frames of information for a link in a queue, in their order.
Info(q, s) ==
    LET upto[i \in 0 .. Len(q)] ==
            IF i = 0 THEN <<>>
            ELSE IF q[i].t = "I" /\ q[i].sapi = s THEN Append(upto[i - 1], q[i]) ELSE upto[i - 1]
    IN  upto[Len(q)]

\* The link is being opened: the phone starts at 0 when it hears of it.
Opening(s) == \E f \in Range(r.q) : f.t \in {"UA", "SABM"} /\ f.sapi = s

\* An N(R) of the phone names the last frame it has accepted.  Where that was acknowledged
\* before and as many frames wait as there are numbers, the phone has none to send: it
\* would be taken for the acknowledge of one that waits, which has the same number.
Told(s) ==
    LET waiting == Len(Info(r.q, s))
    IN  waiting < Modulus \/ waiting < Len(r.link[s].acks)
        \/ (ms.out[s] = <<>> /\ ms.una[s] = "NONE" /\ [t |-> "RR", sapi |-> s] \notin Range(ms.ctl))

\* The queue takes the longest message, and a ring the six acknowledges of any other step,
\* or those of the longest message where its link is being opened.
Room ==
    /\ Len(r.q) + Longest < DedicatedN
    /\ \A s \in Sapis : LET k == r.link[s]
                        IN  /\ Len(k.acks) + 6 <= AckN
                            /\ k.ua # "NONE" => Len(k.acks) + Longest <= AckN
                            /\ Told(s)

\* Queues and rings keep within their arrays and have room, and the network's view of a
\* link is the phone's.  The frames that wait are the last that were recorded for an
\* acknowledge, with numbers that run from the one the phone expects up to V(S): no
\* frame was lost on a full queue, no acknowledge on a full ring, and no step is taken
\* for a frame that is still to be sent.
InStep ==
    /\ TypeOK /\ Room
    /\ r.conf /\ ms.at \in {"on", "sabm"} => \A s \in Sapis :
         LET w == Info(r.q, s)
             k == r.link[s]
             from == IF Opening(s) \/ (s = 0 /\ ms.at = "sabm") THEN 0 ELSE ms.vr[s]
         IN  /\ \A i \in DOMAIN w : w[i].ns = (from + i - 1) % Modulus
             /\ k.vs = (from + Len(w)) % Modulus \/ (s = 0 /\ ms.at = "sabm" /\ ms.ctl # <<>>)
             /\ IsSuffix([i \in DOMAIN w |-> [rs |-> Next_(w[i].ns), kind |-> w[i].kind]], k.acks)

\* A registered phone without a channel is paged as long as a service waits, until
\* the paging has given up.
GaveUp == ~r.page.on /\ r.page.cycles = Cycles
Paged == r.suppress /\ ~r.conf /\ r.inq # <<>> => r.page.on \/ GaveUp

\* What the host queued reaches the phone, between the phone's own transactions,
\* unless the phone never registers or lets all cycles of paging pass.
Delivered == \A s \in Services : (s \in offered /\ r.suppress) ~> (s \in ms.got \/ GaveUp)

\* Every transaction comes to its end and gives the channel back.
ChannelFreed == r.conf ~> ~r.conf
=============================================================================
