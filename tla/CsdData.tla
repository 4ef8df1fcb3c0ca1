------------------------------ MODULE CsdData ------------------------------
(***************************************************************************)
(* The far end of the 3410's data call: the RLP peer (mad2/dsp/rlp.c), the *)
(* PPP responder over its characters (ppp.c), the WAP gateway over the     *)
(* datagrams (wap.c), and the host that fetches what the gateway does not  *)
(* have: at once, with the emulator stopped (wap_host.c), or as a page     *)
(* that polls and answers later (web/main.c with web/next/main.js).        *)
(*                                                                         *)
(* A character is a cell: which frame it belongs to and where in it.  A    *)
(* frame passes the FCS when its cells are exactly those of some frame.    *)
(* An escaped character is one cell.  Addresses go with the transaction.   *)
(*                                                                         *)
(* The phone is external.  Its traffic channel has room for one RLP frame  *)
(* per 20 ms and the peer's blocks come every 4 TDMA frames, so a block is *)
(* sent between any two frames of the phone.  Blocks reach it at once and  *)
(* in order: see MdiEgress for the queue between.                          *)
(*                                                                         *)
(* Operators marked "Wrong on purpose" are variants with a plausible       *)
(* mistake and not part of the model, see MdiRing.                         *)
(***************************************************************************)
EXTENDS Integers, Sequences, SequencesExt, FiniteSets, TLC

CONSTANTS
    Modulus,        \* RLP sequence numbers (62)
    PduLen,         \* characters of one I frame (24)
    TxqN,           \* characters the RLP peer queues (4096)
    PppTxN, TakeN,  \* characters PPP queues, and hands over at a time (8192 and 128)
    MruN,           \* characters of a received frame (2112)
    OutN,           \* slots of the gateway's ring of datagrams, one never used (4)
    Size,           \* Size[k]: characters between the flags of a frame of kind k
    DgramMax,       \* octets of the longest datagram (2048)
    ReplyLen,       \* ReplyLen[u]: octets of the WSP reply that carries page u
    Settings,       \* see below
    RetryMax, AbortMax, OddMax, CallMax, SilentMax    \* bounds on what the environment does

\* bridge:  who has the pages: the gateway's own "deck", a host that can "fetch",
\*          or a real gateway that the host can "relay" to;
\* page:    the host is a page that answers later;
\* patient: the user of such a page waits for it;
\* plan:    what the phone asks for, in this order;
\* segs:    datagrams of one result of the real gateway;
\* port:    9201 for requests over WTP, 9200 for requests without a connection;
\* options: what the phone's first IPCP request asks for;
\* odd:     further frames the phone can send.
ASSUME CsdAssumption ==
    /\ {Modulus, PduLen, TxqN, PppTxN, TakeN, MruN, OutN} \subseteq Nat \ {0}
    /\ {RetryMax, AbortMax, OddMax, CallMax, SilentMax} \subseteq Nat
    /\ \A k \in DOMAIN Size : Size[k] \in 1 .. MruN
    /\ DgramMax \in Nat
    /\ \A s \in Settings : \A i \in DOMAIN s.plan : ReplyLen[s.plan[i]] \in Nat \ {0}
    /\ \A s \in Settings :
          /\ s.bridge \in {"deck", "fetch", "relay"} /\ s.page \in BOOLEAN /\ s.patient \in BOOLEAN
          /\ s.page => s.bridge = "fetch"
          /\ s.segs \in 1 .. OutN - 1           \* see Stage
          /\ s.bridge # "relay" => s.segs = 1
          /\ s.segs * (Size["RESULT"] + 2) <= TxqN  \* see QueueTx
          /\ s.port = 9200 => s.bridge = "deck"    \* see WapHandleIp

VARIABLES
    env,            \* the setting
    call,           \* the call: on, how many, and whether a block came since the phone's last frame
    p,              \* the RLP peer
    g,              \* PPP and the gateway
    host,           \* what the page fetches, and how often the real gateway kept silent
    ms              \* the phone

vars == <<env, call, p, g, host, ms>>

NoFrame == [k |-> "NONE", tid |-> 0, what |-> "", seg |-> 0]
F(k) == [NoFrame EXCEPT !.k = k]
Flag == [f |-> NoFrame, i |-> 0]
Body(f) == [i \in 1 .. Size[f.k] |-> [f |-> f, i |-> i]]
Whole(cells) == cells # <<>> /\ cells[1].f.k \in DOMAIN Size /\ cells = Body(cells[1].f)

First(n, s) == SubSeq(s, 1, IF n < Len(s) THEN n ELSE Len(s))
Rest(n, s) == SubSeq(s, n + 1, Len(s))

-----------------------------------------------------------------------------
(* The RLP peer. *)

NewPeer == [est |-> FALSE, vr |-> 0, vs |-> 0, ua |-> FALSE, poll |-> FALSE,
            xid |-> FALSE, test |-> FALSE, status |-> FALSE, txq |-> <<>>]

InSequence(q, f) == q.est /\ f.t = "I" /\ f.ns = q.vr

\* An I or S frame counts on a link that is up only.
OnUplink(q, f) ==
    CASE f.t = "SABM" -> [q EXCEPT !.est = TRUE, !.vr = 0, !.vs = 0, !.ua = TRUE,
                                   !.poll = FALSE, !.status = FALSE]
      [] f.t = "DISC" -> [q EXCEPT !.est = FALSE, !.ua = TRUE]
      [] f.t = "XID" -> [q EXCEPT !.xid = TRUE]
      [] f.t = "TEST" -> [q EXCEPT !.test = TRUE]
      [] f.t = "NULL" -> q
      [] f.t \in {"I", "RR", "POLL"} ->
            IF ~q.est THEN q
            ELSE [q EXCEPT !.poll = @ \/ f.t = "POLL",
                           !.vr = IF InSequence(q, f) THEN (@ + 1) % Modulus ELSE @]

\* What does not fit is dropped, character by character.  A result longer than the
\* queue never gets through, however often the phone asks: see the assumption.
QueueTx(q, cells) == [q EXCEPT !.txq = First(TxqN, @ \o cells)]

Dl(t, ns, cells) == [t |-> t, ns |-> ns, cells |-> cells]

\* The next frame, most urgent first, and the peer after it.
NextDownlink(q) ==
    IF q.ua THEN [f |-> Dl("UA", 0, <<>>), q |-> [q EXCEPT !.ua = FALSE]]
    ELSE IF q.xid THEN [f |-> Dl("XID", 0, <<>>), q |-> [q EXCEPT !.xid = FALSE]]
    ELSE IF q.test THEN [f |-> Dl("TEST", 0, <<>>), q |-> [q EXCEPT !.test = FALSE]]
    ELSE IF ~q.est THEN [f |-> Dl("NULL", 0, <<>>), q |-> q]
    ELSE IF ~q.status
         THEN [f |-> Dl("I", q.vs, <<>>),
               q |-> [q EXCEPT !.status = TRUE, !.vs = (@ + 1) % Modulus]]
    ELSE IF q.poll THEN [f |-> Dl("FINAL", 0, <<>>), q |-> [q EXCEPT !.poll = FALSE]]
    ELSE IF q.txq # <<>>
         THEN [f |-> Dl("I", q.vs, First(PduLen, q.txq)),
               q |-> [q EXCEPT !.txq = Rest(PduLen, @), !.vs = (@ + 1) % Modulus]]
    ELSE [f |-> Dl("RR", 0, <<>>), q |-> q]

-----------------------------------------------------------------------------
(* HDLC framing. *)

\* Wrong on purpose: what has come of a frame is forgotten at the end of the block.
Deframe_PerBlock(rx, cells) ==
    LET flags == <<0>> \o SelectSeq([i \in DOMAIN cells |-> i], LAMBDA i : cells[i] = Flag)
        piece(j) == SubSeq(cells, flags[j] + 1, flags[j + 1] - 1)
        pieces == SelectSeq([j \in 1 .. Len(flags) - 1 |-> piece(j)], Whole)
    IN  [rx |-> rx, frames |-> [j \in DOMAIN pieces |-> pieces[j][1].f]]

\* A flag ends a frame, and the next begins empty.  What a receiver holds of a frame
\* that is too long is one character more than fits: no frame is that long, and so it
\* is discarded at its flag.
Deframe(rx, cells) ==
    LET all == rx \o cells
        flags == <<0>> \o SelectSeq([i \in DOMAIN all |-> i], LAMBDA i : all[i] = Flag)
        piece(j) == SubSeq(all, flags[j] + 1, flags[j + 1] - 1)
        pieces == SelectSeq([j \in 1 .. Len(flags) - 1 |-> piece(j)], Whole)
    IN  [rx |-> First(MruN + 1, Rest(flags[Len(flags)], all)),
         frames |-> [j \in DOMAIN pieces |-> pieces[j][1].f]]

\* Room for a flag is one character, for any other two: it may need an escape.
Mark(tx) == IF Len(tx) < PppTxN THEN Append(tx, Flag) ELSE tx
Escaped(tx, cells) == tx \o First(PppTxN - 1 - Len(tx), cells)

\* A flag on either side: whatever was dropped before, a frame that fits is one.
PppSend(x, f) == [x EXCEPT !.tx = Mark(Escaped(Mark(@), Body(f)))]

-----------------------------------------------------------------------------
(* The WAP gateway. *)

\* The context a deferred result goes by is that of the last Invoke.
NewPpp == [rx |-> <<>>, tx |-> <<>>, lcpSent |-> FALSE, ipcpSent |-> FALSE,
           pending |-> FALSE, uri |-> "", tid |-> 0, out |-> <<>>]

Result(tid, what, seg) == [k |-> "RESULT", tid |-> tid, what |-> what, seg |-> seg]

\* A full ring drops the datagram.  More than OutN - 1 datagrams of one request
\* never get through, however often the phone asks: see the assumption.
Stage(x, d) == IF Len(x.out) < OutN - 1 THEN [x EXCEPT !.out = Append(@, d)] ELSE x

\* A WSP reply in its WTP Result (3) and its UDP and IP headers (28).
Fits(uri) == 28 + 3 + ReplyLen[uri] <= DgramMax

\* A reply longer than a datagram becomes a 500, and one that is too long only with its
\* headers is lost: the host's answer is taken, and the phone gets none.
Deliver(x, what) ==
    LET done == [x EXCEPT !.pending = FALSE]
    IN  IF ~x.pending THEN x
        ELSE IF what = "500" \/ ReplyLen[what] > DgramMax THEN Stage(done, Result(x.tid, "500", 1))
        ELSE IF Fits(what) THEN Stage(done, Result(x.tid, what, 1)) ELSE done

\* A datagram of the real gateway, which brings its own WTP header.
RelayDeliver(x, seg) ==
    LET done == [x EXCEPT !.pending = FALSE]
    IN  IF Fits(x.uri) THEN Stage(done, Result(x.tid, x.uri, seg)) ELSE done

\* A method is answered by the deck, or waits for the host; Connect is answered
\* at once, and Disconnect not at all.
WspReply(x, f) ==
    IF f.what = "CONNECT" THEN PppSend(x, Result(f.tid, "CONNECTED", 1))
    ELSE IF f.what = "DISCONNECT" THEN x
    ELSE IF env.bridge = "fetch" THEN [x EXCEPT !.pending = TRUE, !.uri = f.what]
    ELSE PppSend(x, Result(f.tid, "deck", 1))

\* Wrong on purpose: the context is that of the last Invoke that was answered at once.
WapHandleIp_KeepsContext(x, f) ==
    IF f.k = "INVOKE"
    THEN WspReply(IF f.what = "CONNECT" THEN [x EXCEPT !.tid = f.tid] ELSE x, f) ELSE x

\* The relay looks into nothing.  Otherwise an Abort or an Ack is owed no answer,
\* and takes back nothing that is already with the host.  A request without a
\* connection leaves the context as it is, so that only the deck can answer it.
WapHandleIp(x, f) ==
    IF env.bridge = "relay" THEN [x EXCEPT !.pending = TRUE, !.uri = f.what, !.tid = f.tid]
    ELSE IF f.k = "INVOKE" THEN WspReply([x EXCEPT !.tid = f.tid], f)
    ELSE IF f.k = "REQUEST" THEN WspReply(x, f)
    ELSE x

-----------------------------------------------------------------------------
(* PPP. *)

HandleLcp(x, f) ==
    CASE f.k = "LCP_REQ" ->
            LET y == PppSend(x, F("LCP_ACK"))
            IN  IF y.lcpSent THEN y ELSE PppSend([y EXCEPT !.lcpSent = TRUE], F("LCP_REQ"))
      [] f.k = "LCP_NAK" -> PppSend(x, F("LCP_REQ"))
      [] f.k = "ECHO_REQ" -> PppSend(x, F("ECHO_REP"))
      [] f.k = "TERM_REQ" -> PppSend(x, F("TERM_ACK"))
      [] OTHER -> x

\* Options other than an address are rejected, no address is answered by one.
HandleIpcp(x, f) ==
    IF f.k # "IPCP_REQ" THEN x
    ELSE LET answer == CASE f.what = "dns" -> "IPCP_REJ" [] f.what = "zero" -> "IPCP_NAK"
                         [] OTHER -> "IPCP_ACK"
             y == PppSend(x, F(answer))
         IN  IF y.ipcpSent THEN y ELSE PppSend([y EXCEPT !.ipcpSent = TRUE], F("IPCP_REQ"))

HandleFrame(x, f) ==
    CASE f.k \in {"LCP_REQ", "LCP_ACK", "LCP_NAK", "ECHO_REQ", "TERM_REQ"} -> HandleLcp(x, f)
      [] f.k = "PAP_REQ" -> PppSend(x, F("PAP_ACK"))
      [] f.k \in {"IPCP_REQ", "IPCP_ACK"} -> HandleIpcp(x, f)
      [] f.k \in {"INVOKE", "REQUEST", "ACK", "ABORT"} -> WapHandleIp(x, f)
      [] OTHER -> PppSend(x, F("PROT_REJ"))

RxBytes(x, d) == FoldLeft(HandleFrame, [x EXCEPT !.rx = d.rx], d.frames)

\* A datagram of the gateway joins the stream before each piece is taken, until
\* there is nothing left to take.  A set of one: TLC evaluates its bound variable
\* once, and a LET each time it is used.
Join(x) == IF x.out = <<>> THEN x ELSE PppSend([x EXCEPT !.out = Tail(@)], Head(x.out))

RECURSIVE Drain(_, _)
Drain(x, q) ==
    UNION {IF y.tx = <<>> THEN {[x |-> y, q |-> q]}
           ELSE Drain([y EXCEPT !.tx = Rest(TakeN, @)], QueueTx(q, First(TakeN, y.tx)))
           : y \in {Join(x)}}

-----------------------------------------------------------------------------
(* The call and the blocks of the traffic channel. *)

\* The phone's side: its link, its PPP, the request it is at and what it received.
NewPhone(at, got) ==
    [link |-> "DOWN", vs |-> 0, vr |-> 0, up |-> <<>>, rx |-> <<>>, lcp |-> {}, ipcp |-> {},
     at |-> at, waiting |-> FALSE, got |-> got]

Init ==
    /\ env \in Settings
    /\ call = [on |-> FALSE, count |-> 0, turn |-> FALSE]
    /\ p = NewPeer /\ g = NewPpp
    /\ host = [busy |-> FALSE, uri |-> "", silent |-> 0]
    /\ ms = NewPhone(0, {}) @@ [retries |-> 0, aborts |-> 0, odd |-> 0]

\* CONNECT ACK of a data call: the peers begin anew.  The page may still be
\* fetching for the call before.
ConnectAck ==
    /\ ~call.on /\ call.count < CallMax
    /\ call' = [on |-> TRUE, count |-> call.count + 1, turn |-> FALSE]
    /\ p' = NewPeer /\ g' = NewPpp
    /\ UNCHANGED <<env, host, ms>>

\* What the host has for a request: the page, or nothing.
Fetched(uri) == {uri, "500"}

\* wap_host_pump: the helper runs while the emulator stands still.  Its answer
\* from a real gateway is a few datagrams, or none.
Pumped(x) ==
    IF ~x.pending \/ env.page \/ env.bridge = "deck" THEN {x}
    ELSE IF env.bridge = "fetch" THEN {Deliver(x, what) : what \in Fetched(x.uri)}
    ELSE (IF x.uri # "" THEN {FoldLeft(RelayDeliver, x, [i \in 1 .. env.segs |-> i])} ELSE {})
         \cup (IF x.uri = "" \/ host.silent < SilentMax THEN {[x EXCEPT !.pending = FALSE]} ELSE {})

-----------------------------------------------------------------------------
(* The phone. *)

Send(m, f) == [m EXCEPT !.up = @ \o <<Flag>> \o Body(f) \o <<Flag>>]

\* PAP when LCP is open both ways, IPCP next, and then requests.
Both == {"in", "out"}
React(m, f) ==
    CASE f.k = "LCP_REQ" -> [Send(m, F("LCP_ACK")) EXCEPT !.lcp = @ \cup {"in"}]
      [] f.k = "LCP_ACK" ->
            IF "out" \in m.lcp THEN m ELSE Send([m EXCEPT !.lcp = @ \cup {"out"}], F("PAP_REQ"))
      [] f.k = "PAP_ACK" -> Send(m, [F("IPCP_REQ") EXCEPT !.what = env.options])
      [] f.k = "IPCP_REJ" -> Send(m, [F("IPCP_REQ") EXCEPT !.what = "zero"])
      [] f.k = "IPCP_NAK" -> Send(m, [F("IPCP_REQ") EXCEPT !.what = "ok"])
      [] f.k = "IPCP_ACK" -> [m EXCEPT !.ipcp = @ \cup {"out"}]
      [] f.k = "IPCP_REQ" -> [Send(m, F("IPCP_ACK")) EXCEPT !.ipcp = @ \cup {"in"}]
      [] f.k = "RESULT" ->
            LET n == [m EXCEPT !.got = @ \cup {f}]
                all == f.tid = m.at /\ m.waiting
                       /\ env.segs = Cardinality({r \in n.got : r.tid = m.at})
            IN  IF ~all THEN n
                ELSE IF env.port = 9201
                THEN Send([n EXCEPT !.waiting = FALSE], [F("ACK") EXCEPT !.tid = f.tid])
                ELSE [n EXCEPT !.waiting = FALSE]
      [] OTHER -> m

\* A frame of the peer, and what is received with it if it is in sequence.
Receive(m, f, d) ==
    IF f.t = "UA" /\ m.link = "SABM" THEN [m EXCEPT !.link = "UP", !.vs = 0, !.vr = 0]
    ELSE IF f.t = "I" /\ m.link = "UP" /\ f.ns = m.vr
    THEN FoldLeft(React, [m EXCEPT !.vr = (@ + 1) % Modulus, !.rx = d.rx], d.frames)
    ELSE m

\* A data block with the peer's next frame, and then the host, if it answers at once.
CsdBlock ==
    /\ call.on
    /\ \E d \in {NextDownlink(p)} :
          /\ p' = d.q
          /\ \E rx \in {Deframe(ms.rx, d.f.cells)} : ms' = Receive(ms, d.f, rx)
    /\ \E x \in Pumped(g) :
          /\ g' = x
          /\ host' = IF g.pending /\ env.bridge = "relay" /\ g.uri # "" /\ Fits(g.uri) /\ x.out = g.out
                     THEN [host EXCEPT !.silent = @ + 1] ELSE host
    /\ call' = [call EXCEPT !.turn = TRUE]
    /\ UNCHANGED env

\* m2d 0x50: a frame of the phone.  The peer takes it, what it carried goes up,
\* and what is ready to go down is queued, results of the host among it.
UplinkFrame(f) ==
    /\ \E rx \in {Deframe(g.rx, IF InSequence(p, f) THEN f.cells ELSE <<>>)} :
       \E x \in {RxBytes(g, rx)} : \E d \in Drain(x, OnUplink(p, f)) : g' = d.x /\ p' = d.q
    /\ call' = [call EXCEPT !.turn = FALSE]
    /\ UNCHANGED <<env, host>>

CanSend == call.on /\ call.turn
Ul(t, cells) == [t |-> t, ns |-> ms.vs, cells |-> cells]

\* The phone opens the link, sends what it has, and otherwise supervises.
UplinkSabm ==
    /\ CanSend /\ ms.link = "DOWN"
    /\ UplinkFrame(Ul("SABM", <<>>))
    /\ ms' = Send([ms EXCEPT !.link = "SABM"], F("LCP_REQ"))

UplinkData ==
    /\ CanSend /\ ms.link = "UP"
    /\ IF ms.up = <<>> THEN UplinkFrame(Ul("RR", <<>>)) /\ UNCHANGED ms
       ELSE /\ UplinkFrame(Ul("I", First(PduLen, ms.up)))
            /\ ms' = [ms EXCEPT !.up = Rest(PduLen, @), !.vs = (@ + 1) % Modulus]

UplinkIdle ==
    /\ CanSend /\ ms.link \in {"SABM", "DISC"}
    /\ UplinkFrame(Ul("NULL", <<>>)) /\ UNCHANGED ms

\* Frames the phone need not send: it opens the link again, asks for parameters,
\* polls, or says something of its own in PPP.
UplinkOdd(t) ==
    /\ CanSend /\ ms.link = "UP" /\ ms.odd < OddMax /\ t \in env.odd
    /\ t \in {"SABM", "XID", "TEST", "POLL", "DISC"}
    /\ UplinkFrame(Ul(t, <<>>))
    /\ ms' = [ms EXCEPT !.odd = @ + 1,
                         !.link = IF t \in {"SABM", "DISC"} THEN t ELSE @]

OddPpp(k) ==
    /\ call.on /\ ms.link = "UP" /\ ms.odd < OddMax /\ k \in env.odd
    /\ k \in {"LCP_NAK", "ECHO_REQ", "TERM_REQ", "CCP"}
    /\ ms' = [Send(ms, F(k)) EXCEPT !.odd = @ + 1]
    /\ UNCHANGED <<env, call, p, g, host>>

Plan(n) == [F(IF env.port = 9201 THEN "INVOKE" ELSE "REQUEST")
              EXCEPT !.tid = n, !.what = env.plan[n]]

\* The next request.  A patient user of a page that answers later waits for it, also
\* after going back.
Request ==
    /\ call.on /\ ms.link = "UP" /\ ms.lcp = Both /\ ms.ipcp = Both /\ ~ms.waiting
    /\ ms.at < Len(env.plan)
    /\ env.page /\ env.patient => ~host.busy /\ ~g.pending /\ ms.up = <<>>
    /\ LET n == ms.at + 1
        IN  ms' = [Send(ms, Plan(n)) EXCEPT !.at = n, !.waiting = env.plan[n] # "DISCONNECT"]
    /\ UNCHANGED <<env, call, p, g, host>>

\* The phone's WTP timer: when nothing is on its way any more, and RetryMax times
\* before that.
Quiet == ms.up = <<>> /\ p.txq = <<>> /\ g.out = <<>> /\ ~g.pending /\ ~host.busy
Retransmit ==
    /\ call.on /\ ms.link = "UP" /\ ms.waiting /\ ms.up = <<>>
    /\ Quiet \/ ms.retries < RetryMax
    /\ ms' = [Send(ms, Plan(ms.at)) EXCEPT !.retries = IF Quiet THEN @ ELSE @ + 1]
    /\ UNCHANGED <<env, call, p, g, host>>

\* The user goes back.
Abort ==
    /\ call.on /\ ms.link = "UP" /\ ms.waiting /\ ms.aborts < AbortMax
    /\ ms' = [Send(ms, [F("ABORT") EXCEPT !.tid = ms.at]) EXCEPT !.waiting = FALSE, !.aborts = @ + 1]
    /\ UNCHANGED <<env, call, p, g, host>>

\* The call ends: blocks stop, and with them the host that answers at once.  Not
\* before the first request, which is a bound: nothing is up yet that could be cut off.
HangUp ==
    /\ call.on /\ ms.at > 0
    /\ call' = [call EXCEPT !.on = FALSE]
    /\ ms' = NewPhone(ms.at, ms.got) @@ ms
    /\ UNCHANGED <<env, p, g, host>>

-----------------------------------------------------------------------------
(* A page as host. *)

\* pumpWapGw: one fetch at a time.
PagePoll ==
    /\ env.page /\ ~host.busy /\ g.pending
    /\ host' = [host EXCEPT !.busy = TRUE, !.uri = g.uri]
    /\ UNCHANGED <<env, call, p, g, ms>>

PageDeliver ==
    /\ host.busy
    /\ host' = [host EXCEPT !.busy = FALSE, !.uri = ""]
    /\ \E what \in Fetched(host.uri) : g' = Deliver(g, what)
    /\ UNCHANGED <<env, call, p, ms>>

-----------------------------------------------------------------------------
Odd == {"SABM", "XID", "TEST", "POLL", "DISC", "LCP_NAK", "ECHO_REQ", "TERM_REQ", "CCP"}

Next ==
    \/ ConnectAck \/ CsdBlock \/ HangUp
    \/ UplinkSabm \/ UplinkData \/ UplinkIdle
    \/ \E t \in Odd : UplinkOdd(t) \/ OddPpp(t)
    \/ Request \/ Retransmit \/ Abort
    \/ PagePoll \/ PageDeliver

\* Blocks keep coming, the phone keeps sending and asks again, and a page answers.
Fairness ==
    /\ WF_vars(CsdBlock) /\ WF_vars(UplinkSabm \/ UplinkData \/ UplinkIdle)
    /\ WF_vars(Retransmit) /\ WF_vars(PagePoll)
    /\ WF_vars(PageDeliver)

Spec == Init /\ [][Next]_vars /\ Fairness

-----------------------------------------------------------------------------
(* Properties. *)

\* Numbers stay in their range, and no queue outgrows its buffer: the RLP peer's, PPP's
\* either way, which are drained within one frame of the phone, and the gateway's ring.
TypeOK ==
    /\ p.vr \in 0 .. Modulus - 1 /\ p.vs \in 0 .. Modulus - 1 /\ Len(p.txq) <= TxqN
    /\ Len(g.tx) <= PppTxN /\ Len(g.rx) <= MruN + 1 /\ Len(g.out) < OutN
    /\ g.tid \in 0 .. Len(env.plan) /\ g.tx = <<>>

\* Both ends of the link expect of each other the frame that comes next.
InStep == p.est /\ ~p.ua /\ ms.link = "UP" /\ call.on => p.vs = ms.vr /\ p.vr = ms.vs

\* Results, wherever they are: those that have arrived, and those that are ready.
Results == ms.got \cup Range(g.out)
           \cup {c.f : c \in {d \in Range(p.txq) : d.f.k = "RESULT"}}

Content(what) ==
    IF env.bridge = "relay" THEN {what}
    ELSE IF what = "CONNECT" THEN {"CONNECTED"}
    ELSE IF env.bridge = "deck" THEN {"deck"}
    ELSE {"500"} \cup (IF Fits(what) THEN {what} ELSE {})

\* A result carries what its transaction asked for, however late the host was and
\* whatever the phone aborted, repeated or asked for meanwhile: "a host-bridged fetch
\* answers later and must address the reply exactly as we would now" (wap.c:382-383).
RightPage == \A d \in Results : d.tid \in 1 .. ms.at /\ d.what \in Content(env.plan[d.tid])

\* All of it: the call's two stacks, from the link to the pages, agree in every state.
Consistent == TypeOK /\ InStep /\ RightPage

\* The one page that the gateway loses, however often the phone asks: see Deliver.
Lost(uri) == env.bridge # "deck" /\ uri # "CONNECT" /\ ~Fits(uri)
             /\ (env.bridge = "relay" \/ ReplyLen[uri] <= DgramMax)

\* What the phone asks for is answered, or it gives up or the call ends: no request is
\* left alone for good by a full queue, a silent gateway or a frame cut short, nor by a
\* request for a page that got lost before it.
Asking(n) == ms.waiting /\ ms.at = n /\ ms.link # "DISC" /\ ~Lost(env.plan[n])
Answered == \A n \in UNION {DOMAIN s.plan : s \in Settings} : Asking(n) ~> ~Asking(n)
=============================================================================
