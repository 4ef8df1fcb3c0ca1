------------------------------- MODULE IdProv -------------------------------
(***************************************************************************)
(* The re-provisioning service (services/identity_provision.c): it speaks  *)
(* to the phone's own service handlers over MBUS, one command at a time,   *)
(* writes two records, reads the IMEI back and ends with a settings reset. *)
(*                                                                         *)
(* A frame is one element of a sequence here: its bytes cross one at a     *)
(* time in the code (see Mbus), and a frame counts as sent when its last   *)
(* byte has.  The phone is outside the repository.  It answers a command   *)
(* with the next sequence number and repeats the answer until it is        *)
(* acknowledged (identity_provision.c:23-25, 54-55); it may miss a frame,  *)
(* and it may answer a write without storing it (:396-401).  Its own       *)
(* acknowledges and its hello frames, which the service skips, are left    *)
(* out.                                                                    *)
(*                                                                         *)
(* Operators marked "Wrong on purpose" are variants with a plausible       *)
(* mistake and not part of the model, see MdiRing.                         *)
(***************************************************************************)
EXTENDS Integers, Sequences

CONSTANTS
    Prologue,       \* the commands that open a session, in order
    StageFrames,    \* frames that fit into the staging buffer (256 bytes)
    RingFrames,     \* answers that fit into the UART's ring (64 bytes)
    Unread,         \* bound: frames the phone has received and not yet handled
    MaxRuns         \* bound: runs the user starts

Records == {"imei", "faid"}
Writes  == {"write imei", "write faid"}
Reset   == "reset"
Ack     == "ack"
None    == "none"

Commands == {Prologue[i] : i \in DOMAIN Prologue}
              \cup {"read msid", "read imei", Reset} \cup Writes
Seqs == 0 .. 255

ASSUME IdProvAssumption ==
    /\ Prologue \in Seq(STRING) /\ Prologue # <<>>
    /\ {Prologue[i] : i \in DOMAIN Prologue} \cap ({Reset, Ack, None, "read msid"} \cup Writes) = {}
    /\ StageFrames \in Nat \ {0} /\ RingFrames \in Nat \ {0}
    /\ Unread \in Nat \ {0} /\ MaxRuns \in Nat

VARIABLES
    tool,           \* the service, G in the source
    phone,          \* the phone (external)
    wire,           \* frames on their way: to the phone, and in the UART's ring
    did,            \* history: the writes the phone answered since the run began
    runs            \* runs started

vars == <<tool, phone, wire, did, runs>>

Ended   == {"idle", "done", "failed"}
Running == tool.state \notin Ended

-----------------------------------------------------------------------------
(* The service. *)

Frame(c, s) == [cmd |-> c, seq |-> s]

\* A frame that does not fit is cut short, and lost to the phone.
Stage(t, f) ==
    IF Len(t.staged) < StageFrames THEN [t EXCEPT !.staged = Append(@, f)] ELSE t

\* A command is staged and its reply awaited.
Send(t, c) == [Stage(t, Frame(c, t.seq)) EXCEPT !.expect = c]

CommandOf == [readMsid |-> "read msid", writeImei |-> "write imei",
              writeFaid |-> "write faid", verify |-> "read imei"]

Settle(t, next) == [t EXCEPT !.state = "settle", !.next = next]

\* The reset is sent without waiting for a reply.
BeginState(t, st) ==
    IF st = "reset"
    THEN [Settle(Send(t, Reset), "done") EXCEPT !.expect = None, !.resetSent = TRUE]
    ELSE Send([t EXCEPT !.state = st], CommandOf[st])

BeginRun(t) == Send([t EXCEPT !.state = "probe", !.step = 1], Prologue[1])

Fail(t) == [t EXCEPT !.state = "failed", !.expect = None, !.staged = <<>>]

\* Wrong on purpose: a reply is taken for the IMEI that was asked for.
OnVerify_AnyValue(t, f) ==
    IF t.verifyOnly
    THEN [t EXCEPT !.verified = TRUE, !.state = "done"]
    ELSE BeginState([t EXCEPT !.verified = TRUE], "reset")

\* The reply to the read-back.
OnVerify(t, f) ==
    LET v == [t EXCEPT !.verified = f.good]
    IN  IF ~f.good THEN [v EXCEPT !.state = "failed"]
        ELSE IF t.verifyOnly THEN [v EXCEPT !.state = "done"]
        ELSE BeginState(v, "reset")

\* The reply to the command of the current state.
OnReply(t, f) ==
    CASE t.state = "probe" ->
           IF t.step < Len(Prologue) THEN Send([t EXCEPT !.step = @ + 1], Prologue[t.step + 1])
                                     ELSE BeginState(t, "readMsid")
      [] t.state = "readMsid" -> BeginState(t, IF t.verifyOnly THEN "verify" ELSE "writeImei")
      [] t.state = "writeImei" -> Settle([t EXCEPT !.written = @ + 1], "writeFaid")
      [] t.state = "writeFaid" -> Settle([t EXCEPT !.written = @ + 1], "verify")
      [] t.state = "verify" -> OnVerify(t, f)

\* Wrong on purpose: any reply answers any command.
Hits_AnyReply(t, f) == t.expect # None

Hits(t, f) == t.expect # None /\ f.cmd = t.expect

\* A frame from the phone is acknowledged, and may be the awaited reply.
OnFrame(t, f) ==
    LET a == Stage(t, Frame(Ack, f.seq))
    IN  IF Hits(t, f) THEN OnReply([a EXCEPT !.seq = f.seq, !.expect = None], f) ELSE a

\* Everything received, handled frame by frame in the order it came.
Handled(t, out) ==
    LET after[i \in 0 .. Len(out)] == IF i = 0 THEN t ELSE OnFrame(after[i - 1], out[i])
    IN  after[Len(out)]

\* Wrong on purpose: the version step, whose command byte is 0, counts as not waiting.
Waiting_ByCommand(t) == t.expect \notin {None, "version"}

Waiting(t) == t.expect # None

-----------------------------------------------------------------------------
NoReply == [cmd |-> None, seq |-> 0, good |-> FALSE]

Fresh == [state |-> "idle", step |-> 1, next |-> "done", expect |-> None, written |-> 0,
          seq |-> 1, staged |-> <<>>, verified |-> FALSE, verifyOnly |-> FALSE,
          resetSent |-> FALSE]

Init ==
    /\ tool = Fresh
    /\ \E stored \in SUBSET Records, commits \in BOOLEAN :
         phone = [stored |-> stored, commits |-> commits, unacked |-> NoReply]
    /\ wire = [in |-> <<>>, out |-> <<>>]
    /\ did = {}
    /\ runs = 0

\* Wrong on purpose: what was staged before is not cleared.
Start_KeepsStage(verifyOnly) ==
    /\ ~Running /\ runs < MaxRuns
    /\ tool' = BeginRun([Fresh EXCEPT !.verifyOnly = verifyOnly, !.staged = tool.staged])
    /\ did' = {} /\ runs' = runs + 1
    /\ UNCHANGED <<phone, wire>>

\* The user starts a run, or a verify-only run; the records may fail to build.
Start(verifyOnly) ==
    /\ ~Running /\ runs < MaxRuns
    /\ \E built \in BOOLEAN :
         LET t == [Fresh EXCEPT !.verifyOnly = verifyOnly]
         IN  tool' = IF built THEN BeginRun(t) ELSE Fail(t)
    /\ did' = {} /\ runs' = runs + 1
    /\ UNCHANGED <<phone, wire>>

\* The tick while a record settles: nothing is sent or received.
TickSettle ==
    /\ tool.state = "settle"
    /\ tool' = IF tool.next = "done" THEN [tool EXCEPT !.state = "done"]
                                     ELSE BeginState(tool, tool.next)
    /\ UNCHANGED <<phone, wire, did, runs>>

\* Any other tick: a frame may leave, everything received is looked at, and then
\* the reply may be overdue, unless this tick has just started to wait for it.
TickPump(open, over) ==
    /\ Running /\ tool.state # "settle"
    /\ LET sends == open /\ tool.staged # <<>> /\ Len(wire.in) < Unread
           t1 == IF sends THEN [tool EXCEPT !.staged = Tail(@)] ELSE tool
           t2 == Handled(t1, wire.out)
           since == <<t2.state, t2.step>> = <<tool.state, tool.step>>
       IN  /\ tool' = IF over /\ since /\ Waiting(t2) THEN Fail(t2) ELSE t2
           /\ wire' = [in |-> IF sends THEN Append(wire.in, Head(tool.staged)) ELSE wire.in,
                       out |-> <<>>]
    /\ UNCHANGED <<phone, did, runs>>

-----------------------------------------------------------------------------
(* The phone (external). *)

Into(ring, f) == IF Len(ring) < RingFrames THEN Append(ring, f) ELSE ring

\* What a command makes of the records.
Stored(c) ==
    CASE phone.commits /\ c = "write imei" -> phone.stored \cup {"imei"}
      [] phone.commits /\ c = "write faid" -> phone.stored \cup {"faid"}
      [] OTHER -> phone.stored

\* It misses a frame; a phone that is silent for good misses every one.
PhoneMisses ==
    /\ wire.in # <<>>
    /\ wire' = [wire EXCEPT !.in = Tail(@)]
    /\ UNCHANGED <<tool, phone, did, runs>>

PhoneAcked ==
    /\ wire.in # <<>>
    /\ Head(wire.in) = Frame(Ack, phone.unacked.seq)
    /\ phone' = [phone EXCEPT !.unacked = NoReply]
    /\ wire' = [wire EXCEPT !.in = Tail(@)]
    /\ UNCHANGED <<tool, did, runs>>

PhoneAnswers ==
    /\ wire.in # <<>>
    /\ LET f == Head(wire.in)
           stored == Stored(f.cmd)
           reply == [cmd |-> f.cmd, seq |-> (f.seq + 1) % 256, good |-> "imei" \in stored]
       IN  /\ f.cmd \notin {Ack, Reset}
           /\ phone' = [phone EXCEPT !.stored = stored, !.unacked = reply]
           /\ wire' = [in |-> Tail(wire.in), out |-> Into(wire.out, reply)]
           /\ did' = did \cup (Writes \cap {f.cmd})
    /\ UNCHANGED <<tool, runs>>

PhoneRepeats ==
    /\ phone.unacked # NoReply
    /\ wire' = [wire EXCEPT !.out = Into(@, phone.unacked)]
    /\ UNCHANGED <<tool, phone, did, runs>>

-----------------------------------------------------------------------------
Next ==
    \/ \E verifyOnly \in BOOLEAN : Start(verifyOnly)
    \/ TickSettle
    \/ \E open, over \in BOOLEAN : TickPump(open, over)
    \/ PhoneMisses \/ PhoneAcked \/ PhoneAnswers \/ PhoneRepeats

\* Time passes: a settle ends and a deadline comes.
Fairness == WF_vars(TickSettle) /\ WF_vars(\E open \in BOOLEAN : TickPump(open, TRUE))

Spec == Init /\ [][Next]_vars /\ Fairness

-----------------------------------------------------------------------------
(* Properties. *)

States == Ended \cup DOMAIN CommandOf \cup {"probe", "settle"}

Replies == [cmd : Commands \cup {None}, seq : Seqs, good : BOOLEAN]

TypeOK ==
    /\ tool \in [state : States, step : DOMAIN Prologue, next : {"writeFaid", "verify", "done"},
                 expect : Commands \cup {None}, written : 0 .. 2, seq : Seqs,
                 staged : Seq([cmd : Commands \cup {Ack}, seq : Seqs]),
                 verified : BOOLEAN, verifyOnly : BOOLEAN, resetSent : BOOLEAN]
    /\ Len(tool.staged) <= StageFrames
    /\ phone \in [stored : SUBSET Records, commits : BOOLEAN, unacked : Replies]
    /\ wire \in [in : Seq([cmd : Commands \cup {Ack}, seq : Seqs]), out : Seq(Replies)]
    /\ Len(wire.in) <= Unread /\ Len(wire.out) <= RingFrames
    /\ did \subseteq Writes /\ runs \in 0 .. MaxRuns

\* Every run ends, done or failed, whatever the phone answers, repeats or misses:
\* each state waits for a reply that can time out, or settles.
EveryRunEnds == Running ~> ~Running

\* A run that reports success has left what it reports in the phone: the IMEI it
\* asked for, and after a writing run the second record too.  (Of a phone that
\* stores nothing but had the IMEI before, the read-back cannot tell.)
DoneMeansStored ==
    tool.state = "done" =>
        /\ "imei" \in phone.stored
        /\ tool.verifyOnly \/ ~phone.commits \/ "faid" \in phone.stored

\* The state keeps its type, the staging buffer its size; and the count of written
\* records never runs ahead of the phone: a repeated or late answer to something
\* else is not taken for the answer to a write.
WrittenTrue ==
    /\ TypeOK
    /\ tool.written >= 1 => "write imei" \in did
    /\ tool.written >= 2 => "write faid" \in did

\* A verify-only run sends nothing that changes the phone, also when an earlier
\* run was cut off in the middle.
VerifyChangesNothing ==
    tool.verifyOnly =>
        \A i \in DOMAIN tool.staged : tool.staged[i].cmd \notin Writes \cup {Reset}

\* "let the frame actually reach the phone" (identity_provision.c:275): a run that
\* reports the settings reset as sent has sent it.
ResetReachesPhone ==
    tool.state = "done" /\ tool.resetSent =>
        \A i \in DOMAIN tool.staged : tool.staged[i].cmd # Reset
=============================================================================
