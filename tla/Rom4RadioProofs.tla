-------------------------- MODULE Rom4RadioProofs --------------------------
(***************************************************************************)
(* Proofs about Rom4Radio, for queues, rounds and scans of any size and    *)
(* every kind of phone.                                                    *)
(*                                                                         *)
(* A request makes everything queued an answer to an older one, so         *)
(* Correlated rests on what is queued when the phone asks.  The phone asks *)
(* when no answer is to come (Settled), or while it camps, or gives up a   *)
(* search in the middle.  The invariant therefore says which phases the    *)
(* peer can be in at each place of the phone's procedure (Place), that a   *)
(* transaction nobody began is a broadcast (Peer), and what the records    *)
(* of queue and ring can be there (Queued, Underway).                      *)
(***************************************************************************)
EXTENDS Rom4Radio, SequenceTheorems, TLAPS

Broadcast == {"serving_bcch", "selected_bcch"}

\* Phases that their last report leaves.
Passing == Dedicated \cup
    {"candidate_channel_change", "candidate_ra_info", "serving_idle_ra",
     "serving_channel_change", "selected_channel_change", "selected_ra_info",
     "selected_bcch_channel_change", "assigned_channel_change", "release_channel_change"}

\* Where the report of a changed channel leads.
Arrival == Broadcast \cup {"candidate_ra_info", "selected_ra_info"}

Turning == {"serving_idle_ra", "serving_channel_change", "selected_bcch_channel_change"}

Ops == {"0x80", "0x83", "0x84", "0x86", "0x87", "0x89", "0x8b", "0x8c", "0x8f", "0x74"}

Octets  == Ras \cup {0}
Numbers == Frames \cup {0}

Stations == {"off", "search", "retired", "config", "verify", "camped", "receiver", "channel",
             "access", "assigned", "update", "release"}

Radios == [phase : Phases, remaining : Nat, mode : {"0x00", "0x40", "0x50"}, arfcn1 : BOOLEAN,
           round : 0 .. RoundMod - 1, serving : BOOLEAN, suspended : 0 .. SelectedN,
           ra : Octets, accessFrame : Numbers, fresh : BOOLEAN]

Recs == [op : Ops, of : Phases \cup Subs, fresh : BOOLEAN, ra : Octets, fn : Numbers]

Phones == [st : Stations, heard : SUBSET (Ops \cup {"sdcch", "ccch", "sch", "bcch", "other"}),
           ra : Octets, info : Octets \X Numbers, rejects : Nat,
           asked : SUBSET Subs, answered : SUBSET (Phases \cup Subs)]

-----------------------------------------------------------------------------
(* The invariant. *)

\* A transaction in a phase that its last report leaves has a report to come and was
\* begun by the firmware; what the firmware did not begin is broadcast.
Peer(r) ==
    /\ r \in Radios
    /\ r.phase = "serving_bcch" => r.remaining <= ServingN
    /\ r.phase = "selected_bcch" => r.remaining \in 1 .. SelectedN
    /\ r.phase = "candidate_channel_change" => r.remaining <= 2
    /\ r.phase \notin Broadcast => r.remaining <= 3
    /\ r.phase \in Passing => r.remaining >= 1 /\ r.fresh
    /\ r.phase \in Broadcast => ~r.fresh
    /\ ~r.fresh => r.remaining = 0 \/ r.phase \in Broadcast

\* What the phone's place says of the phase.
Place(r, st, heard) ==
    /\ st = "off" => r.phase = "inactive" /\ r.remaining = 0
    /\ st = "camped" => r.phase \in Broadcast
    /\ st = "verify" => r.phase \in Broadcast \cup {"selected_search"}
    /\ r.phase = "serving_bcch" /\ r.remaining = 0 => st = "retired"
    /\ st \in {"receiver", "channel"} => r.phase \in Broadcast \cup Turning
    /\ st \in {"config", "release"} /\ "0x89" \in heard => r.phase \in Arrival
    /\ r.phase = "assigned_channel_change" => st = "assigned"

\* A record the phone may take for an answer, whatever it waits for.
Strong(rec) ==
    /\ rec.op \notin {"0x74", "0x83"} /\ rec.of # "selected_bcch"
    /\ rec.op = "0x80" => Channel(rec.of) # "bcch"

\* What a record in queue or ring may be, and what one in the queue.
Underway(phase, st) ==
    {rec \in Recs :
        /\ rec.op = "0x89" => rec.fresh
        /\ st \in {"off", "camped"} => ~rec.fresh
        /\ st = "verify" => rec.op # "0x89"
        /\ st \in {"config", "release"} /\ rec.op = "0x89" => phase \in Arrival}

Queued(phase, st) ==
    {rec \in Underway(phase, st) :
        /\ Strong(rec) => rec.fresh
        /\ st = "verify" /\ phase = "selected_bcch" => ~Strong(rec)}

\* Queue and ring hold such records and no more than they have room for.
Mail(e, Q, A) ==
    /\ e \in [queue : Seq(Q), ring : Seq(A), lost : Nat]
    /\ Len(e.queue) <= QueueN /\ Len(e.ring) <= RingN

Secs == [want : SUBSET Subs, test : BOOLEAN, replied : BOOLEAN]

Inv ==
    /\ env \in Settings /\ fw \in Phones /\ sec \in Secs
    /\ Peer(radio)
    /\ Place(radio, fw.st, fw.heard)
    /\ Mail(egress, Queued(radio.phase, fw.st), Underway(radio.phase, fw.st))

-----------------------------------------------------------------------------
(* Constants. *)

LEMMA Sizes ==
    /\ QueueN \in Nat \ {0} /\ RingN \in Nat \ {0} /\ RoundMod \in Nat \ {0}
    /\ ServingN \in Nat /\ ServingN >= 2
    /\ SelectedN \in Nat /\ SelectedN >= 2
    /\ 0 \notin Ras
    /\ Settings # {} => \A s \in Settings : s.mode \in {"0x00", "0x40", "0x50"} /\ s.arfcn1 \in BOOLEAN
BY Rom4Assumption

LEMMA PhaseSets ==
    /\ Broadcast \subseteq Phases /\ Passing \subseteq Phases /\ Arrival \subseteq Phases
    /\ Turning \subseteq Passing
    /\ Broadcast \cap Passing = {}
BY DEF Broadcast, Passing, Arrival, Turning, Phases, Dedicated, Before, Search

-----------------------------------------------------------------------------
(* One report. *)

\* What the report op of r, which leaves s, does.
Reports(r, op, s) ==
    /\ op \in Ops \ {"0x74"}
    /\ Peer(s)
    /\ ~r.fresh => r.phase = "selected_bcch" \/ (r.phase = "serving_bcch" /\ op \in {"0x80", "0x83"})
    /\ op = "0x89" => r.fresh /\ (s.phase \in Arrival \/ r.phase = "assigned_channel_change")
    /\ r.phase \in Broadcast => s.phase \in Broadcast
    /\ r.phase \in Broadcast \cup {"selected_search"} => op # "0x89"
    /\ r.phase = "selected_search" => s.phase \in {"selected_search", "serving_bcch"}
    /\ r.phase \in Turning => s.phase = "serving_bcch"
    /\ r.phase \in Arrival => s.phase \in Arrival
    /\ r.phase = "serving_bcch" => s.phase = "serving_bcch"
    /\ s.phase = "serving_bcch" => s.remaining # 0
    /\ s.phase # "assigned_channel_change"

LEMMA CountedIs ==
    ASSUME NEW r, r \in Radios, r.remaining # 0, NEW op, NEW now \in Frames
    PROVE  /\ Counted(r, op, now) \in Radios
           /\ Counted(r, op, now).phase = r.phase
           /\ Counted(r, op, now).fresh = r.fresh
           /\ Counted(r, op, now).remaining = r.remaining - 1
<1> DEFINE round == IF op = "0x8b" /\ r.phase \notin Before THEN (r.round + 1) % RoundMod ELSE r.round
           frame == IF op = "0x84" /\ r.phase = "random_access" THEN now ELSE r.accessFrame
           left == r.remaining - 1
<1>1. round \in 0 .. RoundMod - 1
  BY Sizes DEF Radios
<1>2. frame \in Numbers
  BY DEF Radios, Numbers
<1>3. left \in Nat
  BY DEF Radios
<1>4. Counted(r, op, now) = [r EXCEPT !.round = round, !.accessFrame = frame, !.remaining = left]
  BY DEF Counted
<1> HIDE DEF round, frame, left
<1>5. /\ Counted(r, op, now) \in Radios
      /\ Counted(r, op, now).phase = r.phase
      /\ Counted(r, op, now).fresh = r.fresh
      /\ Counted(r, op, now).remaining = left
  BY <1>1, <1>2, <1>3, <1>4 DEF Radios
<1> QED  BY <1>5 DEF left

\* Go, Begin and Serve, in plain facts.
LEMMA GoIs ==
    ASSUME NEW r, r \in Radios, NEW phase \in Phases, NEW n \in Nat
    PROVE  /\ Go(r, phase, n) \in Radios
           /\ Go(r, phase, n).phase = phase /\ Go(r, phase, n).remaining = n
           /\ Go(r, phase, n).fresh = r.fresh
BY DEF Go, Radios

LEMMA BeginIs ==
    ASSUME NEW r, r \in Radios, NEW phase \in Phases, NEW n \in Nat
    PROVE  /\ Begin(r, phase, n) \in Radios
           /\ Begin(r, phase, n).phase = phase /\ Begin(r, phase, n).remaining = n
           /\ Begin(r, phase, n).fresh
BY DEF Begin, Go, Radios

LEMMA ServeIs ==
    ASSUME NEW r, r \in Radios
    PROVE  /\ Serve(r) \in Radios
           /\ Serve(r).phase = "serving_bcch" /\ Serve(r).remaining = ServingN
           /\ ~Serve(r).fresh
BY Sizes DEF Serve, Go, Radios, Phases

\* The report of each phase.
LEMMA ReportIs ==
    ASSUME NEW r, Peer(r), r.remaining # 0, r.phase # "inactive"
    PROVE  /\ NextReportType(r) \in Ops \ {"0x74"}
           /\ r.phase \in Before \cup {"release_deconfigure"} => NextReportType(r) = "0x87"
           /\ r.phase \in {"candidate_measurement", "candidate_sync", "candidate_retry"} =>
                NextReportType(r) \in {"0x87", "0x8b", "0x80"}
           /\ r.phase = "candidate_channel_change" =>
                NextReportType(r) = IF r.remaining = 2 THEN "0x8f" ELSE "0x89"
           /\ r.phase = "selected_search" => NextReportType(r) \in {"0x8b", "0x80", "0x87"}
           /\ r.phase = "serving_bcch" => /\ NextReportType(r) \in {"0x80", "0x83"}
                                          /\ r.remaining = 1 => NextReportType(r) = "0x83"
           /\ r.phase = "selected_bcch" => /\ NextReportType(r) \in {"0x80", "0x83", "0x87"}
                                           /\ r.remaining = 1 <=> NextReportType(r) = "0x87"
           /\ r.phase \in {"candidate_ra_info", "selected_ra_info"} => NextReportType(r) = "0x84"
           /\ r.phase \in {"serving_idle_ra"} => NextReportType(r) = "0x8c"
           /\ r.phase = "random_access" => NextReportType(r) \in {"0x8c", "0x84", "0x80"}
           /\ r.phase = "lapdm_establish" => NextReportType(r) = "0x86"
           /\ r.phase \in Dedicated => NextReportType(r) = "0x80"
<1>1. r.phase \in Phases /\ r.remaining \in Nat
  BY DEF Peer, Radios
<1>2. ~Even(1)
  BY DEF Even
<1>3. CASE r.phase \in Before \cup {"release_deconfigure"}
  BY <1>3 DEF NextReportType, Before, Ops, Dedicated
<1>4. CASE r.phase \in Search \cup {"candidate_retry", "candidate_channel_change", "selected_search"}
  BY <1>4 DEF NextReportType, Before, Search, Ops, Dedicated
<1>5. CASE r.phase \in Broadcast
  BY <1>1, <1>2, <1>5 DEF NextReportType, Before, Ops, Dedicated, Broadcast
<1>6. CASE r.phase \in {"candidate_ra_info", "selected_ra_info", "serving_idle_ra",
                      "random_access", "lapdm_establish"}
  BY <1>6 DEF NextReportType, Before, Ops, Dedicated
<1>7. CASE r.phase \in {"serving_channel_change", "selected_channel_change",
                      "selected_bcch_channel_change", "assigned_channel_change",
                      "release_channel_change"}
  BY <1>7 DEF NextReportType, Before, Ops, Dedicated
<1>8. CASE r.phase \in Dedicated
  BY <1>8 DEF NextReportType, Before, Ops, Dedicated
<1> QED
  BY <1>1, <1>3, <1>4, <1>5, <1>6, <1>7, <1>8 DEF Phases, Search, Broadcast

LEMMA EmitPeer ==
    ASSUME NEW r, Peer(r), Due(r), NEW now \in Frames
    PROVE  Reports(r, NextReportType(r),
                   AdvanceAfterReport(Counted(r, NextReportType(r), now), NextReportType(r)))
<1> DEFINE op == NextReportType(r)
           q == Counted(r, op, now)
           s == AdvanceAfterReport(q, op)
<1> SUFFICES Reports(r, op, s)
  OBVIOUS
<1>1. r \in Radios /\ r.phase \in Phases /\ r.remaining \in Nat /\ r.remaining # 0
      /\ r.phase # "inactive"
  BY DEF Peer, Radios, Due
<1>2. q \in Radios /\ q.phase = r.phase /\ q.fresh = r.fresh /\ q.remaining = r.remaining - 1
  BY <1>1, CountedIs
<1>3. op \in Ops \ {"0x74"}
  BY <1>1, ReportIs
<1> HIDE DEF q
<1>4. CASE r.phase \in Before \cup Search \cup
               {"release_deconfigure", "candidate_retry", "random_access", "lapdm_establish"}
  <2>1. op \in {"0x87", "0x8b", "0x80", "0x8c", "0x84", "0x86"}
    BY <1>1, <1>4, ReportIs DEF Search
  <2> HIDE DEF op
  <2>2. s = q
    BY <1>2, <1>4, <2>1 DEF AdvanceAfterReport, Before, Search
  <2> HIDE DEF s
  <2> QED
    BY <1>1, <1>2, <1>3, <1>4, <2>1, <2>2
       DEF Reports, Peer, Before, Search, Passing, Broadcast, Arrival, Turning, Dedicated
<1>5. CASE r.phase = "candidate_channel_change"
  <2>1. op = IF r.remaining = 2 THEN "0x8f" ELSE "0x89"
    BY <1>1, <1>5, ReportIs
  <2>2. "candidate_ra_info" \in Phases /\ 1 \in Nat
    BY DEF Phases
  <2> HIDE DEF op
  <2>3. CASE r.remaining = 2
    <3>1. s = q
      BY <1>2, <1>5, <2>1, <2>3 DEF AdvanceAfterReport
    <3> HIDE DEF s
    <3> QED
      BY <1>1, <1>2, <1>3, <1>5, <2>1, <2>3, <3>1
         DEF Reports, Peer, Passing, Broadcast, Arrival, Turning, Dedicated
  <2>4. CASE r.remaining # 2
    <3>1. s = Go(q, "candidate_ra_info", 1)
      BY <1>2, <1>5, <2>1, <2>4 DEF AdvanceAfterReport
    <3>2. s \in Radios /\ s.phase = "candidate_ra_info" /\ s.remaining = 1 /\ s.fresh = q.fresh
      BY <1>2, <2>2, <3>1, GoIs
    <3> HIDE DEF s
    <3> QED
      BY <1>1, <1>2, <1>3, <1>5, <2>1, <2>4, <3>2
         DEF Reports, Peer, Passing, Broadcast, Arrival, Turning, Dedicated
  <2> QED  BY <2>3, <2>4
<1>6. CASE r.phase = "selected_search"
  <2>1. op \in {"0x8b", "0x80", "0x87"}
    BY <1>1, <1>6, ReportIs
  <2> HIDE DEF op
  <2>2. CASE op # "0x87"
    <3>1. s = q
      BY <1>2, <1>6, <2>1, <2>2 DEF AdvanceAfterReport
    <3> HIDE DEF s
    <3> QED
      BY <1>1, <1>2, <1>3, <1>6, <2>1, <3>1
         DEF Reports, Peer, Passing, Broadcast, Arrival, Turning, Dedicated
  <2>3. CASE op = "0x87"
    <3>1. s = Serve(q)
      BY <1>2, <1>6, <2>3 DEF AdvanceAfterReport
    <3>2. s \in Radios /\ s.phase = "serving_bcch" /\ s.remaining = ServingN /\ ~s.fresh
      BY <1>2, <3>1, ServeIs
    <3> HIDE DEF s
    <3> QED
      BY <1>1, <1>2, <1>3, <1>6, <2>1, <3>2, Sizes
         DEF Reports, Peer, Passing, Broadcast, Arrival, Turning, Dedicated
  <2> QED  BY <2>2, <2>3
<1>7. CASE r.phase = "serving_bcch"
  <2>1. op \in {"0x80", "0x83"} /\ (r.remaining = 1 => op = "0x83")
    BY <1>1, <1>7, ReportIs
  <2> HIDE DEF op
  <2>2. CASE r.remaining # 1
    <3>1. s = q
      BY <1>1, <1>2, <1>7, <2>1, <2>2 DEF AdvanceAfterReport
    <3> HIDE DEF s
    <3> QED
      BY <1>1, <1>2, <1>3, <1>7, <2>1, <2>2, <3>1, Sizes
         DEF Reports, Peer, Passing, Broadcast, Arrival, Turning, Dedicated
  <2>3. CASE r.remaining = 1
    <3>1. s = Serve(q)
      BY <1>1, <1>2, <1>7, <2>1, <2>3 DEF AdvanceAfterReport
    <3>2. s \in Radios /\ s.phase = "serving_bcch" /\ s.remaining = ServingN /\ ~s.fresh
      BY <1>2, <3>1, ServeIs
    <3> HIDE DEF s
    <3> QED
      BY <1>1, <1>2, <1>3, <1>7, <2>1, <3>2, Sizes
         DEF Reports, Peer, Passing, Broadcast, Arrival, Turning, Dedicated
  <2> QED  BY <2>2, <2>3
<1>8. CASE r.phase = "selected_bcch"
  <2>1. op \in {"0x80", "0x83", "0x87"} /\ (r.remaining = 1 <=> op = "0x87")
    BY <1>1, <1>8, ReportIs
  <2>4. ~r.fresh /\ r.remaining <= SelectedN
    BY <1>8 DEF Peer, Broadcast
  <2> HIDE DEF op
  <2>2. CASE r.remaining # 1
    <3>1. s = q
      BY <1>1, <1>2, <1>8, <2>1, <2>2 DEF AdvanceAfterReport
    <3>2. q.remaining \in 1 .. SelectedN
      BY <1>1, <1>2, <2>4, <2>2, Sizes
    <3> HIDE DEF s
    <3> QED
      BY <1>1, <1>2, <1>3, <1>8, <2>4, <2>1, <3>1, <3>2
         DEF Reports, Peer, Passing, Broadcast, Arrival, Turning, Dedicated
  <2>3. CASE r.remaining = 1
    <3>1. s = Serve(q)
      BY <1>1, <1>2, <1>8, <2>1, <2>3 DEF AdvanceAfterReport
    <3>2. s \in Radios /\ s.phase = "serving_bcch" /\ s.remaining = ServingN /\ ~s.fresh
      BY <1>2, <3>1, ServeIs
    <3> HIDE DEF s
    <3> QED
      BY <1>1, <1>2, <1>3, <1>8, <2>4, <2>1, <3>2, Sizes
         DEF Reports, Peer, Passing, Broadcast, Arrival, Turning, Dedicated
  <2> QED  BY <2>2, <2>3
<1>9. CASE r.phase \in {"candidate_ra_info", "serving_idle_ra", "serving_channel_change",
                      "release_channel_change", "selected_bcch_channel_change"}
  <2> HIDE DEF op
  <2>1. s = Serve(q) \/ s = [Serve(q) EXCEPT !.suspended = 0]
    BY <1>2, <1>9 DEF AdvanceAfterReport
  <2>2. Serve(q) \in Radios /\ Serve(q).phase = "serving_bcch" /\ Serve(q).remaining = ServingN
        /\ ~Serve(q).fresh
    BY <1>2, ServeIs
  <2>3. 0 \in 0 .. SelectedN
    BY Sizes
  <2>4. s \in Radios /\ s.phase = "serving_bcch" /\ s.remaining = ServingN /\ ~s.fresh
    BY <2>1, <2>2, <2>3 DEF Radios
  <2>5. r.fresh
    BY <1>9 DEF Peer, Passing
  <2> HIDE DEF s
  <2> QED
    BY <1>1, <1>2, <1>3, <1>9, <2>4, <2>5, Sizes
       DEF Reports, Peer, Passing, Broadcast, Arrival, Turning, Dedicated
<1>10. CASE r.phase \in {"selected_channel_change", "assigned_channel_change"} \cup Dedicated
  <2>1. r.fresh
    BY <1>10 DEF Peer, Passing
  <2>2. r.phase \in Dedicated => op = "0x80"
    BY <1>1, ReportIs
  <2> HIDE DEF op
  <2>3. {"selected_ra_info", "lapdm_establish", "location_update_accept", "rr_channel_release",
         "release_deconfigure"} \subseteq Phases /\ 0 \in Nat /\ 1 \in Nat
    BY DEF Phases, Dedicated
  <2>4. \/ r.phase = "selected_channel_change" /\ s = Go(q, "selected_ra_info", 1)
        \/ r.phase = "assigned_channel_change" /\ s = Go(q, "lapdm_establish", 1)
        \/ r.phase = "contention_resolution" /\ s = Go(q, "location_update_accept", 1)
        \/ r.phase = "location_update_accept" /\ s = Go(q, "rr_channel_release", 1)
        \/ r.phase = "rr_channel_release" /\ s = Go(q, "release_deconfigure", 0)
    BY <1>2, <1>10 DEF AdvanceAfterReport, Dedicated
  <2>5. /\ s \in Radios /\ s.fresh = q.fresh
        /\ \/ r.phase = "selected_channel_change" /\ s.phase = "selected_ra_info" /\ s.remaining = 1
           \/ r.phase = "assigned_channel_change" /\ s.phase = "lapdm_establish" /\ s.remaining = 1
           \/ r.phase = "contention_resolution" /\ s.phase = "location_update_accept" /\ s.remaining = 1
           \/ r.phase = "location_update_accept" /\ s.phase = "rr_channel_release" /\ s.remaining = 1
           \/ r.phase = "rr_channel_release" /\ s.phase = "release_deconfigure" /\ s.remaining = 0
    <3>1. \A phase \in Phases, n \in Nat :
             /\ Go(q, phase, n) \in Radios /\ Go(q, phase, n).fresh = q.fresh
             /\ Go(q, phase, n).phase = phase /\ Go(q, phase, n).remaining = n
      BY <1>2, GoIs
    <3> HIDE DEF s
    <3> QED
      BY ONLY <2>3, <2>4, <3>1
  <2> HIDE DEF s
  <2> QED
    BY <1>1, <1>2, <1>3, <1>10, <2>1, <2>2, <2>5
       DEF Reports, Peer, Passing, Broadcast, Arrival, Turning, Dedicated
<1>11. CASE r.phase = "selected_ra_info"
  <2> DEFINE g == Go(q, "selected_bcch", SelectedN)
  <2>1. op = "0x84"
    BY <1>1, <1>11, ReportIs
  <2>2. r.fresh
    BY <1>11 DEF Peer, Passing
  <2> HIDE DEF op
  <2>3. s = [g EXCEPT !.fresh = FALSE]
    BY <1>2, <1>11 DEF AdvanceAfterReport
  <2>4. "selected_bcch" \in Phases /\ SelectedN \in Nat
    BY Sizes DEF Phases
  <2>5. g \in Radios /\ g.phase = "selected_bcch" /\ g.remaining = SelectedN
    BY <1>2, <2>4, GoIs
  <2> HIDE DEF g
  <2>6. s \in Radios /\ s.phase = "selected_bcch" /\ s.remaining = SelectedN /\ ~s.fresh
    BY <2>3, <2>5 DEF Radios
  <2> HIDE DEF s
  <2> QED
    BY <1>1, <1>2, <1>3, <1>11, <2>1, <2>2, <2>6, Sizes
       DEF Reports, Peer, Passing, Broadcast, Arrival, Turning, Dedicated
<1> QED
  BY <1>1, <1>4, <1>5, <1>6, <1>7, <1>8, <1>9, <1>10, <1>11 DEF Phases, Search

-----------------------------------------------------------------------------
(* One request. *)

\* What every request leaves: no round of broadcast begins, and none is cut.
Asked(r, s) ==
    /\ Peer(s)
    /\ s.phase = "serving_bcch" => r.phase = "serving_bcch" /\ s.remaining = r.remaining
    /\ s.phase = "selected_bcch" => r.phase = "selected_bcch"

\* A transaction that the firmware begins.
LEMMA BeginPeer ==
    ASSUME NEW r, r \in Radios, NEW phase \in Phases \ Broadcast, NEW n \in 1 .. 3,
           phase = "candidate_channel_change" => n <= 2
    PROVE  /\ Peer(Begin(r, phase, n)) /\ Asked(r, Begin(r, phase, n))
           /\ Begin(r, phase, n).phase = phase
<1>1. /\ Begin(r, phase, n) \in Radios /\ Begin(r, phase, n).phase = phase
      /\ Begin(r, phase, n).remaining = n /\ Begin(r, phase, n).fresh
  BY BeginIs
<1> QED  BY <1>1 DEF Peer, Asked, Broadcast

\* A request that is not taken changes nothing.
LEMMA AskedSame == ASSUME NEW r, Peer(r) PROVE Asked(r, r)
BY DEF Asked

\* The other fields of a radio do not matter.
LEMMA OtherFields ==
    ASSUME NEW r, NEW s, Peer(s), NEW t, t \in Radios, t.phase = s.phase,
           t.remaining = s.remaining, t.fresh = s.fresh
    PROVE  Peer(t) /\ (Asked(r, s) => Asked(r, t))
BY DEF Peer, Asked

LEMMA SearchIs ==
    ASSUME NEW r, Peer(r), ~r.fresh, NEW mode \in {"0x00", "0x40", "0x50"},
           NEW arfcn1 \in BOOLEAN
    PROVE  /\ Asked(r, SearchList(r, mode, arfcn1))
           /\ SearchList(r, mode, arfcn1).phase \notin {"serving_bcch", "assigned_channel_change"}
           /\ r.phase \in Broadcast \cup {"selected_search"} =>
                SearchList(r, mode, arfcn1).phase \in {"selected_bcch", "selected_search"}
<1> DEFINE t == [r EXCEPT !.mode = mode, !.arfcn1 = arfcn1]
           s == SearchList(r, mode, arfcn1)
<1> SUFFICES /\ Asked(r, s)
             /\ s.phase \notin {"serving_bcch", "assigned_channel_change"}
             /\ r.phase \in Broadcast \cup {"selected_search"} =>
                  s.phase \in {"selected_bcch", "selected_search"}
  OBVIOUS
<1>1. t \in Radios /\ t.phase = r.phase /\ t.remaining = r.remaining /\ t.fresh = r.fresh
  BY DEF Peer, Radios
<1>2. Peer(t) /\ Asked(r, t)
  BY <1>1, AskedSame, OtherFields
<1>3. r.phase # "assigned_channel_change"
  BY DEF Peer, Passing, Broadcast
<1> DEFINE n1 == Begin(t, "initial_search", 2)
           n2 == Begin(t, "post_deactivate_search", 2)
           n3 == Begin(t, "candidate_measurement", 1)
           n4 == Begin(t, "candidate_sync", 2)
           n5 == Begin(t, "candidate_retry", 2)
           n6 == Begin(t, "selected_search", 2)
<1>4. \/ s \in {n1, n2, n3, n4, n5} /\ r.phase \notin Broadcast \cup {"selected_search"}
      \/ s = [n6 EXCEPT !.serving = TRUE] \/ s = [n6 EXCEPT !.serving = FALSE]
      \/ s = t /\ r.phase # "serving_bcch"
  <2>1. s = CASE t.phase = "inactive" /\ t.remaining = 0 -> n1
              [] t.phase = "initial_search" /\ t.remaining = 0 -> n2
              [] t.phase \in {"post_deactivate_search", "candidate_retry"} /\ t.remaining = 0 -> n3
              [] t.phase = "candidate_measurement" /\ t.remaining = 0 ->
                    IF t.round >= MeasureN THEN n4 ELSE n3
              [] t.phase = "candidate_sync" /\ t.remaining = 0 -> n5
              [] t.phase = "serving_bcch" -> [n6 EXCEPT !.serving = TRUE]
              [] t.phase = "selected_search" /\ t.remaining = 0 -> [n6 EXCEPT !.serving = FALSE]
              [] OTHER -> t
    BY DEF SearchList
  <2> HIDE DEF s, t, n1, n2, n3, n4, n5, n6
  <2> QED  BY <1>1, <2>1 DEF Broadcast
<1>5. CASE s = t /\ r.phase # "serving_bcch"
  <2> HIDE DEF t, s
  <2> QED  BY <1>1, <1>2, <1>3, <1>5 DEF Broadcast
<1>6. ASSUME NEW phase \in {"initial_search", "post_deactivate_search", "candidate_measurement",
                          "candidate_sync", "candidate_retry", "selected_search"},
             NEW n \in 1 .. 2, NEW v \in BOOLEAN,
             s = Begin(t, phase, n) \/ s = [Begin(t, phase, n) EXCEPT !.serving = v]
      PROVE  Asked(r, s) /\ s.phase = phase
  <2> DEFINE b == Begin(t, phase, n)
  <2>1. phase \in Phases \ Broadcast /\ phase # "candidate_channel_change" /\ n \in 1 .. 3
    BY <1>6 DEF Phases, Before, Search, Broadcast
  <2>2. b \in Radios /\ b.phase = phase /\ b.remaining = n /\ b.fresh
    BY <1>1, <2>1, BeginIs
  <2>3. Peer(b)
    BY <1>1, <2>1, BeginPeer
  <2>4. Asked(r, b)
    BY <2>1, <2>2, <2>3 DEF Asked, Broadcast
  <2>5. s = b \/ s = [b EXCEPT !.serving = v]
    BY <1>6
  <2> HIDE DEF b, s, t
  <2>6. s \in Radios /\ s.phase = b.phase /\ s.remaining = b.remaining /\ s.fresh = b.fresh
    BY <2>2, <2>5 DEF Radios
  <2> QED  BY <2>2, <2>3, <2>4, <2>6, OtherFields
<1>7. CASE s \in {n1, n2, n3, n4, n5} /\ r.phase \notin Broadcast \cup {"selected_search"}
  <2>1. 1 \in 1 .. 2 /\ 2 \in 1 .. 2 /\ TRUE \in BOOLEAN
    OBVIOUS
  <2> HIDE DEF s, t
  <2> QED  BY <1>6, <1>7, <2>1
<1>8. CASE s = [n6 EXCEPT !.serving = TRUE] \/ s = [n6 EXCEPT !.serving = FALSE]
  <2>1. 2 \in 1 .. 2 /\ TRUE \in BOOLEAN /\ FALSE \in BOOLEAN
    OBVIOUS
  <2>2. Asked(r, s) /\ s.phase = "selected_search"
    <3> HIDE DEF s, t
    <3> QED  BY <1>6, <1>8, <2>1
  <2> QED  BY <2>2
<1> QED  BY <1>4, <1>5, <1>7, <1>8

LEMMA ConfigureIs ==
    ASSUME NEW r, Peer(r), ~r.fresh, NEW channel
    PROVE  /\ Asked(r, ChannelConfigure(r, channel))
           /\ ChannelConfigure(r, channel).phase = "assigned_channel_change" => channel = "0x80"
           /\ r.phase \in Broadcast => ChannelConfigure(r, channel).phase \in Broadcast \cup Turning
<1> DEFINE s == ChannelConfigure(r, channel)
<1> SUFFICES /\ Asked(r, s)
             /\ s.phase = "assigned_channel_change" => channel = "0x80"
             /\ r.phase \in Broadcast => s.phase \in Broadcast \cup Turning
  OBVIOUS
<1>1. r \in Radios /\ r.remaining \in Nat /\ r.phase # "assigned_channel_change"
      /\ (r.phase = "selected_bcch" => r.remaining \in 0 .. SelectedN)
  BY Sizes DEF Peer, Passing, Broadcast, Radios
<1> DEFINE c == Begin(r, "selected_bcch_channel_change", 1)
<1>2. \/ s = r
      \/ r.phase = "selected_bcch" /\ s = [c EXCEPT !.suspended = r.remaining]
      \/ \E phase \in {"candidate_channel_change", "selected_channel_change",
                       "serving_channel_change", "assigned_channel_change",
                       "release_channel_change"}, n \in 1 .. 2 :
            /\ s = Begin(r, phase, n)
            /\ phase = "assigned_channel_change" => channel = "0x80"
            /\ r.phase \in Broadcast => phase = "serving_channel_change"
  <2>1. 1 \in 1 .. 2 /\ 2 \in 1 .. 2
    OBVIOUS
  <2> QED  BY <2>1 DEF ChannelConfigure, Broadcast
<1>3. CASE s = r
  BY <1>1, <1>3, AskedSame
<1>4. CASE r.phase = "selected_bcch" /\ s = [c EXCEPT !.suspended = r.remaining]
  <2>1. "selected_bcch_channel_change" \in Phases \ Broadcast /\ 1 \in 1 .. 3 /\ 1 \in Nat
    BY DEF Phases, Broadcast
  <2>2. Peer(c) /\ Asked(r, c) /\ c \in Radios /\ c.phase = "selected_bcch_channel_change"
    BY <1>1, <2>1, BeginPeer, BeginIs
  <2> HIDE DEF c, s
  <2>3. s \in Radios /\ s.phase = c.phase /\ s.remaining = c.remaining /\ s.fresh = c.fresh
    BY <1>1, <1>4, <2>2 DEF Radios
  <2> QED  BY <2>2, <2>3, OtherFields DEF Turning
<1>5. ASSUME NEW phase \in {"candidate_channel_change", "selected_channel_change",
                       "serving_channel_change", "assigned_channel_change",
                       "release_channel_change"}, NEW n \in 1 .. 2,
            /\ s = Begin(r, phase, n)
            /\ phase = "assigned_channel_change" => channel = "0x80"
            /\ r.phase \in Broadcast => phase = "serving_channel_change"
      PROVE /\ Asked(r, s)
            /\ s.phase = "assigned_channel_change" => channel = "0x80"
            /\ r.phase \in Broadcast => s.phase \in Broadcast \cup Turning
  <2>1. phase \in Phases \ Broadcast /\ n \in 1 .. 3 /\ n <= 2
    BY DEF Phases, Broadcast
  <2>2. Asked(r, Begin(r, phase, n)) /\ Begin(r, phase, n).phase = phase
    BY <1>1, <2>1, BeginPeer
  <2> QED  BY <1>5, <2>2 DEF Turning
<1> QED  BY <1>2, <1>3, <1>4, <1>5

LEMMA IdleRaIs ==
    ASSUME NEW r, Peer(r), ~r.fresh, NEW ra \in Octets
    PROVE  /\ Asked(r, IdleRa(r, ra))
           /\ IdleRa(r, ra).phase # "assigned_channel_change"
           /\ r.phase \in Broadcast /\ ra = 0 => IdleRa(r, ra).phase \in Broadcast \cup Turning
<1> DEFINE s == IdleRa(r, ra)
<1> SUFFICES /\ Asked(r, s)
             /\ s.phase # "assigned_channel_change"
             /\ r.phase \in Broadcast /\ ra = 0 => s.phase \in Broadcast \cup Turning
  OBVIOUS
<1>1. r \in Radios /\ r.phase # "assigned_channel_change"
  BY DEF Peer, Passing, Broadcast
<1>2. CASE r.phase # "serving_bcch"
  BY <1>1, <1>2, AskedSame DEF IdleRa
<1>3. CASE r.phase = "serving_bcch"
  <2> DEFINE phase == IF ra # 0 THEN "random_access" ELSE "serving_idle_ra"
             n == IF ra # 0 THEN 3 ELSE 1
             b == Begin(r, phase, n)
  <2>1. phase \in Phases \ Broadcast /\ n \in 1 .. 3 /\ n \in Nat
        /\ phase # "candidate_channel_change" /\ phase # "assigned_channel_change"
    BY DEF Phases, Broadcast
  <2>2. ra = 0 => phase = "serving_idle_ra"
    OBVIOUS
  <2>3. s = [b EXCEPT !.ra = ra, !.accessFrame = 0]
    BY <1>3 DEF IdleRa
  <2> HIDE DEF phase, n
  <2>4. Peer(b) /\ Asked(r, b) /\ b \in Radios /\ b.phase = phase
    BY <1>1, <2>1, BeginPeer, BeginIs
  <2> HIDE DEF b, s
  <2>5. s \in Radios /\ s.phase = b.phase /\ s.remaining = b.remaining /\ s.fresh = b.fresh
    BY <2>3, <2>4 DEF Radios, Numbers
  <2>6. Asked(r, s)
    BY <2>4, <2>5, OtherFields
  <2> QED  BY <2>1, <2>2, <2>4, <2>5, <2>6 DEF Turning
<1> QED  BY <1>2, <1>3

LEMMA SendBlockIs ==
    ASSUME NEW r, Peer(r), ~r.fresh
    PROVE  Asked(r, SendBlock(r)) /\ SendBlock(r).phase # "assigned_channel_change"
<1>1. r \in Radios /\ r.phase # "assigned_channel_change"
  BY DEF Peer, Passing, Broadcast
<1>2. "contention_resolution" \in Phases \ Broadcast /\ 1 \in 1 .. 3
  BY DEF Phases, Broadcast, Dedicated
<1>3. Asked(r, Begin(r, "contention_resolution", 1))
      /\ Begin(r, "contention_resolution", 1).phase = "contention_resolution"
  BY <1>1, <1>2, BeginPeer
<1> QED  BY <1>1, <1>3, AskedSame DEF SendBlock

-----------------------------------------------------------------------------
(* Queue and ring. *)

LEMMA MailGrows ==
    ASSUME NEW e, NEW Q, NEW A, NEW P, NEW B, Mail(e, Q, A), Q \subseteq P, A \subseteq B
    PROVE  Mail(e, P, B)
<1>1. e.queue \in Seq(P) /\ e.ring \in Seq(B)
  BY SeqMonotonic DEF Mail
<1> QED  BY <1>1 DEF Mail

LEMMA MailOf ==
    ASSUME NEW e, NEW Q, NEW A, Mail(e, Q, A)
    PROVE  /\ \A rec \in Range(e.queue) : rec \in Q
           /\ \A rec \in Range(e.ring) : rec \in A
<1>1. e.queue \in Seq(Q) /\ e.ring \in Seq(A)
  BY DEF Mail
<1>2. \A i \in DOMAIN e.queue : e.queue[i] \in Q
  BY <1>1, LenProperties, ElementOfSeq
<1>3. \A i \in DOMAIN e.ring : e.ring[i] \in A
  BY <1>1, LenProperties, ElementOfSeq
<1> QED  BY <1>2, <1>3 DEF Range

LEMMA EnqueueMail ==
    ASSUME NEW e, NEW Q, NEW A, Mail(e, Q, A), NEW rec \in Q
    PROVE  Mail(Enqueue(e, rec), Q, A)
<1>1. CASE ~(Len(e.queue) < QueueN)
  BY <1>1 DEF Enqueue
<1>2. CASE Len(e.queue) < QueueN
  <2> DEFINE q == Append(e.queue, rec)
  <2>1. e.queue \in Seq(Q) /\ Len(e.queue) \in Nat
    BY DEF Mail
  <2>2. q \in Seq(Q) /\ Len(q) <= QueueN
    BY <1>2, <2>1, Sizes
  <2>3. Enqueue(e, rec) = [e EXCEPT !.queue = q]
    BY <1>2 DEF Enqueue
  <2> HIDE DEF q
  <2> QED  BY <2>2, <2>3 DEF Mail
<1> QED  BY <1>1, <1>2

LEMMA PostMail ==
    ASSUME NEW e, NEW Q, NEW A, Mail(e, Q, A), Q \subseteq A
    PROVE  Mail(Post(e), Q, A)
<1>1. CASE ~(e.queue # <<>> /\ Len(e.ring) < RingN)
  BY <1>1 DEF Post
<1>2. CASE e.queue # <<>> /\ Len(e.ring) < RingN
  <2> DEFINE h == Head(e.queue)
             q == Tail(e.queue)
             g == Append(e.ring, h)
  <2>1. e.queue \in Seq(Q) /\ e.ring \in Seq(A) /\ Len(e.queue) \in Nat /\ Len(e.ring) \in Nat
        /\ Len(e.queue) <= QueueN
    BY DEF Mail
  <2>2. h \in Q /\ q \in Seq(Q) /\ Len(q) = Len(e.queue) - 1
    BY <1>2, <2>1, HeadTailProperties
  <2>3. Len(q) <= QueueN
    BY <2>1, <2>2, Sizes
  <2> HIDE DEF h, q
  <2>4. g \in Seq(A) /\ Len(g) <= RingN
    BY <1>2, <2>1, <2>2, Sizes
  <2>5. Post(e) = [e EXCEPT !.queue = q, !.ring = g]
    BY <1>2 DEF Post, g, h, q
  <2> HIDE DEF g
  <2> QED  BY <2>2, <2>3, <2>4, <2>5 DEF Mail
<1> QED  BY <1>1, <1>2

LEMMA ExpireMail ==
    ASSUME NEW e, NEW Q, NEW A, Mail(e, Q, A), e.queue # <<>>
    PROVE  Mail(ExpireStale(e), Q, A)
<1> DEFINE q == Tail(e.queue)
           n == e.lost + 1
<1>1. e.queue \in Seq(Q) /\ Len(e.queue) \in Nat /\ Len(e.queue) <= QueueN /\ e.lost \in Nat
  BY DEF Mail
<1>2. q \in Seq(Q) /\ Len(q) = Len(e.queue) - 1
  BY <1>1, HeadTailProperties
<1>3. Len(q) <= QueueN /\ n \in Nat
  BY <1>1, <1>2, Sizes
<1>4. ExpireStale(e) = [e EXCEPT !.queue = q, !.lost = n]
  BY DEF ExpireStale
<1> HIDE DEF q, n
<1> QED  BY <1>2, <1>3, <1>4 DEF Mail

LEMMA HearMail ==
    ASSUME NEW e, NEW Q, NEW A, Mail(e, Q, A), e.ring # <<>>
    PROVE  Head(e.ring) \in A /\ Mail([e EXCEPT !.ring = Tail(@)], Q, A)
<1> DEFINE g == Tail(e.ring)
           d == [e EXCEPT !.ring = Tail(@)]
<1>1. e.ring \in Seq(A) /\ Len(e.ring) \in Nat /\ Len(e.ring) <= RingN
  BY DEF Mail
<1>2. Head(e.ring) \in A /\ g \in Seq(A) /\ Len(g) = Len(e.ring) - 1
  BY <1>1, HeadTailProperties
<1>3. Len(g) <= RingN
  BY <1>1, <1>2, Sizes
<1>4. d = [e EXCEPT !.ring = g]
  OBVIOUS
<1> HIDE DEF g, d
<1>5. Mail(d, Q, A)
  BY <1>2, <1>3, <1>4 DEF Mail
<1> QED  BY <1>2, <1>5 DEF d

\* A sequence of records made old.
LEMMA AgedIs ==
    ASSUME NEW Q, NEW recs \in Seq(Q), NEW P,
           \A rec \in Q : [rec EXCEPT !.fresh = FALSE] \in P
    PROVE  Aged(recs) \in Seq(P) /\ Len(Aged(recs)) = Len(recs)
<1>1. Len(recs) \in Nat /\ DOMAIN recs = 1 .. Len(recs)
      /\ \A i \in 1 .. Len(recs) : recs[i] \in Q
  BY LenProperties, ElementOfSeq
<1>2. Aged(recs) \in [1 .. Len(recs) -> P]
  BY <1>1 DEF Aged
<1>3. Aged(recs) \in Seq(P)
  BY <1>1, <1>2, SeqDef
<1> QED  BY <1>1, <1>2, <1>3, LenProperties

LEMMA OldMail ==
    ASSUME NEW Q, NEW A, Mail(egress, Q, A), NEW P, NEW B,
           \A rec \in Q : [rec EXCEPT !.fresh = FALSE] \in P,
           \A rec \in A : [rec EXCEPT !.fresh = FALSE] \in B
    PROVE  Mail(Old, P, B)
<1> DEFINE q == Aged(egress.queue)
           g == Aged(egress.ring)
<1>1. egress.queue \in Seq(Q) /\ egress.ring \in Seq(A)
  BY DEF Mail
<1>2. q \in Seq(P) /\ Len(q) = Len(egress.queue)
  BY <1>1, AgedIs
<1>3. g \in Seq(B) /\ Len(g) = Len(egress.ring)
  BY <1>1, AgedIs
<1>4. Old = [egress EXCEPT !.queue = q, !.ring = g]
  BY DEF Old
<1> HIDE DEF q, g
<1> QED  BY <1>2, <1>3, <1>4 DEF Mail

LEMMA DropMail ==
    ASSUME NEW e, NEW Q, NEW A, Mail(e, Q, A), NEW d \in DropRadioBacklog(e)
    PROVE  Mail(d, {rec \in Q : rec.op = "0x74"}, A)
<1> DEFINE P == {rec \in Q : rec.op = "0x74"}
           at == {i \in DOMAIN e.queue : e.queue[i].op \in {"0x74"}}
<1>1. PICK q \in Kept(e.queue, {"0x74"}) : d = [e EXCEPT !.queue = q]
  BY DEF DropRadioBacklog
<1>2. e.queue \in Seq(Q) /\ Len(e.queue) \in Nat /\ Len(e.queue) <= QueueN
      /\ \A i \in DOMAIN e.queue : e.queue[i] \in Q
  BY LenProperties, ElementOfSeq DEF Mail
<1>3. PICK n \in 0 .. Len(e.queue) :
         \E ord \in [1 .. n -> at] : q = [k \in DOMAIN ord |-> e.queue[ord[k]]]
  BY DEF Kept
<1>4. \A i \in at : e.queue[i] \in P
  BY <1>2
<1>5. q \in [1 .. n -> P] /\ n \in Nat
  <2>1. PICK ord \in [1 .. n -> at] : q = [k \in DOMAIN ord |-> e.queue[ord[k]]]
    BY <1>3
  <2> HIDE DEF P, at
  <2> QED  BY <1>2, <1>4, <2>1
<1>6. q \in Seq(P) /\ Len(q) = n
  <2> HIDE DEF P
  <2>1. q \in Seq(P)
    BY <1>5, SeqDef
  <2> QED  BY <1>5, <2>1, LenProperties
<1>7. Len(q) <= QueueN
  BY <1>2, <1>3, <1>6, Sizes
<1> HIDE DEF P
<1>8. Mail(d, P, A)
  BY <1>1, <1>6, <1>7 DEF Mail
<1> QED  BY <1>8 DEF P

-----------------------------------------------------------------------------
(* What the invariant gives a step. *)

\* An old record that is in the queue, and in the ring, when the phone asks.
Weak  == {rec \in Recs : ~rec.fresh /\ rec.op # "0x89" /\ ~Strong(rec)}
Stale == {rec \in Recs : ~rec.fresh /\ rec.op # "0x89"}

\* Such records may be there whatever the phone does next.
LEMMA OldAnywhere ==
    ASSUME NEW phase, NEW st
    PROVE  Weak \subseteq Queued(phase, st) /\ Stale \subseteq Underway(phase, st)
           /\ Queued(phase, st) \subseteq Underway(phase, st)
BY DEF Weak, Stale, Queued, Underway

LEMMA MadeOld ==
    ASSUME NEW rec \in Recs, rec.op # "0x89"
    PROVE  /\ [rec EXCEPT !.fresh = FALSE] \in Stale
           /\ ~Strong(rec) => [rec EXCEPT !.fresh = FALSE] \in Weak
<1> DEFINE old == [rec EXCEPT !.fresh = FALSE]
<1>1. old \in Recs /\ old.op = rec.op /\ old.of = rec.of /\ ~old.fresh
  BY DEF Recs
<1> HIDE DEF old
<1>2. old \in Stale /\ (~Strong(rec) => old \in Weak)
  BY <1>1 DEF Stale, Weak, Strong
<1> QED  BY <1>2 DEF old

\* If no record answers the newest request, the old ones are all there is.
LEMMA FreshFree ==
    ASSUME Inv, \A rec \in Range(egress.queue) \cup Range(egress.ring) : ~rec.fresh
    PROVE  Mail(egress, {rec \in Queued(radio.phase, fw.st) : ~rec.fresh},
                        {rec \in Underway(radio.phase, fw.st) : ~rec.fresh})
<1> DEFINE Q == Queued(radio.phase, fw.st)
           A == Underway(radio.phase, fw.st)
           Q0 == {rec \in Q : ~rec.fresh}
           A0 == {rec \in A : ~rec.fresh}
<1>1. Mail(egress, Q, A)
  BY DEF Inv
<1>2. \A rec \in Range(egress.queue) \cup Range(egress.ring) : ~rec.fresh
  OBVIOUS
<1>3. Mail(egress, Q0, A0)
  <2>1. egress.queue \in Seq(Q) /\ egress.ring \in Seq(A)
    BY <1>1 DEF Mail
  <2>2. Len(egress.queue) \in Nat /\ DOMAIN egress.queue = 1 .. Len(egress.queue)
        /\ egress.queue \in [1 .. Len(egress.queue) -> Q]
    BY <2>1, LenProperties
  <2>3. Len(egress.ring) \in Nat /\ DOMAIN egress.ring = 1 .. Len(egress.ring)
        /\ egress.ring \in [1 .. Len(egress.ring) -> A]
    BY <2>1, LenProperties
  <2> HIDE DEF Q, A
  <2>4. egress.queue \in [1 .. Len(egress.queue) -> Q0]
    BY <1>2, <2>2 DEF Range
  <2>5. egress.ring \in [1 .. Len(egress.ring) -> A0]
    BY <1>2, <2>3 DEF Range
  <2>6. egress.queue \in Seq(Q0) /\ egress.ring \in Seq(A0)
    <3> HIDE DEF Q0, A0
    <3> QED  BY <2>2, <2>3, <2>4, <2>5, SeqDef
  <2> HIDE DEF Q0, A0
  <2> QED  BY <1>1, <2>6 DEF Mail
<1> QED  BY <1>3

\* When the phone asks, nothing that could answer is under way, and no
\* transaction that it began.
LEMMA AskedClean ==
    ASSUME Inv, Settled \/ fw.st \in {"off", "camped"}
    PROVE  /\ Mail(Old, Weak, Stale)
           /\ \A rec \in Range(egress.queue) \cup Range(egress.ring) : ~rec.fresh
           /\ Peer(Unasked) /\ ~Unasked.fresh
           /\ Unasked.phase = radio.phase /\ Unasked.remaining = radio.remaining
           /\ radio.remaining = 0 \/ radio.phase \in Broadcast
<1> DEFINE Q == Queued(radio.phase, fw.st)
           A == Underway(radio.phase, fw.st)
           Q0 == {rec \in Q : ~rec.fresh}
           A0 == {rec \in A : ~rec.fresh}
<1>1. Mail(egress, Q, A)
  BY DEF Inv
<1>2. Q \subseteq A
  BY OldAnywhere
<1>3. \A rec \in Range(egress.queue) \cup Range(egress.ring) : ~rec.fresh
  <2>1. CASE Settled
    BY <2>1 DEF Settled
  <2>2. CASE fw.st \in {"off", "camped"}
    <3>1. \A rec \in A : ~rec.fresh
      BY <2>2 DEF Underway
    <3> QED  BY <1>1, <1>2, <3>1, MailOf
  <2> QED  BY <2>1, <2>2
<1>4. Mail(egress, Q0, A0)
  BY <1>3, FreshFree
<1>5. ASSUME NEW rec \in A0 PROVE rec \in Recs /\ rec.op # "0x89"
  BY DEF Underway
<1>6. ASSUME NEW rec \in Q0 PROVE rec \in A0 /\ ~Strong(rec)
  BY DEF Queued
<1>7. Mail(Old, Weak, Stale)
  <2>1. \A rec \in A0 : [rec EXCEPT !.fresh = FALSE] \in Stale
    <3> HIDE DEF A0
    <3> QED  BY <1>5, MadeOld
  <2>2. \A rec \in Q0 : [rec EXCEPT !.fresh = FALSE] \in Weak
    <3> HIDE DEF A0, Q0
    <3> QED  BY <1>5, <1>6, MadeOld
  <2> HIDE DEF Q0, A0
  <2> QED  BY <1>4, <2>1, <2>2, OldMail
<1>8. Peer(radio) /\ radio \in Radios /\ radio.remaining \in Nat
      /\ (fw.st = "camped" => radio.phase \in Broadcast)
      /\ (fw.st = "off" => radio.remaining = 0)
  BY DEF Inv, Peer, Place, Radios
<1>9. radio.remaining = 0 \/ radio.phase \in Broadcast
  BY <1>8 DEF Settled, Peer
<1>10. Unasked \in Radios /\ Unasked.phase = radio.phase /\ Unasked.remaining = radio.remaining
       /\ ~Unasked.fresh
  BY <1>8 DEF Unasked, Radios
<1>11. Peer(Unasked)
  BY <1>8, <1>9, <1>10 DEF Peer, Passing, Broadcast, Dedicated
<1> QED  BY <1>3, <1>7, <1>9, <1>10, <1>11

\* A request: what is left to show is that the peer's new phase fits the phone's place.
LEMMA AskStep ==
    ASSUME Inv, Settled \/ fw.st \in {"off", "camped"}, Peer(radio'), fw' \in Phones,
           Place(radio', fw'.st, fw'.heard), egress' = Post(Old), UNCHANGED <<env, sec>>
    PROVE  Inv'
<1>1. Mail(Old, Weak, Stale)
  BY AskedClean
<1>2. Mail(Old, Queued(radio'.phase, fw'.st), Underway(radio'.phase, fw'.st))
  BY <1>1, OldAnywhere, MailGrows
<1>3. Mail(egress', Queued(radio'.phase, fw'.st), Underway(radio'.phase, fw'.st))
  BY <1>2, OldAnywhere, PostMail
<1> QED  BY <1>3 DEF Inv

\* The phone after a request.
LEMMA PhoneAsks ==
    ASSUME fw \in Phones, NEW st \in Stations,
           fw' = [fw EXCEPT !.st = st, !.heard = {}, !.info = <<0, 0>>]
    PROVE  fw' \in Phones /\ fw'.st = st /\ fw'.heard = {}
<1>1. <<0, 0>> \in Octets \X Numbers
  BY DEF Octets, Numbers
<1> QED  BY <1>1 DEF Phones

\* A phone that is not retired has a round of broadcast under way, so no request
\* finds one at its end.
LEMMA AskedPlace ==
    ASSUME Inv, fw.st # "retired", NEW r, r.phase = radio.phase, r.remaining = radio.remaining,
           NEW s, Asked(r, s), NEW st \in Stations \ {"off", "camped"},
           st = "verify" => s.phase \in Broadcast \cup {"selected_search"},
           st \in {"receiver", "channel"} => s.phase \in Broadcast \cup Turning,
           s.phase = "assigned_channel_change" => st = "assigned"
    PROVE  Peer(s) /\ Place(s, st, {})
BY DEF Inv, Place, Asked

-----------------------------------------------------------------------------
(* Each action. *)

LEMMA InvInit == Init => Inv
<1> SUFFICES ASSUME Init PROVE Inv
  OBVIOUS
<1>1. radio \in Radios
  BY Sizes DEF Init, NoRadio, Radios, Phases, Before, Octets, Numbers
<1>2. Peer(radio)
  BY <1>1 DEF Init, NoRadio, Peer, Broadcast, Passing, Dedicated
<1>3. fw \in Phones /\ fw.st = "off" /\ fw.heard = {}
  BY DEF Init, Phones, Stations, Octets, Numbers
<1>4. Place(radio, fw.st, fw.heard)
  BY <1>3 DEF Init, NoRadio, Place
<1>5. sec \in Secs
  BY DEF Init, Secs
<1>6. Mail(egress, Queued(radio.phase, fw.st), Underway(radio.phase, fw.st))
  <2> DEFINE Q == Queued(radio.phase, fw.st)
             A == Underway(radio.phase, fw.st)
             none == <<>>
  <2>1. none \in Seq(Q) /\ none \in Seq(A) /\ Len(none) = 0
    BY EmptySeq
  <2>2. egress = [queue |-> none, ring |-> none, lost |-> 0]
    BY DEF Init
  <2> HIDE DEF Q, A, none
  <2>3. Mail(egress, Q, A)
    BY <2>1, <2>2, Sizes DEF Mail
  <2> QED  BY <2>3 DEF Q, A
<1> QED  BY <1>2, <1>3, <1>4, <1>5, <1>6 DEF Init, Inv

\* A report, if one is due, and what it puts on the queue.
LEMMA Emitted ==
    ASSUME Inv, Due(radio), NEW now \in Frames, NEW e,
           Mail(e, Queued(radio.phase, fw.st), Underway(radio.phase, fw.st)),
           NEW out, out = EmitReport(radio, e, now)
    PROVE  /\ Peer(out.r) /\ Place(out.r, fw.st, fw.heard)
           /\ Mail(out.e, Queued(out.r.phase, fw.st), Underway(out.r.phase, fw.st))
<1> DEFINE op == NextReportType(radio)
           s == AdvanceAfterReport(Counted(radio, op, now), op)
           rec == Payload(radio, op, now)
           st == fw.st
<1>1. Peer(radio) /\ Place(radio, st, fw.heard)
  BY DEF Inv
<1>2. Reports(radio, op, s)
  BY <1>1, EmitPeer
<1>3. out.r = s /\ out.e = Post(Enqueue(e, rec))
  BY DEF EmitReport
<1>4. radio \in Radios /\ radio.phase \in Phases /\ radio.fresh \in BOOLEAN
      /\ radio.remaining # 0
  BY <1>1 DEF Peer, Radios, Due
<1>5. rec \in Recs /\ rec.op = op /\ rec.of = radio.phase /\ rec.fresh = radio.fresh
  <2>1. op \in Ops
    BY <1>2 DEF Reports
  <2> HIDE DEF op
  <2>2. Rec(op, radio) \in Recs /\ Rec(op, radio).op = op /\ Rec(op, radio).of = radio.phase
        /\ Rec(op, radio).fresh = radio.fresh
    BY <1>4, <2>1 DEF Rec, Recs, Octets, Numbers
  <2>3. radio.ra \in Octets /\ radio.accessFrame \in Numbers /\ now \in Numbers
    BY <1>4 DEF Radios, Numbers
  <2> QED  BY <2>2, <2>3 DEF Payload, Recs
<1> HIDE DEF op, s, rec
<1>6. Place(s, st, fw.heard)
  BY <1>1, <1>2, <1>4 DEF Place, Reports, Broadcast, Turning, Arrival
<1>7. Underway(radio.phase, st) \subseteq Underway(s.phase, st)
      /\ Queued(radio.phase, st) \subseteq Queued(s.phase, st)
  <2>1. radio.phase \in Arrival => s.phase \in Arrival
    BY <1>2 DEF Reports
  <2>2. st = "verify" /\ s.phase = "selected_bcch" => radio.phase = "selected_bcch"
    BY <1>1, <1>2 DEF Place, Reports, Broadcast
  <2>3. Underway(radio.phase, st) \subseteq Underway(s.phase, st)
    BY <2>1 DEF Underway
  <2> QED  BY <2>2, <2>3 DEF Queued
<1>8. rec \in Queued(s.phase, st)
  <2>1. op = "0x89" => radio.fresh
    BY <1>2 DEF Reports
  <2>2. st \in {"off", "camped"} => ~radio.fresh
    BY <1>1, <1>4 DEF Place, Peer
  <2>3. st = "verify" => op # "0x89"
    BY <1>1, <1>2 DEF Place, Reports
  <2>4. st \in {"config", "release"} /\ op = "0x89" => s.phase \in Arrival
    BY <1>1, <1>2 DEF Place, Reports
  <2>5. Strong(rec) => radio.fresh
    <3>1. "serving_bcch" \notin Dedicated /\ "serving_bcch" # "random_access"
          /\ "serving_bcch" \notin Before \cup Search \cup {"selected_search"}
      BY DEF Dedicated, Before, Search
    <3>2. Channel("serving_bcch") = "bcch"
      BY <3>1 DEF Channel
    <3> QED  BY <1>2, <1>5, <3>2 DEF Reports, Strong
  <2>6. st = "verify" /\ s.phase = "selected_bcch" => ~Strong(rec)
    BY <1>1, <1>2, <1>5 DEF Place, Reports, Broadcast, Strong
  <2>7. rec \in Underway(s.phase, st)
    BY <1>5, <2>1, <2>2, <2>3, <2>4 DEF Underway
  <2> QED  BY <1>5, <2>5, <2>6, <2>7 DEF Queued
<1>9. Mail(e, Queued(s.phase, st), Underway(s.phase, st))
  BY <1>7, MailGrows
<1>10. Mail(Enqueue(e, rec), Queued(s.phase, st), Underway(s.phase, st))
  BY <1>8, <1>9, EnqueueMail
<1>11. Mail(out.e, Queued(s.phase, st), Underway(s.phase, st))
  BY <1>3, <1>10, OldAnywhere, PostMail
<1>12. Peer(s)
  BY <1>2 DEF Reports
<1> QED  BY <1>3, <1>6, <1>11, <1>12

\* The responder, whose records answer no request.
LEMMA Responded ==
    ASSUME Inv, NEW phase, NEW e, Mail(e, Queued(phase, fw.st), Underway(phase, fw.st)),
           NEW ans, ans = Respond(e)
    PROVE  ans.sec \in Secs /\ Mail(ans.e, Queued(phase, fw.st), Underway(phase, fw.st))
<1>1. sec \in Secs
  BY DEF Inv
<1>2. CASE sec.want # {} \/ WantsTest
  <2> DEFINE sub == First
             rec == Security(sub)
  <2>1. sub \in Subs
    BY <1>1, <1>2 DEF First, WantsTest, Subs, Secs
  <2>2. ans.e = Post(Enqueue(e, rec)) /\ ans.sec = Answer(sub)
    BY <1>2 DEF Respond
  <2> HIDE DEF sub
  <2>3. rec \in Weak
    BY <2>1 DEF Security, Weak, Recs, Ops, Strong, Octets, Numbers
  <2> HIDE DEF rec
  <2>4. rec \in Queued(phase, fw.st)
    BY <2>3, OldAnywhere
  <2>5. Mail(ans.e, Queued(phase, fw.st), Underway(phase, fw.st))
    BY <2>2, <2>4, EnqueueMail, OldAnywhere, PostMail
  <2>6. Answer(sub) \in Secs
    BY <1>1 DEF Answer, Secs
  <2> QED  BY <2>2, <2>5, <2>6
<1>3. CASE ~(sec.want # {} \/ WantsTest)
  BY <1>1, <1>3 DEF Respond
<1> QED  BY <1>2, <1>3

LEMMA InvTick ==
    ASSUME Inv, NEW due \in BOOLEAN, NEW stale \in BOOLEAN, NEW now \in Frames,
           Tick(due, stale, now)
    PROVE  Inv'
<1> DEFINE e == IF stale THEN ExpireStale(egress) ELSE egress
           out == IF due /\ Due(radio) THEN EmitReport(radio, e, now) ELSE [r |-> radio, e |-> e]
           f == IF due \/ stale THEN Post(out.e) ELSE out.e
           ans == Respond(f)
           st == fw.st
<1>1. Mail(e, Queued(radio.phase, st), Underway(radio.phase, st))
  <2>1. Mail(egress, Queued(radio.phase, st), Underway(radio.phase, st))
    BY DEF Inv
  <2>2. stale => egress.queue # <<>>
    BY DEF Tick
  <2> QED  BY <2>1, <2>2, ExpireMail
<1>2. radio' = out.r /\ egress' = ans.e /\ sec' = ans.sec /\ UNCHANGED <<env, fw>>
  BY DEF Tick
<1> HIDE DEF e
<1>3. /\ Peer(out.r) /\ Place(out.r, st, fw.heard)
      /\ Mail(out.e, Queued(out.r.phase, st), Underway(out.r.phase, st))
  <2>1. CASE due /\ Due(radio)
    <3>1. out = EmitReport(radio, e, now)
      BY <2>1
    <3> HIDE DEF out
    <3> QED  BY <1>1, <2>1, <3>1, Emitted
  <2>2. CASE ~(due /\ Due(radio))
    BY <1>1, <2>2 DEF Inv
  <2> QED  BY <2>1, <2>2
<1> HIDE DEF out
<1>4. Mail(f, Queued(out.r.phase, st), Underway(out.r.phase, st))
  BY <1>3, OldAnywhere, PostMail
<1> HIDE DEF f
<1>5. ans.sec \in Secs /\ Mail(ans.e, Queued(out.r.phase, st), Underway(out.r.phase, st))
  BY <1>4, Responded
<1> HIDE DEF ans
<1> QED  BY <1>2, <1>3, <1>5 DEF Inv

LEMMA InvHostInterrupt == Inv /\ HostInterrupt => Inv'
BY OldAnywhere, PostMail DEF Inv, HostInterrupt

\* What the phone makes of a record is its type, or the channel of its block.
LEMMA MeansIs ==
    ASSUME NEW rec \in Recs, fw \in Phones
    PROVE  /\ Means(rec) \in Ops \cup {"sdcch", "ccch", "sch", "bcch", "other"}
           /\ Means(rec) = "0x89" => rec.op = "0x89"
<1>1. Channel(rec.of) \in {"sdcch", "ccch", "sch", "bcch"}
  BY DEF Channel
<1>2. rec.op \in Ops
  BY DEF Recs
<1>3. CASE rec.op # "0x80"
  BY <1>2, <1>3 DEF Means
<1>4. CASE rec.op = "0x80"
  BY <1>1, <1>4 DEF Means
<1> QED  BY <1>3, <1>4

LEMMA InvHear == Inv /\ Hear => Inv'
<1> SUFFICES ASSUME Inv, Hear PROVE Inv'
  OBVIOUS
<1> DEFINE rec == Head(egress.ring)
           e == [egress EXCEPT !.ring = Tail(@)]
           m == Means(rec)
           Q == Queued(radio.phase, fw.st)
           A == Underway(radio.phase, fw.st)
<1>1. Mail(egress, Q, A) /\ egress.ring # <<>> /\ fw \in Phones /\ Q \subseteq A
  BY OldAnywhere DEF Inv, Hear
<1>2. rec \in A /\ Mail(e, Q, A)
  <2> HIDE DEF Q, A
  <2> QED  BY <1>1, HearMail
<1>3. rec \in Recs
  BY <1>2 DEF Underway
<1>4. /\ m \in Ops \cup {"sdcch", "ccch", "sch", "bcch", "other"}
      /\ m = "0x89" => rec.op = "0x89"
  BY <1>1, <1>3, MeansIs
<1>5. /\ fw' = IF rec.op = "0x74" THEN [fw EXCEPT !.answered = @ \cup {rec.of}]
               ELSE IF Ignored(rec) THEN fw
               ELSE [fw EXCEPT !.heard = @ \cup {m},
                               !.info = IF rec.op = "0x84" THEN <<rec.ra, rec.fn>> ELSE @]
      /\ egress' = Post(e) /\ UNCHANGED <<env, radio, sec>>
  BY DEF Hear
<1> HIDE DEF m, rec, e
<1>6. fw' \in Phones /\ fw'.st = fw.st /\ fw'.heard \subseteq fw.heard \cup {m}
  BY <1>1, <1>3, <1>4, <1>5 DEF Phones, Recs
<1>7. Place(radio', fw'.st, fw'.heard)
  <2>1. Place(radio, fw.st, fw.heard)
    BY DEF Inv
  <2>2. fw.st \in {"config", "release"} /\ m = "0x89" => radio.phase \in Arrival
    BY <1>2, <1>4 DEF Underway
  <2> QED  BY <1>5, <1>6, <2>1, <2>2 DEF Place
<1>8. Mail(egress', Q, A)
  <2> HIDE DEF Q, A
  <2> QED  BY <1>1, <1>2, <1>5, PostMail
<1> QED  BY <1>5, <1>6, <1>7, <1>8 DEF Inv

-----------------------------------------------------------------------------
(* The requests. *)

LEMMA Modes == Inv => env.mode \in {"0x00", "0x40", "0x50"} /\ env.arfcn1 \in BOOLEAN
BY Rom4Assumption DEF Inv

\* A search, asked for when nothing is under way.
LEMMA InvAskSearch ==
    ASSUME Inv, Settled \/ fw.st \in {"off", "camped"}, NEW st \in {"search", "verify"},
           st = "verify" => fw.st \in {"camped", "verify"},
           radio' = SearchList(Unasked, env.mode, env.arfcn1), egress' = Post(Old),
           fw' \in Phones, fw'.st = st, fw'.heard = {}, UNCHANGED <<env, sec>>
    PROVE  Inv'
<1> DEFINE s == SearchList(Unasked, env.mode, env.arfcn1)
<1>1. /\ Peer(Unasked) /\ ~Unasked.fresh /\ Unasked.phase = radio.phase
      /\ Unasked.remaining = radio.remaining
  BY AskedClean
<1>2. /\ Asked(Unasked, s) /\ s.phase \notin {"serving_bcch", "assigned_channel_change"}
      /\ radio.phase \in Broadcast \cup {"selected_search"} =>
           s.phase \in {"selected_bcch", "selected_search"}
  BY <1>1, Modes, SearchIs
<1>3. fw.st \in {"camped", "verify"} => radio.phase \in Broadcast \cup {"selected_search"}
  BY DEF Inv, Place
<1> HIDE DEF s
<1>4. Peer(s) /\ Place(s, st, {})
  BY <1>2, <1>3 DEF Asked, Place, Broadcast
<1>5. Peer(radio') /\ Place(radio', fw'.st, fw'.heard)
  BY <1>4 DEF s
<1> QED  BY <1>5, AskStep

LEMMA InvSeek == Inv /\ Seek => Inv'
<1> SUFFICES ASSUME Inv, Seek PROVE Inv'
  OBVIOUS
<1>1. (fw.st = "off" \/ Settled) /\ AskSearch("search") /\ fw \in Phones
  BY DEF Seek, Inv
<1>2. radio' = SearchList(Unasked, env.mode, env.arfcn1) /\ egress' = Post(Old)
      /\ fw' = [fw EXCEPT !.st = "search", !.heard = {}, !.info = <<0, 0>>]
      /\ UNCHANGED <<env, sec>>
  BY <1>1 DEF AskSearch, Request
<1>3. "search" \in Stations
  BY DEF Stations
<1>4. fw' \in Phones /\ fw'.st = "search" /\ fw'.heard = {}
  BY <1>1, <1>2, <1>3, PhoneAsks
<1> QED  BY <1>1, <1>2, <1>4, InvAskSearch

LEMMA InvVerify == Inv /\ Verify => Inv'
<1> SUFFICES ASSUME Inv, Verify PROVE Inv'
  OBVIOUS
<1>1. (fw.st = "camped" \/ (fw.st = "verify" /\ Settled)) /\ AskSearch("verify") /\ fw \in Phones
  BY DEF Verify, Unheard, Inv
<1>2. radio' = SearchList(Unasked, env.mode, env.arfcn1) /\ egress' = Post(Old)
      /\ fw' = [fw EXCEPT !.st = "verify", !.heard = {}, !.info = <<0, 0>>]
      /\ UNCHANGED <<env, sec>>
  BY <1>1 DEF AskSearch, Request
<1>3. "verify" \in Stations
  BY DEF Stations
<1>4. fw' \in Phones /\ fw'.st = "verify" /\ fw'.heard = {}
  BY <1>1, <1>2, <1>3, PhoneAsks
<1> QED  BY <1>1, <1>2, <1>4, InvAskSearch

LEMMA InvReject == Inv /\ Reject => Inv'
<1> SUFFICES ASSUME Inv, Reject PROVE Inv'
  OBVIOUS
<1>1. fw.st = "search" /\ Settled /\ fw \in Phones
      /\ radio' = SearchList(Unasked, env.mode, env.arfcn1) /\ egress' = Post(Old)
      /\ fw' = [fw EXCEPT !.heard = {}, !.rejects = @ + 1]
      /\ UNCHANGED <<env, sec>>
  BY DEF Reject, Inv
<1> DEFINE n == fw.rejects + 1
<1>2. n \in Nat
  BY <1>1 DEF Phones
<1>3. fw' = [fw EXCEPT !.heard = {}, !.rejects = n]
  BY <1>1
<1> HIDE DEF n
<1>4. fw' \in Phones /\ fw'.st = "search" /\ fw'.heard = {}
  BY <1>1, <1>2, <1>3 DEF Phones
<1> QED  BY <1>1, <1>4, InvAskSearch

\* A channel, asked for when nothing is under way.
LEMMA InvConfigure ==
    ASSUME Inv, Settled \/ fw.st = "camped", fw.st # "retired", NEW channel,
           NEW st \in {"config", "channel", "assigned", "release"},
           st = "channel" => fw.st = "camped",
           channel = "0x80" => st = "assigned",
           Request(ChannelConfigure(Unasked, channel), Old, st)
    PROVE  Inv'
<1> DEFINE s == ChannelConfigure(Unasked, channel)
<1>1. /\ Peer(Unasked) /\ ~Unasked.fresh /\ Unasked.phase = radio.phase
      /\ Unasked.remaining = radio.remaining
  BY AskedClean
<1>2. /\ Asked(Unasked, s)
      /\ s.phase = "assigned_channel_change" => channel = "0x80"
      /\ radio.phase \in Broadcast => s.phase \in Broadcast \cup Turning
  BY <1>1, ConfigureIs
<1>3. fw.st = "camped" => radio.phase \in Broadcast
  BY DEF Inv, Place
<1>4. st \in Stations \ {"off", "camped"} /\ st # "verify" /\ st # "receiver"
  BY DEF Stations
<1>5. radio' = s /\ egress' = Post(Old) /\ UNCHANGED <<env, sec>>
      /\ fw' = [fw EXCEPT !.st = st, !.heard = {}, !.info = <<0, 0>>] /\ fw \in Phones
  BY DEF Request, Inv
<1> HIDE DEF s
<1>6. Peer(s) /\ Place(s, st, {})
  BY <1>1, <1>2, <1>3, <1>4, AskedPlace
<1>7. fw' \in Phones /\ fw'.st = st /\ fw'.heard = {}
  BY <1>4, <1>5, PhoneAsks
<1> QED  BY <1>5, <1>6, <1>7, AskStep

LEMMA InvSelect == Inv /\ Select => Inv'
BY InvConfigure DEF Select

LEMMA InvServingChannel == Inv /\ ServingChannel => Inv'
BY InvConfigure DEF ServingChannel

LEMMA InvAssigned == Inv /\ Assigned => Inv'
BY InvConfigure DEF Assigned

LEMMA InvRelease == Inv /\ Release => Inv'
BY InvConfigure DEF Release

LEMMA InvReceiver == Inv /\ Receiver => Inv'
<1> SUFFICES ASSUME Inv, Receiver PROVE Inv'
  OBVIOUS
<1> DEFINE s == IdleRa(Unasked, 0)
<1>1. /\ fw.st = "camped" /\ fw \in Phones
      /\ radio' = s /\ egress' = Post(Old) /\ UNCHANGED <<env, sec>>
      /\ fw' = [fw EXCEPT !.st = "receiver", !.heard = {}, !.info = <<0, 0>>]
  BY DEF Receiver, Request, Inv
<1>2. /\ Peer(Unasked) /\ ~Unasked.fresh /\ Unasked.phase = radio.phase
      /\ Unasked.remaining = radio.remaining
  BY <1>1, AskedClean
<1>3. /\ Asked(Unasked, s) /\ s.phase # "assigned_channel_change"
      /\ radio.phase \in Broadcast => s.phase \in Broadcast \cup Turning
  <2>1. 0 \in Octets
    BY DEF Octets
  <2> QED  BY <1>2, <2>1, IdleRaIs
<1>4. radio.phase \in Broadcast
  BY <1>1 DEF Inv, Place
<1>5. "receiver" \in Stations
  BY DEF Stations
<1> HIDE DEF s
<1>6. Peer(s) /\ Place(s, "receiver", {})
  BY <1>1, <1>2, <1>3, <1>4, <1>5, AskedPlace
<1>7. fw' \in Phones /\ fw'.st = "receiver" /\ fw'.heard = {}
  BY <1>1, <1>5, PhoneAsks
<1> QED  BY <1>1, <1>6, <1>7, AskStep

LEMMA InvRandomAccess == Inv /\ RandomAccess => Inv'
<1> SUFFICES ASSUME Inv, RandomAccess PROVE Inv'
  OBVIOUS
<1>1. PICK ra \in Ras :
        /\ radio' = IdleRa(Unasked, ra) /\ egress' = Post(Old)
        /\ fw' = [fw EXCEPT !.st = "access", !.heard = {}, !.info = <<0, 0>>, !.ra = ra]
  BY DEF RandomAccess
<1>2. fw.st \in {"camped", "access"} /\ (fw.st = "camped" \/ Settled) /\ fw \in Phones
      /\ UNCHANGED <<env, sec>>
  BY DEF RandomAccess, Inv
<1> DEFINE s == IdleRa(Unasked, ra)
<1>3. /\ Peer(Unasked) /\ ~Unasked.fresh /\ Unasked.phase = radio.phase
      /\ Unasked.remaining = radio.remaining
  BY <1>2, AskedClean
<1>4. ra \in Octets /\ <<0, 0>> \in Octets \X Numbers
  BY DEF Octets, Numbers
<1>5. Asked(Unasked, s) /\ s.phase # "assigned_channel_change"
  BY <1>3, <1>4, IdleRaIs
<1>6. "access" \in Stations
  BY DEF Stations
<1>7. radio' = s
  BY <1>1
<1> HIDE DEF s
<1>8. Peer(s) /\ Place(s, "access", {})
  BY <1>2, <1>3, <1>5, <1>6, AskedPlace
<1>9. fw' \in Phones /\ fw'.st = "access" /\ fw'.heard = {}
  BY <1>1, <1>2, <1>4, <1>6 DEF Phones
<1> QED  BY <1>1, <1>2, <1>7, <1>8, <1>9, AskStep

LEMMA InvEstablish == Inv /\ Establish => Inv'
<1> SUFFICES ASSUME Inv, Establish PROVE Inv'
  OBVIOUS
<1> DEFINE s == SendBlock(Unasked)
<1>1. /\ fw.st = "assigned" /\ Settled /\ fw \in Phones
      /\ radio' = s /\ egress' = Post(Old) /\ UNCHANGED <<env, sec>>
      /\ fw' = [fw EXCEPT !.st = "update", !.heard = {}, !.info = <<0, 0>>]
  BY DEF Establish, Request, Inv
<1>2. /\ Peer(Unasked) /\ ~Unasked.fresh /\ Unasked.phase = radio.phase
      /\ Unasked.remaining = radio.remaining
  BY <1>1, AskedClean
<1>3. Asked(Unasked, s) /\ s.phase # "assigned_channel_change"
  BY <1>2, SendBlockIs
<1>4. "update" \in Stations
  BY DEF Stations
<1> HIDE DEF s
<1>5. Peer(s) /\ Place(s, "update", {})
  BY <1>1, <1>2, <1>3, <1>4, AskedPlace
<1>6. fw' \in Phones /\ fw'.st = "update" /\ fw'.heard = {}
  BY <1>1, <1>4, PhoneAsks
<1> QED  BY <1>1, <1>5, <1>6, AskStep

\* To give up a search in the middle leaves nothing of it in the queue.
LEMMA InvRetire == Inv /\ Retire => Inv'
<1> SUFFICES ASSUME Inv, Retire PROVE Inv'
  OBVIOUS
<1> DEFINE Q == Queued(radio.phase, fw.st)
           A == Underway(radio.phase, fw.st)
<1>1. PICK d \in Deactivate(Unasked, Old) : Request(d.r, d.e, "retired")
  BY DEF Retire
<1>2. radio' = d.r /\ egress' = Post(d.e) /\ UNCHANGED <<env, sec>> /\ fw \in Phones
      /\ fw' = [fw EXCEPT !.st = "retired", !.heard = {}, !.info = <<0, 0>>]
  BY <1>1 DEF Request, Inv
<1>3. "retired" \in Stations
  BY DEF Stations
<1>4. fw' \in Phones /\ fw'.st = "retired" /\ fw'.heard = {}
  BY <1>2, <1>3, PhoneAsks
<1>5. Settled \/ fw.st \in {"camped", "verify"}
  BY DEF Retire
<1>6. Peer(radio) /\ radio \in Radios /\ Mail(egress, Q, A)
      /\ (fw.st = "verify" => radio.phase \in Broadcast \cup {"selected_search"})
      /\ (radio.phase = "assigned_channel_change" => fw.st = "assigned")
  BY DEF Inv, Peer, Place
<1>7. Unasked \in Radios /\ Unasked.phase = radio.phase /\ Unasked.remaining = radio.remaining
      /\ ~Unasked.fresh
  BY <1>6 DEF Unasked, Radios
\* The queue, after the receiver's records are dropped.
<1>8. Mail(d.e, Weak, Stale)
  <2>1. CASE Settled \/ fw.st = "camped"
    <3>1. Mail(Old, Weak, Stale)
      BY <2>1, AskedClean
    <3>2. d.e = Old \/ d.e \in DropRadioBacklog(Old)
      BY DEF Deactivate
    <3>3. {rec \in Weak : rec.op = "0x74"} \subseteq Weak
      OBVIOUS
    <3> QED  BY <3>1, <3>2, <3>3, DropMail, MailGrows
  <2>2. CASE fw.st = "verify" /\ radio.phase = "selected_bcch"
    <3>1. d.e = Old
      BY <1>7, <2>2 DEF Deactivate
    <3>2. \A rec \in A : [rec EXCEPT !.fresh = FALSE] \in Stale
      BY <2>2, MadeOld DEF Underway
    <3>3. \A rec \in Q : [rec EXCEPT !.fresh = FALSE] \in Weak
      BY <2>2, MadeOld DEF Queued, Underway
    <3> HIDE DEF Q, A
    <3> QED  BY <1>6, <3>1, <3>2, <3>3, OldMail
  <2>3. CASE fw.st = "verify" /\ radio.phase \in {"serving_bcch", "selected_search"}
    <3>1. d.e \in DropRadioBacklog(Old)
      BY <1>7, <2>3 DEF Deactivate
    <3>2. \A rec \in A : [rec EXCEPT !.fresh = FALSE] \in Stale
      BY <2>3, MadeOld DEF Underway
    <3>3. Q \subseteq A
      BY OldAnywhere
    <3>4. Mail(Old, Stale, Stale)
      <4> HIDE DEF Q, A
      <4> QED  BY <1>6, <3>2, <3>3, OldMail
    <3>5. {rec \in Stale : rec.op = "0x74"} \subseteq Weak
      BY DEF Stale, Weak, Strong
    <3> QED  BY <3>1, <3>4, <3>5, DropMail, MailGrows
  <2> QED  BY <1>5, <1>6, <2>1, <2>2, <2>3 DEF Broadcast
\* The peer.
<1>9. Peer(d.r) /\ d.r.phase # "assigned_channel_change"
  <2>1. radio.phase # "assigned_channel_change"
    BY <1>6 DEF Retire
  <2>2. CASE radio.phase = "initial_search" /\ radio.remaining = 0
    <3>1. d.r = Begin(Unasked, "post_deactivate_search", 2)
      BY <1>7, <2>2 DEF Deactivate
    <3>2. "post_deactivate_search" \in Phases \ Broadcast /\ 2 \in 1 .. 3
      BY DEF Phases, Before, Broadcast
    <3> QED  BY <1>7, <3>1, <3>2, BeginPeer
  <2>3. CASE radio.phase \in {"serving_bcch", "selected_search"}
    <3>1. d.r = [Unasked EXCEPT !.serving = FALSE, !.remaining = 0]
      BY <1>7, <2>3 DEF Deactivate
    <3>2. [Unasked EXCEPT !.serving = FALSE, !.remaining = 0] \in Radios
      BY <1>7 DEF Radios
    <3>3. d.r \in Radios /\ d.r.phase = radio.phase /\ d.r.remaining = 0 /\ ~d.r.fresh
      BY ONLY <1>7, <3>1, <3>2 DEF Radios
    <3> QED
      BY <2>3, <3>3, Sizes DEF Peer, Passing, Broadcast, Dedicated
  <2>4. CASE /\ ~(radio.phase = "initial_search" /\ radio.remaining = 0)
             /\ radio.phase \notin {"serving_bcch", "selected_search"}
    <3>1. d.r = Unasked
      BY <1>7, <2>4 DEF Deactivate
    <3>2. CASE Settled \/ fw.st = "camped"
      BY <1>7, <2>1, <3>1, <3>2, AskedClean
    <3>3. CASE fw.st = "verify"
      <4>1. radio.phase = "selected_bcch"
        BY <1>6, <2>4, <3>3 DEF Broadcast
      <4> QED
        BY <1>6, <1>7, <3>1, <4>1 DEF Peer, Passing, Broadcast, Dedicated
    <3> QED  BY <1>5, <3>2, <3>3
  <2> QED  BY <2>2, <2>3, <2>4
<1>10. Place(d.r, "retired", {})
  BY <1>9 DEF Place
<1>11. Mail(egress', Queued(radio'.phase, fw'.st), Underway(radio'.phase, fw'.st))
  <2>1. Mail(d.e, Queued(radio'.phase, fw'.st), Underway(radio'.phase, fw'.st))
    BY <1>8, OldAnywhere, MailGrows
  <2> QED  BY <1>2, <2>1, OldAnywhere, PostMail
<1> QED  BY <1>2, <1>4, <1>9, <1>10, <1>11 DEF Inv

\* The phone camps: every answer was heard, and broadcast is under way.
LEMMA InvCamp == Inv /\ Camp => Inv'
<1> SUFFICES ASSUME Inv, Camp PROVE Inv'
  OBVIOUS
<1>1. /\ Settled /\ fw \in Phones /\ UNCHANGED <<env, radio, egress, sec>>
      /\ fw' = [fw EXCEPT !.st = "camped", !.heard = {}, !.info = <<0, 0>>, !.ra = 0]
      /\ \/ fw.st \in {"config", "release"} /\ "0x89" \in fw.heard
         \/ fw.st \in {"receiver", "channel"}
  BY DEF Camp, Goes, Inv
<1>2. fw' \in Phones /\ fw'.st = "camped" /\ fw'.heard = {}
  BY <1>1 DEF Phones, Stations, Octets, Numbers
<1>3. Peer(radio) /\ Place(radio, fw.st, fw.heard)
  BY DEF Inv
<1>4. radio.phase \in Arrival \cup Broadcast \cup Turning
  BY <1>1, <1>3 DEF Place
<1>5. radio.phase \notin Passing
  BY <1>1, <1>3 DEF Settled, Peer, Radios
<1>6. radio.phase \in Broadcast
  BY <1>4, <1>5 DEF Arrival, Turning, Passing
<1>7. Place(radio, "camped", {})
  BY <1>1, <1>3, <1>6 DEF Place, Broadcast
<1> DEFINE Q == Queued(radio.phase, fw.st)
           A == Underway(radio.phase, fw.st)
           Q0 == {rec \in Q : ~rec.fresh}
           A0 == {rec \in A : ~rec.fresh}
<1>8. Mail(egress, Q0, A0)
  BY <1>1, FreshFree DEF Settled
<1>9. Q0 \subseteq Queued(radio.phase, "camped") /\ A0 \subseteq Underway(radio.phase, "camped")
  BY DEF Queued, Underway
<1>10. Mail(egress, Queued(radio.phase, "camped"), Underway(radio.phase, "camped"))
  BY <1>8, <1>9, MailGrows
<1> QED  BY <1>1, <1>2, <1>3, <1>7, <1>10 DEF Inv

LEMMA InvAskSecurity == ASSUME Inv, NEW sub \in Subs, AskSecurity(sub) PROVE Inv'
<1>1. /\ egress' = Post(egress) /\ UNCHANGED <<env, radio>>
      /\ fw' = [fw EXCEPT !.asked = @ \cup {sub}]
      /\ fw \in Phones /\ sec \in Secs
  BY DEF AskSecurity, Inv
<1>2. fw' \in Phones /\ fw'.st = fw.st /\ fw'.heard = fw.heard
  BY <1>1 DEF Phones
<1>3. sec' \in Secs
  BY <1>1 DEF AskSecurity, Secs
<1>4. Mail(egress', Queued(radio.phase, fw.st), Underway(radio.phase, fw.st))
  BY <1>1, OldAnywhere, PostMail DEF Inv
<1> QED  BY <1>1, <1>2, <1>3, <1>4 DEF Inv

-----------------------------------------------------------------------------
(* The theorems. *)

\* The invariant of radio, phone and mail holds in every state, for sizes of any
\* kind and every setting.
THEOREM InvAlways == Spec => []Inv
<1>1. Inv /\ [Next]_vars => Inv'
  <2> SUFFICES ASSUME Inv, [Next]_vars PROVE Inv'
    OBVIOUS
  <2>1. CASE \E due, stale \in BOOLEAN, now \in Frames : Tick(due, stale, now)
    BY <2>1, InvTick
  <2>2. CASE HostInterrupt \/ Hear
    BY <2>2, InvHostInterrupt, InvHear
  <2>3. CASE Seek \/ Reject \/ Select \/ Retire \/ Camp
    BY <2>3, InvSeek, InvReject, InvSelect, InvRetire, InvCamp
  <2>4. CASE Receiver \/ ServingChannel \/ Verify
    BY <2>4, InvReceiver, InvServingChannel, InvVerify
  <2>5. CASE RandomAccess \/ Assigned \/ Establish \/ Release
    BY <2>5, InvRandomAccess, InvAssigned, InvEstablish, InvRelease
  <2>6. CASE \E sub \in Subs : AskSecurity(sub)
    BY <2>6, InvAskSecurity
  <2>7. CASE UNCHANGED vars
    BY <2>7 DEF vars, Inv
  <2> QED  BY <2>1, <2>2, <2>3, <2>4, <2>5, <2>6, <2>7 DEF Next
<1> QED  BY <1>1, InvInit, PTL DEF Spec

\* What was queued for an older request, or for a receiver that was deactivated since,
\* never enters the ring as an answer to the newest; and a phone that camps is sent
\* the broadcast of its cell.  For every mode of search, every loss and rejection.
THEOREM CorrelatedAlways == Spec => []Correlated
<1>1. Inv => Correlated
  <2> SUFFICES ASSUME Inv PROVE Correlated
    OBVIOUS
  <2>1. Peer(radio) /\ radio \in Radios /\ Place(radio, fw.st, fw.heard) /\ sec \in Secs
        /\ Mail(egress, Queued(radio.phase, fw.st), Underway(radio.phase, fw.st))
    BY DEF Inv, Peer
  <2>2. TypeOK
    <3>1. radio.phase \in Phases /\ radio.remaining \in Nat /\ radio.round \in 0 .. RoundMod - 1
          /\ radio.suspended \in 0 .. SelectedN
      BY <2>1 DEF Radios
    <3>2. radio.remaining <= ServingN + SelectedN
      BY <2>1, <3>1, Sizes DEF Peer, Broadcast
    <3>3. radio.remaining \in 0 .. ServingN + SelectedN
      BY <3>1, <3>2, Sizes
    <3> QED  BY <2>1, <3>1, <3>3 DEF TypeOK, Mail, Secs
  <2>3. ASSUME NEW rec \in Range(egress.queue), Answers(rec) PROVE rec.fresh
    <3>1. rec \in Queued(radio.phase, fw.st)
      BY <2>1, MailOf
    <3>2. Strong(rec)
      BY <2>3 DEF Answers, Means, Strong, Channel
    <3> QED  BY <3>1, <3>2 DEF Queued
  <2>4. fw.st = "camped" => Due(radio)
    <3> SUFFICES ASSUME fw.st = "camped" PROVE Due(radio)
      OBVIOUS
    <3>1. radio.phase \in Broadcast /\ (radio.phase = "serving_bcch" => radio.remaining # 0)
      BY <2>1 DEF Place
    <3> QED  BY <2>1, <3>1 DEF Peer, Due, Broadcast
  <2> QED  BY <2>2, <2>3, <2>4 DEF Correlated
<1> QED  BY <1>1, InvAlways, PTL
=============================================================================
