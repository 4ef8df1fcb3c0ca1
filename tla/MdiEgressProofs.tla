-------------------------- MODULE MdiEgressProofs --------------------------
(***************************************************************************)
(* Proofs about MdiEgress for rings, queues and loads of any size.         *)
(*                                                                         *)
(* The inductive invariant is about three things at once: what the drain   *)
(* has still to read (Link), how old the queued records are (Fifo), and    *)
(* where a wake-up is owed (Owed).  The lemmas take the engine's state as  *)
(* an argument, so that a handler, which is a chain of operators, is       *)
(* treated operator by operator.                                           *)
(***************************************************************************)
EXTENDS MdiEgress, SequenceTheorems, FiniteSetTheorems, WellFoundedInduction, TLAPS

-----------------------------------------------------------------------------
(* The cursor arithmetic of the ring: a deposit that fits extends the       *)
(* unread window by exactly the words deposited, and a read removes exactly *)
(* its first word.                                                          *)

\* A number below twice the ring's size is reduced by at most one wrap.
LEMMA ModOnce ==
    \A x \in 0 .. 2 * Slots - 1 : x % Slots = IF x < Slots THEN x ELSE x - Slots
  BY SlotsAssumption, Z3

\* Occupancy without the modulus.
LEMMA AvailCases ==
    \A p, c \in Index :
        /\ Avail(p, c) = IF c <= p THEN p - c ELSE p + Slots - c
        /\ Avail(p, c) \in 0 .. Slots - 1
        /\ Avail(p, c) = 0 <=> p = c
<1> SUFFICES ASSUME NEW p \in Index, NEW c \in Index
             PROVE  /\ Avail(p, c) = IF c <= p THEN p - c ELSE p + Slots - c
                    /\ Avail(p, c) \in 0 .. Slots - 1
                    /\ Avail(p, c) = 0 <=> p = c
  OBVIOUS
<1>1. p + Slots - c \in 0 .. 2 * Slots - 1
  BY SlotsAssumption DEF Index
<1> QED  BY <1>1, ModOnce, SlotsAssumption DEF Avail, Index

\* A cursor step without the modulus.
LEMMA ForwardCases ==
    \A i \in Index, n \in 0 .. Slots :
        /\ Forward(i, n) = IF i + n < Slots THEN i + n ELSE i + n - Slots
        /\ Forward(i, n) \in Index
<1> SUFFICES ASSUME NEW i \in Index, NEW n \in 0 .. Slots
             PROVE  /\ Forward(i, n) = IF i + n < Slots THEN i + n ELSE i + n - Slots
                    /\ Forward(i, n) \in Index
  OBVIOUS
<1>1. i + n \in 0 .. 2 * Slots - 1
  BY SlotsAssumption DEF Index
<1> QED  BY <1>1, ModOnce, SlotsAssumption DEF Forward, Index

\* The producer's own step raises the occupancy by the words written.
LEMMA AvailForward ==
    ASSUME NEW p \in Index, NEW c \in Index, NEW n \in Nat, Fits(p, c, n)
    PROVE  /\ n \in 0 .. Slots
           /\ Avail(p, c) + n <= Slots - 1
           /\ Forward(p, n) \in Index
           /\ Avail(Forward(p, n), c) = Avail(p, c) + n
<1>1. /\ Avail(p, c) = IF c <= p THEN p - c ELSE p + Slots - c
      /\ Avail(p, c) \in 0 .. Slots - 1
      /\ Avail(p, c) + n <= Slots - 1
  BY AvailCases DEF Fits
<1>2. n \in 0 .. Slots
  BY <1>1, SlotsAssumption
<1>3. /\ Forward(p, n) \in Index
      /\ Forward(p, n) = IF p + n < Slots THEN p + n ELSE p + n - Slots
  BY <1>2, ForwardCases
<1>4. Avail(Forward(p, n), c) = IF c <= Forward(p, n) THEN Forward(p, n) - c
                                ELSE Forward(p, n) + Slots - c
  BY <1>3, AvailCases
<1> QED  BY <1>1, <1>2, <1>3, <1>4, SlotsAssumption DEF Index

\* The reader's step lowers it by one.
LEMMA AvailRead ==
    ASSUME NEW p \in Index, NEW c \in Index, p # c
    PROVE  /\ Avail(p, c) \in 1 .. Slots - 1
           /\ Forward(c, 1) \in Index
           /\ Avail(p, Forward(c, 1)) = Avail(p, c) - 1
<1>1. /\ Avail(p, c) = IF c <= p THEN p - c ELSE p + Slots - c
      /\ Avail(p, c) \in 0 .. Slots - 1
      /\ Avail(p, c) # 0
  BY AvailCases
<1>2. /\ Forward(c, 1) \in Index
      /\ Forward(c, 1) = IF c + 1 < Slots THEN c + 1 ELSE c + 1 - Slots
  BY ForwardCases, SlotsAssumption
<1>3. Avail(p, Forward(c, 1)) = IF Forward(c, 1) <= p THEN p - Forward(c, 1)
                                ELSE p + Slots - Forward(c, 1)
  BY <1>2, AvailCases
<1> QED  BY <1>1, <1>2, <1>3, SlotsAssumption DEF Index

\* Steps of a cursor add up.
LEMMA ForwardTwice ==
    ASSUME NEW c \in Index, NEW k \in 1 .. Slots
    PROVE  Forward(Forward(c, 1), k - 1) = Forward(c, k)
<1>1. 1 \in 0 .. Slots /\ k \in 0 .. Slots /\ k - 1 \in 0 .. Slots
  BY SlotsAssumption
<1>2. /\ Forward(c, 1) \in Index
      /\ Forward(c, 1) = IF c + 1 < Slots THEN c + 1 ELSE c + 1 - Slots
      /\ Forward(c, k) = IF c + k < Slots THEN c + k ELSE c + k - Slots
  BY <1>1, ForwardCases
<1>3. Forward(Forward(c, 1), k - 1)
        = IF Forward(c, 1) + (k - 1) < Slots THEN Forward(c, 1) + (k - 1)
          ELSE Forward(c, 1) + (k - 1) - Slots
  BY <1>1, <1>2, ForwardCases
<1> QED  BY <1>1, <1>2, <1>3, SlotsAssumption DEF Index

\* Where the cell k places behind the consumer lies, seen from the producer: an
\* unread cell is outside the words a fitting deposit writes, and the cells
\* behind the window are its first, second, ... word.
LEMMA CellFromProducer ==
    ASSUME NEW p \in Index, NEW c \in Index, NEW n \in Nat, Fits(p, c, n),
           NEW k \in Nat, k < Avail(p, c) + n
    PROVE  /\ Forward(c, k) \in Index
           /\ k < Avail(p, c) => Avail(Forward(c, k), p) >= n
           /\ k >= Avail(p, c) => Avail(Forward(c, k), p) = k - Avail(p, c)
<1>1. /\ Avail(p, c) = IF c <= p THEN p - c ELSE p + Slots - c
      /\ Avail(p, c) \in 0 .. Slots - 1
      /\ Avail(p, c) + n <= Slots - 1
  BY AvailCases DEF Fits
<1>2. k \in 0 .. Slots /\ k < Slots
  BY <1>1, SlotsAssumption
<1>3. /\ Forward(c, k) \in Index
      /\ Forward(c, k) = IF c + k < Slots THEN c + k ELSE c + k - Slots
  BY <1>2, ForwardCases
<1>4. Avail(Forward(c, k), p) = IF p <= Forward(c, k) THEN Forward(c, k) - p
                                ELSE Forward(c, k) + Slots - p
  BY <1>3, AvailCases
<1> QED  BY <1>1, <1>2, <1>3, <1>4, SlotsAssumption DEF Index

\* The window is a sequence of what the ring holds; equal cursors empty it.
LEMMA WindowType ==
    ASSUME NEW S, NEW ring \in [Index -> S], NEW p \in Index, NEW c \in Index
    PROVE  /\ Window(ring, p, c) \in Seq(S)
           /\ Len(Window(ring, p, c)) = Avail(p, c)
           /\ p = c => Window(ring, p, c) = <<>>
<1>1. Avail(p, c) \in 0 .. Slots - 1 /\ (p = c => Avail(p, c) = 0)
  BY AvailCases
<1>2. ASSUME NEW k \in 1 .. Avail(p, c)
      PROVE  ring[Forward(c, k - 1)] \in S
  <2>1. k - 1 \in 0 .. Slots
    BY <1>1, SlotsAssumption
  <2>2. Forward(c, k - 1) \in Index
    BY <2>1, ForwardCases
  <2> QED  BY <2>2
<1>3. Window(ring, p, c) \in [1 .. Avail(p, c) -> S]
  BY <1>2 DEF Window
<1>4. Avail(p, c) \in Nat
  BY <1>1, SlotsAssumption
<1>5. Window(ring, p, c) \in Seq(S) /\ Len(Window(ring, p, c)) = Avail(p, c)
  BY <1>3, <1>4
<1>6. ASSUME p = c PROVE Window(ring, p, c) = <<>>
  BY <1>1, <1>5, <1>6
<1> QED  BY <1>5, <1>6

\* Concatenation, cell by cell.
LEMMA ConcatCells ==
    ASSUME NEW S, NEW s \in Seq(S), NEW t \in Seq(S)
    PROVE  s \o t = [k \in 1 .. Len(s) + Len(t) |-> IF k <= Len(s) THEN s[k] ELSE t[k - Len(s)]]
<1>1. /\ s \o t \in Seq(S)
      /\ Len(s \o t) = Len(s) + Len(t)
      /\ \A k \in 1 .. Len(s) + Len(t) : (s \o t)[k] = IF k <= Len(s) THEN s[k] ELSE t[k - Len(s)]
  BY ConcatProperties
<1>2. s \o t = [k \in 1 .. Len(s \o t) |-> (s \o t)[k]]
  BY <1>1, LenProperties
<1> QED  BY <1>1, <1>2

\* A deposit that fits writes behind the unread window: the window keeps its
\* words and gains the words deposited, in order, wherever the wrap falls.
THEOREM WindowDeposit ==
    ASSUME NEW S, NEW ring \in [Index -> S], NEW p \in Index, NEW c \in Index,
           NEW words \in Seq(S), Fits(p, c, Len(words))
    PROVE  /\ Deposit(ring, p, words) \in [Index -> S]
           /\ Window(Deposit(ring, p, words), Forward(p, Len(words)), c)
                = Window(ring, p, c) \o words
<1> DEFINE n == Len(words)
           a == Avail(p, c)
           new == Deposit(ring, p, words)
           old == Window(ring, p, c)
<1>1. n \in Nat /\ a \in Nat
  BY AvailCases, SlotsAssumption
<1>2. \A i \in Index : Avail(i, p) \in Nat
  BY AvailCases, SlotsAssumption
<1>3. new \in [Index -> S]
  <2>1. ASSUME NEW i \in Index PROVE new[i] \in S
    <3>1. CASE Avail(i, p) < n
      BY <1>1, <1>2, <3>1 DEF Deposit
    <3>2. CASE ~(Avail(i, p) < n)
      BY <3>2 DEF Deposit
    <3> QED  BY <3>1, <3>2
  <2> QED  BY <2>1 DEF Deposit
<1>4. Avail(Forward(p, n), c) = a + n
  BY <1>1, AvailForward
<1>5. ASSUME NEW k \in 1 .. a
      PROVE  new[Forward(c, k - 1)] = old[k]
  <2>1. k - 1 \in Nat /\ k - 1 < a /\ k - 1 < a + n
    BY <1>1
  <2>2. Forward(c, k - 1) \in Index /\ Avail(Forward(c, k - 1), p) >= n
    BY <1>1, <2>1, CellFromProducer
  <2>3. new[Forward(c, k - 1)] = ring[Forward(c, k - 1)]
    BY <1>1, <1>2, <2>2 DEF Deposit
  <2> QED  BY <2>3 DEF Window
<1>6. ASSUME NEW k \in a + 1 .. a + n
      PROVE  new[Forward(c, k - 1)] = words[k - a]
  <2>1. k - 1 \in Nat /\ k - 1 >= a /\ k - 1 < a + n /\ (k - 1) - a < n
    BY <1>1
  <2>2. Forward(c, k - 1) \in Index /\ Avail(Forward(c, k - 1), p) = (k - 1) - a
    BY <1>1, <2>1, CellFromProducer
  <2>3. new[Forward(c, k - 1)] = words[(k - 1) - a + 1]
    BY <2>1, <2>2 DEF Deposit
  <2>4. (k - 1) - a + 1 = k - a
    BY <1>1
  <2> QED  BY <2>3, <2>4
<1>7. old \in Seq(S) /\ Len(old) = a
  BY WindowType
<1>8. Window(new, Forward(p, n), c) = [k \in 1 .. a + n |-> new[Forward(c, k - 1)]]
  BY <1>4 DEF Window
<1>9. old \o words = [k \in 1 .. a + n |-> IF k <= a THEN old[k] ELSE words[k - a]]
  <2>1. old \o words = [k \in 1 .. Len(old) + Len(words) |->
                          IF k <= Len(old) THEN old[k] ELSE words[k - Len(old)]]
    <3> HIDE DEF old
    <3> QED  BY <1>7, ConcatCells, Zenon
  <2> HIDE DEF a, old, new
  <2> QED  BY <2>1, <1>7
<1>10. ASSUME NEW k \in 1 .. a + n
       PROVE  new[Forward(c, k - 1)] = IF k <= a THEN old[k] ELSE words[k - a]
  <2> HIDE DEF a, n, new, old
  <2> QED  BY <1>1, <1>5, <1>6
<1>11. Window(new, Forward(p, n), c) = old \o words
  <2> HIDE DEF a, n, new, old
  <2> QED  BY <1>8, <1>9, <1>10
<1> QED  BY <1>3, <1>11

\* A read removes the first word of the window and leaves the rest.
THEOREM WindowRead ==
    ASSUME NEW S, NEW ring \in [Index -> S], NEW p \in Index, NEW c \in Index, p # c
    PROVE  Window(ring, p, c) = <<ring[c]>> \o Window(ring, p, Forward(c, 1))
<1> DEFINE a == Avail(p, c)
           rest == Window(ring, p, Forward(c, 1))
<1>1. /\ a \in 1 .. Slots - 1
      /\ Forward(c, 1) \in Index
      /\ Avail(p, Forward(c, 1)) = a - 1
  BY AvailRead
<1>2. ASSUME NEW k \in 1 .. a - 1
      PROVE  Forward(Forward(c, 1), k - 1) = Forward(c, k)
  <2>1. k \in 1 .. Slots
    BY <1>1, SlotsAssumption
  <2> QED  BY <2>1, ForwardTwice
<1>3. Forward(c, 0) = c
  BY ForwardCases, SlotsAssumption DEF Index
<1>4. rest = [k \in 1 .. a - 1 |-> ring[Forward(c, k)]]
  BY <1>1, <1>2 DEF Window
<1>5. rest \in Seq(S) /\ Len(rest) = a - 1
  <2>1. \A d \in Index : /\ Window(ring, p, d) \in Seq(S)
                        /\ Len(Window(ring, p, d)) = Avail(p, d)
    BY WindowType
  <2> QED  BY <1>1, <2>1
<1>6. a \in Nat /\ ring[c] \in S
  BY <1>1, SlotsAssumption
<1>7. <<ring[c]>> \o rest
        = [k \in 1 .. a |-> IF k = 1 THEN ring[c] ELSE rest[k - 1]]
  <2> HIDE DEF a, rest
  <2> QED  BY <1>5, <1>6
<1>8. ASSUME NEW k \in 2 .. a PROVE rest[k - 1] = ring[Forward(c, k - 1)]
  BY <1>4, <1>6
<1>9. Window(ring, p, c) = [k \in 1 .. a |-> ring[Forward(c, k - 1)]]
  BY DEF Window
<1>10. ASSUME NEW k \in 1 .. a
       PROVE  ring[Forward(c, k - 1)] = IF k = 1 THEN ring[c] ELSE rest[k - 1]
  BY <1>3, <1>6, <1>8
<1> HIDE DEF a, rest
<1> QED  BY <1>7, <1>9, <1>10 DEF rest

-----------------------------------------------------------------------------
(* The engine. *)

\* The drain takes the heartbeat for what its comment says: one cell, no payload.
BeatIsOneWord == BeatLen = 0

-----------------------------------------------------------------------------
(* The inductive invariant. *)

\* The words a reader inside a record (left words to go) has before it: the
\* rest of that record, then whole records.
Framed(w, left) ==
    /\ left <= Len(w)
    /\ left < Len(w) => w[left + 1].part = 1
    /\ \A k \in left + 1 .. Len(w) :
          w[k].part = 1 => /\ w[k].words >= 1
                           /\ k + w[k].words - 1 <= Len(w)
                           /\ k + w[k].words <= Len(w) => w[k + w[k].words].part = 1

Link1(d, c, m, h) ==
    /\ Avail(d.producer, m.at) <= Avail(d.producer, c)
    /\ Framed(Window(d.ring, d.producer, m.at), m.left)
    /\ h \o Window(d.ring, d.producer, m.at) = d.written

\* The FIFO is ordered by age, nothing in it is older than the Ttl now, and
\* nothing older has been posted.
Ordered(d, now) ==
    /\ \A i \in 1 .. Len(d.pending) : d.pending[i].enq <= now
    /\ \A i, j \in 1 .. Len(d.pending) : i <= j => d.pending[i].enq <= d.pending[j].enq
    /\ \A i \in 1 .. Len(d.posted) : d.posted[i].wait <= Ttl

Fifo(d, now) ==
    /\ Ordered(d, now)
    /\ \A i \in 1 .. Len(d.pending) : now - d.pending[i].enq <= Ttl

Owed(d, c, m) == d.producer # c => d.fiq0 \/ m.on

Served(d, c) == d.pending # <<>> => d.producer # c

MCU == [on : BOOLEAN, at : Index, left : Nat]

Inv ==
    /\ TypeOK
    /\ ~mcu.on => mcu.at = consumer /\ mcu.left = 0
    /\ Link1(dsp, consumer, mcu, heard)
    /\ Fifo(dsp, clock)
    /\ Owed(dsp, consumer, mcu)
    /\ Served(dsp, consumer)

\* What an operator of the queues leaves alone: everything the drain sees.
SameLink(d, e) ==
    /\ e.ring = d.ring /\ e.producer = d.producer /\ e.written = d.written
    /\ e.fiq0 = d.fiq0 /\ e.hbNext = d.hbNext /\ e.posted = d.posted

-----------------------------------------------------------------------------
(* The operators of the queues. *)

\* Every record fits an empty ring, and has a frame word.
LEMMA RecWordsBound ==
    \A len \in {kind.len : kind \in Kinds} : RecWords(len) \in 1 .. Slots - 1
<1> SUFFICES ASSUME NEW kind \in Kinds
             PROVE  RecWords(kind.len) \in 1 .. Slots - 1
  OBVIOUS
<1>1. kind.len \in Nat /\ RecWords(kind.len) <= Slots - 1
  BY EgressAssumption
<1> QED  BY <1>1, SlotsAssumption DEF RecWords

\* The fields of a state of the engine.
LEMMA Fields ==
    ASSUME NEW d \in DspState
    PROVE  /\ d.pending \in Seq(Rec) /\ d.delayed \in [Delayed -> Rec \cup {None}]
           /\ d.lost \in SUBSET Ids
           /\ d.ring \in [Index -> Word] /\ d.producer \in Index
           /\ d.fiq0 \in BOOLEAN /\ d.hbNext \in Nat
           /\ d.posted \in Seq([id : Ids, wait : Int]) /\ d.written \in Seq(Word)
  BY DEF DspState

\* A record stamped anew is a record.
LEMMA Stamped ==
    ASSUME NEW rec \in Rec, NEW enq \in Nat, NEW due \in Nat
    PROVE  /\ [rec EXCEPT !.enq = enq, !.due = due] \in Rec
           /\ [rec EXCEPT !.enq = enq, !.due = due].enq = enq
  BY DEF Rec

\* The stamp of a queued record is a time.
LEMMA EnqInNat == ASSUME NEW s \in Seq(Rec), NEW i \in 1 .. Len(s) PROVE s[i].enq \in Nat
<1>1. s[i] \in Rec
  OBVIOUS
<1> QED  BY <1>1 DEF Rec

\* Fresh records behind an ordered FIFO leave it ordered and fresh.
LEMMA FifoGrows ==
    ASSUME NEW d \in DspState, NEW e \in DspState, NEW now \in Nat, NEW more \in Seq(Rec),
           Fifo(d, now), e.posted = d.posted, e.pending = d.pending \o more,
           \A k \in 1 .. Len(more) : more[k].enq = now
    PROVE  Fifo(e, now)
<1> DEFINE s == d.pending
           t == e.pending
<1>1. s \in Seq(Rec) /\ t \in Seq(Rec) /\ Len(s) \in Nat /\ Len(t) \in Nat
  BY Fields
<1>2. /\ Len(t) = Len(s) + Len(more)
      /\ \A i \in 1 .. Len(s) : t[i] = s[i]
      /\ \A i \in Len(s) + 1 .. Len(t) : t[i] = more[i - Len(s)]
  BY <1>1
<1>3. \A i \in 1 .. Len(t) : t[i].enq \in Nat
  BY <1>1, EnqInNat
<1>4. \A i \in Len(s) + 1 .. Len(t) : t[i].enq = now
  <2> TAKE i \in Len(s) + 1 .. Len(t)
  <2>1. i - Len(s) \in 1 .. Len(more)
    BY <1>1, <1>2
  <2> QED  BY <2>1, <1>2
<1>5. /\ \A i \in 1 .. Len(s) : s[i].enq <= now /\ now - s[i].enq <= Ttl
      /\ \A i, j \in 1 .. Len(s) : i <= j => s[i].enq <= s[j].enq
      /\ \A i \in 1 .. Len(e.posted) : e.posted[i].wait <= Ttl
  BY DEF Fifo, Ordered
<1> HIDE DEF s, t
<1>6. \A i \in 1 .. Len(t) : t[i].enq <= now /\ now - t[i].enq <= Ttl
  <2> TAKE i \in 1 .. Len(t)
  <2>1. CASE i \in 1 .. Len(s)
    BY <2>1, <1>2, <1>5
  <2>2. CASE i \in Len(s) + 1 .. Len(t)
    BY <2>2, <1>4, EgressAssumption
  <2> QED  BY <2>1, <2>2, <1>1
<1>7. \A i, j \in 1 .. Len(t) : i <= j => t[i].enq <= t[j].enq
  <2> SUFFICES ASSUME NEW i \in 1 .. Len(t), NEW j \in 1 .. Len(t), i <= j
               PROVE  t[i].enq <= t[j].enq
    OBVIOUS
  <2>1. CASE j \in 1 .. Len(s)
    <3>1. i \in 1 .. Len(s)
      BY <2>1, <1>1
    <3> QED  BY <2>1, <3>1, <1>2, <1>5
  <2>2. CASE j \in Len(s) + 1 .. Len(t)
    BY <2>2, <1>4, <1>6
  <2> QED  BY <2>1, <2>2, <1>1
<1> QED  BY <1>5, <1>6, <1>7 DEF Fifo, Ordered, t

\* An enqueue stamps the record with now, so the FIFO stays in order and fresh.
LEMMA EnqueueFacts ==
    ASSUME NEW d \in DspState, NEW now \in Nat, NEW rec \in Rec, Fifo(d, now)
    PROVE  /\ Enqueue(d, now, rec) \in DspState
           /\ SameLink(d, Enqueue(d, now, rec))
           /\ Fifo(Enqueue(d, now, rec), now)
<1>1. CASE Len(d.pending) = PendingN - 1
  <2> DEFINE l == d.lost \cup {rec.id}
             e == [d EXCEPT !.lost = l]
  <2>1. l \in SUBSET Ids
    BY Fields DEF Rec
  <2>2. e \in DspState /\ SameLink(d, e) /\ e.pending = d.pending
    <3> HIDE DEF l
    <3> QED  BY <2>1 DEF DspState, SameLink
  <2>3. Fifo(e, now)
    <3> HIDE DEF e
    <3> QED  BY <2>2 DEF Fifo, Ordered, SameLink
  <2> QED  BY <1>1, <2>2, <2>3 DEF Enqueue
<1>2. CASE Len(d.pending) # PendingN - 1
  <2> DEFINE r == [rec EXCEPT !.enq = now, !.due = now]
             p == Append(d.pending, r)
             e == [d EXCEPT !.pending = p]
  <2>1. r \in Rec /\ r.enq = now
    BY Stamped
  <2>2. p \in Seq(Rec) /\ p = d.pending \o <<r>>
    <3> HIDE DEF r
    <3> QED  BY <2>1, Fields, AppendIsConcat
  <2>3. e \in DspState /\ SameLink(d, e) /\ e.pending = p
    <3> HIDE DEF p
    <3> QED  BY <2>2 DEF DspState, SameLink
  <2>4. Fifo(e, now)
    <3>1. <<r>> \in Seq(Rec) /\ \A k \in 1 .. Len(<<r>>) : <<r>>[k].enq = now
      <4> HIDE DEF r
      <4> QED  BY <2>1
    <3>2. e.posted = d.posted /\ e.pending = d.pending \o <<r>>
      <4> HIDE DEF e, r, p
      <4> QED  BY <2>2, <2>3 DEF SameLink
    <3> HIDE DEF e, r, p
    <3> QED  BY <2>3, <3>1, <3>2, FifoGrows
  <2> QED  BY <1>2, <2>3, <2>4 DEF Enqueue
<1> QED  BY <1>1, <1>2

\* A delayed enqueue fills a slot or falls back on the FIFO.
LEMMA EnqueueAtFacts ==
    ASSUME NEW d \in DspState, NEW now \in Nat, NEW due \in Nat, NEW rec \in Rec, Fifo(d, now)
    PROVE  /\ EnqueueAt(d, now, due, rec) \in DspState
           /\ SameLink(d, EnqueueAt(d, now, due, rec))
           /\ Fifo(EnqueueAt(d, now, due, rec), now)
<1>1. CASE \A i \in Delayed : d.delayed[i] # None
  BY <1>1, EnqueueFacts DEF EnqueueAt
<1>2. CASE ~(\A i \in Delayed : d.delayed[i] # None)
  <2> DEFINE r == [rec EXCEPT !.enq = now, !.due = due]
             del == [i \in Delayed |-> IF FirstFree(d, i) THEN r ELSE d.delayed[i]]
             e == [d EXCEPT !.delayed = del]
  <2>1. del \in [Delayed -> Rec \cup {None}]
    <3>1. r \in Rec
      BY Stamped
    <3> HIDE DEF r
    <3> QED  BY <3>1, Fields
  <2>2. e \in DspState /\ SameLink(d, e) /\ e.pending = d.pending
    <3> HIDE DEF del
    <3> QED  BY <2>1 DEF DspState, SameLink
  <2>3. Fifo(e, now)
    <3> HIDE DEF e
    <3> QED  BY <2>2 DEF Fifo, Ordered, SameLink
  <2>4. EnqueueAt(d, now, due, rec) = e
    BY <1>2 DEF EnqueueAt
  <2> HIDE DEF e
  <2> QED  BY <2>2, <2>3, <2>4
<1> QED  BY <1>1, <1>2

\* What a chain of queue operators keeps is kept by the chain.
LEMMA SameLinkTwice ==
    ASSUME NEW d, NEW e, NEW f, SameLink(d, e), SameLink(e, f)
    PROVE  SameLink(d, f)
  BY DEF SameLink

\* One record asked for, at once or delayed.
LEMMA AskFacts ==
    ASSUME NEW d \in DspState, NEW now \in Nat, NEW kind \in Kinds, NEW n \in Nat,
           asked + n \in Ids, Fifo(d, now)
    PROVE  /\ Ask(d, now, kind, n) \in DspState
           /\ SameLink(d, Ask(d, now, kind, n))
           /\ Fifo(Ask(d, now, kind, n), now)
<1>1. NewRec(kind, n) \in Rec
  BY EgressAssumption DEF NewRec, Rec
<1>2. kind.delay \in Nat /\ now + kind.delay \in Nat
  BY EgressAssumption
<1> QED  BY <1>1, <1>2, EnqueueFacts, EnqueueAtFacts DEF Ask

\* A batch asked for: the link is untouched, and the FIFO stays fresh.
LEMMA AskAllFacts ==
    ASSUME NEW d \in DspState, NEW now \in Nat, NEW t \in Nat, NEW batch \in Batches(t),
           asked \in Nat, Fifo(d, now)
    PROVE  /\ AskAll(d, now, batch) \in DspState
           /\ SameLink(d, AskAll(d, now, batch))
           /\ Fifo(AskAll(d, now, batch), now)
           /\ asked + Len(batch) \in 0 .. MaxRec
<1>1. PICK n \in 0 .. 2 : batch \in [1 .. n -> Kinds]
  BY DEF Batches
<1>2. Len(batch) = n
  BY <1>1
<1>3. asked + n \in 0 .. MaxRec
  BY <1>2, EgressAssumption DEF Batches
<1>4. CASE n = 0
  BY <1>2, <1>3, <1>4 DEF AskAll, SameLink
<1>5. CASE n = 1
  <2>1. batch[1] \in Kinds /\ asked + 1 \in Ids
    BY <1>1, <1>3, <1>5, EgressAssumption DEF Ids
  <2>2. AskAll(d, now, batch) = Ask(d, now, batch[1], 1)
    BY <1>2, <1>5 DEF AskAll
  <2> QED  BY <1>2, <1>3, <2>1, <2>2, AskFacts
<1>6. CASE n = 2
  <2> DEFINE e == Ask(d, now, batch[1], 1)
  <2>1. batch[1] \in Kinds /\ batch[2] \in Kinds /\ asked + 1 \in Ids /\ asked + 2 \in Ids
    BY <1>1, <1>3, <1>6, EgressAssumption DEF Ids
  <2>2. AskAll(d, now, batch) = Ask(e, now, batch[2], 2)
    BY <1>2, <1>6 DEF AskAll
  <2>3. e \in DspState /\ SameLink(d, e) /\ Fifo(e, now)
    BY <2>1, AskFacts
  <2> HIDE DEF e
  <2>4. /\ Ask(e, now, batch[2], 2) \in DspState
        /\ SameLink(e, Ask(e, now, batch[2], 2))
        /\ Fifo(Ask(e, now, batch[2], 2), now)
    BY <2>1, <2>3, AskFacts
  <2> QED  BY <1>2, <1>3, <2>2, <2>3, <2>4, SameLinkTwice
<1> QED  BY <1>1, <1>4, <1>5, <1>6

\* An enumeration is a sequence over the set it enumerates.
LEMMA AscendingType ==
    ASSUME NEW S, NEW n \in Nat, NEW ord \in Ascending(S, n)
    PROVE  ord \in Seq(S) /\ \A a, b \in 1 .. Len(ord) : a < b => ord[a] < ord[b]
<1>1. PICK k \in 0 .. n : ord \in [1 .. k -> S]
  BY DEF Ascending
<1>2. ord \in Seq(S) /\ DOMAIN ord = 1 .. Len(ord)
  BY <1>1
<1>3. \A a, b \in DOMAIN ord : a < b => ord[a] < ord[b]
  BY DEF Ascending
<1> QED  BY <1>2, <1>3

\* The matured records join the FIFO with a new stamp, in any order of slots.
LEMMA PumpDelayedFacts ==
    ASSUME NEW d \in DspState, NEW now \in Nat, Fifo(d, now), NEW e \in PumpDelayed(d, now)
    PROVE  e \in DspState /\ SameLink(d, e) /\ Fifo(e, now)
<1> DEFINE room == PendingN - 1 - Len(d.pending)
           stamped(i) == [d.delayed[i] EXCEPT !.enq = now, !.due = now]
           entered(ord) == [k \in {k \in DOMAIN ord : k <= room} |-> stamped(ord[k])]
           del == [i \in Delayed |-> IF i \in Matured(d, now) THEN None ELSE d.delayed[i]]
           gone(ord) == d.lost \cup {d.delayed[ord[k]].id : k \in {k \in DOMAIN ord : k > room}}
<1>1. PICK ord \in Ascending(Matured(d, now), DelayedN) :
         e = [d EXCEPT !.pending = d.pending \o entered(ord), !.delayed = del, !.lost = gone(ord)]
  BY DEF PumpDelayed
<1>2. ord \in Seq(Matured(d, now))
  BY AscendingType, EgressAssumption
<1>3. \A i \in Matured(d, now) : /\ d.delayed[i] \in Rec
                                 /\ stamped(i) \in Rec /\ stamped(i).enq = now
  <2> TAKE i \in Matured(d, now)
  <2>1. d.delayed[i] \in Rec
    BY Fields DEF Matured
  <2> QED  BY <2>1, Stamped
<1>4. entered(ord) \in Seq(Rec) /\ \A k \in 1 .. Len(entered(ord)) : entered(ord)[k].enq = now
  <2> DEFINE dom == {k \in DOMAIN ord : k <= room}
  <2>1. PICK n \in Nat : dom = 1 .. n /\ n <= Len(ord)
    <3>1. room \in Int /\ Len(ord) \in Nat /\ DOMAIN ord = 1 .. Len(ord)
      BY <1>2, Fields, EgressAssumption
    <3>2. CASE room < 0
      <4>1. dom = 1 .. 0
        BY <3>1, <3>2
      <4> QED  BY <4>1, <3>1
    <3>3. CASE room >= 0 /\ room <= Len(ord)
      <4>1. dom = 1 .. room
        BY <3>1, <3>3
      <4> QED  BY <4>1, <3>1, <3>3
    <3>4. CASE room > Len(ord)
      <4>1. dom = 1 .. Len(ord)
        BY <3>1, <3>4
      <4> QED  BY <4>1, <3>1
    <3> QED  BY <3>1, <3>2, <3>3, <3>4
  <2>2. entered(ord) = [k \in 1 .. n |-> stamped(ord[k])]
    BY <2>1
  <2>3. ASSUME NEW k \in 1 .. n PROVE ord[k] \in Matured(d, now)
    BY <1>2, <2>1
  <2> HIDE DEF stamped, entered
  <2>4. \A k \in 1 .. n : stamped(ord[k]) \in Rec /\ stamped(ord[k]).enq = now
    BY <1>3, <2>3
  <2> QED  BY <2>2, <2>4
<1>5. del \in [Delayed -> Rec \cup {None}]
  BY Fields
<1>6. gone(ord) \in SUBSET Ids
  <2>1. ASSUME NEW k \in DOMAIN ord PROVE d.delayed[ord[k]].id \in Ids
    <3>1. ord[k] \in Matured(d, now)
      BY <1>2
    <3>2. d.delayed[ord[k]] \in Rec
      BY <3>1, <1>3
    <3> QED  BY <3>2 DEF Rec
  <2> QED  BY <2>1, Fields
<1> DEFINE p == d.pending \o entered(ord)
           l == gone(ord)
<1>7. p \in Seq(Rec)
  <2> HIDE DEF entered
  <2> QED  BY <1>4, Fields, ConcatProperties
<1>8. e \in DspState /\ SameLink(d, e) /\ e.pending = p
  <2>1. e = [d EXCEPT !.pending = p, !.delayed = del, !.lost = l]
    BY <1>1
  <2> HIDE DEF p, del, l
  <2> QED  BY <2>1, <1>5, <1>6, <1>7 DEF DspState, SameLink, l
<1>9. Fifo(e, now)
  <2> DEFINE more == entered(ord)
  <2>1. e.posted = d.posted /\ e.pending = d.pending \o more
    BY <1>8 DEF SameLink
  <2>2. more \in Seq(Rec) /\ \A k \in 1 .. Len(more) : more[k].enq = now
    BY <1>4
  <2> HIDE DEF more, p, del, l
  <2> QED  BY <1>8, <2>1, <2>2, FifoGrows
<1> QED  BY <1>8, <1>9

\* The expiry turns an ordered FIFO into a fresh one: behind the first fresh
\* record there is no stale one.
LEMMA ExpireStaleFacts ==
    ASSUME NEW d \in DspState, NEW now \in Nat, Ordered(d, now), NEW e \in ExpireStale(d, now)
    PROVE  e \in DspState /\ SameLink(d, e) /\ Fifo(e, now)
<1> DEFINE s == d.pending
<1>1. PICK k \in 0 .. Len(s) :
         /\ k < Len(s) => ~Stale(s[k + 1], now)
         /\ e = [d EXCEPT !.pending = SubSeq(s, k + 1, Len(s)),
                          !.lost = d.lost \cup {s[i].id : i \in 1 .. k}]
  BY DEF ExpireStale
<1> DEFINE t == SubSeq(s, k + 1, Len(s))
           l == d.lost \cup {s[i].id : i \in 1 .. k}
<1>2. s \in Seq(Rec) /\ Len(s) \in Nat
  BY Fields
<1>3. /\ t \in Seq(Rec) /\ Len(t) = Len(s) - k
      /\ \A i \in 1 .. Len(t) : i + k \in 1 .. Len(s) /\ t[i] = s[i + k]
  <2>1. /\ t \in Seq(Rec)
        /\ Len(t) = IF k + 1 <= Len(s) THEN Len(s) - (k + 1) + 1 ELSE 0
        /\ \A i \in 1 .. Len(s) - (k + 1) + 1 : t[i] = s[(k + 1) + i - 1]
    <3>1. k + 1 \in 1 .. Len(s) + 1 /\ Len(s) \in k + 1 - 1 .. Len(s)
      BY <1>2
    <3> HIDE DEF s
    <3> QED  BY <1>2, <3>1, SubSeqProperties
  <2> HIDE DEF s, t
  <2>2. Len(t) = Len(s) - k
    BY <1>2, <2>1
  <2>3. ASSUME NEW i \in 1 .. Len(t) PROVE i + k \in 1 .. Len(s) /\ t[i] = s[i + k]
    <3>1. /\ i + k \in 1 .. Len(s) /\ (k + 1) + i - 1 = i + k
          /\ i \in 1 .. Len(s) - (k + 1) + 1
      BY <1>2, <2>2
    <3> QED  BY <2>1, <3>1
  <2> QED  BY <2>1, <2>2, <2>3
<1>4. l \in SUBSET Ids
  <2>1. ASSUME NEW i \in 1 .. k PROVE s[i].id \in Ids
    <3>1. s[i] \in Rec
      BY <1>2
    <3> QED  BY <3>1 DEF Rec
  <2> QED  BY <2>1, Fields
<1>5. e \in DspState /\ SameLink(d, e) /\ e.pending = t
  <2>1. e = [d EXCEPT !.pending = t, !.lost = l]
    BY <1>1
  <2> HIDE DEF t, l
  <2> QED  BY <2>1, <1>3, <1>4 DEF DspState, SameLink
<1>6. /\ \A i \in 1 .. Len(s) : s[i].enq \in Nat /\ s[i].enq <= now
      /\ \A i, j \in 1 .. Len(s) : i <= j => s[i].enq <= s[j].enq
      /\ \A i \in 1 .. Len(e.posted) : e.posted[i].wait <= Ttl
  BY <1>2, <1>5, EnqInNat DEF Ordered, SameLink
<1>7. k < Len(s) => now - s[k + 1].enq <= Ttl
  <2> SUFFICES ASSUME k < Len(s) PROVE now - s[k + 1].enq <= Ttl
    OBVIOUS
  <2>1. k + 1 \in 1 .. Len(s)
    BY <1>2
  <2>2. s[k + 1].enq \in Nat
    BY <1>2, <2>1, EnqInNat
  <2>3. ~(now - s[k + 1].enq > Ttl)
    BY <1>1 DEF Stale
  <2> HIDE DEF s
  <2> QED  BY <2>2, <2>3, EgressAssumption
<1> HIDE DEF s, t
<1>8. \A i \in 1 .. Len(t) : t[i].enq <= now /\ now - t[i].enq <= Ttl
  <2> TAKE i \in 1 .. Len(t)
  <2>1. i + k \in 1 .. Len(s) /\ k + 1 \in 1 .. Len(s) /\ k + 1 <= i + k /\ k < Len(s)
    BY <1>2, <1>3
  <2>2. s[k + 1].enq <= s[i + k].enq
    BY <2>1, <1>6
  <2> QED  BY <2>1, <2>2, <1>3, <1>6, <1>7, EgressAssumption
<1>9. \A i, j \in 1 .. Len(t) : i <= j => t[i].enq <= t[j].enq
  <2> TAKE i, j \in 1 .. Len(t)
  <2>1. i + k \in 1 .. Len(s) /\ j + k \in 1 .. Len(s) /\ (i <= j => i + k <= j + k)
    BY <1>2, <1>3
  <2> QED  BY <2>1, <1>3, <1>6
<1> QED  BY <1>5, <1>6, <1>8, <1>9 DEF Fifo, Ordered

\* Part of a fresh FIFO, in its order, is a fresh FIFO.
LEMMA DropIdleRadioFacts ==
    ASSUME NEW d \in DspState, NEW now \in Nat, Fifo(d, now), NEW e \in DropIdleRadio(d)
    PROVE  e \in DspState /\ SameLink(d, e) /\ Fifo(e, now)
<1> DEFINE s == d.pending
           stay == {i \in DOMAIN s : ~s[i].radio}
           idle == {i \in Delayed : d.delayed[i] # None /\ d.delayed[i].radio}
           kept(ord) == [k \in DOMAIN ord |-> s[ord[k]]]
           del == [i \in Delayed |-> IF d.delayed[i] # None /\ d.delayed[i].radio
                                     THEN None ELSE d.delayed[i]]
           l == d.lost \cup {s[i].id : i \in {i \in DOMAIN s : s[i].radio}}
                       \cup {d.delayed[i].id : i \in idle}
<1>1. PICK ord \in Ascending(stay, Len(s)) :
         e = [d EXCEPT !.pending = kept(ord), !.delayed = del, !.lost = l]
  BY DEF DropIdleRadio
<1> DEFINE t == kept(ord)
<1>2. s \in Seq(Rec) /\ Len(s) \in Nat /\ DOMAIN s = 1 .. Len(s)
  BY Fields
<1>3. ord \in Seq(stay) /\ \A a, b \in 1 .. Len(ord) : a < b => ord[a] < ord[b]
  BY <1>2, AscendingType
<1>4. /\ t \in Seq(Rec) /\ Len(t) = Len(ord) /\ Len(t) \in Nat
      /\ \A i \in 1 .. Len(t) : ord[i] \in 1 .. Len(s) /\ t[i] = s[ord[i]]
  <2>1. /\ DOMAIN ord = 1 .. Len(ord) /\ Len(ord) \in Nat
        /\ \A i \in 1 .. Len(ord) : ord[i] \in 1 .. Len(s)
    BY <1>2, <1>3
  <2>2. \A i \in 1 .. Len(ord) : s[ord[i]] \in Rec
    BY <2>1, <1>2
  <2> HIDE DEF s
  <2> QED  BY <2>1, <2>2
<1>5. del \in [Delayed -> Rec \cup {None}]
  BY Fields
<1>6. l \in SUBSET Ids
  <2>1. ASSUME NEW i \in DOMAIN s PROVE s[i].id \in Ids
    <3>1. s[i] \in Rec
      BY <1>2
    <3> QED  BY <3>1 DEF Rec
  <2>2. ASSUME NEW i \in idle PROVE d.delayed[i].id \in Ids
    <3>1. d.delayed[i] \in Rec
      BY Fields
    <3> QED  BY <3>1 DEF Rec
  <2> QED  BY <2>1, <2>2, Fields
<1>7. e \in DspState /\ SameLink(d, e) /\ e.pending = t
  <2>1. e = [d EXCEPT !.pending = t, !.delayed = del, !.lost = l]
    BY <1>1
  <2> HIDE DEF t, del, l
  <2> QED  BY <2>1, <1>4, <1>5, <1>6 DEF DspState, SameLink
<1>8. /\ \A i \in 1 .. Len(s) : s[i].enq <= now /\ now - s[i].enq <= Ttl
      /\ \A i, j \in 1 .. Len(s) : i <= j => s[i].enq <= s[j].enq
      /\ \A i \in 1 .. Len(e.posted) : e.posted[i].wait <= Ttl
  BY <1>7 DEF Fifo, Ordered, SameLink
<1> HIDE DEF s, t
<1>9. \A i \in 1 .. Len(t) : t[i].enq <= now /\ now - t[i].enq <= Ttl
  BY <1>4, <1>8
<1>10. \A i, j \in 1 .. Len(t) : i <= j => t[i].enq <= t[j].enq
  <2> SUFFICES ASSUME NEW i \in 1 .. Len(t), NEW j \in 1 .. Len(t), i <= j
               PROVE  t[i].enq <= t[j].enq
    OBVIOUS
  <2>1. i = j \/ ord[i] < ord[j]
    BY <1>3, <1>4
  <2>2. ord[i] \in 1 .. Len(s) /\ ord[j] \in 1 .. Len(s) /\ ord[i] <= ord[j]
    BY <2>1, <1>2, <1>4
  <2> QED  BY <2>2, <1>4, <1>8
<1> QED  BY <1>7, <1>8, <1>9, <1>10 DEF Fifo, Ordered

-----------------------------------------------------------------------------
(* The operators that write the ring. *)

\* The words of a record: the frame word first, then the rest of it.
LEMMA WordsOfType ==
    ASSUME NEW id \in Ids \cup {Beat}, NEW n \in Nat
    PROVE  /\ WordsOf(id, n) \in Seq(Word) /\ Len(WordsOf(id, n)) = n
           /\ \A k \in 1 .. n : WordsOf(id, n)[k].part = k /\ WordsOf(id, n)[k].words = n
<1>1. \A k \in 1 .. n : [id |-> id, part |-> k, words |-> n] \in Word
  BY DEF Word
<1>2. WordsOf(id, n) \in [1 .. n -> Word]
  BY <1>1 DEF WordsOf
<1>3. WordsOf(id, n) \in Seq(Word) /\ Len(WordsOf(id, n)) = n
  BY <1>2
<1> QED  BY <1>3 DEF WordsOf

\* Another whole record behind well-framed words leaves them well framed.
LEMMA FramedGrows ==
    ASSUME NEW w \in Seq(Word), NEW left \in Nat, Framed(w, left),
           NEW n \in Nat, n >= 1, NEW id \in Ids \cup {Beat}
    PROVE  Framed(w \o WordsOf(id, n), left)
<1> DEFINE r == WordsOf(id, n)
           v == w \o r
           len == Len(w)
<1>1. /\ r \in Seq(Word) /\ Len(r) = n
      /\ \A k \in 1 .. n : r[k].part = k /\ r[k].words = n
  BY WordsOfType
<1>2. /\ v \in Seq(Word) /\ Len(v) = len + n
      /\ \A k \in 1 .. len : v[k] = w[k]
      /\ \A k \in len + 1 .. len + n : v[k] = r[k - len]
  <2> HIDE DEF r
  <2> QED  BY <1>1
<1>3. len \in Nat /\ left <= len
  BY DEF Framed
<1>4. ASSUME NEW k \in len + 1 .. len + n PROVE v[k].part = k - len /\ v[k].words = n
  <2>1. k - len \in 1 .. n
    BY <1>3
  <2> QED  BY <2>1, <1>1, <1>2
<1>5. ASSUME NEW k \in 1 .. len PROVE w[k].words \in Nat
  <2>1. w[k] \in Word
    OBVIOUS
  <2> QED  BY <2>1 DEF Word
<1>6. /\ left < len => w[left + 1].part = 1
      /\ \A k \in left + 1 .. len :
            w[k].part = 1 => /\ w[k].words >= 1 /\ k + w[k].words - 1 <= len
                             /\ k + w[k].words <= len => w[k + w[k].words].part = 1
  BY DEF Framed
<1> HIDE DEF v, r, len
<1>7. v[left + 1].part = 1
  <2>1. CASE left < len
    <3>1. left + 1 \in 1 .. len
      BY <2>1, <1>3
    <3> QED  BY <2>1, <3>1, <1>2, <1>6
  <2>2. CASE left = len
    <3>1. left + 1 \in len + 1 .. len + n /\ (left + 1) - len = 1
      BY <2>2, <1>3
    <3> QED  BY <3>1, <1>4
  <2> QED  BY <2>1, <2>2, <1>3
<1>8. ASSUME NEW k \in left + 1 .. len + n, v[k].part = 1
      PROVE  /\ v[k].words >= 1 /\ k + v[k].words - 1 <= len + n
             /\ k + v[k].words <= len + n => v[k + v[k].words].part = 1
  <2>1. CASE k <= len
    <3>1. k \in left + 1 .. len /\ k \in 1 .. len
      BY <2>1, <1>3
    <3>2. v[k] = w[k] /\ w[k].words \in Nat
      BY <3>1, <1>2, <1>5
    <3>3. /\ w[k].words >= 1 /\ k + w[k].words - 1 <= len
          /\ k + w[k].words <= len => w[k + w[k].words].part = 1
      BY <3>1, <3>2, <1>6, <1>8
    <3> DEFINE size == w[k].words
               next == k + size
    <3>4. size \in Nat /\ size >= 1 /\ k + size - 1 <= len /\ v[k].words = size
      BY <3>2, <3>3
    <3>5. CASE next <= len
      <4>1. w[next].part = 1
        BY <3>3, <3>5
      <4>2. next \in 1 .. len
        <5> HIDE DEF size
        <5> QED  BY <3>1, <3>4, <3>5, <1>3
      <4> HIDE DEF size, next
      <4> QED  BY <4>1, <4>2, <3>4, <1>2, <1>3 DEF next
    <3>6. CASE next = len + 1
      <4>1. next \in len + 1 .. len + n /\ next - len = 1
        BY <3>6, <1>3
      <4>2. v[next].part = 1
        BY <4>1, <1>4
      <4> HIDE DEF size, next
      <4> QED  BY <3>4, <3>6, <4>2, <1>3 DEF next
    <3>7. next <= len \/ next = len + 1
      <4> HIDE DEF size
      <4> QED  BY <3>1, <3>4, <1>3
    <3> QED  BY <3>5, <3>6, <3>7
  <2>2. CASE k > len
    <3>1. k \in len + 1 .. len + n
      BY <2>2, <1>3
    <3>2. v[k].words = n /\ k - len = 1
      BY <3>1, <1>4, <1>8
    <3> QED  BY <3>1, <3>2, <1>3
  <2> QED  BY <2>1, <2>2, <1>3
<1>9. Framed(v, left)
  BY <1>2, <1>3, <1>7, <1>8 DEF Framed
<1> QED  BY <1>9 DEF v, r

\* The ring's theorem for words.
LEMMA WordDeposit ==
    \A ring \in [Index -> Word], p \in Index, c \in Index, words \in Seq(Word) :
        Fits(p, c, Len(words)) =>
            /\ Deposit(ring, p, words) \in [Index -> Word]
            /\ Window(Deposit(ring, p, words), Forward(p, Len(words)), c)
                 = Window(ring, p, c) \o words
  BY WindowDeposit

\* Words that fit, written behind a record boundary, reach the drain behind
\* everything it had before it, and wake it.
LEMMA WrittenFacts ==
    ASSUME NEW d \in DspState, NEW c \in Index, NEW m \in MCU, NEW h \in Seq(Word),
           NEW now \in Nat, Link1(d, c, m, h),
           NEW n \in Nat, n >= 1, NEW id \in Ids \cup {Beat}, Fits(d.producer, c, n)
    PROVE  LET e == Written(d, now, WordsOf(id, n))
           IN  /\ e \in DspState /\ Link1(e, c, m, h)
               /\ e.fiq0 /\ e.producer # c
               /\ e.pending = d.pending /\ e.posted = d.posted
<1> DEFINE words == WordsOf(id, n)
           p == Forward(d.producer, n)
           ring == Deposit(d.ring, d.producer, words)
           e == Written(d, now, words)
           w == Window(d.ring, d.producer, m.at)
<1>1. words \in Seq(Word) /\ Len(words) = n
  BY WordsOfType
<1>2. /\ d.ring \in [Index -> Word] /\ d.producer \in Index /\ d.written \in Seq(Word)
      /\ m.at \in Index /\ m.left \in Nat
  BY Fields DEF MCU
<1>3. Avail(d.producer, m.at) <= Avail(d.producer, c) /\ Framed(w, m.left) /\ h \o w = d.written
  BY DEF Link1
<1>4. Fits(d.producer, m.at, n)
  <2>1. Avail(d.producer, m.at) \in Nat /\ Avail(d.producer, c) \in Nat
    BY <1>2, AvailCases, SlotsAssumption
  <2> QED  BY <2>1, <1>3, SlotsAssumption DEF Fits
<1>5. /\ p \in Index
      /\ Avail(p, m.at) = Avail(d.producer, m.at) + n
      /\ Avail(p, c) = Avail(d.producer, c) + n
      /\ Avail(d.producer, c) \in Nat /\ Avail(d.producer, m.at) \in Nat
  <2>1. Avail(d.producer, c) \in Nat /\ Avail(d.producer, m.at) \in Nat
    BY <1>2, AvailCases, SlotsAssumption
  <2>2. p \in Index /\ Avail(p, m.at) = Avail(d.producer, m.at) + n
    BY <1>2, <1>4, AvailForward
  <2>3. Avail(p, c) = Avail(d.producer, c) + n
    BY <1>2, AvailForward
  <2> QED  BY <2>1, <2>2, <2>3
<1>6. ring \in [Index -> Word] /\ Window(ring, p, m.at) = w \o words
  <2> HIDE DEF words
  <2>1. Fits(d.producer, m.at, Len(words))
    BY <1>1, <1>4
  <2>2. /\ Deposit(d.ring, d.producer, words) \in [Index -> Word]
        /\ Window(Deposit(d.ring, d.producer, words), Forward(d.producer, Len(words)), m.at)
             = Window(d.ring, d.producer, m.at) \o words
    <3>1. d.ring \in [Index -> Word] /\ d.producer \in Index /\ m.at \in Index
      BY <1>2
    <3> QED  BY <1>1, <2>1, <3>1, WordDeposit
  <2> QED  BY <1>1, <2>2
<1>7. Framed(w \o words, m.left)
  <2>1. w \in Seq(Word)
    BY <1>2, WindowType
  <2> QED  BY <2>1, <1>2, <1>3, FramedGrows
<1>8. h \o (w \o words) = d.written \o words
  <2>1. w \in Seq(Word)
    BY <1>2, WindowType
  <2> HIDE DEF w, words
  <2>2. (h \o w) \o words = h \o (w \o words)
    BY <2>1, <1>1, ConcatAssociative
  <2> QED  BY <2>2, <1>3
<1>9. p # c
  BY <1>2, <1>5, AvailCases
<1>10. d.written \o words \in Seq(Word) /\ now + KaCyc \in Nat
  <2> HIDE DEF words
  <2> QED  BY <1>1, <1>2, ConcatProperties, EgressAssumption
<1>11. /\ e \in DspState /\ e.ring = ring /\ e.producer = p /\ e.fiq0
       /\ e.written = d.written \o words /\ e.pending = d.pending /\ e.posted = d.posted
  <2> DEFINE wr == d.written \o words
             hb == now + KaCyc
  <2>1. e = [d EXCEPT !.ring = ring, !.producer = p, !.written = wr, !.fiq0 = TRUE, !.hbNext = hb]
    BY <1>1 DEF Written
  <2>2. wr \in Seq(Word) /\ hb \in Nat
    BY <1>10
  <2> HIDE DEF words, p, ring, e, wr, hb
  <2>3. /\ e \in DspState /\ e.ring = ring /\ e.producer = p /\ e.fiq0
        /\ e.written = wr /\ e.pending = d.pending /\ e.posted = d.posted
    BY <2>1, <2>2, <1>5, <1>6 DEF DspState
  <2> QED  BY <2>3 DEF wr
<1>12. Link1(e, c, m, h)
  <2> HIDE DEF words, p, ring, e, w
  <2>1. Avail(p, m.at) <= Avail(p, c)
    BY <1>3, <1>5
  <2> QED  BY <2>1, <1>6, <1>7, <1>8, <1>11 DEF Link1
<1> QED  BY <1>9, <1>11, <1>12

\* The invariant of a handler half-way: all but Served, which only a pump restores.
Good(d, c, m, h, now) ==
    d \in DspState /\ Link1(d, c, m, h) /\ Fifo(d, now) /\ Owed(d, c, m)

\* A step of the queues that leaves the link alone keeps the invariant.
LEMMA QueueStepGood ==
    ASSUME NEW d, NEW e \in DspState, NEW c, NEW m, NEW h, NEW now,
           Link1(d, c, m, h), Owed(d, c, m), SameLink(d, e), Fifo(e, now)
    PROVE  Good(e, c, m, h, now)
  BY DEF Good, Link1, Owed, SameLink

\* The pump: whatever the queues hold, afterwards a waiting record means that
\* the ring is not empty.
LEMMA PostFacts ==
    ASSUME NEW d, NEW c \in Index, NEW m \in MCU, NEW h \in Seq(Word),
           NEW now \in Nat, Good(d, c, m, h, now)
    PROVE  Good(Post(d, c, now), c, m, h, now) /\ Served(Post(d, c, now), c)
<1>1. d \in DspState /\ Link1(d, c, m, h) /\ Fifo(d, now) /\ Owed(d, c, m)
  BY DEF Good
<1> DEFINE s == d.pending
           n == RecWords(Head(s).len)
<1>2. s \in Seq(Rec) /\ d.posted \in Seq([id : Ids, wait : Int]) /\ d.producer \in Index
  BY <1>1, Fields
<1>3. CASE s # <<>> /\ Fits(d.producer, c, n)
  <2> DEFINE rec == Head(s)
             w == Written(d, now, WordsOf(rec.id, n))
             t == Tail(s)
             po == Append(d.posted, [id |-> rec.id, wait |-> now - rec.enq])
             e == [w EXCEPT !.pending = t, !.posted = po]
  <2>1. Post(d, c, now) = e
    <3>1. w.pending = s /\ w.posted = d.posted
      BY <1>1 DEF Written, DspState
    <3> QED  BY <1>3, <3>1 DEF Post
  <2>2. rec \in Rec /\ rec = s[1] /\ 1 \in 1 .. Len(s) /\ Len(s) \in Nat
    BY <1>2, <1>3
  <2>3. n \in Nat /\ n >= 1 /\ rec.id \in Ids /\ rec.enq \in Nat
    BY <2>2, RecWordsBound, SlotsAssumption DEF Rec
  <2>4. /\ w \in DspState /\ Link1(w, c, m, h) /\ w.fiq0 /\ w.producer # c
    <3> HIDE DEF s, n
    <3> QED  BY <1>1, <1>3, <2>3, WrittenFacts
  <2>5. /\ t \in Seq(Rec) /\ Len(t) = Len(s) - 1
        /\ \A i \in 1 .. Len(t) : i + 1 \in 1 .. Len(s) /\ t[i] = s[i + 1]
    <3> HIDE DEF s
    <3> QED  BY <1>2, <1>3
  <2>6. now - rec.enq \in Int /\ now - rec.enq <= Ttl
    BY <1>1, <2>2, <2>3 DEF Fifo
  <2>7. /\ po \in Seq([id : Ids, wait : Int]) /\ Len(po) = Len(d.posted) + 1
        /\ \A i \in 1 .. Len(d.posted) : po[i] = d.posted[i]
        /\ po[Len(po)].wait = now - rec.enq
    <3> DEFINE end == [id |-> rec.id, wait |-> now - rec.enq]
    <3>1. end \in [id : Ids, wait : Int] /\ end.wait = now - rec.enq
      BY <2>3, <2>6
    <3> HIDE DEF end
    <3>2. Append(d.posted, end)[Len(d.posted) + 1] = end
      BY <1>2, <3>1
    <3>3. /\ Append(d.posted, end) \in Seq([id : Ids, wait : Int])
          /\ Len(Append(d.posted, end)) = Len(d.posted) + 1
          /\ \A i \in 1 .. Len(d.posted) : Append(d.posted, end)[i] = d.posted[i]
      BY <1>2, <3>1
    <3> QED  BY <3>1, <3>2, <3>3 DEF end
  <2>8. /\ e \in DspState /\ e.pending = t /\ e.posted = po
        /\ e.ring = w.ring /\ e.producer = w.producer /\ e.written = w.written /\ e.fiq0 = w.fiq0
    <3> HIDE DEF w, t, po
    <3> QED  BY <2>4, <2>5, <2>7 DEF DspState
  <2> HIDE DEF e, w, po, t, rec
  <2>9. Link1(e, c, m, h) /\ Owed(e, c, m) /\ Served(e, c)
    BY <2>4, <2>8 DEF Link1, Owed, Served
  <2>10. Ordered(e, now)
    <3>1. \A i \in 1 .. Len(po) : po[i].wait <= Ttl
      <4>1. \A i \in 1 .. Len(d.posted) : d.posted[i].wait <= Ttl
        BY <1>1 DEF Fifo, Ordered
      <4>2. Len(d.posted) \in Nat
        BY <1>2
      <4>3. \A i \in 1 .. Len(po) : i \in 1 .. Len(d.posted) \/ i = Len(po)
        BY <4>2, <2>7
      <4> QED  BY <4>1, <4>3, <2>6, <2>7
    <3>2. /\ \A i \in 1 .. Len(s) : s[i].enq <= now
          /\ \A i, j \in 1 .. Len(s) : i <= j => s[i].enq <= s[j].enq
      BY <1>1 DEF Fifo, Ordered
    <3> HIDE DEF s
    <3>3. \A i \in 1 .. Len(t) : t[i].enq <= now
      BY <3>2, <2>5
    <3>4. ASSUME NEW i \in 1 .. Len(t), NEW j \in 1 .. Len(t), i <= j
          PROVE  t[i].enq <= t[j].enq
      <4>1. i + 1 \in 1 .. Len(s) /\ j + 1 \in 1 .. Len(s) /\ i + 1 <= j + 1
        BY <2>5, <3>4
      <4> QED  BY <4>1, <3>2, <2>5
    <3> QED  BY <2>8, <3>1, <3>3, <3>4 DEF Ordered
  <2>11. \A i \in 1 .. Len(t) : now - t[i].enq <= Ttl
    BY <1>1, <2>5 DEF Fifo
  <2> QED  BY <2>1, <2>8, <2>9, <2>10, <2>11 DEF Good, Fifo
<1>4. CASE ~(s # <<>> /\ Fits(d.producer, c, n))
  <2>1. Post(d, c, now) = d
    BY <1>4 DEF Post
  <2>2. ASSUME s # <<>> PROVE d.producer # c
    <3>1. Head(s) \in Rec
      BY <1>2, <2>2
    <3>2. n \in 1 .. Slots - 1
      BY <3>1, RecWordsBound DEF Rec
    <3>3. ~Fits(d.producer, c, n)
      BY <1>4, <2>2
    <3> HIDE DEF n
    <3>4. ~(Avail(d.producer, c) = 0)
      BY <3>2, <3>3, SlotsAssumption DEF Fits
    <3> QED  BY <1>2, <3>4, AvailCases
  <2> QED  BY <2>1, <2>2 DEF Served
<1> QED  BY <1>3, <1>4

\* The heartbeat only ever adds one whole word, and only behind an empty queue.
LEMMA HeartbeatFacts ==
    ASSUME NEW d, NEW c \in Index, NEW m \in MCU, NEW h \in Seq(Word),
           NEW now \in Nat, Good(d, c, m, h, now), Served(d, c), BeatIsOneWord
    PROVE  Good(Heartbeat(d, c, now), c, m, h, now) /\ Served(Heartbeat(d, c, now), c)
<1>1. d \in DspState /\ Link1(d, c, m, h) /\ Fifo(d, now) /\ Owed(d, c, m)
  BY DEF Good
<1>2. ASSUME NEW hb \in Nat, Heartbeat(d, c, now) = [d EXCEPT !.hbNext = hb]
      PROVE  Good(Heartbeat(d, c, now), c, m, h, now) /\ Served(Heartbeat(d, c, now), c)
  <2> DEFINE e == [d EXCEPT !.hbNext = hb]
  <2>1. /\ e \in DspState /\ e.pending = d.pending /\ e.posted = d.posted /\ e.ring = d.ring
        /\ e.producer = d.producer /\ e.written = d.written /\ e.fiq0 = d.fiq0
    BY <1>1 DEF DspState
  <2> HIDE DEF e
  <2>2. Good(e, c, m, h, now) /\ Served(e, c)
    BY <1>1, <2>1 DEF Good, Served, Link1, Fifo, Ordered, Owed
  <2> QED  BY <1>2, <2>2 DEF e
<1>3. CASE ~(running /\ answered)
  BY <1>2, <1>3 DEF Heartbeat
<1>4. CASE running /\ answered /\ d.hbNext = 0
  <2>1. now + KaCyc \in Nat
    BY EgressAssumption
  <2> QED  BY <1>2, <1>4, <2>1 DEF Heartbeat
<1>5. CASE /\ running /\ answered /\ d.hbNext # 0
           /\ now < d.hbNext \/ d.pending # <<>> \/ d.producer # c
  BY <1>5 DEF Heartbeat
<1>6. CASE /\ running /\ answered /\ d.hbNext # 0
           /\ ~(now < d.hbNext \/ d.pending # <<>> \/ d.producer # c)
  <2> DEFINE e == Written(d, now, WordsOf(Beat, 1))
  <2>1. RecWords(BeatLen) = 1
    BY DEF BeatIsOneWord, RecWords
  <2>2. WordsOf(Beat, 1) = <<[id |-> Beat, part |-> 1, words |-> RecWords(BeatLen)]>>
    BY <2>1 DEF WordsOf
  <2>3. Heartbeat(d, c, now) = e
    BY <1>6, <2>2 DEF Heartbeat
  <2>4. Fits(d.producer, c, 1)
    <3>1. d.producer \in Index
      BY <1>1, Fields
    <3>2. Avail(d.producer, c) = 0
      BY <1>6, <3>1, AvailCases
    <3> QED  BY <3>2, SlotsAssumption DEF Fits
  <2>5. /\ e \in DspState /\ Link1(e, c, m, h) /\ e.fiq0 /\ e.producer # c
        /\ e.pending = d.pending /\ e.posted = d.posted
    BY <1>1, <2>4, WrittenFacts
  <2> HIDE DEF e
  <2>6. Good(e, c, m, h, now) /\ Served(e, c)
    BY <1>1, <2>5 DEF Good, Served, Fifo, Ordered, Owed
  <2> QED  BY <2>3, <2>6
<1> QED  BY <1>3, <1>4, <1>5, <1>6

\* With no deadline due, the FIFO is as fresh at the new time as it was.
LEMMA NotDueFresh ==
    ASSUME NEW d \in DspState, NEW now \in Nat, Ordered(d, now), ~WakeDue(d, now)
    PROVE  Fifo(d, now)
<1> DEFINE s == d.pending
<1>1. s \in Seq(Rec) /\ Len(s) \in Nat
  BY Fields
<1>2. ASSUME NEW i \in 1 .. Len(s) PROVE now - s[i].enq <= Ttl
  <2>1. s # <<>> /\ Head(s) = s[1] /\ 1 \in 1 .. Len(s) /\ 1 <= i
    BY <1>1
  <2>2. ~(s[1].enq + Ttl <= now)
    BY <2>1 DEF WakeDue
  <2>3. s[1].enq <= s[i].enq
    BY <2>1 DEF Ordered
  <2>4. s[1].enq \in Nat /\ s[i].enq \in Nat
    BY <1>1, <2>1, EnqInNat
  <2> HIDE DEF s
  <2> QED  BY <2>2, <2>3, <2>4, EgressAssumption
<1> QED  BY <1>2 DEF Fifo

\* advance_to restores the invariant at the new time.
LEMMA AdvanceFacts ==
    ASSUME NEW d \in DspState, NEW m \in MCU, NEW h \in Seq(Word), NEW now \in Nat,
           consumer \in Index, asked \in Nat,
           Link1(d, consumer, m, h), Owed(d, consumer, m), Ordered(d, now),
           NEW batch \in Batches(now), NEW e \in AdvanceTo(d, now, batch)
    PROVE  Good(e, consumer, m, h, now) /\ Served(e, consumer)
<1>1. PICK d1 \in ExpireStale(d, now) : \E x \in PumpDelayed(d1, now) :
              e = Post(AskAll(x, now, batch), consumer, now)
  BY DEF AdvanceTo
<1>2. PICK d2 \in PumpDelayed(d1, now) : e = Post(AskAll(d2, now, batch), consumer, now)
  BY <1>1
<1> DEFINE d3 == AskAll(d2, now, batch)
<1>3. d1 \in DspState /\ SameLink(d, d1) /\ Fifo(d1, now)
  BY ExpireStaleFacts
<1>4. d2 \in DspState /\ SameLink(d1, d2) /\ Fifo(d2, now)
  BY <1>3, PumpDelayedFacts
<1>5. d3 \in DspState /\ SameLink(d2, d3) /\ Fifo(d3, now)
  BY <1>4, AskAllFacts
<1> HIDE DEF d3
<1>6. SameLink(d, d3)
  BY <1>3, <1>4, <1>5, SameLinkTwice
<1>7. Good(d3, consumer, m, h, now)
  BY <1>5, <1>6, QueueStepGood
<1> QED  BY <1>2, <1>7, PostFacts DEF d3

\* A batch asked for and a pump, as in the command handlers and the responder.
LEMMA AskAndPost ==
    ASSUME NEW d, NEW m \in MCU, NEW h \in Seq(Word), NEW now \in Nat,
           consumer \in Index, asked \in Nat, Good(d, consumer, m, h, now),
           NEW batch \in Batches(now)
    PROVE  /\ Good(Post(AskAll(d, now, batch), consumer, now), consumer, m, h, now)
           /\ Served(Post(AskAll(d, now, batch), consumer, now), consumer)
           /\ asked + Len(batch) \in 0 .. MaxRec
<1> DEFINE e == AskAll(d, now, batch)
<1>1. d \in DspState /\ Link1(d, consumer, m, h) /\ Owed(d, consumer, m) /\ Fifo(d, now)
  BY DEF Good
<1>2. e \in DspState /\ SameLink(d, e) /\ Fifo(e, now) /\ asked + Len(batch) \in 0 .. MaxRec
  BY <1>1, AskAllFacts
<1> HIDE DEF e
<1>3. Good(e, consumer, m, h, now)
  BY <1>1, <1>2, QueueStepGood
<1>4. Good(Post(e, consumer, now), consumer, m, h, now) /\ Served(Post(e, consumer, now), consumer)
  BY <1>3, PostFacts
<1> QED  BY <1>2, <1>4 DEF e

-----------------------------------------------------------------------------
(* The drain. *)

\* Reading one word of well-framed words leaves well-framed words.
LEMMA FramedRead ==
    ASSUME NEW x \in Word, NEW v \in Seq(Word), NEW left \in Nat,
           Framed(<<x>> \o v, left)
    PROVE  LET rest == IF left = 0 THEN x.words - 1 ELSE left - 1
           IN  rest \in Nat /\ Framed(v, rest)
<1> DEFINE w == <<x>> \o v
           len == Len(v)
           rest == IF left = 0 THEN x.words - 1 ELSE left - 1
<1>1. /\ Len(w) = len + 1 /\ len \in Nat /\ w[1] = x
      /\ \A k \in 1 .. len : w[k + 1] = v[k]
  OBVIOUS
<1>2. ASSUME NEW k \in 1 .. len PROVE v[k].words \in Nat
  <2>1. v[k] \in Word
    OBVIOUS
  <2> QED  BY <2>1 DEF Word
<1>3. x.words \in Nat
  BY DEF Word
<1> HIDE DEF w, len
<1>4. /\ left <= len + 1
      /\ left < len + 1 => w[left + 1].part = 1
      /\ \A k \in left + 1 .. len + 1 :
            w[k].part = 1 => /\ w[k].words >= 1 /\ k + w[k].words - 1 <= len + 1
                             /\ k + w[k].words <= len + 1 => w[k + w[k].words].part = 1
  BY <1>1 DEF Framed, w
<1>5. /\ rest \in Nat /\ rest <= len /\ rest >= left - 1
      /\ rest < len => w[rest + 2].part = 1
  <2>1. CASE left = 0
    <3>1. x.part = 1 /\ 1 \in left + 1 .. len + 1
      BY <2>1, <1>1, <1>4
    <3>2. /\ x.words >= 1 /\ 1 + x.words - 1 <= len + 1
          /\ 1 + x.words <= len + 1 => w[1 + x.words].part = 1
      BY <3>1, <1>1, <1>4
    <3>3. rest = x.words - 1 /\ rest + 2 = 1 + x.words
      BY <2>1, <1>3
    <3> HIDE DEF rest
    <3> QED  BY <2>1, <3>2, <3>3, <1>1, <1>3, SMTT(30)
  <2>2. CASE left # 0
    <3>1. rest = left - 1 /\ rest + 2 = left + 1
      BY <2>2
    <3> HIDE DEF rest
    <3> QED  BY <2>2, <3>1, <1>1, <1>4
  <2> QED  BY <2>1, <2>2
<1> HIDE DEF rest
<1>6. rest < len => v[rest + 1].part = 1
  <2> SUFFICES ASSUME rest < len PROVE v[rest + 1].part = 1
    OBVIOUS
  <2>1. rest + 1 \in 1 .. len /\ (rest + 1) + 1 = rest + 2
    BY <1>1, <1>5
  <2> QED  BY <2>1, <1>1, <1>5
<1>7. ASSUME NEW k \in rest + 1 .. len, v[k].part = 1
      PROVE  /\ v[k].words >= 1 /\ k + v[k].words - 1 <= len
             /\ k + v[k].words <= len => v[k + v[k].words].part = 1
  <2> DEFINE size == v[k].words
  <2>1. k \in 1 .. len /\ k + 1 \in left + 1 .. len + 1 /\ w[k + 1] = v[k] /\ size \in Nat
    BY <1>1, <1>2, <1>5
  <2>2. /\ size >= 1 /\ (k + 1) + size - 1 <= len + 1
        /\ (k + 1) + size <= len + 1 => w[(k + 1) + size].part = 1
    BY <2>1, <1>4, <1>7
  <2> HIDE DEF size
  <2>3. ASSUME k + size <= len PROVE v[k + size].part = 1
    <3>1. k + size \in 1 .. len /\ (k + size) + 1 = (k + 1) + size
      BY <2>1, <2>2, <2>3, <1>1, SMTT(30)
    <3>2. w[(k + size) + 1].part = 1
      BY <3>1, <2>1, <2>2, <2>3, <1>1
    <3> QED  BY <3>1, <3>2, <1>1
  <2>4. size >= 1 /\ k + size - 1 <= len
    BY <2>1, <2>2, <1>1
  <2> QED  BY <2>3, <2>4 DEF size
<1>8. Framed(v, rest)
  BY <1>5, <1>6, <1>7 DEF Framed, len
<1> QED  BY <1>5, <1>8 DEF rest

-----------------------------------------------------------------------------
(* The inductive invariant holds initially and is kept by every action. *)

\* The invariant holds when the program starts.
LEMMA InvInit == Init => Inv
<1> SUFFICES ASSUME Init PROVE Inv
  OBVIOUS
<1>1. /\ 0 \in Index /\ Blank \in Word
  BY SlotsAssumption DEF Index, Blank, Word
<1>2. dsp \in DspState
  BY <1>1 DEF Init, DspState
<1>3. TypeOK
  <2>1. mcu \in [on : BOOLEAN, at : Index, left : Nat] /\ consumer \in Index
    BY <1>1 DEF Init
  <2>2. heard \in Seq(Word) /\ clock \in Nat /\ asked \in 0 .. MaxRec
    BY EgressAssumption DEF Init
  <2>3. running \in BOOLEAN /\ answered \in BOOLEAN
    BY DEF Init
  <2> QED  BY <1>2, <2>1, <2>2, <2>3 DEF TypeOK
<1>4. Window(dsp.ring, dsp.producer, mcu.at) = <<>>
  <2>1. dsp.producer = 0 /\ mcu.at = 0
    BY DEF Init
  <2>2. Avail(0, 0) = 0
    BY <1>1, AvailCases
  <2>3. Window(dsp.ring, 0, 0) = [k \in 1 .. 0 |-> dsp.ring[Forward(0, k - 1)]]
    BY <2>2 DEF Window
  <2> QED  BY <2>1, <2>3
<1>5. Link1(dsp, consumer, mcu, heard)
  <2>1. Avail(0, 0) = 0
    BY <1>1, AvailCases
  <2>2. dsp.producer = 0 /\ mcu.at = 0 /\ mcu.left = 0 /\ consumer = 0 /\ heard = <<>> /\ dsp.written = <<>>
    BY DEF Init
  <2> QED  BY <1>4, <2>1, <2>2 DEF Link1, Framed
<1>6. Fifo(dsp, clock) /\ Owed(dsp, consumer, mcu) /\ Served(dsp, consumer)
  BY DEF Init, Fifo, Ordered, Owed, Served
<1> QED  BY <1>3, <1>5, <1>6 DEF Inv, Init

\* The invariant, in the form the lemmas about the operators take.
LEMMA InvGood ==
    Inv => /\ Good(dsp, consumer, mcu, heard, clock) /\ Served(dsp, consumer)
           /\ clock \in Nat /\ consumer \in Index /\ mcu \in MCU /\ heard \in Seq(Word)
           /\ asked \in 0 .. MaxRec /\ asked \in Nat
  BY EgressAssumption DEF Inv, TypeOK, Good, MCU

\* What a tick does to the engine: the queues' upkeep, when it is due, leaves a
\* good state; then come the heartbeat and at most one reply.
LEMMA TickShape ==
    ASSUME BeatIsOneWord, Inv, Tick
    PROVE  \E d1 : \E radio, reply \in Batches(clock') :
              /\ d1 \in IF WakeDue(dsp, clock') \/ radio # <<>>
                        THEN AdvanceTo(dsp, clock', radio) ELSE {dsp}
              /\ Len(radio) + Len(reply) <= 1 /\ asked' = asked + Len(radio) + Len(reply)
              /\ Ordered(dsp, clock')
              /\ Good(d1, consumer, mcu, heard, clock') /\ Served(d1, consumer)
              /\ dsp' = IF reply = <<>> THEN Heartbeat(d1, consumer, clock')
                        ELSE Post(AskAll(Heartbeat(d1, consumer, clock'), clock', reply),
                                  consumer, clock')
<1> DEFINE now == clock'
<1>1. /\ Good(dsp, consumer, mcu, heard, clock) /\ Served(dsp, consumer)
      /\ clock \in Nat /\ consumer \in Index /\ mcu \in MCU /\ heard \in Seq(Word)
      /\ asked \in 0 .. MaxRec /\ asked \in Nat
  BY InvGood
<1>2. now \in Nat /\ clock <= now
  BY <1>1, EgressAssumption DEF Tick
<1>3. PICK radio \in Batches(now), reply \in Batches(now) :
         /\ Len(radio) <= 1 /\ Len(reply) <= 1 /\ Len(radio) + Len(reply) <= 1
         /\ asked' = asked + Len(radio) + Len(reply)
         /\ answered' \in IF reply = <<>> THEN {answered} ELSE {answered, TRUE}
         /\ \E x \in IF WakeDue(dsp, now) \/ radio # <<>> THEN AdvanceTo(dsp, now, radio) ELSE {dsp} :
               dsp' = IF reply = <<>> THEN Heartbeat(x, consumer, now)
                      ELSE Post(AskAll(Heartbeat(x, consumer, now), now, reply), consumer, now)
  BY DEF Tick
<1>4. PICK d1 \in IF WakeDue(dsp, now) \/ radio # <<>> THEN AdvanceTo(dsp, now, radio) ELSE {dsp} :
          dsp' = IF reply = <<>> THEN Heartbeat(d1, consumer, now)
                 ELSE Post(AskAll(Heartbeat(d1, consumer, now), now, reply), consumer, now)
  BY <1>3
<1>5. /\ dsp \in DspState /\ Link1(dsp, consumer, mcu, heard) /\ Owed(dsp, consumer, mcu)
      /\ Ordered(dsp, now)
  <2>1. dsp \in DspState /\ Fifo(dsp, clock) /\ Link1(dsp, consumer, mcu, heard) /\ Owed(dsp, consumer, mcu)
    BY <1>1 DEF Good
  <2>2. \A i \in 1 .. Len(dsp.pending) : dsp.pending[i].enq \in Nat
    BY <2>1, Fields, EnqInNat
  <2> QED  BY <1>1, <1>2, <2>1, <2>2 DEF Fifo, Ordered
<1>6. Good(d1, consumer, mcu, heard, now) /\ Served(d1, consumer)
  <2> HIDE DEF now
  <2>1. CASE WakeDue(dsp, now) \/ radio # <<>>
    <3>1. d1 \in AdvanceTo(dsp, now, radio)
      BY <2>1
    <3> QED  BY <3>1, <1>1, <1>2, <1>5, AdvanceFacts
  <2>2. CASE ~(WakeDue(dsp, now) \/ radio # <<>>)
    <3>1. d1 = dsp
      BY <2>2
    <3>2. Fifo(dsp, now)
      BY <2>2, <1>2, <1>5, NotDueFresh
    <3> QED  BY <1>1, <1>5, <3>1, <3>2 DEF Good
  <2> QED  BY <2>1, <2>2
<1> QED  BY <1>3, <1>4, <1>5, <1>6

\* The upkeep, the heartbeat and the reply keep the invariant, and the clock may go on.
LEMMA InvTick == BeatIsOneWord /\ Inv /\ Tick => Inv'
<1> SUFFICES ASSUME BeatIsOneWord, Inv, Tick PROVE Inv'
  OBVIOUS
<1> DEFINE now == clock'
<1>1. /\ clock \in Nat /\ consumer \in Index /\ mcu \in MCU /\ heard \in Seq(Word)
      /\ asked \in 0 .. MaxRec /\ asked \in Nat
  BY InvGood
<1>2. now \in Nat /\ clock <= now
  BY <1>1, EgressAssumption DEF Tick
<1>3. PICK d1 : \E reply \in Batches(now) :
         /\ Good(d1, consumer, mcu, heard, now) /\ Served(d1, consumer)
         /\ dsp' = IF reply = <<>> THEN Heartbeat(d1, consumer, now)
                   ELSE Post(AskAll(Heartbeat(d1, consumer, now), now, reply), consumer, now)
  BY TickShape
<1>4. PICK reply \in Batches(now) :
         dsp' = IF reply = <<>> THEN Heartbeat(d1, consumer, now)
                ELSE Post(AskAll(Heartbeat(d1, consumer, now), now, reply), consumer, now)
  BY <1>3
<1>5. PICK radio \in Batches(now), answer \in Batches(now) :
         /\ Len(radio) + Len(answer) <= 1
         /\ asked' = asked + Len(radio) + Len(answer)
         /\ answered' \in IF answer = <<>> THEN {answered} ELSE {answered, TRUE}
  BY DEF Tick
<1> DEFINE d2 == Heartbeat(d1, consumer, now)
<1>7. Good(d2, consumer, mcu, heard, now) /\ Served(d2, consumer)
  <2> HIDE DEF now
  <2> QED  BY <1>1, <1>2, <1>3, HeartbeatFacts
<1>8. Good(dsp', consumer, mcu, heard, now) /\ Served(dsp', consumer)
  <2>1. CASE reply = <<>>
    BY <1>4, <1>7, <2>1
  <2>2. CASE reply # <<>>
    <3>1. dsp' = Post(AskAll(d2, now, reply), consumer, now)
      BY <1>4, <2>2
    <3> HIDE DEF d2, now
    <3> QED  BY <1>1, <1>2, <1>7, <3>1, AskAndPost
  <2> QED  BY <2>1, <2>2
<1>9. asked' \in 0 .. MaxRec
  <2>1. /\ Len(radio) \in Nat /\ Len(answer) \in Nat
        /\ asked + Len(radio) <= MaxRec /\ asked + Len(answer) <= MaxRec
    BY <1>5 DEF Batches
  <2> QED  BY <1>1, <1>5, <2>1, EgressAssumption
<1>10. /\ running' \in BOOLEAN /\ answered' \in BOOLEAN
       /\ consumer' = consumer /\ mcu' = mcu /\ heard' = heard
  BY <1>5 DEF Tick, Inv, TypeOK
<1> QED  BY <1>1, <1>2, <1>8, <1>9, <1>10 DEF Inv, TypeOK, Good, MCU

\* The common form of the engine's handlers: they move only dsp and asked.
LEMMA HandlerKeeps ==
    ASSUME Inv, Good(dsp', consumer, mcu, heard, clock), Served(dsp', consumer),
           asked' \in 0 .. MaxRec,
           UNCHANGED <<clock, consumer, running, answered, mcu, heard>>
    PROVE  Inv'
  BY DEF Inv, TypeOK, Good

\* A command drops the idle backlog or not, asks, and pumps.
LEMMA InvM2d == Inv /\ M2d => Inv'
<1> SUFFICES ASSUME Inv, M2d PROVE Inv'
  OBVIOUS
<1>1. /\ Good(dsp, consumer, mcu, heard, clock)
      /\ clock \in Nat /\ consumer \in Index /\ mcu \in MCU /\ heard \in Seq(Word) /\ asked \in Nat
  BY InvGood
<1>2. PICK batch \in Batches(clock), retune \in BOOLEAN :
        \E d1 \in IF retune THEN DropIdleRadio(dsp) ELSE {dsp} :
          /\ asked' = asked + Len(batch)
          /\ dsp' = Post(AskAll(d1, clock, batch), consumer, clock)
          /\ UNCHANGED <<clock, consumer, running, answered, mcu, heard>>
  BY DEF M2d
<1>3. PICK d1 \in IF retune THEN DropIdleRadio(dsp) ELSE {dsp} :
          /\ asked' = asked + Len(batch)
          /\ dsp' = Post(AskAll(d1, clock, batch), consumer, clock)
          /\ UNCHANGED <<clock, consumer, running, answered, mcu, heard>>
  BY <1>2
<1>4. Good(d1, consumer, mcu, heard, clock)
  <2>1. CASE retune
    <3>1. d1 \in DropIdleRadio(dsp)
      BY <2>1
    <3>2. dsp \in DspState /\ Link1(dsp, consumer, mcu, heard) /\ Owed(dsp, consumer, mcu)
          /\ Fifo(dsp, clock)
      BY <1>1 DEF Good
    <3>3. d1 \in DspState /\ SameLink(dsp, d1) /\ Fifo(d1, clock)
      BY <1>1, <3>1, <3>2, DropIdleRadioFacts
    <3> QED  BY <3>2, <3>3, QueueStepGood
  <2>2. CASE ~retune
    BY <1>1, <2>2
  <2> QED  BY <2>1, <2>2
<1>5. Good(dsp', consumer, mcu, heard, clock) /\ Served(dsp', consumer) /\ asked' \in 0 .. MaxRec
  BY <1>1, <1>3, <1>4, AskAndPost
<1> QED  BY <1>3, <1>5, HandlerKeeps

\* A host interrupt asks for its short replies, and pumps.
LEMMA InvHostInterrupt == Inv /\ HostInterrupt => Inv'
<1> SUFFICES ASSUME Inv, HostInterrupt PROVE Inv'
  OBVIOUS
<1>1. /\ Good(dsp, consumer, mcu, heard, clock)
      /\ clock \in Nat /\ consumer \in Index /\ mcu \in MCU /\ heard \in Seq(Word) /\ asked \in Nat
  BY InvGood
<1>2. PICK batch \in Batches(clock) :
        /\ asked' = asked + Len(batch)
        /\ dsp' = Post(AskAll(dsp, clock, batch), consumer, clock)
  BY DEF HostInterrupt
<1>3. Good(dsp', consumer, mcu, heard, clock) /\ Served(dsp', consumer) /\ asked' \in 0 .. MaxRec
  BY <1>1, <1>2, AskAndPost
<1>4. UNCHANGED <<clock, consumer, running, answered, mcu, heard>>
  BY DEF HostInterrupt
<1> QED  BY <1>3, <1>4, HandlerKeeps

\* A reset of the DSP touches neither queue nor ring.
LEMMA InvDspReset == Inv /\ DspReset => Inv'
  BY DEF DspReset, Inv, TypeOK

\* The acknowledge clears the line, and from then on the drain owes the visit.
LEMMA InvTakeFiq0 == Inv /\ TakeFiq0 => Inv'
<1> SUFFICES ASSUME Inv, TakeFiq0 PROVE Inv'
  OBVIOUS
<1>1. dsp \in DspState /\ mcu \in MCU /\ consumer \in Index /\ mcu.at = consumer /\ mcu.left = 0
  BY DEF Inv, TypeOK, MCU, TakeFiq0
<1>2. /\ dsp' \in DspState /\ dsp'.pending = dsp.pending /\ dsp'.posted = dsp.posted
      /\ dsp'.ring = dsp.ring /\ dsp'.producer = dsp.producer /\ dsp'.written = dsp.written
  BY <1>1 DEF TakeFiq0, DspState
<1>3. mcu' \in MCU /\ mcu'.on /\ mcu'.at = mcu.at /\ mcu'.left = mcu.left
  BY <1>1 DEF TakeFiq0, MCU
<1>4. UNCHANGED <<clock, consumer, running, answered, asked, heard>>
  BY DEF TakeFiq0
<1>5. TypeOK'
  BY <1>2, <1>3, <1>4 DEF Inv, TypeOK, MCU
<1>6. Link1(dsp', consumer', mcu', heard')
  BY <1>2, <1>3, <1>4 DEF Inv, Link1
<1>7. Fifo(dsp', clock') /\ Owed(dsp', consumer', mcu') /\ Served(dsp', consumer')
  BY <1>2, <1>3, <1>4 DEF Inv, Fifo, Ordered, Owed, Served
<1> QED  BY <1>3, <1>5, <1>6, <1>7 DEF Inv

\* The drain's window on the ring is a sequence of words.
LEMMA WordWindow ==
    ASSUME NEW ring \in [Index -> Word], NEW p \in Index, NEW c \in Index
    PROVE  /\ Window(ring, p, c) \in Seq(Word)
           /\ Len(Window(ring, p, c)) = Avail(p, c)
           /\ p # c => Window(ring, p, c) = <<ring[c]>> \o Window(ring, p, Forward(c, 1))
<1>1. Window(ring, p, c) \in Seq(Word) /\ Len(Window(ring, p, c)) = Avail(p, c)
  BY WindowType
<1>2. ASSUME p # c PROVE Window(ring, p, c) = <<ring[c]>> \o Window(ring, p, Forward(c, 1))
  BY <1>2, WindowRead
<1> QED  BY <1>1, <1>2

\* Moving one word from the right operand of a concatenation to the left one.
LEMMA AppendMoves ==
    ASSUME NEW h \in Seq(Word), NEW x \in Word, NEW v \in Seq(Word)
    PROVE  Append(h, x) \in Seq(Word) /\ Append(h, x) \o v = h \o (<<x>> \o v)
<1>1. /\ Append(h, x) \in Seq(Word) /\ Len(Append(h, x)) = Len(h) + 1
      /\ \A k \in 1 .. Len(h) + 1 : Append(h, x)[k] = IF k <= Len(h) THEN h[k] ELSE x
  OBVIOUS
<1>2. /\ <<x>> \o v \in Seq(Word) /\ Len(<<x>> \o v) = 1 + Len(v)
      /\ \A k \in 1 .. 1 + Len(v) : (<<x>> \o v)[k] = IF k = 1 THEN x ELSE v[k - 1]
  OBVIOUS
<1> DEFINE a == Append(h, x)
           b == <<x>> \o v
<1>3. a \o v = [k \in 1 .. Len(a) + Len(v) |-> IF k <= Len(a) THEN a[k] ELSE v[k - Len(a)]]
  <2> HIDE DEF a
  <2> QED  BY <1>1, ConcatCells DEF a
<1>4. h \o b = [k \in 1 .. Len(h) + Len(b) |-> IF k <= Len(h) THEN h[k] ELSE b[k - Len(h)]]
  <2> HIDE DEF b
  <2> QED  BY <1>2, ConcatCells DEF b
<1>5. ASSUME NEW k \in 1 .. Len(h) + 1 + Len(v)
      PROVE  (IF k <= Len(a) THEN a[k] ELSE v[k - Len(a)])
               = IF k <= Len(h) THEN h[k] ELSE b[k - Len(h)]
  <2>1. CASE k <= Len(h)
    BY <1>1, <2>1
  <2>2. CASE k = Len(h) + 1
    <3>1. k - Len(h) = 1 /\ ~(k <= Len(h)) /\ k <= Len(a) /\ a[k] = x
      BY <1>1, <2>2
    <3>2. b[1] = x
      BY <1>2
    <3> QED  BY <3>1, <3>2
  <2>3. CASE k > Len(h) + 1
    <3>1. /\ k - Len(h) \in 2 .. 1 + Len(v) /\ (k - Len(h)) - 1 = k - Len(a)
          /\ ~(k <= Len(a)) /\ ~(k <= Len(h))
      BY <1>1, <2>3
    <3>2. b[k - Len(h)] = v[(k - Len(h)) - 1]
      BY <1>2, <3>1
    <3> QED  BY <3>1, <3>2
  <2> QED  BY <2>1, <2>2, <2>3
<1>6. Len(a) + Len(v) = Len(h) + 1 + Len(v) /\ Len(h) + Len(b) = Len(h) + 1 + Len(v)
  BY <1>1, <1>2
<1> HIDE DEF a, b
<1>7. a \o v = h \o b
  BY <1>3, <1>4, <1>5, <1>6
<1> QED  BY <1>1, <1>7 DEF a, b

\* A read takes the first word of the window, and stays in step with the records.
LEMMA InvReadWord == Inv /\ ReadWord => Inv'
<1> SUFFICES ASSUME Inv, ReadWord PROVE Inv'
  OBVIOUS
<1> DEFINE p == dsp.producer
           at == mcu.at
           word == dsp.ring[at]
           new == Window(dsp.ring, p, Forward(at, 1))
           rest == IF mcu.left = 0 THEN word.words - 1 ELSE mcu.left - 1
<1>1. /\ dsp \in DspState /\ mcu \in MCU /\ consumer \in Index /\ heard \in Seq(Word)
      /\ Link1(dsp, consumer, mcu, heard)
  BY DEF Inv, TypeOK, MCU
<1>2. /\ dsp.ring \in [Index -> Word] /\ p \in Index /\ at \in Index /\ mcu.left \in Nat
      /\ word \in Word
  BY <1>1, Fields DEF MCU
<1>3. /\ mcu.on /\ (mcu.left > 0 \/ at # p)
      /\ heard' = Append(heard, word)
      /\ mcu' = [mcu EXCEPT !.at = Forward(@, 1), !.left = IF @ = 0 THEN word.words - 1 ELSE @ - 1]
      /\ UNCHANGED <<clock, dsp, consumer, running, answered, asked>>
  BY DEF ReadWord
<1>4. at # p
  <2>1. mcu.left <= Len(Window(dsp.ring, p, at))
    BY <1>1 DEF Link1, Framed
  <2>2. Len(Window(dsp.ring, p, at)) = Avail(p, at)
    BY <1>2, WordWindow
  <2>3. mcu.left <= Avail(p, at)
    BY <2>1, <2>2
  <2>4. at = p => Avail(p, at) = 0
    BY <1>2, AvailCases
  <2> HIDE DEF at, p
  <2> QED  BY <1>2, <1>3, <2>3, <2>4
<1>5. /\ Forward(at, 1) \in Index /\ Avail(p, Forward(at, 1)) = Avail(p, at) - 1
      /\ Avail(p, at) \in 1 .. Slots - 1
  BY <1>2, <1>4, AvailRead
<1>6. Window(dsp.ring, p, at) = <<word>> \o new /\ new \in Seq(Word)
  BY <1>2, <1>4, <1>5, WordWindow
<1>7. rest \in Nat /\ Framed(new, rest)
  <2>1. Framed(<<word>> \o new, mcu.left)
    BY <1>1, <1>6 DEF Link1
  <2> HIDE DEF new, word
  <2> QED  BY <1>2, <1>6, <2>1, FramedRead
<1>8. mcu' \in MCU /\ mcu'.on /\ mcu'.at = Forward(at, 1) /\ mcu'.left = rest
  <2> HIDE DEF word
  <2>1. mcu' = [mcu EXCEPT !.at = Forward(at, 1), !.left = rest]
    BY <1>3
  <2> HIDE DEF rest, at
  <2> QED  BY <1>1, <1>3, <1>5, <1>7, <2>1 DEF MCU
<1>9. heard' \in Seq(Word) /\ heard' \o new = dsp.written
  <2>1. heard \o Window(dsp.ring, p, at) = dsp.written
    BY <1>1 DEF Link1
  <2> HIDE DEF word, new
  <2>2. Append(heard, word) \in Seq(Word) /\ Append(heard, word) \o new = heard \o (<<word>> \o new)
    BY <1>1, <1>2, <1>6, AppendMoves
  <2> QED  BY <1>3, <1>6, <2>1, <2>2
<1>10. Link1(dsp', consumer', mcu', heard')
  <2>1. Avail(p, Forward(at, 1)) <= Avail(p, consumer)
    <3>1. Avail(p, at) <= Avail(p, consumer)
      BY <1>1 DEF Link1
    <3>2. Avail(p, consumer) \in 0 .. Slots - 1
      BY <1>1, <1>2, AvailCases
    <3> HIDE DEF p, at
    <3> QED  BY <1>5, <3>1, <3>2, SlotsAssumption
  <2>2. dsp' = dsp /\ consumer' = consumer
    BY <1>3
  <2> HIDE DEF rest
  <2> QED  BY <1>7, <1>8, <1>9, <2>1, <2>2 DEF Link1
<1>11. TypeOK'
  BY <1>3, <1>8, <1>9 DEF Inv, TypeOK, MCU
<1>12. Fifo(dsp', clock') /\ Owed(dsp', consumer', mcu') /\ Served(dsp', consumer')
  BY <1>3, <1>8 DEF Inv, Owed
<1> QED  BY <1>8, <1>10, <1>11, <1>12 DEF Inv

\* The commit moves the consumer up to the drain's cursor, which frees room,
\* and the pump behind it puts a waiting record there.
LEMMA InvMcuCommit == Inv /\ McuCommit => Inv'
<1> SUFFICES ASSUME Inv, McuCommit PROVE Inv'
  OBVIOUS
<1>1. /\ dsp \in DspState /\ mcu \in MCU /\ mcu.at \in Index /\ heard \in Seq(Word) /\ clock \in Nat
      /\ Link1(dsp, consumer, mcu, heard) /\ Fifo(dsp, clock)
  BY DEF Inv, TypeOK, MCU
<1>2. /\ mcu.on /\ consumer' = mcu.at /\ dsp' = Post(dsp, mcu.at, clock)
      /\ UNCHANGED <<clock, running, answered, mcu, asked, heard>>
  BY DEF McuCommit
<1>3. Link1(dsp, mcu.at, mcu, heard)
  <2>1. dsp.producer \in Index
    BY <1>1, Fields
  <2>2. Avail(dsp.producer, mcu.at) \in 0 .. Slots - 1
    BY <1>1, <2>1, AvailCases
  <2> QED  BY <1>1, <2>2, SlotsAssumption DEF Link1
<1>4. Good(dsp, mcu.at, mcu, heard, clock)
  BY <1>1, <1>2, <1>3 DEF Good, Owed
<1>5. Good(dsp', mcu.at, mcu, heard, clock) /\ Served(dsp', mcu.at)
  BY <1>1, <1>2, <1>4, PostFacts
<1> QED  BY <1>1, <1>2, <1>5 DEF Inv, TypeOK, Good

\* The drain ends only when the cursors meet, so it owes nothing.
LEMMA InvDrainDone == Inv /\ DrainDone => Inv'
<1> SUFFICES ASSUME Inv, DrainDone PROVE Inv'
  OBVIOUS
<1>1. /\ mcu \in MCU /\ mcu.on /\ mcu.left = 0 /\ mcu.at = consumer /\ consumer = dsp.producer
      /\ mcu' = [mcu EXCEPT !.on = FALSE]
      /\ UNCHANGED <<clock, dsp, consumer, running, answered, asked, heard>>
  BY DEF Inv, TypeOK, MCU, DrainDone
<1>2. mcu' \in MCU /\ ~mcu'.on /\ mcu'.at = mcu.at /\ mcu'.left = mcu.left
  BY <1>1 DEF MCU
<1> QED  BY <1>1, <1>2 DEF Inv, TypeOK, Link1, Owed, Served, MCU

-----------------------------------------------------------------------------
(* The theorems. *)

\* The invariant is inductive, given that a heartbeat is one cell to the drain.
THEOREM InvAlways == BeatIsOneWord /\ Spec => []Inv
<1>1. Inv /\ UNCHANGED vars => Inv'
  BY DEF vars, Inv, TypeOK, Link1, Fifo, Ordered, Owed, Served
<1>2. BeatIsOneWord /\ Inv /\ [Next]_vars => Inv'
  BY <1>1, InvTick, InvM2d, InvHostInterrupt, InvDspReset, InvTakeFiq0, InvReadWord,
     InvMcuCommit, InvDrainDone DEF Next
<1>3. BeatIsOneWord /\ Init /\ [][Next]_vars => []Inv
  <2> SUFFICES ASSUME BeatIsOneWord PROVE Init /\ [][Next]_vars => []Inv
    OBVIOUS
  <2>1. Inv /\ [Next]_vars => Inv'
    BY <1>2
  <2> QED  BY <2>1, InvInit, PTL
<1> QED  BY <1>3, PTL DEF Spec

\* Every variable keeps its type: cursors stay in the ring, the clock grows.
THEOREM TypeCorrect == BeatIsOneWord /\ Spec => []TypeOK
<1>1. Inv => TypeOK
  BY DEF Inv
<1> QED  BY <1>1, InvAlways, PTL

\* For a ring of any size and any interleaving, the firmware reads the words
\* written, each once and in order.
THEOREM IntactAlways == BeatIsOneWord /\ Spec => []Intact
<1>1. Inv => Intact
  BY DEF Inv, Link1, Intact
<1> QED  BY <1>1, InvAlways, PTL

\* No queued record waits beside an empty ring.
THEOREM NoStrandedRecordAlways == BeatIsOneWord /\ Spec => []NoStrandedRecord
<1>1. Inv => NoStrandedRecord
  BY DEF Inv, Served, NoStrandedRecord
<1> QED  BY <1>1, InvAlways, PTL

\* FIQ0 is pending or the drain runs while the ring holds something.
THEOREM WakeupNotLostAlways == BeatIsOneWord /\ Spec => []WakeupNotLost
<1>1. Inv => WakeupNotLost
  BY DEF Inv, Owed, WakeupNotLost
<1> QED  BY <1>1, InvAlways, PTL

\* The drain stays behind the producer's cursor; false without BeatIsOneWord.
THEOREM ReadsOnlyWrittenAlways == BeatIsOneWord /\ Spec => []ReadsOnlyWritten
<1>1. Inv => ReadsOnlyWritten
  <2> SUFFICES ASSUME Inv PROVE ReadsOnlyWritten
    OBVIOUS
  <2>1. dsp.ring \in [Index -> Word] /\ dsp.producer \in Index /\ mcu.at \in Index
    BY Fields DEF Inv, TypeOK
  <2>2. Len(Window(dsp.ring, dsp.producer, mcu.at)) = Avail(dsp.producer, mcu.at)
    BY <2>1, WordWindow
  <2> QED  BY <2>2 DEF Inv, Link1, Framed, ReadsOnlyWritten
<1> QED  BY <1>1, InvAlways, PTL

\* No record older than the Ttl is posted, whatever the batches and the clock.
THEOREM FreshPostsAlways == BeatIsOneWord /\ Spec => []FreshPosts
<1>1. Inv => FreshPosts
  <2> SUFFICES ASSUME Inv PROVE FreshPosts
    OBVIOUS
  <2>1. dsp.posted \in Seq([id : Ids, wait : Int])
    BY Fields DEF Inv, TypeOK
  <2>2. DOMAIN dsp.posted = 1 .. Len(dsp.posted)
    BY <2>1
  <2> QED  BY <2>2 DEF Inv, Fifo, Ordered, FreshPosts
<1> QED  BY <1>1, InvAlways, PTL

\* A DSP that is up is not silent for longer than KaCyc: a tick leaves the
\* next heartbeat ahead or something to read in the ring.
THEOREM NeverSilentAlways == BeatIsOneWord /\ Spec => NeverSilent
<1> DEFINE Loud(d, now) == d.hbNext > now \/ d.producer # consumer
           Step == clock' > clock /\ running /\ answered => dsp'.hbNext > clock' \/ dsp'.producer # consumer'
<1>1. ASSUME NEW d \in DspState, NEW now \in Nat, running, answered, Served(d, consumer)
      PROVE  Loud(Heartbeat(d, consumer, now), now)
  <2>1. d.hbNext \in Nat /\ now + KaCyc > now
    BY <1>1, Fields, EgressAssumption
  <2>2. CASE d.hbNext = 0
    <3>1. Heartbeat(d, consumer, now) = [d EXCEPT !.hbNext = now + KaCyc]
      BY <1>1, <2>2 DEF Heartbeat
    <3> QED  BY <3>1, <2>1 DEF DspState
  <2>3. CASE d.hbNext # 0 /\ (now < d.hbNext \/ d.pending # <<>> \/ d.producer # consumer)
    <3>1. Heartbeat(d, consumer, now) = d
      BY <1>1, <2>3 DEF Heartbeat
    <3> QED  BY <1>1, <2>1, <2>3, <3>1 DEF Served
  <2>4. CASE d.hbNext # 0 /\ ~(now < d.hbNext \/ d.pending # <<>> \/ d.producer # consumer)
    <3> DEFINE beat == <<[id |-> Beat, part |-> 1, words |-> RecWords(BeatLen)]>>
    <3>1. Heartbeat(d, consumer, now) = Written(d, now, beat)
      BY <1>1, <2>4 DEF Heartbeat
    <3> HIDE DEF beat
    <3>2. Written(d, now, beat).hbNext = now + KaCyc
      BY DEF Written, DspState
    <3> QED  BY <3>1, <3>2, <2>1
  <2> QED  BY <2>2, <2>3, <2>4
<1>2. ASSUME BeatIsOneWord, Inv, Inv', [Next]_vars, clock' > clock, running, answered
      PROVE  dsp'.hbNext > clock' \/ dsp'.producer # consumer'
  <2>1. Tick
    <3>1. clock \in Nat /\ ~(clock > clock)
      BY <1>2 DEF Inv, TypeOK
    <3>2. ~UNCHANGED clock
      BY <1>2, <3>1
    <3> QED  BY <1>2, <3>2 DEF Next, vars, M2d, HostInterrupt, DspReset, TakeFiq0, ReadWord,
                               McuCommit, DrainDone
  <2>2. PICK d1 : \E reply \in Batches(clock') :
          /\ Good(d1, consumer, mcu, heard, clock') /\ Served(d1, consumer)
          /\ dsp' = IF reply = <<>> THEN Heartbeat(d1, consumer, clock')
                    ELSE Post(AskAll(Heartbeat(d1, consumer, clock'), clock', reply), consumer, clock')
    BY <1>2, <2>1, TickShape
  <2>3. PICK reply \in Batches(clock') :
          dsp' = IF reply = <<>> THEN Heartbeat(d1, consumer, clock')
                 ELSE Post(AskAll(Heartbeat(d1, consumer, clock'), clock', reply), consumer, clock')
    BY <2>2
  <2> DEFINE now == clock'
             d2 == Heartbeat(d1, consumer, now)
             d3 == AskAll(d2, now, reply)
  <2>4. /\ now \in Nat /\ consumer \in Index /\ consumer' = consumer /\ asked \in Nat
        /\ mcu \in MCU /\ heard \in Seq(Word)
    BY <1>2, <2>1, InvGood DEF Inv, TypeOK, Tick
  <2>5. d1 \in DspState
    BY <2>2 DEF Good
  <2>6. Loud(d2, now) /\ Good(d2, consumer, mcu, heard, now)
    <3> HIDE DEF now
    <3> QED  BY <1>1, <1>2, <2>2, <2>4, <2>5, HeartbeatFacts DEF now
  <2>7. CASE reply = <<>>
    BY <2>3, <2>4, <2>6, <2>7
  <2>8. CASE reply # <<>>
    <3>1. d2 \in DspState /\ Fifo(d2, now)
      BY <2>6 DEF Good
    <3>2. d3 \in DspState /\ SameLink(d2, d3)
      <4>1. reply \in Batches(now)
        OBVIOUS
      <4> HIDE DEF now, d2
      <4> QED  BY <4>1, <2>4, <3>1, AskAllFacts
    <3>3. dsp' = Post(d3, consumer, now)
      BY <2>3, <2>8
    <3> HIDE DEF d3, d2, now
    <3>4. Loud(d3, now)
      BY <2>6, <3>2 DEF SameLink
    <3>5. dsp' = d3 \/ dsp'.hbNext = now + KaCyc
      BY <3>2, <3>3 DEF Post, Written, DspState
    <3>6. now + KaCyc > now
      BY <2>4, EgressAssumption
    <3> QED  BY <2>4, <3>4, <3>5, <3>6 DEF now
  <2> QED  BY <2>7, <2>8
<1>3. BeatIsOneWord /\ []Inv /\ [][Next]_vars => [][Step]_vars
  <2> SUFFICES ASSUME BeatIsOneWord PROVE []Inv /\ [][Next]_vars => [][Step]_vars
    OBVIOUS
  <2>1. Inv /\ Inv' /\ [Next]_vars => [Step]_vars
    BY <1>2
  <2> QED  BY <2>1, PTL
<1> QED  BY <1>3, InvAlways, PTL DEF Spec, NeverSilent

-----------------------------------------------------------------------------
(* The fates of records, and the proof that MdiEgress takes only steps of  *)
(* the lossy link MdiLink, for any sizes and loads.                        *)
(*                                                                         *)
(* OneFate is not inductive: a record could be in a queue twice, and then  *)
(* the second copy would be posted.  Fates says more: the four fates share *)
(* no record, and no queue holds a record twice.  Each queue operation     *)
(* moves some records from one fate to another; that such a move keeps the *)
(* partition is said once (Moved), and each operator is shown to be one.   *)

\* The numbers of the records of a queue, and that it holds none twice.
RecIds(s)   == {s[i].id : i \in 1 .. Len(s)}
Distinct(s) == \A i, j \in 1 .. Len(s) : s[i].id = s[j].id => i = j

Filled(d)   == {i \in Delayed : d.delayed[i] # None}
SlotIds(d)  == {d.delayed[i].id : i \in Filled(d)}
QueueIds(d) == RecIds(d.pending)
OutIds(d)   == RecIds(d.posted)

Partition(A, B, C, D, n) ==
    /\ A \cap B = {} /\ A \cap C = {} /\ A \cap D = {}
    /\ B \cap C = {} /\ B \cap D = {} /\ C \cap D = {}
    /\ A \cup B \cup C \cup D = 1 .. n

Once(d) ==
    /\ \A i, j \in Filled(d) : d.delayed[i].id = d.delayed[j].id => i = j
    /\ Distinct(d.pending)
    /\ Distinct(d.posted)

Fates(d, n) == Partition(SlotIds(d), QueueIds(d), OutIds(d), d.lost, n) /\ Once(d)

\* One record posted for each last word on the link.
Ended(d) == IsFiniteSet(Ends(d.written)) /\ Cardinality(Ends(d.written)) = Len(d.posted)

\* What an operator of the queues may do to the history: more is lost.
LosesOnly(d, e) == d.lost \subseteq e.lost /\ e.posted = d.posted

-----------------------------------------------------------------------------
(* The operators of the queues. *)

\* A set of naturals that is not empty has a least member.
LEMMA LeastNat ==
    ASSUME NEW S, S \subseteq Nat, S # {}
    PROVE  \E m \in S : \A k \in S : m <= k
<1> DEFINE R == {xy \in Nat \X Nat : xy[1] < xy[2]}
<1>1. IsWellFoundedOn(R, Nat)
  BY NatLessThanWellFounded DEF OpToRel
<1>2. PICK m \in S : \A k \in S : <<k, m>> \notin R
  <2> HIDE DEF R
  <2> QED  BY <1>1, WFMin
<1>3. ASSUME NEW k \in S PROVE m <= k
  <2>1. m \in Nat /\ k \in Nat /\ ~(k < m)
    <3>1. <<k, m>> \notin R
      BY <1>2
    <3>2. <<k, m>> \in Nat \X Nat /\ <<k, m>>[1] = k /\ <<k, m>>[2] = m
      OBVIOUS
    <3> QED  BY <3>1, <3>2
  <2> QED  BY <2>1
<1> QED  BY <1>3

\* A record asked for joins one of the fates.
LEMMA Joined ==
    ASSUME NEW A, NEW B, NEW C, NEW D, NEW n \in Nat, Partition(A, B, C, D, n)
    PROVE  /\ n + 1 \notin A \cup B \cup C \cup D
           /\ Partition(A \cup {n + 1}, B, C, D, n + 1)
           /\ Partition(A, B \cup {n + 1}, C, D, n + 1)
           /\ Partition(A, B, C, D \cup {n + 1}, n + 1)
<1>1. n + 1 \notin 1 .. n /\ 1 .. n + 1 = (1 .. n) \cup {n + 1}
  OBVIOUS
<1> QED  BY <1>1 DEF Partition

\* The same of a state of the engine.
LEMMA JoinedFates ==
    ASSUME NEW d, NEW n \in Nat, Fates(d, n)
    PROVE  /\ n + 1 \notin SlotIds(d) /\ n + 1 \notin QueueIds(d)
           /\ Partition(SlotIds(d) \cup {n + 1}, QueueIds(d), OutIds(d), d.lost, n + 1)
           /\ Partition(SlotIds(d), QueueIds(d) \cup {n + 1}, OutIds(d), d.lost, n + 1)
           /\ Partition(SlotIds(d), QueueIds(d), OutIds(d), d.lost \cup {n + 1}, n + 1)
<1> DEFINE A == SlotIds(d)
           B == QueueIds(d)
           C == OutIds(d)
           D == d.lost
<1>1. Partition(A, B, C, D, n)
  BY DEF Fates
<1> HIDE DEF A, B, C, D
<1>2. /\ n + 1 \notin A \cup B \cup C \cup D
      /\ Partition(A \cup {n + 1}, B, C, D, n + 1)
      /\ Partition(A, B \cup {n + 1}, C, D, n + 1)
      /\ Partition(A, B, C, D \cup {n + 1}, n + 1)
  BY <1>1, Joined
<1> QED  BY <1>2 DEF A, B, C, D

\* Records that change their fate.
LEMMA Moved ==
    ASSUME NEW A, NEW B, NEW C, NEW D, NEW n, Partition(A, B, C, D, n), NEW X, NEW Y
    PROVE  /\ X \subseteq A /\ Y \subseteq A /\ X \cap Y = {}
                => Partition(A \ (X \cup Y), B \cup X, C, D \cup Y, n)
           /\ X \subseteq A /\ Y \subseteq B => Partition(A \ X, B \ Y, C, D \cup Y \cup X, n)
           /\ X \subseteq B => Partition(A, B \ X, C \cup X, D, n)
  BY DEF Partition

\* The numbers of an appended record.
LEMMA AppendIds ==
    ASSUME NEW R, NEW s \in Seq(R), NEW r \in R
    PROVE  /\ RecIds(Append(s, r)) = RecIds(s) \cup {r.id}
           /\ r.id \notin RecIds(s) /\ Distinct(s) => Distinct(Append(s, r))
<1> DEFINE t == Append(s, r)
<1>1. /\ Len(s) \in Nat /\ Len(t) = Len(s) + 1 /\ t[Len(s) + 1] = r
      /\ \A i \in 1 .. Len(s) : t[i] = s[i]
  OBVIOUS
<1> HIDE DEF t
<1>2. \A i \in 1 .. Len(t) : i \in 1 .. Len(s) \/ i = Len(s) + 1
  BY <1>1
<1>3. RecIds(t) = RecIds(s) \cup {r.id}
  <2>1. ASSUME NEW i \in 1 .. Len(s) PROVE i \in 1 .. Len(t) /\ t[i].id = s[i].id
    BY <1>1
  <2>2. Len(s) + 1 \in 1 .. Len(t) /\ t[Len(s) + 1].id = r.id
    BY <1>1
  <2> QED  BY <1>1, <1>2, <2>1, <2>2 DEF RecIds
<1>4. r.id \notin RecIds(s) /\ Distinct(s) => Distinct(t)
  BY <1>1, <1>2 DEF RecIds, Distinct
<1> QED  BY <1>3, <1>4 DEF t

\* An enqueued record is queued, or lost to a full FIFO.
LEMMA EnqueueFates ==
    ASSUME NEW d \in DspState, NEW now \in Nat, NEW rec \in Rec, NEW n \in Nat,
           Fates(d, n), rec.id = n + 1
    PROVE  Fates(Enqueue(d, now, rec), n + 1) /\ LosesOnly(d, Enqueue(d, now, rec))
<1>1. CASE Len(d.pending) = PendingN - 1
  <2> DEFINE l == d.lost \cup {n + 1}
             e == [d EXCEPT !.lost = l]
  <2>1. e.delayed = d.delayed /\ e.pending = d.pending /\ e.posted = d.posted /\ e.lost = l
    BY DEF DspState
  <2> HIDE DEF e
  <2>2. SlotIds(e) = SlotIds(d) /\ QueueIds(e) = QueueIds(d) /\ OutIds(e) = OutIds(d) /\ Once(e)
    BY <2>1 DEF Fates, Once, SlotIds, QueueIds, OutIds, Filled
  <2>3. Partition(SlotIds(e), QueueIds(e), OutIds(e), e.lost, n + 1)
    BY <2>1, <2>2, JoinedFates
  <2> QED  BY <1>1, <2>1, <2>2, <2>3 DEF Enqueue, LosesOnly, Fates, e
<1>2. CASE Len(d.pending) # PendingN - 1
  <2> DEFINE r == [rec EXCEPT !.enq = now, !.due = now]
             p == Append(d.pending, r)
             e == [d EXCEPT !.pending = p]
  <2>1. r \in Rec /\ r.id = n + 1
    BY DEF Rec
  <2>2. e.delayed = d.delayed /\ e.pending = p /\ e.posted = d.posted /\ e.lost = d.lost
    BY DEF DspState
  <2>3. d.pending \in Seq(Rec) /\ n + 1 \notin QueueIds(d)
    BY Fields, JoinedFates
  <2> HIDE DEF e, r
  <2>4. QueueIds(e) = QueueIds(d) \cup {n + 1} /\ Distinct(e.pending)
    <3> DEFINE s == d.pending
    <3>1. n + 1 \notin RecIds(s) /\ Distinct(s) /\ QueueIds(d) = RecIds(s)
      BY <2>3 DEF QueueIds, Fates, Once
    <3>2. s \in Seq(Rec) /\ e.pending = Append(s, r)
      BY <2>2, <2>3
    <3> HIDE DEF s
    <3>3. RecIds(Append(s, r)) = RecIds(s) \cup {n + 1} /\ Distinct(Append(s, r))
      BY <2>1, <3>1, <3>2, AppendIds
    <3> QED  BY <3>1, <3>2, <3>3 DEF QueueIds
  <2>5. SlotIds(e) = SlotIds(d) /\ OutIds(e) = OutIds(d) /\ Filled(e) = Filled(d)
    BY <2>2 DEF SlotIds, OutIds, Filled
  <2>6. Partition(SlotIds(e), QueueIds(e), OutIds(e), e.lost, n + 1)
    BY <2>2, <2>4, <2>5, JoinedFates
  <2>7. Once(e)
    BY <2>2, <2>4, <2>5 DEF Fates, Once
  <2> QED  BY <1>2, <2>2, <2>6, <2>7 DEF Enqueue, LosesOnly, Fates, e, r
<1> QED  BY <1>1, <1>2

\* A slot or a queue with other contents.
LEMMA SameFates ==
    ASSUME NEW d, NEW e, NEW n, Fates(d, n),
           e.delayed = d.delayed, e.pending = d.pending, e.posted = d.posted, e.lost = d.lost
    PROVE  Fates(e, n) /\ LosesOnly(d, e)
<1>1. SlotIds(e) = SlotIds(d) /\ QueueIds(e) = QueueIds(d) /\ OutIds(e) = OutIds(d) /\ Once(e)
  BY DEF Fates, Once, SlotIds, QueueIds, OutIds, Filled
<1> QED  BY <1>1 DEF Fates, LosesOnly

\* A record delayed is in one slot, the first free one.
LEMMA EnqueueAtFates ==
    ASSUME NEW d \in DspState, NEW now \in Nat, NEW due \in Nat, NEW rec \in Rec, NEW n \in Nat,
           Fates(d, n), rec.id = n + 1
    PROVE  Fates(EnqueueAt(d, now, due, rec), n + 1) /\ LosesOnly(d, EnqueueAt(d, now, due, rec))
<1>1. CASE \A i \in Delayed : d.delayed[i] # None
  BY <1>1, EnqueueFates DEF EnqueueAt
<1>2. CASE \E i \in Delayed : d.delayed[i] = None
  <2> DEFINE r == [rec EXCEPT !.enq = now, !.due = due]
             del == [i \in Delayed |-> IF FirstFree(d, i) THEN r ELSE d.delayed[i]]
             e == [d EXCEPT !.delayed = del]
  <2>1. r \in Rec /\ r.id = n + 1 /\ n + 1 \in Nat /\ r # None
    <3>1. r \in Rec /\ r.id = n + 1
      BY DEF Rec
    <3> HIDE DEF r
    <3> QED  BY <3>1 DEF None
  <2>2. e.delayed = del /\ e.pending = d.pending /\ e.posted = d.posted /\ e.lost = d.lost
    BY DEF DspState
  <2>3. EnqueueAt(d, now, due, rec) = e
    BY <1>2 DEF EnqueueAt
  <2> HIDE DEF e, r
  <2>4. PICK f \in Delayed : d.delayed[f] = None /\ \A j \in 1 .. f - 1 : d.delayed[j] # None
    <3> DEFINE Free == {i \in Delayed : d.delayed[i] = None}
    <3>1. Free \subseteq Nat /\ Free # {}
      BY <1>2, EgressAssumption DEF Delayed
    <3>2. PICK f \in Free : \A j \in Free : f <= j
      BY <3>1, LeastNat
    <3>3. \A j \in 1 .. f - 1 : j \in Delayed /\ j \notin Free
      BY <3>1, <3>2, EgressAssumption DEF Delayed
    <3> QED  BY <3>2, <3>3
  <2>5. \A i \in Delayed : FirstFree(d, i) <=> i = f
    BY <2>4, EgressAssumption DEF FirstFree, Delayed
  <2>6. \A i \in Delayed : e.delayed[i] = IF i = f THEN r ELSE d.delayed[i]
    BY <2>2, <2>5
  <2>7. Filled(e) = Filled(d) \cup {f} /\ f \notin Filled(d)
    BY <2>1, <2>4, <2>6 DEF Filled
  <2>8. SlotIds(e) = SlotIds(d) \cup {n + 1}
    <3>1. \A i \in Filled(d) : e.delayed[i].id = d.delayed[i].id
      BY <2>6, <2>7 DEF Filled
    <3>2. e.delayed[f].id = n + 1
      BY <2>1, <2>6
    <3> QED  BY <2>7, <3>1, <3>2 DEF SlotIds
  <2>9. QueueIds(e) = QueueIds(d) /\ OutIds(e) = OutIds(d)
    BY <2>2 DEF QueueIds, OutIds
  <2>10. n + 1 \notin SlotIds(d)
    BY JoinedFates
  <2>11. Once(e)
    <3>1. ASSUME NEW i \in Filled(e), NEW j \in Filled(e), e.delayed[i].id = e.delayed[j].id
          PROVE  i = j
      <4>1. \A k \in Filled(d) : e.delayed[k].id = d.delayed[k].id /\ d.delayed[k].id # n + 1
        BY <2>6, <2>7, <2>10 DEF Filled, SlotIds
      <4>2. e.delayed[f].id = n + 1
        BY <2>1, <2>6
      <4> QED  BY <2>7, <3>1, <4>1, <4>2 DEF Fates, Once
    <3> QED  BY <2>2, <3>1 DEF Fates, Once
  <2>12. e.lost = d.lost /\ e.posted = d.posted
    BY <2>2
  <2>13. Partition(SlotIds(d) \cup {n + 1}, QueueIds(d), OutIds(d), d.lost, n + 1)
    BY JoinedFates
  <2>14. Fates(e, n + 1) /\ LosesOnly(d, e)
    BY ONLY <2>8, <2>9, <2>11, <2>12, <2>13 DEF Fates, LosesOnly
  <2> QED  BY <2>3, <2>14
<1> QED  BY <1>1, <1>2

\* One record asked for.
LEMMA AskFates ==
    ASSUME NEW d \in DspState, NEW now \in Nat, NEW kind \in Kinds, NEW n \in Nat, NEW m \in Nat,
           asked + n \in Ids, asked + n = m + 1, Fates(d, m)
    PROVE  Fates(Ask(d, now, kind, n), m + 1) /\ LosesOnly(d, Ask(d, now, kind, n))
<1>1. NewRec(kind, n) \in Rec /\ NewRec(kind, n).id = m + 1
  BY EgressAssumption DEF NewRec, Rec
<1>2. kind.delay \in Nat /\ now + kind.delay \in Nat
  BY EgressAssumption
<1> QED  BY <1>1, <1>2, EnqueueFates, EnqueueAtFates DEF Ask

\* A batch asked for: its records are numbered from asked + 1 on.
LEMMA AskAllFates ==
    ASSUME NEW d \in DspState, NEW now \in Nat, NEW t \in Nat, NEW batch \in Batches(t),
           asked \in Nat, Fifo(d, now), Fates(d, asked)
    PROVE  /\ Fates(AskAll(d, now, batch), asked + Len(batch))
           /\ LosesOnly(d, AskAll(d, now, batch))
<1>1. PICK n \in 0 .. 2 : batch \in [1 .. n -> Kinds]
  BY DEF Batches
<1>2. Len(batch) = n
  BY <1>1
<1>3. asked + n \in 0 .. MaxRec
  BY <1>2, EgressAssumption DEF Batches
<1>4. CASE n = 0
  BY <1>2, <1>4 DEF AskAll, LosesOnly
<1>5. CASE n = 1
  <2>1. batch[1] \in Kinds /\ asked + 1 \in Ids
    BY <1>1, <1>3, <1>5, EgressAssumption DEF Ids
  <2>2. AskAll(d, now, batch) = Ask(d, now, batch[1], 1)
    BY <1>2, <1>5 DEF AskAll
  <2> QED  BY <1>2, <1>5, <2>1, <2>2, AskFates
<1>6. CASE n = 2
  <2> DEFINE e == Ask(d, now, batch[1], 1)
             f == Ask(e, now, batch[2], 2)
  <2>1. batch[1] \in Kinds /\ batch[2] \in Kinds /\ asked + 1 \in Ids /\ asked + 2 \in Ids
    BY <1>1, <1>3, <1>6, EgressAssumption DEF Ids
  <2>2. AskAll(d, now, batch) = f
    BY <1>2, <1>6 DEF AskAll
  <2>3. e \in DspState /\ Fates(e, asked + 1) /\ LosesOnly(d, e)
    BY <2>1, AskFacts, AskFates
  <2> HIDE DEF e
  <2>4. asked + 1 \in Nat /\ asked + 2 = (asked + 1) + 1
    OBVIOUS
  <2>5. Fates(f, asked + 2) /\ LosesOnly(e, f)
    BY <2>1, <2>3, <2>4, AskFates
  <2> QED  BY <1>2, <1>6, <2>2, <2>3, <2>5 DEF LosesOnly
<1> QED  BY <1>1, <1>4, <1>5, <1>6

\* The numbers of records behind others.
LEMMA ConcatIds ==
    ASSUME NEW s \in Seq(Rec), NEW t \in Seq(Rec)
    PROVE  /\ RecIds(s \o t) = RecIds(s) \cup RecIds(t)
           /\ RecIds(s) \cap RecIds(t) = {} /\ Distinct(s) /\ Distinct(t) => Distinct(s \o t)
<1> DEFINE u == s \o t
<1>1. /\ Len(s) \in Nat /\ Len(t) \in Nat /\ Len(u) = Len(s) + Len(t)
      /\ \A i \in 1 .. Len(s) : u[i] = s[i]
      /\ \A i \in 1 .. Len(t) : u[Len(s) + i] = t[i]
  BY ConcatProperties
<1> HIDE DEF u
<1>2. ASSUME NEW i \in 1 .. Len(u)
      PROVE  i \in 1 .. Len(s) \/ \E k \in 1 .. Len(t) : i = Len(s) + k
  <2>1. CASE i <= Len(s)
    BY <1>1, <2>1
  <2>2. CASE i > Len(s)
    <3> DEFINE k == i - Len(s)
    <3>1. k \in 1 .. Len(t) /\ i = Len(s) + k
      BY <1>1, <2>2
    <3> HIDE DEF k
    <3> QED  BY <3>1
  <2>3. i <= Len(s) \/ i > Len(s)
    BY <1>1
  <2> QED  BY <2>1, <2>2, <2>3
<1>3. ASSUME NEW x PROVE x \in RecIds(u) <=> x \in RecIds(s) \/ x \in RecIds(t)
  <2>1. ASSUME x \in RecIds(u) PROVE x \in RecIds(s) \/ x \in RecIds(t)
    <3>1. PICK i \in 1 .. Len(u) : x = u[i].id
      BY <2>1 DEF RecIds
    <3>2. CASE i \in 1 .. Len(s)
      BY <1>1, <3>1, <3>2 DEF RecIds
    <3>3. CASE \E k \in 1 .. Len(t) : i = Len(s) + k
      BY <1>1, <3>1, <3>3 DEF RecIds
    <3> QED  BY <1>2, <3>2, <3>3
  <2>2. ASSUME x \in RecIds(s) PROVE x \in RecIds(u)
    <3>1. PICK k \in 1 .. Len(s) : x = s[k].id
      BY <2>2 DEF RecIds
    <3>2. k \in 1 .. Len(u) /\ u[k] = s[k]
      BY <1>1
    <3> QED  BY <3>1, <3>2 DEF RecIds
  <2>3. ASSUME x \in RecIds(t) PROVE x \in RecIds(u)
    <3>1. PICK k \in 1 .. Len(t) : x = t[k].id
      BY <2>3 DEF RecIds
    <3>2. Len(s) + k \in 1 .. Len(u) /\ u[Len(s) + k] = t[k]
      BY <1>1
    <3> QED  BY <3>1, <3>2 DEF RecIds
  <2> QED  BY <2>1, <2>2, <2>3
<1>4. ASSUME RecIds(s) \cap RecIds(t) = {}, Distinct(s), Distinct(t),
             NEW i \in 1 .. Len(u), NEW j \in 1 .. Len(u), u[i].id = u[j].id
      PROVE  i = j
  <2>1. \A k \in 1 .. Len(s), l \in 1 .. Len(t) : s[k].id # t[l].id
    BY <1>4 DEF RecIds
  <2>2. CASE i \in 1 .. Len(s) /\ j \in 1 .. Len(s)
    BY <1>1, <1>4, <2>2 DEF Distinct
  <2>3. CASE i \in 1 .. Len(s) /\ \E k \in 1 .. Len(t) : j = Len(s) + k
    BY <1>1, <1>4, <2>1, <2>3, SMTT(30)
  <2>4. CASE j \in 1 .. Len(s) /\ \E k \in 1 .. Len(t) : i = Len(s) + k
    BY <1>1, <1>4, <2>1, <2>4
  <2>5. CASE (\E k \in 1 .. Len(t) : i = Len(s) + k) /\ (\E k \in 1 .. Len(t) : j = Len(s) + k)
    BY <1>1, <1>4, <2>5 DEF Distinct
  <2> QED  BY <1>2, <2>2, <2>3, <2>4, <2>5
<1>5. RecIds(u) = RecIds(s) \cup RecIds(t)
  BY <1>3
<1>6. RecIds(s) \cap RecIds(t) = {} /\ Distinct(s) /\ Distinct(t) => Distinct(u)
  BY <1>4 DEF Distinct
<1> QED  BY <1>5, <1>6 DEF u

\* An enumeration of numbers gives each of them one place.
Enumerates(ord, S) ==
    /\ DOMAIN ord = 1 .. Len(ord) /\ Len(ord) \in Nat
    /\ \A k \in 1 .. Len(ord) : ord[k] \in S
    /\ \A i \in S : \E k \in 1 .. Len(ord) : ord[k] = i
    /\ \A k, l \in 1 .. Len(ord) : ord[k] = ord[l] => k = l

LEMMA AscendingOnce ==
    ASSUME NEW S, S \subseteq Nat, NEW n \in Nat, NEW ord \in Ascending(S, n)
    PROVE  Enumerates(ord, S)
<1>1. ord \in Seq(S) /\ \A k, l \in 1 .. Len(ord) : k < l => ord[k] < ord[l]
  BY AscendingType
<1>2. DOMAIN ord = 1 .. Len(ord) /\ Len(ord) \in Nat /\ \A k \in 1 .. Len(ord) : ord[k] \in Nat
  <2>1. DOMAIN ord = 1 .. Len(ord) /\ Len(ord) \in Nat /\ \A k \in 1 .. Len(ord) : ord[k] \in S
    BY <1>1
  <2> QED  BY <2>1
<1>3. ASSUME NEW k \in 1 .. Len(ord), NEW l \in 1 .. Len(ord), ord[k] = ord[l] PROVE k = l
  <2>1. ~(k < l) /\ ~(l < k)
    BY <1>1, <1>2, <1>3
  <2> QED  BY <1>2, <2>1
<1>4. \A i \in S : \E k \in DOMAIN ord : ord[k] = i
  BY DEF Ascending
<1>5. \A k \in 1 .. Len(ord) : ord[k] \in S
  BY <1>1
<1> QED  BY <1>2, <1>3, <1>4, <1>5 DEF Enumerates

\* The positions of a sequence up to a bound are an interval.
LEMMA UpTo ==
    ASSUME NEW len \in Nat, NEW room \in Int
    PROVE  \E m \in 0 .. len : {k \in 1 .. len : k <= room} = 1 .. m
<1>1. CASE room < 0
  <2>1. {k \in 1 .. len : k <= room} = 1 .. 0
    BY <1>1
  <2> QED  BY <2>1
<1>2. CASE room \in 0 .. len
  <2>1. {k \in 1 .. len : k <= room} = 1 .. room
    BY <1>2
  <2> QED  BY <1>2, <2>1
<1>3. CASE room > len
  <2>1. {k \in 1 .. len : k <= room} = 1 .. len
    BY <1>3
  <2> QED  BY <2>1
<1> QED  BY <1>1, <1>2, <1>3

\* A matured record moves to the FIFO or, from a full one, is lost; its slot
\* is free.
LEMMA PumpDelayedFates ==
    ASSUME NEW d \in DspState, NEW now \in Nat, NEW n \in Nat, Fates(d, n),
           NEW e \in PumpDelayed(d, now)
    PROVE  Fates(e, n) /\ LosesOnly(d, e)
<1> DEFINE M == Matured(d, now)
           room == PendingN - 1 - Len(d.pending)
           Num(i) == d.delayed[i].id
           del == [i \in Delayed |-> IF i \in M THEN None ELSE d.delayed[i]]
<1>1. PICK ord \in Ascending(M, DelayedN) :
         e = [d EXCEPT !.pending = d.pending \o [k \in {k \in DOMAIN ord : k <= room} |->
                                     [d.delayed[ord[k]] EXCEPT !.enq = now, !.due = now]],
                       !.delayed = del,
                       !.lost = d.lost \cup {Num(ord[k]) : k \in {k \in DOMAIN ord : k > room}}]
  BY DEF PumpDelayed
<1>2. /\ M \subseteq Filled(d) /\ M \subseteq Nat
      /\ \A i \in M : d.delayed[i] \in Rec
  BY Fields, EgressAssumption DEF Matured, Filled, Delayed
<1>3. Enumerates(ord, M)
  <2>1. M \subseteq Nat /\ ord \in Ascending(M, DelayedN) /\ DelayedN \in Nat
    BY <1>2, EgressAssumption
  <2> HIDE DEF M
  <2> QED  BY <2>1, AscendingOnce
<1>4. PICK m \in 0 .. Len(ord) : {k \in 1 .. Len(ord) : k <= room} = 1 .. m
  <2>1. room \in Int
    BY Fields, EgressAssumption
  <2>2. Len(ord) \in Nat
    BY <1>3 DEF Enumerates
  <2> HIDE DEF room
  <2> QED  BY <2>1, <2>2, UpTo
<1> DEFINE late == {k \in 1 .. Len(ord) : k > room}
           ent == [k \in 1 .. m |-> [d.delayed[ord[k]] EXCEPT !.enq = now, !.due = now]]
           X == {Num(ord[k]) : k \in 1 .. m}
           Y == {Num(ord[k]) : k \in late}
           p == d.pending \o ent
           l == d.lost \cup Y
<1>5. e = [d EXCEPT !.pending = p, !.delayed = del, !.lost = l]
  BY <1>1, <1>3, <1>4 DEF Enumerates
<1>6. e.pending = p /\ e.delayed = del /\ e.lost = l /\ e.posted = d.posted
  <2> HIDE DEF p, del, l
  <2> QED  BY <1>5 DEF DspState
<1>7. late \cap (1 .. m) = {} /\ late \cup (1 .. m) = 1 .. Len(ord)
  <2>1. room \in Int
    BY Fields, EgressAssumption
  <2> HIDE DEF room
  <2>2. \A k \in 1 .. Len(ord) : (k \in 1 .. m <=> k <= room) /\ (k \in late <=> k > room)
    BY <1>4
  <2>3. \A k \in 1 .. Len(ord) : (k <= room \/ k > room) /\ ~(k <= room /\ k > room)
    BY <2>1
  <2>4. 1 .. m \subseteq 1 .. Len(ord) /\ late \subseteq 1 .. Len(ord)
    BY <1>3, <1>4 DEF Enumerates
  <2> QED  BY <2>2, <2>3, <2>4
<1>8. /\ ent \in Seq(Rec) /\ Len(ent) = m
      /\ \A k \in 1 .. m : ent[k].id = Num(ord[k])
  <2>1. ASSUME NEW k \in 1 .. m
        PROVE  /\ [d.delayed[ord[k]] EXCEPT !.enq = now, !.due = now] \in Rec
               /\ [d.delayed[ord[k]] EXCEPT !.enq = now, !.due = now].id = Num(ord[k])
    <3>1. d.delayed[ord[k]] \in Rec
      BY <1>2, <1>3 DEF Enumerates
    <3> QED  BY <3>1 DEF Rec
  <2> DEFINE entry(k) == [d.delayed[ord[k]] EXCEPT !.enq = now, !.due = now]
  <2>2. ent = [k \in 1 .. m |-> entry(k)] /\ m \in Nat
    BY <1>4
  <2>3. \A k \in 1 .. m : entry(k) \in Rec /\ entry(k).id = Num(ord[k])
    BY <2>1
  <2> HIDE DEF entry, ent, Num
  <2> QED  BY <2>2, <2>3
<1>9. \A k, j \in 1 .. Len(ord) : Num(ord[k]) = Num(ord[j]) => k = j
  <2>1. \A i, j \in M : Num(i) = Num(j) => i = j
    BY <1>2 DEF Fates, Once
  <2> HIDE DEF Num, M
  <2> QED  BY <1>3, <2>1 DEF Enumerates
<1>10. X \cap Y = {} /\ X \cup Y = {Num(i) : i \in M} /\ X \cup Y \subseteq SlotIds(d)
  <2>1. {Num(i) : i \in M} \subseteq SlotIds(d)
    BY <1>2 DEF SlotIds
  <2> HIDE DEF Num, M, late
  <2>2. \A k \in 1 .. m, j \in late : Num(ord[k]) # Num(ord[j])
    BY <1>7, <1>9
  <2>3. X \cup Y = {Num(ord[k]) : k \in 1 .. Len(ord)}
    BY <1>7
  <2>4. {Num(ord[k]) : k \in 1 .. Len(ord)} = {Num(i) : i \in M}
    BY <1>3 DEF Enumerates
  <2> QED  BY <2>1, <2>2, <2>3, <2>4
<1>11. Filled(e) = Filled(d) \ M /\ \A i \in Filled(e) : e.delayed[i] = d.delayed[i]
  <2> HIDE DEF M
  <2> QED  BY <1>2, <1>6 DEF Filled
<1>12. SlotIds(e) = SlotIds(d) \ (X \cup Y)
  <2>1. \A i \in Filled(d), j \in M : Num(i) = Num(j) => i = j
    BY <1>2 DEF Fates, Once
  <2>2. SlotIds(d) = {Num(i) : i \in Filled(d)} /\ SlotIds(e) = {Num(i) : i \in Filled(d) \ M}
    BY <1>11 DEF SlotIds
  <2> HIDE DEF Num, M, X, Y
  <2>3. X \cup Y = {Num(i) : i \in M} /\ M \subseteq Filled(d)
    BY <1>2, <1>10
  <2>4. SlotIds(e) \subseteq SlotIds(d) \ (X \cup Y)
    BY ONLY <2>1, <2>2, <2>3
  <2>5. SlotIds(d) \ (X \cup Y) \subseteq SlotIds(e)
    BY ONLY <2>2, <2>3
  <2> QED  BY ONLY <2>4, <2>5
<1>13. RecIds(ent) = X /\ Distinct(ent)
  <2> HIDE DEF ent, Num
  <2>1. RecIds(ent) = {Num(ord[k]) : k \in 1 .. m}
    BY <1>8 DEF RecIds
  <2>2. Distinct(ent)
    BY <1>7, <1>8, <1>9 DEF Distinct
  <2> QED  BY <2>1, <2>2
<1>14. QueueIds(e) = QueueIds(d) \cup X /\ Distinct(e.pending)
  <2> DEFINE s == d.pending
  <2>1. s \in Seq(Rec) /\ Distinct(s) /\ QueueIds(d) = RecIds(s)
    BY Fields DEF Fates, Once, QueueIds
  <2>2. SlotIds(d) \cap QueueIds(d) = {}
    BY DEF Fates, Partition
  <2>3. QueueIds(e) = RecIds(s \o ent) /\ e.pending = s \o ent
    BY <1>6 DEF QueueIds
  <2> HIDE DEF ent, X, Y, s
  <2>4. RecIds(s) \cap RecIds(ent) = {}
    BY <1>10, <1>13, <2>1, <2>2
  <2> QED  BY <1>8, <1>13, <2>1, <2>3, <2>4, ConcatIds
<1>15. OutIds(e) = OutIds(d) /\ e.lost = d.lost \cup Y
  BY <1>6 DEF OutIds
<1>16. Partition(SlotIds(e), QueueIds(e), OutIds(e), e.lost, n)
  <2> HIDE DEF X, Y
  <2> DEFINE A == SlotIds(d)
             B == QueueIds(d)
             C == OutIds(d)
  <2>1. Partition(A, B, C, d.lost, n) /\ X \subseteq A /\ Y \subseteq A /\ X \cap Y = {}
    BY <1>10 DEF Fates
  <2>2. Partition(A \ (X \cup Y), B \cup X, C, d.lost \cup Y, n)
    <3> HIDE DEF A, B, C
    <3> QED  BY <2>1, Moved
  <2> QED  BY <2>2, <1>12, <1>14, <1>15
<1>17. Once(e)
  <2>1. \A i, j \in Filled(d) : Num(i) = Num(j) => i = j
    BY DEF Fates, Once
  <2>2. \A i, j \in Filled(e) : e.delayed[i].id = e.delayed[j].id => i = j
    BY <1>11, <2>1
  <2> QED  BY <1>6, <1>14, <2>2 DEF Once, Fates
<1> QED  BY <1>6, <1>16, <1>17 DEF Fates, LosesOnly

\* The stale records at the head of the FIFO are lost, and no other.
LEMMA ExpireStaleFates ==
    ASSUME NEW d \in DspState, NEW now \in Nat, NEW n \in Nat, Fates(d, n),
           NEW e \in ExpireStale(d, now)
    PROVE  Fates(e, n) /\ LosesOnly(d, e)
<1> DEFINE s == d.pending
<1>1. PICK k \in 0 .. Len(s) :
         e = [d EXCEPT !.pending = SubSeq(s, k + 1, Len(s)),
                       !.lost = d.lost \cup {s[i].id : i \in 1 .. k}]
  BY DEF ExpireStale
<1> DEFINE t == SubSeq(s, k + 1, Len(s))
           Y == {s[i].id : i \in 1 .. k}
           l == d.lost \cup Y
<1>2. s \in Seq(Rec) /\ Len(s) \in Nat /\ Distinct(s) /\ QueueIds(d) = RecIds(s)
  BY Fields DEF Fates, Once, QueueIds
<1>3. e.pending = t /\ e.delayed = d.delayed /\ e.lost = l /\ e.posted = d.posted
  <2>1. e = [d EXCEPT !.pending = t, !.lost = l]
    BY <1>1
  <2> HIDE DEF t, l
  <2> QED  BY <2>1 DEF DspState
<1> HIDE DEF s
<1>4. /\ Len(t) = Len(s) - k
      /\ \A i \in 1 .. Len(t) : i + k \in 1 .. Len(s) /\ t[i] = s[i + k]
  BY <1>2
<1> HIDE DEF t
<1>5. RecIds(t) = RecIds(s) \ Y
  <2>1. ASSUME NEW i \in 1 .. Len(t) PROVE t[i].id \in RecIds(s) \ Y
    <3>1. i + k \in 1 .. Len(s) /\ t[i] = s[i + k] /\ 1 .. k \subseteq 1 .. Len(s) /\ i + k \notin 1 .. k
      BY <1>2, <1>4
    <3>2. \A j \in 1 .. k : s[j].id # s[i + k].id
      BY <1>2, <3>1 DEF Distinct
    <3> QED  BY <3>1, <3>2 DEF RecIds
  <2>2. ASSUME NEW j \in 1 .. Len(s), s[j].id \notin Y PROVE s[j].id \in RecIds(t)
    <3>1. j \notin 1 .. k
      BY <2>2
    <3>2. j - k \in 1 .. Len(t) /\ (j - k) + k = j
      BY <1>2, <1>4, <3>1
    <3>3. t[j - k] = s[j]
      BY <1>4, <3>2
    <3> QED  BY <3>2, <3>3 DEF RecIds
  <2> HIDE DEF Y
  <2> QED  BY <2>1, <2>2 DEF RecIds
<1>6. Y \subseteq RecIds(s)
  BY <1>2 DEF RecIds
<1>7. Distinct(t)
  BY <1>2, <1>4, SMTT(30) DEF Distinct
<1>8. SlotIds(e) = SlotIds(d) /\ OutIds(e) = OutIds(d) /\ QueueIds(e) = QueueIds(d) \ Y /\ Filled(e) = Filled(d)
  BY <1>2, <1>3, <1>5 DEF SlotIds, OutIds, QueueIds, Filled
<1>9. Partition(SlotIds(e), QueueIds(e), OutIds(e), e.lost, n)
  <2> HIDE DEF Y
  <2> DEFINE A == SlotIds(d)
             B == QueueIds(d)
             C == OutIds(d)
  <2>1. Partition(A, B, C, d.lost, n) /\ Y \subseteq B
    BY <1>2, <1>6 DEF Fates
  <2>2. Partition(A, B \ Y, C, d.lost \cup Y, n)
    <3> HIDE DEF A, B, C
    <3> QED  BY <2>1 DEF Partition
  <2> QED  BY <2>2, <1>3, <1>8
<1>10. Once(e)
  BY <1>3, <1>7, <1>8 DEF Once, Fates
<1> QED  BY <1>3, <1>9, <1>10 DEF Fates, LosesOnly

\* A retune loses the idle records of both queues and keeps every other.
LEMMA DropIdleRadioFates ==
    ASSUME NEW d \in DspState, NEW n \in Nat, Fates(d, n), NEW e \in DropIdleRadio(d)
    PROVE  Fates(e, n) /\ LosesOnly(d, e)
<1> DEFINE s == d.pending
           stay == {i \in DOMAIN s : ~s[i].radio}
           gone == {i \in DOMAIN s : s[i].radio}
           idle == {i \in Delayed : d.delayed[i] # None /\ d.delayed[i].radio}
           del == [i \in Delayed |-> IF d.delayed[i] # None /\ d.delayed[i].radio
                                     THEN None ELSE d.delayed[i]]
           Y == {s[i].id : i \in gone}
           X == {d.delayed[i].id : i \in idle}
           l == d.lost \cup Y \cup X
<1>1. PICK ord \in Ascending(stay, Len(s)) :
         e = [d EXCEPT !.pending = [k \in DOMAIN ord |-> s[ord[k]]], !.delayed = del, !.lost = l]
  BY DEF DropIdleRadio
<1> DEFINE t == [k \in DOMAIN ord |-> s[ord[k]]]
<1>2. /\ s \in Seq(Rec) /\ Len(s) \in Nat /\ DOMAIN s = 1 .. Len(s)
      /\ Distinct(s) /\ QueueIds(d) = RecIds(s)
  BY Fields DEF Fates, Once, QueueIds
<1>3. e.pending = t /\ e.delayed = del /\ e.lost = l /\ e.posted = d.posted
  <2>1. e = [d EXCEPT !.pending = t, !.delayed = del, !.lost = l]
    BY <1>1
  <2> HIDE DEF t, l, del
  <2> QED  BY <2>1 DEF DspState
<1>4. Enumerates(ord, stay)
  <2>1. stay \subseteq Nat /\ ord \in Ascending(stay, Len(s)) /\ Len(s) \in Nat
    BY <1>2
  <2> HIDE DEF stay
  <2> QED  BY <2>1, AscendingOnce
<1>5. stay \cup gone = 1 .. Len(s) /\ stay \cap gone = {}
  BY <1>2
<1> HIDE DEF s, stay, gone
<1>6. Len(t) = Len(ord) /\ \A k \in 1 .. Len(t) : ord[k] \in stay /\ t[k] = s[ord[k]]
  BY <1>4 DEF Enumerates
<1> HIDE DEF t
<1>7. RecIds(t) = RecIds(s) \ Y
  <2>1. ASSUME NEW k \in 1 .. Len(t) PROVE t[k].id \in RecIds(s) \ Y
    <3>1. ord[k] \in stay /\ t[k] = s[ord[k]] /\ ord[k] \in 1 .. Len(s)
      BY <1>5, <1>6
    <3>2. \A j \in gone : j \in 1 .. Len(s) /\ j # ord[k]
      BY <1>5, <3>1
    <3>3. \A j \in gone : s[j].id # s[ord[k]].id
      BY <1>2, <3>1, <3>2 DEF Distinct
    <3> QED  BY <3>1, <3>3 DEF RecIds
  <2>2. ASSUME NEW j \in 1 .. Len(s), s[j].id \notin Y PROVE s[j].id \in RecIds(t)
    <3>1. j \in stay
      BY <1>5, <2>2
    <3>2. PICK k \in 1 .. Len(t) : ord[k] = j
      BY <1>4, <1>6, <3>1 DEF Enumerates
    <3>3. t[k] = s[j]
      BY <1>6, <3>2
    <3> QED  BY <3>3 DEF RecIds
  <2> HIDE DEF Y
  <2> QED  BY <2>1, <2>2 DEF RecIds
<1>8. Y \subseteq RecIds(s)
  BY <1>5 DEF RecIds
<1>9. Distinct(t)
  <2> SUFFICES ASSUME NEW k \in 1 .. Len(t), NEW j \in 1 .. Len(t), t[k].id = t[j].id
               PROVE  k = j
    BY DEF Distinct
  <2>1. ord[k] = ord[j]
    BY <1>2, <1>5, <1>6 DEF Distinct
  <2> QED  BY <2>1, <1>4, <1>6 DEF Enumerates
<1>10. /\ Filled(e) = Filled(d) \ idle /\ idle \subseteq Filled(d)
       /\ \A i \in Filled(e) : e.delayed[i] = d.delayed[i]
  BY <1>3 DEF Filled
<1>11. SlotIds(e) = SlotIds(d) \ X /\ X \subseteq SlotIds(d)
  <2>1. \A i, j \in Filled(d) : d.delayed[i].id = d.delayed[j].id => i = j
    BY DEF Fates, Once
  <2>2. SlotIds(e) = {d.delayed[i].id : i \in Filled(d) \ idle}
    BY <1>10 DEF SlotIds
  <2>3. {d.delayed[i].id : i \in Filled(d) \ idle} = {d.delayed[i].id : i \in Filled(d)} \ X
    <3>1. idle \subseteq Filled(d)
      BY <1>10
    <3> HIDE DEF idle
    <3> QED  BY <2>1, <3>1
  <2>4. X \subseteq {d.delayed[i].id : i \in Filled(d)}
    BY <1>10
  <2> HIDE DEF X
  <2> QED  BY <2>2, <2>3, <2>4 DEF SlotIds
<1>12. OutIds(e) = OutIds(d) /\ QueueIds(e) = QueueIds(d) \ Y
  BY <1>2, <1>3, <1>7 DEF OutIds, QueueIds
<1>13. Partition(SlotIds(e), QueueIds(e), OutIds(e), e.lost, n)
  <2> HIDE DEF Y, X
  <2> DEFINE A == SlotIds(d)
             B == QueueIds(d)
             C == OutIds(d)
  <2>1. Partition(A, B, C, d.lost, n) /\ Y \subseteq B /\ X \subseteq A
    BY <1>2, <1>8, <1>11 DEF Fates
  <2>2. Partition(A \ X, B \ Y, C, d.lost \cup Y \cup X, n)
    <3> HIDE DEF A, B, C
    <3> QED  BY <2>1, Moved
  <2> QED  BY <2>2, <1>3, <1>11, <1>12
<1>14. Once(e)
  <2>1. \A i, j \in Filled(d) : d.delayed[i].id = d.delayed[j].id => i = j
    BY DEF Fates, Once
  <2>2. \A i, j \in Filled(e) : e.delayed[i].id = e.delayed[j].id => i = j
    BY <1>10, <2>1
  <2> QED  BY <1>3, <1>9, <2>2 DEF Once, Fates
<1> QED  BY <1>3, <1>13, <1>14 DEF Fates, LosesOnly

-----------------------------------------------------------------------------
(* The words written, and the pump. *)

\* q is p with at most k more at its end.
Extends(p, q, k) == Len(q) \in Len(p) .. Len(p) + k /\ \A i \in 1 .. Len(p) : q[i] = p[i]

\* What a reaction of the engine does to the history.
Reacts(d, e, k) == d.lost \subseteq e.lost /\ Extends(d.posted, e.posted, k)

\* The last words of a sequence of words with a record's words behind it.
LEMMA EndsGrow ==
    ASSUME NEW s \in Seq(Word), NEW n \in Nat, n >= 1, NEW id \in Ids \cup {Beat}
    PROVE  Ends(s \o WordsOf(id, n)) = IF id = Beat THEN Ends(s) ELSE Ends(s) \cup {Len(s) + n}
<1> DEFINE w == WordsOf(id, n)
           u == s \o w
<1>1. /\ w \in Seq(Word) /\ Len(w) = n
      /\ \A k \in 1 .. n : w[k].id = id /\ w[k].part = k /\ w[k].words = n
  BY WordsOfType DEF WordsOf
<1>2. /\ DOMAIN s = 1 .. Len(s) /\ Len(s) \in Nat /\ DOMAIN u = 1 .. Len(s) + n
      /\ \A k \in 1 .. Len(s) : u[k] = s[k]
      /\ \A k \in 1 .. n : u[Len(s) + k] = w[k]
  <2> HIDE DEF w
  <2>1. u \in Seq(Word) /\ Len(u) = Len(s) + Len(w)
    BY <1>1, ConcatProperties
  <2>2. \A k \in 1 .. Len(s) : u[k] = s[k]
    BY <1>1, ConcatProperties
  <2>3. \A k \in 1 .. Len(w) : u[Len(s) + k] = w[k]
    BY <1>1, ConcatProperties
  <2> HIDE DEF u
  <2> QED  BY <1>1, <2>1, <2>2, <2>3
<1> HIDE DEF w, u
<1>3. ASSUME NEW k \in 1 .. Len(s) + n
      PROVE  /\ k \in 1 .. Len(s) => (k \in Ends(u) <=> k \in Ends(s))
             /\ k \notin 1 .. Len(s) => (k \in Ends(u) <=> id # Beat /\ k = Len(s) + n)
  <2>1. CASE k \in 1 .. Len(s)
    BY <1>2, <2>1 DEF Ends
  <2>2. CASE k \notin 1 .. Len(s)
    <3> DEFINE j == k - Len(s)
    <3>1. j \in 1 .. n /\ k = Len(s) + j
      BY <1>2, <2>2
    <3> HIDE DEF j
    <3>2. u[k].id = id /\ u[k].part = j /\ u[k].words = n
      BY <1>1, <1>2, <3>1
    <3>3. k \in Ends(u) <=> id # Beat /\ j = n
      BY <1>2, <3>2 DEF Ends
    <3>4. k = Len(s) + n <=> j = n
      BY <1>2, <3>1
    <3> QED  BY ONLY <2>2, <3>3, <3>4
  <2> QED  BY <2>1, <2>2
<1>4. Ends(u) \subseteq 1 .. Len(s) + n /\ Ends(s) \subseteq 1 .. Len(s)
  BY <1>2 DEF Ends
<1>5. 1 .. Len(s) \subseteq 1 .. Len(s) + n /\ Len(s) + n \in 1 .. Len(s) + n /\ Len(s) + n \notin 1 .. Len(s)
  BY <1>2
<1>6. CASE id = Beat
  BY <1>3, <1>4, <1>5, <1>6 DEF u, w
<1>7. CASE id # Beat
  BY <1>3, <1>4, <1>5, <1>7 DEF u, w
<1> QED  BY <1>6, <1>7

\* The pump moves the FIFO's head to the link, with one last word.
LEMMA PostFates ==
    ASSUME NEW d \in DspState, NEW c, NEW now \in Nat, NEW n \in Nat, Fates(d, n), Ended(d)
    PROVE  /\ Fates(Post(d, c, now), n) /\ Ended(Post(d, c, now))
           /\ Reacts(d, Post(d, c, now), 1)
<1> DEFINE s == d.pending
           rec == Head(s)
           len == RecWords(rec.len)
<1>1. /\ s \in Seq(Rec) /\ d.posted \in Seq([id : Ids, wait : Int]) /\ d.written \in Seq(Word)
      /\ Distinct(s) /\ Distinct(d.posted) /\ QueueIds(d) = RecIds(s) /\ OutIds(d) = RecIds(d.posted)
  BY Fields DEF Fates, Once, QueueIds, OutIds
<1>2. CASE s # <<>> /\ Fits(d.producer, c, len)
  <2> DEFINE w == WordsOf(rec.id, len)
             r == [id |-> rec.id, wait |-> now - rec.enq]
             t == Tail(s)
             po == Append(d.posted, r)
             wr == d.written \o w
             e == Post(d, c, now)
  <2>1. rec \in Rec /\ rec = s[1] /\ Len(s) \in Nat /\ Len(s) >= 1
    BY <1>1, <1>2
  <2>2. /\ e.pending = t /\ e.posted = po /\ e.written = wr
        /\ e.delayed = d.delayed /\ e.lost = d.lost
    <3> DEFINE v == Written(d, now, w)
    <3>1. /\ v.pending = s /\ v.posted = d.posted /\ v.delayed = d.delayed /\ v.lost = d.lost
          /\ v.written = wr /\ DOMAIN v = DOMAIN d
      BY DEF Written, DspState
    <3>2. e = [v EXCEPT !.pending = t, !.posted = po]
      BY <1>2, <3>1 DEF Post
    <3>3. {"pending", "posted", "written", "delayed", "lost"} \subseteq DOMAIN d
      BY DEF DspState
    <3> HIDE DEF v, t, po, wr, e
    <3> QED  BY <3>1, <3>2, <3>3
  <2>3. rec.id \in Ids /\ rec.id # Beat /\ len \in Nat /\ len >= 1 /\ rec.enq \in Nat
    BY <2>1, RecWordsBound, SlotsAssumption DEF Rec, Ids, Beat
  <2>4. r \in [id : Ids, wait : Int] /\ r.id = rec.id
    BY <2>3
  <2> HIDE DEF e, r, len
  <2>5. RecIds(t) = RecIds(s) \ {rec.id} /\ rec.id \in RecIds(s) /\ Distinct(t)
    <3> HIDE DEF s, rec
    <3>1. /\ Len(t) = Len(s) - 1
          /\ \A i \in 1 .. Len(t) : i + 1 \in 1 .. Len(s) /\ t[i] = s[i + 1]
      BY <1>1, <2>1
    <3> HIDE DEF t
    <3>2. ASSUME NEW i \in 1 .. Len(t) PROVE t[i].id \in RecIds(s) \ {rec.id}
      <4>1. i + 1 \in 1 .. Len(s) /\ i + 1 # 1 /\ 1 \in 1 .. Len(s) /\ t[i] = s[i + 1]
        BY <2>1, <3>1
      <4>2. s[i + 1].id # s[1].id
        BY <1>1, <4>1 DEF Distinct
      <4> QED  BY <2>1, <4>1, <4>2 DEF RecIds
    <3>3. ASSUME NEW j \in 1 .. Len(s), s[j].id # rec.id PROVE s[j].id \in RecIds(t)
      <4>1. j # 1
        BY <2>1, <3>3
      <4>2. j - 1 \in 1 .. Len(t) /\ (j - 1) + 1 = j
        BY <2>1, <3>1, <4>1
      <4>3. t[j - 1] = s[j]
        BY <3>1, <4>2
      <4> QED  BY <4>2, <4>3 DEF RecIds
    <3>4. RecIds(t) = RecIds(s) \ {rec.id}
      BY <3>2, <3>3 DEF RecIds
    <3>5. rec.id \in RecIds(s)
      BY <2>1 DEF RecIds
    <3>6. Distinct(t)
      <4> SUFFICES ASSUME NEW i \in 1 .. Len(t), NEW j \in 1 .. Len(t), t[i].id = t[j].id
                   PROVE  i = j
        BY DEF Distinct
      <4>1. i + 1 \in 1 .. Len(s) /\ j + 1 \in 1 .. Len(s) /\ s[i + 1].id = s[j + 1].id
        BY <3>1
      <4>2. i + 1 = j + 1
        BY <1>1, <4>1 DEF Distinct
      <4> QED  BY <4>2
    <3> QED  BY <3>4, <3>5, <3>6
  <2>6. RecIds(po) = RecIds(d.posted) \cup {rec.id} /\ Distinct(po)
    <3>1. rec.id \notin RecIds(d.posted)
      BY <1>1, <2>5 DEF Fates, Partition
    <3> DEFINE q == d.posted
               R == [id : Ids, wait : Int]
    <3>2. q \in Seq(R) /\ r \in R /\ Distinct(q)
      <4> HIDE DEF rec, s
      <4> QED  BY <1>1, <2>4
    <3>3. r.id \notin RecIds(q)
      <4> HIDE DEF rec, s
      <4> QED  BY <2>4, <3>1
    <3> HIDE DEF q, rec, R
    <3>4. RecIds(Append(q, r)) = RecIds(q) \cup {r.id} /\ Distinct(Append(q, r))
      BY <3>2, <3>3, AppendIds
    <3> QED  BY <2>4, <3>4 DEF q
  <2>7. SlotIds(e) = SlotIds(d) /\ Filled(e) = Filled(d)
    BY <2>2 DEF SlotIds, Filled
  <2>8. QueueIds(e) = QueueIds(d) \ {rec.id} /\ OutIds(e) = OutIds(d) \cup {rec.id}
    <3> HIDE DEF s, t, po, rec
    <3> QED  BY <1>1, <2>2, <2>5, <2>6 DEF QueueIds, OutIds
  <2>9. Partition(SlotIds(e), QueueIds(e), OutIds(e), e.lost, n)
    <3> DEFINE A == SlotIds(d)
               B == QueueIds(d)
               C == OutIds(d)
               X == {rec.id}
    <3>1. Partition(A, B, C, d.lost, n) /\ X \subseteq B
      BY <1>1, <2>5 DEF Fates
    <3>2. Partition(A, B \ X, C \cup X, d.lost, n)
      <4> HIDE DEF A, B, C, X
      <4> QED  BY <3>1, Moved
    <3> QED  BY <2>2, <2>7, <2>8, <3>2
  <2>10. Once(e)
    <3> HIDE DEF t, po
    <3> QED  BY <2>2, <2>5, <2>6, <2>7 DEF Once, Fates
  <2>11. Extends(d.posted, e.posted, 1) /\ Len(e.posted) = Len(d.posted) + 1
    <3> DEFINE q == d.posted
    <3>1. q \in Seq([id : Ids, wait : Int]) /\ e.posted = Append(q, r)
      BY <1>1, <2>2
    <3> HIDE DEF q
    <3>2. /\ Len(e.posted) = Len(q) + 1 /\ Len(q) \in Nat
          /\ \A i \in 1 .. Len(q) : e.posted[i] = q[i]
      BY <3>1, <2>4
    <3>3. Extends(q, e.posted, 1) /\ Len(e.posted) = Len(q) + 1
      BY <3>2 DEF Extends
    <3> QED  BY <3>3 DEF q
  <2>12. Ended(e)
    <3> DEFINE S == Ends(d.written)
               x == Len(d.written) + len
    <3>1. Ends(e.written) = S \cup {x}
      <4> DEFINE v == d.written
                 id == rec.id
      <4>1. v \in Seq(Word) /\ id \in Ids \cup {Beat} /\ id # Beat /\ e.written = v \o WordsOf(id, len)
        BY <1>1, <2>2, <2>3
      <4> HIDE DEF v, id
      <4>2. Ends(v \o WordsOf(id, len)) = Ends(v) \cup {Len(v) + len}
        BY <2>3, <4>1, EndsGrow
      <4> QED  BY <4>1, <4>2 DEF v
    <3>2. x \notin S
      <4>1. DOMAIN d.written = 1 .. Len(d.written) /\ Len(d.written) \in Nat
        BY <1>1
      <4>2. x \notin 1 .. Len(d.written)
        BY <2>3, <4>1
      <4> QED  BY <4>1, <4>2 DEF Ends
    <3>3. IsFiniteSet(S) /\ Cardinality(S) = Len(d.posted)
      BY DEF Ended
    <3> HIDE DEF S, x
    <3>4. IsFiniteSet(S \cup {x}) /\ Cardinality(S \cup {x}) = Cardinality(S) + 1
      BY <3>2, <3>3, FS_AddElement
    <3> QED  BY <2>11, <3>1, <3>3, <3>4 DEF Ended
  <2> QED  BY <2>2, <2>9, <2>10, <2>11, <2>12 DEF e, Fates, Reacts
<1>3. CASE ~(s # <<>> /\ Fits(d.producer, c, len))
  <2>1. Post(d, c, now) = d
    BY <1>3 DEF Post
  <2>2. Len(d.posted) \in Nat
    BY <1>1
  <2> QED  BY <2>1, <2>2 DEF Reacts, Extends
<1> QED  BY <1>2, <1>3

\* The heartbeat's word ends no record.
LEMMA HeartbeatFates ==
    ASSUME NEW d \in DspState, NEW c, NEW now \in Nat, NEW n \in Nat, Fates(d, n), Ended(d),
           BeatIsOneWord
    PROVE  LET e == Heartbeat(d, c, now)
           IN  Fates(e, n) /\ Ended(e) /\ e.lost = d.lost /\ e.posted = d.posted
<1> DEFINE e == Heartbeat(d, c, now)
           w == WordsOf(Beat, 1)
<1>1. WordsOf(Beat, 1) = <<[id |-> Beat, part |-> 1, words |-> RecWords(BeatLen)]>>
  BY DEF BeatIsOneWord, RecWords, WordsOf
<1>2. \/ \E hb : e = [d EXCEPT !.hbNext = hb]
      \/ e = d
      \/ e = Written(d, now, w)
  BY <1>1 DEF Heartbeat
<1>3. /\ e.delayed = d.delayed /\ e.pending = d.pending /\ e.posted = d.posted /\ e.lost = d.lost
      /\ e.written = d.written \/ e.written = d.written \o w
  BY <1>2 DEF Written, DspState
<1> HIDE DEF e
<1>4. Fates(e, n)
  BY <1>3, SameFates
<1>5. Ends(e.written) = Ends(d.written)
  <2> DEFINE v == d.written
  <2>1. v \in Seq(Word) /\ Beat \in Ids \cup {Beat}
    BY Fields
  <2> HIDE DEF v
  <2>2. Ends(v \o w) = Ends(v)
    BY <2>1, EndsGrow
  <2> QED  BY <1>3, <2>2 DEF v
<1> QED  BY <1>3, <1>4, <1>5 DEF Ended, e

\* What an operator of the queues does to the link, if it loses only.
LEMMA SameEnded ==
    ASSUME NEW d \in DspState, NEW e, SameLink(d, e), LosesOnly(d, e), Ended(d)
    PROVE  Ended(e) /\ Reacts(d, e, 0)
<1>1. Len(d.posted) \in Nat
  BY Fields
<1> QED  BY <1>1 DEF SameLink, LosesOnly, Ended, Reacts, Extends

\* One reaction after another.
LEMMA ReactsTwice ==
    ASSUME NEW d \in DspState, NEW e \in DspState, NEW f \in DspState, NEW j \in Nat, NEW k \in Nat,
           Reacts(d, e, j), Reacts(e, f, k)
    PROVE  Reacts(d, f, j + k)
<1>1. Len(d.posted) \in Nat /\ Len(e.posted) \in Nat /\ Len(f.posted) \in Nat
  BY Fields
<1> DEFINE a == Len(d.posted)
           b == Len(e.posted)
           c == Len(f.posted)
<1>2. b \in a .. a + j /\ c \in b .. b + k
  BY DEF Reacts, Extends
<1>3. c \in a .. a + (j + k)
  <2>1. a \in Nat /\ b \in Nat /\ c \in Nat
    BY <1>1
  <2> HIDE DEF a, b, c
  <2> QED  BY <1>2, <2>1
<1>4. \A i \in 1 .. Len(d.posted) : i \in 1 .. Len(e.posted) /\ f.posted[i] = d.posted[i]
  BY <1>1, <1>2 DEF Reacts, Extends
<1> QED  BY <1>3, <1>4 DEF Reacts, Extends

\* A batch asked for and a pump.
LEMMA AskAndPostFates ==
    ASSUME NEW d \in DspState, NEW now \in Nat, NEW batch \in Batches(now), asked \in Nat,
           Fifo(d, now), Fates(d, asked), Ended(d)
    PROVE  LET e == Post(AskAll(d, now, batch), consumer, now)
           IN  Fates(e, asked + Len(batch)) /\ Ended(e) /\ Reacts(d, e, 1)
<1> DEFINE x == AskAll(d, now, batch)
           e == Post(x, consumer, now)
           n == asked + Len(batch)
<1>1. x \in DspState /\ SameLink(d, x) /\ n \in Nat
  BY AskAllFacts, EgressAssumption
<1>2. Fates(x, n) /\ LosesOnly(d, x)
  BY AskAllFates
<1> HIDE DEF x, n
<1>3. Ended(x) /\ Reacts(d, x, 0)
  BY <1>1, <1>2, SameEnded
<1>4. Fates(e, n) /\ Ended(e) /\ Reacts(x, e, 1)
  BY <1>1, <1>2, <1>3, PostFates
<1>5. Reacts(d, e, 1)
  BY <1>3, <1>4 DEF Reacts, Extends, LosesOnly
<1> QED  BY <1>4, <1>5 DEF x, n

\* advance_to: what the expiry and the matured records lose is lost for good.
LEMMA AdvanceFates ==
    ASSUME NEW d \in DspState, NEW now \in Nat, asked \in Nat, Ordered(d, now),
           Fates(d, asked), Ended(d), NEW batch \in Batches(now), NEW e \in AdvanceTo(d, now, batch)
    PROVE  Fates(e, asked + Len(batch)) /\ Ended(e) /\ Reacts(d, e, 1)
<1>1. PICK d1 \in ExpireStale(d, now) : \E x \in PumpDelayed(d1, now) :
              e = Post(AskAll(x, now, batch), consumer, now)
  BY DEF AdvanceTo
<1>2. PICK d2 \in PumpDelayed(d1, now) : e = Post(AskAll(d2, now, batch), consumer, now)
  BY <1>1
<1>3. /\ d1 \in DspState /\ SameLink(d, d1) /\ Fifo(d1, now)
      /\ Fates(d1, asked) /\ LosesOnly(d, d1)
  BY ExpireStaleFacts, ExpireStaleFates
<1>4. /\ d2 \in DspState /\ SameLink(d1, d2) /\ Fifo(d2, now)
      /\ Fates(d2, asked) /\ LosesOnly(d1, d2)
  BY <1>3, PumpDelayedFacts, PumpDelayedFates
<1>5. SameLink(d, d2) /\ LosesOnly(d, d2)
  BY <1>3, <1>4, SameLinkTwice DEF LosesOnly
<1>6. Ended(d2) /\ Reacts(d, d2, 0)
  BY <1>5, SameEnded
<1>7. Fates(e, asked + Len(batch)) /\ Ended(e) /\ Reacts(d2, e, 1)
  BY <1>2, <1>4, <1>6, AskAndPostFates
<1>8. Reacts(d, e, 1)
  BY <1>6, <1>7, <1>5 DEF Reacts, Extends, LosesOnly
<1> QED  BY <1>7, <1>8

-----------------------------------------------------------------------------
(* The steps. *)

Sent(d, n) == Fates(d, n) /\ Ended(d)

InvSent == Inv /\ Sent(dsp, asked)

\* One step of the engine: no record is asked back, none unposted.
Reaction == Sent(dsp', asked') /\ Reacts(dsp, dsp', 2) /\ asked <= asked' /\ heard' = heard

\* A reaction of at most one record is one of at most two.
LEMMA OneIsAtMostTwo ==
    ASSUME NEW d \in DspState, NEW e, NEW k \in 0 .. 2, Reacts(d, e, k)
    PROVE  Reacts(d, e, 2)
<1>1. Len(d.posted) \in Nat
  BY Fields
<1>2. Len(e.posted) \in Len(d.posted) .. Len(d.posted) + k
  BY DEF Reacts, Extends
<1>3. Len(e.posted) \in Len(d.posted) .. Len(d.posted) + 2
  <2> DEFINE a == Len(d.posted)
             b == Len(e.posted)
  <2>1. a \in Nat /\ b \in a .. a + k
    BY <1>1, <1>2
  <2> HIDE DEF a, b
  <2>2. b \in a .. a + 2
    BY <2>1
  <2> QED  BY <2>2 DEF a, b
<1> QED  BY <1>3 DEF Reacts, Extends

\* In the beginning nothing has been asked for.
LEMMA SentInit == Init => Sent(dsp, asked)
<1> SUFFICES ASSUME Init PROVE Sent(dsp, asked)
  OBVIOUS
<1>1. /\ dsp.pending = <<>> /\ dsp.posted = <<>> /\ dsp.written = <<>> /\ dsp.lost = {} /\ asked = 0
      /\ \A i \in Delayed : dsp.delayed[i] = None
  BY DEF Init
<1>2. Filled(dsp) = {} /\ SlotIds(dsp) = {} /\ QueueIds(dsp) = {} /\ OutIds(dsp) = {} /\ Once(dsp)
  BY <1>1 DEF Filled, SlotIds, QueueIds, OutIds, RecIds, Once, Distinct
<1>3. Ends(dsp.written) = {} /\ Len(dsp.posted) = 0 /\ 1 .. asked = {}
  BY <1>1 DEF Ends
<1>4. Partition(SlotIds(dsp), QueueIds(dsp), OutIds(dsp), dsp.lost, asked)
  BY <1>1, <1>2, <1>3 DEF Partition
<1> QED  BY <1>2, <1>3, <1>4, FS_EmptySet DEF Sent, Fates, Ended

\* A command with its batch, and before it perhaps a retune.
LEMMA SentM2d == InvSent /\ M2d => Reaction
<1> SUFFICES ASSUME InvSent, M2d PROVE Reaction
  OBVIOUS
<1>1. /\ Good(dsp, consumer, mcu, heard, clock) /\ dsp \in DspState /\ Fifo(dsp, clock)
      /\ clock \in Nat /\ asked \in Nat /\ Fates(dsp, asked) /\ Ended(dsp)
  BY InvGood DEF InvSent, Sent, Good
<1>2. PICK batch \in Batches(clock), retune \in BOOLEAN :
        \E d1 \in IF retune THEN DropIdleRadio(dsp) ELSE {dsp} :
          /\ asked' = asked + Len(batch)
          /\ dsp' = Post(AskAll(d1, clock, batch), consumer, clock)
          /\ heard' = heard
  BY DEF M2d
<1>3. PICK d1 \in IF retune THEN DropIdleRadio(dsp) ELSE {dsp} :
          /\ asked' = asked + Len(batch)
          /\ dsp' = Post(AskAll(d1, clock, batch), consumer, clock)
          /\ heard' = heard
  BY <1>2
<1>4. /\ d1 \in DspState /\ Fifo(d1, clock) /\ Fates(d1, asked) /\ Ended(d1) /\ Reacts(dsp, d1, 0)
  <2>1. CASE retune
    <3>1. d1 \in DropIdleRadio(dsp)
      BY <2>1
    <3>2. /\ d1 \in DspState /\ SameLink(dsp, d1) /\ Fifo(d1, clock)
          /\ Fates(d1, asked) /\ LosesOnly(dsp, d1)
      BY <1>1, <3>1, DropIdleRadioFacts, DropIdleRadioFates
    <3> QED  BY <1>1, <3>2, SameEnded
  <2>2. CASE ~retune
    <3>1. d1 = dsp
      BY <2>2
    <3>2. Len(dsp.posted) \in Nat
      BY <1>1, Fields
    <3> QED  BY <1>1, <3>1, <3>2 DEF Reacts, Extends
  <2> QED  BY <2>1, <2>2
<1>5. Sent(dsp', asked') /\ Reacts(d1, dsp', 1)
  BY <1>1, <1>3, <1>4, AskAndPostFates DEF Sent
<1>6. Reacts(dsp, dsp', 1)
  BY <1>4, <1>5 DEF Reacts, Extends
<1>7. Len(batch) \in Nat
  BY EgressAssumption DEF Batches
<1> QED  BY <1>1, <1>3, <1>5, <1>6, <1>7, OneIsAtMostTwo DEF Reaction

\* A host interrupt is a command without a retune.
LEMMA SentHostInterrupt == InvSent /\ HostInterrupt => Reaction
<1> SUFFICES ASSUME InvSent, HostInterrupt PROVE Reaction
  OBVIOUS
<1>1. /\ dsp \in DspState /\ Fifo(dsp, clock)
      /\ clock \in Nat /\ asked \in Nat /\ Fates(dsp, asked) /\ Ended(dsp)
  BY InvGood DEF InvSent, Sent, Good
<1>2. PICK batch \in Batches(clock) :
          /\ asked' = asked + Len(batch)
          /\ dsp' = Post(AskAll(dsp, clock, batch), consumer, clock)
  BY DEF HostInterrupt
<1>3. Sent(dsp', asked') /\ Reacts(dsp, dsp', 1)
  BY <1>1, <1>2, AskAndPostFates DEF Sent
<1>4. Len(batch) \in Nat /\ heard' = heard
  BY EgressAssumption DEF Batches, HostInterrupt
<1> QED  BY <1>1, <1>2, <1>3, <1>4, OneIsAtMostTwo DEF Reaction

\* A tick asks for at most one record, of the radio or the responder's; each
\* of its two pumps posts at most one.
LEMMA SentTick == BeatIsOneWord /\ InvSent /\ Tick => Reaction
<1> SUFFICES ASSUME BeatIsOneWord, InvSent, Tick PROVE Reaction
  OBVIOUS
<1> DEFINE now == clock'
<1>1. /\ dsp \in DspState /\ clock \in Nat /\ asked \in Nat /\ Fates(dsp, asked) /\ Ended(dsp)
      /\ consumer \in Index /\ mcu \in MCU /\ heard \in Seq(Word) /\ Inv
  BY InvGood DEF InvSent, Sent, Good
<1>2. now \in Nat /\ heard' = heard
  BY <1>1, EgressAssumption DEF Tick
<1> DEFINE Shape(d1, radio, reply) ==
        /\ d1 \in IF WakeDue(dsp, now) \/ radio # <<>>
                  THEN AdvanceTo(dsp, now, radio) ELSE {dsp}
        /\ Len(radio) + Len(reply) <= 1 /\ asked' = asked + Len(radio) + Len(reply)
        /\ Ordered(dsp, now)
        /\ Good(d1, consumer, mcu, heard, now) /\ Served(d1, consumer)
        /\ dsp' = IF reply = <<>> THEN Heartbeat(d1, consumer, now)
                  ELSE Post(AskAll(Heartbeat(d1, consumer, now), now, reply), consumer, now)
<1>3. PICK d1 : \E radio, reply \in Batches(now) : Shape(d1, radio, reply)
  BY <1>1, TickShape
<1>4. PICK radio \in Batches(now), reply \in Batches(now) : Shape(d1, radio, reply)
  BY <1>3
<1> DEFINE d2 == Heartbeat(d1, consumer, now)
           n == asked + Len(radio)
<1>5. /\ Len(radio) \in Nat /\ Len(reply) \in Nat /\ n \in Nat
      /\ (radio = <<>> => Len(radio) = 0) /\ (reply = <<>> => Len(reply) = 0)
      /\ (Len(reply) = 0 => reply = <<>>)
  BY <1>1 DEF Batches
<1> HIDE DEF now
<1>6. d1 \in DspState /\ Fates(d1, n) /\ Ended(d1) /\ Reacts(dsp, d1, 1)
  <2>1. CASE WakeDue(dsp, now) \/ radio # <<>>
    <3>1. d1 \in AdvanceTo(dsp, now, radio) /\ d1 \in DspState
      BY <1>4, <2>1 DEF Good
    <3> QED  BY <1>1, <1>2, <1>4, <3>1, AdvanceFates
  <2>2. CASE ~(WakeDue(dsp, now) \/ radio # <<>>)
    <3>1. d1 = dsp /\ n = asked
      BY <1>1, <1>4, <1>5, <2>2
    <3>2. Len(dsp.posted) \in Nat
      BY <1>1, Fields
    <3> QED  BY <1>1, <3>1, <3>2 DEF Reacts, Extends
  <2> QED  BY <2>1, <2>2
<1>7. Good(d2, consumer, mcu, heard, now)
  BY <1>1, <1>2, <1>4, HeartbeatFacts
<1>8. /\ d2 \in DspState /\ Fifo(d2, now)
      /\ Fates(d2, n) /\ Ended(d2) /\ d2.lost = d1.lost /\ d2.posted = d1.posted
  BY <1>2, <1>5, <1>6, <1>7, HeartbeatFates DEF Good
<1>9. Reacts(dsp, d2, 1)
  BY <1>6, <1>8 DEF Reacts
<1> HIDE DEF d2
<1>10. CASE reply = <<>>
  <2>1. dsp' = d2 /\ asked' = n
    BY <1>1, <1>4, <1>5, <1>10 DEF d2
  <2> QED  BY <1>1, <1>2, <1>5, <1>8, <1>9, <2>1, OneIsAtMostTwo DEF Reaction, Sent
<1>11. CASE reply # <<>>
  <2>1. dsp' = Post(AskAll(d2, now, reply), consumer, now)
    BY <1>4, <1>11 DEF d2
  <2>2. n = asked /\ asked' = asked + Len(reply)
    BY <1>1, <1>4, <1>5, <1>11
  <2>3. Fates(dsp', asked') /\ Ended(dsp') /\ Reacts(d2, dsp', 1)
    BY <1>1, <1>2, <1>8, <2>1, <2>2, AskAndPostFates
  <2>4. dsp' \in DspState
    BY <1>1, <1>2, <1>7, <2>1, AskAndPost DEF Good
  <2>5. Reacts(dsp, dsp', 2)
    BY <1>1, <1>8, <1>9, <2>3, <2>4, ReactsTwice
  <2> QED  BY <1>1, <1>2, <1>5, <2>2, <2>3, <2>5 DEF Reaction, Sent
<1> QED  BY <1>10, <1>11

\* The commit pumps; nothing is asked for.
LEMMA SentMcuCommit == InvSent /\ McuCommit => Reaction
<1> SUFFICES ASSUME InvSent, McuCommit PROVE Reaction
  OBVIOUS
<1>1. dsp \in DspState /\ clock \in Nat /\ asked \in Nat /\ Fates(dsp, asked) /\ Ended(dsp)
  BY InvGood DEF InvSent, Sent, Good
<1>2. dsp' = Post(dsp, consumer', clock) /\ asked' = asked /\ heard' = heard
  BY DEF McuCommit
<1>3. Fates(dsp', asked) /\ Ended(dsp') /\ Reacts(dsp, dsp', 1)
  BY <1>1, <1>2, PostFates
<1> QED  BY <1>1, <1>2, <1>3, OneIsAtMostTwo DEF Reaction, Sent

\* The acknowledge touches no record.
LEMMA SentTakeFiq0 ==
    InvSent /\ TakeFiq0 => /\ Sent(dsp', asked')
                           /\ UNCHANGED <<asked, heard, dsp.lost, dsp.posted>>
<1> SUFFICES ASSUME InvSent, TakeFiq0
             PROVE  Sent(dsp', asked') /\ UNCHANGED <<asked, heard, dsp.lost, dsp.posted>>
  OBVIOUS
<1>1. dsp \in DspState /\ Fates(dsp, asked) /\ Ended(dsp)
  BY InvGood DEF InvSent, Sent, Good
<1>2. dsp' = [dsp EXCEPT !.fiq0 = FALSE] /\ asked' = asked /\ heard' = heard
  BY DEF TakeFiq0
<1>3. /\ dsp'.delayed = dsp.delayed /\ dsp'.pending = dsp.pending /\ dsp'.posted = dsp.posted
      /\ dsp'.lost = dsp.lost /\ dsp'.written = dsp.written
  BY <1>1, <1>2 DEF DspState
<1>4. Fates(dsp', asked)
  BY <1>1, <1>3, SameFates
<1> QED  BY <1>1, <1>2, <1>3, <1>4 DEF Sent, Ended

\* What every step is: a reaction of the engine, a read, or nothing the link sees.
LEMMA StepShape ==
    BeatIsOneWord /\ InvSent /\ [Next]_vars =>
        \/ Reaction
        \/ ReadWord /\ Sent(dsp', asked')
        \/ Sent(dsp', asked') /\ UNCHANGED <<asked, heard, dsp.lost, dsp.posted>>
<1> SUFFICES ASSUME BeatIsOneWord, InvSent, [Next]_vars
             PROVE  \/ Reaction
                    \/ ReadWord /\ Sent(dsp', asked')
                    \/ Sent(dsp', asked') /\ UNCHANGED <<asked, heard, dsp.lost, dsp.posted>>
  OBVIOUS
<1>1. CASE Tick \/ M2d \/ HostInterrupt \/ McuCommit
  BY <1>1, SentTick, SentM2d, SentHostInterrupt, SentMcuCommit
<1>2. CASE TakeFiq0
  BY <1>2, SentTakeFiq0
<1>3. CASE ReadWord
  <2>1. dsp' = dsp /\ asked' = asked
    BY <1>3 DEF ReadWord
  <2> QED  BY <1>3, <2>1 DEF InvSent
<1>4. CASE DspReset \/ DrainDone \/ UNCHANGED vars
  <2>1. dsp' = dsp /\ asked' = asked /\ heard' = heard
    BY <1>4 DEF DspReset, DrainDone, vars
  <2> QED  BY <2>1 DEF InvSent
<1> QED  BY <1>1, <1>2, <1>3, <1>4 DEF Next

-----------------------------------------------------------------------------
(* The steps, seen from the link. *)

\* What the firmware has read to the end has been written, and so posted.
LEMMA HeardIsPosted ==
    ASSUME Inv, Ended(dsp)
    PROVE  IsFiniteSet(Ends(heard)) /\ HeardRecords \in Nat /\ HeardRecords <= Len(dsp.posted)
<1> DEFINE v == Window(dsp.ring, dsp.producer, mcu.at)
<1>1. /\ heard \in Seq(Word) /\ dsp.ring \in [Index -> Word] /\ dsp.producer \in Index
      /\ mcu.at \in Index /\ heard \o v = dsp.written
  BY Fields DEF Inv, TypeOK, Link1
<1>2. v \in Seq(Word)
  BY <1>1, WordWindow
<1> HIDE DEF v
<1>3. Ends(heard) \subseteq Ends(dsp.written)
  <2>1. /\ Len(heard \o v) = Len(heard) + Len(v) /\ Len(heard) \in Nat /\ Len(v) \in Nat
        /\ \A k \in 1 .. Len(heard) : (heard \o v)[k] = heard[k]
        /\ heard \o v \in Seq(Word)
    <3>1. Len(heard \o v) = Len(heard) + Len(v) /\ heard \o v \in Seq(Word)
      BY <1>1, <1>2, ConcatProperties
    <3>2. \A k \in 1 .. Len(heard) : (heard \o v)[k] = heard[k]
      BY <1>1, <1>2, ConcatProperties
    <3> QED  BY <1>1, <1>2, <3>1, <3>2
  <2>2. /\ DOMAIN heard = 1 .. Len(heard) /\ DOMAIN dsp.written = 1 .. Len(dsp.written)
        /\ 1 .. Len(heard) \subseteq 1 .. Len(dsp.written)
        /\ \A k \in 1 .. Len(heard) : dsp.written[k] = heard[k]
    BY <1>1, <2>1
  <2> QED  BY <2>2 DEF Ends
<1>4. IsFiniteSet(Ends(dsp.written)) /\ Cardinality(Ends(dsp.written)) = Len(dsp.posted)
  BY DEF Ended
<1> QED  BY <1>3, <1>4, FS_Subset, FS_CardinalityType DEF HeardRecords

\* A read of a record's last word is heard; a read of any other is not.
LEMMA HeardGrows ==
    ASSUME Inv, IsFiniteSet(Ends(heard)), ReadWord
    PROVE  HeardRecords' = HeardRecords \/ HeardRecords' = HeardRecords + 1
<1> DEFINE w == dsp.ring[mcu.at]
           x == Len(heard) + 1
<1>1. heard \in Seq(Word) /\ w \in Word /\ heard' = Append(heard, w)
  BY Fields DEF Inv, TypeOK, ReadWord
<1> HIDE DEF w
<1>2. /\ DOMAIN heard = 1 .. Len(heard) /\ Len(heard) \in Nat /\ DOMAIN heard' = 1 .. Len(heard) + 1
      /\ heard'[x] = w /\ \A k \in 1 .. Len(heard) : heard'[k] = heard[k]
  BY <1>1
<1>3. 1 .. Len(heard) + 1 = (1 .. Len(heard)) \cup {x} /\ x \notin 1 .. Len(heard)
  BY <1>2
<1>4. Ends(heard') = Ends(heard) \/ Ends(heard') = Ends(heard) \cup {x}
  <2> HIDE DEF x
  <2> QED  BY <1>2, <1>3 DEF Ends
<1>5. x \notin Ends(heard)
  BY <1>2, <1>3 DEF Ends
<1> HIDE DEF x
<1>6. Cardinality(Ends(heard) \cup {x}) = Cardinality(Ends(heard)) + 1
  BY <1>5, FS_AddElement
<1> QED  BY <1>4, <1>6 DEF HeardRecords

\* A reaction of the engine is a Send of the link.
LEMMA ReactionSends == InvSent /\ Inv' /\ Reaction => Link!Send
<1> SUFFICES ASSUME InvSent, Inv', Reaction PROVE Link!Send
  OBVIOUS
<1> DEFINE p == dsp.posted
           q == dsp'.posted
           Numbers(s) == [i \in DOMAIN s |-> s[i].id]
<1>1. /\ p \in Seq([id : Ids, wait : Int]) /\ q \in Seq([id : Ids, wait : Int])
      /\ asked \in Nat /\ asked' \in 0 .. MaxRec /\ MaxRec \in Nat
  <2>1. dsp \in DspState /\ dsp' \in DspState /\ asked \in Nat /\ asked' \in 0 .. MaxRec
    BY InvGood DEF InvSent, Inv, TypeOK, Good
  <2> QED  BY <2>1, Fields, EgressAssumption
<1>2. /\ Partition(SlotIds(dsp'), QueueIds(dsp'), RecIds(q), dsp'.lost, asked')
      /\ Distinct(q) /\ Extends(p, q, 2) /\ dsp.lost \subseteq dsp'.lost
      /\ asked <= asked' /\ heard' = heard
  BY DEF Reaction, Sent, Fates, Once, Reacts, OutIds
<1>3. /\ DOMAIN p = 1 .. Len(p) /\ DOMAIN q = 1 .. Len(q) /\ Len(p) \in Nat /\ Len(q) \in Nat
      /\ Len(q) \in Len(p) .. Len(p) + 2 /\ 1 .. Len(p) \subseteq 1 .. Len(q)
      /\ \A i \in 1 .. Len(p) : q[i] = p[i]
  <2>1. DOMAIN p = 1 .. Len(p) /\ DOMAIN q = 1 .. Len(q) /\ Len(p) \in Nat /\ Len(q) \in Nat
    BY <1>1
  <2>2. Len(q) \in Len(p) .. Len(p) + 2 /\ \A i \in 1 .. Len(p) : q[i] = p[i]
    BY <1>2 DEF Extends
  <2> HIDE DEF p, q
  <2> QED  BY <2>1, <2>2
<1>4. /\ Numbers(p) = [i \in 1 .. Len(p) |-> p[i].id] /\ Numbers(q) = [i \in 1 .. Len(q) |-> q[i].id]
      /\ Len(Numbers(p)) = Len(p) /\ Len(Numbers(q)) = Len(q)
  <2> HIDE DEF p, q
  <2> QED  BY <1>3
<1>5. asked' \in asked .. MaxRec
  BY <1>1, <1>2
<1>6. dsp'.lost \subseteq (1 .. asked') \ {Numbers(p)[i] : i \in DOMAIN Numbers(p)}
  <2> HIDE DEF p, q
  <2>1. {Numbers(p)[i] : i \in DOMAIN Numbers(p)} \subseteq RecIds(q)
    BY <1>3, <1>4 DEF RecIds
  <2> QED  BY <1>2, <2>1 DEF Partition
<1>7. Len(Numbers(q)) \in Len(Numbers(p)) .. Len(Numbers(p)) + 2
  BY <1>3, <1>4
<1>8. SubSeq(Numbers(q), 1, Len(Numbers(p))) = Numbers(p)
  <2> HIDE DEF p, q
  <2>1. \A i \in 1 .. Len(p) : Numbers(q)[i] = Numbers(p)[i]
    BY <1>3, <1>4
  <2>2. SubSeq(Numbers(q), 1, Len(p)) = [i \in 1 .. Len(p) |-> Numbers(q)[i]]
    <3> DEFINE m == Numbers(q)
    <3>1. m \in Seq({q[i].id : i \in 1 .. Len(q)}) /\ Len(m) = Len(q)
      BY <1>3, <1>4
    <3> HIDE DEF m
    <3> QED  BY <1>3, <3>1
  <2> QED  BY <1>4, <2>1, <2>2
<1>9. \A i \in DOMAIN Numbers(q) :
         /\ Numbers(q)[i] \in (1 .. asked') \ dsp'.lost
         /\ \A j \in 1 .. i - 1 : Numbers(q)[j] # Numbers(q)[i]
  <2> HIDE DEF p, q
  <2> SUFFICES ASSUME NEW i \in 1 .. Len(q)
               PROVE  /\ q[i].id \in (1 .. asked') \ dsp'.lost
                      /\ \A j \in 1 .. i - 1 : q[j].id # q[i].id
    <3>1. \A k \in 1 .. Len(q) : \A j \in 1 .. k - 1 : j \in 1 .. Len(q)
      BY <1>3
    <3> QED  BY <1>4, <3>1
  <2>1. q[i].id \in (1 .. asked') \ dsp'.lost
    BY <1>2 DEF Partition, RecIds
  <2>2. \A j \in 1 .. i - 1 : j \in 1 .. Len(q) /\ j # i
    BY <1>3
  <2> QED  BY <1>2, <2>1, <2>2 DEF Distinct
<1>10. HeardRecords' = HeardRecords
  BY <1>2 DEF HeardRecords
<1> QED  BY <1>2, <1>5, <1>6, <1>7, <1>8, <1>9, <1>10 DEF Link!Send, Link!PostedIds

-----------------------------------------------------------------------------
(* The theorems. *)

\* Inv, each record with one fate, and one posted record for each last word:
\* together they are inductive.
THEOREM InvSentAlways == BeatIsOneWord /\ Spec => []InvSent
<1>1. BeatIsOneWord /\ InvSent /\ [Next]_vars /\ Inv' => InvSent'
  BY StepShape DEF InvSent, Reaction
<1>2. Init /\ Inv => InvSent
  BY SentInit DEF InvSent
<1>3. BeatIsOneWord /\ []Inv /\ Init /\ [][Next]_vars => []InvSent
  <2> SUFFICES ASSUME BeatIsOneWord PROVE []Inv /\ Init /\ [][Next]_vars => []InvSent
    OBVIOUS
  <2>1. InvSent /\ [Next]_vars /\ Inv' => InvSent'
    BY <1>1
  <2> QED  BY <1>2, <2>1, PTL
<1> QED  BY <1>3, InvAlways, PTL DEF Spec

\* Every record asked for has exactly one of the four fates, for queues of any
\* size, any batches and any interleaving: no operation of mdi_queue.c, and no
\* full queue, forgets a record or leaves a second copy.
THEOREM OneFateAlways == BeatIsOneWord /\ Spec => []OneFate
<1>1. InvSent => OneFate
  <2> SUFFICES ASSUME InvSent, NEW id \in Ids
               PROVE  IF id <= asked
                      THEN \E fate \in 1 .. 4 :
                              /\ InDelayed(id) <=> fate = 1
                              /\ InPending(id) <=> fate = 2
                              /\ Posted(id)    <=> fate = 3
                              /\ id \in dsp.lost <=> fate = 4
                      ELSE ~(InDelayed(id) \/ InPending(id) \/ Posted(id) \/ id \in dsp.lost)
    BY DEF OneFate
  <2>1. dsp \in DspState /\ asked \in Nat
    BY InvGood DEF InvSent, Good
  <2>2. InPending(id) <=> id \in QueueIds(dsp)
    <3>1. DOMAIN dsp.pending = 1 .. Len(dsp.pending)
      BY <2>1, Fields
    <3> QED  BY <3>1 DEF InPending, QueueIds, RecIds
  <2>3. Posted(id) <=> id \in OutIds(dsp)
    <3>1. DOMAIN dsp.posted = 1 .. Len(dsp.posted)
      BY <2>1, Fields
    <3> QED  BY <3>1 DEF Posted, OutIds, RecIds
  <2>4. InDelayed(id) <=> id \in SlotIds(dsp)
    <3>1. id # 0 /\ None.id = 0
      BY DEF Ids, None
    <3>2. \A i \in Delayed : dsp.delayed[i].id = id => dsp.delayed[i] # None
      BY <3>1
    <3> QED  BY <3>2 DEF InDelayed, SlotIds, Filled
  <2>5. id <= asked <=> id \in 1 .. asked
    BY <2>1 DEF Ids
  <2> DEFINE A == SlotIds(dsp)
             B == QueueIds(dsp)
             C == OutIds(dsp)
             D == dsp.lost
  <2>6. Partition(A, B, C, D, asked)
    BY DEF InvSent, Sent, Fates
  <2> HIDE DEF A, B, C, D
  <2>7. CASE id <= asked
    <3>1. \/ id \in A /\ id \notin B /\ id \notin C /\ id \notin D
          \/ id \notin A /\ id \in B /\ id \notin C /\ id \notin D
          \/ id \notin A /\ id \notin B /\ id \in C /\ id \notin D
          \/ id \notin A /\ id \notin B /\ id \notin C /\ id \in D
      BY <2>5, <2>6, <2>7 DEF Partition
    <3>2. \E fate \in 1 .. 4 :
             /\ id \in A <=> fate = 1
             /\ id \in B <=> fate = 2
             /\ id \in C <=> fate = 3
             /\ id \in D <=> fate = 4
      <4>1. /\ 1 \in 1 .. 4 /\ 2 \in 1 .. 4 /\ 3 \in 1 .. 4 /\ 4 \in 1 .. 4
        OBVIOUS
      <4> QED  BY <3>1, <4>1
    <3> QED  BY <2>2, <2>3, <2>4, <2>7, <3>2 DEF A, B, C, D
  <2>8. CASE ~(id <= asked)
    <3>1. id \notin A /\ id \notin B /\ id \notin C /\ id \notin D
      BY <2>5, <2>6, <2>8 DEF Partition
    <3> QED  BY <2>2, <2>3, <2>4, <2>8, <3>1 DEF A, B, C, D
  <2> QED  BY <2>7, <2>8
<1> QED  BY <1>1, InvSentAlways, PTL

\* The egress takes only steps of the lossy link: what the queues do with
\* clocks, slots, expiry and retunes, and the ring with its cursors, is to the
\* firmware a link that loses some records and delivers the others once and in
\* the order they were posted.
THEOREM IsLossyLink == BeatIsOneWord /\ Spec => Link!Init /\ [][Link!Next]_Link!vars
<1>1. Init => Link!Init
  <2> SUFFICES ASSUME Init PROVE Link!Init
    OBVIOUS
  <2>1. dsp.posted = <<>> /\ dsp.lost = {} /\ asked = 0 /\ heard = <<>>
    BY DEF Init
  <2>2. Ends(heard) = {}
    BY <2>1 DEF Ends
  <2>3. HeardRecords = 0
    BY <2>2, FS_EmptySet DEF HeardRecords
  <2>4. [i \in DOMAIN dsp.posted |-> dsp.posted[i].id] = <<>>
    BY <2>1
  <2> QED  BY <2>1, <2>3, <2>4 DEF Link!Init
<1>2. BeatIsOneWord /\ InvSent /\ InvSent' /\ [Next]_vars => [Link!Next]_Link!vars
  <2> SUFFICES ASSUME BeatIsOneWord, InvSent, InvSent', [Next]_vars PROVE [Link!Next]_Link!vars
    OBVIOUS
  <2>1. CASE Reaction
    BY <2>1, ReactionSends DEF InvSent, Link!Next
  <2>2. CASE UNCHANGED <<asked, heard, dsp.lost, dsp.posted>>
    BY <2>2 DEF Link!vars, HeardRecords
  <2>3. CASE ReadWord
    <3>1. dsp' = dsp /\ asked' = asked
      BY <2>3 DEF ReadWord
    <3>2. HeardRecords' = HeardRecords \/ HeardRecords' = HeardRecords + 1
      BY <2>3, HeardIsPosted, HeardGrows DEF InvSent, Sent
    <3>3. HeardRecords \in Nat /\ HeardRecords' <= Len(dsp.posted)
      <4>1. HeardRecords \in Nat
        BY HeardIsPosted DEF InvSent, Sent
      <4>2. (IsFiniteSet(Ends(heard)) /\ HeardRecords \in Nat /\ HeardRecords <= Len(dsp.posted))'
        BY HeardIsPosted, PTL DEF InvSent, Sent
      <4> QED  BY <3>1, <4>1, <4>2
    <3>4. Len([i \in DOMAIN dsp.posted |-> dsp.posted[i].id]) = Len(dsp.posted)
      <4> DEFINE p == dsp.posted
      <4>1. dsp \in DspState
        BY InvGood DEF InvSent, Good
      <4>2. p \in Seq([id : Ids, wait : Int])
        BY <4>1, Fields
      <4>3. DOMAIN p = 1 .. Len(p) /\ Len(p) \in Nat
        BY <4>2
      <4> HIDE DEF p
      <4>4. Len([i \in DOMAIN p |-> p[i].id]) = Len(p)
        BY <4>3
      <4> QED  BY <4>4 DEF p
    <3>5. CASE HeardRecords' = HeardRecords
      BY <3>1, <3>5 DEF Link!vars
    <3>6. CASE HeardRecords' = HeardRecords + 1
      <4>1. HeardRecords < Len(dsp.posted)
        <5>1. dsp \in DspState
          BY InvGood DEF InvSent, Good
        <5>2. Len(dsp.posted) \in Nat
          BY <5>1, Fields
        <5> QED  BY <3>3, <3>6, <5>2
      <4> QED  BY <3>1, <3>4, <3>6, <4>1 DEF Link!Next, Link!Hear
    <3> QED  BY <3>2, <3>5, <3>6
  <2> QED  BY <2>1, <2>2, <2>3, StepShape
<1>3. BeatIsOneWord /\ []InvSent /\ [][Next]_vars => [][Link!Next]_Link!vars
  <2> SUFFICES ASSUME BeatIsOneWord PROVE []InvSent /\ [][Next]_vars => [][Link!Next]_Link!vars
    OBVIOUS
  <2>1. InvSent /\ InvSent' /\ [Next]_vars => [Link!Next]_Link!vars
    BY <1>2
  <2> QED  BY <2>1, PTL
<1> QED  BY <1>1, <1>3, InvSentAlways, PTL DEF Spec

=============================================================================
