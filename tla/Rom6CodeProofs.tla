--------------------------- MODULE Rom6CodeProofs ---------------------------
(***************************************************************************)
(* The pure algorithms of the 3410 engine.  The frame arithmetic of        *)
(* Rom6Frames is right for every frame and every cycle, but for the first  *)
(* frames of a hyperframe; the codes of Rom6Text are, for every number and *)
(* text of the lengths they are used for, and so are the lengths of the    *)
(* messages made of them.                                                  *)
(***************************************************************************)
EXTENDS Rom6Frames, Rom6Text, TLAPS

-----------------------------------------------------------------------------
(* Frames. *)

\* A frame is its multiframe and its place in it.
LEMMA Split ==
  ASSUME NEW fn \in Int
  PROVE  /\ Multiframe(fn) \in Int /\ T3(fn) \in 0 .. 50
         /\ fn = 51 * Multiframe(fn) + T3(fn)
  BY SMT DEF Multiframe, T3

LEMMA Join ==
  ASSUME NEW m \in Int, NEW t \in 0 .. 50
  PROVE  Multiframe(51 * m + t) = m /\ T3(51 * m + t) = t
  BY SMT DEF Multiframe, T3

\* Inside the hyperframe nothing is reduced.
LEMMA Unwrapped ==
  ASSUME NEW fn \in Int, 0 <= fn, fn < Hyperframe
  PROVE  Unsigned(fn) = fn
  BY SMT DEF Unsigned, Hyperframe

LEMMA HyperframeType == Hyperframe \in Int
  BY SMT DEF Hyperframe

\* 2^32 is WrapRest modulo the hyperframe.
LEMMA WrapRestIs == WrapRest = 4294967296 % Hyperframe
  BY SMT DEF WrapRest, Hyperframe

\* The frames that carry synchronisation.
IsSch(fn) == T3(fn) \in SchSlots

\* Between two places of a multiframe frames are where one expects them.
LEMMA Between ==
  ASSUME NEW m \in Int, NEW a \in 0 .. 50, NEW b \in 0 .. 50,
         NEW g \in (51 * m + a) .. (51 * m + b)
  PROVE  T3(g) \in a .. b /\ Multiframe(g) = m
<1> DEFINE t == g - 51 * m
<1>1. t \in a .. b /\ t \in 0 .. 50 /\ g = 51 * m + t
  BY SMT
<1> HIDE DEF t
<1> QED
  BY <1>1, Join

\* Synchronisation is stamped with the most recent frame that carried it
\* (rom6_last_sch_fn), for every frame but the hyperframe's first.
THEOREM SchMostRecent ==
  ASSUME NEW fn \in Int, 0 < fn, fn < Hyperframe
  PROVE  /\ LastSchFn(fn) \in 0 .. fn
         /\ IsSch(LastSchFn(fn))
         /\ \A g \in LastSchFn(fn) + 1 .. fn : ~IsSch(g)
<1> DEFINE t == T3(fn)
           m == Multiframe(fn)
           past == {s \in SchSlots : s <= t}
           best == CHOOSE s \in past : \A u \in past : u <= s
<1>1. m \in Int /\ t \in 0 .. 50 /\ fn = 51 * m + t
  BY Split
<1>2. LastSchFn(fn) = IF past = {} THEN Unsigned(fn - t - 51 + 41) ELSE Unsigned(fn - t + best)
  BY DEF LastSchFn
<1>0. 51 * m >= 0
  BY Split, SMT DEF Multiframe
<1> HIDE DEF t, m, best
<1>3. CASE t = 0
  <2>1. past = {}
    BY <1>3, SMT DEF SchSlots
  <2>2. m >= 1
    BY <1>1, <1>3, SMT
  <2>3. LastSchFn(fn) = Unsigned(fn - 10)
    BY <2>1, <1>2, <1>1, <1>3, SMT
  <2>4. fn - 10 = 51 * (m - 1) + 41 /\ 0 <= fn - 10 /\ fn - 10 < Hyperframe
        /\ m - 1 \in Int /\ 41 \in 0 .. 50
    BY <2>2, <1>1, <1>3, HyperframeType, SMT
  <2>5. LastSchFn(fn) = fn - 10
    BY <2>3, <2>4, <1>1, Unwrapped
  <2>6. T3(LastSchFn(fn)) = 41
    BY <2>5, <2>4, Join, ZenonT(40)
  <2>7. ASSUME NEW g \in LastSchFn(fn) + 1 .. fn
        PROVE  ~IsSch(g)
    <3>1. CASE g = fn
      BY <3>1, <1>3, SMT DEF IsSch, SchSlots, t
    <3>2. CASE g # fn
      <4>1. g \in 51 * (m - 1) + 42 .. 51 * (m - 1) + 50 /\ 42 \in 0 .. 50 /\ 50 \in 0 .. 50
        BY <3>2, <2>4, <2>5, <1>1, <1>3, SMT
      <4>2. T3(g) \in 42 .. 50
        BY <4>1, <2>4, Between, ZenonT(40)
      <4> QED
        BY <4>2, SMT DEF IsSch, SchSlots
    <3> QED
      BY <3>1, <3>2
  <2>8. LastSchFn(fn) \in 0 .. fn
    BY <2>4, <2>5, <1>1, SMT
  <2> QED
    BY <2>6, <2>7, <2>8, SMT DEF IsSch, SchSlots
<1>4. CASE t # 0
  <2>1. \E s \in past : \A u \in past : u <= s
    <3>1. CASE t >= 41
      BY <3>1, <1>1, SMT DEF SchSlots
    <3>2. CASE t < 41 /\ t >= 31
      BY <3>2, <1>1, SMT DEF SchSlots
    <3>3. CASE t < 31 /\ t >= 21
      BY <3>3, <1>1, SMT DEF SchSlots
    <3>4. CASE t < 21 /\ t >= 11
      BY <3>4, <1>1, SMT DEF SchSlots
    <3>5. CASE t < 11
      BY <3>5, <1>1, <1>4, SMT DEF SchSlots
    <3> QED
      BY <3>1, <3>2, <3>3, <3>4, <3>5, <1>1, SMT
  <2>2. best \in past /\ \A u \in past : u <= best
    BY <2>1 DEF best
  <2>3. past # {} /\ LastSchFn(fn) = Unsigned(fn - t + best)
    BY <2>2, <1>2
  <2>4. best \in SchSlots /\ best <= t /\ \A u \in SchSlots : u <= t => u <= best
    BY <2>2
  <2>5. best \in 0 .. 50 /\ best >= 1
    BY <2>4, SMT DEF SchSlots
  <2> HIDE DEF past
  <2>6. fn - t + best = 51 * m + best /\ 0 <= fn - t + best /\ fn - t + best < Hyperframe
        /\ fn - t + best \in 0 .. fn
    BY <2>4, <2>5, <1>1, <1>0, HyperframeType, SMT
  <2>7. LastSchFn(fn) = 51 * m + best
    BY <2>3, <2>6, Unwrapped
  <2>8. T3(LastSchFn(fn)) = best
    BY <2>7, <2>5, <1>1, Join
  <2>9. ASSUME NEW g \in LastSchFn(fn) + 1 .. fn
        PROVE  ~IsSch(g)
    <3>1. g \in 51 * m + best .. 51 * m + t /\ g # 51 * m + best /\ g \in Int
      BY <2>7, <2>5, <1>1, SMT
    <3>2. T3(g) \in best .. t /\ Multiframe(g) = m
      BY <3>1, <2>5, <1>1, Between
    <3>3. T3(g) # best
      BY <3>1, <3>2, Split
    <3>4. T3(g) \in Int /\ T3(g) > best /\ T3(g) <= t
      BY <3>2, <3>3, <2>5, <1>1, SMT
    <3> QED
      BY <3>4, <2>4, <2>5, SMT DEF IsSch, SchSlots
  <2> QED
    BY <2>4, <2>6, <2>7, <2>8, <2>9 DEF IsSch
<1> QED
  BY <1>3, <1>4

\* In the first frame of a hyperframe the code's subtraction goes below zero, and
\* what it stamps is no frame of synchronisation.
THEOREM SchWrapsWrong == ~IsSch(LastSchFn(0))
<1>1. T3(0) = 0
  BY SMT DEF T3
<1>2. {s \in SchSlots : s <= T3(0)} = {}
  BY <1>1, SMT DEF SchSlots
<1>3. LastSchFn(0) = Unsigned(0 - T3(0) - 51 + 41)
  BY <1>2 DEF LastSchFn
<1>4. LastSchFn(0) = Unsigned(0 - 10)
  BY <1>1, <1>3, SMT
<1>5. LastSchFn(0) = 1527798
  BY <1>4, SMT DEF Unsigned, WrapRest, Hyperframe
<1> QED
  BY <1>5, SMT DEF IsSch, T3, SchSlots

-----------------------------------------------------------------------------
\* The frames that carry the broadcast block of turn tc.
IsBcch(fn, tc) == T3(fn) = 2 /\ Multiframe(fn) % 8 = tc

\* Eight turns back is the same turn, and only that.
LEMMA SameTurn ==
  ASSUME NEW m \in Int, NEW tc \in 0 .. 7
  PROVE  /\ (m - tc) % 8 \in 0 .. 7
         /\ (m - ((m - tc) % 8)) % 8 = tc
         /\ (m - ((m - tc) % 8) - 8) % 8 = tc
         /\ \A k \in Int : k % 8 = tc /\ k <= m => k <= m - ((m - tc) % 8)
<1>1. PICK q \in Int : m - tc = 8 * q + ((m - tc) % 8) /\ (m - tc) % 8 \in 0 .. 7
  <2>1. (m - tc) \div 8 \in Int /\ m - tc = 8 * ((m - tc) \div 8) + ((m - tc) % 8) /\ (m - tc) % 8 \in 0 .. 7
    BY SMT
  <2> QED
    BY <2>1
<1> DEFINE b == (m - tc) % 8
<1>2. b \in 0 .. 7 /\ m - b = 8 * q + tc
  BY <1>1, SMT
<1> HIDE DEF b
<1>3. (m - b) % 8 = tc /\ (m - b - 8) % 8 = tc
  BY <1>2, SMT
<1>4. ASSUME NEW k \in Int, k % 8 = tc, k <= m
      PROVE  k <= m - b
  BY <1>2, <1>4, SMT
<1> QED
  BY <1>1, <1>2, <1>3, <1>4 DEF b

\* A broadcast block is stamped with the most recent frame of its turn
\* (rom6_last_bcch_fn), from the ninth multiframe of a hyperframe on.
THEOREM BcchMostRecent ==
  ASSUME NEW fn \in Int, 8 * 51 <= fn, fn < Hyperframe, NEW tc \in 0 .. 7
  PROVE  /\ LastBcchFn(fn, tc) \in 0 .. fn
         /\ IsBcch(LastBcchFn(fn, tc), tc)
         /\ \A g \in LastBcchFn(fn, tc) + 1 .. fn : ~IsBcch(g, tc)
<1> DEFINE t == T3(fn)
           m == Multiframe(fn)
           b == (m - tc) % 8
           this == 51 * (m - b) + 2
<1>1. m \in Int /\ t \in 0 .. 50 /\ fn = 51 * m + t
  BY Split
<1>2. /\ b \in 0 .. 7 /\ (m - b) % 8 = tc /\ (m - b - 8) % 8 = tc
      /\ \A k \in Int : k % 8 = tc /\ k <= m => k <= m - b
  BY <1>1, SameTurn
<1>3. LastBcchFn(fn, tc) = IF m < b \/ this > fn THEN Unsigned(this - 8 * 51) ELSE Unsigned(this)
  BY DEF LastBcchFn
<1> HIDE DEF t, m, b
<1>4. m >= 8 /\ ~(m < b)
  BY <1>1, <1>2, SMT
<1>5. CASE this <= fn
  <2>1. this \in 0 .. fn /\ this < Hyperframe /\ this \in Int
    BY <1>1, <1>2, <1>4, <1>5, HyperframeType, SMT
  <2>2. LastBcchFn(fn, tc) = this
    BY <2>1, <1>3, <1>4, <1>5, <1>1, Unwrapped, SMT
  <2>3. m - b \in Int /\ 2 \in 0 .. 50
    BY <1>1, <1>2, SMT
  <2>4. IsBcch(this, tc)
    BY <2>3, <1>2, Join DEF IsBcch
  <2>5. ASSUME NEW g \in this + 1 .. fn, IsBcch(g, tc)
        PROVE  FALSE
    <3>1. g \in Int /\ Multiframe(g) \in Int /\ g = 51 * Multiframe(g) + 2 /\ Multiframe(g) % 8 = tc
      BY <2>5, <2>1, <1>1, Split, SMT DEF IsBcch
    <3>2. Multiframe(g) <= m
      BY <3>1, <1>1, SMT
    <3>3. Multiframe(g) <= m - b
      BY <3>1, <3>2, <1>2
    <3> QED
      BY <3>1, <3>3, <1>1, <1>2, SMT
  <2> QED
    BY <2>1, <2>2, <2>4, <2>5
<1>6. CASE this > fn
  <2>1. b = 0 /\ t < 2
    BY <1>1, <1>2, <1>6, SMT
  <2>2. this - 8 * 51 = 51 * (m - b - 8) + 2 /\ m - b - 8 \in Int /\ 2 \in 0 .. 50
    BY <1>1, <1>2, SMT
  <2>3. this - 8 * 51 \in 0 .. fn /\ this - 8 * 51 < Hyperframe /\ this - 8 * 51 \in Int
    BY <2>1, <1>1, <1>4, HyperframeType, SMT
  <2> DEFINE last == this - 8 * 51
  <2> HIDE DEF this
  <2>4. LastBcchFn(fn, tc) = last
    BY <2>3, <1>3, <1>6, Unwrapped, SMT
  <2> DEFINE k == m - b - 8
  <2>7. k \in Int /\ last = 51 * k + 2 /\ k % 8 = tc /\ 2 \in 0 .. 50
    BY <2>2, <1>2
  <2> HIDE DEF last, k
  <2>5. IsBcch(last, tc)
    BY <2>7, Join DEF IsBcch
  <2> USE DEF last
  <2>6. ASSUME NEW g \in last + 1 .. fn, IsBcch(g, tc)
        PROVE  FALSE
    <3>1. g \in Int /\ Multiframe(g) \in Int /\ g = 51 * Multiframe(g) + 2 /\ Multiframe(g) % 8 = tc
      BY <2>6, <2>3, <1>1, Split, SMT DEF IsBcch
    <3>2. Multiframe(g) <= m - 1
      BY <3>1, <2>1, <1>1, SMT
    <3>3. Multiframe(g) > m - 8
      BY <3>1, <2>1, <2>2, <1>1, SMT
    <3>4. m % 8 = tc
      BY <2>1, <1>2, <1>1, SMT
    <3> QED
      BY <3>1, <3>2, <3>3, <3>4, <1>1, SMT
  <2> QED
    BY <2>3, <2>4, <2>5, <2>6
<1> QED
  BY <1>5, <1>6, <1>1, <1>2, SMT

-----------------------------------------------------------------------------
\* The firmware decodes the synchronisation information of a frame to that frame,
\* for each frame that carries it (rom6_b_sch_info).
THEOREM SchRoundTrip ==
  ASSUME NEW fn \in Int, 0 <= fn, fn < Hyperframe, IsSch(fn), NEW bsic \in 0 .. 63
  PROVE  SchDecoded(SchInfo(bsic, fn)) = fn
<1> DEFINE t == T3(fn)
           m == Multiframe(fn)
           t1 == (fn \div 1326) % 2048
           t2 == fn % 26
           t3p == (t - 1) \div 10
           O1 == (bsic * 4 + t1 \div 512) % 256
           O2 == (t1 \div 2) % 256
           O3 == (t1 % 2) * 128 + t2 * 4 + t3p \div 2
           O4 == (t3p % 2) * 128
<1>1. SchInfo(bsic, fn) = <<O1, O2, O3, O4>>
  BY DEF SchInfo
<1>2. /\ t \in {1, 11, 21, 31, 41} /\ m \in Int /\ fn = 51 * m + t
  BY Split DEF IsSch, SchSlots
<1>3. fn \div 1326 \in 0 .. 2047
  BY SMT DEF Hyperframe
<1>4. t1 = fn \div 1326 /\ t1 \in 0 .. 2047 /\ t2 \in 0 .. 25
  BY <1>3, SMT
<1>5. t3p \in 0 .. 4 /\ t = 10 * t3p + 1
  BY <1>2, SMT
<1> HIDE DEF t, m, t1, t2, t3p
<1>6. O1 % 4 = t1 \div 512
  BY <1>4, SMT
<1>7. O2 = (t1 \div 2) % 256
  OBVIOUS
<1>8. O3 \div 128 = t1 % 2 /\ (O3 \div 4) % 32 = t2 /\ O3 % 4 = t3p \div 2
  <2>1. t1 % 2 \in 0 .. 1 /\ t3p \div 2 \in 0 .. 2
    BY <1>4, <1>5, SMT
  <2> DEFINE u == t1 % 2
             v == t3p \div 2
  <2> HIDE DEF u, v
  <2>2. O3 = u * 128 + t2 * 4 + v
    BY DEF u, v
  <2>3. u \in 0 .. 1 /\ v \in 0 .. 2 /\ t2 \in 0 .. 25
    BY <2>1, <1>4 DEF u, v
  <2> HIDE DEF O3
  <2>4. O3 \div 128 = u
    BY <2>2, <2>3, SMT
  <2>5. O3 % 4 = v
    BY <2>2, <2>3, SMT
  <2>6. (O3 \div 4) % 32 = t2
    <3>1. O3 = 4 * (32 * u + t2) + v
      BY <2>2, <2>3, SMT
    <3>2. O3 \div 4 = 32 * u + t2
      BY <3>1, <2>3, SMT
    <3> QED
      BY <3>2, <2>3, SMT
  <2> QED
    BY <2>4, <2>5, <2>6 DEF u, v
<1>9. O4 \div 128 = t3p % 2
  BY <1>5, SMT
<1>10. (O1 % 4) * 512 + O2 * 2 + O3 \div 128 = t1
  BY <1>4, <1>6, <1>7, <1>8, SMT
<1>11. 10 * ((O3 % 4) * 2 + O4 \div 128) + 1 = t
  BY <1>5, <1>8, <1>9, SMT
<1>12. (t - t2) % 26 = m % 26
  BY <1>2, SMT DEF t2
<1>13. fn = 1326 * t1 + 51 * (m % 26) + t
  BY <1>2, <1>4, SMT
<1> HIDE DEF O1, O2, O3, O4
<1>14. SchDecoded(<<O1, O2, O3, O4>>) = 1326 * t1 + 51 * ((t - t2) % 26) + t
  BY <1>8, <1>10, <1>11 DEF SchDecoded
<1> QED
  BY <1>1, <1>12, <1>13, <1>14

\* An assignment quotes the request that the firmware recorded of its burst: the
\* reduction of one of the two numbers does not show (rom6_b_imm_assign,
\* rom6_b_ra_info).
THEOREM RequestQuoted ==
  ASSUME NEW fn \in Nat
  PROVE  Quoted(ImmAssign(fn)) = Recorded(fn)
<1> DEFINE r == fn % 42432
           t1 == (r \div 1326) % 32
           t3 == T3(r)
           t2 == r % 26
<1>1. t1 = (fn \div 1326) % 32 /\ t3 = fn % 51 /\ t2 = fn % 26
  BY SMT DEF T3
<1>2. t1 \in 0 .. 31 /\ t3 \in 0 .. 50 /\ t2 \in 0 .. 25
  BY SMT DEF T3
<1>3. ImmAssign(fn) = <<t1 * 8 + t3 \div 8, (t3 % 8) * 32 + t2>>
  BY DEF ImmAssign
<1> HIDE DEF t1, t2, t3
<1> DEFINE L1 == t1 * 8 + t3 \div 8
           L2 == (t3 % 8) * 32 + t2
<1>4. L1 \div 8 = t1 /\ (L1 % 8) * 8 + L2 \div 32 = t3 /\ L2 % 32 = t2
  BY <1>2, SMT
<1> HIDE DEF L1, L2
<1>5. Quoted(<<L1, L2>>) = <<t1, t3, t2>>
  BY <1>4 DEF Quoted
<1> QED
  BY <1>1, <1>3, <1>5 DEF Recorded, L1, L2

-----------------------------------------------------------------------------
LEMMA OffsetsAre == CcchOffsets = {6, 12, 16, 22, 26, 32, 36, 42, 46}
<1>1. /\ Offsets[1] = 6 /\ Offsets[2] = 12 /\ Offsets[3] = 16 /\ Offsets[4] = 22
      /\ Offsets[5] = 26 /\ Offsets[6] = 32 /\ Offsets[7] = 36 /\ Offsets[8] = 42 /\ Offsets[9] = 46
  BY DEF Offsets
<1>2. 1 .. 9 = {1, 2, 3, 4, 5, 6, 7, 8, 9}
  BY SMT
<1>3. CcchOffsets = {Offsets[i] : i \in {1, 2, 3, 4, 5, 6, 7, 8, 9}}
  BY <1>2 DEF CcchOffsets
<1> HIDE DEF Offsets
<1> QED
  BY <1>1, <1>3, SMT

\* Reducing a frame to the hyperframe keeps its place in the multiframe and the
\* parity of the multiframe.
LEMMA Reduced ==
  ASSUME NEW fn \in Nat
  PROVE  /\ fn % Hyperframe \in 0 .. Hyperframe - 1
         /\ T3(fn % Hyperframe) = T3(fn)
         /\ Multiframe(fn % Hyperframe) % 2 = Multiframe(fn) % 2
<1> DEFINE r == fn % Hyperframe
           q == fn \div Hyperframe
<1>1. /\ 0 <= r /\ r < Hyperframe /\ r \in Int /\ q \in Int
      /\ fn = Hyperframe * q + r /\ Hyperframe * q = 51 * (53248 * q)
  <2>1. q \in Int /\ r \in Int
    BY SMT DEF Hyperframe
  <2>2. 0 <= r /\ r < Hyperframe
    BY SMT DEF Hyperframe
  <2>3. fn = Hyperframe * q + r
    BY SMT DEF Hyperframe
  <2> HIDE DEF q
  <2>4. Hyperframe * q = 51 * (53248 * q)
    BY <2>1, SMT DEF Hyperframe
  <2> QED
    BY <2>1, <2>2, <2>3, <2>4
<1> HIDE DEF r, q
<1> DEFINE t == T3(r)
           m == Multiframe(r)
<1>2. m \in Int /\ t \in 0 .. 50 /\ r = 51 * m + t
  BY <1>1, Split
<1> HIDE DEF t, m
<1> DEFINE k == 53248 * q + m
<1>3. k \in Int /\ fn = 51 * k + t /\ k % 2 = m % 2
  BY <1>1, <1>2, SMT
<1> HIDE DEF k
<1>4. T3(fn) = t /\ Multiframe(fn) = k
  BY <1>2, <1>3, Join
<1> QED
  BY <1>1, <1>3, <1>4, HyperframeType, SMT DEF r, t, m

\* The block that carries an assignment is stamped with the first block of the common
\* control channel at or after its delivery (rom6_enq_imm_assign_at).
THEOREM CcchIsNext ==
  ASSUME NEW afn \in Int, 0 <= afn, afn < Hyperframe
  PROVE  \E d \in 0 .. 10 :
            /\ NextCcch(afn) = (afn + d) % Hyperframe
            /\ T3(NextCcch(afn)) \in CcchOffsets
            /\ \A e \in 0 .. d - 1 : T3(afn + e) \notin CcchOffsets
<1> DEFINE t == T3(afn)
           m == Multiframe(afn)
           left == {o \in CcchOffsets : o >= t}
           first == CHOOSE o \in left : \A p \in left : o <= p
           at == IF left = {} THEN 51 + 6 ELSE first
           d == at - t
<1>1. m \in Int /\ t \in 0 .. 50 /\ afn = 51 * m + t
  BY Split
<1>2. NextCcch(afn) = (afn - t + at) % Hyperframe
  BY DEF NextCcch
<1> HIDE DEF t, m
<1>3. CASE t > 46
  <2>1. left = {}
    BY <1>1, <1>3, OffsetsAre, SMT
  <2>2. at = 57
    BY <2>1, SMT
  <2> HIDE DEF at
  <2>3. d \in 0 .. 10 /\ afn + d = 51 * (m + 1) + 6 /\ afn + d \in Nat /\ afn - t + at = afn + d
        /\ m + 1 \in Int /\ 6 \in 0 .. 50
    BY <2>2, <1>1, <1>3, SMT
  <2> HIDE DEF d
  <2>4. T3(afn + d) = 6
    BY <2>3, Join, ZenonT(40)
  <2>5. T3(NextCcch(afn)) = 6 /\ NextCcch(afn) = (afn + d) % Hyperframe
    BY <1>2, <2>3, <2>4, Reduced
  <2>6. ASSUME NEW e \in 0 .. d - 1
        PROVE  T3(afn + e) \notin CcchOffsets
    <3>1. CASE t + e <= 50
      <4> DEFINE u == t + e
      <4>1. u \in 0 .. 50 /\ u > 46 /\ afn + e = 51 * m + u
        BY <3>1, <1>1, <1>3, <2>3, SMT
      <4> HIDE DEF u, d
      <4>2. T3(51 * m + u) = u
        BY <4>1, <1>1, Join
      <4>3. T3(afn + e) = u
        BY <4>1, <4>2
      <4> QED
        BY <4>1, <4>3, OffsetsAre, SMT
    <3>2. CASE t + e > 50
      <4>1. afn + e \in 51 * (m + 1) + 0 .. 51 * (m + 1) + 5 /\ 0 \in 0 .. 50 /\ 5 \in 0 .. 50
        BY <3>2, <1>1, <2>3, SMT
      <4>2. T3(afn + e) \in 0 .. 5
        BY <4>1, <2>3, Between
      <4> QED
        BY <4>2, OffsetsAre, SMT
    <3> QED
      BY <3>1, <3>2, <1>1, <2>3, SMT
  <2>7. T3(NextCcch(afn)) \in CcchOffsets
    BY <2>5, OffsetsAre
  <2> QED
    BY <2>3, <2>5, <2>6, <2>7
<1>4. CASE t <= 46
  <2>1. PICK o \in CcchOffsets : o >= t /\ o <= t + 6 /\ \A p \in CcchOffsets : p >= t => o <= p
    <3>1. CASE t <= 6
      BY <3>1, <1>1, OffsetsAre, SMT
    <3>2. CASE t > 6 /\ t <= 12
      BY <3>2, <1>1, OffsetsAre, SMT
    <3>3. CASE t > 12 /\ t <= 16
      BY <3>3, <1>1, OffsetsAre, SMT
    <3>4. CASE t > 16 /\ t <= 22
      BY <3>4, <1>1, OffsetsAre, SMT
    <3>5. CASE t > 22 /\ t <= 26
      BY <3>5, <1>1, OffsetsAre, SMT
    <3>6. CASE t > 26 /\ t <= 32
      BY <3>6, <1>1, OffsetsAre, SMT
    <3>7. CASE t > 32 /\ t <= 36
      BY <3>7, <1>1, OffsetsAre, SMT
    <3>8. CASE t > 36 /\ t <= 42
      BY <3>8, <1>1, OffsetsAre, SMT
    <3>9. CASE t > 42
      BY <3>9, <1>1, <1>4, OffsetsAre, SMT
    <3> QED
      BY <3>1, <3>2, <3>3, <3>4, <3>5, <3>6, <3>7, <3>8, <3>9, <1>1, SMT
  <2>2. o \in left /\ \A p \in left : o <= p
    BY <2>1
  <2>3. first \in left /\ \A p \in left : first <= p
    BY <2>2
  <2>4. at = first
    BY <2>2
  <2>5. first \in CcchOffsets /\ first <= o /\ first >= t /\ \A p \in CcchOffsets : p >= t => first <= p
    BY <2>2, <2>3
  <2> HIDE DEF left, first, at
  <2>6. first \in 0 .. 46
    BY <2>5, OffsetsAre, SMT
  <2>7. o \in 0 .. 46
    BY <2>1, OffsetsAre, SMT
  <2>8. d \in 0 .. 10 /\ afn + d = 51 * m + first /\ afn + d \in Nat /\ afn - t + at = afn + d
        /\ first \in 0 .. 50
    BY <2>1, <2>4, <2>5, <2>6, <2>7, <1>1, <1>4, SMT
  <2>9. d = first - t
    BY <2>4
  <2> HIDE DEF d
  <2>10. T3(afn + d) = first
    BY <2>8, <1>1, Join, ZenonT(40)
  <2>11. T3(NextCcch(afn)) = first /\ NextCcch(afn) = (afn + d) % Hyperframe
    BY <1>2, <2>8, <2>10, Reduced
  <2>12. ASSUME NEW e \in 0 .. d - 1
         PROVE  T3(afn + e) \notin CcchOffsets
    <3>1. t + e \in 0 .. 50 /\ afn + e = 51 * m + (t + e) /\ t + e >= t /\ t + e < first
      BY <2>8, <2>9, <2>6, <1>1, SMT
    <3> DEFINE u == t + e
    <3>4. u \in 0 .. 50 /\ afn + e = 51 * m + u /\ m \in Int
      BY <3>1, <1>1
    <3> HIDE DEF u
    <3>2. T3(afn + e) = u
      BY <3>4, Join
    <3>3. u \in CcchOffsets => first <= u
      BY <3>1, <2>5 DEF u
    <3> QED
      BY <3>1, <3>2, <3>3, <2>6, SMT DEF u
  <2> QED
    BY <2>5, <2>8, <2>11, <2>12
<1> QED
  BY <1>1, <1>3, <1>4, SMT

-----------------------------------------------------------------------------
\* The phone of paging group (phase, offset) listens at this cycle.
InGroup(c, phase, offset) ==
    /\ c % Cpf = 0
    /\ T3(c \div Cpf) = offset
    /\ Multiframe(c \div Cpf) % 2 = phase

\* Such a cycle begins a frame of its multiframe and offset.
LEMMA GroupCycle ==
  ASSUME NEW c \in Nat, NEW phase \in 0 .. 1, NEW offset \in 0 .. 50
  PROVE  InGroup(c, phase, offset) <=>
            \E k \in Nat : k % 2 = phase /\ c = (51 * k + offset) * Cpf
<1>1. ASSUME InGroup(c, phase, offset)
      PROVE  \E k \in Nat : k % 2 = phase /\ c = (51 * k + offset) * Cpf
  <2> DEFINE f == c \div Cpf
             k == Multiframe(f)
  <2>1. f \in Nat /\ c = f * Cpf
    BY <1>1, SMT DEF InGroup, Cpf
  <2> HIDE DEF f
  <2>2. k \in Nat
    BY <2>1, SMT DEF Multiframe
  <2>3. f = 51 * k + offset /\ k % 2 = phase
    BY <2>1, <1>1, Split DEF InGroup, f
  <2> HIDE DEF k
  <2> QED
    BY <2>1, <2>2, <2>3
<1>2. ASSUME NEW k \in Nat, k % 2 = phase, c = (51 * k + offset) * Cpf
      PROVE  InGroup(c, phase, offset)
  <2> DEFINE f == 51 * k + offset
  <2>1. f \in Nat /\ c = f * Cpf
    BY <1>2
  <2>4. k \in Int
    BY SMT
  <2>2. T3(f) = offset /\ Multiframe(f) = k
    BY <2>4, Join
  <2> HIDE DEF f
  <2>3. c % Cpf = 0 /\ c \div Cpf = f
    BY <2>1, SMT DEF Cpf
  <2> QED
    BY <2>2, <2>3, <1>2 DEF InGroup
<1> QED
  BY <1>1, <1>2

\* An identity chooses one of the two phases and a block of the common control
\* channel (rom6_refresh_paging_identity).
THEOREM IdentityGroup ==
  ASSUME NEW mod1000 \in Nat
  PROVE  PagingPhase(mod1000) \in 0 .. 1 /\ PagingOffset(mod1000) \in CcchOffsets
<1>1. (mod1000 % 18) \div 9 \in 0 .. 1 /\ 1 + ((mod1000 % 18) % 9) \in 1 .. 9
  BY SMT
<1> QED
  BY <1>1 DEF PagingPhase, PagingOffset, CcchOffsets

\* A page that is armed goes out at the first cycle after now at which the phone
\* listens (rom6_next_paging_group_cycle).
THEOREM NextGroupIsNext ==
  ASSUME NEW cycles \in Nat, NEW phase \in 0 .. 1, NEW offset \in 0 .. 50
  PROVE  LET next == NextPagingGroup(cycles, phase, offset)
         IN  /\ next \in Nat /\ next > cycles
             /\ InGroup(next, phase, offset)
             /\ \A c \in Nat : InGroup(c, phase, offset) /\ c > cycles => next <= c
<1> DEFINE f == cycles \div Cpf
           mf == Multiframe(f)
           k == mf + ((phase + 2 - (mf % 2)) % 2)
           target == (k * 51 + offset) * Cpf
           next == NextPagingGroup(cycles, phase, offset)
<1>1. f \in Nat /\ f * Cpf <= cycles /\ cycles < (f + 1) * Cpf
  BY SMT DEF Cpf
<1>2. next = IF target <= cycles THEN target + 2 * 51 * Cpf ELSE target
  BY DEF NextPagingGroup
<1> HIDE DEF f, next
<1>3. mf \in Nat /\ T3(f) \in 0 .. 50 /\ f = 51 * mf + T3(f)
  BY <1>1, Split, SMT DEF Multiframe
<1> DEFINE t == T3(f)
<1> HIDE DEF mf, t
<1>4. k \in Nat /\ k % 2 = phase /\ k >= mf /\ k <= mf + 1
  BY <1>3, SMT
<1> HIDE DEF k
<1>5. CASE target <= cycles
  <2>1. k + 2 \in Nat /\ (k + 2) % 2 = phase /\ next = (51 * (k + 2) + offset) * Cpf
    BY <1>2, <1>4, <1>5, SMT DEF Cpf
  <2>2. next \in Nat
    BY <2>1, SMT DEF Cpf
  <2>3. InGroup(next, phase, offset)
    BY <2>1, <2>2, GroupCycle
  <2>4. next > cycles
    BY <2>1, <1>1, <1>3, <1>4, SMT DEF Cpf, t
  <2>5. ASSUME NEW c \in Nat, InGroup(c, phase, offset), c > cycles
        PROVE  next <= c
    <3>1. PICK j \in Nat : j % 2 = phase /\ c = (51 * j + offset) * Cpf
      BY <2>5, GroupCycle
    <3>2. j > k
      BY <3>1, <2>5, <1>4, <1>5, SMT DEF Cpf
    <3>3. j >= k + 2
      BY <3>1, <3>2, <1>4, SMT
    <3> QED
      BY <3>1, <3>3, <2>1, <1>4, SMT DEF Cpf
  <2> QED
    BY <2>2, <2>3, <2>4, <2>5 DEF next
<1>6. CASE ~(target <= cycles)
  <2>1. next = (51 * k + offset) * Cpf /\ next \in Nat
    BY <1>2, <1>4, <1>6, SMT DEF Cpf
  <2>2. InGroup(next, phase, offset)
    BY <2>1, <1>4, GroupCycle
  <2>3. next > cycles
    BY <2>1, <1>2, <1>6, SMT DEF Cpf
  <2>4. ASSUME NEW c \in Nat, InGroup(c, phase, offset), c > cycles
        PROVE  next <= c
    <3>1. PICK j \in Nat : j % 2 = phase /\ c = (51 * j + offset) * Cpf
      BY <2>4, GroupCycle
    <3>2. 51 * j + offset >= f
      BY <3>1, <2>4, <1>1, SMT DEF Cpf
    <3>3. j >= mf
      BY <3>1, <3>2, <1>3, SMT DEF t
    <3>4. j >= k
      BY <3>1, <3>3, <1>3, <1>4, SMT
    <3> QED
      BY <3>1, <3>4, <2>1, <1>4, SMT DEF Cpf
  <2> QED
    BY <2>1, <2>2, <2>3, <2>4 DEF next
<1> QED
  BY <1>5, <1>6

\* The pages that follow, and the first page of the next series, stay in the group.
THEOREM PagesKeepGroup ==
  ASSUME NEW c \in Nat, NEW phase \in 0 .. 1, NEW offset \in 0 .. 50,
         InGroup(c, phase, offset)
  PROVE  InGroup(NextBurst(c), phase, offset) /\ InGroup(BackOff(c), phase, offset)
<1>1. PICK k \in Nat : k % 2 = phase /\ c = (51 * k + offset) * Cpf
  BY GroupCycle
<1>2. /\ k + 2 \in Nat /\ (k + 2) % 2 = phase
      /\ NextBurst(c) \in Nat /\ NextBurst(c) = (51 * (k + 2) + offset) * Cpf
  BY <1>1, SMT DEF NextBurst, Cpf
<1>3. /\ k + 8 \in Nat /\ (k + 8) % 2 = phase
      /\ BackOff(c) \in Nat /\ BackOff(c) = (51 * (k + 8) + offset) * Cpf
  BY <1>1, SMT DEF BackOff, Cpf
<1> QED
  BY <1>2, <1>3, GroupCycle

\* A page of the group is stamped with the frame it goes out in, a frame of the group
\* for the phone too, which counts frames modulo the hyperframe (rom6_enq_paging_at).
THEOREM PageStamped ==
  ASSUME NEW c \in Nat, NEW phase \in 0 .. 1, NEW offset \in 0 .. 50,
         InGroup(c, phase, offset)
  PROVE  LET fn == PagingFn(FrameAt(c), offset)
         IN  fn = FrameAt(c) /\ T3(fn) = offset /\ Multiframe(fn) % 2 = phase
<1> DEFINE f == c \div Cpf
           cur == FrameAt(c)
<1>1. f \in Nat
  BY SMT DEF Cpf
<1>2. cur = f % Hyperframe
  BY DEF FrameAt
<1>3. T3(f) = offset /\ Multiframe(f) % 2 = phase
  BY DEF InGroup
<1> HIDE DEF f, cur
<1>4. cur \in Int /\ T3(cur) = offset /\ Multiframe(cur) % 2 = phase
  BY <1>1, <1>2, <1>3, Reduced, HyperframeType, SMT
<1>5. cur - offset + offset = cur /\ ~(cur > cur)
  BY <1>4, SMT
<1>6. PagingFn(cur, offset) = cur
  BY <1>4, <1>5, SMT DEF PagingFn
<1> QED
  BY <1>4, <1>6 DEF cur

\* On a new dedicated channel the first downlink slot is the next start of a
\* multiframe and the first block request follows it by fifteen frames, whatever the
\* cycle at which the channel is configured.
THEOREM RequestFollowsSlot ==
  ASSUME NEW cycles \in Nat
  PROVE  /\ FirstSlot(cycles) > cycles /\ FirstSlot(cycles) <= cycles + 51 * Cpf
         /\ T3(FrameAt(FirstSlot(cycles))) = 0
         /\ FirstRequest(cycles) = FirstSlot(cycles) + 15 * Cpf
<1> DEFINE f == cycles \div Cpf
           t == T3(f)
           m == Multiframe(f)
<1>1. f \in Nat /\ f * Cpf <= cycles /\ cycles < (f + 1) * Cpf /\ cycles - (cycles % Cpf) = f * Cpf
  BY SMT DEF Cpf
<1>2. T3(FrameAt(cycles)) = t
  BY <1>1, Reduced DEF FrameAt
<1> HIDE DEF f
<1>3. m \in Nat /\ t \in 0 .. 50 /\ f = 51 * m + t
  BY <1>1, Split, SMT DEF Multiframe
<1> HIDE DEF t, m
<1>4. ASSUME NEW a \in 0 .. 50
      PROVE  NextAt(cycles, a) = IF a > t THEN (51 * m + a) * Cpf ELSE (51 * (m + 1) + a) * Cpf
  <2> DEFINE d == (a + 51 - t) % 51
             at == f * Cpf + d * Cpf
  <2>1. NextAt(cycles, a) = IF at <= cycles THEN at + 51 * Cpf ELSE at
    BY <1>1, <1>2 DEF NextAt
  <2>2. d = IF a >= t THEN a - t ELSE a - t + 51
    BY <1>3, SMT
  <2> HIDE DEF d
  <2>3. CASE a > t
    BY <2>1, <2>2, <2>3, <1>1, <1>3, SMT DEF Cpf
  <2>4. CASE a = t
    BY <2>1, <2>2, <2>4, <1>1, <1>3, SMT DEF Cpf
  <2>5. CASE a < t
    BY <2>1, <2>2, <2>5, <1>1, <1>3, SMT DEF Cpf
  <2> QED
    BY <2>3, <2>4, <2>5, <1>3, SMT
<1>5. FirstSlot(cycles) = (51 * (m + 1)) * Cpf
  <2>1. 0 \in 0 .. 50 /\ ~(0 > t) /\ 51 * (m + 1) + 0 = 51 * (m + 1)
    BY <1>3, SMT
  <2>2. NextAt(cycles, 0) = (51 * (m + 1) + 0) * Cpf
    BY <2>1, <1>4
  <2> QED
    BY <2>1, <2>2 DEF FirstSlot
<1>6. 15 \in 0 .. 50
  BY SMT
<1>7. NextAt(cycles, 15) = IF 15 > t THEN (51 * m + 15) * Cpf ELSE (51 * (m + 1) + 15) * Cpf
  BY <1>4, <1>6
<1>8. FirstRequest(cycles) = (51 * (m + 1)) * Cpf + 15 * Cpf
  <2>1. CASE 15 > t
    BY <2>1, <1>5, <1>7, <1>3, SMT DEF FirstRequest, Cpf
  <2>2. CASE ~(15 > t)
    BY <2>2, <1>5, <1>7, <1>3, SMT DEF FirstRequest, Cpf
  <2> QED
    BY <2>1, <2>2
<1>9. T3(FrameAt(FirstSlot(cycles))) = 0
  <2> DEFINE g == 51 * (m + 1)
  <2>1. g \in Nat /\ (g * Cpf) \div Cpf = g /\ g = 51 * (m + 1) + 0 /\ m + 1 \in Int /\ 0 \in 0 .. 50
    BY <1>3, SMT DEF Cpf
  <2>2. T3(g) = 0
    BY <2>1, Join
  <2> HIDE DEF g
  <2>3. FrameAt(g * Cpf) = g % Hyperframe
    BY <2>1 DEF FrameAt
  <2> QED
    BY <2>1, <2>2, <2>3, <1>5, Reduced DEF g
<1> QED
  BY <1>1, <1>3, <1>5, <1>8, <1>9, SMT DEF Cpf

-----------------------------------------------------------------------------
(* Numbers. *)

\* The halves of a coded number are its digits, and the filler of an odd one.
LEMMA Halves ==
  ASSUME NEW n \in Nat, NEW d \in Number(n), NEW i \in 0 .. 2 * ((n + 1) \div 2) - 1
  PROVE  Half(EncodeDigits(d, n), i) = IF i < n THEN d[i] ELSE 15
<1> DEFINE j == i \div 2
<1>1. i \in Nat /\ j \in 0 .. ((n + 1) \div 2) - 1 /\ (i % 2 = 0 \/ i % 2 = 1)
  BY SMT
<1>2. EncodeDigits(d, n)[j] = [lo |-> d[2 * j], hi |-> IF 2 * j + 1 < n THEN d[2 * j + 1] ELSE 15]
  BY <1>1 DEF EncodeDigits
<1>3. CASE i % 2 = 1
  <2>1. 2 * j + 1 = i
    BY <1>1, <1>3, SMT
  <2>2. Half(EncodeDigits(d, n), i) = EncodeDigits(d, n)[j].hi
    BY <1>3 DEF Half
  <2> QED
    BY <1>2, <2>1, <2>2
<1>4. CASE i % 2 = 0
  <2>1. 2 * j = i /\ i % 2 # 1 /\ i < n
    BY <1>1, <1>4, SMT
  <2>2. Half(EncodeDigits(d, n), i) = EncodeDigits(d, n)[j].lo
    BY <2>1 DEF Half
  <2> QED
    BY <1>2, <2>1, <2>2
<1> QED
  BY <1>1, <1>3, <1>4

\* So the first of them are the number again.
LEMMA DigitsBack ==
  ASSUME NEW n \in 1 .. DigitsMax, NEW d \in Number(n), NEW k \in 0 .. n
  PROVE  Digits(EncodeDigits(d, n), k) = [len |-> k, d |-> [i \in 0 .. k - 1 |-> d[i]]]
<1>1. \A i \in 0 .. k - 1 : Half(EncodeDigits(d, n), i) = d[i]
  <2> TAKE i \in 0 .. k - 1
  <2>1. n \in Nat /\ i < n /\ i \in 0 .. 2 * ((n + 1) \div 2) - 1
    BY SMT DEF DigitsMax
  <2> QED
    BY <2>1, Halves
<1> QED
  BY <1>1 DEF Digits

\* A number whose digits are counted, as that of a message of the phone
\* (rom6_decode_mo_sms), is read as it was coded.
THEOREM CountedKept ==
  ASSUME NEW n \in 1 .. DigitsMax, NEW d \in Number(n)
  PROVE  DecodeDigits(EncodeDigits(d, n), (n + 1) \div 2, n) = [len |-> n, d |-> d]
<1> DEFINE e == EncodeDigits(d, n)
<1>1. n \in Nat /\ n - 1 \in 0 .. n - 1
  BY SMT DEF DigitsMax
<1>2. \A i \in 0 .. n - 1 : Half(e, i) = d[i] /\ d[i] \in 0 .. 9
  <2> TAKE i \in 0 .. n - 1
  <2>1. i < n /\ i \in 0 .. 2 * ((n + 1) \div 2) - 1
    BY <1>1, SMT
  <2> QED
    BY <1>1, <2>1, Halves DEF Number
<1> HIDE DEF e
<1>3. ~(n \notin 1 .. DigitsMax \/ (n + 1) \div 2 < (n + 1) \div 2)
  BY <1>1, SMT
<1>4. ~\E i \in 0 .. n - 2 : Half(e, i) > 9
  BY <1>1, <1>2, SMT
<1>5. Half(e, n - 1) # 15 /\ ~(Half(e, n - 1) > 9)
  BY <1>1, <1>2, SMT
<1>6. DecodeDigits(e, (n + 1) \div 2, n) = Digits(e, n)
  BY <1>3, <1>4, <1>5 DEF DecodeDigits
<1>7. Digits(e, n) = [len |-> n, d |-> [i \in 0 .. n - 1 |-> d[i]]]
  BY <1>1, DigitsBack, SMT DEF e
<1>8. [i \in 0 .. n - 1 |-> d[i]] = d
  BY DEF Number
<1> QED
  BY <1>6, <1>7, <1>8 DEF e

\* A number of which only the octets are counted, as that of a call of the phone,
\* ends before the filler.
LEMMA OctetsCounted ==
  ASSUME NEW n \in 1 .. DigitsMax, NEW d \in Number(n)
  PROVE  DecodeDigits(EncodeDigits(d, n), (n + 1) \div 2, 2 * ((n + 1) \div 2)) = [len |-> n, d |-> d]
<1> DEFINE e == EncodeDigits(d, n)
           b == (n + 1) \div 2
<1>1. n \in Nat /\ b \in Nat /\ (2 * b = n \/ 2 * b = n + 1) /\ 2 * b \in 1 .. DigitsMax
      /\ (2 * b + 1) \div 2 = b
  BY SMT DEF DigitsMax
<1>2. CASE 2 * b = n
  BY <1>2, CountedKept
<1>3. CASE 2 * b = n + 1
  <2>1. \A i \in 0 .. n - 1 : Half(e, i) = d[i] /\ d[i] \in 0 .. 9
    <3> TAKE i \in 0 .. n - 1
    <3>1. i < n /\ i \in 0 .. 2 * b - 1
      BY <1>1, SMT
    <3> QED
      BY <1>1, <3>1, Halves DEF Number
  <2>2. Half(e, n) = 15
    <3>1. n \in 0 .. 2 * b - 1 /\ ~(n < n)
      BY <1>1, <1>3, SMT
    <3> QED
      BY <1>1, <3>1, Halves
  <2> HIDE DEF e
  <2>3. ~(2 * b \notin 1 .. DigitsMax \/ b < (2 * b + 1) \div 2)
    BY <1>1, SMT
  <2>4. 2 * b - 1 = n /\ 2 * b - 2 = n - 1
    BY <1>1, <1>3, SMT
  <2>5. ~\E i \in 0 .. 2 * b - 2 : Half(e, i) > 9
    BY <2>1, <2>4, <1>1, SMT
  <2> HIDE DEF b
  <2>6. DecodeDigits(e, b, 2 * b) = Digits(e, n)
    BY <2>2, <2>3, <2>4, <2>5 DEF DecodeDigits
  <2>7. Digits(e, n) = [len |-> n, d |-> [i \in 0 .. n - 1 |-> d[i]]]
    BY <1>1, DigitsBack, SMT DEF e
  <2>8. [i \in 0 .. n - 1 |-> d[i]] = d
    BY DEF Number
  <2> QED
    BY <2>6, <2>7, <2>8 DEF e, b
<1> QED
  BY <1>1, <1>2, <1>3

\* The last half of a coded number is the filler just when its length is odd.
LEMMA LastHalf ==
  ASSUME NEW n \in 1 .. DigitsMax, NEW d \in Number(n)
  PROVE  EncodeDigits(d, n)[(n + 1) \div 2 - 1].hi = IF n % 2 = 1 THEN 15 ELSE d[n - 1]
<1> DEFINE j == (n + 1) \div 2 - 1
<1>1. n \in Nat /\ j \in 0 .. (n + 1) \div 2 - 1
  BY SMT DEF DigitsMax
<1>2. EncodeDigits(d, n)[j].hi = IF 2 * j + 1 < n THEN d[2 * j + 1] ELSE 15
  BY <1>1 DEF EncodeDigits
<1>3. CASE n % 2 = 1
  <2>1. ~(2 * j + 1 < n)
    BY <1>1, <1>3, SMT
  <2> QED
    BY <1>2, <1>3, <2>1
<1>4. CASE n % 2 # 1
  <2>1. 2 * j + 1 < n /\ 2 * j + 1 = n - 1
    BY <1>1, <1>4, SMT
  <2> QED
    BY <1>2, <1>4, <2>1
<1> QED
  BY <1>3, <1>4

\* The number of a call of the phone (rom6_decode_mo_call) is the one dialled,
\* unless it has an odd number of digits and ends in a zero ...
THEOREM MoNumberKept ==
  ASSUME NEW n \in 1 .. DigitsMax, NEW d \in Number(n), n % 2 = 0 \/ d[n - 1] # 0
  PROVE  MoNumber(EncodeDigits(d, n), (n + 1) \div 2) = [len |-> n, d |-> d]
<1> DEFINE e == EncodeDigits(d, n)
           b == (n + 1) \div 2
           r == DecodeDigits(e, b, 2 * b)
<1>1. r = [len |-> n, d |-> d]
  BY OctetsCounted
<1>2. e[b - 1].hi = IF n % 2 = 1 THEN 15 ELSE d[n - 1]
  BY LastHalf
<1>3. n \in Nat /\ (n % 2 = 0 => n % 2 # 1) /\ n - 1 \in 0 .. n - 1
  BY SMT DEF DigitsMax
<1>4. d[n - 1] \in 0 .. 9
  BY <1>3 DEF Number
<1> HIDE DEF e, b
<1>5. ~(r.len > 0 /\ r.d[r.len - 1] = 0 /\ e[b - 1].hi = 15)
  <2>1. r.len = n /\ r.d = d
    BY <1>1
  <2> QED
    BY <2>1, <1>2, <1>3, <1>4
<1>6. MoNumber(e, b) = r
  BY <1>5 DEF MoNumber
<1> QED
  BY <1>1, <1>6 DEF e, b

\* ... and then it is not: the last digit is lost.
THEOREM MoNumberLosesZero ==
  ASSUME NEW n \in 1 .. DigitsMax, NEW d \in Number(n), n % 2 = 1, d[n - 1] = 0
  PROVE  MoNumber(EncodeDigits(d, n), (n + 1) \div 2) = [len |-> n - 1, d |-> [i \in 0 .. n - 2 |-> d[i]]]
<1> DEFINE e == EncodeDigits(d, n)
           b == (n + 1) \div 2
           r == DecodeDigits(e, b, 2 * b)
<1>1. r = [len |-> n, d |-> d]
  BY OctetsCounted
<1>2. e[b - 1].hi = 15
  BY LastHalf
<1>3. n \in Nat /\ n > 0 /\ n - 1 \in 0 .. n /\ (n - 1) - 1 = n - 2
  BY SMT DEF DigitsMax
<1>4. Digits(e, n - 1) = [len |-> n - 1, d |-> [i \in 0 .. (n - 1) - 1 |-> d[i]]]
  BY <1>3, DigitsBack
<1> HIDE DEF e, b
<1>5. r.len > 0 /\ r.d[r.len - 1] = 0 /\ r.len = n
  BY <1>1, <1>3
<1>6. MoNumber(e, b) = Digits(e, n - 1)
  BY <1>5, <1>2 DEF MoNumber
<1> QED
  BY <1>4, <1>6, <1>3 DEF e, b

-----------------------------------------------------------------------------
(* Texts. *)

LEMMA ByteShift ==
  ASSUME NEW i \in Nat
  PROVE  Byte(i) \in Nat /\ Shift(i) \in 0 .. 7 /\ 7 * i = 8 * Byte(i) + Shift(i)
  BY SMT DEF Byte, Shift

\* Only one bit of one septet goes to a place of the row of octets.
LEMMA SetsOne ==
  ASSUME NEW s, NEW i \in Nat, NEW j \in Nat, NEW k \in 0 .. 7
  PROVE  Sets(s, i, j, k) <=> /\ 8 * j + k - 7 * i \in 0 .. 6
                              /\ s[8 * j + k - 7 * i]
<1> DEFINE b == Byte(i)
           h == Shift(i)
           p == 8 * j + k - 7 * i
<1>1. b \in Nat /\ h \in 0 .. 7 /\ 7 * i = 8 * b + h /\ p \in Int
  BY ByteShift, SMT
<1>2. Sets(s, i, j, k) <=> \/ j = b /\ k - h \in 0 .. 6 /\ s[k - h]
                           \/ h > 1 /\ j = b + 1 /\ k + 8 - h \in 0 .. 6 /\ s[k + 8 - h]
  BY DEF Sets
<1>3. j = b => p = k - h
  BY <1>1, SMT
<1>4. j = b + 1 => p = k + 8 - h
  BY <1>1, SMT
<1>5. p \in 0 .. 6 => j = b \/ (h > 1 /\ j = b + 1)
  BY <1>1, SMT
<1>6. j = b => j # b + 1
  BY <1>1, SMT
<1> HIDE DEF b, h, p
<1>7. Sets(s, i, j, k) <=> p \in 0 .. 6 /\ s[p]
  BY <1>2, <1>3, <1>4, <1>5, <1>6
<1> QED
  BY <1>7 DEF p

\* A text is packed as the standard says (rom6_pack_gsm7): bit after bit of septet
\* after septet, in octets from their low bit on, and zeros to the end.
THEOREM PackIsStream ==
  ASSUME NEW n \in Nat, NEW t \in Text(n), NEW j \in 0 .. Octets(n) - 1, NEW k \in 0 .. 7
  PROVE  Pack(t, n)[j][k] <=> /\ 8 * j + k < 7 * n
                              /\ t[(8 * j + k) \div 7][(8 * j + k) % 7]
<1> DEFINE p == 8 * j + k
           i == p \div 7
           b == p % 7
<1>0. j \in Nat /\ k \in Nat
  BY SMT DEF Octets
<1>1. p \in Nat /\ i \in Nat /\ b \in 0 .. 6 /\ p = 7 * i + b
  BY <1>0, SMT
<1>2. Pack(t, n)[j][k] = \E m \in 0 .. n - 1 : Sets(t[m], m, j, k)
  BY DEF Pack
<1>3. \A m \in 0 .. n - 1 : Sets(t[m], m, j, k) <=> p - 7 * m \in 0 .. 6 /\ t[m][p - 7 * m]
  <2> TAKE m \in 0 .. n - 1
  <2>1. m \in Nat
    BY SMT
  <2> QED
    BY <2>1, <1>0, SetsOne
<1> HIDE DEF p
<1>4. \A m \in 0 .. n - 1 : p - 7 * m \in 0 .. 6 => m = i /\ p - 7 * m = b
  BY <1>1, SMT
<1>5. p < 7 * n <=> i \in 0 .. n - 1
  BY <1>1, SMT
<1>6. p - 7 * i = b
  BY <1>1, SMT
<1> HIDE DEF i, b
<1>7. (\E m \in 0 .. n - 1 : Sets(t[m], m, j, k)) <=> i \in 0 .. n - 1 /\ t[i][b]
  BY <1>1, <1>3, <1>4, <1>6
<1>8. Pack(t, n)[j][k] <=> p < 7 * n /\ t[i][b]
  BY <1>2, <1>5, <1>7
<1> QED
  BY <1>8 DEF p, i, b

\* What stands at a place of a packed text is the septet that was put there.
LEMMA AtPacked ==
  ASSUME NEW n \in Nat, NEW t \in Text(n), NEW i \in 0 .. n - 1
  PROVE  At(Pack(t, n), Octets(n), i) = t[i]
<1> DEFINE q == Pack(t, n)
           len == Octets(n)
           b == Byte(i)
           h == Shift(i)
<1>1. i \in Nat /\ b \in Nat /\ h \in 0 .. 7 /\ 7 * i = 8 * b + h
  BY ByteShift, SMT
<1>2. len \in Nat /\ 8 * len >= 7 * n
  BY SMT DEF Octets
<1>3. t[i] \in Septet
  BY DEF Text
<1>4. \A k \in 0 .. 6 : \A j \in 0 .. len - 1 : \A m \in 0 .. 7 :
         8 * j + m = 7 * i + k => (q[j][m] <=> t[i][k])
  <2> TAKE k \in 0 .. 6
  <2> TAKE j \in 0 .. len - 1
  <2> TAKE m \in 0 .. 7
  <2> HAVE 8 * j + m = 7 * i + k
  <2>1. q[j][m] <=> /\ 8 * j + m < 7 * n
                    /\ t[(8 * j + m) \div 7][(8 * j + m) % 7]
    BY PackIsStream
  <2>2. 8 * j + m < 7 * n /\ (8 * j + m) \div 7 = i /\ (8 * j + m) % 7 = k
    <3>1. (7 * i + k) \div 7 = i /\ (7 * i + k) % 7 = k /\ 7 * i + k < 7 * n
      BY <1>1, SMT
    <3> QED
      BY <3>1
  <2> QED
    BY <2>1, <2>2
<1>5. \A k \in 0 .. 6 :
        (\/ k + h <= 7 /\ q[b][k + h]
         \/ h > 1 /\ b + 1 < len /\ k >= 8 - h /\ q[b + 1][k - (8 - h)]) <=> t[i][k]
  <2> TAKE k \in 0 .. 6
  <2>1. CASE k + h <= 7
    <3>1. b \in 0 .. len - 1 /\ k + h \in 0 .. 7 /\ 8 * b + (k + h) = 7 * i + k /\ ~(k >= 8 - h)
      BY <1>1, <1>2, <2>1, SMT
    <3>2. q[b][k + h] <=> t[i][k]
      BY <3>1, <1>4
    <3> HIDE DEF q, b, h, len
    <3> QED
      BY <2>1, <3>1, <3>2
  <2>2. CASE ~(k + h <= 7)
    <3>1. /\ b + 1 \in 0 .. len - 1 /\ k - (8 - h) \in 0 .. 7
          /\ 8 * (b + 1) + (k - (8 - h)) = 7 * i + k
          /\ h > 1 /\ b + 1 < len /\ k >= 8 - h
      BY <1>1, <1>2, <2>2, SMT
    <3>2. q[b + 1][k - (8 - h)] <=> t[i][k]
      BY <3>1, <1>4
    <3> HIDE DEF q, b, h, len
    <3> QED
      BY <2>2, <3>1, <3>2
  <2> QED
    BY <2>1, <2>2
<1>6. At(q, len, i) =
        [k \in 0 .. 6 |->
           \/ k + h <= 7 /\ q[b][k + h]
           \/ h > 1 /\ b + 1 < len /\ k >= 8 - h /\ q[b + 1][k - (8 - h)]]
  BY DEF At
<1> HIDE DEF q, b, h, len
<1>7. \A k \in 0 .. 6 : At(q, len, i)[k] = t[i][k]
  <2> TAKE k \in 0 .. 6
  <2>1. At(q, len, i)[k] \in BOOLEAN /\ t[i][k] \in BOOLEAN
    BY <1>3, <1>6 DEF Septet
  <2>2. At(q, len, i)[k] <=> t[i][k]
    BY <1>5, <1>6
  <2> QED
    BY <2>1, <2>2
<1>8. At(q, len, i) = t[i]
  BY <1>3, <1>6, <1>7 DEF Septet
<1> QED
  BY <1>8 DEF q, len

\* The text that the host queues (rom6_copy_sms) is one of printable characters,
\* and no longer than a message.
THEOREM CopyPrintable ==
  ASSUME NEW n \in Nat, NEW c \in [0 .. n - 1 -> [0 .. 7 -> BOOLEAN]]
  PROVE  /\ CopySms(c, n) \in Text(Least(n, TextMax))
         /\ \A i \in 0 .. Least(n, TextMax) - 1 : Printable(CopySms(c, n)[i])
<1> DEFINE m == Least(n, TextMax)
           s(i) == [k \in 0 .. 6 |-> c[i][k]]
<1>1. m \in Nat /\ m <= n
  BY SMT DEF Least, TextMax
<1>2. Space \in Septet /\ Printable(Space)
  <2>0. 5 \in 0 .. 6 /\ 0 \in 0 .. 6 /\ 0 # 5
    BY SMT
  <2>1. Space[5] /\ ~Space[0] /\ 0 \in 0 .. 6
    BY <2>0 DEF Space
  <2>2. Space \in Septet
    BY DEF Space, Septet
  <2> QED
    BY <2>1, <2>2 DEF Printable
<1>3. \A i \in 0 .. m - 1 : s(i) \in Septet
  <2> TAKE i \in 0 .. m - 1
  <2>1. c[i] \in [0 .. 7 -> BOOLEAN] /\ \A k \in 0 .. 6 : k \in 0 .. 7
    BY <1>1, SMT
  <2> QED
    BY <2>1 DEF Septet
<1>4. CopySms(c, n) = [i \in 0 .. m - 1 |-> IF ~c[i][7] /\ Printable(s(i)) THEN s(i) ELSE Space]
  BY DEF CopySms
<1> HIDE DEF m, s
<1> QED
  BY <1>2, <1>3, <1>4 DEF Text, m

\* A text that the host queues is read back as it was by who reads as the engine
\* does (rom6_unpack_gsm7): coding and decoding agree on every bit.
THEOREM TextKept ==
  ASSUME NEW n \in 0 .. TextMax, NEW t \in Text(n), \A i \in 0 .. n - 1 : Printable(t[i])
  PROVE  Unpack(Pack(t, n), Octets(n), n) = t
<1>1. n \in Nat /\ Least(n, ReadMax) = n
  BY SMT DEF TextMax, ReadMax, Least
<1>2. \A i \in 0 .. n - 1 : Byte(i) < Octets(n)
  BY <1>1, SMT DEF Byte, Octets
<1>3. {i \in 0 .. Least(n, ReadMax) - 1 : Byte(i) < Octets(n)} = 0 .. n - 1
  BY <1>1, <1>2
<1>4. \A i \in 0 .. n - 1 : At(Pack(t, n), Octets(n), i) = t[i]
  BY <1>1, AtPacked
<1>5. Unpack(Pack(t, n), Octets(n), n) = [i \in 0 .. n - 1 |-> t[i]]
  BY <1>3, <1>4 DEF Unpack
<1>6. [i \in 0 .. n - 1 |-> t[i]] = t
  BY DEF Text
<1> QED
  BY <1>5, <1>6

-----------------------------------------------------------------------------
(* Messages. *)

\* The parts of a binary message (rom6_queue_incoming_sms_bin) follow each other to
\* its end; none is empty, and none is cut when its message is built
\* (rom6_build_mt_sms) or exceeds the user data of a message.
THEOREM PartsCarryAll ==
  ASSUME NEW len \in Nat \ {0}
  PROVE  /\ \A i \in 0 .. Parts(len) - 1 :
              /\ Chunk(len, i) > 0
              /\ From(len, i) + Chunk(len, i) =
                   IF i = Parts(len) - 1 THEN len ELSE From(len, i + 1)
              /\ BinaryUser(Parts(len), Chunk(len, i)) = Header(Parts(len)) + Chunk(len, i)
              /\ BinaryUser(Parts(len), Chunk(len, i)) <= UserMax
         /\ Parts(len) > 0
<1>1. CASE len <= 133
  <2>1. Parts(len) = 1 /\ Cap(len) = 133 /\ Header(Parts(len)) = 7
    BY <1>1, SMT DEF Parts, Cap, OnePart, PartCap, UserMax, Header
  <2>2. From(len, 0) = 0 /\ Chunk(len, 0) = len
    BY <1>1, <2>1, SMT DEF From, Chunk, Least
  <2>3. BinaryUser(Parts(len), Chunk(len, 0)) = 7 + len
    BY <1>1, <2>1, <2>2, SMT DEF BinaryUser, Least, UserMax
  <2>4. \A i \in 0 .. Parts(len) - 1 : i = 0
    BY <2>1, SMT
  <2> QED
    BY <1>1, <2>1, <2>2, <2>3, <2>4, SMT DEF UserMax
<1>2. CASE len > 133
  <2> DEFINE p == Parts(len)
  <2>1. p = (len + 127) \div 128 /\ p > 1 /\ p \in Nat /\ 128 * (p - 1) < len /\ len <= 128 * p
    BY <1>2, SMT DEF Parts, OnePart, PartCap, UserMax
  <2>2. Cap(len) = 128 /\ Header(p) = 12
    BY <2>1, SMT DEF Cap, PartCap, UserMax, Header
  <2> HIDE DEF p
  <2>3. ASSUME NEW i \in 0 .. p - 1
        PROVE  /\ Chunk(len, i) > 0
               /\ From(len, i) + Chunk(len, i) = IF i = p - 1 THEN len ELSE From(len, i + 1)
               /\ BinaryUser(p, Chunk(len, i)) = Header(p) + Chunk(len, i)
               /\ BinaryUser(p, Chunk(len, i)) <= UserMax
    <3>1. From(len, i) = 128 * i /\ From(len, i + 1) = 128 * (i + 1)
      BY <2>1, <2>2, SMT DEF From
    <3>2. Chunk(len, i) = IF len - 128 * i <= 128 THEN len - 128 * i ELSE 128
      BY <2>2, <3>1, SMT DEF Chunk, Least
    <3>3. CASE i = p - 1
      <4>1. len - 128 * i <= 128 /\ len - 128 * i > 0
        BY <2>1, <3>3, SMT
      <4>2. Chunk(len, i) = len - 128 * i
        BY <3>2, <4>1
      <4> QED
        BY <2>1, <2>2, <3>1, <3>3, <4>1, <4>2, SMT DEF BinaryUser, Least, UserMax
    <3>4. CASE i # p - 1
      <4>1. len - 128 * i > 128
        BY <2>1, <3>4, SMT
      <4>2. Chunk(len, i) = 128
        BY <3>2, <4>1, SMT
      <4> QED
        BY <2>1, <2>2, <3>1, <3>4, <4>2, SMT DEF BinaryUser, Least, UserMax
    <3> QED
      BY <3>3, <3>4
  <2> QED
    BY <2>1, <2>3 DEF p
<1> QED
  BY <1>1, <1>2, SMT

\* The longest message (rom6_build_mt_sms) fits the buffers it is built in and the
\* octets that give its lengths, and takes at most nine frames of the link.
THEOREM MessageFits ==
  ASSUME NEW digits \in 0 .. DigitsMax, NEW user \in 0 .. UserMax
  PROVE  LET t == Tpdu(digits, user)
             p == Rpdu(t)
         IN  t <= 180 /\ p <= 220 /\ L3(p) <= 256 /\ Segments(L3(p)) <= 9
  BY SMT DEF DigitsMax, UserMax, Tpdu, Rpdu, L3, Segments

\* A text's octets fit its buffer and the user data of a message.
THEOREM TextFits ==
  ASSUME NEW n \in 0 .. TextMax
  PROVE  Octets(n) <= 120 /\ Octets(n) <= UserMax /\ Octets(n) \in Nat
  BY SMT DEF TextMax, UserMax, Octets
=============================================================================
