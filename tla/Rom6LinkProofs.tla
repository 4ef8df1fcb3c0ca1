--------------------------- MODULE Rom6LinkProofs ---------------------------
(***************************************************************************)
(* Theorems of Rom6Link, for any sizes, services and offers.               *)
(*                                                                         *)
(* TypeCorrect and PagedAlways hold of every behaviour: Typed gives the    *)
(* types of engine and phone in full, PagedIn is Paged, and every action   *)
(* keeps both.                                                             *)
(*                                                                         *)
(* InStepAlways holds of the behaviours whose queue and rings have room    *)
(* for another step (Room), messages of up to Longest frames included: a   *)
(* full queue or ring drops a frame or an acknowledge and the links part.  *)
(* So they do when more frames wait than there are numbers and the phone   *)
(* says again what it has said before (Told, a part of Room).  InStep      *)
(* itself is far from inductive.                                           *)
(* Linked says what must be known of engine and phone together: which      *)
(* frames may wait behind which (Order), which link the phone may believe  *)
(* open (Sync), when the link for short messages cannot be in use          *)
(* (Link3), and what can be under way while a short message, the cipher or *)
(* a traffic channel is being set up (Sms, Cipher, Call).  The proof has   *)
(* three parts:                                                            *)
(*   - the engine's operators, each as a step that adds at most so many    *)
(*     frames of a certain set and keeps Tracks, the numbers and           *)
(*     acknowledges of a link (Step, Seen, Opened, ... up to LapdmUplink); *)
(*   - the phone's, each as a relation of the phone before and after       *)
(*     (Ackd, Reacted, Received, ...);                                     *)
(*   - for each such step, that Alive or Dead, the two cases of Linked,    *)
(*     holds again.                                                        *)
(***************************************************************************)
EXTENDS Rom6Link, SequenceTheorems, WellFoundedInduction, TLAPS

-----------------------------------------------------------------------------
(* Induction, and the numbers of a link. *)

\* A set of naturals that is not empty has a least member.
LEMMA LeastNat ==
    ASSUME NEW S, S \subseteq Nat, S # {}
    PROVE  \E m \in S : \A k \in S : m <= k
<1> DEFINE R == {xy \in Nat \X Nat : xy[1] < xy[2]}
<1>1. IsWellFoundedOn(R, Nat)
  BY NatLessThanWellFounded DEF OpToRel
<1>2. PICK m \in S : \A k \in S : <<k, m>> \notin R
  <2> HIDE DEF R
  <2> QED  BY <1>1, WFMin
<1>3. ASSUME NEW k \in S PROVE m <= k
  <2>1. m \in Nat /\ k \in Nat /\ ~(k < m)
    <3>1. <<k, m>> \notin R
      BY <1>2
    <3>2. <<k, m>> \in Nat \X Nat /\ <<k, m>>[1] = k /\ <<k, m>>[2] = m
      OBVIOUS
    <3> QED  BY <3>1, <3>2
  <2> QED  BY <2>1
<1> QED  BY <1>3

Nums == 0 .. Modulus - 1

\* The numbers go round: the next of x % Modulus is (x + 1) % Modulus.
LEMMA ModNext ==
    \A x \in Nat : x % Modulus \in Nums /\ Next_(x % Modulus) = (x + 1) % Modulus
<1> SUFFICES ASSUME NEW x \in Nat
             PROVE  x % Modulus \in Nums /\ Next_(x % Modulus) = (x + 1) % Modulus
  OBVIOUS
<1>1. Modulus \in Nat /\ Modulus > 0
  BY Rom6Assumption
<1> DEFINE M == Modulus
           q == x \div M
           y == x % M
<1>2. q \in Int /\ y \in Nums /\ x = M * q + y
  BY <1>1, Z3 DEF Nums
<1> HIDE DEF q, y
<1>3. \A a \in Int, b \in Nums : (M * a + b) % M = b
  BY <1>1, Z3 DEF Nums
<1>4. CASE y + 1 < M
  <2>1. y + 1 \in Nums /\ (M * q + (y + 1)) % M = y + 1 /\ x + 1 = M * q + (y + 1)
    BY <1>1, <1>2, <1>3, <1>4 DEF Nums
  <2>2. M * 0 + (y + 1) = y + 1 /\ (M * 0 + (y + 1)) % M = y + 1
    BY <1>1, <1>2, <1>3, <2>1 DEF Nums
  <2> QED  BY <1>2, <2>1, <2>2 DEF Next_, y
<1>5. CASE y + 1 = M
  <2>1. 0 \in Nums /\ (M * (q + 1) + 0) % M = 0 /\ M * (q + 1) + 0 = x + 1
    <3>1. 0 \in Nums /\ q + 1 \in Int
      BY <1>1, <1>2 DEF Nums
    <3>2. M * (q + 1) = M * q + M
      BY <1>1, <1>2, Z3
    <3> QED  BY <1>1, <1>2, <1>3, <1>5, <3>1, <3>2 DEF Nums
  <2>2. (M * 1 + 0) % M = 0 /\ M * 1 + 0 = y + 1
    BY <1>1, <1>2, <1>3, <1>5, <2>1 DEF Nums
  <2> QED  BY <1>2, <2>1, <2>2 DEF Next_, y
<1> QED  BY <1>1, <1>2, <1>4, <1>5 DEF Nums

\* A number and so many further, counted before or after it goes round.
LEMMA ModPlus ==
    ASSUME NEW x \in Nat
    PROVE  \A i \in Nat : ((x % Modulus) + i) % Modulus = (x + i) % Modulus
<1> DEFINE y == x % Modulus
           P(i) == (y + i) % Modulus = (x + i) % Modulus
           S == {i \in Nat : ~P(i)}
<1>1. y \in Nums /\ y \in Nat /\ Modulus \in Nat /\ Modulus > 0
  <2>1. y \in Nums
    BY ModNext
  <2> HIDE DEF y
  <2> QED  BY <2>1, Rom6Assumption DEF Nums
<1> HIDE DEF y
<1>2. P(0)
  <2>1. y % Modulus = y
    BY <1>1 DEF Nums
  <2> QED  BY <1>1, <2>1 DEF y
<1>3. ASSUME NEW i \in Nat, P(i)
      PROVE  P(i + 1)
  <2>1. Next_((y + i) % Modulus) = (y + i + 1) % Modulus /\ Next_((x + i) % Modulus) = (x + i + 1) % Modulus
    BY <1>1, ModNext
  <2>2. y + (i + 1) = y + i + 1 /\ x + (i + 1) = x + i + 1
    BY <1>1
  <2> QED  BY <1>3, <2>1, <2>2
<1>4. S = {}
  <2> SUFFICES ASSUME S # {}
               PROVE  FALSE
    OBVIOUS
  <2>1. PICK k \in S : \A j \in S : k <= j
    BY LeastNat
  <2>2. k # 0
    BY <1>2, <2>1
  <2>3. k - 1 \in Nat /\ k - 1 + 1 = k /\ ~(k <= k - 1)
    BY <2>1, <2>2
  <2>4. P(k - 1)
    <3> HIDE DEF P
    <3> QED  BY <2>1, <2>3
  <2> HIDE DEF P
  <2> QED  BY <1>3, <2>1, <2>3, <2>4
<1> QED  BY <1>4 DEF y

\* Less than a round further is another number.
LEMMA ModApart ==
    ASSUME NEW x \in Nums, NEW i \in Nat, i < Modulus
    PROVE  (x + i) % Modulus = x => i = 0
<1>1. Modulus \in Nat /\ Modulus > 0
  BY Rom6Assumption
<1>2. (x + i) % Modulus = IF x + i < Modulus THEN x + i ELSE x + i - Modulus
  <2>1. x + i \in 0 .. 2 * Modulus - 1
    BY <1>1 DEF Nums
  <2> QED  BY <1>1, <2>1, Z3 DEF Nums
<1> QED  BY <1>1, <1>2 DEF Nums

-----------------------------------------------------------------------------
(* Frames and queues of frames. *)

Acks   == [rs : Nums, kind : Messages]
IFrame == [t : {"I"}, sapi : Sapis, ns : Nums, nr : Nums, kind : Messages]
Frame  == IFrame \cup [t : {"UA"}, sapi : Sapis] \cup [t : {"SABM"}, sapi : {3}]
                 \cup [t : {"RR"}, sapi : Sapis, nr : Nums]

\* What a queue holds.
In(q) == {q[i] : i \in 1 .. Len(q)}

IsI(f, s)   == f.t = "I" /\ f.sapi = s
Opens(f, s) == f.t \in {"UA", "SABM"} /\ f.sapi = s

\* A frame appended is the last, and the only one that is new.
LEMMA InAppend ==
    ASSUME NEW S, NEW q \in Seq(S), NEW f \in S
    PROVE  /\ Append(q, f) \in Seq(S) /\ Len(Append(q, f)) = Len(q) + 1
           /\ \A i \in 1 .. Len(q) : Append(q, f)[i] = q[i]
           /\ Append(q, f)[Len(q) + 1] = f
           /\ In(Append(q, f)) = In(q) \cup {f}
<1> DEFINE a == Append(q, f)
<1>1. a \in Seq(S) /\ Len(a) = Len(q) + 1 /\ (\A i \in 1 .. Len(q) : a[i] = q[i]) /\ a[Len(q) + 1] = f
  BY AppendProperties
<1>2. Len(q) \in Nat
  OBVIOUS
<1> HIDE DEF a
<1>3. In(a) = In(q) \cup {f}
  <2>1. ASSUME NEW x \in In(a) PROVE x \in In(q) \cup {f}
    <3>1. PICK i \in 1 .. Len(a) : x = a[i]
      BY <2>1 DEF In
    <3>2. i \in 1 .. Len(q) \/ i = Len(q) + 1
      BY <1>1, <1>2, <3>1
    <3> QED  BY <1>1, <3>1, <3>2 DEF In
  <2>2. ASSUME NEW x \in In(q) PROVE x \in In(a)
    <3>1. PICK i \in 1 .. Len(q) : x = q[i]
      BY <2>2 DEF In
    <3>2. i \in 1 .. Len(a) /\ a[i] = x
      BY <1>1, <1>2, <3>1
    <3> QED  BY <3>2 DEF In
  <2>3. f \in In(a)
    <3>1. Len(q) + 1 \in 1 .. Len(a)
      BY <1>1, <1>2
    <3> QED  BY <1>1, <3>1 DEF In
  <2> QED  BY <2>1, <2>2, <2>3
<1> QED  BY <1>1, <1>3 DEF a

\* The rest of a queue follows its head.
LEMMA InTail ==
    ASSUME NEW S, NEW q \in Seq(S), q # <<>>
    PROVE  /\ Tail(q) \in Seq(S) /\ Len(q) = Len(Tail(q)) + 1 /\ Len(Tail(q)) \in Nat
           /\ \A i \in 1 .. Len(Tail(q)) : Tail(q)[i] = q[i + 1]
           /\ Head(q) = q[1] /\ Head(q) \in S /\ Head(q) \in In(q)
           /\ In(q) = In(Tail(q)) \cup {Head(q)}
<1> DEFINE a == Tail(q)
<1>1. a \in Seq(S) /\ Len(a) = Len(q) - 1 /\ (\A i \in 1 .. Len(a) : a[i] = q[i + 1]) /\ Head(q) \in S
  BY HeadTailProperties
<1>2. Len(q) \in Nat /\ Len(a) \in Nat /\ Head(q) = q[1] /\ Len(q) # 0
  BY <1>1, EmptySeq
<1> HIDE DEF a
<1>3. 1 \in 1 .. Len(q) /\ Head(q) \in In(q)
  BY <1>2 DEF In
<1>4. In(q) = In(a) \cup {Head(q)}
  <2>1. ASSUME NEW x \in In(q) PROVE x \in In(a) \cup {Head(q)}
    <3>1. PICK i \in 1 .. Len(q) : x = q[i]
      BY <2>1 DEF In
    <3>2. CASE i = 1
      BY <1>2, <3>1, <3>2
    <3>3. CASE i # 1
      <4>1. i - 1 \in 1 .. Len(a) /\ a[i - 1] = q[(i - 1) + 1] /\ (i - 1) + 1 = i
        BY <1>1, <1>2, <3>1, <3>3
      <4> QED  BY <3>1, <4>1 DEF In
    <3> QED  BY <3>2, <3>3
  <2>2. ASSUME NEW x \in In(a) PROVE x \in In(q)
    <3>1. PICK i \in 1 .. Len(a) : x = a[i]
      BY <2>2 DEF In
    <3>2. i + 1 \in 1 .. Len(q) /\ q[i + 1] = x
      BY <1>1, <1>2, <3>1
    <3> QED  BY <3>2 DEF In
  <2> QED  BY <1>3, <2>1, <2>2
<1> QED  BY <1>1, <1>2, <1>3, <1>4 DEF a

\* A queue holds what its type allows, and nothing only when it is empty.
LEMMA InEmpty ==
    ASSUME NEW S, NEW q \in Seq(S)
    PROVE  /\ In(q) \subseteq S /\ (q = <<>> <=> In(q) = {})
           /\ q = <<>> => Len(q) = 0
<1>1. In(q) \subseteq S
  BY ElementOfSeq DEF In
<1>2. q = <<>> <=> Len(q) = 0
  BY EmptySeq
<1>3. Len(q) \in Nat
  OBVIOUS
<1>4. Len(q) # 0 => q[1] \in In(q)
  BY <1>3 DEF In
<1>5. Len(q) = 0 => In(q) = {}
  BY DEF In
<1> QED  BY <1>1, <1>2, <1>3, <1>4, <1>5

-----------------------------------------------------------------------------
(* The information that waits for a link. *)

\* f[i] is the information for link s among the first i of n frames.
Upto(f, q, s, n) ==
    f = [i \in 0 .. n |->
            IF i = 0 THEN <<>>
            ELSE IF q[i].t = "I" /\ q[i].sapi = s THEN Append(f[i - 1], q[i]) ELSE f[i - 1]]

Built(f, q, s, n) ==
    /\ f[0] = <<>>
    /\ \A i \in 1 .. n : f[i] = IF IsI(q[i], s) THEN Append(f[i - 1], q[i]) ELSE f[i - 1]

\* The function is built frame by frame.
LEMMA UptoStep ==
    ASSUME NEW q, NEW s, NEW n \in Nat, NEW f, Upto(f, q, s, n)
    PROVE  Built(f, q, s, n)
<1>1. 0 \in 0 .. n /\ \A i \in 1 .. n : i \in 0 .. n /\ i # 0
  OBVIOUS
<1>2. f[0] = <<>>
  BY <1>1 DEF Upto
<1>3. ASSUME NEW i \in 1 .. n
      PROVE  f[i] = IF IsI(q[i], s) THEN Append(f[i - 1], q[i]) ELSE f[i - 1]
  BY <1>1 DEF Upto, IsI
<1> QED  BY <1>2, <1>3 DEF Built

\* There is such a function for every queue.
LEMMA UptoExists ==
    ASSUME NEW q, NEW s, NEW n \in Nat
    PROVE  \E f : Upto(f, q, s, n)
<1> DEFINE Bad == {k \in Nat : ~ \E f : Upto(f, q, s, k)}
<1>1. 0 \notin Bad
  <2> DEFINE f == [i \in 0 .. 0 |-> <<>>]
  <2>1. f = [i \in 0 .. 0 |->
              IF i = 0 THEN <<>>
              ELSE IF q[i].t = "I" /\ q[i].sapi = s THEN Append(f[i - 1], q[i]) ELSE f[i - 1]]
    OBVIOUS
  <2>2. Upto(f, q, s, 0)
    BY <2>1 DEF Upto
  <2> QED  BY <2>2
<1>2. ASSUME NEW m \in Bad, \A k \in Bad : m <= k PROVE FALSE
  <2> DEFINE n1 == m - 1
  <2>1. n1 \in Nat /\ n1 \notin Bad /\ n1 + 1 = m
    BY <1>1, <1>2
  <2>2. PICK f : Upto(f, q, s, n1)
    BY <2>1
  <2> HIDE DEF n1
  <2> DEFINE g == [i \in 0 .. m |->
                    IF i <= n1 THEN f[i] ELSE IF IsI(q[m], s) THEN Append(f[n1], q[m]) ELSE f[n1]]
             h == [i \in 0 .. m |->
                    IF i = 0 THEN <<>>
                    ELSE IF q[i].t = "I" /\ q[i].sapi = s THEN Append(g[i - 1], q[i]) ELSE g[i - 1]]
  <2>3. f[0] = <<>> /\ \A i \in 1 .. n1 : f[i] = IF IsI(q[i], s) THEN Append(f[i - 1], q[i]) ELSE f[i - 1]
    <3>1. Built(f, q, s, n1)
      BY <2>1, <2>2, UptoStep
    <3> QED  BY <3>1 DEF Built
  <2>4. ASSUME NEW i \in 0 .. m PROVE g[i] = h[i]
    <3>1. CASE i = 0
      BY <2>1, <2>3, <3>1
    <3>2. CASE i # 0 /\ i <= n1
      <4>1. i \in 1 .. n1 /\ i - 1 \in 0 .. m /\ i - 1 <= n1
        BY <2>1, <3>2
      <4>2. g[i - 1] = f[i - 1] /\ g[i] = f[i]
        BY <3>2, <4>1
      <4>3. h[i] = IF IsI(q[i], s) THEN Append(g[i - 1], q[i]) ELSE g[i - 1]
        BY <3>2 DEF IsI
      <4> HIDE DEF g, h
      <4> QED  BY <2>3, <4>1, <4>2, <4>3
    <3>3. CASE i = m
      <4>1. i # 0 /\ ~(i <= n1) /\ i - 1 = n1 /\ n1 \in 0 .. m /\ n1 <= n1
        BY <2>1, <3>3
      <4>2. g[n1] = f[n1] /\ g[i] = IF IsI(q[m], s) THEN Append(f[n1], q[m]) ELSE f[n1]
        BY <4>1
      <4>3. h[i] = IF IsI(q[i], s) THEN Append(g[i - 1], q[i]) ELSE g[i - 1]
        BY <4>1 DEF IsI
      <4> HIDE DEF g, h
      <4> QED  BY <3>3, <4>1, <4>2, <4>3
    <3> QED  BY <2>1, <3>1, <3>2, <3>3
  <2>5. g = h
    BY <2>4
  <2>6. Upto(g, q, s, m)
    BY <2>5 DEF Upto
  <2> QED  BY <1>2, <2>6
<1>3. Bad = {}
  BY <1>2, LeastNat
<1> QED  BY <1>3

\* The queue's information, counted frame by frame.
LEMMA InfoIs ==
    ASSUME NEW q \in Seq(Frame), NEW s
    PROVE  \E f : Info(q, s) = f[Len(q)] /\ Built(f, q, s, Len(q))
<1> DEFINE f == CHOOSE f : Upto(f, q, s, Len(q))
<1>1. Len(q) \in Nat
  OBVIOUS
<1>2. Upto(f, q, s, Len(q))
  BY <1>1, UptoExists
<1>3. Info(q, s) = f[Len(q)]
  BY DEF Info, Upto
<1> HIDE DEF f
<1>4. Built(f, q, s, Len(q))
  BY <1>1, <1>2, UptoStep
<1> QED  BY <1>3, <1>4

\* A frame appended adds to its own link's information alone.
LEMMA InfoAppend ==
    ASSUME NEW q \in Seq(Frame), NEW s, NEW e \in Frame
    PROVE  Info(Append(q, e), s) = IF IsI(e, s) THEN Append(Info(q, s), e) ELSE Info(q, s)
<1> DEFINE a == Append(q, e)
           n == Len(q)
<1>1. a \in Seq(Frame) /\ Len(a) = n + 1 /\ (\A i \in 1 .. n : a[i] = q[i]) /\ a[n + 1] = e /\ n \in Nat
  BY InAppend
<1> HIDE DEF a, n
<1>2. PICK f : Info(q, s) = f[n] /\ Built(f, q, s, n)
  BY InfoIs DEF n
<1>3. PICK g : Info(a, s) = g[n + 1] /\ Built(g, a, s, n + 1)
  BY <1>1, InfoIs
<1> DEFINE Bad == {i \in 0 .. n : f[i] # g[i]}
<1>4. ASSUME NEW m \in Bad, \A k \in Bad : m <= k PROVE FALSE
  <2>1. f[0] = g[0]
    BY <1>2, <1>3 DEF Built
  <2>2. m \in 1 .. n /\ m \in 1 .. n + 1 /\ m - 1 \in 0 .. n /\ m - 1 \notin Bad
    BY <1>1, <1>4, <2>1
  <2>3. f[m - 1] = g[m - 1] /\ a[m] = q[m]
    BY <1>1, <2>2
  <2>4. f[m] = g[m]
    <3>1. f[m] = IF IsI(q[m], s) THEN Append(f[m - 1], q[m]) ELSE f[m - 1]
      BY <1>2, <2>2 DEF Built
    <3>2. g[m] = IF IsI(a[m], s) THEN Append(g[m - 1], a[m]) ELSE g[m - 1]
      BY <1>3, <2>2 DEF Built
    <3> QED  BY <2>3, <3>1, <3>2
  <2> QED  BY <1>4, <2>4
<1>5. Bad = {}
  <2>1. Bad \subseteq Nat
    OBVIOUS
  <2> HIDE DEF Bad
  <2> QED  BY <1>4, <2>1, LeastNat
<1>6. f[n] = g[n] /\ n + 1 \in 1 .. n + 1 /\ (n + 1) - 1 = n
  BY <1>1, <1>5
<1>7. g[n + 1] = IF IsI(a[n + 1], s) THEN Append(g[(n + 1) - 1], a[n + 1]) ELSE g[(n + 1) - 1]
  BY <1>3, <1>6 DEF Built
<1>8. Info(a, s) = IF IsI(e, s) THEN Append(Info(q, s), e) ELSE Info(q, s)
  BY <1>1, <1>2, <1>3, <1>6, <1>7
<1> QED  BY <1>8 DEF a

\* What waits for a link is a sequence of that link's frames, all of them in the queue.
LEMMA InfoType ==
    ASSUME NEW q \in Seq(Frame), NEW s
    PROVE  /\ Info(q, s) \in Seq({e \in In(q) : IsI(e, s)})
           /\ (\A e \in In(q) : ~IsI(e, s)) => Info(q, s) = <<>>
<1> DEFINE n == Len(q)
           T == {e \in In(q) : IsI(e, s)}
<1>1. n \in Nat
  OBVIOUS
<1>2. PICK f : Info(q, s) = f[n] /\ Built(f, q, s, n)
  BY InfoIs
<1>3. f[0] = <<>> /\ \A i \in 1 .. n : f[i] = IF IsI(q[i], s) THEN Append(f[i - 1], q[i]) ELSE f[i - 1]
  BY <1>2 DEF Built
<1>4. \A i \in 1 .. n : q[i] \in In(q)
  BY DEF In
<1> HIDE DEF n
<1> DEFINE P(x) == x \in Seq(T) /\ (T = {} => x = <<>>)
           Bad == {i \in 0 .. n : ~P(f[i])}
<1>5. ASSUME NEW m \in Bad, \A k \in Bad : m <= k PROVE FALSE
  <2>1. P(f[0])
    BY <1>3
  <2> HIDE DEF P
  <2>2. m \in 1 .. n /\ m - 1 \in 0 .. n /\ m - 1 \notin Bad
    BY <1>1, <1>5, <2>1
  <2>3. f[m - 1] \in Seq(T) /\ (T = {} => f[m - 1] = <<>>)
    BY <2>2 DEF P
  <2>4. CASE IsI(q[m], s)
    <3>1. q[m] \in T /\ f[m] = Append(f[m - 1], q[m])
      BY <1>3, <1>4, <2>2, <2>4
    <3>2. f[m] \in Seq(T)
      BY <2>3, <3>1, AppendProperties
    <3> QED  BY <1>5, <3>1, <3>2 DEF P
  <2>5. CASE ~IsI(q[m], s)
    <3>1. f[m] = f[m - 1]
      BY <1>3, <2>2, <2>5
    <3> QED  BY <1>5, <2>3, <3>1 DEF P
  <2> QED  BY <2>4, <2>5
<1>6. Bad = {}
  <2>1. Bad \subseteq Nat
    OBVIOUS
  <2> HIDE DEF Bad
  <2> QED  BY <1>5, <2>1, LeastNat
<1>7. f[n] \in Seq(T) /\ (T = {} => f[n] = <<>>)
  <2>1. P(f[n])
    <3> HIDE DEF P
    <3> QED  BY <1>1, <1>6
  <2> QED  BY <2>1
<1> QED  BY <1>2, <1>7

\* What a concatenation holds.
LEMMA InConcat ==
    ASSUME NEW S, NEW a \in Seq(S), NEW b \in Seq(S)
    PROVE  a \o b \in Seq(S) /\ In(a \o b) = In(a) \cup In(b) /\ (a = <<>> => a \o b = b)
<1> DEFINE c == a \o b
<1>1. c \in Seq(S) /\ Len(c) = Len(a) + Len(b)
      /\ \A i \in 1 .. Len(c) : c[i] = IF i <= Len(a) THEN a[i] ELSE b[i - Len(a)]
  BY ConcatProperties
<1>2. Len(a) \in Nat /\ Len(b) \in Nat
  OBVIOUS
<1>3. a = <<>> => c = b
  BY ConcatEmptySeq
<1> HIDE DEF c
<1>4. ASSUME NEW x \in In(c) PROVE x \in In(a) \cup In(b)
  <2>1. PICK i \in 1 .. Len(c) : x = c[i]
    BY <1>4 DEF In
  <2>2. CASE i <= Len(a)
    <3>1. i \in 1 .. Len(a) /\ x = a[i]
      BY <1>1, <1>2, <2>1, <2>2
    <3> QED  BY <3>1 DEF In
  <2>3. CASE ~(i <= Len(a))
    <3>1. i - Len(a) \in 1 .. Len(b) /\ x = b[i - Len(a)]
      BY <1>1, <1>2, <2>1, <2>3
    <3> QED  BY <3>1 DEF In
  <2> QED  BY <2>2, <2>3
<1>5. ASSUME NEW x \in In(a) PROVE x \in In(c)
  <2>1. PICK i \in 1 .. Len(a) : x = a[i]
    BY <1>5 DEF In
  <2>2. i \in 1 .. Len(c) /\ c[i] = x
    BY <1>1, <1>2, <2>1
  <2> QED  BY <2>2 DEF In
<1>6. ASSUME NEW x \in In(b) PROVE x \in In(c)
  <2>1. PICK i \in 1 .. Len(b) : x = b[i]
    BY <1>6 DEF In
  <2>2. i + Len(a) \in 1 .. Len(c) /\ ~(i + Len(a) <= Len(a)) /\ (i + Len(a)) - Len(a) = i
    BY <1>1, <1>2, <2>1
  <2>3. c[i + Len(a)] = x
    BY <1>1, <2>1, <2>2
  <2> QED  BY <2>2, <2>3 DEF In
<1>7. In(c) = In(a) \cup In(b)
  BY <1>4, <1>5, <1>6
<1> QED  BY <1>1, <1>3, <1>7 DEF c

\* Information for a link adds to its own link's information alone.
LEMMA InfoConcat ==
    ASSUME NEW q \in Seq(Frame), NEW s, NEW F \in Seq(IFrame), \A i \in 1 .. Len(F) : F[i].sapi = s
    PROVE  /\ Info(q \o F, s) = Info(q, s) \o F
           /\ \A o \in Sapis : o # s => Info(q \o F, o) = Info(q, o)
<1> DEFINE n == Len(F)
           P(j) == SubSeq(F, 1, j)
           Good(j) == /\ Info(q \o P(j), s) = Info(q, s) \o P(j)
                      /\ \A o \in Sapis : o # s => Info(q \o P(j), o) = Info(q, o)
           Bad == {j \in 0 .. n : ~Good(j)}
<1>1. n \in Nat /\ IFrame \subseteq Frame
  BY DEF Frame
<1>2. F \in Seq(Frame)
  BY <1>1, SeqMonotonic
<1>3. Info(q, s) \in Seq(Frame)
  <2>1. Info(q, s) \in Seq({e \in In(q) : IsI(e, s)}) /\ {e \in In(q) : IsI(e, s)} \subseteq Frame
    BY InfoType, InEmpty
  <2> QED  BY <2>1, SeqMonotonic
<1>4. Good(0)
  <2>1. P(0) = <<>>
    BY <1>2, SubSeqEmpty
  <2> HIDE DEF P
  <2>2. q \o <<>> = q /\ Info(q, s) \o <<>> = Info(q, s)
    BY <1>3, ConcatEmptySeq
  <2> QED  BY <2>1, <2>2
<1>5. ASSUME NEW m \in Bad, \A k \in Bad : m <= k PROVE FALSE
  <2>1. m \in 1 .. n /\ m - 1 \in 0 .. n /\ m - 1 \notin Bad
    BY <1>1, <1>4, <1>5
  <2>2. Good(m - 1)
    BY <2>1
  <2>3. P(m - 1) \in Seq(Frame) /\ P(m) = P(m - 1) \o <<F[m]>>
    <3>1. F[m] \in Frame /\ 1 \in 1 .. n + 1
      BY <1>1, <1>2, <2>1, ElementOfSeq
    <3>2. P(m) = P(m - 1) \o <<F[m]>>
      BY <1>1, <1>2, <2>1, <3>1, SubSeqRecursiveSecond
    <3>3. P(m - 1) \in Seq(Frame)
      BY <1>1, <1>2, <2>1, <3>1, SubSeqProperties
    <3> QED  BY <3>2, <3>3
  <2> DEFINE a == P(m - 1)
             f == F[m]
  <2>4. f \in Frame /\ f.sapi = s /\ f.t = "I"
    <3>1. f \in IFrame
      BY <1>1, <2>1, ElementOfSeq
    <3> QED  BY <1>1, <2>1, <3>1 DEF IFrame
  <2>5. a \in Seq(Frame) /\ P(m) = a \o <<f>>
    BY <2>3
  <2>6. /\ Info(q \o a, s) = Info(q, s) \o a
        /\ \A o \in Sapis : o # s => Info(q \o a, o) = Info(q, o)
    BY <2>2
  <2> HIDE DEF a, f, P
  <2>7. \A x \in Seq(Frame) : x \o <<f>> = Append(x, f)
    BY <2>4, AppendIsConcat
  <2>8. q \o P(m) = Append(q \o a, f) /\ Info(q, s) \o P(m) = Append(Info(q, s) \o a, f)
    <3>0. <<f>> \in Seq(Frame)
      BY <2>4
    <3>1. \A x \in Seq(Frame) : x \o (a \o <<f>>) = (x \o a) \o <<f>>
      BY <2>5, <3>0, ConcatAssociative
    <3>2. q \o a \in Seq(Frame) /\ Info(q, s) \o a \in Seq(Frame)
      BY <1>3, <2>5, ConcatProperties
    <3>3. q \o (a \o <<f>>) = Append(q \o a, f)
      BY <2>7, <3>1, <3>2
    <3>4. Info(q, s) \o (a \o <<f>>) = Append(Info(q, s) \o a, f)
      BY <1>3, <2>7, <3>1, <3>2
    <3> QED  BY <2>5, <3>3, <3>4
  <2>9. q \o a \in Seq(Frame)
    BY <2>5, ConcatProperties
  <2>10. Info(q \o P(m), s) = Info(q, s) \o P(m)
    <3>1. IsI(f, s)
      BY <2>4 DEF IsI
    <3>2. Info(Append(q \o a, f), s) = Append(Info(q \o a, s), f)
      BY <2>4, <2>9, <3>1, InfoAppend
    <3> QED  BY <2>6, <2>8, <3>2
  <2>11. ASSUME NEW o \in Sapis, o # s PROVE Info(q \o P(m), o) = Info(q, o)
    <3>1. ~IsI(f, o)
      BY <2>4, <2>11 DEF IsI
    <3>2. Info(Append(q \o a, f), o) = Info(q \o a, o)
      BY <2>4, <2>9, <3>1, InfoAppend
    <3> QED  BY <2>6, <2>8, <2>11, <3>2
  <2> QED  BY <1>5, <2>10, <2>11
<1>6. Bad = {}
  <2>1. Bad \subseteq Nat
    OBVIOUS
  <2> HIDE DEF Bad
  <2> QED  BY <1>5, <2>1, LeastNat
<1>7. Good(n)
  <2>1. n \in 0 .. n
    BY <1>1
  <2> HIDE DEF Good
  <2> QED  BY <1>6, <2>1
<1>8. P(n) = F
  BY <1>2, SubSeqFull
<1> HIDE DEF P
<1> QED  BY <1>7, <1>8

\* The first frame leaves the queue.
LEMMA InfoTail ==
    ASSUME NEW q \in Seq(Frame), NEW s, q # <<>>
    PROVE  LET w == Info(q, s)
               v == Info(Tail(q), s)
           IN  /\ ~IsI(Head(q), s) => w = v
               /\ IsI(Head(q), s) => /\ Len(w) = Len(v) + 1 /\ w[1] = Head(q)
                                     /\ \A i \in 1 .. Len(v) : w[i + 1] = v[i]
<1> DEFINE a == Tail(q)
           n == Len(a)
           h == Head(q)
<1>1. a \in Seq(Frame) /\ Len(q) = n + 1 /\ n \in Nat /\ (\A i \in 1 .. n : a[i] = q[i + 1]) /\ h = q[1] /\ h \in Frame
  BY InTail
<1> HIDE DEF a, h
<1>2. PICK f : Info(a, s) = f[n] /\ Built(f, a, s, n)
  BY <1>1, InfoIs
<1>3. PICK g : Info(q, s) = g[n + 1] /\ Built(g, q, s, n + 1)
  BY <1>1, InfoIs
<1> HIDE DEF n
<1>4. f[0] = <<>> /\ \A i \in 1 .. n : f[i] = IF IsI(a[i], s) THEN Append(f[i - 1], a[i]) ELSE f[i - 1]
  BY <1>2 DEF Built
<1>5. g[0] = <<>> /\ \A i \in 1 .. n + 1 : g[i] = IF IsI(q[i], s) THEN Append(g[i - 1], q[i]) ELSE g[i - 1]
  BY <1>3 DEF Built
<1> DEFINE Shifted(x, y) ==
             /\ x \in Seq(Frame) /\ y \in Seq(Frame)
             /\ ~IsI(h, s) => y = x
             /\ IsI(h, s) => Len(y) = Len(x) + 1 /\ y[1] = h /\ \A i \in 1 .. Len(x) : y[i + 1] = x[i]
           Bad == {i \in 0 .. n : ~Shifted(f[i], g[i + 1])}
<1>6. ASSUME NEW m \in Bad, \A k \in Bad : m <= k PROVE FALSE
  <2>1. Shifted(f[0], g[0 + 1])
    <3>1. 1 \in 1 .. n + 1 /\ 1 - 1 = 0 /\ 0 + 1 = 1
      BY <1>1
    <3>2. g[1] = IF IsI(h, s) THEN Append(<<>>, h) ELSE <<>>
      BY <1>1, <1>5, <3>1
    <3>3. Append(<<>>, h) = <<h>> /\ <<h>> \in Seq(Frame) /\ Len(<<h>>) = 1 /\ <<h>>[1] = h
      BY <1>1
    <3>4. Shifted(<<>>, g[1])
      <4>1. CASE IsI(h, s)
        <5>1. g[1] = <<h>> /\ Len(<<>>) = 0
          BY <3>2, <3>3, <4>1
        <5> QED  BY <3>3, <4>1, <5>1
      <4>2. CASE ~IsI(h, s)
        BY <3>2, <4>2
      <4> QED  BY <4>1, <4>2
    <3> HIDE DEF Shifted
    <3> QED  BY <1>4, <3>1, <3>4
  <2> HIDE DEF Shifted
  <2>2. m \in 1 .. n /\ m + 1 \in 1 .. n + 1 /\ m - 1 \in 0 .. n /\ m - 1 \notin Bad /\ (m - 1) + 1 = m /\ (m + 1) - 1 = m
    BY <1>1, <1>6, <2>1
  <2> DEFINE x == f[m - 1]
             y == g[m]
             e == a[m]
  <2>3. Shifted(x, y)
    BY <2>2
  <2>4. e \in Frame /\ q[m + 1] = e
    BY <1>1, <2>2, ElementOfSeq
  <2>5. f[m] = (IF IsI(e, s) THEN Append(x, e) ELSE x) /\ g[m + 1] = IF IsI(e, s) THEN Append(y, e) ELSE y
    BY <1>4, <1>5, <2>2, <2>4
  <2> HIDE DEF x, y, e
  <2>6. CASE ~IsI(e, s)
    BY <1>6, <2>3, <2>5, <2>6
  <2>7. CASE IsI(e, s)
    <3>1. x \in Seq(Frame) /\ y \in Seq(Frame)
      BY <2>3 DEF Shifted
    <3> DEFINE xe == Append(x, e)
               ye == Append(y, e)
    <3>2. xe \in Seq(Frame) /\ Len(xe) = Len(x) + 1 /\ (\A i \in 1 .. Len(x) : xe[i] = x[i]) /\ xe[Len(x) + 1] = e
      BY <2>4, <3>1, InAppend
    <3>3. ye \in Seq(Frame) /\ Len(ye) = Len(y) + 1 /\ (\A i \in 1 .. Len(y) : ye[i] = y[i]) /\ ye[Len(y) + 1] = e
      BY <2>4, <3>1, InAppend
    <3>4. Len(x) \in Nat /\ Len(y) \in Nat
      BY <3>1
    <3>5. f[m] = xe /\ g[m + 1] = ye
      BY <2>5, <2>7
    <3>6. ~IsI(h, s) => ye = xe
      BY <2>3 DEF Shifted
    <3> HIDE DEF xe, ye
    <3>7. IsI(h, s) => Len(ye) = Len(xe) + 1 /\ ye[1] = h /\ \A i \in 1 .. Len(xe) : ye[i + 1] = xe[i]
      <4> SUFFICES ASSUME IsI(h, s)
                   PROVE  Len(ye) = Len(xe) + 1 /\ ye[1] = h /\ \A i \in 1 .. Len(xe) : ye[i + 1] = xe[i]
        OBVIOUS
      <4>1. Len(y) = Len(x) + 1 /\ y[1] = h /\ \A i \in 1 .. Len(x) : y[i + 1] = x[i]
        BY <2>3 DEF Shifted
      <4>2. Len(ye) = Len(xe) + 1 /\ ye[1] = h
        BY <3>2, <3>3, <3>4, <4>1
      <4>3. ASSUME NEW i \in 1 .. Len(xe) PROVE ye[i + 1] = xe[i]
        <5>1. CASE i = Len(x) + 1
          BY <3>2, <3>3, <3>4, <4>1, <5>1
        <5>2. CASE i # Len(x) + 1
          <6>1. i \in 1 .. Len(x) /\ i + 1 \in 1 .. Len(y)
            BY <3>2, <3>4, <4>1, <5>2
          <6> QED  BY <3>2, <3>3, <4>1, <6>1
        <5> QED  BY <5>1, <5>2
      <4> QED  BY <4>2, <4>3
    <3>8. Shifted(xe, ye)
      BY <3>2, <3>3, <3>6, <3>7 DEF Shifted
    <3> QED  BY <1>6, <3>5, <3>8
  <2> QED  BY <2>6, <2>7
<1>7. Bad = {}
  <2>1. Bad \subseteq Nat
    OBVIOUS
  <2> HIDE DEF Bad
  <2> QED  BY <1>6, <2>1, LeastNat
<1>8. Shifted(f[n], g[n + 1])
  <2>1. n \in 0 .. n
    BY <1>1
  <2> HIDE DEF Shifted
  <2> QED  BY <1>7, <2>1
<1>9. ~IsI(h, s) => Info(q, s) = Info(a, s)
  BY <1>2, <1>3, <1>8
<1>10. IsI(h, s) => /\ Len(Info(q, s)) = Len(Info(a, s)) + 1 /\ Info(q, s)[1] = h
                   /\ \A i \in 1 .. Len(Info(a, s)) : Info(q, s)[i + 1] = Info(a, s)[i]
  BY <1>2, <1>3, <1>8
<1> QED  BY <1>9, <1>10 DEF a, h

-----------------------------------------------------------------------------
(* The engine's state. *)

Regs == {"IDLE", "AWAIT_LU_ACK", "AWAIT_REL_ACK", "RELEASED", "AWAIT_CIPHER_ACK",
         "AWAIT_CIPHER_COMPLETE", "MM_ACTIVE"}
Svcs == {"NONE", "MO_CALL", "EMERGENCY", "SMS", "MT_CALL", "MT_SMS"}

LinkState == [vs : Nums, vr : Nums, acks : Seq(Acks), ua : {"NONE", "SAPI3_ESTABLISH"}]
PageState == {p \in [on : BOOLEAN, answered : BOOLEAN, bursts : 0 .. Bursts, cycles : 0 .. Cycles] :
                 p.on => p.bursts < Bursts /\ p.cycles < Cycles}

Engine == [inq : Seq(Services), page : PageState, suppress : BOOLEAN, conf : BOOLEAN,
           rel : BOOLEAN, tch : BOOLEAN, q : Seq(Frame), link : [Sapis -> LinkState], reg : Regs,
           svc : Svcs, active : Seq(Services), size : Sizes, call : 0 .. 3, setup : BOOLEAN,
           assign : BOOLEAN]

\* A state whose queue and rings keep within their arrays.
Legal(n) ==
    n \in Engine /\ Len(n.q) < DedicatedN /\ \A s \in Sapis : Len(n.link[s].acks) <= AckN

\* The channel is as it was, and no service has come.
Chan(n, m) ==
    /\ m.conf = n.conf /\ m.rel = n.rel
    /\ Len(m.inq) <= Len(n.inq) /\ In(m.inq) \subseteq In(n.inq)

SameCall(n, m) == m.reg = n.reg /\ m.svc = n.svc /\ m.call = n.call /\ m.setup = n.setup

\* No acknowledge has been used up.
Kept(n, m) == \A s \in Sapis : Len(n.link[s].acks) <= Len(m.link[s].acks)

\* Room for c frames, each with its acknowledge: on one link, or on any.
SpaceFor(n, s, c) == Len(n.q) + c + 1 <= DedicatedN /\ Len(n.link[s].acks) + c <= AckN
Space(n, c) == Len(n.q) + c + 1 <= DedicatedN /\ \A s \in Sapis : Len(n.link[s].acks) + c <= AckN

\* A message of these kinds, queued and recorded.
Sent(n, m, s, kinds) ==
    /\ \E F \in Seq(IFrame) :
          /\ Len(F) = Len(kinds) /\ m.q = n.q \o F
          /\ \A i \in 1 .. Len(kinds) :
                F[i].sapi = s /\ F[i].kind = kinds[i] /\ F[i].ns = (n.link[s].vs + i - 1) % Modulus
    /\ m.link[s].vs = (n.link[s].vs + Len(kinds)) % Modulus
    /\ \E A \in Seq(Acks) :
          /\ Len(A) = Len(kinds) /\ m.link[s].acks = n.link[s].acks \o A
          /\ \A i \in 1 .. Len(kinds) : A[i] = [rs |-> (n.link[s].vs + i) % Modulus, kind |-> kinds[i]]
    /\ \A o \in Sapis : o # s => m.link[o] = n.link[o]

\* The types of the engine's fields.
LEMMA EngineFields ==
    ASSUME NEW n \in Engine
    PROVE  /\ n.inq \in Seq(Services) /\ n.q \in Seq(Frame) /\ n.active \in Seq(Services)
           /\ n.page \in PageState /\ n.link \in [Sapis -> LinkState]
           /\ n.reg \in Regs /\ n.svc \in Svcs /\ n.call \in 0 .. 3
           /\ n.conf \in BOOLEAN /\ n.rel \in BOOLEAN
           /\ \A s \in Sapis : /\ n.link[s] \in LinkState /\ n.link[s].vs \in Nums /\ n.link[s].vr \in Nums
                              /\ n.link[s].acks \in Seq(Acks)
  BY DEF Engine, LinkState

\* The next number is a number of the link.
LEMMA NumsNext == \A x \in Nums : Next_(x) \in Nums
<1>1. Modulus \in Nat /\ Modulus > 0
  BY Rom6Assumption
<1>2. \A y \in Nat : y % Modulus \in Nums
  BY ModNext
<1> QED  BY <1>1, <1>2 DEF Nums, Next_

\* Nothing that happens leaves the channel as it is.
LEMMA ChanRefl == \A n : n \in Engine => Chan(n, n)
<1> SUFFICES ASSUME NEW n \in Engine PROVE Chan(n, n)
  OBVIOUS
<1>1. Len(n.inq) \in Nat
  BY DEF Engine
<1> QED  BY <1>1 DEF Chan

\* A frame goes out, or is dropped.
LEMMA QueueIs ==
    ASSUME NEW n, Legal(n), NEW f \in Frame
    PROVE  LET m == QueueLapdm(n, f)
           IN  /\ Legal(m) /\ Chan(n, m) /\ SameCall(n, m) /\ m.link = n.link
               /\ Len(n.q) + 2 <= DedicatedN => m.q = Append(n.q, f)
<1> DEFINE m == QueueLapdm(n, f)
           g == Append(n.q, f)
<1>1. n.q \in Seq(Frame) /\ Len(n.q) \in Nat /\ DedicatedN \in Nat /\ n \in Engine
  BY Rom6Assumption DEF Legal, Engine
<1>2. g \in Seq(Frame) /\ Len(g) = Len(n.q) + 1
  BY <1>1, InAppend
<1>3. CASE Len(n.q) >= DedicatedN - 1
  <2>1. m = n
    BY <1>3 DEF QueueLapdm
  <2> QED  BY <1>1, <1>3, <2>1, ChanRefl DEF SameCall
<1>4. CASE ~(Len(n.q) >= DedicatedN - 1)
  <2>1. m = [n EXCEPT !.q = g]
    BY <1>4 DEF QueueLapdm
  <2> HIDE DEF g, m
  <2>2. m \in Engine /\ m.q = g /\ m.link = n.link /\ SameCall(n, m) /\ m.inq = n.inq
        /\ m.conf = n.conf /\ m.rel = n.rel
    BY <1>1, <1>2, <2>1 DEF Engine, SameCall
  <2>3. Chan(n, m)
    BY <1>1, <2>2, ChanRefl DEF Chan
  <2>4. Legal(m)
    BY <1>1, <1>2, <1>4, <2>2 DEF Legal
  <2> QED  BY <2>2, <2>3, <2>4 DEF g, m
<1> QED  BY <1>3, <1>4

\* What fits goes in, all of it where there is room.
LEMMA FillIs ==
    ASSUME NEW S, NEW a \in Seq(S), NEW b \in Seq(S), NEW max \in Nat, Len(a) <= max
    PROVE  LET f == Fill(a, b, max)
           IN  /\ f \in Seq(S) /\ Len(f) <= max /\ Len(a) <= Len(f)
               /\ Len(a) + Len(b) <= max => f = a \o b
<1> DEFINE x == Len(a)
           y == Len(b)
           k == IF y <= max - x THEN y ELSE max - x
           c == SubSeq(b, 1, k)
           f == a \o c
<1>1. x \in Nat /\ y \in Nat /\ x <= max
  OBVIOUS
<1>2. Fill(a, b, max) = f
  BY DEF Fill
<1>3. \A i \in 1 .. y : b[i] \in S
  BY ElementOfSeq
<1>4. y <= max - x => c = b
  <2>1. SubSeq(b, 1, Len(b)) = b
    BY SubSeqFull
  <2> QED  BY <2>1
<1> HIDE DEF x, y
<1>5. k \in Nat /\ k <= y /\ x + k <= max /\ (x + y <= max => y <= max - x)
  BY <1>1
<1> HIDE DEF k
<1>6. c \in Seq(S) /\ Len(c) = IF 1 <= k THEN k - 1 + 1 ELSE 0
  <2>1. \A i \in 1 .. k : b[i] \in S
    BY <1>1, <1>3, <1>5
  <2> QED  BY <1>5, <2>1, SubSeqProperties
<1>7. Len(c) = k
  BY <1>5, <1>6
<1> HIDE DEF c
<1>8. f \in Seq(S) /\ Len(f) = x + k
  BY <1>6, <1>7, ConcatProperties DEF x
<1>9. Len(f) <= max /\ x <= Len(f)
  BY <1>1, <1>5, <1>8
<1>10. x + y <= max => f = a \o b
  BY <1>4, <1>5
<1> HIDE DEF f
<1> QED  BY <1>2, <1>8, <1>9, <1>10 DEF x, y

\* A function on the first numbers is a sequence.
LEMMA FcnSeq ==
    ASSUME NEW S, NEW l \in Nat, NEW g \in [1 .. l -> S]
    PROVE  g \in Seq(S) /\ Len(g) = l
  OBVIOUS

\* A number of the link, and so many further.
LEMMA NumsPlus == \A x \in Nums, i \in Nat : (x + i) % Modulus \in Nums
<1> SUFFICES ASSUME NEW x \in Nums, NEW i \in Nat PROVE (x + i) % Modulus \in Nums
  OBVIOUS
<1>1. x + i \in Nat
  BY DEF Nums
<1> QED  BY <1>1, ModNext

\* The frames of a message and their acknowledges.
LEMMA MessageIs ==
    ASSUME NEW k \in LinkState, NEW s \in Sapis, NEW kinds \in Seq(Messages)
    PROVE  LET F == [i \in DOMAIN kinds |-> IFrameOf(k, s, i, kinds[i])]
               A == [i \in DOMAIN kinds |-> AckOf(k, i, kinds[i])]
           IN  /\ F \in Seq(IFrame) /\ Len(F) = Len(kinds)
               /\ \A i \in 1 .. Len(kinds) :
                     F[i].sapi = s /\ F[i].kind = kinds[i] /\ F[i].ns = (k.vs + i - 1) % Modulus
               /\ A \in Seq(Acks) /\ Len(A) = Len(kinds)
               /\ \A i \in 1 .. Len(kinds) : A[i] = [rs |-> (k.vs + i) % Modulus, kind |-> kinds[i]]
<1> DEFINE l == Len(kinds)
           F == [i \in DOMAIN kinds |-> IFrameOf(k, s, i, kinds[i])]
           A == [i \in DOMAIN kinds |-> AckOf(k, i, kinds[i])]
<1>1. l \in Nat /\ DOMAIN kinds = 1 .. l /\ \A i \in 1 .. l : kinds[i] \in Messages
  BY ElementOfSeq
<1>2. k.vs \in Nums /\ k.vr \in Nums /\ Nums \subseteq Nat
  BY DEF LinkState, Nums
<1>3. ASSUME NEW i \in 1 .. l
      PROVE  (k.vs + i - 1) % Modulus \in Nums /\ (k.vs + i) % Modulus \in Nums
  <2>1. k.vs + i - 1 = k.vs + (i - 1) /\ i - 1 \in Nat /\ i \in Nat
    BY <1>1, <1>2
  <2> QED  BY <1>2, <2>1, NumsPlus
<1> HIDE DEF l
<1>4. ASSUME NEW i \in 1 .. l
      PROVE  /\ IFrameOf(k, s, i, kinds[i]) \in IFrame /\ AckOf(k, i, kinds[i]) \in Acks
             /\ IFrameOf(k, s, i, kinds[i]).sapi = s /\ IFrameOf(k, s, i, kinds[i]).kind = kinds[i]
             /\ IFrameOf(k, s, i, kinds[i]).ns = (k.vs + i - 1) % Modulus
  <2> DEFINE ns == (k.vs + i - 1) % Modulus
             rs == (k.vs + i) % Modulus
             kind == kinds[i]
  <2>1. ns \in Nums /\ rs \in Nums /\ kind \in Messages
    BY <1>1, <1>3
  <2>2. IFrameOf(k, s, i, kind) = [t |-> "I", sapi |-> s, ns |-> ns, nr |-> k.vr, kind |-> kind]
    BY DEF IFrameOf
  <2>3. AckOf(k, i, kind) = [rs |-> rs, kind |-> kind]
    BY DEF AckOf
  <2> HIDE DEF ns, rs, kind
  <2>4. [t |-> "I", sapi |-> s, ns |-> ns, nr |-> k.vr, kind |-> kind] \in IFrame
    BY <1>2, <2>1 DEF IFrame
  <2>5. [rs |-> rs, kind |-> kind] \in Acks
    BY <2>1 DEF Acks
  <2>6. /\ IFrameOf(k, s, i, kind) \in IFrame /\ AckOf(k, i, kind) \in Acks
        /\ IFrameOf(k, s, i, kind).sapi = s /\ IFrameOf(k, s, i, kind).kind = kind
        /\ IFrameOf(k, s, i, kind).ns = ns
    BY <2>2, <2>3, <2>4, <2>5
  <2> QED  BY <2>6 DEF kind, ns
<1>5. F = [i \in 1 .. l |-> IFrameOf(k, s, i, kinds[i])] /\ A = [i \in 1 .. l |-> AckOf(k, i, kinds[i])]
  BY <1>1
<1>6. ASSUME NEW S, NEW g, DOMAIN g = 1 .. l, g = [i \in 1 .. l |-> g[i]], \A i \in 1 .. l : g[i] \in S
      PROVE  g \in Seq(S) /\ Len(g) = l
  <2>1. g \in [1 .. l -> S]
    BY <1>6
  <2> QED  BY <1>1, <2>1, FcnSeq
<1>7. F \in Seq(IFrame) /\ Len(F) = l
  <2>1. DOMAIN F = 1 .. l /\ F = [i \in 1 .. l |-> F[i]] /\ \A i \in 1 .. l : F[i] \in IFrame
    BY <1>4, <1>5
  <2> HIDE DEF F
  <2> QED  BY <1>6, <2>1
<1>8. A \in Seq(Acks) /\ Len(A) = l
  <2>1. DOMAIN A = 1 .. l /\ A = [i \in 1 .. l |-> A[i]] /\ \A i \in 1 .. l : A[i] \in Acks
    BY <1>4, <1>5
  <2> HIDE DEF A
  <2> QED  BY <1>6, <2>1
<1>9. ASSUME NEW i \in 1 .. l
      PROVE  /\ F[i].sapi = s /\ F[i].kind = kinds[i] /\ F[i].ns = (k.vs + i - 1) % Modulus
             /\ A[i] = [rs |-> (k.vs + i) % Modulus, kind |-> kinds[i]]
  <2>1. F[i] = IFrameOf(k, s, i, kinds[i]) /\ A[i] = AckOf(k, i, kinds[i])
    BY <1>5
  <2> HIDE DEF F, A
  <2> QED  BY <1>4, <2>1 DEF AckOf
<1> HIDE DEF F, A
<1> QED  BY <1>7, <1>8, <1>9 DEF l, F, A

\* A message goes out with its acknowledges, where there is room for them.
LEMMA SendIIs ==
    ASSUME NEW n, Legal(n), NEW s \in Sapis, NEW kinds \in Seq(Messages)
    PROVE  LET m == SendI(n, s, kinds)
           IN  /\ Legal(m) /\ Chan(n, m) /\ SameCall(n, m) /\ Kept(n, m) /\ m.size = n.size
               /\ SpaceFor(n, s, Len(kinds)) => Sent(n, m, s, kinds)
<1> DEFINE k == n.link[s]
           F == [i \in DOMAIN kinds |-> IFrameOf(k, s, i, kinds[i])]
           A == [i \in DOMAIN kinds |-> AckOf(k, i, kinds[i])]
           g == Fill(n.q, F, DedicatedN - 1)
           h == Fill(k.acks, A, AckN)
           vs == (k.vs + Len(kinds)) % Modulus
           l == [k EXCEPT !.vs = vs, !.acks = h]
           m == [n EXCEPT !.q = g, !.link[s] = l]
<1>1. n \in Engine /\ k \in LinkState /\ n.q \in Seq(Frame) /\ Len(n.q) \in Nat /\ Len(kinds) \in Nat
      /\ DedicatedN \in Nat /\ AckN \in Nat /\ Len(n.q) < DedicatedN
  BY Rom6Assumption DEF Legal, Engine
<1>2. k.acks \in Seq(Acks) /\ Len(k.acks) \in Nat /\ Len(k.acks) <= AckN /\ k.vs \in Nums
  <2>1. k.acks \in Seq(Acks) /\ k.vs \in Nums
    BY <1>1 DEF LinkState
  <2> QED  BY <2>1 DEF Legal
<1>3. /\ F \in Seq(IFrame) /\ Len(F) = Len(kinds)
      /\ \A i \in 1 .. Len(kinds) :
            F[i].sapi = s /\ F[i].kind = kinds[i] /\ F[i].ns = (k.vs + i - 1) % Modulus
      /\ A \in Seq(Acks) /\ Len(A) = Len(kinds)
      /\ \A i \in 1 .. Len(kinds) : A[i] = [rs |-> (k.vs + i) % Modulus, kind |-> kinds[i]]
  <2> HIDE DEF k
  <2> QED  BY <1>1, MessageIs, ZenonT(60)
<1>4. SendI(n, s, kinds) = m
  <2>1. k = n.link[s] /\ n \in Engine
    BY <1>1
  <2>2. SendI(n, s, kinds) = [n EXCEPT !.q = g, !.link[s].vs = vs, !.link[s].acks = h]
    BY DEF SendI
  <2>3. n.link \in [Sapis -> LinkState]
    BY <1>1, EngineFields
  <2> HIDE DEF g, h, vs
  <2>4. [n EXCEPT !.q = g, !.link[s].vs = vs, !.link[s].acks = h] = m
    BY <1>1, <2>3, ZenonT(40) DEF Engine, LinkState
  <2> QED  BY <2>2, <2>4
<1>5. vs \in Nums
  BY <1>1, <1>2, NumsPlus
<1>6. F \in Seq(Frame)
  <2>1. IFrame \subseteq Frame
    BY DEF Frame
  <2> HIDE DEF F
  <2> QED  BY <1>3, <2>1, SeqMonotonic
<1> HIDE DEF F, A
<1>7. g \in Seq(Frame) /\ Len(g) <= DedicatedN - 1 /\ (Len(n.q) + Len(F) <= DedicatedN - 1 => g = n.q \o F)
  <2>1. DedicatedN - 1 \in Nat /\ Len(n.q) <= DedicatedN - 1
    BY <1>1
  <2> QED  BY <1>1, <1>6, <2>1, FillIs
<1>8. h \in Seq(Acks) /\ Len(h) <= AckN /\ Len(k.acks) <= Len(h)
      /\ (Len(k.acks) + Len(A) <= AckN => h = k.acks \o A)
  <2>1. AckN \in Nat /\ A \in Seq(Acks)
    BY <1>1, <1>3
  <2> HIDE DEF k
  <2> QED  BY <1>2, <2>1, FillIs
<1> HIDE DEF g, h, vs
<1>9. l \in LinkState /\ l.vs = vs /\ l.acks = h
  <2> HIDE DEF k
  <2> QED  BY <1>1, <1>5, <1>8 DEF LinkState
<1> HIDE DEF l
<1>10. /\ m \in Engine /\ m.q = g /\ m.link[s] = l /\ m.inq = n.inq /\ m.conf = n.conf /\ m.rel = n.rel
       /\ m.reg = n.reg /\ m.svc = n.svc /\ m.call = n.call /\ m.setup = n.setup /\ m.size = n.size
       /\ \A o \in Sapis : o # s => m.link[o] = n.link[o]
  BY <1>1, <1>7, <1>9 DEF Engine
<1> HIDE DEF m
<1>11. Legal(m)
  <2>1. Len(m.q) < DedicatedN
    <3>1. Len(g) \in Nat
      BY <1>7
    <3> QED  BY <1>1, <1>7, <1>10, <3>1
  <2>2. ASSUME NEW o \in Sapis PROVE Len(m.link[o].acks) <= AckN
    BY <1>8, <1>9, <1>10 DEF Legal
  <2> QED  BY <1>10, <2>1, <2>2 DEF Legal
<1>12. Chan(n, m) /\ SameCall(n, m)
  <2>1. Len(n.inq) \in Nat
    BY <1>1, EngineFields
  <2> QED  BY <1>10, <2>1 DEF Chan, SameCall
<1>13. Kept(n, m)
  <2> SUFFICES ASSUME NEW o \in Sapis PROVE Len(n.link[o].acks) <= Len(m.link[o].acks)
    BY DEF Kept
  <2>1. CASE o = s
    BY <1>8, <1>9, <1>10, <2>1
  <2>2. CASE o # s
    <3> DEFINE y == Len(n.link[o].acks)
    <3>1. y \in Nat
      BY <1>1, EngineFields
    <3> HIDE DEF y
    <3>2. y <= y
      BY <3>1
    <3> QED  BY <1>10, <2>2, <3>2 DEF y
  <2> QED  BY <2>1, <2>2
<1>14. ASSUME SpaceFor(n, s, Len(kinds)) PROVE Sent(n, m, s, kinds)
  <2>1. Len(n.q) + Len(F) <= DedicatedN - 1 /\ Len(k.acks) + Len(A) <= AckN
    <3>1. Len(n.q) + Len(kinds) + 1 <= DedicatedN /\ Len(k.acks) + Len(kinds) <= AckN
      BY <1>14 DEF SpaceFor
    <3> HIDE DEF k
    <3> QED  BY <1>1, <1>3, <3>1
  <2>2. m.q = n.q \o F
    BY <1>7, <1>10, <2>1
  <2>3. m.link[s].acks = k.acks \o A
    BY <1>8, <1>9, <1>10, <2>1
  <2>4. m.link[s].vs = (k.vs + Len(kinds)) % Modulus
    BY <1>9, <1>10 DEF vs
  <2> QED  BY <1>3, <1>10, <2>2, <2>3, <2>4 DEF Sent
<1> QED  BY <1>4, <1>10, <1>11, <1>12, <1>13, <1>14

-----------------------------------------------------------------------------
(* A step of the engine, as the proof of InStep sees it. *)

Has(F, kind) == \E f \in F : IsI(f, 0) /\ f.kind = kind
NoI(F, s)    == \A f \in F : ~IsI(f, s)
NoOpen(F, s) == \A f \in F : ~Opens(f, s)

\* What may not come after a frame: information before the opening of its link, a
\* second opening of the short-message link, an opening after the release, and
\* anything on the main link after an assignment.
Ok(f, g) ==
    /\ \A s \in Sapis : IsI(f, s) \/ Opens(f, s) => ~Opens(g, s)
    /\ IsI(f, 0) /\ f.kind = "CHAN_REL" => g.t # "SABM"
    /\ IsI(f, 0) /\ f.kind = "ASSIGNMENT_CMD" => ~IsI(g, 0)
    /\ IsI(f, 0) /\ f.kind = "CIPHER_COMMAND" => ~(IsI(g, 0) /\ g.kind = "CIPHER_COMMAND")

Order(q) == \A i, j \in 1 .. Len(q) : i < j => Ok(q[i], q[j])

\* What waits for a link runs from the number the phone expects up to V(S), and
\* ends the ring of acknowledges, with at least d older ones before it; the last
\* of those has the number the phone expects.
Tracks(n, s, from, d) ==
    LET w == Info(n.q, s)
        k == n.link[s]
    IN  /\ \A i \in 1 .. Len(w) : w[i].ns = (from + i - 1) % Modulus
        /\ k.vs = (from + Len(w)) % Modulus
        /\ Len(w) + d <= Len(k.acks)
        /\ \A i \in 1 .. Len(w) :
              k.acks[Len(k.acks) - Len(w) + i] = [rs |-> Next_(w[i].ns), kind |-> w[i].kind]
        /\ Len(w) < Len(k.acks) => k.acks[Len(k.acks) - Len(w)].rs = from

Keeps(n, m) ==
    \A s \in Sapis, from \in Nums, d \in Nat : Tracks(n, s, from, d) => Tracks(m, s, from, d)
Adds(n, m, S) == In(n.q) \subseteq In(m.q) /\ In(m.q) \subseteq In(n.q) \cup S
Grows(n, m, c) ==
    /\ Len(m.q) <= Len(n.q) + c
    /\ \A s \in Sapis : Len(m.link[s].acks) <= Len(n.link[s].acks) + c

Clear(F) == ~Has(F, "ASSIGNMENT_CMD")

\* From n to m at most c frames are queued, all of them from S.
Step(n, m, S, c) ==
    /\ Legal(m) /\ Chan(n, m) /\ Keeps(n, m) /\ Adds(n, m, S) /\ Grows(n, m, c)
    /\ Order(n.q) /\ Clear(In(n.q)) => Order(m.q)

\* Sets of frames: information for a link, and receive ready.
I(s, K) == {f \in IFrame : f.sapi = s /\ f.kind \in K}
Rr == [t : {"RR"}, sapi : Sapis, nr : Nums]

\* The types of a legal engine's queue, rings and waiting information.
LEMMA LegalFields ==
    ASSUME NEW n, Legal(n)
    PROVE  /\ n \in Engine /\ n.q \in Seq(Frame) /\ Len(n.q) \in Nat /\ n.inq \in Seq(Services) /\ Len(n.inq) \in Nat
           /\ \A s \in Sapis : /\ n.link[s] \in LinkState /\ n.link[s].vs \in Nums /\ n.link[s].acks \in Seq(Acks)
                              /\ Len(n.link[s].acks) \in Nat /\ Info(n.q, s) \in Seq(IFrame)
                              /\ Len(Info(n.q, s)) \in Nat
<1>1. n \in Engine
  BY DEF Legal
<1>2. n.q \in Seq(Frame) /\ n.inq \in Seq(Services) /\ \A s \in Sapis : n.link[s] \in LinkState
  BY <1>1 DEF Engine
<1>3. ASSUME NEW s \in Sapis PROVE Info(n.q, s) \in Seq(IFrame)
  <2> DEFINE T == {e \in In(n.q) : IsI(e, s)}
  <2>1. Info(n.q, s) \in Seq(T)
    BY <1>2, InfoType
  <2>2. T \subseteq IFrame
    <3>1. In(n.q) \subseteq Frame
      BY <1>2, InEmpty
    <3>2. \A e \in Frame : e.t = "I" => e \in IFrame
      BY DEF Frame
    <3> QED  BY <3>1, <3>2 DEF IsI
  <2> HIDE DEF T
  <2> QED  BY <2>1, <2>2, SeqMonotonic
<1>4. ASSUME NEW s \in Sapis
      PROVE  /\ n.link[s].vs \in Nums /\ n.link[s].acks \in Seq(Acks) /\ Len(n.link[s].acks) \in Nat
             /\ Len(Info(n.q, s)) \in Nat
  <2>1. n.link[s].vs \in Nums /\ n.link[s].acks \in Seq(Acks)
    BY <1>2 DEF LinkState
  <2> QED  BY <1>3, <2>1
<1> QED  BY <1>1, <1>2, <1>3, <1>4

\* Sums of natural numbers that the room for frames comes down to.
LEMMA Sums ==
    ASSUME NEW x \in Nat, NEW y \in Nat, NEW c \in Nat, NEW d \in Nat, y <= x + c
    PROVE  /\ \A z \in Nat : z <= y + d => z <= x + (c + d)
           /\ \A z \in Nat : x + (c + d) <= z => y + d <= z
           /\ \A z \in Nat : x + (c + d) + 1 <= z => y + d + 1 <= z
  OBVIOUS

\* What c frames leave of the room for c + d.
LEMMA SpaceAfter ==
    ASSUME NEW n, Legal(n), NEW m, Legal(m), NEW c \in Nat, NEW d \in Nat, Grows(n, m, c), Space(n, c + d)
    PROVE  Space(m, d)
<1>1. DedicatedN \in Nat /\ AckN \in Nat /\ Len(n.q) \in Nat /\ Len(m.q) \in Nat
  BY LegalFields, Rom6Assumption
<1>2. Len(m.q) + d + 1 <= DedicatedN
  <2>1. Len(m.q) <= Len(n.q) + c
    BY DEF Grows
  <2>2. Len(n.q) + (c + d) + 1 <= DedicatedN
    BY DEF Space
  <2> QED  BY <1>1, <2>1, <2>2, Sums
<1>3. ASSUME NEW s \in Sapis PROVE Len(m.link[s].acks) + d <= AckN
  <2> DEFINE x == Len(n.link[s].acks)
             y == Len(m.link[s].acks)
  <2>1. x \in Nat /\ y \in Nat
    BY LegalFields
  <2>2. y <= x + c
    BY DEF Grows
  <2>3. x + (c + d) <= AckN
    BY DEF Space
  <2> HIDE DEF x, y
  <2>4. y + d <= AckN
    BY <1>1, <2>1, <2>2, <2>3
  <2> QED  BY <2>4 DEF y
<1> QED  BY <1>2, <1>3 DEF Space

\* Nothing that happens is a step.
LEMMA StepRefl ==
    ASSUME NEW n, Legal(n), NEW S, NEW c \in Nat
    PROVE  Step(n, n, S, c)
<1>1. Chan(n, n)
  BY ChanRefl DEF Legal
<1>2. Grows(n, n, c)
  BY LegalFields DEF Grows
<1> QED  BY <1>1, <1>2 DEF Step, Keeps, Adds

\* Two steps are one, if the first assigns no channel.
LEMMA StepTrans ==
    ASSUME NEW n, Legal(n), NEW m, NEW l, NEW S, NEW T, NEW c \in Nat, NEW d \in Nat,
           Step(n, m, S, c), Step(m, l, T, d), Clear(S)
    PROVE  Step(n, l, S \cup T, c + d)
<1>1. Legal(m) /\ Legal(l)
  BY DEF Step
<1>2. Chan(n, l)
  <2>1. Len(n.inq) \in Nat /\ Len(m.inq) \in Nat /\ Len(l.inq) \in Nat
    BY <1>1, LegalFields
  <2> QED  BY <2>1 DEF Step, Chan
<1>3. Keeps(n, l)
  BY DEF Step, Keeps
<1>4. Adds(n, l, S \cup T)
  BY DEF Step, Adds
<1>5. Grows(n, l, c + d)
  <2>1. Len(n.q) \in Nat /\ Len(m.q) \in Nat /\ Len(l.q) \in Nat
    BY <1>1, LegalFields
  <2>2. ASSUME NEW s \in Sapis PROVE Len(l.link[s].acks) <= Len(n.link[s].acks) + (c + d)
    <3> DEFINE x == Len(n.link[s].acks)
               y == Len(m.link[s].acks)
               z == Len(l.link[s].acks)
    <3>1. x \in Nat /\ y \in Nat /\ z \in Nat
      BY <1>1, LegalFields
    <3>2. y <= x + c /\ z <= y + d
      BY DEF Step, Grows
    <3> HIDE DEF x, y, z
    <3>3. z <= x + (c + d)
      BY <3>1, <3>2
    <3> QED  BY <3>3 DEF x, z
  <2>3. Len(l.q) <= Len(n.q) + (c + d)
    <3>1. Len(m.q) <= Len(n.q) + c
      BY DEF Step, Grows
    <3>2. Len(l.q) <= Len(m.q) + d
      BY DEF Step, Grows
    <3> QED  BY <2>1, <3>1, <3>2, Sums
  <2> QED  BY <2>2, <2>3 DEF Grows
<1>6. Order(n.q) /\ Clear(In(n.q)) => Order(l.q)
  <2> SUFFICES ASSUME Order(n.q), Clear(In(n.q)) PROVE Order(l.q)
    OBVIOUS
  <2>1. Order(m.q)
    BY DEF Step
  <2>2. Clear(In(m.q))
    BY DEF Step, Adds, Clear, Has
  <2> QED  BY <2>1, <2>2 DEF Step
<1> QED  BY <1>1, <1>2, <1>3, <1>4, <1>5, <1>6 DEF Step

\* A step may take its frames from a larger set.
LEMMA StepMore ==
    ASSUME NEW n, NEW m, NEW S, NEW T, NEW c, Step(n, m, S, c), S \subseteq T
    PROVE  Step(n, m, T, c)
  BY DEF Step, Adds

\* One frame more.
LEMMA OrderAppend ==
    ASSUME NEW q \in Seq(Frame), NEW f \in Frame, Order(q), \A g \in In(q) : Ok(g, f)
    PROVE  Order(Append(q, f))
<1> DEFINE a == Append(q, f)
<1>1. Len(a) = Len(q) + 1 /\ (\A i \in 1 .. Len(q) : a[i] = q[i]) /\ a[Len(q) + 1] = f /\ Len(q) \in Nat
  BY InAppend
<1> HIDE DEF a
<1>2. ASSUME NEW i \in 1 .. Len(a), NEW j \in 1 .. Len(a), i < j PROVE Ok(a[i], a[j])
  <2>1. i \in 1 .. Len(q) /\ a[i] = q[i]
    BY <1>1, <1>2
  <2>2. CASE j = Len(q) + 1
    <3>1. q[i] \in In(q) /\ a[j] = f
      BY <1>1, <2>1, <2>2 DEF In
    <3> QED  BY <2>1, <3>1
  <2>3. CASE j # Len(q) + 1
    <3>1. j \in 1 .. Len(q) /\ a[j] = q[j]
      BY <1>1, <1>2, <2>3
    <3> QED  BY <1>2, <2>1, <3>1 DEF Order
  <2> QED  BY <2>2, <2>3
<1>3. Order(a)
  BY <1>2 DEF Order
<1> QED  BY <1>3 DEF a

\* The rest of a queue in order is in order, and may follow its head.
LEMMA OrderTail ==
    ASSUME NEW q \in Seq(Frame), q # <<>>, Order(q)
    PROVE  Order(Tail(q)) /\ \A g \in In(Tail(q)) : Ok(Head(q), g)
<1> DEFINE a == Tail(q)
<1>1. Len(q) = Len(a) + 1 /\ Len(a) \in Nat /\ (\A i \in 1 .. Len(a) : a[i] = q[i + 1]) /\ Head(q) = q[1]
  BY InTail
<1> HIDE DEF a
<1>2. ASSUME NEW i \in 1 .. Len(a), NEW j \in 1 .. Len(a), i < j PROVE Ok(a[i], a[j])
  <2>1. i + 1 \in 1 .. Len(q) /\ j + 1 \in 1 .. Len(q) /\ i + 1 < j + 1
    BY <1>1, <1>2
  <2>2. Ok(q[i + 1], q[j + 1])
    BY <2>1 DEF Order
  <2> QED  BY <1>1, <2>2
<1>3. ASSUME NEW g \in In(a) PROVE Ok(Head(q), g)
  <2>1. PICK i \in 1 .. Len(a) : g = a[i]
    BY <1>3 DEF In
  <2>2. 1 \in 1 .. Len(q) /\ i + 1 \in 1 .. Len(q) /\ 1 < i + 1
    BY <1>1, <2>1
  <2>3. Ok(q[1], q[i + 1])
    BY <2>2 DEF Order
  <2> QED  BY <1>1, <2>1, <2>3
<1>4. Order(a) /\ \A g \in In(a) : Ok(Head(q), g)
  BY <1>2, <1>3 DEF Order
<1> QED  BY <1>4 DEF a

-----------------------------------------------------------------------------
(* One frame sent. *)

\* A frame that is no information leaves what waits for a link as it is.
LEMMA TracksOther ==
    ASSUME NEW n, Legal(n), NEW m, Legal(m), NEW s \in Sapis, NEW f \in Frame, ~IsI(f, s),
           m.q = Append(n.q, f) \/ m.q = n.q, m.link[s].vs = n.link[s].vs, m.link[s].acks = n.link[s].acks
    PROVE  \A from \in Nums, d \in Nat : Tracks(n, s, from, d) => Tracks(m, s, from, d)
<1>1. Info(m.q, s) = Info(n.q, s)
  BY InfoAppend, LegalFields
<1> QED  BY <1>1 DEF Tracks

\* A message sent with its acknowledges keeps every link in step.
LEMMA SentTracks ==
    ASSUME NEW n, Legal(n), NEW m, Legal(m), NEW s \in Sapis, NEW kinds \in Seq(Messages),
           Sent(n, m, s, kinds), NEW from \in Nums, NEW d \in Nat, Tracks(n, s, from, d)
    PROVE  Tracks(m, s, from, d)
<1> DEFINE w == Info(n.q, s)
           v == Info(m.q, s)
           ka == n.link[s].acks
           la == m.link[s].acks
           vs == n.link[s].vs
           k == Len(w)
           L == Len(ka)
           c == Len(kinds)
<1>0. c \in Nat
  OBVIOUS
<1>1. PICK F \in Seq(IFrame) :
             /\ Len(F) = c /\ m.q = n.q \o F
             /\ \A i \in 1 .. c : F[i].sapi = s /\ F[i].kind = kinds[i] /\ F[i].ns = (vs + i - 1) % Modulus
  BY DEF Sent
<1>2. w \in Seq(IFrame) /\ k \in Nat /\ ka \in Seq(Acks) /\ L \in Nat /\ vs \in Nums /\ n.q \in Seq(Frame)
  BY LegalFields
<1>3. PICK A \in Seq(Acks) :
             /\ Len(A) = c /\ la = ka \o A
             /\ \A i \in 1 .. c : A[i] = [rs |-> (vs + i) % Modulus, kind |-> kinds[i]]
  BY DEF Sent
<1>4. v = w \o F
  <2>1. \A i \in 1 .. Len(F) : F[i].sapi = s
    BY <1>1
  <2> QED  BY <1>1, <1>2, <2>1, InfoConcat, SMTT(30)
<1>5. m.link[s].vs = (vs + c) % Modulus
  BY DEF Sent
<1>6. /\ \A i \in 1 .. k : w[i].ns = (from + i - 1) % Modulus
      /\ vs = (from + k) % Modulus
      /\ k + d <= L
      /\ \A i \in 1 .. k : ka[L - k + i] = [rs |-> Next_(w[i].ns), kind |-> w[i].kind]
      /\ k < L => ka[L - k].rs = from
  BY DEF Tracks
<1> HIDE DEF w, v, ka, la, vs, c
<1>7. Len(v) = k + c /\ \A i \in 1 .. k + c : v[i] = IF i <= k THEN w[i] ELSE F[i - k]
  BY <1>1, <1>2, <1>4, ConcatProperties
<1>8. Len(la) = L + c /\ \A i \in 1 .. L + c : la[i] = IF i <= L THEN ka[i] ELSE A[i - L]
  BY <1>2, <1>3, ConcatProperties
<1> HIDE DEF k, L
<1>9. from \in Nat /\ Modulus \in Nat
  BY Rom6Assumption DEF Nums
<1>10. \A i \in Nat : (vs + i) % Modulus = (from + k + i) % Modulus
  <2>1. from + k \in Nat
    BY <1>2, <1>9
  <2> QED  BY <1>6, <2>1, ModPlus
<1>15. k <= L
  <2>1. k + d <= L
    BY <1>6
  <2> QED  BY <1>2, <2>1
<1>11. m.link[s].vs = (from + (k + c)) % Modulus
  <2>1. from + k + c = from + (k + c)
    BY <1>0, <1>2, <1>9 DEF c
  <2> QED  BY <1>0, <1>5, <1>10, <2>1 DEF c
<1>12. ASSUME NEW i \in 1 .. k + c
       PROVE  /\ v[i].ns = (from + i - 1) % Modulus
              /\ la[(L + c) - (k + c) + i] = [rs |-> Next_(v[i].ns), kind |-> v[i].kind]
  <2>0. c \in Nat
    BY <1>0 DEF c
  <2>1. CASE i <= k
    <3>1. i \in 1 .. k /\ (L + c) - (k + c) + i = L - k + i /\ L - k + i \in 1 .. L + c /\ L - k + i <= L
      BY <1>2, <1>15, <2>0, <2>1
    <3>2. la[L - k + i] = ka[L - k + i] /\ v[i] = w[i]
      BY <1>7, <1>8, <2>1, <3>1
    <3> QED  BY <1>6, <3>1, <3>2
  <2>2. CASE ~(i <= k)
    <3> DEFINE j == i - k
    <3>1. /\ j \in 1 .. c /\ (L + c) - (k + c) + i = L + j /\ L + j \in 1 .. L + c /\ ~(L + j <= L)
          /\ (L + j) - L = j /\ j - 1 \in Nat /\ j \in Nat /\ i = k + j
      BY <1>2, <1>15, <2>0, <2>2
    <3>2. la[L + j] = A[j] /\ v[i] = F[j]
      BY <1>7, <1>8, <2>2, <3>1
    <3> HIDE DEF j
    <3>3. /\ v[i].ns = (vs + j - 1) % Modulus /\ v[i].kind = kinds[j]
          /\ A[j] = [rs |-> (vs + j) % Modulus, kind |-> kinds[j]]
      BY <1>1, <1>3, <3>1, <3>2
    <3>4. vs + j - 1 = vs + (j - 1) /\ from + k + (j - 1) = from + i - 1 /\ vs + (j - 1) \in Nat
          /\ (vs + (j - 1)) + 1 = vs + j
      BY <1>2, <1>9, <3>1 DEF Nums
    <3>5. v[i].ns = (from + i - 1) % Modulus
      BY <1>10, <3>1, <3>3, <3>4
    <3>6. Next_((vs + (j - 1)) % Modulus) = (vs + j) % Modulus
      BY <3>4, ModNext
    <3> QED  BY <3>1, <3>2, <3>3, <3>4, <3>5, <3>6
  <2> QED  BY <2>1, <2>2
<1>13. (k + c) + d <= L + c
  BY <1>0, <1>2, <1>6 DEF c
<1>14. k + c < L + c => la[(L + c) - (k + c)].rs = from
  <2>1. k + c < L + c => /\ k < L /\ (L + c) - (k + c) = L - k /\ L - k \in 1 .. L + c /\ L - k <= L
    BY <1>0, <1>2 DEF c
  <2> QED  BY <1>6, <1>8, <2>1
<1> QED  BY <1>7, <1>8, <1>11, <1>12, <1>13, <1>14 DEF Tracks, v, la

\* Frames that may follow what is in the queue, and one another.
LEMMA OrderConcat ==
    ASSUME NEW q \in Seq(Frame), NEW F \in Seq(Frame), Order(q), Order(F),
           \A g \in In(q), f \in In(F) : Ok(g, f)
    PROVE  Order(q \o F)
<1> DEFINE a == q \o F
           k == Len(q)
           c == Len(F)
<1>1. k \in Nat /\ c \in Nat /\ Len(a) = k + c
      /\ \A i \in 1 .. k + c : a[i] = IF i <= k THEN q[i] ELSE F[i - k]
  BY ConcatProperties
<1> HIDE DEF a, k, c
<1>2. ASSUME NEW i \in 1 .. k + c, NEW j \in 1 .. k + c, i < j PROVE Ok(a[i], a[j])
  <2>1. CASE j <= k
    <3>1. i \in 1 .. k /\ j \in 1 .. k /\ i <= k
      BY <1>1, <1>2, <2>1
    <3> QED  BY <1>1, <1>2, <2>1, <3>1 DEF Order, k
  <2>2. CASE i <= k /\ ~(j <= k)
    <3>1. i \in 1 .. k /\ j - k \in 1 .. c
      BY <1>1, <1>2, <2>2
    <3>2. q[i] \in In(q) /\ F[j - k] \in In(F)
      BY <3>1 DEF In, k, c
    <3> QED  BY <1>1, <2>2, <3>2
  <2>3. CASE ~(i <= k) /\ ~(j <= k)
    <3>1. i - k \in 1 .. c /\ j - k \in 1 .. c /\ i - k < j - k
      BY <1>1, <1>2, <2>3
    <3>2. Ok(F[i - k], F[j - k])
      BY <3>1 DEF Order, c
    <3> QED  BY <1>1, <2>3, <3>2
  <2>4. j <= k \/ (i <= k /\ ~(j <= k)) \/ (~(i <= k) /\ ~(j <= k))
    BY <1>1, <1>2
  <2> QED  BY <2>1, <2>2, <2>3, <2>4
<1>3. Order(a)
  BY <1>1, <1>2 DEF Order
<1> QED  BY <1>3 DEF a

\* Kinds of a message that is sent: an assignment, and the start of the cipher, alone.
Alone(kinds) == Len(kinds) = 1 \/ \A i \in 1 .. Len(kinds) : kinds[i] \notin {"ASSIGNMENT_CMD", "CIPHER_COMMAND"}

\* It is a step of so many frames.
LEMMA SentStep ==
    ASSUME NEW n, Legal(n), NEW m, Legal(m), Chan(n, m), NEW s \in Sapis, NEW kinds \in Seq(Messages),
           Sent(n, m, s, kinds), Alone(kinds), NEW K, In(kinds) \subseteq K,
           "CIPHER_COMMAND" \in K => NoI(In(n.q), 0)
    PROVE  Step(n, m, I(s, K), Len(kinds))
<1> DEFINE c == Len(kinds)
<1>0. c \in Nat
  OBVIOUS
<1>1. PICK F \in Seq(IFrame) :
             /\ Len(F) = c /\ m.q = n.q \o F
             /\ \A i \in 1 .. c : F[i].sapi = s /\ F[i].kind = kinds[i]
  BY DEF Sent
<1>2. n.q \in Seq(Frame) /\ F \in Seq(Frame)
  <2>1. IFrame \subseteq Frame
    BY DEF Frame
  <2> QED  BY <2>1, LegalFields, SeqMonotonic
<1>3. ASSUME NEW f \in In(F) PROVE f \in I(s, K) /\ f.t = "I" /\ f.sapi = s /\ f.kind \in In(kinds)
  <2>1. PICK i \in 1 .. c : f = F[i]
    BY <1>1, <1>3 DEF In
  <2>2. f \in IFrame /\ f.sapi = s /\ f.kind = kinds[i]
    BY <1>1, <2>1, ElementOfSeq
  <2>3. kinds[i] \in In(kinds)
    BY <2>1 DEF In
  <2> QED  BY <2>2, <2>3 DEF I, IFrame
<1>4. Adds(n, m, I(s, K)) /\ Len(m.q) = Len(n.q) + c
  <2>1. In(m.q) = In(n.q) \cup In(F)
    BY <1>1, <1>2, InConcat
  <2>2. Len(m.q) = Len(n.q) + Len(F)
    BY <1>1, <1>2, ConcatProperties, ZenonT(40)
  <2> QED  BY <1>1, <1>3, <2>1, <2>2 DEF Adds
<1>5. Keeps(n, m)
  <2> SUFFICES ASSUME NEW o \in Sapis, NEW from \in Nums, NEW d \in Nat, Tracks(n, o, from, d)
               PROVE  Tracks(m, o, from, d)
    BY DEF Keeps
  <2>1. CASE o = s
    BY <2>1, SentTracks
  <2>2. CASE o # s
    <3>1. Info(m.q, o) = Info(n.q, o)
      <4>1. \A i \in 1 .. Len(F) : F[i].sapi = s
        BY <1>1
      <4> DEFINE q == n.q
      <4>2. q \in Seq(Frame)
        BY <1>2
      <4> HIDE DEF q
      <4>3. Info(q \o F, s) = Info(q, s) \o F
        BY <4>1, <4>2, InfoConcat
      <4>4. Info(q \o F, o) = Info(q, o)
        BY <2>2, <4>1, <4>2, <4>3, InfoConcat
      <4> QED  BY <1>1, <4>4 DEF q
    <3>2. m.link[o] = n.link[o]
      BY <2>2 DEF Sent
    <3> QED  BY <3>1, <3>2 DEF Tracks
  <2> QED  BY <2>1, <2>2
<1>6. Grows(n, m, c)
  <2>1. ASSUME NEW o \in Sapis PROVE Len(m.link[o].acks) <= Len(n.link[o].acks) + c
    <3> DEFINE x == Len(n.link[o].acks)
               y == Len(m.link[o].acks)
    <3>1. x \in Nat /\ y \in Nat
      BY LegalFields
    <3>2. y = x \/ y = x + c
      <4>1. CASE o = s
        <5>1. n.link[s].acks \in Seq(Acks)
          BY LegalFields
        <5>2. PICK A \in Seq(Acks) : Len(A) = c /\ m.link[s].acks = n.link[s].acks \o A
          BY DEF Sent
        <5>3. Len(m.link[s].acks) = Len(n.link[s].acks) + Len(A)
          BY <5>1, <5>2, ConcatProperties
        <5> QED  BY <4>1, <5>2, <5>3
      <4>2. CASE o # s
        BY <4>2 DEF Sent
      <4> QED  BY <4>1, <4>2
    <3> HIDE DEF x, y, c
    <3>3. y <= x + c
      BY <1>0, <3>1, <3>2 DEF c
    <3> QED  BY <3>3 DEF x, y
  <2>2. Len(m.q) <= Len(n.q) + c
    <3> DEFINE x == Len(n.q)
               y == Len(m.q)
    <3>1. x \in Nat /\ y = x + c
      BY <1>4, LegalFields
    <3> HIDE DEF x, y, c
    <3>2. y <= x + c
      BY <1>0, <3>1 DEF c
    <3> QED  BY <3>2 DEF x, y
  <2> QED  BY <2>1, <2>2 DEF Grows
<1>7. ASSUME Order(n.q), Clear(In(n.q)) PROVE Order(m.q)
  <2>1. ASSUME NEW g \in In(n.q), NEW f \in In(F) PROVE Ok(g, f)
    <3>0. f.t = "I" /\ f.kind \in K
      BY <1>3, <2>1
    <3>1. \A o \in Sapis : ~Opens(f, o)
      BY <3>0 DEF Opens
    <3>2. f.t # "SABM"
      BY <3>0
    <3>3. ~(IsI(g, 0) /\ g.kind = "ASSIGNMENT_CMD")
      BY <1>7 DEF Clear, Has
    <3>4. IsI(g, 0) => f.kind # "CIPHER_COMMAND"
      BY <3>0 DEF NoI
    <3> QED  BY <3>1, <3>2, <3>3, <3>4 DEF Ok
  <2>2. Order(F)
    <3> SUFFICES ASSUME NEW i \in 1 .. c, NEW j \in 1 .. c, i < j PROVE Ok(F[i], F[j])
      BY <1>1 DEF Order
    <3>1. c # 1
      <4> HIDE DEF c
      <4> QED  BY <1>0
    <3>2. F[i] \in In(F) /\ F[j] \in In(F)
      BY <1>1 DEF In
    <3>3. F[i].kind \notin {"ASSIGNMENT_CMD", "CIPHER_COMMAND"}
      BY <1>1, <3>1 DEF Alone
    <3>4. F[i].t = "I" /\ F[j].t = "I"
      BY <1>3, <3>2
    <3> HIDE DEF c
    <3> QED  BY <3>3, <3>4 DEF Ok, Opens, IsI
  <2> QED  BY <1>1, <1>2, <1>7, <2>1, <2>2, OrderConcat
<1> QED  BY <1>4, <1>5, <1>6, <1>7 DEF Step

\* Sets of information: their unions, and which of them assign no channel.
LEMMA ISets ==
    /\ \A s, K, L : I(s, K) \cup I(s, L) = I(s, K \cup L)
    /\ \A s, K, L : K \subseteq L => I(s, K) \subseteq I(s, L)
    /\ \A s, K : s # 0 \/ "ASSIGNMENT_CMD" \notin K => Clear(I(s, K))
    /\ Clear(Rr)
<1>1. \A s, K, L : I(s, K) \cup I(s, L) = I(s, K \cup L)
  BY DEF I
<1>2. \A s, K, L : K \subseteq L => I(s, K) \subseteq I(s, L)
  BY DEF I
<1>3. \A s, K : s # 0 \/ "ASSIGNMENT_CMD" \notin K => Clear(I(s, K))
  BY DEF I, Clear, Has, IsI
<1>4. Clear(Rr)
  BY DEF Rr, Clear, Has, IsI
<1> QED  BY <1>1, <1>2, <1>3, <1>4

\* A message sent: nothing but the channel's frames differ, and where there is room it is a step.
LEMMA SendIStep ==
    ASSUME NEW n, Legal(n), NEW s \in Sapis, NEW kinds \in Seq(Messages), Alone(kinds), NEW K, In(kinds) \subseteq K
    PROVE  LET m == SendI(n, s, kinds)
           IN  /\ Legal(m) /\ Chan(n, m) /\ SameCall(n, m) /\ Kept(n, m) /\ m.size = n.size
               /\ SpaceFor(n, s, Len(kinds)) /\ ("CIPHER_COMMAND" \in K => NoI(In(n.q), 0))
                    => Step(n, m, I(s, K), Len(kinds))
  BY SendIIs, SentStep

\* A message of one frame.
LEMMA SendI1 ==
    ASSUME NEW n, Legal(n), NEW s \in Sapis, NEW a \in Messages
    PROVE  LET m == SendI(n, s, <<a>>)
           IN  /\ Legal(m) /\ Chan(n, m) /\ SameCall(n, m) /\ Kept(n, m) /\ m.size = n.size
               /\ Space(n, 1) /\ (a = "CIPHER_COMMAND" => NoI(In(n.q), 0)) => Step(n, m, I(s, {a}), 1)
<1> DEFINE t == <<a>>
<1>1. t \in Seq(Messages) /\ Len(t) = 1 /\ In(t) \subseteq {a} /\ Alone(t)
  BY DEF In, Alone
<1> HIDE DEF t
<1>2. LET m == SendI(n, s, t)
      IN  /\ Legal(m) /\ Chan(n, m) /\ SameCall(n, m) /\ Kept(n, m) /\ m.size = n.size
          /\ SpaceFor(n, s, Len(t)) /\ ("CIPHER_COMMAND" \in {a} => NoI(In(n.q), 0)) => Step(n, m, I(s, {a}), Len(t))
  BY <1>1, SendIStep
<1>3. Space(n, 1) => SpaceFor(n, s, 1)
  BY DEF Space, SpaceFor
<1> QED  BY <1>1, <1>2, <1>3 DEF t

\* The same for two messages in a step.
LEMMA SendI2 ==
    ASSUME NEW n, Legal(n), NEW s \in Sapis, NEW a \in Messages, NEW b \in Messages,
           {"ASSIGNMENT_CMD", "CIPHER_COMMAND"} \cap {a, b} = {}
    PROVE  LET m == SendI(n, s, <<a, b>>)
           IN  /\ Legal(m) /\ Chan(n, m) /\ SameCall(n, m) /\ Kept(n, m) /\ m.size = n.size
               /\ Space(n, 2) => Step(n, m, I(s, {a, b}), 2)
<1> DEFINE t == <<a, b>>
<1>1. t \in Seq(Messages) /\ Len(t) = 2 /\ t[1] = a /\ t[2] = b
  OBVIOUS
<1> HIDE DEF t
<1>2. \A i \in 1 .. 2 : t[i] \in {a, b}
  BY <1>1
<1>3. In(t) \subseteq {a, b} /\ Alone(t)
  BY <1>1, <1>2 DEF In, Alone
<1>4. LET m == SendI(n, s, t)
      IN  /\ Legal(m) /\ Chan(n, m) /\ SameCall(n, m) /\ Kept(n, m) /\ m.size = n.size
          /\ SpaceFor(n, s, Len(t)) /\ ("CIPHER_COMMAND" \in {a, b} => NoI(In(n.q), 0))
               => Step(n, m, I(s, {a, b}), Len(t))
  BY <1>1, <1>3, SendIStep
<1>5. "CIPHER_COMMAND" \notin {a, b}
  OBVIOUS
<1>6. Space(n, 2) => SpaceFor(n, s, 2)
  BY DEF Space, SpaceFor
<1> QED  BY <1>1, <1>4, <1>5, <1>6 DEF t

\* A message in segments.
LEMMA SendMessage ==
    ASSUME NEW n, Legal(n), NEW s \in Sapis, NEW c \in Nat, NEW a \in {"MT_CALL_SETUP", "CP_DATA"}
    PROVE  LET m == SendI(n, s, Message(c, a))
           IN  /\ Legal(m) /\ Chan(n, m) /\ SameCall(n, m) /\ Kept(n, m) /\ m.size = n.size
               /\ SpaceFor(n, s, c) => Step(n, m, I(s, {"SEGMENT", a}), c)
<1> DEFINE t == Message(c, a)
<1>1. "SEGMENT" \in Messages /\ a \in Messages /\ {"ASSIGNMENT_CMD", "CIPHER_COMMAND"} \cap {"SEGMENT", a} = {}
  BY DEF Messages
<1>2. t = [i \in 1 .. c |-> IF i < c THEN "SEGMENT" ELSE a]
  BY DEF Message
<1> HIDE DEF t
<1>3. t \in [1 .. c -> {"SEGMENT", a}]
  BY <1>2
<1>4. t \in Seq({"SEGMENT", a}) /\ Len(t) = c
  BY <1>3, FcnSeq
<1>5. t \in Seq(Messages)
  BY <1>1, <1>4, SeqMonotonic
<1>6. \A i \in 1 .. c : t[i] \in {"SEGMENT", a}
  BY <1>3
<1>7. In(t) \subseteq {"SEGMENT", a} /\ Alone(t)
  BY <1>1, <1>4, <1>6 DEF In, Alone
<1>8. LET m == SendI(n, s, t)
      IN  /\ Legal(m) /\ Chan(n, m) /\ SameCall(n, m) /\ Kept(n, m) /\ m.size = n.size
          /\ SpaceFor(n, s, Len(t)) /\ ("CIPHER_COMMAND" \in {"SEGMENT", a} => NoI(In(n.q), 0))
               => Step(n, m, I(s, {"SEGMENT", a}), Len(t))
  BY <1>5, <1>7, SendIStep
<1>9. "CIPHER_COMMAND" \notin {"SEGMENT", a}
  BY <1>1
<1> QED  BY <1>4, <1>8, <1>9 DEF t

-----------------------------------------------------------------------------
(* What the acknowledges do. *)

\* A step that touches neither queue nor links.
LEMMA StepSame ==
    ASSUME NEW n, Legal(n), NEW m \in Engine, m.q = n.q, m.link = n.link,
           m.inq = n.inq, m.conf = n.conf, m.rel = n.rel
    PROVE  Legal(m) /\ Chan(n, m) /\ \A S : \A c \in Nat : Step(n, m, S, c)
<1>1. Legal(m)
  BY DEF Legal
<1>2. Chan(n, m)
  <2>1. Len(n.inq) \in Nat
    BY LegalFields
  <2> QED  BY <2>1 DEF Chan
<1>3. ASSUME NEW S, NEW c \in Nat PROVE Step(n, m, S, c)
  <2>1. Grows(n, n, c)
    BY LegalFields DEF Grows
  <2>2. Grows(n, m, c)
    BY <2>1 DEF Grows
  <2>3. Keeps(n, m)
    BY DEF Keeps, Tracks
  <2> QED  BY <1>1, <1>2, <2>2, <2>3 DEF Step, Adds
<1> QED  BY <1>1, <1>2, <1>3

AckMoves == {<<"AWAIT_LU_ACK", "AWAIT_REL_ACK">>, <<"AWAIT_LU_ACK", "RELEASED">>,
             <<"AWAIT_REL_ACK", "RELEASED">>, <<"AWAIT_CIPHER_ACK", "AWAIT_CIPHER_COMPLETE">>}

\* How an acknowledge may move the transaction.
Moved(n, m) ==
    /\ m.reg = n.reg \/ <<n.reg, m.reg>> \in AckMoves
    /\ m.svc = n.svc \/ (m.svc = "NONE" /\ m.reg = "RELEASED")
    /\ m.setup = n.setup /\ (m.call = 0 <=> n.call = 0)

\* Moved is transitive.
LEMMA MovedTrans ==
    ASSUME NEW n, NEW m, NEW l, Moved(n, m), Moved(m, l)
    PROVE  Moved(n, l)
<1>1. l.reg = n.reg \/ <<n.reg, l.reg>> \in AckMoves
  BY DEF Moved, AckMoves
<1>2. m.reg = "RELEASED" => l.reg = "RELEASED"
  BY DEF Moved, AckMoves
<1> QED  BY <1>1, <1>2 DEF Moved

RelFrames == I(0, {"MM_INFO", "CHAN_REL"})

\* The paging of the next service is nothing to the links.
LEMMA StartNextIs ==
    ASSUME NEW n \in Engine
    PROVE  LET m == StartNext(n)
           IN  /\ m \in Engine /\ m.q = n.q /\ m.link = n.link /\ m.inq = n.inq /\ m.conf = n.conf
               /\ m.rel = n.rel /\ m.suppress = n.suppress /\ SameCall(n, m)
<1> DEFINE p == [on |-> TRUE, answered |-> FALSE, bursts |-> 0, cycles |-> 0]
           l == [n EXCEPT !.page = p]
<1>1. p \in PageState
  BY Rom6Assumption DEF PageState
<1>2. /\ l \in Engine /\ l.q = n.q /\ l.link = n.link /\ l.inq = n.inq /\ l.conf = n.conf
      /\ l.rel = n.rel /\ l.suppress = n.suppress /\ SameCall(n, l)
  <2> HIDE DEF p
  <2> QED  BY <1>1 DEF Engine, SameCall
<1>3. StartNext(n) = n \/ StartNext(n) = l
  BY DEF StartNext, Arm, StartPaging
<1> HIDE DEF l
<1> QED  BY <1>2, <1>3 DEF SameCall

\* The frame's acknowledge is in: the network's next step.
LEMMA NetOnAckIs ==
    ASSUME NEW n, Legal(n), NEW s \in Sapis, NEW kind \in Messages
    PROVE  LET m == NetOnAck(n, s, kind)
           IN  /\ Legal(m) /\ Chan(n, m) /\ Moved(n, m)
               /\ \/ m.q = n.q /\ m.link = n.link
                  \/ /\ Kept(n, m) /\ n.reg = "AWAIT_LU_ACK" /\ m.reg # "AWAIT_LU_ACK"
                     /\ Space(n, 2) => Step(n, m, RelFrames, 2)
<1> DEFINE m == NetOnAck(n, s, kind)
<1>1. n \in Engine /\ kind # "SAPI3_ESTABLISH"
  BY DEF Legal, Messages
<1>2. CASE kind = "LU_ACCEPT" /\ n.reg = "AWAIT_LU_ACK"
  <2> DEFINE l == [n EXCEPT !.reg = "AWAIT_REL_ACK"]
             o == SendI(l, 0, <<"MM_INFO", "CHAN_REL">>)
  <2>1. m = o
    BY <1>2 DEF NetOnAck
  <2>2. l \in Engine /\ l.q = n.q /\ l.link = n.link /\ l.inq = n.inq /\ l.conf = n.conf /\ l.rel = n.rel
        /\ l.reg = "AWAIT_REL_ACK" /\ l.svc = n.svc /\ l.setup = n.setup /\ l.call = n.call
    BY <1>1 DEF Engine, Regs
  <2>3. 0 \in Sapis /\ "MM_INFO" \in Messages /\ "CHAN_REL" \in Messages
        /\ {"ASSIGNMENT_CMD", "CIPHER_COMMAND"} \cap {"MM_INFO", "CHAN_REL"} = {}
    BY DEF Sapis, Messages
  <2> HIDE DEF l
  <2>4. Legal(l) /\ Chan(n, l) /\ Step(n, l, {}, 0)
    BY <2>2, StepSame
  <2>5. /\ Legal(o) /\ Chan(l, o) /\ SameCall(l, o) /\ Kept(l, o)
        /\ Space(l, 2) => Step(l, o, RelFrames, 2)
    BY <2>3, <2>4, SendI2 DEF RelFrames
  <2> HIDE DEF o
  <2>6. Chan(n, o)
    BY <2>2, <2>5 DEF Chan
  <2>7. Moved(n, o) /\ o.reg # "AWAIT_LU_ACK"
    BY <1>2, <2>2, <2>5 DEF Moved, SameCall, AckMoves
  <2>8. ASSUME Space(n, 2) PROVE Step(n, o, RelFrames, 2)
    <3>1. Space(l, 2)
      BY <2>2, <2>8 DEF Space
    <3>2. Clear({}) /\ {} \cup RelFrames = RelFrames /\ 0 + 2 = 2
      BY DEF Clear, Has
    <3>3. Step(n, o, {} \cup RelFrames, 0 + 2)
      BY <2>4, <2>5, <3>1, <3>2, StepTrans
    <3> QED  BY <3>2, <3>3
  <2>9. Kept(n, o)
    BY <2>2, <2>5 DEF Kept
  <2> QED  BY <1>2, <2>1, <2>5, <2>6, <2>7, <2>8, <2>9
<1>3. CASE kind = "CHAN_REL" /\ n.reg = "AWAIT_REL_ACK"
  <2> DEFINE l == [n EXCEPT !.reg = "RELEASED", !.suppress = TRUE, !.svc = "NONE",
                            !.active = <<>>, !.call = IF @ = 0 THEN 0 ELSE 3,
                            !.page = [@ EXCEPT !.on = FALSE, !.answered = FALSE]]
  <2>1. m = StartNext(l)
    BY <1>3 DEF NetOnAck
  <2>2. /\ l \in Engine /\ l.q = n.q /\ l.link = n.link /\ l.inq = n.inq /\ l.conf = n.conf /\ l.rel = n.rel
        /\ l.reg = "RELEASED" /\ l.svc = "NONE" /\ l.setup = n.setup /\ (l.call = 0 <=> n.call = 0)
    <3> DEFINE p == [n.page EXCEPT !.on = FALSE, !.answered = FALSE]
               c == IF n.call = 0 THEN 0 ELSE 3
               k == [n EXCEPT !.reg = "RELEASED", !.suppress = TRUE, !.svc = "NONE",
                              !.active = <<>>, !.call = c, !.page = p]
    <3>1. n.page \in PageState /\ n.call \in 0 .. 3
      BY <1>1 DEF Engine
    <3>2. p \in PageState /\ c \in 0 .. 3 /\ (c = 0 <=> n.call = 0)
      <4>1. p \in PageState
        BY <3>1 DEF PageState
      <4>2. c \in 0 .. 3
        OBVIOUS
      <4>3. c = 0 <=> n.call = 0
        OBVIOUS
      <4> QED  BY <4>1, <4>2, <4>3
    <3>3. l = k
      OBVIOUS
    <3>4. <<>> \in Seq(Services) /\ "RELEASED" \in Regs /\ "NONE" \in Svcs
      BY DEF Regs, Svcs
    <3> HIDE DEF l, p, c
    <3>5. /\ k \in Engine /\ k.q = n.q /\ k.link = n.link /\ k.inq = n.inq /\ k.conf = n.conf /\ k.rel = n.rel
          /\ k.reg = "RELEASED" /\ k.svc = "NONE" /\ k.setup = n.setup /\ k.call = c
      BY <1>1, <3>2, <3>4 DEF Engine
    <3> QED  BY <3>2, <3>3, <3>5
  <2> HIDE DEF l, m
  <2>3. /\ m \in Engine /\ m.q = n.q /\ m.link = n.link /\ m.inq = n.inq /\ m.conf = n.conf /\ m.rel = n.rel
        /\ m.reg = "RELEASED" /\ m.svc = "NONE" /\ m.setup = n.setup /\ (m.call = 0 <=> n.call = 0)
    BY <2>1, <2>2, StartNextIs DEF SameCall
  <2>4. Legal(m) /\ Chan(n, m)
    BY <2>3, StepSame
  <2>5. Moved(n, m)
    BY <1>3, <2>3 DEF Moved, AckMoves
  <2> QED  BY <2>3, <2>4, <2>5 DEF m
<1>4. CASE kind = "CIPHER_COMMAND" /\ n.reg = "AWAIT_CIPHER_ACK"
  <2>1. m = [n EXCEPT !.reg = "AWAIT_CIPHER_COMPLETE"]
    BY <1>4 DEF NetOnAck
  <2> HIDE DEF m
  <2>2. /\ m \in Engine /\ m.q = n.q /\ m.link = n.link /\ m.inq = n.inq /\ m.conf = n.conf /\ m.rel = n.rel
        /\ m.reg = "AWAIT_CIPHER_COMPLETE" /\ m.svc = n.svc /\ m.setup = n.setup /\ m.call = n.call
    BY <1>1, <2>1 DEF Engine, Regs
  <2>3. Legal(m) /\ Chan(n, m)
    BY <2>2, StepSame
  <2>4. Moved(n, m)
    BY <1>4, <2>2 DEF Moved, AckMoves
  <2> QED  BY <2>2, <2>3, <2>4 DEF m
<1>5. CASE ~(kind = "LU_ACCEPT" /\ n.reg = "AWAIT_LU_ACK") /\ ~(kind = "CHAN_REL" /\ n.reg = "AWAIT_REL_ACK")
           /\ ~(kind = "CIPHER_COMMAND" /\ n.reg = "AWAIT_CIPHER_ACK")
  <2>1. m = n
    BY <1>1, <1>5 DEF NetOnAck
  <2> QED  BY <1>1, <2>1, ChanRefl DEF Moved
<1> QED  BY <1>2, <1>3, <1>4, <1>5

\* The engine e after i of h acknowledges of link s have been handled, from n.
AckLoop(n, e, s, h, i) ==
    /\ Legal(e) /\ Chan(n, e) /\ Moved(n, e)
    /\ Len(n.link[s].acks) <= Len(e.link[s].acks) + i
    /\ e.q = n.q \/ (n.reg = "AWAIT_LU_ACK" /\ e.reg # "AWAIT_LU_ACK")
    /\ Space(n, 2) =>
         /\ Grows(n, e, 2)
         /\ e.reg = "AWAIT_LU_ACK" => Grows(n, e, 0)
         /\ Adds(n, e, RelFrames)
         /\ Order(n.q) /\ Clear(In(n.q)) => Order(e.q)
         /\ \A o \in Sapis, from \in Nums, d \in Nat :
               Tracks(n, o, from, IF o = s THEN h ELSE d) => Tracks(e, o, from, IF o = s THEN h - i ELSE d)

\* One acknowledge leaves the ring.
LEMMA TailIs ==
    ASSUME NEW e, Legal(e), NEW s \in Sapis, e.link[s].acks # <<>>
    PROVE  LET m == [e EXCEPT !.link[s].acks = Tail(@)]
           IN  /\ Legal(m) /\ Chan(e, m) /\ Moved(e, m) /\ m.q = e.q /\ m.reg = e.reg
               /\ Len(e.link[s].acks) = Len(m.link[s].acks) + 1
               /\ Grows(e, m, 0)
               /\ \A o \in Sapis, from \in Nums, d \in Nat :
                     Tracks(e, o, from, IF o = s THEN d + 1 ELSE d) => Tracks(m, o, from, d)
<1> DEFINE k == e.link[s]
           a == k.acks
           b == Tail(a)
           l == [k EXCEPT !.acks = b]
           m == [e EXCEPT !.link[s] = l]
<1>1. e \in Engine /\ k \in LinkState /\ a \in Seq(Acks) /\ Len(a) \in Nat /\ Len(a) <= AckN /\ AckN \in Nat
  BY LegalFields, Rom6Assumption DEF Legal
<1>2. b \in Seq(Acks) /\ Len(a) = Len(b) + 1 /\ Len(b) \in Nat /\ \A i \in 1 .. Len(b) : b[i] = a[i + 1]
  BY <1>1, InTail
<1>3. [e EXCEPT !.link[s].acks = Tail(@)] = m
  OBVIOUS
<1>4. l \in LinkState /\ l.acks = b /\ l.vs = k.vs
  <2> HIDE DEF b, k
  <2> QED  BY <1>1, <1>2 DEF LinkState
<1> HIDE DEF l
<1>5. /\ m \in Engine /\ m.q = e.q /\ m.inq = e.inq /\ m.conf = e.conf /\ m.rel = e.rel /\ m.link[s] = l
      /\ SameCall(e, m) /\ m.setup = e.setup
      /\ \A o \in Sapis : o # s => m.link[o] = e.link[o]
  BY <1>1, <1>4 DEF Engine, SameCall
<1> HIDE DEF m, b, k
<1>6. Chan(e, m)
  BY <1>1, <1>5, ChanRefl DEF Chan
<1>7. Moved(e, m) /\ m.reg = e.reg
  BY <1>5 DEF Moved, SameCall
<1>8. ASSUME NEW o \in Sapis
      PROVE  Len(m.link[o].acks) <= AckN /\ Len(m.link[o].acks) <= Len(e.link[o].acks) + 0
  <2>1. CASE o = s
    <3>1. Len(b) <= AckN /\ Len(b) <= Len(a) + 0
      BY <1>1, <1>2
    <3> QED  BY <1>4, <1>5, <2>1, <3>1 DEF a, k
  <2>2. CASE o # s
    <3> DEFINE x == Len(e.link[o].acks)
    <3>1. x \in Nat /\ x <= AckN
      BY LegalFields DEF Legal
    <3> HIDE DEF x
    <3>2. x <= x + 0
      BY <3>1
    <3> QED  BY <1>5, <2>2, <3>1, <3>2 DEF x
  <2> QED  BY <2>1, <2>2
<1>9. Legal(m)
  BY <1>5, <1>8 DEF Legal
<1>10. Grows(e, m, 0)
  <2>1. Grows(e, e, 0)
    BY LegalFields DEF Grows
  <2>2. Len(m.q) <= Len(e.q) + 0
    BY <1>5, <2>1 DEF Grows
  <2> QED  BY <1>8, <2>2 DEF Grows
<1>11. ASSUME NEW o \in Sapis, NEW from \in Nums, NEW d \in Nat, Tracks(e, o, from, IF o = s THEN d + 1 ELSE d)
       PROVE  Tracks(m, o, from, d)
  <2>1. CASE o # s
    BY <1>5, <1>11, <2>1 DEF Tracks
  <2>2. CASE o = s
    <3> DEFINE w == Info(e.q, s)
               x == Len(w)
               L == Len(a)
    <3>1. Tracks(e, s, from, d + 1)
      BY <1>11, <2>2
    <3>2. /\ \A i \in 1 .. x : w[i].ns = (from + i - 1) % Modulus
          /\ k.vs = (from + x) % Modulus
          /\ x + (d + 1) <= L
          /\ \A i \in 1 .. x : a[L - x + i] = [rs |-> Next_(w[i].ns), kind |-> w[i].kind]
          /\ x < L => a[L - x].rs = from
      BY <3>1 DEF Tracks, k
    <3>3. x \in Nat
      BY LegalFields
    <3> HIDE DEF w, x, L, a
    <3>4. L = Len(b) + 1 /\ L \in Nat
      BY <1>1, <1>2 DEF L
    <3>5. x + d <= Len(b)
      BY <1>2, <3>2, <3>3, <3>4
    <3>6. ASSUME NEW i \in 1 .. x PROVE b[Len(b) - x + i] = [rs |-> Next_(w[i].ns), kind |-> w[i].kind]
      <4>1. Len(b) - x + i \in 1 .. Len(b) /\ (Len(b) - x + i) + 1 = L - x + i
        BY <1>2, <3>3, <3>4, <3>5
      <4>2. b[Len(b) - x + i] = a[L - x + i]
        BY <1>2, <4>1
      <4> QED  BY <3>2, <4>2
    <3>7. m.link[s].acks = b /\ m.link[s].vs = k.vs /\ Info(m.q, s) = w
      BY <1>4, <1>5 DEF w
    <3>9. ASSUME x < Len(b) PROVE b[Len(b) - x].rs = from
      <4>1. Len(b) - x \in 1 .. Len(b) /\ (Len(b) - x) + 1 = L - x /\ x < L
        BY <1>2, <3>3, <3>4, <3>9
      <4>2. b[Len(b) - x] = a[L - x]
        BY <1>2, <4>1
      <4> QED  BY <3>2, <4>1, <4>2
    <3>8. Tracks(m, s, from, d)
      BY <3>2, <3>5, <3>6, <3>7, <3>9 DEF Tracks, x
    <3> QED  BY <2>2, <3>8
  <2> QED  BY <2>1, <2>2
<1>12. Len(a) = Len(m.link[s].acks) + 1
  BY <1>2, <1>4, <1>5
<1> HIDE DEF a
<1>13. Len(e.link[s].acks) = Len(m.link[s].acks) + 1
  BY <1>12 DEF a, k
<1> QED  BY <1>3, <1>5, <1>6, <1>7, <1>9, <1>10, <1>11, <1>13

\* One acknowledge more: its frame is done, and the step that waited for it is taken.
LEMMA AckLoopStep ==
    ASSUME NEW n, Legal(n), NEW s \in Sapis, NEW h \in Nat, h <= Len(n.link[s].acks), NEW i \in 1 .. h,
           NEW e, AckLoop(n, e, s, h, i - 1), NEW kind \in Messages
    PROVE  AckLoop(n, NetOnAck([e EXCEPT !.link[s].acks = Tail(@)], s, kind), s, h, i)
<1> DEFINE t == [e EXCEPT !.link[s].acks = Tail(@)]
           m == NetOnAck(t, s, kind)
           x == Len(n.link[s].acks)
           y == Len(e.link[s].acks)
           z == Len(t.link[s].acks)
           u == Len(m.link[s].acks)
<1>1. Legal(e) /\ x \in Nat /\ y \in Nat /\ x <= y + (i - 1) /\ h <= x /\ e.link[s].acks \in Seq(Acks)
  BY LegalFields DEF AckLoop
<1>2. e.link[s].acks # <<>>
  <2>1. y # 0
    <3> HIDE DEF x, y
    <3> QED  BY <1>1
  <2>2. Len(<<>>) = 0
    OBVIOUS
  <2> QED  BY <2>1, <2>2
<1>3. /\ Legal(t) /\ Chan(e, t) /\ Moved(e, t) /\ t.q = e.q /\ t.reg = e.reg
      /\ y = z + 1 /\ Grows(e, t, 0)
      /\ \A o \in Sapis, from \in Nums, d \in Nat :
            Tracks(e, o, from, IF o = s THEN d + 1 ELSE d) => Tracks(t, o, from, d)
  BY <1>1, <1>2, TailIs
<1> HIDE DEF t
<1>4. /\ Legal(m) /\ Chan(t, m) /\ Moved(t, m)
      /\ \/ m.q = t.q /\ m.link = t.link
         \/ /\ Kept(t, m) /\ t.reg = "AWAIT_LU_ACK" /\ m.reg # "AWAIT_LU_ACK"
            /\ Space(t, 2) => Step(t, m, RelFrames, 2)
  BY <1>3, NetOnAckIs
<1> HIDE DEF m
<1>5. Moved(n, m)
  BY <1>3, <1>4, MovedTrans DEF AckLoop
<1>6. Chan(n, m)
  <2>1. Len(n.inq) \in Nat /\ Len(m.inq) \in Nat /\ Len(e.inq) \in Nat /\ Len(t.inq) \in Nat
    BY <1>1, <1>3, <1>4, LegalFields
  <2>2. Chan(n, e)
    BY DEF AckLoop
  <2> QED  BY <1>3, <1>4, <2>1, <2>2 DEF Chan
<1>7. m.q = n.q \/ (n.reg = "AWAIT_LU_ACK" /\ m.reg # "AWAIT_LU_ACK")
  <2>1. Moved(n, e) /\ (e.q = n.q \/ (n.reg = "AWAIT_LU_ACK" /\ e.reg # "AWAIT_LU_ACK"))
    BY DEF AckLoop
  <2>2. CASE e.q = n.q /\ m.q = t.q
    BY <1>3, <2>2
  <2>3. CASE e.q = n.q /\ t.reg = "AWAIT_LU_ACK" /\ m.reg # "AWAIT_LU_ACK"
    BY <1>3, <2>1, <2>3 DEF Moved, AckMoves
  <2>4. CASE n.reg = "AWAIT_LU_ACK" /\ e.reg # "AWAIT_LU_ACK"
    BY <1>3, <1>4, <2>4 DEF Moved, AckMoves
  <2> QED  BY <1>4, <2>1, <2>2, <2>3, <2>4
<1>8. CASE m.q = t.q /\ m.link = t.link
  <2>1. x <= u + i
    <3>1. u = z /\ u \in Nat
      BY <1>4, <1>8, LegalFields
    <3> HIDE DEF x, y, z, u
    <3> QED  BY <1>1, <1>3, <3>1
  <2>2. ASSUME Space(n, 2)
        PROVE  /\ Grows(n, m, 2)
               /\ m.reg = "AWAIT_LU_ACK" => Grows(n, m, 0)
               /\ Adds(n, m, RelFrames)
               /\ Order(n.q) /\ Clear(In(n.q)) => Order(m.q)
               /\ \A o \in Sapis, from \in Nums, d \in Nat :
                     Tracks(n, o, from, IF o = s THEN h ELSE d) => Tracks(m, o, from, IF o = s THEN h - i ELSE d)
    <3>1. /\ Grows(n, e, 2)
          /\ e.reg = "AWAIT_LU_ACK" => Grows(n, e, 0)
          /\ Adds(n, e, RelFrames)
          /\ Order(n.q) /\ Clear(In(n.q)) => Order(e.q)
          /\ \A o \in Sapis, from \in Nums, d \in Nat :
                Tracks(n, o, from, IF o = s THEN h ELSE d) => Tracks(e, o, from, IF o = s THEN h - (i - 1) ELSE d)
      BY <2>2 DEF AckLoop
    <3>2. \A c \in Nat : Grows(n, e, c) => Grows(n, m, c)
      <4> SUFFICES ASSUME NEW c \in Nat, Grows(n, e, c) PROVE Grows(n, m, c)
        OBVIOUS
      <4>1. Len(m.q) <= Len(n.q) + c
        BY <1>3, <1>8 DEF Grows
      <4>2. ASSUME NEW o \in Sapis PROVE Len(m.link[o].acks) <= Len(n.link[o].acks) + c
        <5> DEFINE a == Len(n.link[o].acks)
                   b == Len(e.link[o].acks)
                   f == Len(t.link[o].acks)
        <5>1. a \in Nat /\ b \in Nat /\ f \in Nat /\ b <= a + c /\ f <= b + 0
          BY <1>1, <1>3, LegalFields DEF Grows
        <5> HIDE DEF a, b, f
        <5>2. f <= a + c
          BY <5>1
        <5> QED  BY <1>8, <5>2 DEF a, f
      <4> QED  BY <4>1, <4>2 DEF Grows
    <3>3. m.reg = "AWAIT_LU_ACK" => e.reg = "AWAIT_LU_ACK"
      BY <1>3, <1>4 DEF Moved, AckMoves
    <3>4. Grows(n, m, 2) /\ (m.reg = "AWAIT_LU_ACK" => Grows(n, m, 0))
      BY <3>1, <3>2, <3>3
    <3>5. Adds(n, m, RelFrames) /\ (Order(n.q) /\ Clear(In(n.q)) => Order(m.q))
      BY <1>3, <1>8, <3>1 DEF Adds
    <3>6. ASSUME NEW o \in Sapis, NEW from \in Nums, NEW d \in Nat, Tracks(n, o, from, IF o = s THEN h ELSE d)
          PROVE  Tracks(m, o, from, IF o = s THEN h - i ELSE d)
      <4> DEFINE d1 == IF o = s THEN h - i ELSE d
      <4>1. d1 \in Nat /\ (IF o = s THEN d1 + 1 ELSE d1) = (IF o = s THEN h - (i - 1) ELSE d)
        OBVIOUS
      <4>2. Tracks(e, o, from, IF o = s THEN d1 + 1 ELSE d1)
        BY <3>1, <3>6, <4>1
      <4> HIDE DEF d1
      <4>3. Tracks(t, o, from, d1)
        BY <1>3, <4>1, <4>2
      <4>4. Tracks(m, o, from, d1)
        BY <1>8, <4>3 DEF Tracks
      <4> QED  BY <4>4 DEF d1
    <3> QED  BY <3>4, <3>5, <3>6
  <2> HIDE DEF x, u
  <2>3. Len(n.link[s].acks) <= Len(m.link[s].acks) + i
    BY <2>1 DEF x, u
  <2>4. AckLoop(n, m, s, h, i)
    BY <1>4, <1>5, <1>6, <1>7, <2>2, <2>3 DEF AckLoop
  <2> QED  BY <2>4 DEF m, t
<1>9. CASE Kept(t, m) /\ t.reg = "AWAIT_LU_ACK" /\ m.reg # "AWAIT_LU_ACK" /\ (Space(t, 2) => Step(t, m, RelFrames, 2))
  <2>1. x <= u + i
    <3>1. z <= u /\ z \in Nat /\ u \in Nat
      BY <1>3, <1>4, <1>9, LegalFields DEF Kept
    <3> HIDE DEF x, y, z, u
    <3> QED  BY <1>1, <1>3, <3>1
  <2>2. ASSUME Space(n, 2)
        PROVE  /\ Grows(n, m, 2)
               /\ m.reg = "AWAIT_LU_ACK" => Grows(n, m, 0)
               /\ Adds(n, m, RelFrames)
               /\ Order(n.q) /\ Clear(In(n.q)) => Order(m.q)
               /\ \A o \in Sapis, from \in Nums, d \in Nat :
                     Tracks(n, o, from, IF o = s THEN h ELSE d) => Tracks(m, o, from, IF o = s THEN h - i ELSE d)
    <3>1. /\ Grows(n, e, 0)
          /\ Adds(n, e, RelFrames)
          /\ Order(n.q) /\ Clear(In(n.q)) => Order(e.q)
          /\ \A o \in Sapis, from \in Nums, d \in Nat :
                Tracks(n, o, from, IF o = s THEN h ELSE d) => Tracks(e, o, from, IF o = s THEN h - (i - 1) ELSE d)
      BY <1>3, <1>9, <2>2 DEF AckLoop
    <3>2. Space(t, 2)
      <4>1. 0 + 2 = 2
        OBVIOUS
      <4>2. Space(e, 2)
        BY <1>1, <2>2, <3>1, <4>1, SpaceAfter
      <4> QED  BY <1>1, <1>3, <4>1, <4>2, SpaceAfter
    <3>3. /\ Keeps(t, m) /\ Adds(t, m, RelFrames) /\ Grows(t, m, 2)
          /\ Order(t.q) /\ Clear(In(t.q)) => Order(m.q)
      BY <1>9, <3>2 DEF Step
    <3>4. Grows(n, m, 2)
      <4>1. ASSUME NEW a \in Nat, NEW b \in Nat, NEW c \in Nat, NEW f \in Nat, b <= a + 0, c <= b + 0, f <= c + 2
            PROVE  f <= a + 2
        BY <4>1
      <4>2. Len(n.q) \in Nat /\ Len(e.q) \in Nat /\ Len(t.q) \in Nat /\ Len(m.q) \in Nat
        BY <1>1, <1>3, <1>4, LegalFields
      <4>3. Len(m.q) <= Len(n.q) + 2
        BY <1>3, <3>1, <3>3, <4>1, <4>2 DEF Grows
      <4>4. ASSUME NEW o \in Sapis PROVE Len(m.link[o].acks) <= Len(n.link[o].acks) + 2
        <5>1. /\ Len(n.link[o].acks) \in Nat /\ Len(e.link[o].acks) \in Nat
              /\ Len(t.link[o].acks) \in Nat /\ Len(m.link[o].acks) \in Nat
          BY <1>1, <1>3, <1>4, LegalFields
        <5>2. /\ Len(e.link[o].acks) <= Len(n.link[o].acks) + 0
              /\ Len(t.link[o].acks) <= Len(e.link[o].acks) + 0
              /\ Len(m.link[o].acks) <= Len(t.link[o].acks) + 2
          BY <1>3, <3>1, <3>3 DEF Grows
        <5> QED  BY <4>1, <5>1, <5>2
      <4> QED  BY <4>3, <4>4 DEF Grows
    <3>5. Adds(n, m, RelFrames)
      BY <1>3, <3>1, <3>3 DEF Adds
    <3>6. Order(n.q) /\ Clear(In(n.q)) => Order(m.q)
      <4>1. Clear(RelFrames)
        BY ISets DEF RelFrames
      <4>2. Clear(In(n.q)) => Clear(In(e.q))
        BY <3>1, <4>1 DEF Adds, Clear, Has
      <4> QED  BY <1>3, <3>1, <3>3, <4>2
    <3>7. ASSUME NEW o \in Sapis, NEW from \in Nums, NEW d \in Nat, Tracks(n, o, from, IF o = s THEN h ELSE d)
          PROVE  Tracks(m, o, from, IF o = s THEN h - i ELSE d)
      <4> DEFINE d1 == IF o = s THEN h - i ELSE d
      <4>1. d1 \in Nat /\ (IF o = s THEN d1 + 1 ELSE d1) = (IF o = s THEN h - (i - 1) ELSE d)
        OBVIOUS
      <4>2. Tracks(e, o, from, IF o = s THEN d1 + 1 ELSE d1)
        BY <3>1, <3>7, <4>1
      <4> HIDE DEF d1
      <4>3. Tracks(t, o, from, d1)
        BY <1>3, <4>1, <4>2
      <4>4. Tracks(m, o, from, d1)
        BY <3>3, <4>1, <4>3 DEF Keeps
      <4> QED  BY <4>4 DEF d1
    <3> QED  BY <1>9, <3>4, <3>5, <3>6, <3>7
  <2> HIDE DEF x, u
  <2>3. Len(n.link[s].acks) <= Len(m.link[s].acks) + i
    BY <2>1 DEF x, u
  <2>4. AckLoop(n, m, s, h, i)
    BY <1>4, <1>5, <1>6, <1>7, <2>2, <2>3 DEF AckLoop
  <2> QED  BY <2>4 DEF m, t
<1> QED  BY <1>4, <1>8, <1>9

\* The engine after each of the first n acknowledges, from t.
AckBy(e, s, a) == NetOnAck([e EXCEPT !.link[s].acks = Tail(@)], s, a.kind)

After(f, t, s, acks, n) ==
    f = [i \in 0 .. n |->
            IF i = 0 THEN t
            ELSE NetOnAck([f[i - 1] EXCEPT !.link[s].acks = Tail(@)], s, acks[i].kind)]

\* The engine after i acknowledges follows from the engine after i - 1.
LEMMA AfterStep ==
    ASSUME NEW t, NEW s, NEW acks, NEW n \in Nat, NEW f, After(f, t, s, acks, n)
    PROVE  f[0] = t /\ \A i \in 1 .. n : f[i] = AckBy(f[i - 1], s, acks[i])
<1>1. 0 \in 0 .. n /\ \A i \in 1 .. n : i \in 0 .. n /\ i # 0
  OBVIOUS
<1>2. f[0] = t
  BY <1>1 DEF After
<1>3. ASSUME NEW i \in 1 .. n PROVE f[i] = AckBy(f[i - 1], s, acks[i])
  BY <1>1 DEF After, AckBy
<1> QED  BY <1>2, <1>3

\* A function for n acknowledges extends to n + 1.
LEMMA AfterGrows ==
    ASSUME NEW t, NEW s, NEW acks, NEW n \in Nat, NEW f, After(f, t, s, acks, n)
    PROVE  \E g : After(g, t, s, acks, n + 1)
<1> DEFINE g == [i \in 0 .. n + 1 |-> IF i <= n THEN f[i] ELSE AckBy(f[n], s, acks[n + 1])]
           h == [i \in 0 .. n + 1 |->
                  IF i = 0 THEN t ELSE NetOnAck([g[i - 1] EXCEPT !.link[s].acks = Tail(@)], s, acks[i].kind)]
<1>1. ASSUME NEW i \in 0 .. n + 1 PROVE g[i] = h[i]
  <2>0. f[0] = t /\ \A j \in 1 .. n : f[j] = AckBy(f[j - 1], s, acks[j])
    BY AfterStep
  <2>1. CASE i = 0
    BY <2>0, <2>1
  <2>2. CASE i # 0 /\ i <= n
    <3>1. i - 1 \in 0 .. n + 1 /\ i - 1 <= n /\ i \in 1 .. n
      BY <2>2
    <3>2. f[i] = AckBy(f[i - 1], s, acks[i])
      BY <2>0, <3>1
    <3>3. g[i - 1] = f[i - 1] /\ g[i] = f[i]
      BY <2>2, <3>1
    <3>4. h[i] = AckBy(g[i - 1], s, acks[i])
      BY <2>2 DEF AckBy
    <3> HIDE DEF g, h
    <3> QED  BY <3>2, <3>3, <3>4
  <2>3. CASE i = n + 1
    <3>1. n \in 0 .. n + 1 /\ g[n] = f[n] /\ i - 1 = n /\ ~(i <= n) /\ i # 0
      BY <2>3
    <3>2. g[i] = AckBy(f[n], s, acks[i])
      BY <2>3, <3>1
    <3>3. h[i] = AckBy(g[i - 1], s, acks[i])
      BY <3>1 DEF AckBy
    <3> HIDE DEF g, h
    <3> QED  BY <3>1, <3>2, <3>3
  <2>4. i = 0 \/ (i # 0 /\ i <= n) \/ i = n + 1
    <3> HIDE DEF g, h
    <3> QED  BY <1>1
  <2> HIDE DEF g, h
  <2> QED  BY <2>1, <2>2, <2>3, <2>4
<1>2. g = h
  BY <1>1
<1> QED  BY <1>2 DEF After

\* There is such a function for any number of acknowledges.
LEMMA AfterExists ==
    ASSUME NEW t, NEW s, NEW acks, NEW n \in Nat
    PROVE  \E f : After(f, t, s, acks, n)
<1> DEFINE Bad == {k \in Nat : ~ \E f : After(f, t, s, acks, k)}
<1>1. 0 \notin Bad
  <2> DEFINE f == [i \in 0 .. 0 |-> t]
  <2>1. f = [i \in 0 .. 0 |->
              IF i = 0 THEN t
              ELSE NetOnAck([f[i - 1] EXCEPT !.link[s].acks = Tail(@)], s, acks[i].kind)]
    OBVIOUS
  <2>2. After(f, t, s, acks, 0)
    BY <2>1 DEF After
  <2> QED  BY <2>2
<1>2. ASSUME NEW m \in Bad, \A k \in Bad : m <= k PROVE FALSE
  <2>1. m # 0 /\ m - 1 \in Nat /\ m - 1 \notin Bad /\ (m - 1) + 1 = m
    BY <1>1, <1>2
  <2>2. PICK f : After(f, t, s, acks, m - 1)
    BY <2>1
  <2>3. \E g : After(g, t, s, acks, m)
    BY <2>1, <2>2, AfterGrows
  <2> QED  BY <1>2, <2>3
<1>3. Bad = {}
  BY <1>2, LeastNat
<1> QED  BY <1>3

\* The first acknowledge that is recorded with this N(R).
FirstHit(acks, nr, h) == acks[h].rs = nr /\ \A j \in 1 .. Len(acks) : acks[j].rs = nr => h <= j

\* An N(R) acknowledges nothing, or the frames up to the first recorded with it.
LEMMA AckPendingIs ==
    ASSUME NEW n, Legal(n), NEW s \in Sapis, NEW nr
    PROVE  LET m == AckPending(n, s, nr)
               acks == n.link[s].acks
           IN  m = n \/ \E h \in 1 .. Len(acks) : FirstHit(acks, nr, h) /\ AckLoop(n, m, s, h, h)
<1> DEFINE m == AckPending(n, s, nr)
           acks == n.link[s].acks
           L == Len(acks)
           hit == {i \in DOMAIN acks : acks[i].rs = nr}
           f == CHOOSE f : After(f, n, s, acks, L)
           c == CHOOSE i \in hit : \A j \in hit : i <= j
<1>1. n \in Engine /\ acks \in Seq(Acks) /\ L \in Nat /\ DOMAIN acks = 1 .. L
  BY LegalFields
<1>2. After(f, n, s, acks, L)
  BY <1>1, AfterExists
<1>3. m = IF hit = {} THEN n ELSE f[c]
  BY DEF AckPending, After
<1>4. CASE hit # {}
  <2>1. hit \subseteq Nat
    BY <1>1
  <2>2. c \in hit /\ \A j \in hit : c <= j
    <3> HIDE DEF hit
    <3>1. \E i \in hit : \A j \in hit : i <= j
      BY <1>4, <2>1, LeastNat
    <3> QED  BY <3>1
  <2>3. c \in 1 .. L /\ acks[c].rs = nr
    BY <1>1, <2>2
  <2>9. FirstHit(acks, nr, c)
    <3>1. ASSUME NEW j \in 1 .. L, acks[j].rs = nr PROVE c <= j
      <4>1. j \in hit
        BY <1>1, <3>1
      <4> HIDE DEF c, hit
      <4> QED  BY <2>2, <4>1
    <3> HIDE DEF c
    <3> QED  BY <2>3, <3>1 DEF FirstHit
  <2>4. f[0] = n /\ \A i \in 1 .. L : f[i] = AckBy(f[i - 1], s, acks[i])
    <3> HIDE DEF f
    <3> QED  BY <1>1, <1>2, AfterStep
  <2> HIDE DEF c, f, hit
  <2> DEFINE Bad == {i \in 0 .. c : ~AckLoop(n, f[i], s, c, i)}
  <2>5. ASSUME NEW k \in Bad, \A j \in Bad : k <= j PROVE FALSE
    <3>1. AckLoop(n, f[0], s, c, 0)
      <4>1. Chan(n, n) /\ Moved(n, n)
        BY <1>1, ChanRefl DEF Moved
      <4>2. Grows(n, n, 2) /\ Grows(n, n, 0) /\ Adds(n, n, RelFrames)
        <5>1. Step(n, n, RelFrames, 2) /\ Step(n, n, RelFrames, 0)
          BY StepRefl
        <5> QED  BY <5>1 DEF Step
      <4>3. L <= L + 0 /\ c - 0 = c
        BY <1>1, <2>3
      <4>4. \A o \in Sapis, from \in Nums, d \in Nat :
              Tracks(n, o, from, IF o = s THEN c ELSE d) => Tracks(n, o, from, IF o = s THEN c - 0 ELSE d)
        BY <4>3
      <4>5. AckLoop(n, n, s, c, 0)
        BY <4>1, <4>2, <4>3, <4>4 DEF AckLoop
      <4> QED  BY <2>4, <4>5
    <3>2. k \in 1 .. c /\ k \in 1 .. L /\ k - 1 \in 0 .. c /\ k - 1 \notin Bad
      BY <1>1, <2>3, <2>5, <3>1
    <3>3. AckLoop(n, f[k - 1], s, c, k - 1)
      BY <3>2
    <3>4. acks[k].kind \in Messages
      <4>1. acks[k] \in Acks
        BY <1>1, <3>2, ElementOfSeq
      <4> QED  BY <4>1 DEF Acks
    <3>5. c \in Nat /\ c <= L
      BY <1>1, <2>3
    <3>6. AckLoop(n, AckBy(f[k - 1], s, acks[k]), s, c, k)
      BY <3>2, <3>3, <3>4, <3>5, AckLoopStep DEF AckBy
    <3>7. f[k] = AckBy(f[k - 1], s, acks[k])
      BY <2>4, <3>2
    <3> QED  BY <2>5, <3>6, <3>7
  <2>6. Bad = {}
    <3>1. Bad \subseteq Nat
      OBVIOUS
    <3> HIDE DEF Bad
    <3> QED  BY <2>5, <3>1, LeastNat
  <2>7. AckLoop(n, f[c], s, c, c)
    <3>1. c \in 0 .. c
      BY <2>3
    <3> QED  BY <2>6, <3>1
  <2>8. m = f[c]
    BY <1>3, <1>4
  <2> QED  BY <2>3, <2>7, <2>8, <2>9
<1>5. CASE hit = {}
  BY <1>3, <1>5
<1> QED  BY <1>4, <1>5

\* An N(R) cannot be taken for that of a frame that waits: there are fewer than
\* numbers, or an older acknowledge is found first.
Tells(n, s) == Len(Info(n.q, s)) < Modulus \/ Len(Info(n.q, s)) < Len(n.link[s].acks)

\* What AckPending does, for a phone that expects nr next.
LEMMA AckIs ==
    ASSUME NEW n, Legal(n), NEW s \in Sapis, NEW nr \in Nums
    PROVE  LET m == AckPending(n, s, nr)
           IN  /\ Legal(m) /\ Chan(n, m) /\ Moved(n, m)
               /\ m.q = n.q \/ (n.reg = "AWAIT_LU_ACK" /\ m.reg # "AWAIT_LU_ACK")
               /\ Space(n, 2) =>
                    /\ Grows(n, m, 2) /\ Adds(n, m, RelFrames)
                    /\ Order(n.q) /\ Clear(In(n.q)) => Order(m.q)
                    /\ \A o \in Sapis, from \in Nums :
                          Tracks(n, o, from, 0) /\ (o = s => from = nr /\ Tells(n, s))
                             => Tracks(m, o, from, 0)
<1> DEFINE m == AckPending(n, s, nr)
           acks == n.link[s].acks
           L == Len(acks)
<1>1. n \in Engine /\ L \in Nat
  BY LegalFields
<1>2. m = n \/ \E h \in 1 .. L : FirstHit(acks, nr, h) /\ AckLoop(n, m, s, h, h)
  BY AckPendingIs
<1> HIDE DEF m
<1>3. CASE m = n
  <2>1. Chan(n, n) /\ Moved(n, n) /\ Grows(n, n, 2) /\ Adds(n, n, RelFrames)
    <3>1. Step(n, n, RelFrames, 2)
      BY StepRefl
    <3> QED  BY <3>1 DEF Moved, Step
  <2>2. \A o \in Sapis, from \in Nums :
          Tracks(n, o, from, 0) /\ (o = s => from = nr /\ Tells(n, s)) => Tracks(n, o, from, 0)
    OBVIOUS
  <2> HIDE DEF L, acks
  <2>3. /\ Legal(n) /\ Chan(n, n) /\ Moved(n, n)
        /\ Space(n, 2) => /\ Grows(n, n, 2) /\ Adds(n, n, RelFrames)
                          /\ Order(n.q) /\ Clear(In(n.q)) => Order(n.q)
    BY <2>1
  <2> QED  BY <1>3, <2>2, <2>3 DEF m, L, acks
<1>4. CASE \E h \in 1 .. L : FirstHit(acks, nr, h) /\ AckLoop(n, m, s, h, h)
  <2>1. PICK h \in 1 .. L : FirstHit(acks, nr, h) /\ AckLoop(n, m, s, h, h)
    BY <1>4
  <2>2. ASSUME Space(n, 2), NEW o \in Sapis, NEW from \in Nums, Tracks(n, o, from, 0),
               o = s => from = nr /\ Tells(n, s)
        PROVE  Tracks(m, o, from, 0)
    <3>1. CASE o # s
      <4>1. Tracks(m, o, from, IF o = s THEN h - h ELSE 0)
        <5>1. Tracks(n, o, from, IF o = s THEN h ELSE 0)
          BY <2>2, <3>1
        <5> QED  BY <2>1, <2>2, <5>1 DEF AckLoop
      <4> QED  BY <3>1, <4>1
    <3>2. CASE o = s
      <4> DEFINE w == Info(n.q, s)
                 x == Len(w)
      <4>1. Tracks(n, s, nr, 0) /\ (x < Modulus \/ x < L) /\ Modulus \in Nat /\ x \in Nat /\ from = nr
        BY <2>2, <3>2, LegalFields, Rom6Assumption DEF Tells
      <4>2. /\ \A i \in 1 .. x : w[i].ns = (nr + i - 1) % Modulus
            /\ x + 0 <= L
            /\ \A i \in 1 .. x : acks[L - x + i] = [rs |-> Next_(w[i].ns), kind |-> w[i].kind]
            /\ x < L => acks[L - x].rs = nr
        BY <4>1 DEF Tracks
      <4>7. acks[h].rs = nr /\ \A j \in 1 .. L : acks[j].rs = nr => h <= j
        BY <2>1 DEF FirstHit
      <4> HIDE DEF w, x, L, acks
      <4>3. x + h <= L
        <5>0. x \in Nat /\ L \in Nat /\ h \in Nat /\ h <= L
          BY <1>1, <2>1, <4>1
        <5> SUFFICES ASSUME ~(x + h <= L) PROVE FALSE
          OBVIOUS
        <5>6. ~(x < L)
          <6> SUFFICES ASSUME x < L PROVE FALSE
            OBVIOUS
          <6>1. L - x \in 1 .. L /\ ~(h <= L - x)
            BY <5>0
          <6> QED  BY <4>2, <4>7, <6>1
        <5> DEFINE i == h - (L - x)
        <5>1. i \in 1 .. x /\ L - x + i = h /\ i \in Nat /\ i < Modulus /\ i # 0
          BY <4>1, <4>2, <5>0, <5>6
        <5> HIDE DEF i
        <5>2. acks[h].rs = Next_(w[i].ns) /\ w[i].ns = (nr + i - 1) % Modulus
          <6>1. acks[h] = [rs |-> Next_(w[i].ns), kind |-> w[i].kind]
            BY <4>2, <5>1
          <6>2. w[i].ns = (nr + i - 1) % Modulus
            BY <4>2, <5>1
          <6> QED  BY <6>1, <6>2
        <5>3. nr + i - 1 \in Nat /\ (nr + i - 1) + 1 = nr + i
          BY <5>1 DEF Nums
        <5>4. Next_(w[i].ns) = (nr + i) % Modulus
          BY <5>2, <5>3, ModNext
        <5> QED  BY <4>7, <5>1, <5>2, <5>4, ModApart
      <4>4. x + h <= Len(n.link[s].acks)
        BY <4>3 DEF L, acks
      <4>5. Tracks(n, s, nr, h)
        BY <4>1, <4>4 DEF Tracks, w, x
      <4>6. Tracks(m, s, nr, h - h) /\ h - h = 0
        <5>1. Tracks(n, s, nr, IF s = s THEN h ELSE 0) /\ (IF s = s THEN h - h ELSE 0) = h - h
          BY <4>5
        <5>2. Tracks(m, s, nr, IF s = s THEN h - h ELSE 0)
          BY <2>1, <2>2, <5>1 DEF AckLoop
        <5>3. h - h = 0
          BY <2>1
        <5> QED  BY <5>1, <5>2, <5>3
      <4> QED  BY <3>2, <4>1, <4>6
    <3> QED  BY <3>1, <3>2
  <2> QED  BY <2>1, <2>2 DEF AckLoop, m
<1> QED  BY <1>2, <1>3, <1>4

-----------------------------------------------------------------------------
(* Frames that open a link, and messages of one step. *)

\* A change of the transaction's fields alone; a service may be taken.
SetOf(n, m) ==
    /\ m \in Engine /\ m.q = n.q /\ m.link = n.link /\ m.conf = n.conf /\ m.rel = n.rel
    /\ m.inq = n.inq \/ (n.inq # <<>> /\ m.inq = Tail(n.inq))

\* A change of the transaction's fields is a step of no frame.
LEMMA SetIs ==
    ASSUME NEW n, Legal(n), NEW m, SetOf(n, m)
    PROVE  Legal(m) /\ Chan(n, m) /\ (\A c \in Nat : Space(n, c) => Space(m, c))
           /\ \A S : \A c \in Nat : Step(n, m, S, c)
<1>1. Legal(m)
  BY DEF Legal, SetOf
<1>2. Chan(n, m)
  <2>1. n.inq \in Seq(Services) /\ Len(n.inq) \in Nat
    BY LegalFields
  <2>2. CASE m.inq = n.inq
    BY <2>1, <2>2 DEF Chan, SetOf
  <2>3. CASE n.inq # <<>> /\ m.inq = Tail(n.inq)
    <3> DEFINE a == Tail(n.inq)
               x == Len(n.inq)
    <3>1. x = Len(a) + 1 /\ Len(a) \in Nat /\ In(n.inq) = In(a) \cup {Head(n.inq)}
      BY <2>1, <2>3, InTail
    <3> HIDE DEF a, x
    <3>2. Len(a) <= x
      BY <3>1
    <3> QED  BY <2>3, <3>1, <3>2 DEF Chan, SetOf, a, x
  <2> QED  BY <2>2, <2>3 DEF SetOf
<1>3. ASSUME NEW S, NEW c \in Nat PROVE Step(n, m, S, c)
  <2>1. Step(n, n, S, c)
    BY StepRefl
  <2>2. Grows(n, m, c)
    BY <2>1 DEF Step, Grows, SetOf
  <2>3. Keeps(n, m)
    BY DEF Keeps, Tracks, SetOf
  <2>4. Adds(n, m, S)
    BY DEF Adds, SetOf
  <2>5. Order(n.q) => Order(m.q)
    BY DEF SetOf
  <2> QED  BY <1>1, <1>2, <2>2, <2>3, <2>4, <2>5 DEF Step
<1>4. ASSUME NEW c \in Nat PROVE Space(n, c) => Space(m, c)
  BY DEF Space, SetOf
<1> QED  BY <1>1, <1>2, <1>3, <1>4

\* Chan is transitive.
LEMMA ChanTrans ==
    ASSUME NEW n, Legal(n), NEW m, Legal(m), NEW l, Legal(l), Chan(n, m), Chan(m, l)
    PROVE  Chan(n, l)
<1>1. Len(n.inq) \in Nat /\ Len(m.inq) \in Nat /\ Len(l.inq) \in Nat
  BY LegalFields
<1> QED  BY <1>1 DEF Chan

\* The fields change and a message of one frame goes out.
LEMMA SetSend1 ==
    ASSUME NEW n, Legal(n), NEW l, SetOf(n, l), NEW s \in Sapis, NEW a \in Messages
    PROVE  LET m == SendI(l, s, <<a>>)
           IN  /\ Legal(m) /\ Chan(n, m) /\ SameCall(l, m)
               /\ Space(n, 1) /\ (a = "CIPHER_COMMAND" => NoI(In(n.q), 0)) => Step(n, m, I(s, {a}), 1)
<1> DEFINE m == SendI(l, s, <<a>>)
<1>1. Legal(l) /\ Chan(n, l) /\ (Space(n, 1) => Space(l, 1)) /\ Step(n, l, {}, 0) /\ l.q = n.q
  BY SetIs DEF SetOf
<1>2. /\ Legal(m) /\ Chan(l, m) /\ SameCall(l, m)
      /\ Space(l, 1) /\ (a = "CIPHER_COMMAND" => NoI(In(l.q), 0)) => Step(l, m, I(s, {a}), 1)
  BY <1>1, SendI1
<1> HIDE DEF m
<1>3. Chan(n, m)
  BY <1>1, <1>2, ChanTrans
<1>4. ASSUME Space(n, 1), a = "CIPHER_COMMAND" => NoI(In(n.q), 0) PROVE Step(n, m, I(s, {a}), 1)
  <2>1. Clear({}) /\ {} \cup I(s, {a}) = I(s, {a}) /\ 0 + 1 = 1
    BY DEF Clear, Has
  <2>2. Step(l, m, I(s, {a}), 1)
    BY <1>1, <1>2, <1>4
  <2>3. Step(n, m, {} \cup I(s, {a}), 0 + 1)
    BY <1>1, <2>1, <2>2, StepTrans
  <2> QED  BY <2>1, <2>3
<1> QED  BY <1>2, <1>3, <1>4 DEF m

\* The fields change and two frames go out.
LEMMA SetSend2 ==
    ASSUME NEW n, Legal(n), NEW l, SetOf(n, l), NEW s \in Sapis, NEW a \in Messages, NEW b \in Messages,
           {"ASSIGNMENT_CMD", "CIPHER_COMMAND"} \cap {a, b} = {}
    PROVE  LET m == SendI(l, s, <<a, b>>)
           IN  /\ Legal(m) /\ Chan(n, m) /\ SameCall(l, m)
               /\ Space(n, 2) => Step(n, m, I(s, {a, b}), 2)
<1> DEFINE m == SendI(l, s, <<a, b>>)
<1>1. Legal(l) /\ Chan(n, l) /\ (Space(n, 2) => Space(l, 2)) /\ Step(n, l, {}, 0)
  BY SetIs
<1>2. /\ Legal(m) /\ Chan(l, m) /\ SameCall(l, m)
      /\ Space(l, 2) => Step(l, m, I(s, {a, b}), 2)
  BY <1>1, SendI2
<1> HIDE DEF m
<1>3. Chan(n, m)
  BY <1>1, <1>2, ChanTrans
<1>4. ASSUME Space(n, 2) PROVE Step(n, m, I(s, {a, b}), 2)
  <2>1. Clear({}) /\ {} \cup I(s, {a, b}) = I(s, {a, b}) /\ 0 + 2 = 2
    BY DEF Clear, Has
  <2>2. Step(l, m, I(s, {a, b}), 2)
    BY <1>1, <1>2, <1>4
  <2>3. Step(n, m, {} \cup I(s, {a, b}), 0 + 2)
    BY <1>1, <2>1, <2>2, StepTrans
  <2> QED  BY <2>1, <2>3
<1> QED  BY <1>2, <1>3, <1>4 DEF m

\* A frame that is no information.
Plain(n, m, f) ==
    /\ In(m.q) = In(n.q) \cup {f} /\ Keeps(n, m) /\ Grows(n, m, 1)
    /\ Order(n.q) /\ (\A g \in In(n.q) : Ok(g, f)) => Order(m.q)

\* A frame that is no information, queued where there is room.
LEMMA PlainIs ==
    ASSUME NEW n, Legal(n), NEW f \in Frame, f.t # "I"
    PROVE  LET m == QueueLapdm(n, f)
           IN  /\ Legal(m) /\ Chan(n, m) /\ SameCall(n, m) /\ m.link = n.link
               /\ Space(n, 1) => Plain(n, m, f)
<1> DEFINE m == QueueLapdm(n, f)
<1>1. /\ Legal(m) /\ Chan(n, m) /\ SameCall(n, m) /\ m.link = n.link
      /\ Len(n.q) + 2 <= DedicatedN => m.q = Append(n.q, f)
  BY QueueIs
<1> HIDE DEF m
<1>2. ASSUME Space(n, 1) PROVE Plain(n, m, f)
  <2>1. n.q \in Seq(Frame) /\ Len(n.q) \in Nat /\ DedicatedN \in Nat
    BY LegalFields, Rom6Assumption
  <2>2. Len(n.q) + 2 <= DedicatedN
    <3>1. Len(n.q) + 1 + 1 <= DedicatedN
      BY <1>2 DEF Space
    <3> QED  BY <2>1, <3>1
  <2>3. m.q = Append(n.q, f)
    BY <1>1, <2>2
  <2>4. In(m.q) = In(n.q) \cup {f} /\ Len(m.q) = Len(n.q) + 1
    BY <2>1, <2>3, InAppend
  <2>5. Keeps(n, m)
    <3>1. \A o \in Sapis : ~IsI(f, o)
      BY DEF IsI
    <3> QED  BY <1>1, <2>3, <3>1, TracksOther DEF Keeps
  <2>6. Grows(n, m, 1)
    <3>1. Step(n, n, {}, 1)
      BY StepRefl
    <3>2. Len(m.q) <= Len(n.q) + 1
      BY <2>1, <2>4
    <3> QED  BY <1>1, <3>1, <3>2 DEF Grows, Step
  <2>7. Order(n.q) /\ (\A g \in In(n.q) : Ok(g, f)) => Order(m.q)
    BY <2>1, <2>3, OrderAppend
  <2> QED  BY <2>4, <2>5, <2>6, <2>7 DEF Plain
<1> QED  BY <1>1, <1>2 DEF m

\* Receive ready may follow anything.
LEMMA SendRrIs ==
    ASSUME NEW n, Legal(n), NEW s \in Sapis
    PROVE  LET m == SendRr(n, s)
           IN  /\ Legal(m) /\ Chan(n, m) /\ SameCall(n, m) /\ m.link = n.link
               /\ Space(n, 1) => Step(n, m, Rr, 1) /\ (Order(n.q) => Order(m.q))
<1> DEFINE f == [t |-> "RR", sapi |-> s, nr |-> n.link[s].vr]
           m == SendRr(n, s)
<1>1. m = QueueLapdm(n, f)
  BY DEF SendRr
<1>2. n.link[s].vr \in Nums
  BY LegalFields DEF LinkState
<1>3. f \in Rr /\ f \in Frame /\ f.t = "RR"
  BY <1>2 DEF Rr, Frame
<1>4. \A g : Ok(g, f)
  BY <1>3 DEF Ok, Opens, IsI
<1> HIDE DEF f, m
<1>5. /\ Legal(m) /\ Chan(n, m) /\ SameCall(n, m) /\ m.link = n.link
      /\ Space(n, 1) => Plain(n, m, f)
  BY <1>1, <1>3, PlainIs
<1>6. ASSUME Space(n, 1) PROVE Step(n, m, Rr, 1) /\ (Order(n.q) => Order(m.q))
  BY <1>3, <1>4, <1>5, <1>6 DEF Step, Plain, Adds
<1> QED  BY <1>5, <1>6 DEF m

\* A link starts anew and the frame that opens it goes out.
Opened(n, m, s, f) ==
    /\ In(m.q) = In(n.q) \cup {f} /\ Grows(n, m, 1)
    /\ NoI(In(n.q), s) => Tracks(m, s, 0, 0)
    /\ \A o \in Sapis, from \in Nums, d \in Nat : o # s /\ Tracks(n, o, from, d) => Tracks(m, o, from, d)
    /\ Order(n.q) /\ (\A g \in In(n.q) : Ok(g, f)) => Order(m.q)

\* A link that starts anew has nothing under way but what opens it.
LEMMA OpenIs ==
    ASSUME NEW n, Legal(n), NEW s \in Sapis, NEW ua \in {"NONE", "SAPI3_ESTABLISH"}, NEW f \in Frame, Opens(f, s)
    PROVE  LET m == QueueLapdm([n EXCEPT !.link[s] = [NewLink EXCEPT !.ua = ua]], f)
           IN  /\ Legal(m) /\ Chan(n, m) /\ SameCall(n, m)
               /\ Space(n, 1) => Opened(n, m, s, f)
<1> DEFINE k == [NewLink EXCEPT !.ua = ua]
           l == [n EXCEPT !.link[s] = k]
           m == QueueLapdm(l, f)
<1>1. k \in LinkState /\ k.acks = <<>> /\ k.vs = 0 /\ 0 \in Nums
  <2>1. 0 \in Nums /\ <<>> \in Seq(Acks)
    BY Rom6Assumption DEF Nums
  <2> QED  BY <2>1 DEF NewLink, LinkState
<1>2. n \in Engine /\ AckN \in Nat /\ Len(k.acks) = 0
  BY <1>1, Rom6Assumption DEF Legal
<1> HIDE DEF k
<1>3. /\ l \in Engine /\ l.q = n.q /\ l.inq = n.inq /\ l.conf = n.conf /\ l.rel = n.rel /\ SameCall(n, l)
      /\ l.link[s] = k /\ \A o \in Sapis : o # s => l.link[o] = n.link[o]
  BY <1>1, <1>2 DEF Engine, SameCall
<1> HIDE DEF l
<1>4. ASSUME NEW o \in Sapis
      PROVE  Len(l.link[o].acks) <= AckN /\ \A c \in Nat : Len(l.link[o].acks) <= Len(n.link[o].acks) + c
  <2>1. Len(n.link[o].acks) \in Nat /\ Len(n.link[o].acks) <= AckN
    BY LegalFields DEF Legal
  <2>2. CASE o = s
    <3>1. Len(l.link[o].acks) = 0
      BY <1>2, <1>3, <2>2
    <3> QED  BY <1>2, <2>1, <3>1
  <2>3. CASE o # s
    <3>1. l.link[o].acks = n.link[o].acks
      BY <1>3, <2>3
    <3> DEFINE x == Len(n.link[o].acks)
    <3>2. x \in Nat
      BY <2>1
    <3> HIDE DEF x
    <3>3. \A c \in Nat : x <= x + c
      BY <3>2
    <3> QED  BY <2>1, <3>1, <3>3 DEF x
  <2> QED  BY <2>2, <2>3
<1>5. Legal(l)
  <2>1. Len(l.q) < DedicatedN
    BY <1>3 DEF Legal
  <2> QED  BY <1>3, <1>4, <2>1 DEF Legal
<1>6. Chan(n, l)
  <2>1. Len(n.inq) \in Nat
    BY LegalFields
  <2> QED  BY <1>3, <2>1 DEF Chan
<1>7. \A o \in Sapis : ~IsI(f, o) /\ f.t # "I"
  BY DEF IsI, Opens
<1>8. /\ Legal(m) /\ Chan(l, m) /\ SameCall(l, m) /\ m.link = l.link
      /\ Space(l, 1) => Plain(l, m, f)
  BY <1>5, <1>7, PlainIs
<1> HIDE DEF m
<1>9. Chan(n, m) /\ SameCall(n, m)
  BY <1>3, <1>5, <1>6, <1>8, ChanTrans DEF SameCall
<1>10. ASSUME Space(n, 1) PROVE Opened(n, m, s, f)
  <2>1. Grows(n, l, 0)
    <3>1. Len(l.q) <= Len(n.q) + 0
      <4>1. Len(n.q) \in Nat
        BY LegalFields
      <4> QED  BY <1>3, <4>1
    <3> QED  BY <1>4, <3>1 DEF Grows
  <2>2. Space(l, 1)
    <3>1. 0 + 1 = 1
      OBVIOUS
    <3> QED  BY <1>5, <1>10, <2>1, <3>1, SpaceAfter
  <2>3. Plain(l, m, f)
    BY <1>8, <2>2
  <2>4. Grows(n, m, 1)
    <3>1. Len(m.q) <= Len(n.q) + 1
      BY <1>3, <2>3 DEF Plain, Grows
    <3>2. ASSUME NEW o \in Sapis PROVE Len(m.link[o].acks) <= Len(n.link[o].acks) + 1
      BY <1>4, <1>8
    <3> QED  BY <3>1, <3>2 DEF Grows
  <2>5. ASSUME NoI(In(n.q), s) PROVE Tracks(m, s, 0, 0)
    <3>1. Info(l.q, s) = <<>>
      <4>1. n.q \in Seq(Frame)
        BY LegalFields
      <4> QED  BY <1>3, <2>5, <4>1, InfoType DEF NoI
    <3>2. Len(<<>>) = 0 /\ (1 .. 0) = {} /\ 0 + 0 = 0
      OBVIOUS
    <3>3. (0 + 0) % Modulus = 0
      BY Rom6Assumption
    <3>4. Tracks(l, s, 0, 0)
      <4>1. Len(l.link[s].acks) = 0 /\ l.link[s].vs = 0
        BY <1>1, <1>2, <1>3
      <4> QED  BY <3>1, <3>2, <3>3, <4>1 DEF Tracks
    <3> QED  BY <1>1, <2>3, <3>4 DEF Plain, Keeps
  <2>6. ASSUME NEW o \in Sapis, NEW from \in Nums, NEW d \in Nat, o # s, Tracks(n, o, from, d)
        PROVE  Tracks(m, o, from, d)
    <3>1. Tracks(l, o, from, d)
      BY <1>3, <2>6 DEF Tracks
    <3> QED  BY <2>3, <3>1 DEF Plain, Keeps
  <2>7. In(m.q) = In(n.q) \cup {f} /\ (Order(n.q) /\ (\A g \in In(n.q) : Ok(g, f)) => Order(m.q))
    BY <1>3, <2>3 DEF Plain
  <2> QED  BY <2>4, <2>5, <2>6, <2>7 DEF Opened
<1> QED  BY <1>8, <1>9, <1>10 DEF m, l, k

-----------------------------------------------------------------------------
(* The network's steps, one by one. *)

\* Room for d frames is room for fewer.
LEMMA SpaceLess ==
    ASSUME NEW n, Legal(n), NEW c \in Nat, NEW d \in Nat, Space(n, d), c <= d
    PROVE  Space(n, c)
<1>1. c \in Nat /\ d - c \in Nat /\ (d - c) + c = d
  OBVIOUS
<1>2. Grows(n, n, d - c)
  <2>1. Step(n, n, {}, d - c)
    BY <1>1, StepRefl
  <2> QED  BY <2>1 DEF Step
<1>3. Space(n, (d - c) + c)
  BY <1>1
<1> QED  BY <1>1, <1>2, <1>3, SpaceAfter

\* A step of c frames is one of at most d, where d is more.
LEMMA StepLess ==
    ASSUME NEW n, Legal(n), NEW m, NEW S, NEW c \in Nat, NEW d \in Nat, Step(n, m, S, c), c <= d
    PROVE  Step(n, m, S, d)
<1>1. Legal(m) /\ Grows(n, m, c)
  BY DEF Step
<1>2. \A x \in Nat, y \in Nat : x <= y + c => x <= y + d
  OBVIOUS
<1>3. Len(n.q) \in Nat /\ Len(m.q) \in Nat
      /\ \A s \in Sapis : Len(n.link[s].acks) \in Nat /\ Len(m.link[s].acks) \in Nat
  BY <1>1, LegalFields
<1>4. Grows(n, m, d)
  BY <1>1, <1>2, <1>3 DEF Grows
<1> QED  BY <1>4 DEF Step

\* Two steps are one, of frames from a common set.
LEMMA StepTo ==
    ASSUME NEW n, Legal(n), NEW m, NEW l, NEW S, NEW T, NEW U, NEW c \in Nat, NEW d \in Nat,
           Step(n, m, S, c), Step(m, l, T, d), Clear(S), S \cup T \subseteq U
    PROVE  Step(n, l, U, c + d)
  BY StepTrans, StepMore

\* What changes of the transaction's fields keeps them typed.
LEMMA FieldSets ==
    /\ 0 \in Sapis /\ 3 \in Sapis
    /\ {"SEGMENT", "LU_ACCEPT", "MM_INFO", "CHAN_REL", "CIPHER_COMMAND", "MT_CALL_SETUP", "CP_DATA",
        "CP_ACK", "RP_ACK", "CALL_PROCEEDING", "ALERTING", "CONNECT", "CONNECT_ACK", "RELEASE",
        "ASSIGNMENT_CMD"} \subseteq Messages
    /\ Clear({}) /\ \A s, a : s # 0 \/ a # "ASSIGNMENT_CMD" => Clear(I(s, {a}))
  BY ISets DEF Sapis, Messages, Clear, Has

\* The release is a step of one frame, and waits for its acknowledge.
LEMMA ChannelReleaseIs ==
    ASSUME NEW n, Legal(n), NEW l, SetOf(n, l)
    PROVE  LET m == ChannelRelease(l)
           IN  /\ Legal(m) /\ Chan(n, m)
               /\ m.reg = "AWAIT_REL_ACK" /\ m.svc = l.svc /\ m.setup = l.setup /\ m.call = l.call
               /\ Space(n, 1) => Step(n, m, I(0, {"CHAN_REL"}), 1)
<1> DEFINE k == [l EXCEPT !.reg = "AWAIT_REL_ACK"]
           m == SendI(k, 0, <<"CHAN_REL">>)
<1>1. SetOf(n, k) /\ k.reg = "AWAIT_REL_ACK" /\ k.svc = l.svc /\ k.setup = l.setup /\ k.call = l.call
  BY DEF SetOf, Engine, Regs
<1>2. ChannelRelease(l) = m
  BY DEF ChannelRelease
<1> HIDE DEF k
<1>3. /\ Legal(m) /\ Chan(n, m) /\ SameCall(k, m)
      /\ Space(n, 1) /\ ("CHAN_REL" = "CIPHER_COMMAND" => NoI(In(n.q), 0)) => Step(n, m, I(0, {"CHAN_REL"}), 1)
  BY <1>1, SetSend1, FieldSets
<1> HIDE DEF m
<1> QED  BY <1>1, <1>2, <1>3 DEF SameCall

\* The outcome of an assignment sends CONNECT at most.
LEMMA AssignedIs ==
    ASSUME NEW n, Legal(n), NEW msg
    PROVE  LET m == Assigned(n, msg)
           IN  /\ Legal(m) /\ Chan(n, m) /\ SameCall(n, m)
               /\ Space(n, 1) => Step(n, m, I(0, {"CONNECT"}), 1)
<1> DEFINE l == [n EXCEPT !.assign = FALSE, !.tch = @ /\ msg = "ASSIGNMENT_COMPLETE"]
           o == SendI(l, 0, <<"CONNECT">>)
<1>1. n \in Engine
  BY DEF Legal
<1>2. SetOf(n, l) /\ SameCall(n, l)
  BY <1>1 DEF SetOf, Engine, SameCall
<1> HIDE DEF l
<1>3. /\ Legal(o) /\ Chan(n, o) /\ SameCall(l, o)
      /\ Space(n, 1) /\ ("CONNECT" = "CIPHER_COMMAND" => NoI(In(n.q), 0)) => Step(n, o, I(0, {"CONNECT"}), 1)
  BY <1>2, SetSend1, FieldSets
<1> HIDE DEF o
<1>4. CASE ~n.assign
  <2>1. Assigned(n, msg) = n
    BY <1>4 DEF Assigned
  <2>2. Step(n, n, I(0, {"CONNECT"}), 1) /\ SameCall(n, n)
    BY StepRefl DEF SameCall
  <2> QED  BY <2>1, <2>2 DEF Step
<1>5. CASE n.assign
  <2>1. Assigned(n, msg) = o
    BY <1>5 DEF Assigned, o, l
  <2>2. SameCall(n, o)
    BY <1>2, <1>3 DEF SameCall
  <2> QED  BY <1>3, <2>1, <2>2
<1> QED  BY <1>4, <1>5

\* The cipher command is a step of one frame, when no information waits.
LEMMA QueueCipherIs ==
    ASSUME NEW n, Legal(n), NEW l, SetOf(n, l), NEW svc \in Svcs
    PROVE  LET m == QueueCipher(l, svc)
           IN  /\ Legal(m) /\ Chan(n, m)
               /\ m.reg = "AWAIT_CIPHER_ACK" /\ m.svc = svc /\ m.setup = l.setup /\ m.call = l.call
               /\ Space(n, 1) /\ NoI(In(n.q), 0) => Step(n, m, I(0, {"CIPHER_COMMAND"}), 1)
<1> DEFINE k == [l EXCEPT !.svc = svc, !.reg = "AWAIT_CIPHER_ACK"]
           m == SendI(k, 0, <<"CIPHER_COMMAND">>)
<1>1. SetOf(n, k) /\ k.reg = "AWAIT_CIPHER_ACK" /\ k.svc = svc /\ k.setup = l.setup /\ k.call = l.call
  BY DEF SetOf, Engine, Regs
<1>2. QueueCipher(l, svc) = m
  BY DEF QueueCipher
<1> HIDE DEF k
<1>3. /\ Legal(m) /\ Chan(n, m) /\ SameCall(k, m)
      /\ Space(n, 1) /\ ("CIPHER_COMMAND" = "CIPHER_COMMAND" => NoI(In(n.q), 0))
           => Step(n, m, I(0, {"CIPHER_COMMAND"}), 1)
  BY <1>1, SetSend1, FieldSets
<1> HIDE DEF m
<1> QED  BY <1>1, <1>2, <1>3 DEF SameCall

\* The services a transaction may have come to by the phone's reason for it.
Of == [CM_CALL |-> {"NONE", "MO_CALL"}, CM_EMERGENCY |-> {"NONE", "EMERGENCY"}, CM_SMS |-> {"NONE", "SMS"},
       PAGING_RESPONSE |-> {"NONE", "MT_CALL", "MT_SMS"}, LU_REQUEST |-> {"NONE"}]

\* What a message that opens a connection leads to.
LEMMA NetEstablishedIs ==
    ASSUME NEW n, Legal(n), NEW msg
    PROVE  LET m == NetEstablished(n, msg)
           IN  /\ Legal(m) /\ Chan(n, m)
               /\ \/ m = n /\ msg \notin {"LU_REQUEST"} \cup DOMAIN CmService
                  \/ m = n /\ n.reg # "IDLE"
                  \/ msg \in Outcomes /\ SameCall(n, m) /\ (Space(n, 1) => Step(n, m, I(0, {"CONNECT"}), 1))
                  \/ /\ msg = "LU_REQUEST" /\ n.reg = "IDLE" /\ m.reg = "AWAIT_LU_ACK" /\ m.svc = n.svc
                     /\ Space(n, 1) => Step(n, m, I(0, {"LU_ACCEPT"}), 1)
                  \/ /\ msg \in {"PAGING_RESPONSE"} \cup DOMAIN CmService /\ n.reg = "IDLE"
                     /\ m.reg = "AWAIT_CIPHER_ACK" /\ m.svc \in Of[msg]
                     /\ msg = "CM_CALL" => m.call = 0
                     /\ Space(n, 1) /\ NoI(In(n.q), 0) => Step(n, m, I(0, {"CIPHER_COMMAND"}), 1)
<1> DEFINE m == NetEstablished(n, msg)
<1>1. n \in Engine /\ n.inq \in Seq(Services) /\ Chan(n, n)
  BY ChanRefl, LegalFields
<1>2. DOMAIN CmService = {"CM_CALL", "CM_EMERGENCY", "CM_SMS"}
  BY DEF CmService
<1>3. CASE msg \in Outcomes
  <2>1. m = Assigned(n, msg)
    BY <1>2, <1>3 DEF NetEstablished, Outcomes
  <2> QED  BY <1>3, <2>1, AssignedIs
<1>4. CASE msg = "LU_REQUEST" /\ n.reg = "IDLE"
  <2> DEFINE l == [n EXCEPT !.reg = "AWAIT_LU_ACK"]
             o == SendI(l, 0, <<"LU_ACCEPT">>)
  <2>1. m = o
    BY <1>2, <1>4 DEF NetEstablished, Outcomes
  <2>2. SetOf(n, l) /\ l.reg = "AWAIT_LU_ACK" /\ l.svc = n.svc
    BY <1>1 DEF SetOf, Engine, Regs
  <2> HIDE DEF l, m
  <2>3. /\ Legal(o) /\ Chan(n, o) /\ SameCall(l, o)
        /\ Space(n, 1) /\ ("LU_ACCEPT" = "CIPHER_COMMAND" => NoI(In(n.q), 0)) => Step(n, o, I(0, {"LU_ACCEPT"}), 1)
    BY <2>2, SetSend1, FieldSets
  <2> HIDE DEF o
  <2>4. o.reg = "AWAIT_LU_ACK" /\ o.svc = n.svc
    BY <2>2, <2>3 DEF SameCall
  <2> QED  BY <1>4, <2>1, <2>3, <2>4 DEF m
<1>5. CASE msg \in DOMAIN CmService /\ n.reg = "IDLE"
  <2> DEFINE l == IF msg = "CM_SMS" THEN n ELSE [n EXCEPT !.call = 0, !.setup = FALSE, !.assign = FALSE]
  <2>1. m = QueueCipher(l, CmService[msg])
    BY <1>2, <1>5 DEF NetEstablished, Outcomes
  <2>2. SetOf(n, l) /\ (msg = "CM_CALL" => l.call = 0)
    <3>1. CASE msg = "CM_SMS"
      BY <1>1, <3>1 DEF SetOf
    <3>2. CASE msg # "CM_SMS"
      <4> DEFINE k == [n EXCEPT !.call = 0, !.setup = FALSE, !.assign = FALSE]
      <4>1. k \in Engine
        <5>1. 0 \in 0 .. 3 /\ n.setup \in BOOLEAN /\ n.assign \in BOOLEAN
          BY <1>1 DEF Engine
        <5> QED  BY <1>1, <5>1 DEF Engine
      <4>2. l = k
        BY <3>2
      <4>3. SetOf(n, k) /\ k.call = 0
        BY <1>1, <4>1 DEF SetOf, Engine
      <4> QED  BY <4>2, <4>3
    <3> QED  BY <3>1, <3>2
  <2>3. CmService[msg] \in Svcs /\ CmService[msg] \in Of[msg]
    BY <1>2, <1>5 DEF CmService, Svcs, Of
  <2> HIDE DEF l, m
  <2>4. /\ Legal(m) /\ Chan(n, m) /\ m.reg = "AWAIT_CIPHER_ACK" /\ m.svc = CmService[msg] /\ m.call = l.call
        /\ Space(n, 1) /\ NoI(In(n.q), 0) => Step(n, m, I(0, {"CIPHER_COMMAND"}), 1)
    BY <2>1, <2>2, <2>3, QueueCipherIs
  <2> QED  BY <1>5, <2>2, <2>3, <2>4 DEF m
<1>6. CASE msg = "PAGING_RESPONSE" /\ n.reg = "IDLE" /\ n.inq # <<>>
  <2> DEFINE l == [n EXCEPT !.active = <<Head(n.inq)>>, !.inq = Tail(@)]
             svc == IF Kind[Head(n.inq)] = "call" THEN "MT_CALL" ELSE "MT_SMS"
  <2>1. m = QueueCipher(l, svc)
    BY <1>2, <1>6 DEF NetEstablished, Outcomes
  <2>2. SetOf(n, l)
    <3>1. Tail(n.inq) \in Seq(Services) /\ <<Head(n.inq)>> \in Seq(Services)
      BY <1>1, <1>6, InTail
    <3> QED  BY <1>1, <1>6, <3>1 DEF SetOf, Engine
  <2>3. svc \in Svcs /\ svc \in Of[msg]
    BY <1>6 DEF Svcs, Of
  <2> HIDE DEF l, m, svc
  <2>4. /\ Legal(m) /\ Chan(n, m) /\ m.reg = "AWAIT_CIPHER_ACK" /\ m.svc = svc
        /\ Space(n, 1) /\ NoI(In(n.q), 0) => Step(n, m, I(0, {"CIPHER_COMMAND"}), 1)
    BY <2>1, <2>2, <2>3, QueueCipherIs
  <2> QED  BY <1>6, <2>3, <2>4 DEF m
<1>7. CASE /\ msg \notin Outcomes /\ ~(msg = "LU_REQUEST" /\ n.reg = "IDLE")
           /\ ~(msg \in DOMAIN CmService /\ n.reg = "IDLE")
           /\ ~(msg = "PAGING_RESPONSE" /\ n.reg = "IDLE" /\ n.inq # <<>>)
  <2>1. m = n
    BY <1>7 DEF NetEstablished
  <2> QED  BY <1>1, <1>7, <2>1
<1> QED  BY <1>3, <1>4, <1>5, <1>6, <1>7

\* The connection is open: the network's information, and what the service begins with.
CipherDone(n, m) ==
    /\ m.reg = "MM_ACTIVE" /\ m.svc = n.svc /\ m.setup = n.setup
    /\ \/ n.svc = "MT_CALL" /\ Step(n, m, I(0, {"MM_INFO", "SEGMENT", "MT_CALL_SETUP"}), 3)
       \/ n.svc = "MT_SMS" /\ \E k : Step(n, k, I(0, {"MM_INFO"}), 1) /\ Opened(k, m, 3, [t |-> "SABM", sapi |-> 3])
       \/ /\ n.svc \notin {"MT_CALL", "MT_SMS"} /\ m.call = n.call
          /\ Step(n, m, I(0, {"MM_INFO"}), 1)

\* CipherComplete opens the connection.
LEMMA CipherCompleteIs ==
    ASSUME NEW n, Legal(n)
    PROVE  LET m == CipherComplete(n)
           IN  /\ Legal(m) /\ Chan(n, m)
               /\ Space(n, 3) => CipherDone(n, m)
<1> DEFINE l == [n EXCEPT !.reg = "MM_ACTIVE"]
           open == SendI(l, 0, <<"MM_INFO">>)
           m == CipherComplete(n)
           S == I(0, {"MM_INFO"})
<1>1. n \in Engine
  BY DEF Legal
<1>2. SetOf(n, l) /\ l.reg = "MM_ACTIVE" /\ l.svc = n.svc /\ l.setup = n.setup /\ l.call = n.call
  BY <1>1 DEF SetOf, Engine, Regs
<1>3. m = CASE n.svc = "MT_CALL" -> SendI([open EXCEPT !.call = 1], 0, Message(n.size.setup, "MT_CALL_SETUP"))
            [] n.svc = "MT_SMS" -> SendSabm(open, 3, "SAPI3_ESTABLISH")
            [] OTHER -> open
  BY DEF CipherComplete
<1> HIDE DEF l, m
<1>4. /\ Legal(open) /\ Chan(n, open) /\ SameCall(l, open)
      /\ Space(n, 1) /\ ("MM_INFO" = "CIPHER_COMMAND" => NoI(In(n.q), 0)) => Step(n, open, S, 1)
  BY <1>2, SetSend1, FieldSets
<1> HIDE DEF open
<1>5. open.reg = "MM_ACTIVE" /\ open.svc = n.svc /\ open.setup = n.setup /\ open.call = n.call
  BY <1>2, <1>4 DEF SameCall
<1>6. ASSUME Space(n, 3) PROVE Step(n, open, S, 1) /\ Space(open, 2) /\ Space(open, 1)
  <2>1. Space(n, 1)
    BY <1>6, SpaceLess
  <2>2. Step(n, open, S, 1)
    BY <1>4, <2>1
  <2>3. Space(open, 2)
    <3>1. Grows(n, open, 1) /\ 1 + 2 = 3
      BY <2>2 DEF Step
    <3> QED  BY <1>4, <1>6, <3>1, SpaceAfter
  <2> QED  BY <1>4, <2>2, <2>3, SpaceLess
<1>7. Clear(S)
  BY FieldSets
<1>8. CASE n.svc = "MT_CALL"
  <2> DEFINE k == [open EXCEPT !.call = 1]
             c == n.size.setup
             o == SendI(k, 0, Message(c, "MT_CALL_SETUP"))
             T == I(0, {"SEGMENT", "MT_CALL_SETUP"})
             U == I(0, {"MM_INFO", "SEGMENT", "MT_CALL_SETUP"})
  <2>1. m = o
    BY <1>3, <1>8
  <2>2. SetOf(open, k) /\ k.reg = open.reg /\ k.svc = open.svc /\ k.setup = open.setup
    <3>1. 1 \in 0 .. 3 /\ open \in Engine
      BY <1>4 DEF Legal
    <3> QED  BY <3>1 DEF SetOf, Engine
  <2> HIDE DEF k
  <2>3. c \in 1 .. 2 /\ 0 \in Sapis
    <3>1. n.size \in Sizes
      BY <1>1 DEF Engine
    <3> QED  BY <3>1, FieldSets, Rom6Assumption
  <2> HIDE DEF c
  <2>4. /\ Legal(o) /\ Chan(open, o) /\ SameCall(k, o)
        /\ Space(open, 2) => Step(open, o, T, 2)
    <3>1. Legal(k) /\ Chan(open, k) /\ (Space(open, 2) => Space(k, 2)) /\ Step(open, k, {}, 0)
      BY <1>4, <2>2, SetIs
    <3>2. c \in Nat /\ c <= 2 /\ 0 + c = c
      BY <2>3
    <3>3. /\ Legal(o) /\ Chan(k, o) /\ SameCall(k, o)
          /\ SpaceFor(k, 0, c) => Step(k, o, T, c)
      BY <2>3, <3>1, <3>2, SendMessage
    <3> HIDE DEF o, T
    <3>4. Chan(open, o)
      BY <1>4, <3>1, <3>3, ChanTrans
    <3>5. ASSUME Space(open, 2) PROVE Step(open, o, T, 2)
      <4>1. Space(k, c)
        BY <3>1, <3>2, <3>5, SpaceLess
      <4>2. Step(k, o, T, c)
        BY <2>3, <3>3, <4>1 DEF Space, SpaceFor
      <4>3. Clear({}) /\ {} \cup T \subseteq T
        BY FieldSets
      <4>4. Step(open, o, T, 0 + c)
        BY <1>4, <3>1, <3>2, <4>2, <4>3, StepTo
      <4> QED  BY <1>4, <3>2, <4>4, StepLess
    <3> QED  BY <3>3, <3>4, <3>5
  <2> HIDE DEF o
  <2>5. Chan(n, o)
    BY <1>4, <2>4, ChanTrans
  <2>6. ASSUME Space(n, 3) PROVE Step(n, o, U, 3)
    <3>1. S \cup T \subseteq U
      <4>1. {"MM_INFO"} \cup {"SEGMENT", "MT_CALL_SETUP"} = {"MM_INFO", "SEGMENT", "MT_CALL_SETUP"}
        OBVIOUS
      <4>2. S \cup T = I(0, {"MM_INFO"} \cup {"SEGMENT", "MT_CALL_SETUP"})
        BY ISets
      <4> QED  BY <4>1, <4>2
    <3>2. Step(open, o, T, 2) /\ Step(n, open, S, 1)
      BY <1>6, <2>4, <2>6
    <3> HIDE DEF S, T, U
    <3>3. Step(n, o, U, 1 + 2)
      BY <1>7, <3>1, <3>2, StepTo
    <3>4. 1 + 2 = 3
      OBVIOUS
    <3> QED  BY <3>3, <3>4
  <2> QED  BY <1>5, <1>8, <2>1, <2>2, <2>4, <2>5, <2>6 DEF CipherDone, SameCall, m
<1>9. CASE n.svc = "MT_SMS"
  <2> DEFINE f == [t |-> "SABM", sapi |-> 3]
             o == QueueLapdm([open EXCEPT !.link[3] = [NewLink EXCEPT !.ua = "SAPI3_ESTABLISH"]], f)
  <2>1. m = o
    BY <1>3, <1>9 DEF SendSabm
  <2>2. f \in Frame /\ Opens(f, 3) /\ 3 \in Sapis
    BY FieldSets DEF Frame, Opens
  <2>3. /\ Legal(o) /\ Chan(open, o) /\ SameCall(open, o)
        /\ Space(open, 1) => Opened(open, o, 3, f)
    <3> HIDE DEF f
    <3> QED  BY <1>4, <2>2, OpenIs
  <2> HIDE DEF o
  <2>4. Chan(n, o)
    BY <1>4, <2>3, ChanTrans
  <2>5. ASSUME Space(n, 3) PROVE CipherDone(n, o)
    BY <1>5, <1>6, <1>9, <2>3, <2>5 DEF CipherDone, SameCall
  <2> QED  BY <2>1, <2>3, <2>4, <2>5 DEF m
<1>10. CASE n.svc \notin {"MT_CALL", "MT_SMS"}
  <2>1. m = open
    BY <1>3, <1>10
  <2> QED  BY <1>4, <1>5, <1>6, <1>10, <2>1 DEF CipherDone, m
<1> QED  BY <1>8, <1>9, <1>10

\* A call the phone sets up, its repetition apart.
SetUp(n, m) ==
    /\ ~(n.call # 0 /\ n.setup) /\ m.call # 0 /\ m.setup /\ m.reg = n.reg /\ m.svc = n.svc
    /\ \/ Step(n, m, I(0, {"CALL_PROCEEDING", "ASSIGNMENT_CMD"}), 2)
       \/ Step(n, m, I(0, {"CALL_PROCEEDING", "ALERTING", "CONNECT"}), 3)

\* Setup sets a call up, or ignores the repetition.
LEMMA SetupIs ==
    ASSUME NEW n, Legal(n), NEW data \in BOOLEAN
    PROVE  LET m == Setup(n, data)
           IN  /\ Legal(m) /\ Chan(n, m)
               /\ Space(n, 3) => (m = n /\ n.call # 0 /\ n.setup) \/ SetUp(n, m)
<1> DEFINE l == [n EXCEPT !.call = 1, !.setup = TRUE]
           n1 == SendI(l, 0, <<"CALL_PROCEEDING">>)
           m == Setup(n, data)
           S == I(0, {"CALL_PROCEEDING"})
<1>1. n \in Engine
  BY DEF Legal
<1>2. SetOf(n, l) /\ l.reg = n.reg /\ l.svc = n.svc /\ l.setup = TRUE /\ l.call = 1
  <2>1. 1 \in 0 .. 3 /\ l \in Engine
    <3>1. 1 \in 0 .. 3 /\ n.setup \in BOOLEAN
      BY <1>1 DEF Engine
    <3> QED  BY <1>1, <3>1 DEF Engine
  <2> QED  BY <1>1, <2>1 DEF SetOf, Engine
<1>3. m = IF n.call # 0 /\ n.setup THEN n
          ELSE IF data /\ ~n.tch THEN [SendI(n1, 0, <<"ASSIGNMENT_CMD">>) EXCEPT !.assign = TRUE]
          ELSE SendI(n1, 0, <<"ALERTING", "CONNECT">>)
  BY DEF Setup
<1> HIDE DEF l, m
<1>4. /\ Legal(n1) /\ Chan(n, n1) /\ SameCall(l, n1)
      /\ Space(n, 1) /\ ("CALL_PROCEEDING" = "CIPHER_COMMAND" => NoI(In(n.q), 0)) => Step(n, n1, S, 1)
  BY <1>2, SetSend1, FieldSets
<1> HIDE DEF n1
<1>5. n1.reg = n.reg /\ n1.svc = n.svc /\ n1.setup /\ n1.call # 0
  BY <1>2, <1>4 DEF SameCall
<1>6. ASSUME Space(n, 3) PROVE Step(n, n1, S, 1) /\ Space(n1, 2) /\ Space(n1, 1)
  <2>1. Space(n, 1)
    BY <1>6, SpaceLess
  <2>2. Step(n, n1, S, 1)
    BY <1>4, <2>1
  <2>3. Space(n1, 2)
    <3>1. Grows(n, n1, 1) /\ 1 + 2 = 3
      BY <2>2 DEF Step
    <3> QED  BY <1>4, <1>6, <3>1, SpaceAfter
  <2> QED  BY <1>4, <2>2, <2>3, SpaceLess
<1>7. Clear(S)
  BY FieldSets
<1>8. CASE n.call # 0 /\ n.setup
  BY <1>1, <1>3, <1>8, ChanRefl DEF m
<1>9. CASE ~(n.call # 0 /\ n.setup) /\ data /\ ~n.tch
  <2> DEFINE o == SendI(n1, 0, <<"ASSIGNMENT_CMD">>)
             k == [o EXCEPT !.assign = TRUE]
             T == I(0, {"ASSIGNMENT_CMD"})
             U == I(0, {"CALL_PROCEEDING", "ASSIGNMENT_CMD"})
  <2>1. m = k
    BY <1>3, <1>9
  <2>2. SetOf(n1, n1)
    BY <1>4 DEF SetOf, Legal
  <2>3. /\ Legal(o) /\ Chan(n1, o) /\ SameCall(n1, o)
        /\ Space(n1, 1) /\ ("ASSIGNMENT_CMD" = "CIPHER_COMMAND" => NoI(In(n1.q), 0)) => Step(n1, o, T, 1)
    BY <1>4, <2>2, SetSend1, FieldSets
  <2> HIDE DEF o
  <2>4. SetOf(o, k) /\ SameCall(o, k)
    <3>1. o \in Engine
      BY <2>3 DEF Legal
    <3>2. o.assign \in BOOLEAN
      BY <3>1 DEF Engine
    <3> QED  BY <3>1, <3>2 DEF SetOf, Engine, SameCall
  <2> HIDE DEF k
  <2>5. Legal(k) /\ Chan(o, k) /\ Step(o, k, {}, 0)
    BY <2>3, <2>4, SetIs
  <2>6. Chan(n, k)
    <3>1. Chan(n, o)
      BY <1>4, <2>3, ChanTrans
    <3> QED  BY <2>3, <2>5, <3>1, ChanTrans
  <2>7. ASSUME Space(n, 3) PROVE Step(n, k, U, 2)
    <3>1. Step(n, n1, S, 1) /\ Step(n1, o, T, 1)
      BY <1>6, <2>3, <2>7
    <3>2. S \cup T \subseteq U
      <4>1. {"CALL_PROCEEDING"} \cup {"ASSIGNMENT_CMD"} = {"CALL_PROCEEDING", "ASSIGNMENT_CMD"}
        OBVIOUS
      <4>2. S \cup T = I(0, {"CALL_PROCEEDING"} \cup {"ASSIGNMENT_CMD"})
        BY ISets
      <4> QED  BY <4>1, <4>2
    <3> HIDE DEF S, T, U
    <3>3. Step(n, o, U, 1 + 1) /\ 1 + 1 = 2
      BY <1>7, <3>1, <3>2, StepTo
    <3>4. Step(n, o, U, 2)
      BY <3>3
    <3>5. Adds(n, k, U) /\ Grows(n, k, 2) /\ Keeps(n, k) /\ (Order(n.q) /\ Clear(In(n.q)) => Order(k.q))
      <4>1. k.q = o.q /\ k.link = o.link
        BY <2>4 DEF SetOf
      <4>2. Adds(n, o, U) /\ Grows(n, o, 2) /\ Keeps(n, o) /\ (Order(n.q) /\ Clear(In(n.q)) => Order(o.q))
        BY <3>4 DEF Step
      <4>3. Keeps(n, k)
        BY <4>1, <4>2 DEF Keeps, Tracks
      <4> HIDE DEF U
      <4> QED  BY <4>1, <4>2, <4>3 DEF Adds, Grows
    <3> QED  BY <2>5, <2>6, <3>5 DEF Step
  <2> QED  BY <1>5, <1>9, <2>1, <2>3, <2>4, <2>5, <2>6, <2>7 DEF SetUp, SameCall, m
<1>10. CASE ~(n.call # 0 /\ n.setup) /\ ~(data /\ ~n.tch)
  <2> DEFINE o == SendI(n1, 0, <<"ALERTING", "CONNECT">>)
             T == I(0, {"ALERTING", "CONNECT"})
             U == I(0, {"CALL_PROCEEDING", "ALERTING", "CONNECT"})
  <2>1. m = o
    BY <1>3, <1>10
  <2>2. SetOf(n1, n1)
    BY <1>4 DEF SetOf, Legal
  <2>3. "ALERTING" \in Messages /\ "CONNECT" \in Messages /\ 0 \in Sapis
        /\ {"ASSIGNMENT_CMD", "CIPHER_COMMAND"} \cap {"ALERTING", "CONNECT"} = {}
    BY FieldSets
  <2>4. /\ Legal(o) /\ Chan(n1, o) /\ SameCall(n1, o)
        /\ Space(n1, 2) => Step(n1, o, T, 2)
    BY <1>4, <2>2, <2>3, SetSend2
  <2> HIDE DEF o
  <2>5. Chan(n, o)
    BY <1>4, <2>4, ChanTrans
  <2>6. ASSUME Space(n, 3) PROVE Step(n, o, U, 3)
    <3>1. S \cup T \subseteq U
      <4>1. {"CALL_PROCEEDING"} \cup {"ALERTING", "CONNECT"} = {"CALL_PROCEEDING", "ALERTING", "CONNECT"}
        OBVIOUS
      <4>2. S \cup T = I(0, {"CALL_PROCEEDING"} \cup {"ALERTING", "CONNECT"})
        BY ISets
      <4> QED  BY <4>1, <4>2
    <3>2. Step(n1, o, T, 2) /\ Step(n, n1, S, 1)
      BY <1>6, <2>4, <2>6
    <3> HIDE DEF S, T, U
    <3>3. Step(n, o, U, 1 + 2)
      BY <1>7, <3>1, <3>2, StepTo
    <3>4. 1 + 2 = 3
      OBVIOUS
    <3> QED  BY <3>3, <3>4
  <2> QED  BY <1>5, <1>10, <2>1, <2>4, <2>5, <2>6 DEF SetUp, SameCall, m
<1> QED  BY <1>8, <1>9, <1>10

\* What the phone says on each link, and what it says before its call is set up.
Up0 == {"CIPHER_COMPLETE", "SETUP", "SETUP_UDI", "EMERGENCY_SETUP", "CALL_CONFIRMED", "ALERTING",
        "CONNECT", "CONNECT_ACK", "DISCONNECT", "RELEASE_COMPLETE", "ASSIGNMENT_FAILURE"}
Up3 == {"SEGMENT", "CP_DATA", "CP_ACK"}
Up(s) == IF s = 0 THEN Up0 ELSE Up3
PreMsg == {"NONE", "CIPHER_COMPLETE", "SETUP", "SETUP_UDI"}

\* What the network answers.
Replies == {"CALL_PROCEEDING", "CONNECT", "CONNECT_ACK", "RELEASE"}
Answers(s, release) ==
    (IF s = 0 THEN I(0, Replies) ELSE I(3, {"CP_ACK", "RP_ACK"}))
        \cup (IF release THEN I(0, {"CHAN_REL"}) ELSE {})

\* The transaction goes on: nothing goes out, or an answer that may be the last.
SameTransaction(n, m) ==
    m.svc = n.svc /\ m.setup = n.setup /\ (n.call # 0 => m.call # 0)
Same(n, m) == SetOf(n, m) /\ m.reg = n.reg /\ SameTransaction(n, m)
Served(n, m, s) ==
    /\ m.reg \in {n.reg, "AWAIT_REL_ACK"} /\ SameTransaction(n, m)
    /\ Step(n, m, Answers(s, m.reg = "AWAIT_REL_ACK"), 2)

\* The answers of one message, as sets of frames.
LEMMA AnswerSets ==
    /\ \A K \in SUBSET Replies : \A b \in BOOLEAN : I(0, K) \subseteq Answers(0, b)
    /\ \A K \in SUBSET {"CP_ACK", "RP_ACK"} : \A b \in BOOLEAN : I(3, K) \subseteq Answers(3, b)
    /\ I(0, {"CHAN_REL"}) \subseteq Answers(0, TRUE) /\ I(0, {"CHAN_REL"}) \subseteq Answers(3, TRUE)
<1>1. ASSUME NEW b \in BOOLEAN PROVE I(0, Replies) \subseteq Answers(0, b) /\ I(3, {"CP_ACK", "RP_ACK"}) \subseteq Answers(3, b)
  BY DEF Answers
<1>2. I(0, {"CHAN_REL"}) \subseteq Answers(0, TRUE) /\ I(0, {"CHAN_REL"}) \subseteq Answers(3, TRUE)
  BY DEF Answers
<1>3. \A s, K, L : K \subseteq L => I(s, K) \subseteq I(s, L)
  BY ISets
<1> QED  BY <1>1, <1>2, <1>3

\* One frame in answer, on the link of the message.
LEMMA Serve1 ==
    ASSUME NEW n, Legal(n), NEW l, SetOf(n, l), l.reg = n.reg, SameTransaction(n, l),
           NEW s \in Sapis, NEW a, a \in IF s = 0 THEN Replies ELSE {"CP_ACK", "RP_ACK"}
    PROVE  LET m == SendI(l, s, <<a>>)
           IN  /\ Legal(m) /\ Chan(n, m) /\ SameCall(l, m)
               /\ Space(n, 3) => Served(n, m, s) /\ Step(n, m, I(s, {a}), 1)
<1> DEFINE m == SendI(l, s, <<a>>)
<1>1. a \in Messages /\ a # "CIPHER_COMMAND"
  BY DEF Messages, Replies
<1>2. /\ Legal(m) /\ Chan(n, m) /\ SameCall(l, m)
      /\ Space(n, 1) /\ (a = "CIPHER_COMMAND" => NoI(In(n.q), 0)) => Step(n, m, I(s, {a}), 1)
  BY <1>1, SetSend1
<1> HIDE DEF m
<1>3. ASSUME Space(n, 3) PROVE Served(n, m, s) /\ Step(n, m, I(s, {a}), 1)
  <2>1. Space(n, 1)
    BY <1>3, SpaceLess
  <2>2. Step(n, m, I(s, {a}), 1)
    BY <1>1, <1>2, <2>1
  <2>3. I(s, {a}) \subseteq Answers(s, m.reg = "AWAIT_REL_ACK")
    <3> DEFINE b == m.reg = "AWAIT_REL_ACK"
    <3>1. b \in BOOLEAN
      OBVIOUS
    <3> HIDE DEF b
    <3>2. CASE s = 0
      <4>1. {a} \in SUBSET Replies
        BY <3>2
      <4>2. I(0, {a}) \subseteq Answers(0, b)
        BY <3>1, <4>1, AnswerSets
      <4> QED  BY <3>2, <4>2 DEF b
    <3>3. CASE s = 3
      <4>1. {a} \in SUBSET {"CP_ACK", "RP_ACK"}
        BY <3>3
      <4>2. I(3, {a}) \subseteq Answers(3, b)
        BY <3>1, <4>1, AnswerSets
      <4> QED  BY <3>3, <4>2 DEF b
    <3> QED  BY <3>2, <3>3 DEF Sapis
  <2> DEFINE A == Answers(s, m.reg = "AWAIT_REL_ACK")
             B == I(s, {a})
  <2>4. Step(n, n, {}, 1) /\ Clear({}) /\ {} \cup B \subseteq A
    BY <2>3, StepRefl, FieldSets
  <2>5. Step(n, m, B, 1)
    BY <2>2
  <2> HIDE DEF A, B
  <2>6. Step(n, m, A, 1 + 1)
    BY <2>4, <2>5, StepTo, 1 \in Nat
  <2>7. Step(n, m, A, 2)
    <3>1. 1 + 1 = 2
      OBVIOUS
    <3> QED  BY <2>6, <3>1
  <2>8. m.reg \in {n.reg, "AWAIT_REL_ACK"} /\ SameTransaction(n, m)
    <3>1. m.reg = l.reg /\ m.svc = l.svc /\ m.setup = l.setup /\ m.call = l.call
      BY <1>2 DEF SameCall
    <3>2. l.svc = n.svc /\ l.setup = n.setup /\ (n.call # 0 => l.call # 0)
      BY DEF SameTransaction
    <3> QED  BY <3>1, <3>2 DEF SameTransaction
  <2> QED  BY <2>5, <2>7, <2>8 DEF Served, A, B
<1> QED  BY <1>2, <1>3 DEF m

\* The transaction ends with the release.
LEMMA ServeRelease ==
    ASSUME NEW n, Legal(n), NEW l, SetOf(n, l), SameTransaction(n, l), NEW s \in Sapis
    PROVE  LET m == ChannelRelease(l)
           IN  Legal(m) /\ Chan(n, m) /\ (Space(n, 3) => Served(n, m, s))
<1> DEFINE m == ChannelRelease(l)
           A == Answers(s, m.reg = "AWAIT_REL_ACK")
           B == I(0, {"CHAN_REL"})
<1>1. /\ Legal(m) /\ Chan(n, m)
      /\ m.reg = "AWAIT_REL_ACK" /\ m.svc = l.svc /\ m.setup = l.setup /\ m.call = l.call
      /\ Space(n, 1) => Step(n, m, B, 1)
  BY ChannelReleaseIs
<1> HIDE DEF m
<1>2. ASSUME Space(n, 3) PROVE Served(n, m, s)
  <2>1. Space(n, 1)
    BY <1>2, SpaceLess
  <2>2. B \subseteq A
    BY <1>1, AnswerSets DEF Sapis
  <2>3. Step(n, n, {}, 1) /\ Clear({}) /\ {} \cup B \subseteq A /\ Step(n, m, B, 1)
    BY <1>1, <2>1, <2>2, StepRefl, FieldSets
  <2> HIDE DEF A, B
  <2>4. Step(n, m, A, 1 + 1) /\ 1 + 1 = 2
    BY <2>3, StepTo
  <2>5. Step(n, m, A, 2)
    BY <2>4
  <2>6. m.reg \in {n.reg, "AWAIT_REL_ACK"} /\ SameTransaction(n, m)
    BY <1>1 DEF SameTransaction
  <2> QED  BY <2>5, <2>6 DEF Served, A
<1> QED  BY <1>1, <1>2 DEF m

\* What a message on an open connection leads to.
LEMMA NetActiveIs ==
    ASSUME NEW n, Legal(n), NEW s \in Sapis, NEW msg \in Up(s)
    PROVE  LET m == NetActive(n, s, msg)
           IN  /\ Legal(m) /\ Chan(n, m)
               /\ Space(n, 3) =>
                    \/ Same(n, m)
                    \/ msg = "CIPHER_COMPLETE" /\ n.reg = "AWAIT_CIPHER_COMPLETE" /\ CipherDone(n, m)
                    \/ /\ msg \in {"SETUP", "SETUP_UDI"} /\ n.reg = "MM_ACTIVE" /\ n.svc = "MO_CALL"
                       /\ SetUp(n, m)
                    \/ /\ msg \notin PreMsg /\ (msg = "ASSIGNMENT_FAILURE" \/ n.reg = "MM_ACTIVE")
                       /\ msg = "EMERGENCY_SETUP" => n.svc = "EMERGENCY"
                       /\ Served(n, m, s)
<1> DEFINE m == NetActive(n, s, msg)
           Done == msg \notin PreMsg /\ (msg = "ASSIGNMENT_FAILURE" \/ n.reg = "MM_ACTIVE")
                   /\ (msg = "EMERGENCY_SETUP" => n.svc = "EMERGENCY")
<1>1. n \in Engine /\ SetOf(n, n) /\ Same(n, n) /\ Chan(n, n)
  BY ChanRefl DEF Legal, SetOf, Same, SameTransaction
<1>2. msg \in Up0 \cup Up3 /\ (s = 0 => msg \in Up0) /\ (s = 3 => msg \in Up3) /\ (s = 0 \/ s = 3)
  BY DEF Up, Sapis
<1>3. msg \in Outcomes => msg = "ASSIGNMENT_FAILURE"
  BY <1>2 DEF Outcomes, Up0, Up3
<1>4. CASE msg = "ASSIGNMENT_FAILURE"
  <2>1. m = Assigned(n, msg)
    BY <1>4 DEF NetActive, Outcomes
  <2>2. /\ Legal(m) /\ Chan(n, m) /\ SameCall(n, m)
        /\ Space(n, 1) => Step(n, m, I(0, {"CONNECT"}), 1)
    BY <2>1, AssignedIs
  <2>3. s = 0 /\ msg \notin PreMsg
    BY <1>2, <1>4 DEF Up3, PreMsg
  <2> HIDE DEF m
  <2>4. ASSUME Space(n, 3) PROVE Served(n, m, s)
    <3> DEFINE A == Answers(0, m.reg = "AWAIT_REL_ACK")
               B == I(0, {"CONNECT"})
    <3>1. Step(n, m, B, 1)
      BY <2>2, <2>4, SpaceLess
    <3>2. B \subseteq A
      <4>1. {"CONNECT"} \in SUBSET Replies
        BY DEF Replies
      <4>2. (m.reg = "AWAIT_REL_ACK") \in BOOLEAN
        OBVIOUS
      <4> QED  BY <4>1, <4>2, AnswerSets
    <3>3. Step(n, n, {}, 1) /\ Clear({}) /\ {} \cup B \subseteq A
      BY <3>2, StepRefl, FieldSets
    <3> HIDE DEF A, B
    <3>4. Step(n, m, A, 1 + 1)
      BY <3>1, <3>3, StepTo, 1 \in Nat
    <3>5. Step(n, m, A, 2)
      <4>1. 1 + 1 = 2
        OBVIOUS
      <4> QED  BY <3>4, <4>1
    <3>6. m.reg \in {n.reg, "AWAIT_REL_ACK"} /\ SameTransaction(n, m)
      BY <2>2 DEF SameCall, SameTransaction
    <3> QED  BY <2>3, <3>5, <3>6 DEF Served, A
  <2> QED  BY <1>4, <2>2, <2>3, <2>4 DEF m
<1>5. CASE msg # "ASSIGNMENT_FAILURE" /\ n.reg = "AWAIT_CIPHER_COMPLETE"
  <2>1. m = IF msg = "CIPHER_COMPLETE" THEN CipherComplete(n) ELSE n
    BY <1>3, <1>5 DEF NetActive
  <2> HIDE DEF m
  <2> QED  BY <1>1, <1>5, <2>1, CipherCompleteIs DEF m
<1>6. CASE msg # "ASSIGNMENT_FAILURE" /\ n.reg \notin {"AWAIT_CIPHER_COMPLETE", "MM_ACTIVE"}
  <2>1. m = n
    BY <1>3, <1>6 DEF NetActive
  <2> HIDE DEF m
  <2> QED  BY <1>1, <2>1 DEF m
<1>7. CASE msg # "ASSIGNMENT_FAILURE" /\ n.reg = "MM_ACTIVE"
  <2>0. n.reg # "AWAIT_CIPHER_COMPLETE" /\ msg \notin Outcomes
    BY <1>3, <1>7
  <2>1. CASE msg \in {"SETUP", "SETUP_UDI"} /\ n.svc = "MO_CALL"
    <3> DEFINE data == msg = "SETUP_UDI"
    <3>1. m = Setup(n, data)
      BY <1>7, <2>0, <2>1 DEF NetActive
    <3>2. data \in BOOLEAN
      OBVIOUS
    <3> HIDE DEF m, data
    <3>3. Legal(m) /\ Chan(n, m) /\ (Space(n, 3) => (m = n /\ n.call # 0 /\ n.setup) \/ SetUp(n, m))
      BY <3>1, <3>2, SetupIs
    <3> QED  BY <1>1, <1>7, <2>1, <3>3 DEF m
  <2>2. CASE msg = "EMERGENCY_SETUP" /\ n.svc = "EMERGENCY"
    <3> DEFINE l == [n EXCEPT !.call = 1]
               o == SendI(l, 0, <<"CALL_PROCEEDING", "CONNECT">>)
               A == Answers(0, o.reg = "AWAIT_REL_ACK")
               B == I(0, {"CALL_PROCEEDING", "CONNECT"})
    <3>1. m = o
      BY <1>7, <2>0, <2>2 DEF NetActive
    <3>2. SetOf(n, l) /\ l.reg = n.reg /\ SameTransaction(n, l)
      <4>1. 1 \in 0 .. 3
        OBVIOUS
      <4>2. l \in Engine /\ l.call = 1
        BY <1>1, <4>1 DEF Engine
      <4>3. l.q = n.q /\ l.link = n.link /\ l.conf = n.conf /\ l.rel = n.rel /\ l.inq = n.inq
            /\ l.reg = n.reg /\ l.svc = n.svc /\ l.setup = n.setup
        BY <1>1 DEF Engine
      <4> HIDE DEF l
      <4> QED  BY <4>2, <4>3 DEF SetOf, SameTransaction
    <3> HIDE DEF l
    <3>3. "CALL_PROCEEDING" \in Messages /\ "CONNECT" \in Messages /\ 0 \in Sapis
          /\ {"ASSIGNMENT_CMD", "CIPHER_COMMAND"} \cap {"CALL_PROCEEDING", "CONNECT"} = {}
      BY FieldSets
    <3>4. Legal(o) /\ Chan(n, o) /\ SameCall(l, o) /\ (Space(n, 2) => Step(n, o, B, 2))
      BY <3>2, <3>3, SetSend2
    <3>5. s = 0 /\ msg \notin PreMsg
      BY <1>2, <2>2 DEF Up3, PreMsg
    <3> HIDE DEF o, m
    <3>6. ASSUME Space(n, 3) PROVE Served(n, o, s)
      <4>1. Step(n, o, B, 2)
        BY <3>4, <3>6, SpaceLess
      <4>2. B \subseteq A
        <5>1. {"CALL_PROCEEDING", "CONNECT"} \in SUBSET Replies
          BY DEF Replies
        <5>2. (o.reg = "AWAIT_REL_ACK") \in BOOLEAN
          OBVIOUS
        <5> QED  BY <5>1, <5>2, AnswerSets
      <4> HIDE DEF A, B
      <4>3. Step(n, o, A, 2)
        BY <4>1, <4>2, StepMore
      <4>4. o.reg \in {n.reg, "AWAIT_REL_ACK"} /\ SameTransaction(n, o)
        BY <3>2, <3>4 DEF SameCall, SameTransaction
      <4> QED  BY <3>5, <4>3, <4>4 DEF Served, A
    <3> QED  BY <1>7, <2>2, <3>1, <3>4, <3>5, <3>6 DEF m
  <2>3. CASE msg \in {"CALL_CONFIRMED", "ALERTING"} /\ n.svc = "MT_CALL"
    <3> DEFINE l == [n EXCEPT !.call = 1]
    <3>1. m = l
      BY <1>7, <2>0, <2>3 DEF NetActive
    <3>2. Same(n, l)
      <4>1. 1 \in 0 .. 3
        OBVIOUS
      <4>2. l \in Engine /\ l.call = 1
        BY <1>1, <4>1 DEF Engine
      <4>3. l.q = n.q /\ l.link = n.link /\ l.conf = n.conf /\ l.rel = n.rel /\ l.inq = n.inq
            /\ l.reg = n.reg /\ l.svc = n.svc /\ l.setup = n.setup
        BY <1>1 DEF Engine
      <4> HIDE DEF l
      <4> QED  BY <4>2, <4>3 DEF SetOf, SameTransaction, Same
    <3> HIDE DEF l, m
    <3>3. Legal(l) /\ Chan(n, l)
      BY <3>2, SetIs DEF Same
    <3> QED  BY <3>1, <3>2, <3>3 DEF m
  <2>4. CASE msg = "CONNECT" /\ n.svc = "MT_CALL"
    <3> DEFINE l == [n EXCEPT !.call = 2]
               o == SendI(l, 0, <<"CONNECT_ACK">>)
    <3>1. m = o
      BY <1>7, <2>0, <2>4 DEF NetActive
    <3>2. SetOf(n, l) /\ l.reg = n.reg /\ SameTransaction(n, l)
      <4>1. 2 \in 0 .. 3
        OBVIOUS
      <4>2. l \in Engine /\ l.call = 2
        BY <1>1, <4>1 DEF Engine
      <4>3. l.q = n.q /\ l.link = n.link /\ l.conf = n.conf /\ l.rel = n.rel /\ l.inq = n.inq
            /\ l.reg = n.reg /\ l.svc = n.svc /\ l.setup = n.setup
        BY <1>1 DEF Engine
      <4> HIDE DEF l
      <4> QED  BY <4>2, <4>3 DEF SetOf, SameTransaction
    <3>3. 0 \in Sapis /\ "CONNECT_ACK" \in Replies /\ s = 0 /\ msg \notin PreMsg
      BY <1>2, <2>4, FieldSets DEF Replies, Up3, PreMsg
    <3> HIDE DEF l, m
    <3>4. Legal(o) /\ Chan(n, o) /\ (Space(n, 3) => Served(n, o, 0))
      BY <3>2, <3>3, Serve1
    <3> QED  BY <1>7, <2>4, <3>1, <3>3, <3>4 DEF m
  <2>5. CASE msg = "CONNECT_ACK"
    <3> DEFINE l == [n EXCEPT !.call = 2]
    <3>1. m = l
      BY <1>7, <2>0, <2>5 DEF NetActive
    <3>2. Same(n, l)
      <4>1. 2 \in 0 .. 3
        OBVIOUS
      <4>2. l \in Engine /\ l.call = 2
        BY <1>1, <4>1 DEF Engine
      <4>3. l.q = n.q /\ l.link = n.link /\ l.conf = n.conf /\ l.rel = n.rel /\ l.inq = n.inq
            /\ l.reg = n.reg /\ l.svc = n.svc /\ l.setup = n.setup
        BY <1>1 DEF Engine
      <4> HIDE DEF l
      <4> QED  BY <4>2, <4>3 DEF SetOf, SameTransaction, Same
    <3> HIDE DEF l, m
    <3>3. Legal(l) /\ Chan(n, l)
      BY <3>2, SetIs DEF Same
    <3> QED  BY <3>1, <3>2, <3>3 DEF m
  <2>6. CASE msg = "DISCONNECT"
    <3> DEFINE l == [n EXCEPT !.call = 3]
               o == SendI(l, 0, <<"RELEASE">>)
    <3>1. m = o
      BY <1>7, <2>0, <2>6 DEF NetActive
    <3>2. SetOf(n, l) /\ l.reg = n.reg /\ SameTransaction(n, l)
      <4>1. 3 \in 0 .. 3
        OBVIOUS
      <4>2. l \in Engine /\ l.call = 3
        BY <1>1, <4>1 DEF Engine
      <4>3. l.q = n.q /\ l.link = n.link /\ l.conf = n.conf /\ l.rel = n.rel /\ l.inq = n.inq
            /\ l.reg = n.reg /\ l.svc = n.svc /\ l.setup = n.setup
        BY <1>1 DEF Engine
      <4> HIDE DEF l
      <4> QED  BY <4>2, <4>3 DEF SetOf, SameTransaction
    <3>3. 0 \in Sapis /\ "RELEASE" \in Replies /\ s = 0 /\ msg \notin PreMsg
      BY <1>2, <2>6, FieldSets DEF Replies, Up3, PreMsg
    <3> HIDE DEF l, m
    <3>4. Legal(o) /\ Chan(n, o) /\ (Space(n, 3) => Served(n, o, 0))
      BY <3>2, <3>3, Serve1
    <3> QED  BY <1>7, <2>6, <3>1, <3>3, <3>4 DEF m
  <2>7. CASE msg = "RELEASE_COMPLETE"
    <3> DEFINE l == [n EXCEPT !.call = 3]
    <3>1. m = ChannelRelease(l)
      BY <1>7, <2>0, <2>7 DEF NetActive
    <3>2. SetOf(n, l) /\ SameTransaction(n, l)
      <4>1. 3 \in 0 .. 3
        OBVIOUS
      <4>2. l \in Engine /\ l.call = 3
        BY <1>1, <4>1 DEF Engine
      <4>3. l.q = n.q /\ l.link = n.link /\ l.conf = n.conf /\ l.rel = n.rel /\ l.inq = n.inq
            /\ l.reg = n.reg /\ l.svc = n.svc /\ l.setup = n.setup
        BY <1>1 DEF Engine
      <4> HIDE DEF l
      <4> QED  BY <4>2, <4>3 DEF SetOf, SameTransaction
    <3> HIDE DEF l, m
    <3>3. Legal(m) /\ Chan(n, m) /\ (Space(n, 3) => Served(n, m, s))
      BY <3>1, <3>2, ServeRelease
    <3> QED  BY <1>7, <2>7, <3>3 DEF m, PreMsg
  <2>8. CASE msg = "CP_DATA" /\ n.svc = "SMS"
    <3> DEFINE o == SendI(n, s, <<"CP_ACK", "RP_ACK">>)
               A == Answers(3, o.reg = "AWAIT_REL_ACK")
               B == I(3, {"CP_ACK", "RP_ACK"})
    <3>1. m = o
      BY <1>7, <2>0, <2>8 DEF NetActive
    <3>2. s = 3 /\ msg \notin PreMsg
      BY <1>2, <2>8 DEF Up0, PreMsg
    <3>3. "CP_ACK" \in Messages /\ "RP_ACK" \in Messages
          /\ {"ASSIGNMENT_CMD", "CIPHER_COMMAND"} \cap {"CP_ACK", "RP_ACK"} = {}
      BY FieldSets
    <3>4. Legal(o) /\ Chan(n, o) /\ SameCall(n, o) /\ (Space(n, 2) => Step(n, o, B, 2))
      BY <1>1, <3>2, <3>3, SetSend2
    <3> HIDE DEF o, m
    <3>5. ASSUME Space(n, 3) PROVE Served(n, o, s)
      <4>1. Step(n, o, B, 2)
        BY <3>4, <3>5, SpaceLess
      <4>2. B \subseteq A
        <5>1. (o.reg = "AWAIT_REL_ACK") \in BOOLEAN /\ {"CP_ACK", "RP_ACK"} \in SUBSET {"CP_ACK", "RP_ACK"}
          OBVIOUS
        <5> QED  BY <5>1, AnswerSets
      <4> HIDE DEF A, B
      <4>3. Step(n, o, A, 2)
        BY <4>1, <4>2, StepMore
      <4>4. o.reg \in {n.reg, "AWAIT_REL_ACK"} /\ SameTransaction(n, o)
        BY <3>4 DEF SameCall, SameTransaction
      <4> QED  BY <3>2, <4>3, <4>4 DEF Served, A
    <3> QED  BY <1>7, <2>8, <3>1, <3>2, <3>4, <3>5 DEF m
  <2>9. CASE msg = "CP_ACK" /\ n.svc = "SMS"
    <3>1. m = ChannelRelease(n)
      BY <1>7, <2>0, <2>9 DEF NetActive
    <3>2. SameTransaction(n, n)
      BY DEF SameTransaction
    <3> HIDE DEF m
    <3>3. Legal(m) /\ Chan(n, m) /\ (Space(n, 3) => Served(n, m, s))
      BY <1>1, <3>1, <3>2, ServeRelease
    <3> QED  BY <1>7, <2>9, <3>3 DEF m, PreMsg
  <2>10. CASE msg = "CP_DATA" /\ n.svc = "MT_SMS"
    <3> DEFINE k == SendI(n, s, <<"CP_ACK">>)
               o == ChannelRelease(k)
               B == I(3, {"CP_ACK"})
               D == I(0, {"CHAN_REL"})
               A == Answers(3, TRUE)
    <3>1. m = o
      BY <1>7, <2>0, <2>10 DEF NetActive
    <3>2. s = 3 /\ msg \notin PreMsg
      BY <1>2, <2>10 DEF Up0, PreMsg
    <3>3. SameTransaction(n, n) /\ "CP_ACK" \in IF s = 0 THEN Replies ELSE {"CP_ACK", "RP_ACK"}
      BY <3>2 DEF SameTransaction
    <3>4. /\ Legal(k) /\ Chan(n, k) /\ SameCall(n, k)
          /\ Space(n, 3) => Served(n, k, s) /\ Step(n, k, I(s, {"CP_ACK"}), 1)
      BY <1>1, <3>3, Serve1
    <3> HIDE DEF k, m
    <3>5. SetOf(k, k)
      BY <3>4 DEF SetOf, Legal
    <3>6. /\ Legal(o) /\ Chan(k, o)
          /\ o.reg = "AWAIT_REL_ACK" /\ o.svc = k.svc /\ o.setup = k.setup /\ o.call = k.call
          /\ Space(k, 1) => Step(k, o, D, 1)
      BY <3>4, <3>5, ChannelReleaseIs
    <3> HIDE DEF o
    <3>7. Chan(n, o)
      BY <3>4, <3>6, ChanTrans
    <3>8. ASSUME Space(n, 3) PROVE Served(n, o, s)
      <4>1. Step(n, k, B, 1)
        BY <3>2, <3>4, <3>8
      <4>2. Space(k, 1)
        <5>1. Grows(n, k, 1) /\ 1 + 2 = 3
          BY <4>1 DEF Step
        <5>2. Space(k, 2)
          BY <3>4, <3>8, <5>1, SpaceAfter
        <5> QED  BY <3>4, <5>2, SpaceLess
      <4>3. Step(k, o, D, 1)
        BY <3>6, <4>2
      <4>4. Clear(B) /\ B \cup D \subseteq A
        <5>1. {"CP_ACK"} \in SUBSET {"CP_ACK", "RP_ACK"} /\ TRUE \in BOOLEAN
          OBVIOUS
        <5>2. B \subseteq A /\ D \subseteq A
          BY <5>1, AnswerSets
        <5> QED  BY <5>2, FieldSets
      <4> HIDE DEF A, B, D
      <4>5. Step(n, o, A, 1 + 1)
        BY <4>1, <4>3, <4>4, StepTo, 1 \in Nat
      <4>6. Step(n, o, A, 2)
        <5>1. 1 + 1 = 2
          OBVIOUS
        <5> QED  BY <4>5, <5>1
      <4>7. o.reg \in {n.reg, "AWAIT_REL_ACK"} /\ SameTransaction(n, o) /\ (o.reg = "AWAIT_REL_ACK") = TRUE
        BY <3>4, <3>6 DEF SameCall, SameTransaction
      <4> QED  BY <3>2, <4>6, <4>7 DEF Served, A
    <3> QED  BY <1>7, <2>10, <3>1, <3>2, <3>6, <3>7, <3>8 DEF m
  <2>11. CASE /\ ~(msg \in {"SETUP", "SETUP_UDI"} /\ n.svc = "MO_CALL")
              /\ ~(msg = "EMERGENCY_SETUP" /\ n.svc = "EMERGENCY")
              /\ ~(msg \in {"CALL_CONFIRMED", "ALERTING"} /\ n.svc = "MT_CALL")
              /\ ~(msg = "CONNECT" /\ n.svc = "MT_CALL") /\ msg # "CONNECT_ACK" /\ msg # "DISCONNECT"
              /\ msg # "RELEASE_COMPLETE" /\ ~(msg = "CP_DATA" /\ n.svc = "SMS")
              /\ ~(msg = "CP_ACK" /\ n.svc = "SMS") /\ ~(msg = "CP_DATA" /\ n.svc = "MT_SMS")
    <3>1. m = n
      BY <1>7, <2>0, <2>11 DEF NetActive
    <3> HIDE DEF m
    <3> QED  BY <1>1, <3>1 DEF m
  <2> HIDE DEF m
  <2> QED  BY <2>1, <2>2, <2>3, <2>4, <2>5, <2>6, <2>7, <2>8, <2>9, <2>10, <2>11 DEF m
<1>8. n.reg = "MM_ACTIVE" \/ n.reg = "AWAIT_CIPHER_COMPLETE" \/ n.reg \notin {"AWAIT_CIPHER_COMPLETE", "MM_ACTIVE"}
  OBVIOUS
<1> HIDE DEF m
<1>9. msg = "ASSIGNMENT_FAILURE" \/ msg # "ASSIGNMENT_FAILURE"
  OBVIOUS
<1> QED  BY <1>4, <1>5, <1>6, <1>7, <1>8, <1>9 DEF m

-----------------------------------------------------------------------------
(* A block from the phone. *)

\* What the phone's frames may be.
Requests == {"NONE", "ASSIGNMENT_COMPLETE"} \cup Reasons
Controls == [t : {"RR"}, sapi : Sapis] \cup [t : {"UA"}, sapi : {3}] \cup [t : {"DISC"}, sapi : {0}]
                \cup [t : {"SABM"}, sapi : Sapis, msg : Requests]
Uplinks ==
    [t : {"RR"}, sapi : Sapis, nr : Nums] \cup [t : {"UA", "DISC"}, sapi : Sapis]
        \cup [t : {"SABM"}, sapi : Sapis, msg : Requests]
        \cup {f \in [t : {"I"}, sapi : Sapis, ns : Nums, nr : Nums, msg : Up0 \cup Up3] : f.msg \in Up(f.sapi)}

\* A change of a link that leaves its numbers and acknowledges alone.
LEMMA LinkSet ==
    ASSUME NEW n, Legal(n), NEW m \in Engine, m.q = n.q, m.inq = n.inq, m.conf = n.conf, m.rel = n.rel,
           \A s \in Sapis : m.link[s].vs = n.link[s].vs /\ m.link[s].acks = n.link[s].acks
    PROVE  /\ Legal(m) /\ Chan(n, m) /\ Step(n, m, {}, 0)
           /\ \A c \in Nat : Space(n, c) => Space(m, c)
<1>1. Legal(m)
  BY DEF Legal
<1>2. Chan(n, m)
  <2>1. Len(n.inq) \in Nat
    BY LegalFields
  <2> QED  BY <2>1 DEF Chan
<1>3. Step(n, n, {}, 0)
  BY StepRefl
<1>4. Grows(n, m, 0)
  BY <1>3 DEF Grows, Step
<1>5. Keeps(n, m)
  BY ZenonT(40) DEF Keeps, Tracks
<1>6. \A c \in Nat : Space(n, c) => Space(m, c)
  BY DEF Space
<1> QED  BY <1>1, <1>2, <1>4, <1>5, <1>6 DEF Step, Adds

\* The acknowledges up to nr are used up, and at most c frames of S go out with
\* the release that may follow them.
Seen(n, m, s, nr, S, c) ==
    /\ Grows(n, m, c) /\ Adds(n, m, S \cup RelFrames)
    /\ Adds(n, m, S) \/ (n.reg = "AWAIT_LU_ACK" /\ m.reg # "AWAIT_LU_ACK")
    /\ Order(n.q) /\ (Clear(In(n.q)) \/ n.reg # "AWAIT_LU_ACK") => Order(m.q)
    /\ \A o \in Sapis, from \in Nums :
          Tracks(n, o, from, 0) /\ (o = s => from = nr /\ Tells(n, s)) => Tracks(m, o, from, 0)

\* AckPending uses up acknowledges and sends at most the release.
LEMMA AckSeen ==
    ASSUME NEW n, Legal(n), NEW s \in Sapis, NEW nr \in Nums
    PROVE  LET m == AckPending(n, s, nr)
           IN  Legal(m) /\ Chan(n, m) /\ Moved(n, m) /\ (Space(n, 2) => Seen(n, m, s, nr, {}, 2))
<1> DEFINE m == AckPending(n, s, nr)
<1>1. /\ Legal(m) /\ Chan(n, m) /\ Moved(n, m)
      /\ m.q = n.q \/ (n.reg = "AWAIT_LU_ACK" /\ m.reg # "AWAIT_LU_ACK")
      /\ Space(n, 2) =>
           /\ Grows(n, m, 2) /\ Adds(n, m, RelFrames)
           /\ Order(n.q) /\ Clear(In(n.q)) => Order(m.q)
           /\ \A o \in Sapis, from \in Nums :
                 Tracks(n, o, from, 0) /\ (o = s => from = nr /\ Tells(n, s))
                    => Tracks(m, o, from, 0)
  BY AckIs
<1> HIDE DEF m
<1>2. ASSUME Space(n, 2) PROVE Seen(n, m, s, nr, {}, 2)
  <2>1. m.q = n.q => Adds(n, m, {})
    BY DEF Adds
  <2>2. {} \cup RelFrames = RelFrames
    OBVIOUS
  <2>3. Adds(n, m, {} \cup RelFrames)
    BY <1>1, <1>2, <2>2
  <2> HIDE DEF RelFrames
  <2> QED  BY <1>1, <1>2, <2>1, <2>3 DEF Seen
<1> QED  BY <1>1, <1>2 DEF m

\* Information is seen: its acknowledge is handled and answered.
LEMMA SeenIs ==
    ASSUME NEW n, Legal(n), NEW s \in Sapis, NEW ns \in Nums, NEW nr \in Nums
    PROVE  LET next == [n EXCEPT !.link[s].vr = IF ns = @ THEN Next_(@) ELSE @]
               m == SendRr(AckPending(next, s, nr), s)
           IN  Legal(m) /\ Chan(n, m) /\ Moved(n, m) /\ (Space(n, 3) => Seen(n, m, s, nr, Rr, 3))
<1> DEFINE k == n.link[s]
           v == IF ns = k.vr THEN Next_(k.vr) ELSE k.vr
           l == [k EXCEPT !.vr = v]
           next == [n EXCEPT !.link[s] = l]
           a == AckPending(next, s, nr)
           m == SendRr(a, s)
<1>1. [n EXCEPT !.link[s].vr = IF ns = @ THEN Next_(@) ELSE @] = next
  OBVIOUS
<1>2. n \in Engine /\ k \in LinkState /\ k.vr \in Nums
  BY DEF Legal, Engine, LinkState
<1>3. v \in Nums
  BY <1>2, NumsNext
<1>4. l \in LinkState /\ l.vs = k.vs /\ l.acks = k.acks
  <2> HIDE DEF v, k
  <2> QED  BY <1>2, <1>3 DEF LinkState
<1> HIDE DEF l
<1>5. /\ next \in Engine /\ next.q = n.q /\ next.inq = n.inq /\ next.conf = n.conf /\ next.rel = n.rel
      /\ next.reg = n.reg /\ next.svc = n.svc /\ next.setup = n.setup /\ next.call = n.call
      /\ next.link[s] = l /\ \A o \in Sapis : o # s => next.link[o] = n.link[o]
  BY <1>2, <1>4 DEF Engine
<1> HIDE DEF next
<1>6. \A o \in Sapis : next.link[o].vs = n.link[o].vs /\ next.link[o].acks = n.link[o].acks
  <2> SUFFICES ASSUME NEW o \in Sapis
               PROVE  next.link[o].vs = n.link[o].vs /\ next.link[o].acks = n.link[o].acks
    OBVIOUS
  <2>1. CASE o = s
    BY <1>4, <1>5, <2>1
  <2>2. CASE o # s
    BY <1>5, <2>2
  <2> QED  BY <2>1, <2>2
<1>7. /\ Legal(next) /\ Chan(n, next) /\ Step(n, next, {}, 0)
      /\ \A c \in Nat : Space(n, c) => Space(next, c)
  BY <1>5, <1>6, LinkSet
<1>8. Legal(a) /\ Chan(next, a) /\ Moved(next, a) /\ (Space(next, 2) => Seen(next, a, s, nr, {}, 2))
  BY <1>7, AckSeen
<1> HIDE DEF a
<1>9. /\ Legal(m) /\ Chan(a, m) /\ SameCall(a, m) /\ m.link = a.link
      /\ Space(a, 1) => Step(a, m, Rr, 1) /\ (Order(a.q) => Order(m.q))
  BY <1>8, SendRrIs
<1> HIDE DEF m
<1>10. Chan(n, m)
  <2>1. Chan(n, a)
    BY <1>7, <1>8, ChanTrans
  <2> QED  BY <1>8, <1>9, <2>1, ChanTrans
<1>11. Moved(n, m)
  <2>1. Moved(n, a)
    BY <1>5, <1>8 DEF Moved
  <2> QED  BY <1>9, <2>1 DEF Moved, SameCall
<1>12. ASSUME Space(n, 3) PROVE Seen(n, m, s, nr, Rr, 3)
  <2>1. Space(next, 3) /\ Space(next, 2)
    BY <1>7, <1>12, SpaceLess
  <2>2. Seen(next, a, s, nr, {}, 2)
    BY <1>8, <2>1
  <2>3. Space(a, 1)
    <3>1. Grows(next, a, 2) /\ 2 + 1 = 3
      BY <2>2 DEF Seen
    <3> QED  BY <1>7, <1>8, <2>1, <3>1, SpaceAfter
  <2>4. Step(a, m, Rr, 1) /\ (Order(a.q) => Order(m.q))
    BY <1>9, <2>3
  <2>5. Grows(n, m, 3)
    <3>1. ASSUME NEW x \in Nat, NEW y \in Nat, NEW z \in Nat, y <= x + 2, z <= y + 1 PROVE z <= x + 3
      BY <3>1
    <3>2. Len(n.q) \in Nat /\ Len(a.q) \in Nat /\ Len(m.q) \in Nat
      BY <1>8, <1>9, LegalFields
    <3>3. Len(a.q) <= Len(n.q) + 2 /\ Len(m.q) <= Len(a.q) + 1
      BY <1>5, <2>2, <2>4 DEF Seen, Step, Grows
    <3>4. Len(m.q) <= Len(n.q) + 3
      BY <3>1, <3>2, <3>3
    <3>5. ASSUME NEW o \in Sapis PROVE Len(m.link[o].acks) <= Len(n.link[o].acks) + 3
      <4>1. Len(n.link[o].acks) \in Nat /\ Len(a.link[o].acks) \in Nat /\ Len(m.link[o].acks) \in Nat
        BY <1>8, <1>9, LegalFields
      <4>2. Len(a.link[o].acks) <= Len(n.link[o].acks) + 2 /\ Len(m.link[o].acks) <= Len(a.link[o].acks) + 1
        BY <1>6, <2>2, <2>4 DEF Seen, Step, Grows
      <4> QED  BY <3>1, <4>1, <4>2
    <3> QED  BY <3>4, <3>5 DEF Grows
  <2>6. Adds(n, a, {} \cup RelFrames) /\ Adds(a, m, Rr)
    BY <1>5, <2>2, <2>4 DEF Seen, Step, Adds
  <2>7. Adds(n, m, Rr \cup RelFrames)
    <3> HIDE DEF RelFrames
    <3> QED  BY <2>6 DEF Adds
  <2>8. Adds(n, m, Rr) \/ (n.reg = "AWAIT_LU_ACK" /\ m.reg # "AWAIT_LU_ACK")
    <3>1. Adds(n, a, {}) \/ (n.reg = "AWAIT_LU_ACK" /\ a.reg # "AWAIT_LU_ACK")
      BY <1>5, <2>2 DEF Seen, Adds
    <3>2. Adds(n, a, {}) => Adds(n, m, Rr)
      BY <2>6 DEF Adds
    <3> QED  BY <1>9, <3>1, <3>2 DEF SameCall
  <2>9. Order(n.q) /\ (Clear(In(n.q)) \/ n.reg # "AWAIT_LU_ACK") => Order(m.q)
    BY <1>5, <2>2, <2>4 DEF Seen
  <2>10. ASSUME NEW o \in Sapis, NEW from \in Nums, Tracks(n, o, from, 0),
                o = s => from = nr /\ Tells(n, s)
         PROVE  Tracks(m, o, from, 0)
    <3>1. Tracks(next, o, from, 0)
      BY <1>7, <2>10 DEF Step, Keeps
    <3>2. o = s => from = nr /\ Tells(next, s)
      BY <1>5, <1>6, <2>10 DEF Tells
    <3>3. Tracks(a, o, from, 0)
      BY <2>2, <3>1, <3>2 DEF Seen
    <3> QED  BY <2>4, <3>3 DEF Step, Keeps
  <2> QED  BY <2>5, <2>7, <2>8, <2>9, <2>10 DEF Seen
<1> QED  BY <1>1, <1>9, <1>10, <1>11, <1>12 DEF m, a

\* The short-message link is up: the message goes out.
LEMMA UaIs ==
    ASSUME NEW n, Legal(n), NEW s \in Sapis
    PROVE  LET n1 == [n EXCEPT !.link[s].ua = "NONE"]
               m == IF n.link[s].ua = "NONE" THEN n1 ELSE NetOnAck(n1, s, n.link[s].ua)
           IN  /\ Legal(m) /\ Chan(n, m) /\ SameCall(n, m)
               /\ (s = 3 /\ n.link[s].ua # "NONE" => SpaceFor(n, 3, Longest))
                    => Step(n, m, I(3, {"SEGMENT", "CP_DATA"}), Longest)
               /\ n.svc # "MT_SMS" \/ n.reg # "MM_ACTIVE" => m.q = n.q
<1> DEFINE k == n.link[s]
           l == [k EXCEPT !.ua = "NONE"]
           n1 == [n EXCEPT !.link[s] = l]
           c == n1.size.cp
           o == SendI(n1, 3, Message(c, "CP_DATA"))
           m == IF k.ua = "NONE" THEN n1 ELSE NetOnAck(n1, s, k.ua)
<1>1. [n EXCEPT !.link[s].ua = "NONE"] = n1
  OBVIOUS
<1>2. n \in Engine /\ k \in LinkState /\ k.ua \in {"NONE", "SAPI3_ESTABLISH"}
  BY DEF Legal, Engine, LinkState
<1>3. l \in LinkState /\ l.vs = k.vs /\ l.acks = k.acks
  <2> HIDE DEF k
  <2> QED  BY <1>2 DEF LinkState
<1> HIDE DEF l
<1>4. /\ n1 \in Engine /\ n1.q = n.q /\ n1.inq = n.inq /\ n1.conf = n.conf /\ n1.rel = n.rel /\ SameCall(n, n1)
      /\ n1.link[s] = l /\ \A x \in Sapis : x # s => n1.link[x] = n.link[x]
  BY <1>2, <1>3 DEF Engine, SameCall
<1>5. m = n1 \/ (m = o /\ s = 3 /\ k.ua # "NONE" /\ n1.svc = "MT_SMS" /\ n1.reg = "MM_ACTIVE")
  BY <1>2 DEF NetOnAck
<1>0. (LET n2 == [n EXCEPT !.link[s].ua = "NONE"]
       IN  IF n.link[s].ua = "NONE" THEN n2 ELSE NetOnAck(n2, s, n.link[s].ua)) = m
  BY <1>1
<1>14. c \in 1 .. Longest /\ c \in Nat /\ c <= Longest /\ Longest \in Nat
  <2>1. n1.size \in Sizes
    BY <1>4 DEF Engine
  <2> QED  BY <2>1, Rom6Assumption, SMTT(30) DEF Longest
<1> HIDE DEF n1, m, c
<1>6. \A x \in Sapis : n1.link[x].vs = n.link[x].vs /\ n1.link[x].acks = n.link[x].acks
  <2> SUFFICES ASSUME NEW x \in Sapis
               PROVE  n1.link[x].vs = n.link[x].vs /\ n1.link[x].acks = n.link[x].acks
    OBVIOUS
  <2>1. CASE x = s
    BY <1>3, <1>4, <2>1
  <2>2. CASE x # s
    BY <1>4, <2>2
  <2> QED  BY <2>1, <2>2
<1>7. /\ Legal(n1) /\ Chan(n, n1) /\ Step(n, n1, {}, 0)
      /\ SpaceFor(n, 3, Longest) => SpaceFor(n1, 3, c)
  <2>1. Legal(n1) /\ Chan(n, n1) /\ Step(n, n1, {}, 0)
    BY <1>4, <1>6, LinkSet
  <2>2. n1.q = n.q /\ n1.link[3].acks = n.link[3].acks
    BY <1>4, <1>6, FieldSets
  <2>3. Len(n.q) \in Nat /\ Len(n.link[3].acks) \in Nat /\ DedicatedN \in Nat /\ AckN \in Nat
    BY LegalFields, FieldSets, Rom6Assumption
  <2>4. \A x \in Nat, y \in Nat : (x + Longest <= y => x + c <= y) /\ (x + Longest + 1 <= y => x + c + 1 <= y)
    BY <1>14
  <2>5. SpaceFor(n, 3, Longest) => SpaceFor(n1, 3, c)
    BY <2>2, <2>3, <2>4 DEF SpaceFor
  <2> QED  BY <2>1, <2>5
<1>8. /\ Legal(o) /\ Chan(n1, o) /\ SameCall(n1, o)
      /\ SpaceFor(n1, 3, c) => Step(n1, o, I(3, {"SEGMENT", "CP_DATA"}), c)
  <2>1. 3 \in Sapis
    BY FieldSets
  <2> QED  BY <1>7, <1>14, <2>1, SendMessage
<1> HIDE DEF o
<1>9. Chan(n, o) /\ SameCall(n, o)
  <2>1. Chan(n, o)
    BY <1>7, <1>8, ChanTrans
  <2> QED  BY <1>4, <1>8, <2>1 DEF SameCall
<1>10. Clear({})
  BY FieldSets
<1>11. /\ Step(n, n1, I(3, {"SEGMENT", "CP_DATA"}), Longest)
       /\ SpaceFor(n, 3, Longest) => Step(n, o, I(3, {"SEGMENT", "CP_DATA"}), Longest)
  <2> DEFINE U == I(3, {"SEGMENT", "CP_DATA"})
  <2>1. {} \cup U \subseteq U /\ {} \subseteq U /\ 0 + c = c
    BY <1>14
  <2>2. SpaceFor(n, 3, Longest) => Step(n1, o, U, c)
    BY <1>7, <1>8
  <2> HIDE DEF U
  <2>3. Step(n, n1, U, Longest)
    <3>1. Step(n, n1, U, 0)
      BY <1>7, <2>1, StepMore
    <3>2. 0 <= Longest
      BY <1>14
    <3> QED  BY <1>14, <3>1, <3>2, StepLess
  <2>4. ASSUME SpaceFor(n, 3, Longest) PROVE Step(n, o, U, Longest)
    <3>1. Step(n, o, U, 0 + c)
      BY <1>7, <1>10, <1>14, <2>1, <2>2, <2>4, StepTo
    <3> QED  BY <1>14, <2>1, <3>1, StepLess
  <2> QED  BY <2>3, <2>4 DEF U
<1>12. n1.svc = n.svc /\ n1.reg = n.reg
  BY <1>4 DEF SameCall
<1>13. /\ Legal(m) /\ Chan(n, m) /\ SameCall(n, m)
       /\ (s = 3 /\ k.ua # "NONE" => SpaceFor(n, 3, Longest)) => Step(n, m, I(3, {"SEGMENT", "CP_DATA"}), Longest)
       /\ n.svc # "MT_SMS" \/ n.reg # "MM_ACTIVE" => m.q = n.q
  <2>1. CASE m = n1
    BY <1>4, <1>7, <1>11, <2>1
  <2>2. CASE m = o /\ s = 3 /\ k.ua # "NONE" /\ n1.svc = "MT_SMS" /\ n1.reg = "MM_ACTIVE"
    BY <1>8, <1>9, <1>11, <1>12, <2>2
  <2> QED  BY <1>5, <2>1, <2>2
<1> QED  BY <1>0, <1>13

\* A link is opened, and what the opening asks for is begun.
LEMMA LapdmSabmIs ==
    ASSUME NEW n, Legal(n), NEW f \in Controls, f.t = "SABM"
    PROVE  LET m == LapdmSabm(n, f)
               ua == [t |-> "UA", sapi |-> f.sapi]
           IN  /\ Legal(m) /\ Chan(n, m)
               /\ \E up : /\ Legal(up) /\ Chan(n, up) /\ SameCall(n, up)
                          /\ Space(n, 1) => Opened(n, up, f.sapi, ua)
                          /\ m = IF f.msg = "NONE" THEN up ELSE NetEstablished(up, f.msg)
<1> DEFINE s == f.sapi
           ua == [t |-> "UA", sapi |-> s]
           up == QueueLapdm([n EXCEPT !.link[s] = [NewLink EXCEPT !.ua = "NONE"]], ua)
           m == LapdmSabm(n, f)
<1>1. s \in Sapis
  BY DEF Controls
<1>2. NewLink = [NewLink EXCEPT !.ua = "NONE"]
  BY DEF NewLink
<1>3. m = IF f.msg = "NONE" THEN up ELSE NetEstablished(up, f.msg)
  BY <1>2 DEF LapdmSabm, SendUa
<1>4. ua \in Frame /\ Opens(ua, s)
  BY <1>1 DEF Frame, Opens
<1> HIDE DEF s, ua
<1>5. Legal(up) /\ Chan(n, up) /\ SameCall(n, up) /\ (Space(n, 1) => Opened(n, up, s, ua))
  BY <1>1, <1>4, OpenIs
<1> HIDE DEF m, up
<1>6. Legal(m) /\ Chan(n, m)
  <2>1. CASE f.msg = "NONE"
    BY <1>3, <1>5, <2>1
  <2>2. CASE f.msg # "NONE"
    <3>1. m = NetEstablished(up, f.msg)
      BY <1>3, <2>2
    <3>2. Legal(m) /\ Chan(up, m)
      BY <1>5, <3>1, NetEstablishedIs
    <3> QED  BY <1>5, <3>2, ChanTrans
  <2> QED  BY <2>1, <2>2
<1> QED  BY <1>3, <1>5, <1>6 DEF m, s, ua

\* The fields of the phone's frames.
LEMMA UplinkFields ==
    ASSUME NEW f \in Uplinks
    PROVE  /\ f.sapi \in Sapis /\ f.t \in {"RR", "UA", "DISC", "SABM", "I"}
           /\ f.t = "RR" => f.nr \in Nums
           /\ f.t = "SABM" => f \in Controls
           /\ f.t = "I" => f.ns \in Nums /\ f.nr \in Nums /\ f.msg \in Up(f.sapi)
  BY DEF Uplinks, Controls

\* The arm of LapdmUplink for information.
Heard(n, f) ==
    LET next == [n EXCEPT !.link[f.sapi].vr = IF f.ns = @ THEN Next_(@) ELSE @]
        seen == SendRr(AckPending(next, f.sapi, f.nr), f.sapi)
    IN  IF f.ns # n.link[f.sapi].vr \/ f.msg = "SEGMENT" THEN seen
        ELSE IF seen.reg = "IDLE" THEN NetEstablished(seen, f.msg)
        ELSE NetActive(seen, f.sapi, f.msg)

\* The arms of LapdmUplink.
LEMMA UplinkCases ==
    ASSUME NEW n, NEW f
    PROVE  LET m == LapdmUplink(n, f)
               n1 == [n EXCEPT !.link[f.sapi].ua = "NONE"]
           IN  /\ f.t = "SABM" => m = LapdmSabm(n, f)
               /\ f.t = "DISC" => m = [SendUa(n, f.sapi) EXCEPT !.rel = TRUE]
               /\ f.t = "RR" => m = AckPending(n, f.sapi, f.nr)
               /\ f.t = "UA" => m = IF n.link[f.sapi].ua = "NONE" THEN n1
                                    ELSE NetOnAck(n1, f.sapi, n.link[f.sapi].ua)
               /\ f.t = "I" => m = Heard(n, f)
  BY DEF LapdmUplink, Heard

\* The phone's disconnect is answered, and the channel goes when the queue is empty.
LEMMA DiscIs ==
    ASSUME NEW n, Legal(n), NEW s \in Sapis
    PROVE  LET m == [SendUa(n, s) EXCEPT !.rel = TRUE]
           IN  /\ Legal(m) /\ SameCall(n, m) /\ m.link = n.link /\ m.conf = n.conf /\ m.rel
               /\ Len(m.inq) <= Len(n.inq) /\ In(m.inq) \subseteq In(n.inq)
               /\ Space(n, 1) => In(m.q) = In(n.q) \cup {[t |-> "UA", sapi |-> s]}
<1> DEFINE f == [t |-> "UA", sapi |-> s]
           o == QueueLapdm(n, f)
           m == [o EXCEPT !.rel = TRUE]
<1>1. f \in Frame /\ f.t # "I"
  BY DEF Frame
<1>2. [SendUa(n, s) EXCEPT !.rel = TRUE] = m
  BY DEF SendUa
<1> HIDE DEF f
<1>3. Legal(o) /\ Chan(n, o) /\ SameCall(n, o) /\ o.link = n.link /\ (Space(n, 1) => Plain(n, o, f))
  BY <1>1, PlainIs
<1> HIDE DEF o
<1>4. /\ m \in Engine /\ m.q = o.q /\ m.link = o.link /\ m.conf = o.conf /\ m.inq = o.inq /\ m.rel = TRUE
      /\ SameCall(o, m)
  BY <1>3 DEF Legal, Engine, SameCall
<1> HIDE DEF m
<1>5. Legal(m)
  BY <1>3, <1>4 DEF Legal
<1>6. /\ SameCall(n, m) /\ m.link = n.link /\ m.conf = n.conf /\ m.rel
      /\ Len(m.inq) <= Len(n.inq) /\ In(m.inq) \subseteq In(n.inq)
  BY <1>3, <1>4 DEF SameCall, Chan
<1>7. Space(n, 1) => In(m.q) = In(n.q) \cup {f}
  BY <1>3, <1>4 DEF Plain
<1> QED  BY <1>2, <1>5, <1>6, <1>7 DEF m, f

\* Whatever the phone sends, the engine's state stays typed and in its arrays, the
\* channel stays, and no service comes.
LEMMA UplinkLegal ==
    ASSUME NEW n, Legal(n), NEW f \in Uplinks
    PROVE  LET m == LapdmUplink(n, f)
           IN  /\ Legal(m) /\ m.conf = n.conf
               /\ Len(m.inq) <= Len(n.inq) /\ In(m.inq) \subseteq In(n.inq)
<1> DEFINE m == LapdmUplink(n, f)
           s == f.sapi
<1>1. s \in Sapis
  BY UplinkFields
<1>2. CASE f.t = "SABM"
  <2>1. m = LapdmSabm(n, f) /\ f \in Controls
    BY <1>2, UplinkCases, UplinkFields
  <2> HIDE DEF m
  <2>2. Legal(m) /\ Chan(n, m)
    BY <1>2, <2>1, LapdmSabmIs
  <2> QED  BY <2>2 DEF m, Chan
<1>3. CASE f.t = "DISC"
  <2>1. m = [SendUa(n, s) EXCEPT !.rel = TRUE]
    BY <1>3, UplinkCases
  <2> HIDE DEF m, s
  <2> QED  BY <1>1, <2>1, DiscIs DEF m
<1>4. CASE f.t = "RR"
  <2>1. m = AckPending(n, s, f.nr) /\ f.nr \in Nums
    BY <1>4, UplinkCases, UplinkFields
  <2> HIDE DEF m, s
  <2>2. Legal(m) /\ Chan(n, m)
    BY <1>1, <2>1, AckSeen
  <2> QED  BY <2>2 DEF m, Chan
<1>5. CASE f.t = "UA"
  <2>1. m = LET n1 == [n EXCEPT !.link[s].ua = "NONE"]
            IN  IF n.link[s].ua = "NONE" THEN n1 ELSE NetOnAck(n1, s, n.link[s].ua)
    BY <1>5, UplinkCases
  <2> HIDE DEF m, s
  <2>2. Legal(m) /\ Chan(n, m)
    BY <1>1, <2>1, UaIs
  <2> QED  BY <2>2 DEF m, Chan
<1>6. CASE f.t = "I"
  <2> DEFINE next == [n EXCEPT !.link[s].vr = IF f.ns = @ THEN Next_(@) ELSE @]
             seen == SendRr(AckPending(next, s, f.nr), s)
  <2>1. f.ns \in Nums /\ f.nr \in Nums /\ f.msg \in Up(s)
    BY <1>6, UplinkFields
  <2>2. m = IF f.ns # n.link[s].vr \/ f.msg = "SEGMENT" THEN seen
            ELSE IF seen.reg = "IDLE" THEN NetEstablished(seen, f.msg)
            ELSE NetActive(seen, s, f.msg)
    <3>1. m = Heard(n, f)
      BY <1>6, UplinkCases
    <3> HIDE DEF m
    <3> QED  BY <3>1 DEF Heard
  <2> HIDE DEF m, s
  <2>3. Legal(seen) /\ Chan(n, seen)
    BY <1>1, <2>1, SeenIs
  <2> HIDE DEF seen
  <2>4. Legal(NetEstablished(seen, f.msg)) /\ Chan(seen, NetEstablished(seen, f.msg))
    BY <2>3, NetEstablishedIs
  <2>5. Legal(NetActive(seen, s, f.msg)) /\ Chan(seen, NetActive(seen, s, f.msg))
    BY <1>1, <2>1, <2>3, NetActiveIs
  <2>6. Legal(m) /\ Chan(n, m)
    BY <2>2, <2>3, <2>4, <2>5, ChanTrans
  <2> QED  BY <2>6 DEF m, Chan
<1> HIDE DEF m
<1> QED  BY <1>2, <1>3, <1>4, <1>5, <1>6, UplinkFields DEF m

-----------------------------------------------------------------------------
(* The phone. *)

Places == {"idle", "rach", "sabm", "on", "tune", "off"}

Phone == [at : Places, why : Reasons \cup {"NONE"}, reg : BOOLEAN, vs : [Sapis -> Nums], vr : [Sapis -> Nums],
          una : [Sapis -> Up0 \cup Up3 \cup {"NONE"}], ctl : Seq(Controls), out : [Sapis -> Seq(Up0 \cup Up3)],
          call : {"no", "ring", "wait", "up"}, paged : BOOLEAN, got : SUBSET Services, own : Nat, reps : Nat]

PhoneOk(p) ==
    p \in Phone /\ \A s \in Sapis : p.out[s] \in Seq(Up(s)) /\ p.una[s] \in Up(s) \cup {"NONE"}

\* The numbers and the window of the phone's links, and its part in the call.
SameLinks(p, q) == q.vs = p.vs /\ q.vr = p.vr /\ q.una = p.una
SamePart(p, q) == q.at = p.at /\ q.why = p.why /\ q.call = p.call

\* What short sequences hold.
LEMMA InTuples ==
    /\ In(<<>>) = {}
    /\ \A x : In(<<x>>) = {x} /\ \A S : x \in S => <<x>> \in Seq(S)
    /\ \A x, y : In(<<x, y>>) = {x, y} /\ \A S : x \in S /\ y \in S => <<x, y>> \in Seq(S)
<1>1. In(<<>>) = {}
  BY DEF In
<1>2. ASSUME NEW x PROVE In(<<x>>) = {x} /\ \A S : x \in S => <<x>> \in Seq(S)
  <2>1. Len(<<x>>) = 1 /\ <<x>>[1] = x /\ 1 .. 1 = {1}
    OBVIOUS
  <2> QED  BY <2>1 DEF In
<1>3. ASSUME NEW x, NEW y PROVE In(<<x, y>>) = {x, y} /\ \A S : x \in S /\ y \in S => <<x, y>> \in Seq(S)
  <2>1. Len(<<x, y>>) = 2 /\ <<x, y>>[1] = x /\ <<x, y>>[2] = y /\ 1 .. 2 = {1, 2}
    OBVIOUS
  <2> QED  BY <2>1 DEF In
<1> QED  BY <1>1, <1>2, <1>3

\* The range of a sequence, without its definition by DOMAIN.
LEMMA RangeIs ==
    ASSUME NEW S, NEW q \in Seq(S)
    PROVE  Range(q) = In(q)
<1>1. DOMAIN q = 1 .. Len(q)
  OBVIOUS
<1> QED  BY <1>1 DEF Range, In

\* The types of the phone's fields.
LEMMA PhoneFields ==
    ASSUME NEW p, PhoneOk(p)
    PROVE  /\ p \in Phone /\ p.ctl \in Seq(Controls) /\ In(p.ctl) \subseteq Controls
           /\ \A s \in Sapis : /\ p.out[s] \in Seq(Up(s)) /\ In(p.out[s]) \subseteq Up(s)
                              /\ p.una[s] \in Up(s) \cup {"NONE"} /\ p.vs[s] \in Nums /\ p.vr[s] \in Nums
<1>1. p \in Phone /\ p.ctl \in Seq(Controls)
  BY DEF PhoneOk, Phone
<1>2. ASSUME NEW s \in Sapis
      PROVE  /\ p.out[s] \in Seq(Up(s)) /\ In(p.out[s]) \subseteq Up(s)
             /\ p.una[s] \in Up(s) \cup {"NONE"} /\ p.vs[s] \in Nums /\ p.vr[s] \in Nums
  <2>1. p.out[s] \in Seq(Up(s)) /\ p.una[s] \in Up(s) \cup {"NONE"}
    BY DEF PhoneOk
  <2>2. p.vs[s] \in Nums /\ p.vr[s] \in Nums
    BY <1>1 DEF Phone
  <2> QED  BY <2>1, <2>2, InEmpty
<1> QED  BY <1>1, <1>2, InEmpty

\* The two links, and what the phone says on each.
LEMMA UpSets ==
    /\ \A s \in Sapis : Up(s) \subseteq Up0 \cup Up3
    /\ Up(0) = Up0 /\ Up(3) = Up3 /\ 0 \in Sapis /\ 3 \in Sapis
    /\ \A s \in Sapis : s = 0 \/ s = 3
  BY DEF Up, Sapis

\* Messages to send.
LEMMA SendOk ==
    ASSUME NEW p, PhoneOk(p), NEW s \in Sapis, NEW w \in Seq(Up(s))
    PROVE  LET q == Send(p, s, w)
           IN  /\ PhoneOk(q) /\ SameLinks(p, q) /\ SamePart(p, q) /\ q.ctl = p.ctl
               /\ q.out[s] = p.out[s] \o w /\ In(q.out[s]) = In(p.out[s]) \cup In(w)
               /\ \A o \in Sapis : o # s => q.out[o] = p.out[o]
<1> DEFINE v == p.out[s] \o w
           q == [p EXCEPT !.out[s] = v]
<1>1. Send(p, s, w) = q
  BY DEF Send
<1>2. v \in Seq(Up(s)) /\ In(v) = In(p.out[s]) \cup In(w)
  BY PhoneFields, InConcat
<1>3. v \in Seq(Up0 \cup Up3)
  <2>1. Up(s) \subseteq Up0 \cup Up3
    BY UpSets
  <2> HIDE DEF v
  <2> QED  BY <1>2, <2>1, SeqMonotonic
<1>4. p \in Phone
  BY DEF PhoneOk
<1> HIDE DEF v
<1>5. /\ q \in Phone /\ q.out[s] = v /\ (\A o \in Sapis : o # s => q.out[o] = p.out[o])
      /\ SameLinks(p, q) /\ SamePart(p, q) /\ q.ctl = p.ctl
  BY <1>3, <1>4 DEF Phone, SameLinks, SamePart
<1> HIDE DEF q
<1>6. PhoneOk(q)
  <2> SUFFICES ASSUME NEW o \in Sapis PROVE q.out[o] \in Seq(Up(o)) /\ q.una[o] \in Up(o) \cup {"NONE"}
    BY <1>5 DEF PhoneOk
  <2>1. p.out[o] \in Seq(Up(o)) /\ p.una[o] \in Up(o) \cup {"NONE"}
    BY DEF PhoneOk
  <2>2. CASE o = s
    BY <1>2, <1>5, <2>1, <2>2 DEF SameLinks
  <2>3. CASE o # s
    BY <1>5, <2>1, <2>3 DEF SameLinks
  <2> QED  BY <2>2, <2>3
<1> QED  BY <1>1, <1>2, <1>5, <1>6 DEF q, v

\* A control frame that is owed once.
LEMMA ControlOk ==
    ASSUME NEW p, PhoneOk(p), NEW f \in Controls
    PROVE  LET q == Control(p, f)
           IN  /\ PhoneOk(q) /\ SameLinks(p, q) /\ SamePart(p, q) /\ q.out = p.out
               /\ In(q.ctl) = In(p.ctl) \cup {f} /\ (q.ctl = p.ctl \/ q.ctl = Append(p.ctl, f))
<1> DEFINE v == IF f \in Range(p.ctl) THEN p.ctl ELSE Append(p.ctl, f)
           q == [p EXCEPT !.ctl = v]
<1>1. Control(p, f) = q
  BY DEF Control
<1>2. p \in Phone /\ p.ctl \in Seq(Controls) /\ Range(p.ctl) = In(p.ctl)
  BY PhoneFields, RangeIs
<1>3. v \in Seq(Controls) /\ In(v) = In(p.ctl) \cup {f} /\ (v = p.ctl \/ v = Append(p.ctl, f))
  <2>1. Append(p.ctl, f) \in Seq(Controls) /\ In(Append(p.ctl, f)) = In(p.ctl) \cup {f}
    BY <1>2, InAppend
  <2>2. CASE f \in Range(p.ctl)
    BY <1>2, <2>2
  <2>3. CASE f \notin Range(p.ctl)
    BY <2>1, <2>3
  <2> QED  BY <2>2, <2>3
<1> HIDE DEF v
<1>4. q \in Phone /\ q.ctl = v /\ q.out = p.out /\ SameLinks(p, q) /\ SamePart(p, q)
  BY <1>2, <1>3 DEF Phone, SameLinks, SamePart
<1> HIDE DEF q
<1>5. PhoneOk(q)
  BY <1>4 DEF PhoneOk, SameLinks
<1> QED  BY <1>1, <1>3, <1>4, <1>5 DEF q

\* A link starts anew.
LEMMA FreshOk ==
    ASSUME NEW p, PhoneOk(p), NEW s \in Sapis
    PROVE  LET q == FreshLink(p, s)
           IN  /\ PhoneOk(q) /\ SamePart(p, q) /\ q.ctl = p.ctl /\ q.out = p.out
               /\ q.vr[s] = 0 /\ q.vs[s] = 0 /\ q.una[s] = "NONE"
               /\ \A o \in Sapis : o # s => q.vr[o] = p.vr[o] /\ q.vs[o] = p.vs[o] /\ q.una[o] = p.una[o]
<1> DEFINE q == [p EXCEPT !.vs[s] = 0, !.vr[s] = 0, !.una[s] = "NONE"]
<1>1. FreshLink(p, s) = q
  BY DEF FreshLink
<1>2. p \in Phone /\ 0 \in Nums
  BY Rom6Assumption DEF PhoneOk, Nums
<1>3. /\ q \in Phone /\ SamePart(p, q) /\ q.ctl = p.ctl /\ q.out = p.out
      /\ q.vr[s] = 0 /\ q.vs[s] = 0 /\ q.una[s] = "NONE"
      /\ \A o \in Sapis : o # s => q.vr[o] = p.vr[o] /\ q.vs[o] = p.vs[o] /\ q.una[o] = p.una[o]
  BY <1>2 DEF Phone, SamePart
<1> HIDE DEF q
<1>4. PhoneOk(q)
  <2> SUFFICES ASSUME NEW o \in Sapis PROVE q.una[o] \in Up(o) \cup {"NONE"}
    BY <1>3 DEF PhoneOk
  <2>1. p.una[o] \in Up(o) \cup {"NONE"}
    BY DEF PhoneOk
  <2> QED  BY <1>3, <2>1
<1> QED  BY <1>1, <1>3, <1>4 DEF q

\* What the phone does with a message.
Reacted(p, q, kind) ==
    /\ PhoneOk(q) /\ SameLinks(p, q) /\ q.why = p.why
    /\ \/ /\ kind = "CIPHER_COMMAND" /\ SamePart(p, q) /\ q.ctl = p.ctl /\ q.out[3] = p.out[3]
          /\ In(q.out[0]) \subseteq In(p.out[0]) \cup (PreMsg \ {"NONE"}) \cup {"EMERGENCY_SETUP"}
          /\ p.why = "CM_CALL" => In(q.out[0]) \subseteq In(p.out[0]) \cup (PreMsg \ {"NONE"})
          /\ p.why = "CM_SMS" /\ p.out[0] = <<>> => q.out[0] = <<"CIPHER_COMPLETE">>
       \/ /\ kind \in {"MT_CALL_SETUP", "CONNECT", "CONNECT_ACK", "RELEASE"}
          /\ q.at = p.at /\ q.ctl = p.ctl /\ q.out[3] = p.out[3]
       \/ /\ kind = "ASSIGNMENT_CMD" /\ q.ctl = p.ctl /\ q.out[3] = p.out[3] /\ q.call = p.call
          /\ q.at = p.at \/ (q.at = "tune" /\ q.out = p.out)
       \/ kind \in {"CP_DATA", "RP_ACK"} /\ SamePart(p, q) /\ q.ctl = p.ctl /\ q.out[0] = p.out[0]
       \/ kind = "CHAN_REL" /\ q.at = "off" /\ In(q.ctl) = In(p.ctl) \cup {[t |-> "DISC", sapi |-> 0]}
       \/ /\ kind \notin {"CIPHER_COMMAND", "MT_CALL_SETUP", "CONNECT", "CONNECT_ACK", "RELEASE",
                          "ASSIGNMENT_CMD", "CP_DATA", "RP_ACK", "CHAN_REL"}
          /\ q = p

\* A field that the links do not depend on.
LEMMA FieldOk ==
    ASSUME NEW p, PhoneOk(p), NEW q \in Phone, q.out = p.out, q.una = p.una
    PROVE  PhoneOk(q)
  BY DEF PhoneOk

\* Sequences of one message and of two.
LEMMA UpWords ==
    /\ \A w \in Up0 : <<w>> \in Seq(Up0) /\ In(<<w>>) = {w}
    /\ \A w, v \in Up0 : <<w, v>> \in Seq(Up0) /\ In(<<w, v>>) = {w, v}
    /\ \A w, v \in Up3 : <<w, v>> \in Seq(Up3)
    /\ \A w \in Up3 : <<w>> \in Seq(Up3)
    /\ \A w, v : <<w>> \o <<v>> = <<w, v>> /\ <<w>> \o <<>> = <<w>>
<1>1. /\ \A w \in Up0 : <<w>> \in Seq(Up0) /\ In(<<w>>) = {w}
      /\ \A w \in Up3 : <<w>> \in Seq(Up3)
  BY InTuples
<1>2. /\ \A w, v \in Up0 : <<w, v>> \in Seq(Up0) /\ In(<<w, v>>) = {w, v}
      /\ \A w, v \in Up3 : <<w, v>> \in Seq(Up3)
  BY InTuples
<1>3. ASSUME NEW w, NEW v PROVE <<w>> \o <<v>> = <<w, v>>
  <2> DEFINE z == <<w>> \o <<v>>
  <2>1. <<w>> \in Seq({w, v}) /\ <<v>> \in Seq({w, v}) /\ <<w, v>> \in Seq({w, v})
        /\ Len(<<w>>) = 1 /\ Len(<<v>>) = 1 /\ <<w>>[1] = w /\ <<v>>[1] = v
    BY InTuples
  <2>2. /\ z \in Seq({w, v}) /\ Len(z) = 2
        /\ \A i \in 1 .. 2 : z[i] = IF i <= 1 THEN <<w>>[i] ELSE <<v>>[i - 1]
    BY <2>1, ConcatProperties
  <2> HIDE DEF z
  <2>3. z[1] = w /\ z[2] = v
    BY <2>1, <2>2
  <2>4. Len(<<w, v>>) = 2 /\ <<w, v>>[1] = w /\ <<w, v>>[2] = v
    OBVIOUS
  <2>5. z = <<w, v>>
    BY <2>1, <2>2, <2>3, <2>4, SeqEqual
  <2> QED  BY <2>5 DEF z
<1>4. ASSUME NEW w PROVE <<w>> \o <<>> = <<w>>
  <2>1. <<w>> \in Seq({w})
    BY InTuples
  <2> QED  BY <2>1, ConcatEmptySeq
<1> QED  BY <1>1, <1>2, <1>3, <1>4

\* The phone's first messages.
LEMMA CipherReact ==
    ASSUME NEW p, PhoneOk(p), NEW q \in React(p, "CIPHER_COMMAND")
    PROVE  Reacted(p, q, "CIPHER_COMMAND")
<1> DEFINE W == {<<"CIPHER_COMPLETE">>, <<"CIPHER_COMPLETE", "SETUP">>, <<"CIPHER_COMPLETE", "SETUP_UDI">>,
                 <<"CIPHER_COMPLETE", "EMERGENCY_SETUP">>}
<1>1. \E w \in W : /\ q = Send(p, 0, w)
                   /\ p.why = "CM_CALL" => w # <<"CIPHER_COMPLETE", "EMERGENCY_SETUP">>
                   /\ p.why = "CM_SMS" => w = <<"CIPHER_COMPLETE">>
  <2>1. CASE p.why = "CM_CALL"
    <3>1. q \in {Send(p, 0, <<"CIPHER_COMPLETE">> \o first) : first \in {<<"SETUP">>, <<"SETUP_UDI">>}}
      BY <2>1 DEF React
    <3>2. q = Send(p, 0, <<"CIPHER_COMPLETE">> \o <<"SETUP">>) \/ q = Send(p, 0, <<"CIPHER_COMPLETE">> \o <<"SETUP_UDI">>)
      BY <3>1
    <3>3. q = Send(p, 0, <<"CIPHER_COMPLETE", "SETUP">>) \/ q = Send(p, 0, <<"CIPHER_COMPLETE", "SETUP_UDI">>)
      BY <3>2, UpWords
    <3>4. p.why # "CM_SMS" /\ <<"CIPHER_COMPLETE", "SETUP">> # <<"CIPHER_COMPLETE", "EMERGENCY_SETUP">>
          /\ <<"CIPHER_COMPLETE", "SETUP_UDI">> # <<"CIPHER_COMPLETE", "EMERGENCY_SETUP">>
      BY <2>1
    <3> QED  BY <3>3, <3>4
  <2>2. CASE p.why = "CM_EMERGENCY"
    <3>1. q \in {Send(p, 0, <<"CIPHER_COMPLETE">> \o first) : first \in {<<"EMERGENCY_SETUP">>}}
      BY <2>2 DEF React
    <3>2. q = Send(p, 0, <<"CIPHER_COMPLETE">> \o <<"EMERGENCY_SETUP">>)
      BY <3>1
    <3>3. q = Send(p, 0, <<"CIPHER_COMPLETE", "EMERGENCY_SETUP">>)
      BY <3>2, UpWords
    <3> QED  BY <2>2, <3>3
  <2>3. CASE p.why \notin {"CM_CALL", "CM_EMERGENCY"}
    <3>1. q \in {Send(p, 0, <<"CIPHER_COMPLETE">> \o first) : first \in {<<>>}}
      BY <2>3 DEF React
    <3>2. q = Send(p, 0, <<"CIPHER_COMPLETE">> \o <<>>)
      BY <3>1
    <3>3. q = Send(p, 0, <<"CIPHER_COMPLETE">>)
      BY <3>2, UpWords
    <3> QED  BY <2>3, <3>3
  <2> QED  BY <2>1, <2>2, <2>3
<1>2. PICK w \in W : /\ q = Send(p, 0, w)
                     /\ p.why = "CM_CALL" => w # <<"CIPHER_COMPLETE", "EMERGENCY_SETUP">>
                     /\ p.why = "CM_SMS" => w = <<"CIPHER_COMPLETE">>
  BY <1>1
<1>3. /\ w \in Seq(Up0) /\ In(w) \subseteq (PreMsg \ {"NONE"}) \cup {"EMERGENCY_SETUP"}
      /\ w # <<"CIPHER_COMPLETE", "EMERGENCY_SETUP">> => In(w) \subseteq PreMsg \ {"NONE"}
  <2>1. {"CIPHER_COMPLETE", "SETUP", "SETUP_UDI", "EMERGENCY_SETUP"} \subseteq Up0
        /\ {"CIPHER_COMPLETE", "SETUP", "SETUP_UDI"} \subseteq PreMsg \ {"NONE"}
    BY DEF Up0, PreMsg
  <2>2. CASE w = <<"CIPHER_COMPLETE">>
    BY <2>1, <2>2, UpWords
  <2>3. CASE w = <<"CIPHER_COMPLETE", "SETUP">>
    BY <2>1, <2>3, UpWords
  <2>4. CASE w = <<"CIPHER_COMPLETE", "SETUP_UDI">>
    BY <2>1, <2>4, UpWords
  <2>5. CASE w = <<"CIPHER_COMPLETE", "EMERGENCY_SETUP">>
    BY <2>1, <2>5, UpWords
  <2> QED  BY <2>2, <2>3, <2>4, <2>5
<1> HIDE DEF W
<1>4. 0 \in Sapis /\ 3 \in Sapis /\ w \in Seq(Up(0)) /\ Up(0) = Up0
  BY <1>3, UpSets
<1>5. /\ PhoneOk(q) /\ SameLinks(p, q) /\ SamePart(p, q) /\ q.ctl = p.ctl
      /\ q.out[0] = p.out[0] \o w /\ In(q.out[0]) = In(p.out[0]) \cup In(w)
      /\ \A o \in Sapis : o # 0 => q.out[o] = p.out[o]
  <2> DEFINE s == Send(p, 0, w)
  <2>1. /\ PhoneOk(s) /\ SameLinks(p, s) /\ SamePart(p, s) /\ s.ctl = p.ctl
        /\ s.out[0] = p.out[0] \o w /\ In(s.out[0]) = In(p.out[0]) \cup In(w)
        /\ \A o \in Sapis : o # 0 => s.out[o] = p.out[o]
    BY <1>4, SendOk
  <2> HIDE DEF s
  <2>2. q = s
    BY <1>2 DEF s
  <2> QED  BY <2>1, <2>2
<1>6. p.out[0] \in Seq(Up0)
  BY <1>4, PhoneFields
<1>7. p.out[0] = <<>> => q.out[0] = w
  BY <1>3, <1>5, <1>6, InConcat
<1> QED  BY <1>2, <1>3, <1>4, <1>5, <1>7 DEF Reacted, SamePart

\* What React leads to, message by message.
LEMMA ReactIs ==
    ASSUME NEW p, PhoneOk(p), Legal(r), NEW kind, NEW q \in React(p, kind)
    PROVE  Reacted(p, q, kind)
<1>1. 0 \in Sapis /\ 3 \in Sapis /\ Up(0) = Up0 /\ Up(3) = Up3
  BY UpSets
<1>2. {"CALL_CONFIRMED", "ALERTING", "CONNECT_ACK", "RELEASE_COMPLETE", "ASSIGNMENT_FAILURE"} \subseteq Up0
      /\ {"CP_ACK", "CP_DATA"} \subseteq Up3
  BY DEF Up0, Up3
<1>3. p \in Phone /\ p.got \in SUBSET Services /\ Range(r.active) \subseteq Services
  <2>1. r.active \in Seq(Services)
    BY EngineFields DEF Legal
  <2>2. Range(r.active) \subseteq Services
    BY <2>1, RangeIs, InEmpty
  <2> QED  BY <2>2 DEF PhoneOk, Phone
<1>4. CASE kind = "CIPHER_COMMAND"
  BY <1>4, CipherReact
<1>5. CASE kind = "MT_CALL_SETUP"
  <2> DEFINE s == Send(p, 0, <<"CALL_CONFIRMED", "ALERTING">>)
  <2>1. q = [s EXCEPT !.call = "ring", !.got = @ \cup Range(r.active)]
    BY <1>5 DEF React
  <2>2. /\ PhoneOk(s) /\ SameLinks(p, s) /\ SamePart(p, s) /\ s.ctl = p.ctl
        /\ \A o \in Sapis : o # 0 => s.out[o] = p.out[o]
    <3>1. <<"CALL_CONFIRMED", "ALERTING">> \in Seq(Up(0))
      BY <1>1, <1>2, UpWords
    <3> QED  BY <1>1, <3>1, SendOk
  <2> HIDE DEF s
  <2>3. s \in Phone /\ "ring" \in {"no", "ring", "wait", "up"}
    BY <2>2 DEF PhoneOk
  <2>4. q \in Phone /\ q.out = s.out /\ q.una = s.una /\ q.at = s.at /\ q.why = s.why /\ q.ctl = s.ctl /\ SameLinks(s, q)
    BY <1>3, <2>1, <2>3 DEF Phone, SameLinks
  <2>5. PhoneOk(q)
    BY <2>2, <2>4, FieldOk
  <2> QED  BY <1>1, <1>5, <2>2, <2>4, <2>5 DEF Reacted, SamePart, SameLinks
<1>6. CASE kind = "CONNECT"
  <2> DEFINE s == Send(p, 0, <<"CONNECT_ACK">>)
  <2>1. q = [s EXCEPT !.call = "up"]
    BY <1>6 DEF React
  <2>2. /\ PhoneOk(s) /\ SameLinks(p, s) /\ SamePart(p, s) /\ s.ctl = p.ctl
        /\ \A o \in Sapis : o # 0 => s.out[o] = p.out[o]
    <3>1. <<"CONNECT_ACK">> \in Seq(Up(0))
      BY <1>1, <1>2, UpWords
    <3> QED  BY <1>1, <3>1, SendOk
  <2> HIDE DEF s
  <2>3. s \in Phone /\ "up" \in {"no", "ring", "wait", "up"}
    BY <2>2 DEF PhoneOk
  <2>4. q \in Phone /\ q.out = s.out /\ q.una = s.una /\ q.at = s.at /\ q.why = s.why /\ q.ctl = s.ctl /\ SameLinks(s, q)
    BY <2>1, <2>3 DEF Phone, SameLinks
  <2>5. PhoneOk(q)
    BY <2>2, <2>4, FieldOk
  <2> QED  BY <1>1, <1>6, <2>2, <2>4, <2>5 DEF Reacted, SamePart, SameLinks
<1>7. CASE kind = "CONNECT_ACK"
  <2>1. q = [p EXCEPT !.call = "up"]
    BY <1>7 DEF React
  <2>2. "up" \in {"no", "ring", "wait", "up"}
    OBVIOUS
  <2>3. q \in Phone /\ q.out = p.out /\ q.una = p.una /\ q.at = p.at /\ q.why = p.why /\ q.ctl = p.ctl /\ SameLinks(p, q)
    BY <1>3, <2>1, <2>2 DEF Phone, SameLinks
  <2>4. PhoneOk(q)
    BY <2>3, FieldOk
  <2> QED  BY <1>7, <2>3, <2>4 DEF Reacted
<1>8. CASE kind = "RELEASE"
  <2>1. q = Send(p, 0, <<"RELEASE_COMPLETE">>)
    BY <1>8 DEF React
  <2>2. <<"RELEASE_COMPLETE">> \in Seq(Up(0))
    BY <1>1, <1>2, UpWords
  <2>3. /\ PhoneOk(q) /\ SameLinks(p, q) /\ SamePart(p, q) /\ q.ctl = p.ctl
        /\ \A o \in Sapis : o # 0 => q.out[o] = p.out[o]
    BY <1>1, <2>1, <2>2, SendOk
  <2> QED  BY <1>1, <1>8, <2>3 DEF Reacted, SamePart
<1>9. CASE kind = "ASSIGNMENT_CMD"
  <2>1. q = Send(p, 0, <<"ASSIGNMENT_FAILURE">>) \/ q = [p EXCEPT !.at = "tune"]
    BY <1>9 DEF React
  <2>2. CASE q = Send(p, 0, <<"ASSIGNMENT_FAILURE">>)
    <3>1. <<"ASSIGNMENT_FAILURE">> \in Seq(Up(0))
      BY <1>1, <1>2, UpWords
    <3>2. /\ PhoneOk(q) /\ SameLinks(p, q) /\ SamePart(p, q) /\ q.ctl = p.ctl
          /\ \A o \in Sapis : o # 0 => q.out[o] = p.out[o]
      BY <1>1, <2>2, <3>1, SendOk
    <3> QED  BY <1>1, <1>9, <3>2 DEF Reacted, SamePart
  <2>3. CASE q = [p EXCEPT !.at = "tune"]
    <3>1. "tune" \in Places
      BY DEF Places
    <3>2. q \in Phone /\ q.out = p.out /\ q.una = p.una /\ q.at = "tune" /\ q.why = p.why /\ q.ctl = p.ctl
          /\ q.call = p.call /\ SameLinks(p, q)
      BY <1>3, <2>3, <3>1 DEF Phone, SameLinks
    <3>3. PhoneOk(q)
      BY <3>2, FieldOk
    <3> QED  BY <1>9, <3>2, <3>3 DEF Reacted
  <2> QED  BY <2>1, <2>2, <2>3
<1>10. CASE kind = "CP_DATA"
  <2> DEFINE s == Send(p, 3, <<"CP_ACK", "CP_DATA">>)
  <2>1. q = [s EXCEPT !.got = @ \cup Range(r.active)]
    BY <1>10 DEF React
  <2>2. /\ PhoneOk(s) /\ SameLinks(p, s) /\ SamePart(p, s) /\ s.ctl = p.ctl
        /\ \A o \in Sapis : o # 3 => s.out[o] = p.out[o]
    <3>1. <<"CP_ACK", "CP_DATA">> \in Seq(Up(3))
      BY <1>1, <1>2, UpWords
    <3> QED  BY <1>1, <3>1, SendOk
  <2> HIDE DEF s
  <2>3. s \in Phone
    BY <2>2 DEF PhoneOk
  <2>4. q \in Phone /\ q.out = s.out /\ q.una = s.una /\ SamePart(s, q) /\ q.ctl = s.ctl /\ SameLinks(s, q)
    BY <1>3, <2>1, <2>3 DEF Phone, SameLinks, SamePart
  <2>5. PhoneOk(q)
    BY <2>2, <2>4, FieldOk
  <2> QED  BY <1>1, <1>10, <2>2, <2>4, <2>5 DEF Reacted, SamePart, SameLinks
<1>11. CASE kind = "RP_ACK"
  <2>1. q = Send(p, 3, <<"CP_ACK">>)
    BY <1>11 DEF React
  <2>2. <<"CP_ACK">> \in Seq(Up(3))
    BY <1>1, <1>2, UpWords
  <2>3. /\ PhoneOk(q) /\ SameLinks(p, q) /\ SamePart(p, q) /\ q.ctl = p.ctl
        /\ \A o \in Sapis : o # 3 => q.out[o] = p.out[o]
    BY <1>1, <2>1, <2>2, SendOk
  <2> QED  BY <1>1, <1>11, <2>3 DEF Reacted, SamePart
<1>12. CASE kind = "CHAN_REL"
  <2> DEFINE d == [t |-> "DISC", sapi |-> 0]
             s == Control(p, d)
  <2>1. q = [s EXCEPT !.at = "off", !.out = NoFrames, !.call = "no", !.reg = @ \/ p.why = "LU_REQUEST"]
    BY <1>12 DEF React
  <2>2. d \in Controls
    BY DEF Controls
  <2> HIDE DEF d
  <2>3. PhoneOk(s) /\ SameLinks(p, s) /\ SamePart(p, s) /\ In(s.ctl) = In(p.ctl) \cup {d}
    BY <2>2, ControlOk
  <2> HIDE DEF s
  <2>4. s \in Phone /\ "no" \in {"no", "ring", "wait", "up"} /\ "off" \in Places
        /\ NoFrames \in [Sapis -> Seq(Up0 \cup Up3)] /\ (s.reg \/ p.why = "LU_REQUEST") \in BOOLEAN
    BY <2>3 DEF PhoneOk, Places, NoFrames
  <2>5. q \in Phone /\ q.at = "off" /\ q.out = NoFrames /\ q.una = s.una /\ q.why = s.why /\ q.ctl = s.ctl /\ SameLinks(s, q)
    BY <2>1, <2>4 DEF Phone, SameLinks
  <2>6. PhoneOk(q)
    <3> SUFFICES ASSUME NEW o \in Sapis PROVE q.out[o] \in Seq(Up(o)) /\ q.una[o] \in Up(o) \cup {"NONE"}
      BY <2>5 DEF PhoneOk
    <3>1. s.una[o] \in Up(o) \cup {"NONE"}
      BY <2>3 DEF PhoneOk
    <3> QED  BY <2>5, <3>1 DEF NoFrames
  <2>7. In(q.ctl) = In(p.ctl) \cup {[t |-> "DISC", sapi |-> 0]}
    BY <2>3, <2>5 DEF d
  <2> QED  BY <1>12, <2>3, <2>5, <2>6, <2>7 DEF Reacted, SamePart, SameLinks
<1>13. CASE kind \notin {"CIPHER_COMMAND", "MT_CALL_SETUP", "CONNECT", "CONNECT_ACK", "RELEASE",
                         "ASSIGNMENT_CMD", "CP_DATA", "RP_ACK", "CHAN_REL"}
  <2>1. q = p
    BY <1>13 DEF React
  <2> QED  BY <1>13, <2>1 DEF Reacted, SameLinks
<1> QED  BY <1>4, <1>5, <1>6, <1>7, <1>8, <1>9, <1>10, <1>11, <1>12, <1>13

\* At most one control frame opens a link.
OneSabm(c) == \A i, j \in 1 .. Len(c) : c[i].t = "SABM" /\ c[j].t = "SABM" => i = j
NoSabm(C) == \A c \in C : c.t # "SABM"
Sabm3 == [t |-> "SABM", sapi |-> 3, msg |-> "NONE"]
Rr0(s) == [t |-> "RR", sapi |-> s]

\* A control frame more, and at most one of them opens a link.
LEMMA OneSabmAppend ==
    ASSUME NEW c \in Seq(Controls), NEW f \in Controls, OneSabm(c), f.t # "SABM" \/ NoSabm(In(c))
    PROVE  OneSabm(Append(c, f))
<1> DEFINE d == Append(c, f)
           x == Len(c)
<1>1. Len(d) = x + 1 /\ x \in Nat /\ (\A i \in 1 .. x : d[i] = c[i]) /\ d[x + 1] = f
  BY InAppend
<1>2. \A i, j \in 1 .. x : c[i].t = "SABM" /\ c[j].t = "SABM" => i = j
  BY DEF OneSabm
<1>3. f.t # "SABM" \/ \A i \in 1 .. x : c[i].t # "SABM"
  BY DEF NoSabm, In
<1> HIDE DEF d, x
<1>4. ASSUME NEW i \in 1 .. x + 1, NEW j \in 1 .. x + 1, d[i].t = "SABM", d[j].t = "SABM"
      PROVE  i = j
  <2>1. (i \in 1 .. x \/ i = x + 1) /\ (j \in 1 .. x \/ j = x + 1)
    BY <1>1
  <2> QED  BY <1>1, <1>2, <1>3, <1>4, <2>1
<1> QED  BY <1>1, <1>4 DEF OneSabm, d

\* A control frame less; when it was the one that opens, none is left.
LEMMA OneSabmTail ==
    ASSUME NEW c \in Seq(Controls), c # <<>>, OneSabm(c)
    PROVE  OneSabm(Tail(c)) /\ (Head(c).t = "SABM" => NoSabm(In(Tail(c))))
<1> DEFINE d == Tail(c)
           x == Len(d)
<1>1. Len(c) = x + 1 /\ x \in Nat /\ (\A i \in 1 .. x : d[i] = c[i + 1]) /\ Head(c) = c[1]
  BY InTail
<1>2. \A i, j \in 1 .. x + 1 : c[i].t = "SABM" /\ c[j].t = "SABM" => i = j
  BY <1>1 DEF OneSabm
<1>3. In(d) = {d[i] : i \in 1 .. x}
  BY DEF In
<1>4. OneSabm(d) <=> \A i, j \in 1 .. x : d[i].t = "SABM" /\ d[j].t = "SABM" => i = j
  BY DEF OneSabm
<1> HIDE DEF d, x
<1>5. ASSUME NEW i \in 1 .. x PROVE i + 1 \in 1 .. x + 1 /\ 1 \in 1 .. x + 1 /\ i + 1 # 1 /\ d[i] = c[i + 1]
  BY <1>1
<1>6. ASSUME NEW i \in 1 .. x, NEW j \in 1 .. x, d[i].t = "SABM", d[j].t = "SABM" PROVE i = j
  <2>1. i + 1 = j + 1
    BY <1>2, <1>5, <1>6
  <2> QED  BY <1>1, <2>1
<1>7. ASSUME Head(c).t = "SABM", NEW i \in 1 .. x PROVE d[i].t # "SABM"
  BY <1>1, <1>2, <1>5, <1>7
<1>8. OneSabm(d)
  BY <1>4, <1>6
<1>9. Head(c).t = "SABM" => NoSabm(In(d))
  BY <1>3, <1>7 DEF NoSabm
<1> QED  BY <1>8, <1>9 DEF d

\* The phone's window opens.
Ackd(p, q, s) ==
    /\ PhoneOk(q) /\ SamePart(p, q) /\ q.out = p.out /\ q.vs = p.vs /\ q.vr = p.vr
    /\ \A o \in Sapis : q.una[o] \in {p.una[o], "NONE"}
    /\ p.una[s] = "NONE" => q = p
    /\ \/ q.ctl = p.ctl
       \/ /\ p.why = "CM_SMS" /\ s = 0 /\ p.una[s] # "NONE" /\ q.una[s] = "NONE"
          /\ In(q.ctl) = In(p.ctl) \cup {Sabm3} /\ (NoSabm(In(p.ctl)) => OneSabm(q.ctl))

\* None is at most one.
LEMMA NoSabmOne ==
    ASSUME NEW c \in Seq(Controls), NoSabm(In(c))
    PROVE  OneSabm(c)
  BY DEF OneSabm, NoSabm, In

\* What Acked leads to.
LEMMA AckedIs ==
    ASSUME NEW p, PhoneOk(p), NEW f, f.sapi \in Sapis
    PROVE  Ackd(p, Acked(p, f), f.sapi)
<1> DEFINE s == f.sapi
           a == [p EXCEPT !.una[s] = "NONE"]
           q == Acked(p, f)
<1>1. p \in Phone /\ s \in Sapis /\ p.una[s] \in Up(s) \cup {"NONE"}
  BY PhoneFields DEF PhoneOk
<1>2. /\ a \in Phone /\ SamePart(p, a) /\ a.out = p.out /\ a.vs = p.vs /\ a.vr = p.vr /\ a.ctl = p.ctl
      /\ a.una[s] = "NONE" /\ \A o \in Sapis : o # s => a.una[o] = p.una[o]
  BY <1>1 DEF Phone, SamePart
<1>3. q = p \/ q = a \/ (q = Control(a, Sabm3) /\ p.una[s] = "CIPHER_COMPLETE" /\ p.why = "CM_SMS")
  BY DEF Acked, Sabm3
<1>4. p.una[s] = "NONE" => q = p
  BY DEF Acked
<1> HIDE DEF a, q
<1>5. PhoneOk(a) /\ \A o \in Sapis : a.una[o] \in {p.una[o], "NONE"}
  <2>1. ASSUME NEW o \in Sapis
        PROVE  a.out[o] \in Seq(Up(o)) /\ a.una[o] \in Up(o) \cup {"NONE"} /\ a.una[o] \in {p.una[o], "NONE"}
    <3>1. p.out[o] \in Seq(Up(o)) /\ p.una[o] \in Up(o) \cup {"NONE"}
      BY DEF PhoneOk
    <3>2. CASE o = s
      BY <1>2, <3>1, <3>2
    <3>3. CASE o # s
      BY <1>2, <3>1, <3>3
    <3> QED  BY <3>2, <3>3
  <2> QED  BY <1>2, <2>1 DEF PhoneOk
<1>6. ASSUME q = p PROVE Ackd(p, q, s)
  BY <1>4, <1>6 DEF Ackd, SamePart
<1>7. ASSUME q = a PROVE Ackd(p, q, s)
  BY <1>2, <1>4, <1>5, <1>7 DEF Ackd
<1>8. ASSUME q = Control(a, Sabm3), p.una[s] = "CIPHER_COMPLETE", p.why = "CM_SMS"
      PROVE  Ackd(p, q, s)
  <2> DEFINE b == Control(a, Sabm3)
  <2>1. Sabm3 \in Controls
    BY DEF Sabm3, Controls, Requests, Sapis
  <2>2. /\ PhoneOk(b) /\ SameLinks(a, b) /\ SamePart(a, b) /\ b.out = a.out
        /\ In(b.ctl) = In(a.ctl) \cup {Sabm3} /\ (b.ctl = a.ctl \/ b.ctl = Append(a.ctl, Sabm3))
    BY <1>5, <2>1, ControlOk
  <2> HIDE DEF b
  <2>3. q = b
    BY <1>8 DEF b
  <2>4. s = 0
    BY <1>1, <1>8 DEF Up, Up3
  <2>5. NoSabm(In(p.ctl)) => OneSabm(b.ctl)
    <3> HAVE NoSabm(In(p.ctl))
    <3>1. a.ctl \in Seq(Controls) /\ OneSabm(a.ctl)
      BY <1>1, <1>2, NoSabmOne DEF Phone
    <3> QED  BY <1>2, <2>1, <2>2, <3>1, OneSabmAppend
  <2> QED  BY <1>2, <1>4, <1>5, <1>8, <2>2, <2>3, <2>4, <2>5 DEF Ackd, SamePart, SameLinks
<1> QED  BY <1>3, <1>6, <1>7, <1>8 DEF q

\* A control frame that opens nothing.
LEMMA OweIs ==
    ASSUME NEW p, PhoneOk(p), NEW f \in Controls, f.t # "SABM"
    PROVE  LET q == Control(p, f)
           IN  /\ PhoneOk(q) /\ SameLinks(p, q) /\ SamePart(p, q) /\ q.out = p.out
               /\ In(q.ctl) = In(p.ctl) \cup {f} /\ (OneSabm(p.ctl) => OneSabm(q.ctl))
<1> DEFINE q == Control(p, f)
<1>1. /\ PhoneOk(q) /\ SameLinks(p, q) /\ SamePart(p, q) /\ q.out = p.out
      /\ In(q.ctl) = In(p.ctl) \cup {f} /\ (q.ctl = p.ctl \/ q.ctl = Append(p.ctl, f))
  BY ControlOk
<1>2. p.ctl \in Seq(Controls)
  BY PhoneFields
<1> HIDE DEF q
<1>3. OneSabm(p.ctl) => OneSabm(q.ctl)
  BY <1>1, <1>2, OneSabmAppend
<1> QED  BY <1>1, <1>3 DEF q

\* A frame of information the phone expects: it owes an acknowledge, and expects the next.
Taken(p, c, s) ==
    /\ PhoneOk(c) /\ SamePart(p, c) /\ c.out = p.out
    /\ c.vr[s] = Next_(p.vr[s]) /\ \A o \in Sapis : o # s => c.vr[o] = p.vr[o]
    /\ \E a : /\ Ackd(p, a, s) /\ c.una = a.una /\ In(c.ctl) = In(a.ctl) \cup {Rr0(s)}
              /\ OneSabm(a.ctl) => OneSabm(c.ctl)

Ua(s) == [t |-> "UA", sapi |-> s]

\* What the phone does with a frame.
Received(p, q, f) ==
    \/ /\ f.t = "SABM" /\ SamePart(p, q) /\ q.out = p.out
       /\ In(q.ctl) = In(p.ctl) \cup {Ua(3)} /\ (OneSabm(p.ctl) => OneSabm(q.ctl))
       /\ q.vr[3] = 0 /\ q.una[3] = "NONE" /\ q.vr[0] = p.vr[0] /\ q.una[0] = p.una[0]
    \/ /\ f.t = "UA" /\ f.sapi = 0 /\ p.at = "sabm" /\ q.at = "on" /\ q.why = p.why /\ q.call = p.call
       /\ q.ctl = p.ctl /\ q.out = p.out
       /\ q.vr[0] = 0 /\ q.una[0] = "NONE" /\ q.vr[3] = p.vr[3] /\ q.una[3] = p.una[3]
    \/ /\ f.t = "UA" /\ f.sapi = 3 /\ p.at = "on" /\ SamePart(p, q) /\ q.ctl = p.ctl /\ q.out[0] = p.out[0]
       /\ q.vr[3] = 0 /\ q.una[3] = "NONE" /\ q.vr[0] = p.vr[0] /\ q.una[0] = p.una[0]
    \/ f.t = "UA" /\ p.at = "off" /\ q = Idle(p)
    \/ f.t = "RR" /\ Ackd(p, q, f.sapi)
    \/ f.t = "I" /\ p.at = "on" /\ f.ns # p.vr[f.sapi]
    \/ f.t = "I" /\ p.at = "on" /\ \E c : Taken(p, c, f.sapi) /\ Reacted(c, q, f.kind)
    \/ /\ q = p /\ f.t \in {"UA", "I"} /\ (f.t = "I" => p.at # "on")
       /\ f.t = "UA" => p.at # "off" /\ ~(p.at = "sabm" /\ f.sapi = 0) /\ ~(p.at = "on" /\ f.sapi = 3)

\* The phone that has left its channel owes nothing.
LEMMA IdleOk ==
    ASSUME NEW p, PhoneOk(p)
    PROVE  LET q == Idle(p)
           IN  /\ PhoneOk(q) /\ q.at = "idle" /\ q.why = "NONE" /\ q.ctl = <<>> /\ q.call = "no"
               /\ \A s \in Sapis : q.out[s] = <<>> /\ q.una[s] = "NONE" /\ q.vr[s] = p.vr[s] /\ q.vs[s] = p.vs[s]
<1> DEFINE q == [p EXCEPT !.at = "idle", !.why = "NONE", !.ctl = <<>>, !.out = NoFrames, !.call = "no",
                          !.una = [s \in Sapis |-> "NONE"]]
<1>1. Idle(p) = q
  BY DEF Idle
<1>2. /\ p \in Phone /\ "idle" \in Places /\ <<>> \in Seq(Controls) /\ "no" \in {"no", "ring", "wait", "up"}
      /\ NoFrames \in [Sapis -> Seq(Up0 \cup Up3)]
      /\ [s \in Sapis |-> "NONE"] \in [Sapis -> Up0 \cup Up3 \cup {"NONE"}]
  BY DEF PhoneOk, Places, NoFrames
<1>0. "NONE" \in Reasons \cup {"NONE"}
  OBVIOUS
<1>3. /\ q \in Phone /\ q.at = "idle" /\ q.why = "NONE" /\ q.ctl = <<>> /\ q.call = "no"
      /\ q.out = NoFrames /\ q.una = [s \in Sapis |-> "NONE"] /\ q.vr = p.vr /\ q.vs = p.vs
  BY <1>0, <1>2 DEF Phone
<1> HIDE DEF q
<1>4. \A s \in Sapis : q.out[s] = <<>> /\ q.una[s] = "NONE" /\ q.vr[s] = p.vr[s] /\ q.vs[s] = p.vs[s]
  BY <1>3 DEF NoFrames
<1>5. PhoneOk(q)
  <2> SUFFICES ASSUME NEW s \in Sapis PROVE q.out[s] \in Seq(Up(s)) /\ q.una[s] \in Up(s) \cup {"NONE"}
    BY <1>3 DEF PhoneOk
  <2> DEFINE U == Up(s)
  <2>1. <<>> \in Seq(U)
    <3> HIDE DEF U
    <3> QED  OBVIOUS
  <2> QED  BY <1>4, <2>1
<1> QED  BY <1>1, <1>3, <1>4, <1>5 DEF q

\* The fields of the network's frames.
LEMMA FrameFields ==
    ASSUME NEW f \in Frame
    PROVE  /\ f.t \in {"I", "UA", "SABM", "RR"} /\ f.sapi \in Sapis
           /\ f.t = "SABM" => f.sapi = 3
           /\ f.t = "I" => f \in IFrame /\ f.ns \in Nums /\ f.kind \in Messages
  BY DEF Frame, IFrame, Sapis

\* What Receive leads to, frame by frame.
LEMMA ReceiveIs ==
    ASSUME NEW p, PhoneOk(p), Legal(r), NEW f \in Frame, NEW q \in Receive(p, f)
    PROVE  PhoneOk(q) /\ Received(p, q, f)
<1>1. f.t \in {"I", "UA", "SABM", "RR"} /\ f.sapi \in Sapis /\ (f.t = "SABM" => f.sapi = 3)
  BY FrameFields
<1>2. 0 \in Sapis /\ 3 \in Sapis /\ 0 # 3
  BY UpSets
<1>3. CASE f.t = "SABM"
  <2> DEFINE b == FreshLink(p, 3)
             c == Control(b, Ua(3))
  <2>1. q = c
    BY <1>1, <1>3 DEF Receive, Ua
  <2>2. /\ PhoneOk(b) /\ SamePart(p, b) /\ b.ctl = p.ctl /\ b.out = p.out
        /\ b.vr[3] = 0 /\ b.una[3] = "NONE"
        /\ \A o \in Sapis : o # 3 => b.vr[o] = p.vr[o] /\ b.vs[o] = p.vs[o] /\ b.una[o] = p.una[o]
    BY <1>2, FreshOk
  <2> HIDE DEF b
  <2>3. Ua(3) \in Controls /\ Ua(3).t # "SABM"
    BY DEF Ua, Controls
  <2>4. /\ PhoneOk(c) /\ SameLinks(b, c) /\ SamePart(b, c) /\ c.out = b.out
        /\ In(c.ctl) = In(b.ctl) \cup {Ua(3)} /\ (OneSabm(b.ctl) => OneSabm(c.ctl))
    BY <2>2, <2>3, OweIs
  <2> HIDE DEF c
  <2> QED  BY <1>2, <1>3, <2>1, <2>2, <2>4 DEF Received, SamePart, SameLinks
<1>4. CASE f.t = "UA" /\ p.at = "sabm" /\ f.sapi = 0
  <2> DEFINE b == FreshLink(p, 0)
  <2>1. q = [b EXCEPT !.at = "on"]
    BY <1>4 DEF Receive
  <2>2. /\ PhoneOk(b) /\ SamePart(p, b) /\ b.ctl = p.ctl /\ b.out = p.out
        /\ b.vr[0] = 0 /\ b.una[0] = "NONE"
        /\ \A o \in Sapis : o # 0 => b.vr[o] = p.vr[o] /\ b.vs[o] = p.vs[o] /\ b.una[o] = p.una[o]
    BY <1>2, FreshOk
  <2> HIDE DEF b
  <2>3. b \in Phone /\ "on" \in Places
    BY <2>2 DEF PhoneOk, Places
  <2>4. /\ q \in Phone /\ q.at = "on" /\ q.why = b.why /\ q.call = b.call /\ q.ctl = b.ctl /\ q.out = b.out
        /\ q.una = b.una /\ q.vr = b.vr
    BY <2>1, <2>3 DEF Phone
  <2>5. PhoneOk(q)
    BY <2>2, <2>4, FieldOk
  <2> QED  BY <1>2, <1>4, <2>2, <2>4, <2>5 DEF Received, SamePart
<1>5. CASE f.t = "UA" /\ p.at = "on" /\ f.sapi = 3
  <2> DEFINE b == FreshLink(p, 3)
             c == Send(b, 3, <<"SEGMENT", "CP_DATA">>)
  <2>1. q = c
    BY <1>5 DEF Receive
  <2>2. /\ PhoneOk(b) /\ SamePart(p, b) /\ b.ctl = p.ctl /\ b.out = p.out
        /\ b.vr[3] = 0 /\ b.una[3] = "NONE"
        /\ \A o \in Sapis : o # 3 => b.vr[o] = p.vr[o] /\ b.vs[o] = p.vs[o] /\ b.una[o] = p.una[o]
    BY <1>2, FreshOk
  <2> HIDE DEF b
  <2>3. <<"SEGMENT", "CP_DATA">> \in Seq(Up(3))
    <3>1. {"SEGMENT", "CP_DATA"} \subseteq Up3 /\ Up(3) = Up3
      BY UpSets DEF Up3
    <3> QED  BY <3>1, UpWords
  <2>4. /\ PhoneOk(c) /\ SameLinks(b, c) /\ SamePart(b, c) /\ c.ctl = b.ctl
        /\ \A o \in Sapis : o # 3 => c.out[o] = b.out[o]
    BY <1>2, <2>2, <2>3, SendOk, ZenonT(40)
  <2> HIDE DEF c
  <2> QED  BY <1>2, <1>5, <2>1, <2>2, <2>4 DEF Received, SamePart, SameLinks
<1>6. CASE f.t = "UA" /\ p.at = "off"
  <2>1. q = Idle(p)
    BY <1>6 DEF Receive
  <2>2. PhoneOk(q)
    BY <2>1, IdleOk
  <2> QED  BY <1>6, <2>1, <2>2 DEF Received
<1>7. CASE f.t = "UA" /\ p.at # "off" /\ ~(p.at = "sabm" /\ f.sapi = 0) /\ ~(p.at = "on" /\ f.sapi = 3)
  <2>1. q = p
    BY <1>7 DEF Receive
  <2> QED  BY <1>7, <2>1 DEF Received
<1>8. CASE f.t = "RR"
  <2>1. q = Acked(p, f)
    BY <1>8 DEF Receive
  <2>2. Ackd(p, q, f.sapi)
    BY <1>1, <2>1, AckedIs
  <2>3. PhoneOk(q)
    BY <2>2 DEF Ackd
  <2> QED  BY <1>8, <2>2, <2>3 DEF Received
<1>9. CASE f.t = "I" /\ p.at = "on"
  <2> DEFINE s == f.sapi
             a == Acked(p, f)
             b == Control(a, Rr0(s))
             c == [b EXCEPT !.vr[s] = Next_(@)]
  <2>1. q \in IF f.ns = p.vr[s] THEN React(c, f.kind) ELSE {b}
    BY <1>9 DEF Receive, Rr0
  <2>2. Ackd(p, a, s)
    BY <1>1, AckedIs
  <2> HIDE DEF a
  <2>3. Rr0(s) \in Controls /\ Rr0(s).t # "SABM"
    BY <1>1 DEF Rr0, Controls
  <2>4. /\ PhoneOk(b) /\ SameLinks(a, b) /\ SamePart(a, b) /\ b.out = a.out
        /\ In(b.ctl) = In(a.ctl) \cup {Rr0(s)} /\ (OneSabm(a.ctl) => OneSabm(b.ctl))
    BY <2>2, <2>3, OweIs DEF Ackd
  <2> HIDE DEF b
  <2>5. b \in Phone /\ s \in Sapis /\ Next_(b.vr[s]) \in Nums
    BY <1>1, <2>4, PhoneFields, NumsNext
  <2>6. /\ c \in Phone /\ c.out = b.out /\ c.una = b.una /\ SamePart(b, c) /\ c.ctl = b.ctl /\ c.vs = b.vs
        /\ c.vr[s] = Next_(b.vr[s]) /\ \A o \in Sapis : o # s => c.vr[o] = b.vr[o]
    BY <2>5 DEF Phone, SamePart
  <2> HIDE DEF c
  <2>7. PhoneOk(c)
    BY <2>4, <2>6, FieldOk
  <2>8. Taken(p, c, s)
    BY <2>2, <2>4, <2>6, <2>7 DEF Taken, Ackd, SamePart, SameLinks
  <2>9. CASE f.ns = p.vr[s]
    <3>1. Reacted(c, q, f.kind)
      BY <2>1, <2>7, <2>9, ReactIs
    <3>2. PhoneOk(q)
      BY <3>1 DEF Reacted
    <3> QED  BY <1>9, <2>8, <3>1, <3>2 DEF Received
  <2>10. CASE f.ns # p.vr[s]
    <3>1. q = b
      BY <2>1, <2>10
    <3> QED  BY <1>9, <2>4, <2>10, <3>1 DEF Received
  <2> QED  BY <2>9, <2>10
<1>10. CASE f.t = "I" /\ p.at # "on"
  <2>1. q = p
    BY <1>10 DEF Receive
  <2> QED  BY <1>10, <2>1 DEF Received
<1> QED  BY <1>1, <1>3, <1>4, <1>5, <1>6, <1>7, <1>8, <1>9, <1>10

-----------------------------------------------------------------------------
(* Incoming services and paging. *)

\* Only the services that wait and their paging change.
Queueing(n, m) ==
    /\ m \in Engine /\ m.q = n.q /\ m.link = n.link /\ m.conf = n.conf /\ m.rel = n.rel
    /\ m.reg = n.reg /\ m.svc = n.svc /\ m.call = n.call /\ m.setup = n.setup
PagedIn(n) == n.suppress /\ ~n.conf /\ n.inq # <<>> => n.page.on \/ (~n.page.on /\ n.page.cycles = Cycles)

\* Paged, as a predicate of the engine.
LEMMA PagedIs == Paged <=> PagedIn(r)
  BY DEF Paged, GaveUp, PagedIn

\* Arm pages a service that waits.
LEMMA ArmIs ==
    ASSUME NEW n \in Engine
    PROVE  LET m == Arm(n)
           IN  Queueing(n, m) /\ m.inq = n.inq /\ PagedIn(m)
<1> DEFINE p == [on |-> TRUE, answered |-> FALSE, bursts |-> 0, cycles |-> 0]
           l == [n EXCEPT !.page = p]
           m == Arm(n)
<1>1. p \in PageState
  <2>1. 0 \in 0 .. Bursts /\ 0 \in 0 .. Cycles /\ 0 < Bursts /\ 0 < Cycles
    BY Rom6Assumption
  <2> QED  BY <2>1 DEF PageState
<1>2. Queueing(n, l) /\ l.inq = n.inq /\ l.page.on /\ l.suppress = n.suppress
  <2>1. p.on
    OBVIOUS
  <2> HIDE DEF p
  <2> QED  BY <1>1, <2>1 DEF Engine, Queueing
<1>3. IF n.suppress /\ ~n.conf /\ ~n.page.on THEN m = l ELSE m = n
  BY DEF Arm, StartPaging
<1> HIDE DEF l, m
<1>4. Queueing(n, n)
  BY DEF Queueing
<1>5. CASE n.suppress /\ ~n.conf /\ ~n.page.on
  <2>1. m = l
    BY <1>3, <1>5
  <2> QED  BY <1>2, <2>1 DEF PagedIn, m
<1>6. CASE ~(n.suppress /\ ~n.conf /\ ~n.page.on)
  <2>1. m = n
    BY <1>3, <1>6
  <2> QED  BY <1>4, <1>6, <2>1 DEF PagedIn, m
<1> QED  BY <1>5, <1>6

\* StartNext pages a service that waits.
LEMMA StartNextPages ==
    ASSUME NEW n \in Engine
    PROVE  LET m == StartNext(n)
           IN  Queueing(n, m) /\ m.inq = n.inq /\ PagedIn(m)
<1>1. CASE n.inq = <<>>
  <2>1. StartNext(n) = n
    BY <1>1 DEF StartNext
  <2> QED  BY <1>1, <2>1 DEF Queueing, PagedIn
<1>2. CASE n.inq # <<>>
  <2>1. StartNext(n) = Arm(n)
    BY <1>2 DEF StartNext
  <2> QED  BY <2>1, ArmIs
<1> QED  BY <1>1, <1>2

\* The first k of a sequence.
LEMMA SubSeqIn ==
    ASSUME NEW S, NEW o \in Seq(S), NEW k \in 0 .. Len(o)
    PROVE  SubSeq(o, 1, k) \in Seq(S) /\ Len(SubSeq(o, 1, k)) = k /\ (k = Len(o) => SubSeq(o, 1, k) = o)
<1> DEFINE w == SubSeq(o, 1, k)
<1>1. w \in Seq(S) /\ Len(w) = k /\ \A i \in 1 .. k : w[i] = o[i]
  BY SubSeqProperties
<1> HIDE DEF w
<1>2. k = Len(o) => w = o
  BY <1>1, SeqEqual
<1> QED  BY <1>1, <1>2 DEF w

\* The length of a concatenation.
LEMMA ConcatSize ==
    ASSUME NEW S, NEW a \in Seq(S), NEW b \in Seq(S)
    PROVE  Len(a \o b) = Len(a) + Len(b)
  BY ConcatProperties

\* The host's offer: what fits goes in, and a service that waits is paged.
LEMMA QueueOffer ==
    ASSUME NEW n \in Engine, Len(n.inq) < IncomingN, NEW o \in Offers
    PROVE  LET m == Queue(n, o)
           IN  /\ Queueing(n, m) /\ Len(m.inq) < IncomingN
               /\ \E w \in Seq(Services) : /\ m.inq = n.inq \o w
                                           /\ w = SubSeq(o, 1, Len(m.inq) - Len(n.inq)) /\ In(w) \subseteq Range(o)
               /\ PagedIn(n) => PagedIn(m)
<1> DEFINE x == Len(n.inq)
           y == Len(o)
           room == IncomingN - 1 - x
           m == Queue(n, o)
<1>1. o \in Seq(Services) /\ y \in Nat /\ y < IncomingN /\ n.inq \in Seq(Services) /\ x \in Nat /\ x < IncomingN
      /\ IncomingN \in Nat
  <2>1. o \in Seq(Services) /\ Len(o) < IncomingN /\ IncomingN \in Nat
    BY Rom6Assumption
  <2> QED  BY <2>1, EngineFields
<1>2. room \in Nat /\ IncomingN - 1 - Len(n.inq) = room
  BY <1>1
<1> DEFINE w == IF y <= room THEN o ELSE SubSeq(o, 1, room)
           l == [n EXCEPT !.inq = n.inq \o w]
<1>3. w \in Seq(Services) /\ w = SubSeq(o, 1, Len(w)) /\ Len(w) \in Nat /\ Len(w) <= room /\ In(w) \subseteq Range(o)
      /\ (x = 0 => y <= room)
  <2>1. CASE y <= room
    <3>1. w = o
      BY <2>1
    <3>2. y \in 0 .. Len(o)
      BY <1>1
    <3>3. SubSeq(o, 1, y) = o
      BY <1>1, <3>2, SubSeqIn
    <3>4. Range(o) = In(o)
      BY <1>1, RangeIs
    <3> QED  BY <1>1, <2>1, <3>1, <3>3, <3>4
  <2>2. CASE ~(y <= room)
    <3>0. w = SubSeq(o, 1, room)
      BY <2>2
    <3>9. room \in 0 .. Len(o)
      <4> HIDE DEF w
      <4> QED  BY <1>1, <1>2, <2>2
    <3>1. w = SubSeq(o, 1, room) /\ room \in 0 .. Len(o)
      BY <3>0, <3>9
    <3>2. w \in Seq(Services) /\ Len(w) = room
      BY <1>1, <3>1, SubSeqIn
    <3>3. \A i \in 1 .. room : w[i] = o[i] /\ i \in 1 .. Len(o)
      <4>1. \A i \in 1 .. room : SubSeq(o, 1, room)[i] = o[i]
        BY <1>1, <1>2, <3>1, SubSeqProperties
      <4> QED  BY <1>1, <1>2, <3>1, <4>1
    <3>4. Range(o) = In(o)
      BY <1>1, RangeIs
    <3> HIDE DEF w
    <3>5. In(w) \subseteq In(o)
      BY <3>2, <3>3 DEF In
    <3>6. x # 0
      BY <1>1, <2>2
    <3> QED  BY <1>2, <3>1, <3>2, <3>4, <3>5, <3>6
  <2> QED  BY <2>1, <2>2
<1>4. IF y <= room THEN m = Arm(l) ELSE m = l
  BY DEF Queue
<1> HIDE DEF w
<1>5. /\ n.inq \o w \in Seq(Services) /\ Len(n.inq \o w) = x + Len(w)
  BY <1>1, <1>3, ConcatSize
<1>6. Queueing(n, l) /\ l.inq = n.inq \o w /\ l.page = n.page /\ l.suppress = n.suppress
  <2> DEFINE z == n.inq \o w
  <2>1. z \in Seq(Services)
    BY <1>5
  <2> HIDE DEF z
  <2>2. Queueing(n, [n EXCEPT !.inq = z]) /\ [n EXCEPT !.inq = z].inq = z
        /\ [n EXCEPT !.inq = z].page = n.page /\ [n EXCEPT !.inq = z].suppress = n.suppress
    BY <2>1 DEF Engine, Queueing
  <2> QED  BY <2>2 DEF z
<1> HIDE DEF l, m
<1>7. Len(l.inq) = x + Len(w) /\ x + Len(w) < IncomingN /\ Len(l.inq) - x = Len(w)
  <2> DEFINE v == Len(w)
  <2>1. v \in Nat /\ v <= room /\ room = IncomingN - 1 - x
    BY <1>2, <1>3
  <2>2. Len(l.inq) = x + v
    BY <1>5, <1>6
  <2> HIDE DEF v, x, room
  <2>3. x + v < IncomingN /\ (x + v) - x = v
    BY <1>1, <2>1
  <2> QED  BY <2>2, <2>3 DEF v
<1>8. Queueing(n, m) /\ m.inq = l.inq /\ (PagedIn(n) => PagedIn(m))
  <2>1. CASE y <= room
    <3>1. m = Arm(l) /\ l \in Engine
      BY <1>4, <1>6, <2>1 DEF Queueing
    <3>2. Queueing(l, m) /\ m.inq = l.inq /\ PagedIn(m)
      BY <3>1, ArmIs
    <3> QED  BY <1>6, <3>2 DEF Queueing
  <2>2. CASE ~(y <= room)
    <3>1. m = l /\ x # 0
      BY <1>3, <1>4, <2>2
    <3>2. n.inq # <<>>
      BY <1>1, <3>1, InEmpty
    <3> QED  BY <1>6, <3>1, <3>2 DEF PagedIn, Queueing
  <2> QED  BY <2>1, <2>2
<1>9. /\ Queueing(n, m) /\ Len(m.inq) < IncomingN
      /\ w \in Seq(Services) /\ m.inq = n.inq \o w /\ w = SubSeq(o, 1, Len(m.inq) - Len(n.inq)) /\ In(w) \subseteq Range(o)
      /\ PagedIn(n) => PagedIn(m)
  <2>1. Len(m.inq) = Len(l.inq) /\ Len(m.inq) - Len(n.inq) = Len(w)
    BY <1>7, <1>8
  <2> QED  BY <1>3, <1>6, <1>7, <1>8, <2>1
<1> QED  BY <1>9 DEF m

\* A page without an answer: its bursts and cycles count.
LEMMA BlockIs ==
    ASSUME NEW n \in Engine, n.page.on
    PROVE  LET last == n.page.bursts + 1 >= Bursts
               m == [n EXCEPT !.page.bursts = IF last /\ n.page.cycles + 1 < Cycles THEN 0 ELSE @ + 1,
                              !.page.cycles = IF last THEN @ + 1 ELSE @,
                              !.page.on = ~last \/ n.page.cycles + 1 < Cycles]
           IN  Queueing(n, m) /\ m.inq = n.inq /\ PagedIn(m)
<1> DEFINE g == n.page
           last == g.bursts + 1 >= Bursts
           b == IF last /\ g.cycles + 1 < Cycles THEN 0 ELSE g.bursts + 1
           c == IF last THEN g.cycles + 1 ELSE g.cycles
           on == ~last \/ g.cycles + 1 < Cycles
           p == [g EXCEPT !.bursts = b, !.cycles = c, !.on = on]
           m == [n EXCEPT !.page = p]
           m0 == [n EXCEPT !.page.bursts = IF last /\ n.page.cycles + 1 < Cycles THEN 0 ELSE @ + 1,
                              !.page.cycles = IF last THEN @ + 1 ELSE @,
                              !.page.on = ~last \/ n.page.cycles + 1 < Cycles]
<1>1. /\ g \in PageState /\ Bursts \in Nat /\ Bursts > 0 /\ Cycles \in Nat /\ Cycles > 0
      /\ g.bursts \in 0 .. Bursts /\ g.cycles \in 0 .. Cycles /\ g.bursts < Bursts /\ g.cycles < Cycles
  BY Rom6Assumption, EngineFields DEF PageState
<1>2. g \in [on : BOOLEAN, answered : BOOLEAN, bursts : 0 .. Bursts, cycles : 0 .. Cycles]
  BY <1>1 DEF PageState
<1>3. /\ b \in 0 .. Bursts /\ c \in 0 .. Cycles /\ on \in BOOLEAN
      /\ on => b < Bursts /\ c < Cycles
      /\ ~on => c = Cycles
  <2> HIDE DEF g
  <2> QED  BY <1>1
<1>4. m0 = m
  BY <1>1, <1>2 DEF Engine
<1> HIDE DEF b, c, on
<1>5. p \in [on : BOOLEAN, answered : BOOLEAN, bursts : 0 .. Bursts, cycles : 0 .. Cycles]
      /\ p.on = on /\ p.bursts = b /\ p.cycles = c
  <2> HIDE DEF g
  <2> QED  BY <1>2, <1>3
<1> HIDE DEF p
<1>6. p \in PageState /\ (~p.on => p.cycles = Cycles)
  BY <1>3, <1>5 DEF PageState
<1>7. Queueing(n, m) /\ m.inq = n.inq /\ m.page = p
  BY <1>6 DEF Engine, Queueing
<1> HIDE DEF m
<1>8. PagedIn(m)
  BY <1>6, <1>7 DEF PagedIn
<1>9. Queueing(n, m0) /\ m0.inq = n.inq /\ PagedIn(m0)
  BY <1>4, <1>7, <1>8
<1> QED  BY <1>9

\* An answered page stays on.
LEMMA RachIs ==
    ASSUME NEW n \in Engine
    PROVE  LET m == [n EXCEPT !.page.answered = @ \/ n.page.on]
           IN  Queueing(n, m) /\ m.inq = n.inq /\ (PagedIn(n) => PagedIn(m))
<1> DEFINE g == n.page
           a == g.answered \/ g.on
           p == [g EXCEPT !.answered = a]
           m == [n EXCEPT !.page = p]
           m0 == [n EXCEPT !.page.answered = @ \/ n.page.on]
<1>1. g \in PageState
  BY EngineFields
<1>2. a \in BOOLEAN
  BY <1>1 DEF PageState
<1>3. m0 = m
  BY DEF Engine
<1> HIDE DEF a
<1>4. p \in PageState /\ p.on = g.on /\ p.cycles = g.cycles
  <2> HIDE DEF g
  <2> QED  BY <1>1, <1>2 DEF PageState
<1> HIDE DEF p
<1>5. Queueing(n, m) /\ m.inq = n.inq /\ m.page = p /\ m.suppress = n.suppress
  BY <1>4 DEF Engine, Queueing
<1> HIDE DEF m
<1>6. PagedIn(n) => PagedIn(m)
  BY <1>4, <1>5 DEF PagedIn, Queueing
<1>7. Queueing(n, m0) /\ m0.inq = n.inq /\ (PagedIn(n) => PagedIn(m0))
  BY <1>3, <1>5, <1>6
<1> QED  BY <1>7

\* The engine's record when a frame leaves its queue.
Tailed(n) == [n EXCEPT !.q = IF @ = <<>> THEN @ ELSE Tail(@)]

\* A frame that leaves changes the queue alone.
LEMMA TailedIs ==
    ASSUME NEW n, Legal(n)
    PROVE  LET m == Tailed(n)
           IN  /\ Legal(m) /\ m.link = n.link /\ m.conf = n.conf /\ m.rel = n.rel /\ m.inq = n.inq
               /\ SameCall(n, m)
               /\ m.q = IF n.q = <<>> THEN <<>> ELSE Tail(n.q)
<1> DEFINE w == IF n.q = <<>> THEN n.q ELSE Tail(n.q)
           m == [n EXCEPT !.q = w]
           x == Len(w)
           y == Len(n.q)
<1>1. Tailed(n) = m
  BY DEF Tailed
<1>2. n.q \in Seq(Frame) /\ y \in Nat /\ y < DedicatedN /\ n \in Engine /\ DedicatedN \in Nat
  BY LegalFields, Rom6Assumption DEF Legal
<1>3. w \in Seq(Frame) /\ x \in Nat /\ x <= y
  <2>1. CASE n.q = <<>>
    BY <1>2, <2>1
  <2>2. CASE n.q # <<>>
    <3>1. Tail(n.q) \in Seq(Frame) /\ Len(n.q) = Len(Tail(n.q)) + 1 /\ Len(Tail(n.q)) \in Nat
      BY <1>2, <2>2, InTail
    <3> QED  BY <1>2, <2>2, <3>1
  <2> QED  BY <2>1, <2>2
<1> HIDE DEF w
<1>4. m \in Engine /\ m.q = w /\ m.link = n.link /\ m.conf = n.conf /\ m.rel = n.rel /\ m.inq = n.inq /\ SameCall(n, m)
  BY <1>2, <1>3 DEF Engine, SameCall
<1> HIDE DEF m
<1>5. Len(m.q) < DedicatedN
  <2>1. x < DedicatedN
    <3> HIDE DEF x, y
    <3> QED  BY <1>2, <1>3
  <2> QED  BY <1>4, <2>1
<1>6. Legal(m)
  BY <1>4, <1>5 DEF Legal
<1> QED  BY <1>1, <1>4, <1>6 DEF m, w

\* The slot that completes a release.
LEMMA ReleasedIs ==
    ASSUME NEW n, Legal(n)
    PROVE  LET m == StartNext([n EXCEPT !.conf = FALSE, !.rel = FALSE])
           IN  Legal(m) /\ m.inq = n.inq /\ ~m.conf /\ ~m.rel /\ PagedIn(m) /\ m.q = n.q
<1> DEFINE l == [n EXCEPT !.conf = FALSE, !.rel = FALSE]
           m == StartNext(l)
<1>1. /\ l \in Engine /\ l.q = n.q /\ l.link = n.link /\ l.inq = n.inq /\ ~l.conf /\ ~l.rel
  BY DEF Legal, Engine
<1> HIDE DEF l
<1>2. Queueing(l, m) /\ m.inq = l.inq /\ PagedIn(m)
  BY <1>1, StartNextPages
<1> HIDE DEF m
<1>3. Legal(m)
  BY <1>1, <1>2 DEF Legal, Queueing
<1> QED  BY <1>1, <1>2, <1>3 DEF m, l, Queueing

\* A channel as it is configured.
Channel(n, size) ==
    [n EXCEPT !.conf = TRUE, !.rel = FALSE, !.tch = FALSE, !.q = <<>>,
              !.link = [s \in Sapis |-> NewLink], !.reg = "IDLE", !.svc = "NONE",
              !.active = <<>>, !.size = size]

\* A channel as it is configured is empty.
LEMMA ChannelIs ==
    ASSUME NEW n, Legal(n), NEW size \in Sizes
    PROVE  LET m == Channel(n, size)
           IN  /\ Legal(m) /\ m.inq = n.inq /\ m.conf /\ ~m.rel /\ m.q = <<>> /\ m.reg = "IDLE" /\ m.svc = "NONE"
               /\ \A s \in Sapis : m.link[s].vs = 0 /\ m.link[s].acks = <<>>
<1> DEFINE k == [s \in Sapis |-> NewLink]
           m == [n EXCEPT !.conf = TRUE, !.rel = FALSE, !.tch = FALSE, !.q = <<>>,
                          !.link = k, !.reg = "IDLE", !.svc = "NONE", !.active = <<>>,
                          !.size = size]
<1>1. Channel(n, size) = m
  BY DEF Channel
<1>2. NewLink \in LinkState /\ NewLink.vs = 0 /\ NewLink.acks = <<>>
  <2>1. 0 \in Nums /\ <<>> \in Seq(Acks)
    BY Rom6Assumption DEF Nums
  <2> QED  BY <2>1 DEF NewLink, LinkState
<1>3. k \in [Sapis -> LinkState] /\ \A s \in Sapis : k[s].vs = 0 /\ k[s].acks = <<>>
  BY <1>2
<1>4. <<>> \in Seq(Frame) /\ <<>> \in Seq(Services) /\ "IDLE" \in Regs /\ "NONE" \in Svcs /\ n \in Engine
  BY DEF Regs, Svcs, Legal
<1> HIDE DEF k
<1>5. /\ m \in Engine /\ m.inq = n.inq /\ m.conf /\ ~m.rel /\ m.q = <<>> /\ m.reg = "IDLE" /\ m.svc = "NONE" /\ m.link = k
  BY <1>3, <1>4 DEF Engine
<1> HIDE DEF m
<1>6. Legal(m)
  <2>1. Len(<<>>) < DedicatedN /\ Len(<<>>) <= AckN
    BY Rom6Assumption
  <2> QED  BY <1>3, <1>5, <2>1 DEF Legal
<1> QED  BY <1>1, <1>3, <1>5, <1>6 DEF m

\* The traffic channel changes nothing but its flag.
LEMMA TchIs ==
    ASSUME NEW n, Legal(n)
    PROVE  LET m == [n EXCEPT !.tch = TRUE]
           IN  /\ Legal(m) /\ m.q = n.q /\ m.link = n.link /\ m.conf = n.conf /\ m.rel = n.rel /\ m.inq = n.inq
               /\ SameCall(n, m) /\ m.page = n.page /\ m.suppress = n.suppress
<1> DEFINE m == [n EXCEPT !.tch = TRUE]
<1>1. /\ m \in Engine /\ m.q = n.q /\ m.link = n.link /\ m.conf = n.conf /\ m.rel = n.rel /\ m.inq = n.inq
      /\ SameCall(n, m) /\ m.page = n.page /\ m.suppress = n.suppress
  BY DEF Legal, Engine, SameCall
<1> HIDE DEF m
<1> QED  BY <1>1 DEF Legal, m

-----------------------------------------------------------------------------
(* The phone sends. *)

\* A control frame goes out.
LEMMA DropIs ==
    ASSUME NEW p, PhoneOk(p), p.ctl # <<>>
    PROVE  LET q == [p EXCEPT !.ctl = Tail(@)]
           IN  /\ PhoneOk(q) /\ SameLinks(p, q) /\ SamePart(p, q) /\ q.out = p.out /\ q.ctl = Tail(p.ctl)
               /\ Head(p.ctl) \in Controls
<1> DEFINE q == [p EXCEPT !.ctl = Tail(@)]
<1>1. p.ctl \in Seq(Controls) /\ p \in Phone
  BY PhoneFields
<1>2. Tail(p.ctl) \in Seq(Controls) /\ Head(p.ctl) \in Controls
  BY <1>1, InTail
<1>3. /\ q \in Phone /\ SameLinks(p, q) /\ SamePart(p, q) /\ q.out = p.out /\ q.ctl = Tail(p.ctl)
  BY <1>1, <1>2 DEF Phone, SameLinks, SamePart
<1> HIDE DEF q
<1>4. PhoneOk(q)
  BY <1>3, FieldOk DEF SameLinks
<1> QED  BY <1>2, <1>3, <1>4 DEF q

\* A message goes out: what the phone repeats until its acknowledge comes.
Posted(p, q, s) ==
    /\ PhoneOk(q) /\ SamePart(p, q) /\ q.ctl = p.ctl /\ q.vr = p.vr
    /\ q.out[s] = Tail(p.out[s]) /\ q.una[s] = Head(p.out[s])
    /\ \A o \in Sapis : o # s => q.out[o] = p.out[o] /\ q.una[o] = p.una[o]

\* The phone's message goes out.
LEMMA PostIs ==
    ASSUME NEW p, PhoneOk(p), NEW s \in Sapis, p.out[s] # <<>>
    PROVE  /\ Posted(p, [p EXCEPT !.out[s] = Tail(@), !.una[s] = Head(p.out[s]), !.vs[s] = Next_(@)], s)
           /\ Head(p.out[s]) \in Up(s)
<1> DEFINE q == [p EXCEPT !.out[s] = Tail(@), !.una[s] = Head(p.out[s]), !.vs[s] = Next_(@)]
<1>1. p \in Phone /\ p.out[s] \in Seq(Up(s)) /\ p.vs[s] \in Nums
  BY PhoneFields
<1>2. Tail(p.out[s]) \in Seq(Up(s)) /\ Head(p.out[s]) \in Up(s) /\ Next_(p.vs[s]) \in Nums
  BY <1>1, InTail, NumsNext
<1>3. Tail(p.out[s]) \in Seq(Up0 \cup Up3) /\ Head(p.out[s]) \in Up0 \cup Up3 \cup {"NONE"}
  <2>1. Up(s) \subseteq Up0 \cup Up3
    BY UpSets
  <2> QED  BY <1>2, <2>1, SeqMonotonic
<1>4. /\ q \in Phone /\ SamePart(p, q) /\ q.ctl = p.ctl /\ q.vr = p.vr
      /\ q.out[s] = Tail(p.out[s]) /\ q.una[s] = Head(p.out[s])
      /\ \A o \in Sapis : o # s => q.out[o] = p.out[o] /\ q.una[o] = p.una[o]
  <2> DEFINE w == Tail(p.out[s])
             h == Head(p.out[s])
             v == Next_(p.vs[s])
             z == [p EXCEPT !.out[s] = w, !.una[s] = h, !.vs[s] = v]
  <2>1. q = z
    OBVIOUS
  <2>2. w \in Seq(Up0 \cup Up3) /\ h \in Up0 \cup Up3 \cup {"NONE"} /\ v \in Nums
    BY <1>2, <1>3
  <2> HIDE DEF w, h, v
  <2>3. /\ z \in Phone /\ SamePart(p, z) /\ z.ctl = p.ctl /\ z.vr = p.vr /\ z.out[s] = w /\ z.una[s] = h
        /\ \A o \in Sapis : o # s => z.out[o] = p.out[o] /\ z.una[o] = p.una[o]
    BY <1>1, <2>2 DEF Phone, SamePart
  <2> QED  BY <2>1, <2>3 DEF w, h
<1> HIDE DEF q
<1>5. PhoneOk(q)
  <2> SUFFICES ASSUME NEW o \in Sapis PROVE q.out[o] \in Seq(Up(o)) /\ q.una[o] \in Up(o) \cup {"NONE"}
    BY <1>4 DEF PhoneOk
  <2>1. p.out[o] \in Seq(Up(o)) /\ p.una[o] \in Up(o) \cup {"NONE"}
    BY DEF PhoneOk
  <2>2. CASE o = s
    BY <1>2, <1>4, <2>2
  <2>3. CASE o # s
    BY <1>4, <2>1, <2>3
  <2> QED  BY <2>2, <2>3
<1> QED  BY <1>2, <1>4, <1>5 DEF q, Posted

Sabm0(msg) == [t |-> "SABM", sapi |-> 0, msg |-> msg]
Begun(p) == Control([FreshLink(FreshLink(p, 0), 3) EXCEPT !.at = "sabm"], Sabm0(p.why))

\* The phone on its channel owes its request, and nothing else.
LEMMA BegunIs ==
    ASSUME NEW p, PhoneOk(p)
    PROVE  LET q == Begun(p)
           IN  /\ PhoneOk(q) /\ q.at = "sabm" /\ q.why = p.why /\ q.call = p.call /\ q.out = p.out
               /\ \A s \in Sapis : q.vr[s] = 0 /\ q.una[s] = "NONE"
               /\ p.ctl = <<>> => q.ctl = <<Sabm0(p.why)>>
<1> DEFINE a == FreshLink(p, 0)
           b == FreshLink(a, 3)
           c == [b EXCEPT !.at = "sabm"]
           f == Sabm0(p.why)
           q == Control(c, f)
<1>1. 0 \in Sapis /\ 3 \in Sapis /\ 0 # 3 /\ \A s \in Sapis : s = 0 \/ s = 3
  BY UpSets
<1>2. /\ PhoneOk(a) /\ SamePart(p, a) /\ a.ctl = p.ctl /\ a.out = p.out /\ a.vr[0] = 0 /\ a.una[0] = "NONE"
  BY <1>1, FreshOk
<1> HIDE DEF a
<1>3. /\ PhoneOk(b) /\ SamePart(a, b) /\ b.ctl = a.ctl /\ b.out = a.out /\ b.vr[3] = 0 /\ b.una[3] = "NONE"
      /\ \A o \in Sapis : o # 3 => b.vr[o] = a.vr[o] /\ b.vs[o] = a.vs[o] /\ b.una[o] = a.una[o]
  BY <1>1, <1>2, FreshOk
<1> HIDE DEF b
<1>4. \A s \in Sapis : b.vr[s] = 0 /\ b.una[s] = "NONE"
  BY <1>1, <1>2, <1>3
<1>5. b \in Phone /\ "sabm" \in Places
  BY <1>3 DEF PhoneOk, Places
<1>6. /\ c \in Phone /\ c.at = "sabm" /\ c.why = b.why /\ c.call = b.call /\ c.out = b.out /\ c.ctl = b.ctl
      /\ c.una = b.una /\ c.vr = b.vr
  BY <1>5 DEF Phone
<1> HIDE DEF c
<1>7. PhoneOk(c)
  BY <1>3, <1>6, FieldOk
<1>8. f \in Controls
  <2>1. p.why \in Requests
    BY DEF PhoneOk, Phone, Requests
  <2> QED  BY <1>1, <2>1 DEF Sabm0, Controls
<1> HIDE DEF f
<1>9. /\ PhoneOk(q) /\ SameLinks(c, q) /\ SamePart(c, q) /\ q.out = c.out
  BY <1>7, <1>8, ControlOk
<1>10. p.ctl = <<>> => q.ctl = <<f>>
  <2> HAVE p.ctl = <<>>
  <2>1. c.ctl = <<>> /\ c \in Phone
    BY <1>2, <1>3, <1>6
  <2>2. f \notin Range(c.ctl)
    BY <2>1 DEF Range
  <2>3. q = [c EXCEPT !.ctl = Append(@, f)]
    BY <2>2 DEF Control
  <2>4. q.ctl = Append(c.ctl, f)
    BY <2>1, <2>3 DEF Phone
  <2> QED  BY <2>1, <2>4
<1> HIDE DEF q
<1>11. /\ PhoneOk(q) /\ q.at = "sabm" /\ q.why = p.why /\ q.call = p.call /\ q.out = p.out
       /\ (\A s \in Sapis : q.vr[s] = 0 /\ q.una[s] = "NONE")
       /\ p.ctl = <<>> => q.ctl = <<f>>
  BY <1>2, <1>3, <1>4, <1>6, <1>9, <1>10 DEF SamePart, SameLinks
<1> QED  BY <1>11 DEF q, c, b, a, f, Begun

\* The phone on the traffic channel.
Tuned(p, again) ==
    [Idle(p) EXCEPT !.at = "sabm", !.why = p.why, !.out[0] = again, !.ctl = <<Sabm0("ASSIGNMENT_COMPLETE")>>]

\* It owes the outcome of the assignment, and nothing else.
LEMMA TunedIs ==
    ASSUME NEW p, PhoneOk(p), NEW again \in {<<>>, <<"SETUP_UDI">>}
    PROVE  LET q == Tuned(p, again)
           IN  /\ PhoneOk(q) /\ q.at = "sabm" /\ q.why = p.why /\ q.call = "no"
               /\ q.ctl = <<Sabm0("ASSIGNMENT_COMPLETE")>> /\ q.out[0] = again /\ q.out[3] = <<>>
               /\ \A s \in Sapis : q.vr[s] = p.vr[s] /\ q.una[s] = "NONE"
<1> DEFINE i == Idle(p)
           w == <<Sabm0("ASSIGNMENT_COMPLETE")>>
           q == [i EXCEPT !.at = "sabm", !.why = p.why, !.out[0] = again, !.ctl = w]
<1>1. Tuned(p, again) = q
  BY DEF Tuned
<1>2. /\ PhoneOk(i) /\ i.call = "no"
      /\ \A s \in Sapis : i.out[s] = <<>> /\ i.una[s] = "NONE" /\ i.vr[s] = p.vr[s]
  BY IdleOk
<1> HIDE DEF i
<1>3. 0 \in Sapis /\ 3 \in Sapis /\ 0 # 3 /\ (\A s \in Sapis : s = 0 \/ s = 3) /\ Up(0) = Up0
  BY UpSets
<1>4. w \in Seq(Controls)
  <2>1. Sabm0("ASSIGNMENT_COMPLETE") \in Controls
    BY <1>3 DEF Sabm0, Controls, Requests
  <2> QED  BY <2>1
<1>5. again \in Seq(Up(0)) /\ again \in Seq(Up0 \cup Up3)
  <2>1. "SETUP_UDI" \in Up0
    BY DEF Up0
  <2>2. <<"SETUP_UDI">> \in Seq(Up0) /\ <<"SETUP_UDI">> \in Seq(Up0 \cup Up3)
    BY <2>1, InTuples
  <2>3. <<>> \in Seq(Up0) /\ <<>> \in Seq(Up0 \cup Up3)
    OBVIOUS
  <2> QED  BY <1>3, <2>2, <2>3
<1> HIDE DEF w
<1>6. i \in Phone /\ "sabm" \in Places /\ p.why \in Reasons \cup {"NONE"}
  BY <1>2 DEF PhoneOk, Places, Phone
<1>7. /\ q \in Phone /\ q.at = "sabm" /\ q.why = p.why /\ q.call = i.call /\ q.ctl = w
      /\ q.out[0] = again /\ q.out[3] = i.out[3] /\ q.una = i.una /\ q.vr = i.vr
  BY <1>3, <1>4, <1>5, <1>6 DEF Phone
<1> HIDE DEF q
<1>8. PhoneOk(q)
  <2> SUFFICES ASSUME NEW s \in Sapis PROVE q.out[s] \in Seq(Up(s)) /\ q.una[s] \in Up(s) \cup {"NONE"}
    BY <1>7 DEF PhoneOk
  <2>1. q.una[s] \in Up(s) \cup {"NONE"}
    BY <1>2, <1>7
  <2>2. CASE s = 0
    BY <1>5, <1>7, <2>1, <2>2
  <2>3. CASE s = 3
    <3>1. q.out[s] = i.out[s] /\ i.out[s] \in Seq(Up(s))
      BY <1>2, <1>7, <2>3 DEF PhoneOk
    <3> QED  BY <2>1, <3>1
  <2> QED  BY <1>3, <2>2, <2>3
<1> QED  BY <1>1, <1>2, <1>3, <1>7, <1>8 DEF q, w

\* Answering and hanging up.
LEMMA CallOk ==
    ASSUME NEW p, PhoneOk(p), NEW msg \in {"CONNECT", "DISCONNECT"}, NEW c \in {"no", "wait"}
    PROVE  LET q == [Send(p, 0, <<msg>>) EXCEPT !.call = c]
           IN  /\ PhoneOk(q) /\ SameLinks(p, q) /\ q.at = p.at /\ q.why = p.why /\ q.ctl = p.ctl /\ q.out[3] = p.out[3]
<1> DEFINE s == Send(p, 0, <<msg>>)
           q == [s EXCEPT !.call = c]
<1>1. 0 \in Sapis /\ 3 \in Sapis /\ 0 # 3 /\ <<msg>> \in Seq(Up(0))
  <2>1. msg \in Up0
    BY DEF Up0
  <2> QED  BY <2>1, UpSets, InTuples
<1>2. /\ PhoneOk(s) /\ SameLinks(p, s) /\ SamePart(p, s) /\ s.ctl = p.ctl
      /\ \A o \in Sapis : o # 0 => s.out[o] = p.out[o]
  BY <1>1, SendOk
<1> HIDE DEF s
<1>3. s \in Phone
  BY <1>2 DEF PhoneOk
<1>4. q \in Phone /\ q.out = s.out /\ q.una = s.una /\ q.at = s.at /\ q.why = s.why /\ q.ctl = s.ctl /\ SameLinks(s, q)
  BY <1>3 DEF Phone, SameLinks
<1> HIDE DEF q
<1>5. PhoneOk(q)
  BY <1>2, <1>4, FieldOk
<1>6. /\ PhoneOk(q) /\ SameLinks(p, q) /\ q.at = p.at /\ q.why = p.why /\ q.ctl = p.ctl /\ q.out[3] = p.out[3]
  BY <1>1, <1>2, <1>4, <1>5 DEF SamePart, SameLinks
<1> QED  BY <1>6 DEF q, s

-----------------------------------------------------------------------------
(* Types. *)

TypedNet(n, p) ==
    /\ Legal(n) /\ PhoneOk(p) /\ Len(n.inq) < IncomingN /\ (n.rel => n.conf)
Typed == TypedNet(r, ms) /\ offered \subseteq Services /\ In(r.inq) \subseteq offered

\* What an uplink does to the services that wait.
Fewer(n, m) == m.conf = n.conf /\ Len(m.inq) <= Len(n.inq) /\ In(m.inq) \subseteq In(n.inq)

\* No service comes with a frame from the phone.
LEMMA FewerTyped ==
    ASSUME NEW n, TypedNet(n, ms), n.conf, NEW m, Legal(m), Fewer(n, m), NEW p, PhoneOk(p)
    PROVE  TypedNet(m, p) /\ In(m.inq) \subseteq In(n.inq)
<1>1. Len(m.inq) < IncomingN
  <2> DEFINE x == Len(m.inq)
             y == Len(n.inq)
  <2>1. x \in Nat /\ y \in Nat /\ x <= y /\ y < IncomingN /\ IncomingN \in Nat
    BY LegalFields, Rom6Assumption DEF TypedNet, Fewer
  <2> HIDE DEF x, y
  <2>2. x < IncomingN
    BY <2>1
  <2> QED  BY <2>2 DEF x
<1> QED  BY <1>1 DEF TypedNet, Fewer

\* A control frame on the air is one of the phone's frames.
LEMMA ControlUp ==
    ASSUME NEW c \in Controls, NEW nr \in Nums
    PROVE  (IF c.t = "RR" THEN [t |-> "RR", sapi |-> c.sapi, nr |-> nr] ELSE c) \in Uplinks
<1>1. CASE c.t = "RR"
  <2>1. c.sapi \in Sapis
    BY <1>1 DEF Controls
  <2> QED  BY <1>1, <2>1 DEF Uplinks
<1>2. CASE c.t # "RR"
  <2>1. c \in [t : {"UA", "DISC"}, sapi : Sapis] \/ c \in [t : {"SABM"}, sapi : Sapis, msg : Requests]
    BY <1>2 DEF Controls, Sapis
  <2> QED  BY <1>2, <2>1 DEF Uplinks
<1> QED  BY <1>1, <1>2

InfoFrame(s, ns, nr, msg) == [t |-> "I", sapi |-> s, ns |-> ns, nr |-> nr, msg |-> msg]

\* A message on the air is one of the phone's frames.
LEMMA InfoUp ==
    ASSUME NEW s \in Sapis, NEW ns \in Nums, NEW nr \in Nums, NEW msg \in Up(s)
    PROVE  InfoFrame(s, ns, nr, msg) \in Uplinks
<1>1. msg \in Up0 \cup Up3
  BY UpSets
<1> DEFINE f == InfoFrame(s, ns, nr, msg)
<1>2. f \in [t : {"I"}, sapi : Sapis, ns : Nums, nr : Nums, msg : Up0 \cup Up3] /\ f.msg = msg /\ f.sapi = s
  BY <1>1 DEF InfoFrame
<1> HIDE DEF f
<1>3. f \in Uplinks
  BY <1>2 DEF Uplinks
<1> QED  BY <1>3 DEF f

\* The number before a number is a number of the link.
LEMMA ModLess ==
    \A x \in Nums : (x + Modulus - 1) % Modulus \in Nums
<1>1. Modulus \in Nat /\ Modulus > 0
  BY Rom6Assumption
<1> QED  BY <1>1 DEF Nums

\* QueueIncoming keeps the types and the paging.
LEMMA QueueTyped ==
    ASSUME Typed, NEW o \in Offers, QueueIncoming(o)
    PROVE  Typed' /\ (PagedIn(r) => PagedIn(r'))
<1> DEFINE m == Queue(r, o)
<1>1. r \in Engine /\ Len(r.inq) < IncomingN /\ Legal(r)
  BY DEF Typed, TypedNet, Legal
<1>2. /\ Queueing(r, m) /\ Len(m.inq) < IncomingN
      /\ \E w \in Seq(Services) : /\ m.inq = r.inq \o w
                                  /\ w = SubSeq(o, 1, Len(m.inq) - Len(r.inq)) /\ In(w) \subseteq Range(o)
      /\ PagedIn(r) => PagedIn(m)
  BY <1>1, QueueOffer
<1> HIDE DEF m
<1>3. PICK w \in Seq(Services) : /\ m.inq = r.inq \o w
                                 /\ w = SubSeq(o, 1, Len(m.inq) - Len(r.inq)) /\ In(w) \subseteq Range(o)
  BY <1>2
<1>4. r' = m /\ ms' = ms /\ offered' = offered \cup Range(w)
  BY <1>3 DEF QueueIncoming, m
<1>5. Legal(m) /\ m.rel = r.rel /\ m.conf = r.conf
  BY <1>1, <1>2 DEF Queueing, Legal
<1>6. TypedNet(m, ms)
  BY <1>2, <1>5 DEF Typed, TypedNet
<1>7. In(m.inq) = In(r.inq) \cup In(w) /\ Range(w) = In(w) /\ In(w) \subseteq Services
  <2>1. r.inq \in Seq(Services)
    BY <1>1, EngineFields
  <2>2. In(r.inq \o w) = In(r.inq) \cup In(w)
    BY <2>1, InConcat
  <2>3. Range(w) = In(w) /\ In(w) \subseteq Services
    BY RangeIs, InEmpty
  <2> QED  BY <1>3, <2>2, <2>3
<1>8. Typed'
  BY <1>4, <1>6, <1>7 DEF Typed
<1> QED  BY <1>2, <1>4, <1>8

\* PagingBlock keeps the types and the paging.
LEMMA BlockTyped ==
    ASSUME Typed, PagingBlock
    PROVE  Typed' /\ PagedIn(r')
<1>1. r \in Engine /\ r.page.on /\ Legal(r) /\ PhoneOk(ms)
  BY DEF Typed, TypedNet, Legal, PagingBlock
<1>2. Queueing(r, r') /\ (r').inq = r.inq /\ PagedIn(r')
  <2>1. LET last == r.page.bursts + 1 >= Bursts
        IN  r' = [r EXCEPT !.page.bursts = IF last /\ r.page.cycles + 1 < Cycles THEN 0 ELSE @ + 1,
                          !.page.cycles = IF last THEN @ + 1 ELSE @,
                          !.page.on = ~last \/ r.page.cycles + 1 < Cycles]
    BY DEF PagingBlock
  <2> QED  BY <1>1, <2>1, BlockIs
<1>3. PhoneOk(ms')
  <2>1. PICK heard \in BOOLEAN : ms' = [ms EXCEPT !.paged = @ \/ (heard /\ ms.at = "idle")]
    BY DEF PagingBlock
  <2>2. ms \in Phone /\ (ms.paged \/ (heard /\ ms.at = "idle")) \in BOOLEAN
    BY <1>1 DEF PhoneOk
  <2>3. ms' \in Phone /\ (ms').out = ms.out /\ (ms').una = ms.una
    BY <2>1, <2>2 DEF Phone
  <2> QED  BY <1>1, <2>3, FieldOk
<1>4. offered' = offered
  BY DEF PagingBlock
<1>5. TypedNet(r', ms')
  BY <1>1, <1>2, <1>3 DEF Typed, TypedNet, Queueing, Legal
<1> QED  BY <1>2, <1>4, <1>5 DEF Typed

\* Slot keeps the types and the paging.
LEMMA SlotTyped ==
    ASSUME Typed, Slot
    PROVE  Typed' /\ (PagedIn(r) => PagedIn(r'))
<1> DEFINE n == Tailed(r)
           m == StartNext([n EXCEPT !.conf = FALSE, !.rel = FALSE])
<1>1. Legal(r) /\ PhoneOk(ms) /\ r.conf /\ r.q \in Seq(Frame)
  BY LegalFields DEF Typed, TypedNet, Slot
<1>2. r' = IF n.rel /\ n.q = <<>> THEN m ELSE n
  BY DEF Slot, Tailed
<1>3. /\ Legal(n) /\ n.conf = r.conf /\ n.rel = r.rel /\ n.inq = r.inq
  BY <1>1, TailedIs
<1> HIDE DEF n
<1>4. /\ Legal(m) /\ m.inq = n.inq /\ ~m.rel /\ PagedIn(m)
  BY <1>3, ReleasedIs
<1> HIDE DEF m
<1>5. PhoneOk(ms')
  <2>1. CASE r.q = <<>>
    BY <1>1, <2>1 DEF Slot
  <2>2. CASE r.q # <<>>
    <3>1. ms' \in Receive(ms, Head(r.q)) /\ Head(r.q) \in Frame
      BY <1>1, <2>2, InTail DEF Slot
    <3> QED  BY <1>1, <3>1, ReceiveIs
  <2> QED  BY <2>1, <2>2
<1>6. /\ Legal(r') /\ (r').inq = r.inq /\ ((r').rel => (r').conf) /\ PagedIn(r')
  <2>1. CASE n.rel /\ n.q = <<>>
    BY <1>2, <1>3, <1>4, <2>1
  <2>2. CASE ~(n.rel /\ n.q = <<>>)
    BY <1>1, <1>2, <1>3, <2>2 DEF PagedIn
  <2> QED  BY <2>1, <2>2
<1>7. offered' = offered
  BY DEF Slot
<1> QED  BY <1>5, <1>6, <1>7 DEF Typed, TypedNet

\* Rach keeps the types and the paging.
LEMMA RachTyped ==
    ASSUME Typed, NEW why \in Reasons, Rach(why)
    PROVE  Typed' /\ (PagedIn(r) => PagedIn(r'))
<1>1. r \in Engine /\ Legal(r) /\ PhoneOk(ms) /\ ms \in Phone
  BY DEF Typed, TypedNet, Legal, PhoneOk
<1>2. r' = [r EXCEPT !.page.answered = @ \/ r.page.on]
  BY DEF Rach
<1>3. Queueing(r, r') /\ (r').inq = r.inq /\ (PagedIn(r) => PagedIn(r'))
  BY <1>1, <1>2, RachIs
<1>4. PhoneOk(ms')
  <2> DEFINE own == IF why = "PAGING_RESPONSE" THEN ms.own ELSE ms.own + 1
  <2>1. ms' = [ms EXCEPT !.at = "rach", !.why = why, !.paged = FALSE, !.own = own]
    BY DEF Rach
  <2>2. own \in Nat /\ "rach" \in Places /\ why \in Reasons \cup {"NONE"}
    BY <1>1 DEF Phone, Places
  <2> HIDE DEF own
  <2>3. ms' \in Phone /\ (ms').out = ms.out /\ (ms').una = ms.una
    BY <1>1, <2>1, <2>2 DEF Phone
  <2> QED  BY <1>1, <2>3, FieldOk
<1>5. offered' = offered
  BY DEF Rach
<1>6. TypedNet(r', ms')
  BY <1>1, <1>3, <1>4 DEF Typed, TypedNet, Queueing, Legal
<1> QED  BY <1>3, <1>5, <1>6 DEF Typed

\* ConfigureSdcch keeps the types.
LEMMA SdcchTyped ==
    ASSUME Typed, ConfigureSdcch
    PROVE  Typed' /\ PagedIn(r')
<1>1. Legal(r) /\ PhoneOk(ms)
  BY DEF Typed, TypedNet
<1>2. PICK size \in Sizes : r' = Channel(r, size) /\ ms' = Begun(ms) /\ offered' = offered
  BY DEF ConfigureSdcch, Channel, Begun, Sabm0
<1>3. Legal(r') /\ (r').inq = r.inq /\ (r').conf /\ ~(r').rel
  BY <1>1, <1>2, ChannelIs
<1>4. PhoneOk(ms')
  BY <1>1, <1>2, BegunIs
<1> QED  BY <1>2, <1>3, <1>4 DEF Typed, TypedNet, PagedIn

\* ConfigureTch keeps the types and the paging.
LEMMA TchTyped ==
    ASSUME Typed, ConfigureTch
    PROVE  Typed' /\ (PagedIn(r) => PagedIn(r'))
<1>1. Legal(r) /\ PhoneOk(ms)
  BY DEF Typed, TypedNet
<1>2. r' = [r EXCEPT !.tch = TRUE] /\ offered' = offered
  BY DEF ConfigureTch
<1>3. /\ Legal(r') /\ (r').conf = r.conf /\ (r').rel = r.rel /\ (r').inq = r.inq
      /\ (r').page = r.page /\ (r').suppress = r.suppress
  BY <1>1, <1>2, TchIs
<1>4. PICK again \in {<<>>, <<"SETUP_UDI">>} : ms' = Tuned(ms, again)
  BY DEF ConfigureTch, Tuned, Sabm0
<1>5. PhoneOk(ms')
  BY <1>1, <1>4, TunedIs
<1> QED  BY <1>2, <1>3, <1>5 DEF Typed, TypedNet, PagedIn

\* A block from the phone keeps the types.
LEMMA HeardTyped ==
    ASSUME Typed, r.conf, NEW f \in Uplinks, r' = LapdmUplink(r, f), PhoneOk(ms'), offered' = offered
    PROVE  Typed' /\ PagedIn(r')
<1>1. Legal(r) /\ TypedNet(r, ms)
  BY DEF Typed, TypedNet
<1>2. Legal(r') /\ Fewer(r, r')
  BY <1>1, UplinkLegal DEF Fewer
<1>3. TypedNet(r', ms') /\ In((r').inq) \subseteq In(r.inq)
  BY <1>1, <1>2, FewerTyped
<1> QED  BY <1>2, <1>3 DEF Typed, Fewer, PagedIn

\* Uplink keeps the types.
LEMMA UplinkTyped ==
    ASSUME Typed, Uplink
    PROVE  Typed' /\ PagedIn(r')
<1>1. PhoneOk(ms) /\ r.conf /\ offered' = offered
  BY DEF Typed, TypedNet, Uplink
<1>2. CASE /\ ms.ctl # <<>>
           /\ LET f == Head(ms.ctl)
              IN  r' = LapdmUplink(r, IF f.t = "RR" THEN [t |-> "RR", sapi |-> f.sapi, nr |-> ms.vr[f.sapi]] ELSE f)
           /\ ms' = [ms EXCEPT !.ctl = Tail(@)]
  <2>1. PhoneOk(ms') /\ Head(ms.ctl) \in Controls
    BY <1>1, <1>2, DropIs
  <2> DEFINE f == Head(ms.ctl)
             u == IF f.t = "RR" THEN [t |-> "RR", sapi |-> f.sapi, nr |-> ms.vr[f.sapi]] ELSE f
  <2>2. u \in Uplinks
    <3>1. f.sapi \in Sapis
      BY <2>1 DEF Controls, Sapis
    <3>2. ms.vr[f.sapi] \in Nums
      BY <1>1, <3>1, PhoneFields
    <3> QED  BY <2>1, <3>2, ControlUp
  <2>3. r' = LapdmUplink(r, u)
    BY <1>2
  <2> HIDE DEF u
  <2> QED  BY <1>1, <2>1, <2>2, <2>3, HeardTyped
<1>3. CASE /\ ms.at = "on"
           /\ \E s \in Sapis :
                /\ ms.out[s] # <<>> /\ ms.una[s] = "NONE"
                /\ r' = LapdmUplink(r, [t |-> "I", sapi |-> s, ns |-> ms.vs[s], nr |-> ms.vr[s],
                                       msg |-> Head(ms.out[s])])
                /\ ms' = [ms EXCEPT !.out[s] = Tail(@), !.una[s] = Head(ms.out[s]), !.vs[s] = Next_(@)]
  <2>1. PICK s \in Sapis :
                /\ ms.out[s] # <<>> /\ ms.una[s] = "NONE"
                /\ r' = LapdmUplink(r, InfoFrame(s, ms.vs[s], ms.vr[s], Head(ms.out[s])))
                /\ ms' = [ms EXCEPT !.out[s] = Tail(@), !.una[s] = Head(ms.out[s]), !.vs[s] = Next_(@)]
    BY <1>3 DEF InfoFrame
  <2>2. PhoneOk(ms') /\ Head(ms.out[s]) \in Up(s)
    BY <1>1, <2>1, PostIs DEF Posted
  <2>3. InfoFrame(s, ms.vs[s], ms.vr[s], Head(ms.out[s])) \in Uplinks
    BY <1>1, <2>2, PhoneFields, InfoUp
  <2> QED  BY <1>1, <2>1, <2>2, <2>3, HeardTyped
<1> QED  BY <1>2, <1>3 DEF Uplink

\* Repeat keeps the types.
LEMMA RepeatTyped ==
    ASSUME Typed, NEW s \in Sapis, Repeat(s)
    PROVE  Typed' /\ PagedIn(r')
<1>1. PhoneOk(ms) /\ r.conf /\ offered' = offered /\ ms \in Phone
  BY DEF Typed, TypedNet, Repeat, PhoneOk
<1>2. PhoneOk(ms')
  <2>1. ms' = [ms EXCEPT !.reps = @ + 1] /\ ms.reps + 1 \in Nat
    BY <1>1 DEF Repeat, Phone
  <2>2. ms' \in Phone /\ (ms').out = ms.out /\ (ms').una = ms.una
    BY <1>1, <2>1 DEF Phone
  <2> QED  BY <1>1, <2>2, FieldOk
<1> DEFINE f == InfoFrame(s, (ms.vs[s] + Modulus - 1) % Modulus, ms.vr[s], ms.una[s])
<1>3. f \in Uplinks
  <2>1. ms.una[s] \in Up(s) /\ ms.vr[s] \in Nums /\ (ms.vs[s] + Modulus - 1) % Modulus \in Nums
    BY <1>1, PhoneFields, ModLess DEF Repeat
  <2> QED  BY <2>1, InfoUp
<1>4. r' = LapdmUplink(r, f)
  BY DEF Repeat, InfoFrame
<1> HIDE DEF f
<1> QED  BY <1>1, <1>2, <1>3, <1>4, HeardTyped

\* Every step keeps the types and the paging.
LEMMA TypedNext ==
    ASSUME Typed, [Next]_vars
    PROVE  Typed' /\ (PagedIn(r) => PagedIn(r'))
<1>1. PhoneOk(ms)
  BY DEF Typed, TypedNet
<1>2. ASSUME NEW o \in Offers, QueueIncoming(o) PROVE Typed' /\ (PagedIn(r) => PagedIn(r'))
  BY <1>2, QueueTyped
<1>3. ASSUME NEW why \in Reasons, Rach(why) PROVE Typed' /\ (PagedIn(r) => PagedIn(r'))
  BY <1>3, RachTyped
<1>4. ASSUME NEW s \in Sapis, Repeat(s) PROVE Typed' /\ (PagedIn(r) => PagedIn(r'))
  BY <1>4, RepeatTyped
<1>5. ASSUME Answer PROVE Typed' /\ (PagedIn(r) => PagedIn(r'))
  <2>1. ms' = [Send(ms, 0, <<"CONNECT">>) EXCEPT !.call = "wait"] /\ r' = r /\ offered' = offered
    BY <1>5 DEF Answer
  <2>2. PhoneOk(ms')
    BY <1>1, <2>1, CallOk
  <2> QED  BY <2>1, <2>2 DEF Typed, TypedNet
<1>6. ASSUME HangUp PROVE Typed' /\ (PagedIn(r) => PagedIn(r'))
  <2>1. ms' = [Send(ms, 0, <<"DISCONNECT">>) EXCEPT !.call = "no"] /\ r' = r /\ offered' = offered
    BY <1>6 DEF HangUp
  <2>2. PhoneOk(ms')
    BY <1>1, <2>1, CallOk
  <2> QED  BY <2>1, <2>2 DEF Typed, TypedNet
<1>7. ASSUME UNCHANGED vars PROVE Typed' /\ (PagedIn(r) => PagedIn(r'))
  BY <1>7 DEF Typed, vars
<1> QED  BY <1>2, <1>3, <1>4, <1>5, <1>6, <1>7, BlockTyped, SlotTyped, SdcchTyped, TchTyped, UplinkTyped DEF Next

\* The initial state has its types, and pages nobody.
LEMMA TypedInit ==
    ASSUME Init
    PROVE  Typed /\ PagedIn(r)
<1> DEFINE k == [s \in Sapis |-> NewLink]
           g == [on |-> FALSE, answered |-> FALSE, bursts |-> 0, cycles |-> 0]
           z == [s \in Sapis |-> 0]
           u == [s \in Sapis |-> "NONE"]
           d == CHOOSE size \in Sizes : TRUE
<1>0. d \in Sizes
  BY Rom6Assumption
<1>1. NewLink \in LinkState /\ NewLink.acks = <<>>
  <2>1. 0 \in Nums /\ <<>> \in Seq(Acks)
    BY Rom6Assumption DEF Nums
  <2> QED  BY <2>1 DEF NewLink, LinkState
<1>2. k \in [Sapis -> LinkState] /\ \A s \in Sapis : k[s].acks = <<>>
  BY <1>1
<1>3. g \in PageState
  <2>1. 0 \in 0 .. Bursts /\ 0 \in 0 .. Cycles
    BY Rom6Assumption
  <2> QED  BY <2>1 DEF PageState
<1>4. z \in [Sapis -> Nums] /\ u \in [Sapis -> Up0 \cup Up3 \cup {"NONE"}]
      /\ NoFrames \in [Sapis -> Seq(Up0 \cup Up3)]
  <2>1. 0 \in Nums
    BY Rom6Assumption DEF Nums
  <2> QED  BY <2>1 DEF NoFrames
<1>5. /\ r = [inq |-> <<>>, page |-> g, suppress |-> FALSE, conf |-> FALSE, rel |-> FALSE, tch |-> FALSE, q |-> <<>>,
              link |-> k, reg |-> "IDLE", svc |-> "NONE", active |-> <<>>, size |-> d, call |-> 0, setup |-> FALSE, assign |-> FALSE]
      /\ ms = [at |-> "idle", why |-> "NONE", reg |-> FALSE, vs |-> z, vr |-> z, una |-> u, ctl |-> <<>>,
               out |-> NoFrames, call |-> "no", paged |-> FALSE, got |-> {}, own |-> 0, reps |-> 0]
      /\ offered = {}
  BY DEF Init
<1> HIDE DEF k, g, z, u, d
<1>6. r \in Engine /\ r.q = <<>> /\ r.link = k /\ r.inq = <<>> /\ ~r.rel /\ ~r.suppress
  <2>1. "IDLE" \in Regs /\ "NONE" \in Svcs /\ <<>> \in Seq(Services) /\ <<>> \in Seq(Frame) /\ 0 \in 0 .. 3
    BY DEF Regs, Svcs
  <2> QED  BY <1>0, <1>2, <1>3, <1>5, <2>1 DEF Engine
<1>7. Legal(r) /\ Len(r.inq) < IncomingN
  <2>1. Len(<<>>) < DedicatedN /\ Len(<<>>) <= AckN /\ Len(<<>>) < IncomingN
    BY Rom6Assumption
  <2> QED  BY <1>2, <1>6, <2>1 DEF Legal
<1>8. ms \in Phone /\ ms.out = NoFrames /\ ms.una = u
  <2>1. "idle" \in Places /\ <<>> \in Seq(Controls) /\ {} \in SUBSET Services
    BY DEF Places
  <2> QED  BY <1>4, <1>5, <2>1 DEF Phone
<1>9. PhoneOk(ms)
  <2> SUFFICES ASSUME NEW s \in Sapis PROVE ms.out[s] \in Seq(Up(s)) /\ ms.una[s] \in Up(s) \cup {"NONE"}
    BY <1>8 DEF PhoneOk
  <2> DEFINE U == Up(s)
  <2>1. <<>> \in Seq(U)
    <3> HIDE DEF U
    <3> QED  OBVIOUS
  <2> QED  BY <1>8, <2>1 DEF NoFrames, u
<1>10. In(r.inq) = {}
  BY <1>6, InTuples
<1> QED  BY <1>5, <1>6, <1>7, <1>9, <1>10 DEF Typed, TypedNet, PagedIn

\* The types in full give TypeOK.
LEMMA TypedOk ==
    ASSUME Typed
    PROVE  TypeOK
<1>1. /\ Legal(r) /\ Len(r.inq) < IncomingN /\ In(r.inq) \subseteq offered /\ (~r.conf => ~r.rel)
  BY DEF Typed, TypedNet
<1>2. r \in Engine /\ r.inq \in Seq(Services) /\ Len(r.q) < DedicatedN /\ \A s \in Sapis : Len(r.link[s].acks) <= AckN
  BY <1>1, EngineFields DEF Legal
<1>3. Range(r.inq) \subseteq offered
  BY <1>1, <1>2, RangeIs
<1>4. r.page.bursts \in 0 .. Bursts /\ r.page.cycles \in 0 .. Cycles /\ r.call \in 0 .. 3
  BY <1>2, EngineFields DEF PageState
<1>5. ASSUME NEW s \in Sapis
      PROVE  /\ r.link[s].vs \in 0 .. Modulus - 1 /\ r.link[s].vr \in 0 .. Modulus - 1
             /\ Len(r.link[s].acks) <= AckN
             /\ \A e \in Range(r.link[s].acks) : e.kind \in Messages
  <2>1. r.link[s].vs \in Nums /\ r.link[s].vr \in Nums /\ r.link[s].acks \in Seq(Acks)
    BY <1>2, EngineFields
  <2>2. Range(r.link[s].acks) \subseteq Acks
    BY <2>1, RangeIs, InEmpty
  <2>3. \A e \in Acks : e.kind \in Messages
    BY DEF Acks
  <2> QED  BY <1>2, <2>1, <2>2, <2>3 DEF Nums
<1> QED  BY <1>1, <1>2, <1>3, <1>4, <1>5 DEF TypeOK

\* Queues and rings keep within their arrays.
THEOREM TypeCorrect == Spec => []TypeOK
<1>1. Init => Typed
  BY TypedInit
<1>2. Typed /\ [Next]_vars => Typed'
  BY TypedNext
<1>3. Typed => TypeOK
  BY TypedOk
<1> QED  BY <1>1, <1>2, <1>3, PTL DEF Spec

\* A registered phone is paged.
THEOREM PagedAlways == Spec => []Paged
<1>1. Init => Typed /\ PagedIn(r)
  BY TypedInit
<1>2. (Typed /\ PagedIn(r)) /\ [Next]_vars => (Typed /\ PagedIn(r))'
  BY TypedNext
<1>3. Typed /\ PagedIn(r) => Paged
  BY PagedIs
<1> QED  BY <1>1, <1>2, <1>3, PTL DEF Spec

-----------------------------------------------------------------------------
(* The links in step: the inductive invariant, of the engine's record n and *)
(* the phone's p.                                                           *)

Only(F, K) == \A f \in F : IsI(f, 0) => f.kind \in K
Sabm(C, s) == \E c \in C : c.t = "SABM" /\ c.sapi = s
Live(p) == p.at \in {"sabm", "on", "tune"}
Said(p) == In(p.out[0]) \cup {p.una[0]}
Ciphers == {"AWAIT_CIPHER_ACK", "AWAIT_CIPHER_COMPLETE"}

Down0 == {"LU_ACCEPT", "MM_INFO", "CHAN_REL", "CIPHER_COMMAND", "SEGMENT", "MT_CALL_SETUP",
          "CALL_PROCEEDING", "ALERTING", "CONNECT", "CONNECT_ACK", "RELEASE", "ASSIGNMENT_CMD"}
Down3 == {"SEGMENT", "CP_DATA", "CP_ACK", "RP_ACK"}
Kinds(F) == \A f \in F : (IsI(f, 0) => f.kind \in Down0) /\ (IsI(f, 3) => f.kind \in Down3)

\* Nothing is under way on the link for short messages: the phone's side, and both.
Still(p) == p.out[3] = <<>> /\ p.una[3] = "NONE" /\ \A c \in In(p.ctl) : c.sapi # 3
Blank(n, p) == Still(p) /\ NoI(In(n.q), 3) /\ NoOpen(In(n.q), 3)

\* Without a channel the phone hears of no link.
Dead(n, p) ==
    /\ \A f \in In(n.q) : f.t # "SABM"
    /\ ~Sabm(In(p.ctl), 0)
    /\ p.at \in {"idle", "rach"} => /\ p.ctl = <<>> /\ p.call = "no"
                                    /\ \A s \in Sapis : p.out[s] = <<>> /\ p.una[s] = "NONE"
    /\ p.at = "rach" => p.why \in Reasons

\* The channel is the phone's, with a service of its own reason.
Held(n, p) ==
    /\ n.conf /\ ~n.rel /\ (\A c \in In(p.ctl) : c.t # "DISC") /\ OneSabm(p.ctl)
    /\ p.why \in Reasons /\ n.svc \in Of[p.why]
    /\ Kinds(In(n.q)) /\ Order(n.q)

\* The numbers and acknowledges of the frames that wait.  The main link is opened by
\* the phone: with its SABM still to come, or with the answer on its way.
From3(n, p) == IF NoOpen(In(n.q), 3) THEN p.vr[3] ELSE 0
Opening0(n, p) ==
    \/ p.ctl = <<>> /\ ~NoOpen(In(n.q), 0) /\ Tracks(n, 0, 0, 0)
    \/ \E msg \in {p.why, "ASSIGNMENT_COMPLETE"} :
         /\ p.ctl = <<Sabm0(msg)>> /\ NoI(In(n.q), 0) /\ NoOpen(In(n.q), 0)
         /\ n.reg = IF msg = "ASSIGNMENT_COMPLETE" THEN "MM_ACTIVE" ELSE "IDLE"
Sync(n, p) ==
    /\ Tracks(n, 3, From3(n, p), 0)
    /\ p.at = "on" => Tracks(n, 0, p.vr[0], 0) /\ NoOpen(In(n.q), 0) /\ ~Sabm(In(p.ctl), 0)
    /\ p.at = "tune" => /\ NoI(In(n.q), 0) /\ NoOpen(In(n.q), 0)
                        /\ \A c \in In(p.ctl) : c.t = "RR" /\ c.sapi = 0
    /\ p.at = "sabm" => p.una[0] = "NONE" /\ Opening0(n, p)

\* When the link for short messages cannot be in use yet.
Unused3(n, p) ==
    \/ p.at \in {"sabm", "tune"} \/ n.reg = "IDLE"
    \/ p.why = "PAGING_RESPONSE" /\ n.reg \in Ciphers
    \/ p.why \notin {"CM_SMS", "PAGING_RESPONSE"}
    \/ p.why = "CM_SMS" /\ (Has(In(n.q), "CIPHER_COMMAND") \/ p.out[0] # <<>> \/ p.una[0] # "NONE")
Asked3(n, p) ==
    /\ p.out[3] = <<>> /\ p.una[3] = "NONE" /\ \A c \in In(p.ctl) : c.sapi = 3 => c.t = "SABM"
    /\ NoI(In(n.q), 3) /\ NoOpen(In(n.q), 3)
Link3(n, p) ==
    /\ ~NoOpen(In(n.q), 3) => Still(p)
    /\ Sabm(In(p.ctl), 3) => Asked3(n, p)
    /\ Unused3(n, p) => Blank(n, p)

\* What is under way when the phone sends a short message, until the cipher is
\* set, and around the assignment of a traffic channel.
Sms(n, p) == p.why = "CM_SMS" =>
    /\ Only(In(n.q), {"CIPHER_COMMAND", "MM_INFO", "CHAN_REL"})
    /\ p.out[0] \in {<<>>, <<"CIPHER_COMPLETE">>} /\ p.una[0] \in {"NONE", "CIPHER_COMPLETE"}
    /\ p.out[0] = <<>> \/ p.una[0] = "NONE"
    /\ p.call = "no"

Cipher(n, p) ==
    /\ n.reg \in Ciphers => /\ Only(In(n.q), {"CIPHER_COMMAND"}) /\ p.call = "no"
                            /\ Said(p) \subseteq PreMsg \cup {"EMERGENCY_SETUP"}
                            /\ p.why = "CM_CALL" => Said(p) \subseteq PreMsg
    /\ Has(In(n.q), "CIPHER_COMMAND") => n.reg \in Ciphers /\ p.out[0] = <<>> /\ p.una[0] = "NONE"

Early(n) == n.reg = "MM_ACTIVE" /\ n.svc = "MO_CALL" /\ ~(n.call # 0 /\ n.setup)
InCall(n) == n.reg = "MM_ACTIVE" /\ n.svc = "MO_CALL" /\ n.call # 0 /\ n.setup
Listens(p) == p.at = "on" /\ Said(p) \subseteq PreMsg /\ p.call = "no"
Moves(p) == p.at = "tune" \/ \E c \in In(p.ctl) : c.t = "SABM" /\ c.msg = "ASSIGNMENT_COMPLETE"
Call(n, p) ==
    /\ Early(n) => Listens(p) /\ Only(In(n.q), {"MM_INFO"})
    /\ Has(In(n.q), "ASSIGNMENT_CMD")
         => Listens(p) /\ InCall(n) /\ Only(In(n.q), {"MM_INFO", "CALL_PROCEEDING", "ASSIGNMENT_CMD"})
    /\ Moves(p) => InCall(n) /\ p.call = "no"

Unasked(n, p) == n.reg = "IDLE" =>
    NoI(In(n.q), 0) /\ p.call = "no" /\ \A s \in Sapis : p.out[s] = <<>> /\ p.una[s] = "NONE"

Alive(n, p) ==
    Held(n, p) /\ Sync(n, p) /\ Link3(n, p) /\ Sms(n, p) /\ Cipher(n, p) /\ Call(n, p) /\ Unasked(n, p)
SabmMsg(p) == \A c \in In(p.ctl) : c.t = "SABM" /\ c.sapi = 3 => c.msg = "NONE"
Linked(n, p) == SabmMsg(p) /\ (Live(p) => Alive(n, p)) /\ (~Live(p) => Dead(n, p))

-----------------------------------------------------------------------------
\* What holds of the frames that wait and of those that come holds of both.
LEMMA Parts ==
    ASSUME NEW F, NEW S, NEW G, G \subseteq F \cup S
    PROVE  /\ \A s : NoI(F, s) /\ NoI(S, s) => NoI(G, s)
           /\ \A s : NoOpen(F, s) /\ NoOpen(S, s) => NoOpen(G, s)
           /\ \A K : Only(F, K) /\ Only(S, K) => Only(G, K)
           /\ \A k : Has(G, k) => Has(F, k) \/ Has(S, k)
           /\ Kinds(F) /\ Kinds(S) => Kinds(G)
  BY DEF NoI, NoOpen, Only, Has, Kinds

\* What holds of a set of frames holds of its subsets.
LEMMA Subsets ==
    ASSUME NEW F, NEW G, F \subseteq G
    PROVE  /\ \A s : NoI(G, s) => NoI(F, s)
           /\ \A s : NoOpen(G, s) => NoOpen(F, s)
           /\ \A K : Only(G, K) => Only(F, K)
           /\ \A k : Has(F, k) => Has(G, k)
           /\ Kinds(G) => Kinds(F)
           /\ \A s : Sabm(F, s) => Sabm(G, s)
  BY DEF NoI, NoOpen, Only, Has, Kinds, Sabm

\* Without information on the main link there is none of any kind.
LEMMA NoI0 ==
    ASSUME NEW F, NoI(F, 0)
    PROVE  (\A K : Only(F, K)) /\ (\A k : ~Has(F, k))
  BY DEF NoI, Only, Has

\* The reason tells the service.
LEMMA SvcWhy ==
    ASSUME NEW why \in Reasons, NEW svc \in Of[why]
    PROVE  /\ svc = "MO_CALL" => why = "CM_CALL"
           /\ svc = "EMERGENCY" => why = "CM_EMERGENCY"
           /\ svc = "SMS" => why = "CM_SMS"
           /\ svc \in {"MT_CALL", "MT_SMS"} => why = "PAGING_RESPONSE"
           /\ "NONE" \in Of[why]
<1>1. DOMAIN CmService = {"CM_CALL", "CM_EMERGENCY", "CM_SMS"}
  BY DEF CmService
<1>2. why \in {"PAGING_RESPONSE", "LU_REQUEST", "CM_CALL", "CM_EMERGENCY", "CM_SMS"}
  BY <1>1 DEF Reasons
<1> QED  BY <1>2 DEF Of

\* What the network may add while the phone does nothing.
Fits(n, m, p, S) ==
    /\ In(n.q) \subseteq In(m.q) /\ In(m.q) \subseteq In(n.q) \cup S
    /\ Legal(m) /\ m.conf = n.conf /\ m.rel = n.rel
    /\ Kinds(S) /\ NoOpen(S, 0) /\ Order(m.q) /\ Tracks(m, 3, From3(m, p), 0)
    /\ p.at = "on" => Tracks(m, 0, p.vr[0], 0)
    /\ p.at = "tune" => NoI(S, 0)
    /\ m.svc \in {n.svc, "NONE"}
    /\ m.reg = "IDLE" => n.reg = "IDLE" /\ NoI(S, 0)
    /\ m.reg \in Ciphers => n.reg \in Ciphers /\ NoI(S, 0)
    /\ ~Has(S, "CIPHER_COMMAND") /\ (Has(In(n.q), "CIPHER_COMMAND") => m.reg \in Ciphers)
    /\ ~NoOpen(S, 3) => Still(p) /\ ~Sabm(In(p.ctl), 3) /\ ~Unused3(m, p)
    /\ ~NoI(S, 3) => ~Sabm(In(p.ctl), 3) /\ ~Unused3(m, p)
    /\ p.why = "CM_SMS" => Only(S, {"MM_INFO", "CHAN_REL"})

\* What the network adds, if it fits, leaves the phone in step.
LEMMA FitsAlive ==
    ASSUME NEW n, NEW m, NEW p, NEW S, Alive(n, p), p.at # "sabm", Fits(n, m, p, S), Call(m, p)
    PROVE  Alive(m, p)
<1> DEFINE F == In(n.q)
           G == In(m.q)
           C == In(p.ctl)
<1>1. F \subseteq G /\ G \subseteq F \cup S
  BY DEF Fits
<1>2. /\ \A s : NoI(F, s) /\ NoI(S, s) => NoI(G, s)
      /\ \A s : NoOpen(F, s) /\ NoOpen(S, s) => NoOpen(G, s)
      /\ \A K : Only(F, K) /\ Only(S, K) => Only(G, K)
      /\ \A k : Has(G, k) => Has(F, k) \/ Has(S, k)
      /\ Kinds(F) /\ Kinds(S) => Kinds(G)
  BY <1>1, Parts
<1>3. NoI(S, 0) => \A K : Only(S, K)
  BY NoI0
<1>4. Held(m, p)
  <2>1. "NONE" \in Of[p.why]
    BY SvcWhy DEF Alive, Held
  <2> QED  BY <1>2, <2>1 DEF Alive, Held, Fits
<1>5. Sync(m, p)
  BY <1>2 DEF Alive, Sync, Fits
<1>6. Unused3(m, p) => Unused3(n, p)
  BY <1>2 DEF Unused3, Fits
<1>7. Link3(m, p)
  BY <1>2, <1>6 DEF Alive, Link3, Asked3, Blank, Fits
<1>8. Sms(m, p)
  <2>1. Only(S, {"MM_INFO", "CHAN_REL"}) => Only(S, {"CIPHER_COMMAND", "MM_INFO", "CHAN_REL"})
    BY DEF Only
  <2> QED  BY <1>2, <2>1 DEF Alive, Sms, Fits
<1>9. Cipher(m, p)
  BY <1>2, <1>3 DEF Alive, Cipher, Fits
<1>10. Unasked(m, p)
  BY <1>2 DEF Alive, Unasked, Fits
<1> QED  BY <1>4, <1>5, <1>7, <1>8, <1>9, <1>10 DEF Alive

\* The phone owes less, or nothing of its links changes.
LEMMA LessAlive ==
    ASSUME NEW n, NEW p, NEW q, Alive(n, p), SamePart(p, q), q.vr = p.vr, q.una = p.una, q.out = p.out,
           q.ctl = p.ctl \/ (p.at # "sabm" /\ In(q.ctl) \subseteq In(p.ctl) /\ OneSabm(q.ctl))
    PROVE  Alive(n, q)
<1>1. /\ q.at = p.at /\ q.why = p.why /\ q.call = p.call /\ Said(q) = Said(p)
      /\ In(q.ctl) \subseteq In(p.ctl) /\ OneSabm(q.ctl)
      /\ \A s : Sabm(In(q.ctl), s) => Sabm(In(p.ctl), s)
  BY Subsets DEF SamePart, Said, Alive, Held
<1>2. Held(n, q)
  BY <1>1 DEF Alive, Held
<1>3. Sync(n, q)
  <2>1. From3(n, q) = From3(n, p)
    BY DEF From3
  <2>2. p.at = "sabm" => (Opening0(n, q) <=> Opening0(n, p))
    BY <1>1 DEF Opening0
  <2> QED  BY <1>1, <2>1, <2>2 DEF Alive, Sync
<1>4. Link3(n, q)
  <2>1. Unused3(n, q) <=> Unused3(n, p)
    BY <1>1 DEF Unused3
  <2>2. Still(p) => Still(q)
    BY <1>1 DEF Still
  <2>3. Asked3(n, p) => Asked3(n, q)
    BY <1>1 DEF Asked3
  <2>4. Blank(n, p) => Blank(n, q)
    BY <2>2 DEF Blank
  <2> QED  BY <1>1, <2>1, <2>2, <2>3, <2>4 DEF Alive, Link3
<1>5. Sms(n, q)
  BY <1>1 DEF Alive, Sms
<1>6. Cipher(n, q)
  BY <1>1 DEF Alive, Cipher
<1>7. Call(n, q)
  <2>1. Listens(q) <=> Listens(p)
    BY <1>1 DEF Listens
  <2>2. Moves(q) => Moves(p)
    BY <1>1 DEF Moves
  <2> QED  BY <1>1, <2>1, <2>2 DEF Alive, Call
<1>8. Unasked(n, q)
  BY <1>1 DEF Alive, Unasked
<1> QED  BY <1>2, <1>3, <1>4, <1>5, <1>6, <1>7, <1>8 DEF Alive

\* A message goes out.
LEMMA PostAlive ==
    ASSUME NEW n, NEW p, PhoneOk(p), NEW q, Alive(n, p), p.at = "on", NEW s \in Sapis, Posted(p, q, s),
           p.out[s] # <<>>, p.una[s] = "NONE"
    PROVE  Alive(n, q) /\ n.reg # "IDLE"
<1>1. 0 \in Sapis /\ 3 \in Sapis /\ (s = 0 \/ s = 3)
  BY UpSets
<1>2. /\ q.at = p.at /\ q.why = p.why /\ q.call = p.call /\ q.ctl = p.ctl /\ q.vr = p.vr
      /\ s = 0 => q.out[3] = p.out[3] /\ q.una[3] = p.una[3]
      /\ s = 3 => q.out[0] = p.out[0] /\ q.una[0] = p.una[0]
      /\ q.out[s] = Tail(p.out[s]) /\ q.una[s] = Head(p.out[s])
  BY <1>1 DEF Posted, SamePart
<1>3. Said(q) \subseteq Said(p)
  <2>1. CASE s = 3
    BY <1>2, <2>1 DEF Said
  <2>2. CASE s = 0
    <3>1. p.out[0] \in Seq(Up(0))
      BY <1>1, PhoneFields
    <3>2. In(p.out[0]) = In(Tail(p.out[0])) \cup {Head(p.out[0])}
      BY <2>2, <3>1, InTail
    <3> QED  BY <1>2, <2>2, <3>2 DEF Said
  <2> QED  BY <1>1, <2>1, <2>2
<1>4. n.reg # "IDLE"
  BY DEF Alive, Unasked
<1>5. Held(n, q)
  BY <1>2 DEF Alive, Held
<1>6. Sync(n, q)
  <2>1. From3(n, q) = From3(n, p)
    BY <1>2 DEF From3
  <2> QED  BY <1>2, <2>1 DEF Alive, Sync
<1>7. s = 3 => ~Still(p) /\ ~Blank(n, p) /\ ~Asked3(n, p)
  BY DEF Still, Blank, Asked3
<1>8. s = 0 => (Still(p) => Still(q)) /\ (Blank(n, p) => Blank(n, q)) /\ (Asked3(n, p) => Asked3(n, q))
  BY <1>2 DEF Still, Blank, Asked3
<1>9. Unused3(n, q) => Unused3(n, p)
  BY <1>1, <1>2 DEF Unused3
<1>10. Link3(n, q)
  BY <1>1, <1>2, <1>7, <1>8, <1>9 DEF Alive, Link3
<1>11. Sms(n, q)
  <2>1. CASE s = 3
    BY <1>2, <2>1 DEF Alive, Sms
  <2>2. CASE s = 0 /\ p.why = "CM_SMS"
    <3>1. p.out[0] = <<"CIPHER_COMPLETE">>
      BY <2>2 DEF Alive, Sms
    <3>2. q.out[0] = <<>> /\ q.una[0] = "CIPHER_COMPLETE"
      BY <1>2, <2>2, <3>1
    <3> QED  BY <1>2, <3>2 DEF Alive, Sms
  <2>3. CASE p.why # "CM_SMS"
    BY <1>2, <2>3 DEF Sms
  <2> QED  BY <1>1, <2>1, <2>2, <2>3
<1>12. Cipher(n, q)
  <2>1. Has(In(n.q), "CIPHER_COMMAND") => s = 3
    BY <1>1 DEF Alive, Cipher
  <2> QED  BY <1>2, <1>3, <2>1 DEF Alive, Cipher
<1>13. Call(n, q)
  <2>1. Listens(p) => Listens(q)
    BY <1>2, <1>3 DEF Listens
  <2>2. Moves(q) <=> Moves(p)
    BY <1>2 DEF Moves
  <2> QED  BY <1>2, <2>1, <2>2 DEF Alive, Call
<1>14. Unasked(n, q)
  BY <1>4 DEF Unasked
<1> QED  BY <1>4, <1>5, <1>6, <1>10, <1>11, <1>12, <1>13, <1>14 DEF Alive

\* A call is on: the phone's messages and its part in the call do not matter to the links.
LEMMA BusyAlive ==
    ASSUME NEW n, NEW p, NEW q, Alive(n, p), p.at = "on",
           n.reg # "IDLE", n.reg \notin Ciphers, ~Has(In(n.q), "CIPHER_COMMAND"), p.why # "CM_SMS",
           ~Early(n), ~Has(In(n.q), "ASSIGNMENT_CMD"), ~Moves(p),
           q.at = p.at, q.why = p.why, SameLinks(p, q), q.ctl = p.ctl, q.out[3] = p.out[3]
    PROVE  Alive(n, q)
<1>2. Held(n, q)
  BY DEF Alive, Held
<1>3. Sync(n, q)
  <2>1. From3(n, q) = From3(n, p)
    BY DEF From3, SameLinks
  <2> QED  BY <2>1 DEF Alive, Sync, SameLinks
<1>4. Link3(n, q)
  <2>1. (Still(p) => Still(q)) /\ (Asked3(n, p) => Asked3(n, q))
    BY DEF Still, Asked3, SameLinks
  <2>2. Blank(n, p) => Blank(n, q)
    BY <2>1 DEF Blank
  <2>3. Unused3(n, q) => Unused3(n, p)
    BY DEF Unused3
  <2> QED  BY <2>1, <2>2, <2>3 DEF Alive, Link3
<1>5. Sms(n, q) /\ Cipher(n, q) /\ Unasked(n, q)
  BY DEF Sms, Cipher, Unasked
<1>6. Call(n, q)
  <2>1. ~Moves(q)
    BY DEF Moves
  <2> QED  BY <2>1 DEF Call
<1> QED  BY <1>2, <1>3, <1>4, <1>5, <1>6 DEF Alive

\* The user answers or hangs up.
LEMMA CallAlive ==
    ASSUME NEW n, NEW p, NEW q, Alive(n, p), p.at = "on", p.call # "no",
           q.at = p.at, q.why = p.why, SameLinks(p, q), q.ctl = p.ctl, q.out[3] = p.out[3]
    PROVE  Alive(n, q)
<1>1. /\ n.reg # "IDLE" /\ n.reg \notin Ciphers /\ ~Has(In(n.q), "CIPHER_COMMAND") /\ p.why # "CM_SMS"
      /\ ~Early(n) /\ ~Has(In(n.q), "ASSIGNMENT_CMD") /\ ~Moves(p)
  <2>1. n.reg # "IDLE" /\ n.reg \notin Ciphers /\ p.why # "CM_SMS"
    BY DEF Alive, Unasked, Cipher, Sms
  <2>2. ~Has(In(n.q), "CIPHER_COMMAND")
    BY <2>1 DEF Alive, Cipher
  <2>3. ~Early(n) /\ ~Has(In(n.q), "ASSIGNMENT_CMD") /\ ~Moves(p)
    BY DEF Alive, Call, Listens
  <2> QED  BY <2>1, <2>2, <2>3
<1> QED  BY <1>1, BusyAlive

\* What an acknowledge leaves as it is.
LEMMA MovedIs ==
    ASSUME NEW n, NEW m, Moved(n, m)
    PROVE  /\ m.reg = "IDLE" <=> n.reg = "IDLE"
           /\ m.reg = "MM_ACTIVE" <=> n.reg = "MM_ACTIVE"
           /\ m.reg \in Ciphers <=> n.reg \in Ciphers
           /\ m.svc \in {n.svc, "NONE"} /\ (n.reg = "MM_ACTIVE" => m.svc = n.svc)
           /\ n.reg = "AWAIT_LU_ACK" /\ m.reg # n.reg => m.reg \in {"AWAIT_REL_ACK", "RELEASED"}
  BY DEF Moved, AckMoves, Ciphers

\* Frames that open nothing and are no information that matters here.
LEMMA RelSets ==
    /\ \A S \in {{}, Rr, {} \cup RelFrames, Rr \cup RelFrames} :
         /\ Kinds(S) /\ NoOpen(S, 0) /\ NoOpen(S, 3) /\ NoI(S, 3) /\ Clear(S)
         /\ ~Has(S, "CIPHER_COMMAND") /\ Only(S, {"MM_INFO", "CHAN_REL"})
    /\ \A S \in {{}, Rr} : NoI(S, 0) /\ \A K : Only(S, K)
<1>1. \A f \in Rr : f.t = "RR"
  BY DEF Rr
<1>2. \A f \in RelFrames : f.t = "I" /\ f.sapi = 0 /\ f.kind \in {"MM_INFO", "CHAN_REL"}
  BY DEF RelFrames, I, IFrame
<1>3. ASSUME NEW S \in {{}, Rr, {} \cup RelFrames, Rr \cup RelFrames}
      PROVE  /\ Kinds(S) /\ NoOpen(S, 0) /\ NoOpen(S, 3) /\ NoI(S, 3) /\ Clear(S)
             /\ ~Has(S, "CIPHER_COMMAND") /\ Only(S, {"MM_INFO", "CHAN_REL"})
  <2>1. \A f \in S : f.t = "RR" \/ (f.t = "I" /\ f.sapi = 0 /\ f.kind \in {"MM_INFO", "CHAN_REL"})
    BY <1>1, <1>2
  <2> QED  BY <2>1 DEF Kinds, NoOpen, NoI, Clear, Has, Only, IsI, Opens, Down0
<1>4. \A S \in {{}, Rr} : NoI(S, 0) /\ \A K : Only(S, K)
  BY <1>1 DEF NoI, Only, IsI
<1> QED  BY <1>3, <1>4

\* Acknowledges are handled, for a phone that expects p.vr[s] next.
LEMMA SeenAlive ==
    ASSUME NEW n, NEW p, Alive(n, p), p.at \in {"on", "tune"}, NEW s \in Sapis, NEW m, Legal(m),
           Chan(n, m), Moved(n, m), NEW R \in {{}, Rr}, NEW c, Seen(n, m, s, p.vr[s], R, c), PhoneOk(p),
           Tells(n, s), s = 3 => NoOpen(In(n.q), 3)
    PROVE  Alive(m, p)
<1> DEFINE F == In(n.q)
           G == In(m.q)
           lu == n.reg = "AWAIT_LU_ACK" /\ m.reg # "AWAIT_LU_ACK"
<1>1. PICK S \in {R, R \cup RelFrames} : Adds(n, m, S) /\ (S = R \/ lu)
  BY DEF Seen
<1>2. /\ Kinds(S) /\ NoOpen(S, 0) /\ NoOpen(S, 3) /\ NoI(S, 3) /\ Clear(S)
      /\ ~Has(S, "CIPHER_COMMAND") /\ Only(S, {"MM_INFO", "CHAN_REL"})
      /\ ~lu => NoI(S, 0) /\ \A K : Only(S, K)
  BY <1>1, RelSets
<1>3. /\ m.reg = "IDLE" <=> n.reg = "IDLE"
      /\ m.reg = "MM_ACTIVE" <=> n.reg = "MM_ACTIVE"
      /\ m.reg \in Ciphers <=> n.reg \in Ciphers
      /\ m.svc \in {n.svc, "NONE"} /\ (n.reg = "MM_ACTIVE" => m.svc = n.svc)
  BY MovedIs
<1>4. F \subseteq G /\ G \subseteq F \cup S
  BY <1>1 DEF Adds
<1>5. Order(m.q)
  <2>1. Clear(F) \/ n.reg # "AWAIT_LU_ACK"
    BY DEF Alive, Call, InCall, Clear
  <2> QED  BY <2>1 DEF Seen, Alive, Held
<1>6. From3(m, p) = From3(n, p)
  <2>1. NoOpen(G, 3) <=> NoOpen(F, 3)
    BY <1>2, <1>4 DEF NoOpen
  <2> QED  BY <2>1 DEF From3
<1>7. 0 \in Sapis /\ 3 \in Sapis /\ p.vr[0] \in Nums /\ p.vr[3] \in Nums /\ 0 \in Nums
  <2>1. 0 \in Nums
    BY Rom6Assumption DEF Nums
  <2> QED  BY <2>1, UpSets, PhoneFields
<1>8. Tracks(m, 3, From3(m, p), 0)
  <2>1. Tracks(n, 3, From3(n, p), 0) /\ From3(n, p) \in Nums /\ (s = 3 => From3(n, p) = p.vr[s])
    BY <1>7 DEF Alive, Sync, From3
  <2> QED  BY <1>6, <1>7, <2>1 DEF Seen
<1>9. p.at = "on" => Tracks(m, 0, p.vr[0], 0)
  <2>1. p.at = "on" => Tracks(n, 0, p.vr[0], 0)
    BY DEF Alive, Sync
  <2> QED  BY <1>7, <2>1 DEF Seen
<1>10. p.at = "tune" => NoI(S, 0)
  <2>1. p.at = "tune" => n.reg = "MM_ACTIVE"
    BY DEF Alive, Call, Moves, InCall
  <2> QED  BY <1>2, <2>1
<1>11. n.reg = "IDLE" \/ n.reg \in Ciphers \/ n.reg = "MM_ACTIVE" => ~lu
  BY DEF Ciphers
<1>12. Has(F, "CIPHER_COMMAND") => m.reg \in Ciphers
  BY <1>3 DEF Alive, Cipher
<1>13. Fits(n, m, p, S)
  <2>1. m.conf = n.conf /\ m.rel = n.rel
    BY DEF Chan
  <2> QED  BY <1>2, <1>3, <1>4, <1>5, <1>8, <1>9, <1>10, <1>11, <1>12, <2>1 DEF Fits
<1>14. Call(m, p)
  <2>1. (Early(m) => Early(n)) /\ (InCall(n) => InCall(m))
    BY <1>3 DEF Early, InCall, Moved
  <2>2. Early(n) => ~lu /\ Only(F, {"MM_INFO"})
    BY <1>11 DEF Early, Alive, Call
  <2>3. \A K : Only(F, K) /\ Only(S, K) => Only(G, K)
    BY <1>4, Parts
  <2>4. Has(G, "ASSIGNMENT_CMD") => Has(F, "ASSIGNMENT_CMD")
    BY <1>2, <1>4 DEF Has, Clear
  <2>5. Has(F, "ASSIGNMENT_CMD") => ~lu
    BY <1>11 DEF Alive, Call, InCall
  <2> QED  BY <1>2, <2>1, <2>2, <2>3, <2>4, <2>5 DEF Alive, Call
<1> QED  BY <1>13, <1>14, FitsAlive

\* A step of the engine alone, while nothing is assigned.
LEMMA StepFits ==
    ASSUME NEW n, NEW p, Alive(n, p), p.at = "on", PhoneOk(p), NEW m, NEW S, NEW c, Step(n, m, S, c),
           Clear(In(n.q)), Kinds(S), NoOpen(S, 0), NoOpen(S, 3), ~Has(S, "CIPHER_COMMAND"),
           m.svc = n.svc, m.reg \notin Ciphers \cup {"IDLE"}, ~Has(In(n.q), "CIPHER_COMMAND"),
           NoI(S, 3) \/ (~Sabm(In(p.ctl), 3) /\ ~Unused3(m, p)),
           p.why = "CM_SMS" => Only(S, {"MM_INFO", "CHAN_REL"})
    PROVE  Fits(n, m, p, S)
<1> DEFINE F == In(n.q)
           G == In(m.q)
<1>1. F \subseteq G /\ G \subseteq F \cup S
  BY DEF Step, Adds
<1>2. From3(m, p) = From3(n, p)
  <2>1. NoOpen(G, 3) <=> NoOpen(F, 3)
    BY <1>1 DEF NoOpen
  <2> QED  BY <2>1 DEF From3
<1>3. 0 \in Sapis /\ 3 \in Sapis /\ p.vr[0] \in Nums /\ From3(n, p) \in Nums /\ 0 \in Nat
  <2>1. 0 \in Nums
    BY Rom6Assumption DEF Nums
  <2> QED  BY <2>1, UpSets, PhoneFields DEF From3
<1>4. Tracks(m, 3, From3(m, p), 0) /\ Tracks(m, 0, p.vr[0], 0)
  <2>1. Tracks(n, 3, From3(n, p), 0) /\ Tracks(n, 0, p.vr[0], 0)
    BY DEF Alive, Sync
  <2> QED  BY <1>2, <1>3, <2>1 DEF Step, Keeps
<1>5. Order(m.q)
  BY DEF Alive, Held, Step
<1>6. m.conf = n.conf /\ m.rel = n.rel /\ Legal(m)
  BY DEF Step, Chan
<1> QED  BY <1>1, <1>4, <1>5, <1>6 DEF Fits

\* What is said on the link for short messages is said in no call.
LEMMA NoCall3 ==
    ASSUME NEW n, NEW p, Alive(n, p), p.una[3] # "NONE"
    PROVE  n.svc # "MO_CALL" /\ ~Sabm(In(p.ctl), 3) /\ ~Unused3(n, p)
<1>1. ~Still(p) /\ ~Asked3(n, p)
  BY DEF Still, Asked3
<1>2. ~Sabm(In(p.ctl), 3) /\ ~Unused3(n, p)
  BY <1>1 DEF Alive, Link3, Blank
<1>3. n.svc # "MO_CALL"
  <2>1. n.svc = "MO_CALL" => p.why = "CM_CALL"
    BY SvcWhy DEF Alive, Held
  <2> QED  BY <1>2, <2>1 DEF Unused3
<1> QED  BY <1>2, <1>3

\* A change of the transaction's fields leaves the phone in step.
LEMMA SameAlive ==
    ASSUME NEW n, Legal(n), NEW p, Alive(n, p), p.at # "sabm", NEW m, Legal(m), Chan(n, m), Same(n, m)
    PROVE  Alive(m, p)
<1>1. m.q = n.q /\ m.link = n.link /\ m.reg = n.reg /\ m.svc = n.svc
  BY DEF Same, SetOf, SameTransaction
<1>2. Fits(n, m, p, {})
  <2>1. \A s, from, d : Tracks(n, s, from, d) => Tracks(m, s, from, d)
    BY <1>1 DEF Tracks
  <2>2. From3(m, p) = From3(n, p)
    BY <1>1 DEF From3
  <2>3. Kinds({}) /\ NoOpen({}, 0) /\ NoI({}, 0) /\ NoOpen({}, 3) /\ NoI({}, 3) /\ ~Has({}, "CIPHER_COMMAND")
        /\ \A K : Only({}, K)
    BY DEF Kinds, NoOpen, NoI, Has, Only
  <2>4. m.conf = n.conf /\ m.rel = n.rel
    BY DEF Chan
  <2>5. Has(In(n.q), "CIPHER_COMMAND") => m.reg \in Ciphers
    BY <1>1 DEF Alive, Cipher
  <2> QED  BY <1>1, <2>1, <2>2, <2>3, <2>4, <2>5 DEF Fits, Alive, Held, Sync
<1>3. Call(m, p)
  <2>1. (Early(m) => Early(n)) /\ (InCall(n) => InCall(m))
    BY DEF Early, InCall, Same, SameTransaction
  <2> QED  BY <1>1, <2>1 DEF Alive, Call
<1> QED  BY <1>2, <1>3, FitsAlive

\* The connection opens.
LEMMA CipherAlive ==
    ASSUME NEW n, Legal(n), NEW p, PhoneOk(p), Alive(n, p), SabmMsg(p), p.at = "on",
           p.una[0] = "CIPHER_COMPLETE", n.reg = "AWAIT_CIPHER_COMPLETE",
           NEW m, Legal(m), Chan(n, m), CipherDone(n, m)
    PROVE  Alive(m, p)
<1> DEFINE F == In(n.q)
           G == In(m.q)
<1>1. n.reg \in Ciphers /\ m.reg = "MM_ACTIVE" /\ m.reg \notin Ciphers \cup {"IDLE"} /\ m.svc = n.svc
  BY DEF Ciphers, CipherDone
<1>2. /\ ~Has(F, "CIPHER_COMMAND") /\ Only(F, {"CIPHER_COMMAND"}) /\ p.call = "no"
      /\ p.why = "CM_CALL" => Said(p) \subseteq PreMsg
  BY <1>1 DEF Alive, Cipher
<1>3. NoI(F, 0) /\ Clear(F)
  BY <1>2 DEF Has, Only, NoI, Clear
<1>4. ~Moves(p)
  BY DEF Alive, Call, InCall
<1>5. p.why \in Reasons /\ n.svc \in Of[p.why]
  BY DEF Alive, Held
<1>6. \A K \in SUBSET {"MM_INFO", "SEGMENT", "MT_CALL_SETUP"} :
         /\ Kinds(I(0, K)) /\ NoOpen(I(0, K), 0) /\ NoOpen(I(0, K), 3) /\ NoI(I(0, K), 3)
         /\ ~Has(I(0, K), "CIPHER_COMMAND") /\ ~Has(I(0, K), "ASSIGNMENT_CMD")
  <2> SUFFICES ASSUME NEW K \in SUBSET {"MM_INFO", "SEGMENT", "MT_CALL_SETUP"}
               PROVE  /\ Kinds(I(0, K)) /\ NoOpen(I(0, K), 0) /\ NoOpen(I(0, K), 3) /\ NoI(I(0, K), 3)
                      /\ ~Has(I(0, K), "CIPHER_COMMAND") /\ ~Has(I(0, K), "ASSIGNMENT_CMD")
    OBVIOUS
  <2>1. \A f \in I(0, K) : f.t = "I" /\ f.sapi = 0 /\ f.kind \in {"MM_INFO", "SEGMENT", "MT_CALL_SETUP"}
    BY DEF I, IFrame
  <2> QED  BY <2>1 DEF Kinds, NoOpen, NoI, Has, IsI, Opens, Down0
<1>7. Only(I(0, {"MM_INFO"}), {"MM_INFO", "CHAN_REL"}) /\ Only(I(0, {"MM_INFO"}), {"MM_INFO"})
  BY DEF Only, I
<1>8. CASE n.svc = "MT_CALL" /\ Step(n, m, I(0, {"MM_INFO", "SEGMENT", "MT_CALL_SETUP"}), 3)
  <2> DEFINE S == I(0, {"MM_INFO", "SEGMENT", "MT_CALL_SETUP"})
  <2>1. p.why # "CM_SMS"
    BY <1>5, <1>8, SvcWhy
  <2>2. Fits(n, m, p, S)
    BY <1>1, <1>2, <1>3, <1>6, <1>8, <2>1, StepFits
  <2>3. ~Has(G, "ASSIGNMENT_CMD")
    BY <1>3, <1>6, <1>8 DEF Step, Adds, Has, Clear
  <2>4. Call(m, p)
    BY <1>1, <1>4, <1>8, <2>3 DEF Call, Early
  <2> QED  BY <2>2, <2>4, FitsAlive
<1>9. CASE /\ n.svc = "MT_SMS"
           /\ \E k : Step(n, k, I(0, {"MM_INFO"}), 1) /\ Opened(k, m, 3, [t |-> "SABM", sapi |-> 3])
  <2> DEFINE f == [t |-> "SABM", sapi |-> 3]
  <2>1. PICK k : Step(n, k, I(0, {"MM_INFO"}), 1) /\ Opened(k, m, 3, f)
    BY <1>9
  <2> DEFINE H == In(k.q)
             S == I(0, {"MM_INFO"}) \cup {f}
  <2>2. p.why = "PAGING_RESPONSE"
    BY <1>5, <1>9, SvcWhy
  <2>3. Still(p) /\ NoI(F, 3) /\ NoOpen(F, 3)
    BY <1>1, <2>2 DEF Alive, Link3, Unused3, Blank
  <2>4. F \subseteq H /\ H \subseteq F \cup I(0, {"MM_INFO"}) /\ G = H \cup {f}
    BY <2>1 DEF Step, Adds, Opened
  <2>5. NoI(H, 3) /\ NoOpen(H, 3)
    BY <1>6, <2>3, <2>4 DEF NoI, NoOpen
  <2>6. \A g \in H : Ok(g, f)
    <3>1. \A g \in H : ~(IsI(g, 0) /\ g.kind = "CHAN_REL")
      BY <1>3, <2>4 DEF NoI, I
    <3>2. f.t = "SABM" /\ f.sapi = 3 /\ ~IsI(f, 0) /\ \A o : Opens(f, o) => o = 3
      BY DEF IsI, Opens
    <3> QED  BY <2>5, <3>1, <3>2 DEF Ok, NoI, NoOpen
  <2>7. Order(m.q)
    <3>1. Order(k.q)
      BY <1>3, <2>1 DEF Step, Alive, Held
    <3> QED  BY <2>1, <2>6, <3>1 DEF Opened
  <2>8. Tracks(m, 3, From3(m, p), 0)
    <3>1. ~NoOpen(G, 3)
      <4>1. f \in G /\ Opens(f, 3)
        BY <2>4 DEF Opens
      <4> QED  BY <4>1 DEF NoOpen
    <3> QED  BY <2>1, <2>5, <3>1 DEF Opened, From3
  <2>9. Tracks(m, 0, p.vr[0], 0)
    <3>1. 0 \in Sapis /\ p.vr[0] \in Nums /\ Tracks(n, 0, p.vr[0], 0) /\ 0 \in Nat
      BY UpSets, PhoneFields DEF Alive, Sync
    <3> QED  BY <2>1, <3>1 DEF Opened, Step, Keeps
  <2>10. /\ Kinds(S) /\ NoOpen(S, 0) /\ NoI(S, 3) /\ ~Has(S, "CIPHER_COMMAND") /\ ~Has(S, "ASSIGNMENT_CMD")
    <3>1. ~IsI(f, 0) /\ ~IsI(f, 3) /\ ~Opens(f, 0)
      BY DEF IsI, Opens
    <3> QED  BY <1>6, <3>1 DEF Kinds, NoOpen, NoI, Has
  <2>11. ~Sabm(In(p.ctl), 3) /\ ~Unused3(m, p)
    <3>1. ~Sabm(In(p.ctl), 3)
      BY <2>3 DEF Still, Sabm
    <3> QED  BY <1>1, <2>2, <3>1 DEF Unused3
  <2>12. m.conf = n.conf /\ m.rel = n.rel
    BY DEF Chan
  <2>13. Fits(n, m, p, S)
    BY <1>1, <1>2, <2>2, <2>3, <2>4, <2>7, <2>8, <2>9, <2>10, <2>11, <2>12 DEF Fits
  <2>14. ~Has(G, "ASSIGNMENT_CMD")
    BY <1>3, <2>4, <2>10 DEF Has, Clear
  <2>15. Call(m, p)
    BY <1>1, <1>4, <1>9, <2>14 DEF Call, Early
  <2> QED  BY <2>13, <2>15, FitsAlive
<1>10. CASE n.svc \notin {"MT_CALL", "MT_SMS"} /\ Step(n, m, I(0, {"MM_INFO"}), 1)
  <2> DEFINE S == I(0, {"MM_INFO"})
  <2>2. Fits(n, m, p, S)
    BY <1>1, <1>2, <1>3, <1>6, <1>7, <1>10, StepFits
  <2>3. ~Has(G, "ASSIGNMENT_CMD")
    BY <1>3, <1>6, <1>10 DEF Step, Adds, Has, Clear
  <2>4. Only(G, {"MM_INFO"})
    BY <1>3, <1>7, <1>10 DEF Step, Adds, Only, NoI
  <2>5. Early(m) => Listens(p)
    <3>1. Early(m) => p.why = "CM_CALL"
      BY <1>1, <1>5, SvcWhy DEF Early
    <3> QED  BY <1>2, <3>1 DEF Listens
  <2>6. Call(m, p)
    BY <1>4, <2>3, <2>4, <2>5 DEF Call
  <2> QED  BY <2>2, <2>6, FitsAlive
<1> QED  BY <1>8, <1>9, <1>10 DEF CipherDone

\* A call is set up.
LEMMA SetUpAlive ==
    ASSUME NEW n, Legal(n), NEW p, PhoneOk(p), Alive(n, p), SabmMsg(p), p.at = "on",
           n.reg = "MM_ACTIVE", n.svc = "MO_CALL", NEW m, Legal(m), Chan(n, m), SetUp(n, m)
    PROVE  Alive(m, p)
<1> DEFINE F == In(n.q)
           G == In(m.q)
<1>1. /\ m.reg = "MM_ACTIVE" /\ m.svc = "MO_CALL" /\ m.svc = n.svc /\ InCall(m) /\ ~Early(m) /\ Early(n)
      /\ m.reg \notin Ciphers \cup {"IDLE"}
  BY DEF SetUp, InCall, Early, Ciphers
<1>2. Listens(p) /\ Only(F, {"MM_INFO"}) /\ ~Moves(p)
  BY <1>1 DEF Alive, Call, InCall, SetUp
<1>3. ~Has(F, "CIPHER_COMMAND") /\ Clear(F)
  BY <1>2 DEF Has, Only, Clear
<1>4. p.why # "CM_SMS"
  BY SvcWhy DEF Alive, Held
<1>5. PICK S, c : /\ S \in {I(0, {"CALL_PROCEEDING", "ASSIGNMENT_CMD"}), I(0, {"CALL_PROCEEDING", "ALERTING", "CONNECT"})}
                  /\ Step(n, m, S, c)
  BY DEF SetUp
<1>6. \A f \in S : f.t = "I" /\ f.sapi = 0 /\ f.kind \in {"CALL_PROCEEDING", "ASSIGNMENT_CMD", "ALERTING", "CONNECT"}
  BY <1>5 DEF I, IFrame
<1>7. Kinds(S) /\ NoOpen(S, 0) /\ NoOpen(S, 3) /\ NoI(S, 3) /\ ~Has(S, "CIPHER_COMMAND")
  BY <1>6 DEF Kinds, NoOpen, NoI, Has, IsI, Opens, Down0
<1>8. Fits(n, m, p, S)
  BY <1>1, <1>3, <1>4, <1>5, <1>7, StepFits
<1>9. Has(G, "ASSIGNMENT_CMD") => Only(G, {"MM_INFO", "CALL_PROCEEDING", "ASSIGNMENT_CMD"})
  <2>1. F \subseteq G /\ G \subseteq F \cup S
    BY <1>5 DEF Step, Adds
  <2>2. CASE S = I(0, {"CALL_PROCEEDING", "ASSIGNMENT_CMD"})
    <3>1. Only(S, {"MM_INFO", "CALL_PROCEEDING", "ASSIGNMENT_CMD"})
      BY <2>2 DEF I, Only
    <3> QED  BY <1>2, <2>1, <3>1 DEF Only
  <2>3. CASE S = I(0, {"CALL_PROCEEDING", "ALERTING", "CONNECT"})
    <3>1. ~Has(S, "ASSIGNMENT_CMD")
      BY <2>3 DEF I, Has
    <3> QED  BY <1>3, <2>1, <3>1 DEF Has, Clear
  <2> QED  BY <1>5, <2>2, <2>3
<1>10. Call(m, p)
  BY <1>1, <1>2, <1>9 DEF Call
<1> QED  BY <1>8, <1>10, FitsAlive

\* A message of an open connection is answered.
LEMMA ServedAlive ==
    ASSUME NEW n, Legal(n), NEW p, PhoneOk(p), Alive(n, p), SabmMsg(p), p.at = "on", NEW s \in Sapis,
           p.una[s] \notin PreMsg, p.una[s] = "ASSIGNMENT_FAILURE" \/ n.reg = "MM_ACTIVE",
           p.una[s] = "EMERGENCY_SETUP" => n.svc = "EMERGENCY", NEW m, Legal(m), Chan(n, m), Served(n, m, s)
    PROVE  Alive(m, p)
<1> DEFINE F == In(n.q)
           G == In(m.q)
           S == Answers(s, m.reg = "AWAIT_REL_ACK")
<1>1. s = 0 \/ s = 3
  BY UpSets
<1>2. s = 0 => p.una[s] \in Said(p)
  BY DEF Said
<1>3. s = 3 => n.svc # "MO_CALL" /\ ~Sabm(In(p.ctl), 3) /\ ~Unused3(n, p)
  BY NoCall3 DEF PreMsg
<1>4. n.reg \notin Ciphers \cup {"IDLE"} /\ m.reg \notin Ciphers \cup {"IDLE"} /\ m.svc = n.svc
  <2>1. n.reg # "IDLE"
    BY DEF Alive, Unasked, PreMsg
  <2>2. n.reg \notin Ciphers
    <3>1. s = 0 => (p.una[s] # "EMERGENCY_SETUP" /\ n.reg # "MM_ACTIVE" => n.reg \notin Ciphers)
      BY <1>2 DEF Alive, Cipher
    <3>2. s = 3 => p.una[s] # "ASSIGNMENT_FAILURE"
      <4>1. p.una[s] \in Up(s) \cup {"NONE"}
        BY PhoneFields
      <4> QED  BY <4>1, UpSets DEF Up3
    <3> QED  BY <1>1, <3>1, <3>2 DEF Ciphers
  <2> QED  BY <2>1, <2>2 DEF Served, SameTransaction, Ciphers
<1>5. ~Early(n) /\ Clear(F) /\ ~Has(F, "CIPHER_COMMAND")
  <2>1. ~Listens(p) \/ n.svc # "MO_CALL"
    BY <1>1, <1>2, <1>3 DEF Listens
  <2> QED  BY <1>4, <2>1 DEF Alive, Call, Cipher, Early, InCall, Clear
<1>6. ~Early(m)
  BY <1>4, <1>5 DEF Early, Served, SameTransaction
<1>7. ~Moves(p)
  <2>1. \A c \in In(p.ctl) : c.t = "SABM" => c.sapi = 0 \/ c.sapi = 3
    <3>1. In(p.ctl) \subseteq Controls
      BY PhoneFields
    <3>2. \A c \in Controls : c.sapi \in Sapis
      BY UpSets DEF Controls
    <3> QED  BY <3>1, <3>2, UpSets
  <2>2. ~Sabm(In(p.ctl), 0)
    BY DEF Alive, Sync
  <2> QED  BY <2>1, <2>2 DEF Moves, Sabm, SabmMsg
<1>8. /\ \A f \in S : f.t = "I" /\ f.sapi \in {0, 3}
      /\ \A f \in S : f.sapi = 0 => f.kind \in Replies \cup {"CHAN_REL"}
      /\ \A f \in S : f.sapi = 3 => f.kind \in {"CP_ACK", "RP_ACK"} /\ s = 3
      /\ \A f \in S : s = 3 /\ f.sapi = 0 => f.kind = "CHAN_REL"
  BY <1>1 DEF Answers, I, IFrame
<1>9. Kinds(S) /\ NoOpen(S, 0) /\ NoOpen(S, 3) /\ ~Has(S, "CIPHER_COMMAND") /\ ~Has(S, "ASSIGNMENT_CMD")
  <2> HIDE DEF S
  <2> QED  BY <1>8 DEF Kinds, NoOpen, Has, IsI, Opens, Down0, Down3, Replies
<1>10. NoI(S, 3) \/ (~Sabm(In(p.ctl), 3) /\ ~Unused3(m, p))
  <2>1. CASE s = 0
    <3> HIDE DEF S
    <3> QED  BY <1>8, <2>1 DEF NoI, IsI
  <2>2. CASE s = 3
    <3>1. Has(G, "CIPHER_COMMAND") => Has(F, "CIPHER_COMMAND")
      <4> HIDE DEF S
      <4>1. G \subseteq F \cup S
        BY DEF Served, Step, Adds, S
      <4> QED  BY <1>9, <4>1 DEF Has
    <3>2. Unused3(m, p) => Unused3(n, p)
      BY <1>4, <3>1 DEF Unused3
    <3> QED  BY <1>3, <2>2, <3>2
  <2> QED  BY <1>1, <2>1, <2>2
<1>11. p.why = "CM_SMS" => Only(S, {"MM_INFO", "CHAN_REL"})
  <2>1. p.why = "CM_SMS" => s = 3
    BY <1>1 DEF Alive, Sms, PreMsg
  <2> HIDE DEF S
  <2> QED  BY <1>8, <2>1 DEF Only, IsI
<1>12. Step(n, m, S, 2)
  BY DEF Served
<1>13. Fits(n, m, p, S)
  <2> HIDE DEF S
  <2> QED  BY <1>4, <1>5, <1>9, <1>10, <1>11, <1>12, StepFits
<1>14. ~Has(G, "ASSIGNMENT_CMD")
  <2> HIDE DEF S
  <2> QED  BY <1>5, <1>9, <1>12 DEF Step, Adds, Has, Clear
<1>15. Call(m, p)
  BY <1>6, <1>7, <1>14 DEF Call
<1> QED  BY <1>13, <1>15, FitsAlive

\* The network acts on the message whose acknowledge the phone waits for.
LEMMA ActiveAlive ==
    ASSUME NEW n, Legal(n), Space(n, 3), NEW p, PhoneOk(p), Alive(n, p), SabmMsg(p), p.at = "on",
           NEW s \in Sapis, p.una[s] # "NONE"
    PROVE  LET m == NetActive(n, s, p.una[s])
           IN  Legal(m) /\ Chan(n, m) /\ Alive(m, p)
<1> DEFINE msg == p.una[s]
           m == NetActive(n, s, msg)
<1>1. msg \in Up(s)
  BY PhoneFields
<1>2. s = 3 => msg \in Up3
  BY <1>1, UpSets
<1>3. s = 0 \/ s = 3
  BY UpSets
<1> HIDE DEF m
<1>4. /\ Legal(m) /\ Chan(n, m)
      /\ \/ Same(n, m)
         \/ msg = "CIPHER_COMPLETE" /\ n.reg = "AWAIT_CIPHER_COMPLETE" /\ CipherDone(n, m)
         \/ /\ msg \in {"SETUP", "SETUP_UDI"} /\ n.reg = "MM_ACTIVE" /\ n.svc = "MO_CALL"
            /\ SetUp(n, m)
         \/ /\ msg \notin PreMsg /\ (msg = "ASSIGNMENT_FAILURE" \/ n.reg = "MM_ACTIVE")
            /\ msg = "EMERGENCY_SETUP" => n.svc = "EMERGENCY"
            /\ Served(n, m, s)
  BY <1>1, NetActiveIs DEF m
<1>5. Same(n, m) => Alive(m, p)
  BY <1>4, SameAlive
<1>6. msg = "CIPHER_COMPLETE" /\ n.reg = "AWAIT_CIPHER_COMPLETE" /\ CipherDone(n, m) => Alive(m, p)
  <2>1. msg = "CIPHER_COMPLETE" => p.una[0] = "CIPHER_COMPLETE"
    BY <1>2, <1>3 DEF Up3
  <2> QED  BY <1>4, <2>1, CipherAlive
<1>7. n.reg = "MM_ACTIVE" /\ n.svc = "MO_CALL" /\ SetUp(n, m) => Alive(m, p)
  BY <1>4, SetUpAlive
<1>8. /\ msg \notin PreMsg /\ (msg = "ASSIGNMENT_FAILURE" \/ n.reg = "MM_ACTIVE")
      /\ msg = "EMERGENCY_SETUP" => n.svc = "EMERGENCY"
      /\ Served(n, m, s)
      => Alive(m, p)
  BY <1>4, ServedAlive
<1>9. Alive(m, p)
  BY <1>4, <1>5, <1>6, <1>7, <1>8
<1> QED  BY <1>4, <1>9 DEF m

\* Frames that are no information of the main link are nothing to the call.
LEMMA CallSame ==
    ASSUME NEW n, NEW m, NEW p, NEW S, Call(n, p), m.reg = n.reg, m.svc = n.svc, m.call = n.call, m.setup = n.setup,
           In(m.q) \subseteq In(n.q) \cup S, NoI(S, 0)
    PROVE  Call(m, p)
<1>1. (Early(m) <=> Early(n)) /\ (InCall(m) <=> InCall(n))
  BY DEF Early, InCall
<1>2. Has(In(m.q), "ASSIGNMENT_CMD") => Has(In(n.q), "ASSIGNMENT_CMD")
  BY DEF Has, NoI
<1>3. \A K : Only(In(n.q), K) => Only(In(m.q), K)
  BY DEF Only, NoI
<1> QED  BY <1>1, <1>2, <1>3 DEF Call

\* A message is heard that the phone waits for the acknowledge of.
LEMMA HeardAlive ==
    ASSUME NEW n, Legal(n), Space(n, 6), NEW p, PhoneOk(p), Alive(n, p), SabmMsg(p), p.at = "on",
           NEW s \in Sapis, p.una[s] # "NONE", NEW ns \in Nums, Tells(n, s)
    PROVE  Alive(LapdmUplink(n, InfoFrame(s, ns, p.vr[s], p.una[s])), p)
<1> DEFINE nr == p.vr[s]
           msg == p.una[s]
           f == InfoFrame(s, ns, nr, msg)
           next == [n EXCEPT !.link[s].vr = IF ns = @ THEN Next_(@) ELSE @]
           seen == SendRr(AckPending(next, s, nr), s)
           m == LapdmUplink(n, f)
<1>1. nr \in Nums /\ n.reg # "IDLE" /\ 3 \in Nat /\ 6 = 3 + 3
  BY PhoneFields DEF Alive, Unasked
<1>2. m = IF ns # n.link[s].vr \/ msg = "SEGMENT" THEN seen
          ELSE IF seen.reg = "IDLE" THEN NetEstablished(seen, msg) ELSE NetActive(seen, s, msg)
  <2>1. m = Heard(n, f)
    <3>1. f.t = "I"
      BY DEF InfoFrame
    <3> QED  BY <3>1, UplinkCases
  <2>2. f.sapi = s /\ f.ns = ns /\ f.nr = nr /\ f.msg = msg
    BY DEF InfoFrame
  <2> HIDE DEF f, m
  <2> QED  BY <2>1, <2>2 DEF Heard
<1>3. Legal(seen) /\ Chan(n, seen) /\ Moved(n, seen) /\ (Space(n, 3) => Seen(n, seen, s, nr, Rr, 3))
  BY <1>1, SeenIs
<1> HIDE DEF seen, m
<1>4. Space(n, 3)
  BY <1>1, SpaceLess
<1>5. s = 3 => NoOpen(In(n.q), 3)
  BY DEF Alive, Link3, Still
<1>6. Alive(seen, p)
  BY <1>3, <1>4, <1>5, SeenAlive
<1>7. Space(seen, 3)
  <2>1. Grows(n, seen, 3)
    BY <1>3, <1>4 DEF Seen
  <2> QED  BY <1>1, <1>3, <2>1, SpaceAfter
<1>8. seen.reg # "IDLE"
  BY <1>1, <1>3, MovedIs
<1>9. Alive(NetActive(seen, s, msg), p)
  BY <1>3, <1>6, <1>7, ActiveAlive
<1> QED  BY <1>2, <1>6, <1>8, <1>9 DEF m

\* The phone's acknowledge is heard.
LEMMA RrAlive ==
    ASSUME NEW n, Legal(n), Space(n, 6), NEW p, PhoneOk(p), Alive(n, p), p.at \in {"on", "tune"},
           NEW s \in Sapis, Tells(n, s), s = 3 => NoOpen(In(n.q), 3)
    PROVE  Alive(AckPending(n, s, p.vr[s]), p)
<1>1. p.vr[s] \in Nums /\ 2 \in Nat /\ 6 \in Nat
  BY PhoneFields
<1>2. Space(n, 2)
  BY <1>1, SpaceLess
<1> DEFINE m == AckPending(n, s, p.vr[s])
<1>3. Legal(m) /\ Chan(n, m) /\ Moved(n, m) /\ Seen(n, m, s, p.vr[s], {}, 2)
  BY <1>1, <1>2, AckSeen
<1> QED  BY <1>3, SeenAlive

\* The phone's UA is heard: the link for a short message is up.
LEMMA UaAlive ==
    ASSUME NEW n, Legal(n), NEW p, PhoneOk(p), Alive(n, p), p.at = "on", ~Sabm(In(p.ctl), 3),
           NEW m, Legal(m), Chan(n, m), SameCall(n, m), Step(n, m, I(3, {"SEGMENT", "CP_DATA"}), Longest),
           n.svc # "MT_SMS" \/ n.reg # "MM_ACTIVE" => m.q = n.q
    PROVE  Alive(m, p)
<1> DEFINE S == I(3, {"SEGMENT", "CP_DATA"})
<1>1. \A f \in S : f.t = "I" /\ f.sapi = 3 /\ f.kind \in {"SEGMENT", "CP_DATA"}
  BY DEF I, IFrame
<1>2. /\ Kinds(S) /\ NoOpen(S, 0) /\ NoOpen(S, 3) /\ NoI(S, 0) /\ ~Has(S, "CIPHER_COMMAND")
      /\ \A K : Only(S, K)
  BY <1>1 DEF Kinds, NoOpen, NoI, Has, Only, IsI, Opens, Down3
<1>3. Call(m, p)
  BY <1>2, CallSame DEF Step, Adds, SameCall, Alive
<1>4. CASE m.q = n.q
  <2>1. 0 \in Sapis /\ 3 \in Sapis /\ p.vr[0] \in Nums /\ From3(n, p) \in Nums /\ 0 \in Nat
    <3>1. 0 \in Nums
      BY Rom6Assumption DEF Nums
    <3> QED  BY <3>1, UpSets, PhoneFields DEF From3
  <2>2. Tracks(m, 3, From3(n, p), 0) /\ Tracks(m, 0, p.vr[0], 0)
    <3>1. Tracks(n, 3, From3(n, p), 0) /\ Tracks(n, 0, p.vr[0], 0)
      BY DEF Alive, Sync
    <3> QED  BY <2>1, <3>1 DEF Step, Keeps
  <2>3. From3(m, p) = From3(n, p)
    BY <1>4 DEF From3
  <2>4. Kinds({}) /\ NoOpen({}, 0) /\ NoI({}, 0) /\ NoOpen({}, 3) /\ NoI({}, 3) /\ ~Has({}, "CIPHER_COMMAND")
        /\ \A K : Only({}, K)
    BY DEF Kinds, NoOpen, NoI, Has, Only
  <2>5. m.conf = n.conf /\ m.rel = n.rel /\ m.reg = n.reg /\ m.svc = n.svc
    BY DEF Chan, SameCall
  <2>6. Has(In(n.q), "CIPHER_COMMAND") => m.reg \in Ciphers
    BY <2>5 DEF Alive, Cipher
  <2>7. Fits(n, m, p, {})
    BY <1>4, <2>2, <2>3, <2>4, <2>5, <2>6 DEF Fits, Alive, Held
  <2> QED  BY <1>3, <2>7, FitsAlive
<1>5. CASE m.q # n.q
  <2>1. n.svc = "MT_SMS" /\ n.reg = "MM_ACTIVE" /\ m.svc = n.svc /\ m.reg = "MM_ACTIVE"
        /\ m.reg \notin Ciphers \cup {"IDLE"}
    BY <1>5 DEF SameCall, Ciphers
  <2>2. p.why = "PAGING_RESPONSE"
    BY <2>1, SvcWhy DEF Alive, Held
  <2>3. Clear(In(n.q)) /\ ~Has(In(n.q), "CIPHER_COMMAND")
    BY <2>1 DEF Clear, Alive, Call, InCall, Cipher
  <2>4. ~Unused3(m, p)
    BY <2>1, <2>2 DEF Unused3
  <2>5. Fits(n, m, p, S)
    BY <1>2, <2>1, <2>2, <2>3, <2>4, StepFits
  <2> QED  BY <1>3, <2>5, FitsAlive
<1> QED  BY <1>4, <1>5

\* The phone asks for the link for short messages; the request itself is q's no longer.
LEMMA SabmAlive ==
    ASSUME NEW n, Legal(n), NEW p, PhoneOk(p), Alive(n, p), p.at = "on", Still(p), ~Unused3(n, p),
           NoI(In(n.q), 3), NoOpen(In(n.q), 3),
           NEW m, Legal(m), Chan(n, m), SameCall(n, m), Opened(n, m, 3, Ua(3))
    PROVE  Alive(m, p)
<1> DEFINE F == In(n.q)
           f == Ua(3)
           S == {f}
<1>1. f.t = "UA" /\ f.sapi = 3 /\ Opens(f, 3) /\ ~Opens(f, 0) /\ ~IsI(f, 0) /\ ~IsI(f, 3)
  BY DEF Ua, Opens, IsI
<1>2. Kinds(S) /\ NoOpen(S, 0) /\ NoI(S, 0) /\ NoI(S, 3) /\ ~Has(S, "CIPHER_COMMAND") /\ \A K : Only(S, K)
  BY <1>1 DEF Kinds, NoOpen, NoI, Has, Only
<1>3. In(m.q) = F \cup S
  BY DEF Opened
<1>4. Order(m.q)
  <2>1. \A g \in F : Ok(g, f)
    <3>1. \A s \in Sapis : s = 0 \/ s = 3
      BY UpSets
    <3> QED  BY <1>1, <3>1 DEF Ok, NoI, NoOpen
  <2> QED  BY <2>1 DEF Opened, Alive, Held
<1>5. Tracks(m, 3, From3(m, p), 0)
  <2>1. ~NoOpen(In(m.q), 3)
    BY <1>1, <1>3 DEF NoOpen
  <2> QED  BY <2>1 DEF Opened, From3
<1>6. Tracks(m, 0, p.vr[0], 0)
  <2>1. 0 \in Sapis /\ p.vr[0] \in Nums /\ 0 \in Nat /\ Tracks(n, 0, p.vr[0], 0)
    BY UpSets, PhoneFields DEF Alive, Sync
  <2> QED  BY <2>1 DEF Opened
<1>7. m.conf = n.conf /\ m.rel = n.rel /\ m.reg = n.reg /\ m.svc = n.svc
  BY DEF Chan, SameCall
<1>8. Has(F, "CIPHER_COMMAND") => m.reg \in Ciphers
  BY <1>7 DEF Alive, Cipher
<1>9. ~Sabm(In(p.ctl), 3)
  BY DEF Still, Sabm
<1>10. ~Unused3(m, p)
  <2>1. Has(In(m.q), "CIPHER_COMMAND") => Has(F, "CIPHER_COMMAND")
    BY <1>2, <1>3 DEF Has
  <2> QED  BY <1>7, <2>1 DEF Unused3
<1>11. Fits(n, m, p, S)
  BY <1>2, <1>3, <1>4, <1>5, <1>6, <1>7, <1>8, <1>9, <1>10 DEF Fits
<1>12. Call(m, p)
  BY <1>2, <1>3, CallSame DEF SameCall, Alive
<1> QED  BY <1>11, <1>12, FitsAlive

\* What the services and their paging do is nothing to the links.
LEMMA OtherLinked ==
    ASSUME NEW n, NEW p, Linked(n, p), NEW m, m.q = n.q, m.link = n.link, m.conf = n.conf, m.rel = n.rel,
           m.reg = n.reg, m.svc = n.svc, m.call = n.call, m.setup = n.setup,
           NEW q, SamePart(p, q), q.vr = p.vr, q.una = p.una, q.out = p.out, q.ctl = p.ctl
    PROVE  Linked(m, q)
<1>1. q.at = p.at /\ q.why = p.why /\ q.call = p.call /\ Said(q) = Said(p)
  BY DEF SamePart, Said
<1>2. (Early(m) <=> Early(n)) /\ (InCall(m) <=> InCall(n)) /\ (Moves(q) <=> Moves(p)) /\ (Listens(q) <=> Listens(p))
      /\ (Still(q) <=> Still(p)) /\ (SabmMsg(q) <=> SabmMsg(p)) /\ (Live(q) <=> Live(p)) /\ From3(m, q) = From3(n, p)
  BY <1>1 DEF Early, InCall, Moves, Listens, Still, SabmMsg, Live, From3
<1>3. \A s, from : Tracks(n, s, from, 0) <=> Tracks(m, s, from, 0)
  BY DEF Tracks
<1>4. (Blank(m, q) <=> Blank(n, p)) /\ (Asked3(m, q) <=> Asked3(n, p)) /\ (Unused3(m, q) <=> Unused3(n, p))
      /\ (Opening0(m, q) <=> Opening0(n, p))
  BY <1>1, <1>2, <1>3 DEF Blank, Asked3, Unused3, Opening0
<1>5. Dead(n, p) => Dead(m, q)
  BY <1>1 DEF Dead
<1>6. Held(n, p) => Held(m, q)
  BY <1>1 DEF Held
<1>7. Sync(n, p) => Sync(m, q)
  BY <1>1, <1>2, <1>3, <1>4 DEF Sync
<1>8. Link3(n, p) => Link3(m, q)
  BY <1>2, <1>4 DEF Link3
<1>9. (Sms(n, p) => Sms(m, q)) /\ (Cipher(n, p) => Cipher(m, q)) /\ (Unasked(n, p) => Unasked(m, q))
  BY <1>1 DEF Sms, Cipher, Unasked
<1>10. Call(n, p) => Call(m, q)
  BY <1>1, <1>2 DEF Call
<1> QED  BY <1>2, <1>5, <1>6, <1>7, <1>8, <1>9, <1>10 DEF Linked, Alive

\* The arms of LapdmUplink that do not touch a link themselves.
LEMMA UplinkArms ==
    ASSUME NEW n, NEW f
    PROVE  /\ f.t = "SABM" => LapdmUplink(n, f) = LapdmSabm(n, f)
           /\ f.t = "RR" => LapdmUplink(n, f) = AckPending(n, f.sapi, f.nr)
  BY DEF LapdmUplink

\* The phone's request opens the main link, and what it asks for begins.
LEMMA OpenAlive ==
    ASSUME NEW n, Legal(n), Space(n, 6), NEW p, PhoneOk(p), Alive(n, p), p.at = "sabm", p.ctl # <<>>,
           NEW q, SamePart(p, q), q.vr = p.vr, q.una = p.una, q.out = p.out, q.ctl = Tail(p.ctl)
    PROVE  Head(p.ctl).t = "SABM" /\ Alive(LapdmUplink(n, Head(p.ctl)), q)
<1> DEFINE F == In(n.q)
           f == Head(p.ctl)
           m == LapdmUplink(n, f)
           G == In(m.q)
           ua == [t |-> "UA", sapi |-> 0]
<1>1. PICK msg \in {p.why, "ASSIGNMENT_COMPLETE"} :
         /\ p.ctl = <<Sabm0(msg)>> /\ NoI(F, 0) /\ NoOpen(F, 0)
         /\ n.reg = IF msg = "ASSIGNMENT_COMPLETE" THEN "MM_ACTIVE" ELSE "IDLE"
  BY DEF Alive, Sync, Opening0
<1>2. f = Sabm0(msg) /\ f.t = "SABM" /\ f.sapi = 0 /\ f.msg = msg /\ q.ctl = <<>>
  BY <1>1 DEF Sabm0
<1>3. f \in Controls
  <2>1. p.ctl \in Seq(Controls)
    BY PhoneFields
  <2> QED  BY <2>1, InTail
<1>4. p.why \in Reasons /\ msg # "NONE" /\ "ASSIGNMENT_COMPLETE" \notin Reasons
  <2>1. DOMAIN CmService = {"CM_CALL", "CM_EMERGENCY", "CM_SMS"}
    BY DEF CmService
  <2> QED  BY <2>1 DEF Alive, Held, Reasons
<1>5. Still(p) /\ NoI(F, 3) /\ NoOpen(F, 3)
  BY DEF Alive, Link3, Unused3, Blank
<1>6. 0 \in Sapis /\ 3 \in Sapis /\ p.vr[3] \in Nums /\ 0 \in Nums /\ 0 \in Nat /\ 1 \in Nat /\ 5 \in Nat /\ 1 + 5 = 6
  <2>1. 0 \in Nums
    BY Rom6Assumption DEF Nums
  <2> QED  BY <2>1, UpSets, PhoneFields
<1>7. Space(n, 1)
  BY <1>6, SpaceLess
<1>8. Legal(m) /\ Chan(n, m) /\
         \E up : /\ Legal(up) /\ Chan(n, up) /\ SameCall(n, up) /\ Opened(n, up, 0, ua)
                 /\ m = NetEstablished(up, msg)
  <2>1. m = LapdmSabm(n, f)
    <3>1. f.t = "SABM"
      BY <1>2
    <3> HIDE DEF f
    <3> QED  BY <3>1, UplinkArms
  <2> HIDE DEF m, f
  <2> QED  BY <1>2, <1>3, <1>4, <1>7, <2>1, LapdmSabmIs
<1> HIDE DEF m, f
<1>9. PICK up : /\ Legal(up) /\ Chan(n, up) /\ SameCall(n, up) /\ Opened(n, up, 0, ua)
                /\ m = NetEstablished(up, msg)
  BY <1>8
<1> DEFINE U == In(up.q)
<1>10. U = F \cup {ua} /\ ~IsI(ua, 0) /\ ~IsI(ua, 3) /\ Opens(ua, 0) /\ ~Opens(ua, 3) /\ ua.t = "UA"
  BY <1>9 DEF Opened, IsI, Opens
<1>11. NoI(U, 0) /\ NoI(U, 3) /\ NoOpen(U, 3) /\ ~NoOpen(U, 0) /\ Clear(U)
  BY <1>1, <1>5, <1>10 DEF NoI, NoOpen, Clear, Has
<1>12. Order(up.q) /\ Tracks(up, 0, 0, 0) /\ Tracks(up, 3, p.vr[3], 0)
  <2>1. \A g \in F : Ok(g, ua)
    <3>1. \A s \in Sapis : s = 0 \/ s = 3
      BY UpSets
    <3> QED  BY <1>1, <1>5, <1>10, <3>1 DEF Ok, NoI, NoOpen
  <2>2. Tracks(n, 3, p.vr[3], 0)
    BY <1>5 DEF Alive, Sync, From3
  <2> QED  BY <1>1, <1>6, <1>9, <2>1, <2>2 DEF Opened, Alive, Held
<1>13. Space(up, 1)
  <2>1. Space(up, 5)
    BY <1>6, <1>9, SpaceAfter DEF Opened
  <2> QED  BY <1>6, <1>9, <2>1, SpaceLess
<1>14. up.reg = n.reg /\ up.svc = n.svc /\ up.call = n.call /\ up.setup = n.setup
  BY <1>9 DEF SameCall
<1>15. \/ m = up /\ (msg = "PAGING_RESPONSE" \/ msg = "ASSIGNMENT_COMPLETE")
       \/ msg = "ASSIGNMENT_COMPLETE" /\ SameCall(up, m) /\ Step(up, m, I(0, {"CONNECT"}), 1)
       \/ msg = "LU_REQUEST" /\ m.reg = "AWAIT_LU_ACK" /\ m.svc = n.svc /\ Step(up, m, I(0, {"LU_ACCEPT"}), 1)
       \/ /\ msg = p.why /\ m.reg = "AWAIT_CIPHER_ACK" /\ m.svc \in Of[msg] /\ msg # "ASSIGNMENT_COMPLETE"
          /\ Step(up, m, I(0, {"CIPHER_COMMAND"}), 1)
  <2>1. DOMAIN CmService = {"CM_CALL", "CM_EMERGENCY", "CM_SMS"}
    BY DEF CmService
  <2>2. msg \in {"PAGING_RESPONSE", "LU_REQUEST", "CM_CALL", "CM_EMERGENCY", "CM_SMS", "ASSIGNMENT_COMPLETE"}
    BY <1>1, <1>4, <2>1 DEF Reasons
  <2>3. \/ m = up /\ msg \notin {"LU_REQUEST"} \cup DOMAIN CmService
        \/ m = up /\ up.reg # "IDLE"
        \/ msg \in Outcomes /\ SameCall(up, m) /\ Step(up, m, I(0, {"CONNECT"}), 1)
        \/ /\ msg = "LU_REQUEST" /\ up.reg = "IDLE" /\ m.reg = "AWAIT_LU_ACK" /\ m.svc = up.svc
           /\ Step(up, m, I(0, {"LU_ACCEPT"}), 1)
        \/ /\ msg \in {"PAGING_RESPONSE"} \cup DOMAIN CmService /\ up.reg = "IDLE"
           /\ m.reg = "AWAIT_CIPHER_ACK" /\ m.svc \in Of[msg]
           /\ Step(up, m, I(0, {"CIPHER_COMMAND"}), 1)
    BY <1>9, <1>11, <1>13, NetEstablishedIs
  <2> QED  BY <1>1, <1>14, <2>1, <2>2, <2>3 DEF Outcomes
<1>16. PICK K \in {{}, {"CONNECT"}, {"LU_ACCEPT"}, {"CIPHER_COMMAND"}} :
          /\ Step(up, m, I(0, K), 1)
          /\ K = {} => m = up /\ (msg = "PAGING_RESPONSE" \/ msg = "ASSIGNMENT_COMPLETE")
          /\ K = {"CONNECT"} => msg = "ASSIGNMENT_COMPLETE" /\ SameCall(up, m)
          /\ K = {"LU_ACCEPT"} => msg = "LU_REQUEST" /\ m.reg = "AWAIT_LU_ACK" /\ m.svc = n.svc
          /\ K = {"CIPHER_COMMAND"} => /\ msg = p.why /\ m.reg = "AWAIT_CIPHER_ACK" /\ m.svc \in Of[msg]
                                       /\ msg # "ASSIGNMENT_COMPLETE"
  <2>1. \A S : Step(up, up, S, 1)
    BY <1>6, <1>9, StepRefl
  <2> QED  BY <1>15, <2>1
<1> DEFINE S == I(0, K)
<1>17. \A g \in S : g.t = "I" /\ g.sapi = 0 /\ g.kind \in K
  BY DEF I, IFrame
<1> HIDE DEF S
<1>18. U \subseteq G /\ G \subseteq U \cup S
  BY <1>16 DEF Step, Adds, S
<1>19. /\ Kinds(S) /\ NoI(S, 3) /\ NoOpen(S, 3) /\ Only(S, K) /\ ~Has(S, "ASSIGNMENT_CMD")
       /\ K # {"CIPHER_COMMAND"} => ~Has(S, "CIPHER_COMMAND")
  BY <1>17 DEF Kinds, NoI, NoOpen, Only, Has, IsI, Opens, Down0
<1>20. /\ NoI(G, 3) /\ NoOpen(G, 3) /\ ~NoOpen(G, 0) /\ Only(G, K) /\ ~Has(G, "ASSIGNMENT_CMD")
       /\ (K # {"CIPHER_COMMAND"} => ~Has(G, "CIPHER_COMMAND"))
       /\ (K = {} => NoI(G, 0))
  <2>1. Only(G, K)
    BY <1>11, <1>18, <1>19 DEF Only, NoI
  <2>2. NoI(G, 3) /\ NoOpen(G, 3) /\ ~NoOpen(G, 0) /\ ~Has(G, "ASSIGNMENT_CMD")
    BY <1>11, <1>18, <1>19 DEF NoI, NoOpen, Has, Clear
  <2>3. K # {"CIPHER_COMMAND"} => ~Has(G, "CIPHER_COMMAND")
    BY <1>11, <1>18, <1>19 DEF Has, NoI
  <2> QED  BY <2>1, <2>2, <2>3 DEF Only, NoI
<1>21. msg = "ASSIGNMENT_COMPLETE" => InCall(n) /\ n.reg = "MM_ACTIVE" /\ p.why = "CM_CALL" /\ p.call = "no"
  <2>1. msg = "ASSIGNMENT_COMPLETE" => Moves(p)
    <3>1. Sabm0(msg) \in In(p.ctl)
      BY <1>1, InTuples
    <3> QED  BY <1>2, <3>1 DEF Moves
  <2>2. InCall(n) => n.reg = "MM_ACTIVE" /\ p.why = "CM_CALL"
    BY SvcWhy DEF InCall, Alive, Held
  <2> QED  BY <2>1, <2>2 DEF Alive, Call
<1>22. msg # "ASSIGNMENT_COMPLETE" => /\ msg = p.why /\ n.reg = "IDLE" /\ p.call = "no"
                                      /\ \A s \in Sapis : p.out[s] = <<>> /\ p.una[s] = "NONE"
  BY <1>1 DEF Alive, Unasked
<1>23. q.at = "sabm" /\ q.why = p.why /\ q.call = p.call /\ Said(q) = Said(p) /\ In(q.ctl) = {}
  BY <1>2, InTuples DEF SamePart, Said
<1>24. /\ m.reg = "IDLE" => K = {} /\ msg # "ASSIGNMENT_COMPLETE"
       /\ m.reg \in Ciphers => K = {"CIPHER_COMMAND"} /\ msg # "ASSIGNMENT_COMPLETE"
       /\ m.reg = "MM_ACTIVE" => msg = "ASSIGNMENT_COMPLETE" /\ InCall(m)
  <2>1. K = {} \/ K = {"CONNECT"} => m.reg = n.reg /\ m.svc = n.svc /\ m.call = n.call /\ m.setup = n.setup
    BY <1>14, <1>16 DEF SameCall
  <2>2. (K = {} \/ K = {"CONNECT"}) /\ msg = "ASSIGNMENT_COMPLETE" => InCall(m) /\ m.reg = "MM_ACTIVE"
    BY <1>21, <2>1 DEF InCall
  <2>3. (K = {} \/ K = {"CONNECT"}) /\ msg # "ASSIGNMENT_COMPLETE" => m.reg = "IDLE" /\ K = {}
    BY <1>16, <1>22, <2>1
  <2> QED  BY <1>16, <2>2, <2>3 DEF Ciphers
<1>25. Held(m, q)
  <2>1. m.svc \in Of[p.why]
    <3>1. n.svc \in Of[p.why]
      BY DEF Alive, Held
    <3> QED  BY <1>14, <1>16, <3>1 DEF SameCall
  <2>2. Kinds(G)
    <3>1. \A g \in G : (IsI(g, 0) => g.kind \in K) /\ ~IsI(g, 3)
      BY <1>20 DEF Only, NoI
    <3> QED  BY <3>1 DEF Kinds, Down0
  <2>3. Order(m.q)
    BY <1>11, <1>12, <1>16 DEF Step
  <2>4. m.conf = n.conf /\ m.rel = n.rel
    BY <1>8 DEF Chan
  <2>5. OneSabm(q.ctl)
    <3>1. q.ctl \in Seq(Controls)
      BY PhoneFields, InTail
    <3>2. Len(q.ctl) = 0
      BY <1>2, <3>1, InEmpty
    <3>3. 1 .. Len(q.ctl) = {}
      BY ONLY <3>2
    <3> QED  BY ONLY <3>3 DEF OneSabm
  <2> QED  BY <1>23, <2>1, <2>2, <2>3, <2>4, <2>5 DEF Alive, Held
<1>26. Sync(m, q)
  <2>1. Tracks(m, 0, 0, 0) /\ Tracks(m, 3, p.vr[3], 0)
    BY <1>6, <1>12, <1>16 DEF Step, Keeps
  <2>2. From3(m, q) = p.vr[3]
    BY <1>20 DEF From3
  <2>3. q.una[0] = "NONE"
    BY DEF Alive, Sync
  <2> QED  BY <1>2, <1>20, <1>23, <2>1, <2>2, <2>3 DEF Sync, Opening0
<1>27. Link3(m, q)
  <2>1. Still(q)
    BY <1>5, <1>23 DEF Still
  <2>2. ~Sabm(In(q.ctl), 3)
    BY <1>23 DEF Sabm
  <2> QED  BY <1>20, <2>1, <2>2 DEF Link3, Blank
<1>28. Sms(m, q)
  <2>1. p.why = "CM_SMS" => K = {} \/ K = {"CIPHER_COMMAND"}
    BY <1>16, <1>21, <1>22
  <2>2. p.why = "CM_SMS" => Only(G, {"CIPHER_COMMAND", "MM_INFO", "CHAN_REL"})
    BY <1>20, <2>1 DEF Only
  <2> QED  BY <1>23, <2>2 DEF Sms, Alive
<1>29. Cipher(m, q)
  <2>1. m.reg \in Ciphers => Said(p) \subseteq {"NONE"} /\ p.call = "no"
    <3>1. In(<<>>) = {}
      BY InTuples
    <3>2. m.reg \in Ciphers => p.out[0] = <<>> /\ p.una[0] = "NONE" /\ p.call = "no"
      BY <1>6, <1>22, <1>24
    <3> QED  BY <3>1, <3>2 DEF Said
  <2>2. {"NONE"} \subseteq PreMsg
    BY DEF PreMsg
  <2>3. m.reg \in Ciphers => Only(G, {"CIPHER_COMMAND"})
    BY <1>20, <1>24
  <2>4. Has(G, "CIPHER_COMMAND") => m.reg \in Ciphers /\ p.out[0] = <<>> /\ p.una[0] = "NONE"
    BY <1>6, <1>16, <1>20, <1>22 DEF Ciphers
  <2> QED  BY <1>23, <2>1, <2>2, <2>3, <2>4 DEF Cipher
<1>30. Call(m, q)
  <2>1. ~Early(m)
    BY <1>24 DEF Early, InCall
  <2>2. ~Moves(q)
    BY <1>23 DEF Moves
  <2> QED  BY <1>20, <2>1, <2>2 DEF Call
<1>31. Unasked(m, q)
  BY <1>20, <1>22, <1>23, <1>24 DEF Unasked
<1> QED  BY <1>2, <1>25, <1>26, <1>27, <1>28, <1>29, <1>30, <1>31 DEF Alive, m, f

\* The arm for a UA.
UaArm(n, s) ==
    IF n.link[s].ua = "NONE" THEN [n EXCEPT !.link[s].ua = "NONE"]
    ELSE NetOnAck([n EXCEPT !.link[s].ua = "NONE"], s, n.link[s].ua)
\* LapdmUplink on a UA.
LEMMA UaArmIs ==
    ASSUME NEW n, NEW f, f.t = "UA"
    PROVE  LapdmUplink(n, f) = UaArm(n, f.sapi)
  BY DEF LapdmUplink, UaArm

\* What the phone's control frames are, in a state where it owes the first of them.
Owed(p, q) ==
    /\ PhoneOk(q) /\ SamePart(p, q) /\ q.vr = p.vr /\ q.una = p.una /\ q.out = p.out /\ q.ctl = Tail(p.ctl)
\* What holds of the first control frame and of the rest.
LEMMA OwedIs ==
    ASSUME NEW p, PhoneOk(p), p.ctl # <<>>, NEW q, Owed(p, q)
    PROVE  LET h == Head(p.ctl)
           IN  /\ h \in Controls /\ h \in In(p.ctl) /\ In(q.ctl) \subseteq In(p.ctl) /\ h.sapi \in Sapis
               /\ h.t \in {"RR", "UA", "DISC", "SABM"} /\ (h.t = "UA" => h.sapi = 3)
               /\ OneSabm(p.ctl) => OneSabm(q.ctl) /\ (h.t = "SABM" => NoSabm(In(q.ctl)))
<1>1. p.ctl \in Seq(Controls)
  BY PhoneFields
<1>2. Head(p.ctl) \in Controls /\ Head(p.ctl) \in In(p.ctl) /\ In(q.ctl) \subseteq In(p.ctl)
  BY <1>1, InTail DEF Owed
<1>3. OneSabm(p.ctl) => OneSabm(q.ctl) /\ (Head(p.ctl).t = "SABM" => NoSabm(In(q.ctl)))
  BY <1>1, OneSabmTail DEF Owed
<1>4. \A h \in Controls : h.sapi \in Sapis /\ h.t \in {"RR", "UA", "DISC", "SABM"} /\ (h.t = "UA" => h.sapi = 3)
  BY UpSets DEF Controls
<1> QED  BY <1>2, <1>3, <1>4

\* The control frame as it goes out.
OnAir(p, h) == IF h.t = "RR" THEN [t |-> "RR", sapi |-> h.sapi, nr |-> p.vr[h.sapi]] ELSE h

\* Room for another step: for the longest message on a link that is being opened.
CtlRoom(n) == Space(n, 6) /\ \A s \in Sapis : n.link[s].ua # "NONE" => SpaceFor(n, s, Longest)

\* The phone acknowledges nothing that could be mistaken.
RrTells(n, p) == \A s \in Sapis : [t |-> "RR", sapi |-> s] \in In(p.ctl) => Tells(n, s)

\* The control frame the phone sends first leaves it in step.
LEMMA CtlAlive ==
    ASSUME NEW n, Legal(n), CtlRoom(n), NEW p, PhoneOk(p), Linked(n, p), Live(p), p.ctl # <<>>,
           RrTells(n, p), NEW q, Owed(p, q)
    PROVE  Alive(LapdmUplink(n, OnAir(p, Head(p.ctl))), q)
<1> DEFINE h == Head(p.ctl)
           C == In(p.ctl)
           f == OnAir(p, h)
           m == LapdmUplink(n, f)
<1>1. /\ h \in Controls /\ h \in C /\ In(q.ctl) \subseteq C /\ h.sapi \in Sapis
      /\ h.t \in {"RR", "UA", "DISC", "SABM"} /\ (h.t = "UA" => h.sapi = 3)
      /\ OneSabm(p.ctl) => OneSabm(q.ctl) /\ (h.t = "SABM" => NoSabm(In(q.ctl)))
  BY OwedIs
<1>2. Alive(n, p) /\ SabmMsg(p) /\ OneSabm(p.ctl) /\ Space(n, 6)
  BY DEF Linked, Alive, Held, CtlRoom
<1>3. /\ PhoneOk(q) /\ SamePart(p, q) /\ q.vr = p.vr /\ q.una = p.una /\ q.out = p.out /\ q.ctl = Tail(p.ctl)
      /\ q.at = p.at /\ q.why = p.why
  BY DEF Owed, SamePart
<1>4. CASE p.at = "sabm"
  <2>1. h.t = "SABM" /\ Alive(LapdmUplink(n, h), q)
    BY <1>2, <1>3, <1>4, OpenAlive
  <2> QED  BY <2>1 DEF OnAir
<1>5. CASE p.at # "sabm"
  <2> HIDE DEF h, C
  <2>1. p.at \in {"on", "tune"}
    BY <1>5 DEF Live
  <2>2. Alive(n, q)
    <3>1. In(q.ctl) \subseteq In(p.ctl)
      BY <1>1 DEF C
    <3> QED  BY <1>1, <1>2, <1>3, <1>5, <3>1, LessAlive
  <2>3. h.t # "RR" => p.at = "on"
    BY <1>1, <1>2, <2>1 DEF Alive, Sync, C
  <2>4. CASE h.t = "RR"
    <3>1. h.sapi = 3 => NoOpen(In(n.q), 3)
      BY <1>1, <1>2 DEF Alive, Link3, Still, C
    <3>2. f.t = "RR" /\ f.sapi = h.sapi /\ f.nr = q.vr[h.sapi]
      BY <1>3, <2>4 DEF OnAir
    <3>3. m = AckPending(n, h.sapi, q.vr[h.sapi])
      <4> HIDE DEF f
      <4> QED  BY <3>2, UplinkArms
    <3>4. Tells(n, h.sapi)
      <4>1. h = [t |-> "RR", sapi |-> h.sapi]
        BY <1>1, <2>4 DEF Controls
      <4> QED  BY <1>1, <4>1 DEF RrTells, C
    <3> QED  BY <1>1, <1>2, <1>3, <2>1, <2>2, <3>1, <3>3, <3>4, RrAlive DEF m, f, h
  <2>5. CASE h.t = "UA"
    <3>1. f = h /\ h.sapi = 3 /\ q.at = "on"
      BY <1>1, <1>3, <2>3, <2>5 DEF OnAir
    <3>2. m = UaArm(n, 3)
      <4> HIDE DEF f
      <4> QED  BY <2>5, <3>1, UaArmIs
    <3>3. ~Sabm(In(q.ctl), 3)
      <4>1. ~Sabm(C, 3)
        BY <1>1, <1>2, <2>5, <3>1 DEF Alive, Link3, Asked3, C
      <4> QED  BY <1>1, <4>1 DEF Sabm
    <3>4. n.link[3].ua # "NONE" => SpaceFor(n, 3, Longest)
      BY UpSets DEF CtlRoom
    <3>5. LET l == UaArm(n, 3)
          IN  /\ Legal(l) /\ Chan(n, l) /\ SameCall(n, l) /\ Step(n, l, I(3, {"SEGMENT", "CP_DATA"}), Longest)
              /\ n.svc # "MT_SMS" \/ n.reg # "MM_ACTIVE" => l.q = n.q
      BY <3>4, UpSets, UaIs DEF UaArm
    <3> HIDE DEF m
    <3>6. Alive(m, q)
      BY <1>3, <2>2, <3>1, <3>2, <3>3, <3>5, UaAlive
    <3> QED  BY <3>6 DEF m, f, h
  <2>6. CASE h.t = "DISC"
    BY <1>1, <1>2, <2>6 DEF Alive, Held, C
  <2>7. CASE h.t = "SABM"
    <3>1. f = h /\ p.at = "on" /\ q.at = "on"
      BY <1>3, <2>3, <2>7 DEF OnAir
    <3>2. h.sapi = 3 /\ h.msg = "NONE"
      <4>1. h.sapi # 0
        BY <1>1, <1>2, <2>7, <3>1 DEF Alive, Sync, Sabm, C
      <4>2. h.sapi = 3
        BY <1>1, <4>1, UpSets
      <4> QED  BY <1>1, <1>2, <2>7, <4>2 DEF SabmMsg, C
    <3>3. Asked3(n, p)
      <4>1. Sabm(C, 3)
        BY <1>1, <2>7, <3>2 DEF Sabm
      <4> QED  BY <1>2, <4>1 DEF Alive, Link3, C
    <3>4. Still(q) /\ NoI(In(n.q), 3) /\ NoOpen(In(n.q), 3)
      BY <1>1, <1>2, <1>3, <2>7, <3>3 DEF Asked3, Still, NoSabm, C
    <3>5. ~Unused3(n, q)
      <4>1. ~Unused3(n, p)
        BY <1>1, <1>2, <3>2 DEF Alive, Link3, Blank, Still, C
      <4> QED  BY <1>3, <4>1 DEF Unused3
    <3>6. Space(n, 1)
      BY <1>2, SpaceLess
    <3>7. Legal(m) /\ Chan(n, m) /\ SameCall(n, m) /\ Opened(n, m, 3, Ua(3))
      <4>1. m = LapdmSabm(n, h)
        <5> HIDE DEF f
        <5> QED  BY <2>7, <3>1, UplinkArms
      <4> HIDE DEF m
      <4>2. \E up : /\ Legal(up) /\ Chan(n, up) /\ SameCall(n, up)
                    /\ Space(n, 1) => Opened(n, up, h.sapi, [t |-> "UA", sapi |-> h.sapi])
                    /\ m = IF h.msg = "NONE" THEN up ELSE NetEstablished(up, h.msg)
        BY <1>1, <2>7, <4>1, LapdmSabmIs
      <4> QED  BY <3>2, <3>6, <4>2 DEF Ua
    <3> HIDE DEF m
    <3>8. Alive(m, q)
      BY <1>3, <2>2, <3>1, <3>4, <3>5, <3>7, SabmAlive
    <3> QED  BY <3>8 DEF m, f, h
  <2> QED  BY <1>1, <2>4, <2>5, <2>6, <2>7
<1> QED  BY <1>4, <1>5

\* The numbers go round from the next one as they do from this one.
LEMMA ModShift ==
    ASSUME NEW x \in Nums
    PROVE  \A i \in Nat : (Next_(x) + i) % Modulus = (x + 1 + i) % Modulus
<1>1. x + 1 \in Nat
  BY DEF Nums
<1> QED  BY <1>1, ModPlus DEF Next_

\* A frame leaves the queue.
Pulled(n, m) ==
    /\ Legal(n) /\ Legal(m) /\ n.q # <<>> /\ m.q = Tail(n.q) /\ m.link = n.link
    /\ m.conf = n.conf /\ m.rel = n.rel /\ SameCall(n, m)

\* The head of the queue has the number the phone expects next; the others follow.
LEMMA TracksTail ==
    ASSUME NEW n, NEW m, Pulled(n, m), NEW s \in Sapis, NEW from \in Nums, Tracks(n, s, from, 0)
    PROVE  LET h == Head(n.q)
           IN  /\ ~IsI(h, s) => Tracks(m, s, from, 0)
               /\ IsI(h, s) => h.ns = from /\ Tracks(m, s, Next_(from), 0)
<1> DEFINE h == Head(n.q)
           w == Info(n.q, s)
           v == Info(m.q, s)
           k == n.link[s]
           x == Len(w)
           y == Len(v)
           a == Len(k.acks)
<1>1. n.q \in Seq(Frame) /\ n.q # <<>> /\ x \in Nat /\ y \in Nat /\ a \in Nat /\ m.link[s] = k /\ m.q = Tail(n.q)
  BY LegalFields DEF Pulled
<1>2. /\ ~IsI(h, s) => w = v
      /\ IsI(h, s) => x = y + 1 /\ w[1] = h /\ \A i \in 1 .. y : w[i + 1] = v[i]
  BY <1>1, InfoTail
<1>3. /\ \A i \in 1 .. x : w[i].ns = (from + i - 1) % Modulus
      /\ k.vs = (from + x) % Modulus /\ x + 0 <= a
      /\ \A i \in 1 .. x : k.acks[a - x + i] = [rs |-> Next_(w[i].ns), kind |-> w[i].kind]
      /\ x < a => k.acks[a - x].rs = from
  BY DEF Tracks
<1>4. ~IsI(h, s) => Tracks(m, s, from, 0)
  BY <1>1, <1>2, <1>3 DEF Tracks
<1>5. ASSUME IsI(h, s)
      PROVE  h.ns = from /\ Tracks(m, s, Next_(from), 0)
  <2> HIDE DEF h, w, v, k, x, y, a
  <2>1. x = y + 1 /\ w[1] = h /\ \A i \in 1 .. y : w[i + 1] = v[i]
    BY <1>2, <1>5
  <2>2. from \in Nat /\ Modulus \in Nat \ {0} /\ from < Modulus
    BY Rom6Assumption DEF Nums
  <2>3. h.ns = from
    <3>1. w[1].ns = (from + 1 - 1) % Modulus
      BY <1>1, <1>3, <2>1
    <3>2. from % Modulus = from
      BY <2>2
    <3> QED  BY <2>1, <2>2, <3>1, <3>2
  <2>4. \A i \in Nat : (Next_(from) + i) % Modulus = (from + 1 + i) % Modulus
    BY ModShift
  <2>5. ASSUME NEW i \in 1 .. y
        PROVE  v[i].ns = (Next_(from) + i - 1) % Modulus
    <3>1. i + 1 \in 1 .. x /\ w[i + 1] = v[i] /\ i - 1 \in Nat
      BY <1>1, <2>1
    <3>2. w[i + 1].ns = (from + (i + 1) - 1) % Modulus
      BY <1>3, <3>1
    <3>3. Next_(from) \in Nat
      BY NumsNext DEF Nums
    <3>4. Next_(from) + (i - 1) = Next_(from) + i - 1 /\ from + 1 + (i - 1) = from + (i + 1) - 1
      BY <2>2, <3>3
    <3> QED  BY <2>4, <3>1, <3>2, <3>4
  <2>6. k.vs = (Next_(from) + y) % Modulus
    <3>1. from + x = from + 1 + y
      BY <1>1, <2>1, <2>2
    <3> QED  BY <1>1, <1>3, <2>4, <3>1
  <2>7. y + 0 <= a
    BY <1>1, <1>3, <2>1
  <2>8. ASSUME NEW i \in 1 .. y
        PROVE  k.acks[a - y + i] = [rs |-> Next_(v[i].ns), kind |-> v[i].kind]
    <3>1. i + 1 \in 1 .. x /\ w[i + 1] = v[i] /\ a - x + (i + 1) = a - y + i
      BY <1>1, <2>1, SMTT(30)
    <3> QED  BY <1>3, <3>1
  <2>10. ASSUME y < a PROVE k.acks[a - y].rs = Next_(from)
    <3>1. 1 \in 1 .. x /\ a - x + 1 = a - y
      BY <1>1, <2>1
    <3>2. k.acks[a - x + 1] = [rs |-> Next_(w[1].ns), kind |-> w[1].kind]
      BY <1>3, <3>1
    <3> QED  BY <2>1, <2>3, <3>1, <3>2
  <2>9. /\ \A i \in 1 .. Len(v) : v[i].ns = (Next_(from) + i - 1) % Modulus
        /\ k.vs = (Next_(from) + Len(v)) % Modulus
        /\ Len(v) + 0 <= Len(k.acks)
        /\ \A i \in 1 .. Len(v) :
              k.acks[Len(k.acks) - Len(v) + i] = [rs |-> Next_(v[i].ns), kind |-> v[i].kind]
        /\ Len(v) < Len(k.acks) => k.acks[Len(k.acks) - Len(v)].rs = Next_(from)
    BY <2>5, <2>6, <2>7, <2>8, <2>10 DEF y, a
  <2>11. m.link[s] = k
    BY <1>1
  <2> QED  BY <2>3, <2>9, <2>11 DEF Tracks, v
<1> QED  BY <1>4, <1>5

\* The phone that has left the channel sends what it still owes.
LEMMA DeadUplink ==
    ASSUME NEW n, Legal(n), CtlRoom(n), NEW p, PhoneOk(p), SabmMsg(p), Dead(n, p), ~Live(p), p.ctl # <<>>,
           NEW q, Owed(p, q)
    PROVE  Dead(LapdmUplink(n, OnAir(p, Head(p.ctl))), q)
<1> DEFINE h == Head(p.ctl)
           C == In(p.ctl)
           f == OnAir(p, h)
           m == LapdmUplink(n, f)
           F == In(n.q)
           G == In(m.q)
<1>1. /\ h \in Controls /\ h \in C /\ In(q.ctl) \subseteq C /\ h.sapi \in Sapis
      /\ h.t \in {"RR", "UA", "DISC", "SABM"} /\ (h.t = "UA" => h.sapi = 3)
  BY OwedIs
<1>2. \A g \in F : g.t # "SABM"
  BY DEF Dead
<1>3. q.at = "off"
  <2>1. p \in Phone
    BY PhoneFields
  <2>2. p.at \in {"idle", "rach", "off"}
    BY <2>1 DEF Phone, Live, Places
  <2> QED  BY <2>2 DEF Dead, Owed, SamePart
<1>4. ~Sabm(In(q.ctl), 0)
  BY <1>1 DEF Dead, Sabm
<1>5. Space(n, 1) /\ Space(n, 2) /\ (n.link[3].ua # "NONE" => SpaceFor(n, 3, Longest))
  BY SpaceLess, UpSets DEF CtlRoom
<1>6. \A g \in G : g.t # "SABM"
  <2> HIDE DEF h, C
  <2>1. CASE h.t = "RR"
    <3>1. f.t = "RR" /\ f.sapi = h.sapi /\ f.nr = p.vr[h.sapi]
      BY <2>1 DEF OnAir
    <3>2. m = AckPending(n, h.sapi, p.vr[h.sapi])
      <4> HIDE DEF f
      <4> QED  BY <3>1, UplinkArms
    <3>3. p.vr[h.sapi] \in Nums
      BY <1>1, PhoneFields
    <3> HIDE DEF m
    <3>4. Adds(n, m, RelFrames)
      BY <1>1, <1>5, <3>2, <3>3, AckIs
    <3>5. \A g \in RelFrames : g.t = "I"
      BY DEF RelFrames, I, IFrame
    <3> QED  BY <1>2, <3>4, <3>5 DEF Adds
  <2>2. CASE h.t = "UA"
    <3>1. f = h /\ h.sapi = 3
      BY <1>1, <2>2 DEF OnAir
    <3>2. m = UaArm(n, 3)
      <4> HIDE DEF f
      <4> QED  BY <2>2, <3>1, UaArmIs
    <3>3. LET l == UaArm(n, 3) IN Step(n, l, I(3, {"SEGMENT", "CP_DATA"}), Longest)
      BY <1>5, UpSets, UaIs DEF UaArm
    <3> HIDE DEF m
    <3>4. Adds(n, m, I(3, {"SEGMENT", "CP_DATA"}))
      BY <3>2, <3>3 DEF Step
    <3>5. \A g \in I(3, {"SEGMENT", "CP_DATA"}) : g.t = "I"
      BY DEF I, IFrame
    <3> QED  BY <1>2, <3>4, <3>5 DEF Adds
  <2>3. CASE h.t = "DISC"
    <3>1. f = h
      BY <2>3 DEF OnAir
    <3>2. m = [SendUa(n, h.sapi) EXCEPT !.rel = TRUE]
      <4>1. f.t = "DISC" /\ f.sapi = h.sapi
        BY <2>3, <3>1
      <4> HIDE DEF f
      <4> QED  BY <4>1 DEF LapdmUplink
    <3>3. LET l == [SendUa(n, h.sapi) EXCEPT !.rel = TRUE]
          IN  In(l.q) = F \cup {[t |-> "UA", sapi |-> h.sapi]}
      BY <1>1, <1>5, DiscIs
    <3> HIDE DEF m
    <3> QED  BY <1>2, <3>2, <3>3
  <2>4. CASE h.t = "SABM"
    <3>1. h.sapi = 3 /\ h.msg = "NONE" /\ f = h
      <4>1. h.sapi # 0
        BY <1>1, <2>4 DEF Dead, Sabm, C
      <4>2. h.sapi = 3
        BY <1>1, <4>1, UpSets
      <4> QED  BY <1>1, <2>4, <4>2 DEF SabmMsg, C, OnAir
    <3>2. m = LapdmSabm(n, h)
      <4> HIDE DEF f
      <4> QED  BY <2>4, <3>1, UplinkArms
    <3> HIDE DEF m
    <3>3. \E up : /\ Legal(up) /\ Chan(n, up) /\ SameCall(n, up)
                  /\ Space(n, 1) => Opened(n, up, h.sapi, [t |-> "UA", sapi |-> h.sapi])
                  /\ m = IF h.msg = "NONE" THEN up ELSE NetEstablished(up, h.msg)
      BY <1>1, <2>4, <3>2, LapdmSabmIs
    <3>4. G = F \cup {[t |-> "UA", sapi |-> h.sapi]}
      BY <1>5, <3>1, <3>3 DEF Opened
    <3> QED  BY <1>2, <3>4
  <2> QED  BY <1>1, <2>1, <2>2, <2>3, <2>4
<1> QED  BY <1>3, <1>4, <1>6 DEF Dead

\* What a queue keeps when its first frame leaves.
LEMMA PulledIs ==
    ASSUME NEW n, NEW m, Pulled(n, m)
    PROVE  LET h == Head(n.q)
               F == In(n.q)
               G == In(m.q)
           IN  /\ h \in Frame /\ F = G \cup {h} /\ G \subseteq F /\ h \in F
               /\ \A s : (NoI(F, s) => NoI(G, s)) /\ (NoOpen(F, s) => NoOpen(G, s))
               /\ \A s : ~Opens(h, s) => (NoOpen(G, s) <=> NoOpen(F, s))
               /\ \A K : Only(F, K) => Only(G, K)
               /\ \A k : Has(G, k) => Has(F, k)
               /\ Kinds(F) => Kinds(G)
               /\ Order(n.q) => Order(m.q) /\ \A g \in G : Ok(h, g)
<1>1. n.q \in Seq(Frame) /\ n.q # <<>> /\ m.q = Tail(n.q)
  BY LegalFields DEF Pulled
<1> DEFINE h == Head(n.q)
           F == In(n.q)
           G == In(m.q)
<1>2. h \in Frame /\ F = G \cup {h}
  BY <1>1, InTail
<1>3. Order(n.q) => Order(m.q) /\ \A g \in G : Ok(h, g)
  BY <1>1, OrderTail
<1> HIDE DEF h, F, G
<1>4. G \subseteq F /\ h \in F
  BY <1>2
<1>5. \A s : ~Opens(h, s) => (NoOpen(G, s) <=> NoOpen(F, s))
  BY <1>2 DEF NoOpen
<1>6. /\ \A s : (NoI(F, s) => NoI(G, s)) /\ (NoOpen(F, s) => NoOpen(G, s))
      /\ \A K : Only(F, K) => Only(G, K)
      /\ \A k : Has(G, k) => Has(F, k)
      /\ Kinds(F) => Kinds(G)
  BY <1>4, Subsets
<1> QED  BY <1>2, <1>3, <1>4, <1>5, <1>6 DEF h, F, G

\* The frames at the head of a live queue that the phone can meet.
LEMMA HeadFrom ==
    ASSUME NEW n, NEW m, Pulled(n, m), NEW p, Alive(n, p), Live(p), NEW s \in Sapis, IsI(Head(n.q), s), PhoneOk(p)
    PROVE  /\ NoOpen(In(n.q), s) /\ p.at = "on" /\ Head(n.q).ns = p.vr[s]
           /\ Tracks(m, s, Next_(p.vr[s]), 0)
<1> DEFINE h == Head(n.q)
           F == In(n.q)
           G == In(m.q)
<1>1. h \in F /\ F = G \cup {h} /\ \A g \in G : Ok(h, g)
  BY PulledIs DEF Alive, Held
<1> HIDE DEF h, F, G
<1>2. NoOpen(F, s)
  <2>1. \A g \in G : ~Opens(g, s)
    BY <1>1 DEF Ok, h
  <2>2. ~Opens(h, s)
    BY DEF IsI, Opens, h
  <2> QED  BY <1>1, <2>1, <2>2 DEF NoOpen
<1>3. ~NoI(F, s)
  BY <1>1 DEF NoI, h
<1>4. p.at = "on"
  <2>1. s = 0 \/ s = 3
    BY UpSets
  <2> QED  BY <1>2, <1>3, <2>1 DEF Alive, Sync, Opening0, Link3, Unused3, Blank, Live, F
<1>5. p.vr[s] \in Nums /\ Tracks(n, s, p.vr[s], 0)
  <2>1. s = 0 \/ s = 3
    BY UpSets
  <2>2. p.vr[s] \in Nums
    BY PhoneFields
  <2> QED  BY <1>2, <1>4, <2>1, <2>2 DEF Alive, Sync, From3, F
<1> QED  BY <1>2, <1>4, <1>5, TracksTail DEF F, h

\* The phone takes what its acknowledge says, and with information the frame's number.
Eased(p, c, h) ==
    \E a : /\ Ackd(p, a, h.sapi) /\ PhoneOk(c) /\ SamePart(a, c) /\ c.out = a.out /\ c.una = a.una
           /\ OneSabm(a.ctl) => OneSabm(c.ctl)
           /\ \/ h.t = "RR" /\ c = a
              \/ /\ IsI(h, h.sapi) /\ In(c.ctl) = In(a.ctl) \cup {Rr0(h.sapi)}
                 /\ c.vr[h.sapi] = Next_(p.vr[h.sapi]) /\ \A o \in Sapis : o # h.sapi => c.vr[o] = p.vr[o]

\* The phone asks for the link for short messages.
Asks(n, p, c) ==
    /\ Blank(n, p) /\ n.reg # "IDLE" /\ p.at = "on" /\ p.why = "CM_SMS" /\ ~Has(In(n.q), "CIPHER_COMMAND")
    /\ p.out[0] = <<>> /\ c.una[0] = "NONE"
\* The same, as the links see it.
Easy(n, p, c, h) ==
    /\ SamePart(p, c) /\ c.out = p.out /\ \A o \in Sapis : c.una[o] \in {p.una[o], "NONE"}
    /\ OneSabm(c.ctl) /\ SabmMsg(c)
    /\ h.t = "RR" => c.vr = p.vr /\ (p.at \in {"sabm", "tune"} => c.ctl = p.ctl)
    /\ h.t # "RR" => /\ c.vr[h.sapi] = Next_(p.vr[h.sapi])
                     /\ \A o \in Sapis : o # h.sapi => c.vr[o] = p.vr[o]
    /\ \A g \in In(c.ctl) : \/ g \in In(p.ctl)
                            \/ g = Rr0(h.sapi) /\ h.t = "I"
                            \/ g = Sabm3 /\ Asks(n, p, c)
\* What the phone takes is easy on its links.
LEMMA EasyIs ==
    ASSUME NEW n, NEW p, PhoneOk(p), Alive(n, p), Live(p), SabmMsg(p), NEW h \in Frame, NEW c, Eased(p, c, h)
    PROVE  Easy(n, p, c, h) /\ PhoneOk(c)
<1>1. PICK a : /\ Ackd(p, a, h.sapi) /\ PhoneOk(c) /\ SamePart(a, c) /\ c.out = a.out /\ c.una = a.una
               /\ OneSabm(a.ctl) => OneSabm(c.ctl)
               /\ \/ h.t = "RR" /\ c = a
                  \/ /\ IsI(h, h.sapi) /\ In(c.ctl) = In(a.ctl) \cup {Rr0(h.sapi)}
                     /\ c.vr[h.sapi] = Next_(p.vr[h.sapi]) /\ \A o \in Sapis : o # h.sapi => c.vr[o] = p.vr[o]
  BY DEF Eased
<1>2. /\ SamePart(p, a) /\ a.out = p.out /\ a.vr = p.vr
      /\ \A o \in Sapis : a.una[o] \in {p.una[o], "NONE"}
      /\ \/ a.ctl = p.ctl
         \/ /\ p.why = "CM_SMS" /\ h.sapi = 0 /\ p.una[h.sapi] # "NONE" /\ a.una[h.sapi] = "NONE"
            /\ In(a.ctl) = In(p.ctl) \cup {Sabm3} /\ (NoSabm(In(p.ctl)) => OneSabm(a.ctl))
  BY <1>1 DEF Ackd
<1>3. SamePart(p, c)
  BY <1>1, <1>2 DEF SamePart
<1>4. \A o \in Sapis : c.una[o] \in {p.una[o], "NONE"}
  BY <1>1, <1>2
<1>5. a.ctl # p.ctl => Asks(n, p, c) /\ NoSabm(In(p.ctl))
  <2> SUFFICES ASSUME a.ctl # p.ctl
               PROVE  Asks(n, p, c) /\ NoSabm(In(p.ctl))
    OBVIOUS
  <2>1. p.why = "CM_SMS" /\ p.una[0] # "NONE" /\ c.una[0] = "NONE" /\ 0 \in Sapis
    BY <1>1, <1>2, UpSets
  <2>2. p.at = "on"
    <3>1. p.at # "tune"
      <4>1. InCall(n) => p.why = "CM_CALL"
        BY SvcWhy DEF InCall, Alive, Held
      <4> QED  BY <2>1, <4>1 DEF Alive, Call, Moves
    <3> QED  BY <2>1, <3>1 DEF Alive, Sync, Live
  <2>3. Blank(n, p)
    BY <2>1 DEF Alive, Link3, Unused3
  <2>4. n.reg # "IDLE" /\ ~Has(In(n.q), "CIPHER_COMMAND")
    BY <2>1 DEF Alive, Unasked, Cipher
  <2>5. p.out[0] = <<>>
    BY <2>1 DEF Alive, Sms
  <2>6. NoSabm(In(p.ctl))
    <3>1. \A g \in In(p.ctl) : g.sapi = 0 \/ g.sapi = 3
      <4>1. \A g \in Controls : g.sapi \in Sapis
        BY UpSets DEF Controls
      <4> QED  BY <4>1, UpSets, PhoneFields
    <3> QED  BY <2>2, <2>3, <3>1 DEF NoSabm, Blank, Still, Alive, Sync, Sabm
  <2> QED  BY <2>1, <2>2, <2>3, <2>4, <2>5, <2>6 DEF Asks
<1>6. OneSabm(c.ctl)
  BY <1>1, <1>2, <1>5 DEF Alive, Held
<1>7. \A g \in In(c.ctl) : \/ g \in In(p.ctl)
                           \/ g = Rr0(h.sapi) /\ h.t = "I"
                           \/ g = Sabm3 /\ Asks(n, p, c)
  <2>1. \A g \in In(a.ctl) : g \in In(p.ctl) \/ (g = Sabm3 /\ Asks(n, p, c))
    <3>1. CASE a.ctl = p.ctl
      BY <3>1
    <3>2. CASE a.ctl # p.ctl
      <4>1. In(a.ctl) = In(p.ctl) \cup {Sabm3}
        BY <1>2, <3>2
      <4> QED  BY <1>5, <3>2, <4>1
    <3> QED  BY <3>1, <3>2
  <2>2. \A g \in In(c.ctl) : g \in In(a.ctl) \/ (g = Rr0(h.sapi) /\ h.t = "I")
    <3>1. CASE c = a
      BY <3>1
    <3>2. CASE IsI(h, h.sapi) /\ In(c.ctl) = In(a.ctl) \cup {Rr0(h.sapi)}
      BY <3>2 DEF IsI
    <3> QED  BY <1>1, <3>1, <3>2
  <2> QED  BY <2>1, <2>2
<1>8. SabmMsg(c)
  <2>1. Rr0(h.sapi).t = "RR" /\ Sabm3.msg = "NONE"
    BY DEF Rr0, Sabm3
  <2> QED  BY <1>7, <2>1 DEF SabmMsg
<1>9. h.t = "RR" => c.vr = p.vr /\ (p.at \in {"sabm", "tune"} => c.ctl = p.ctl)
  BY <1>1, <1>2, <1>5 DEF Asks, IsI
<1>10. h.t # "RR" => /\ c.vr[h.sapi] = Next_(p.vr[h.sapi])
                     /\ \A o \in Sapis : o # h.sapi => c.vr[o] = p.vr[o]
  BY <1>1
<1> QED  BY <1>1, <1>2, <1>3, <1>4, <1>6, <1>7, <1>8, <1>9, <1>10 DEF Easy

\* The head of the queue is gone and taken: the phone is in step with the rest.
LEMMA EasyAlive ==
    ASSUME NEW n, NEW m, Pulled(n, m), NEW p, PhoneOk(p), Alive(n, p), Live(p), NEW c,
           Easy(n, p, c, Head(n.q)), Head(n.q).t \in {"RR", "I"}
    PROVE  Alive(m, c)
<1> DEFINE h == Head(n.q)
           F == In(n.q)
           G == In(m.q)
<1>1. /\ h \in Frame /\ F = G \cup {h} /\ G \subseteq F /\ h \in F
      /\ \A s : (NoI(F, s) => NoI(G, s)) /\ (NoOpen(F, s) => NoOpen(G, s))
      /\ \A s : ~Opens(h, s) => (NoOpen(G, s) <=> NoOpen(F, s))
      /\ \A K : Only(F, K) => Only(G, K)
      /\ \A k : Has(G, k) => Has(F, k)
      /\ Kinds(F) => Kinds(G)
      /\ Order(n.q) => Order(m.q) /\ \A g \in G : Ok(h, g)
  BY PulledIs
<1>2. h.t \in {"RR", "I"} /\ h.sapi \in Sapis /\ (h.t = "I" => IsI(h, h.sapi)) /\ Easy(n, p, c, h)
      /\ (h.t = "RR" => ~IsI(h, 0) /\ ~IsI(h, 3))
  BY <1>1, FrameFields DEF IsI
<1>3. \A s \in Sapis : IsI(h, s) => /\ NoOpen(F, s) /\ p.at = "on" /\ h.ns = p.vr[s]
                                    /\ Tracks(m, s, Next_(p.vr[s]), 0)
  BY HeadFrom
<1>4. \A s \in Sapis, from \in Nums : Tracks(n, s, from, 0) /\ ~IsI(h, s) => Tracks(m, s, from, 0)
  BY TracksTail
<1> HIDE DEF h, F, G
<1>5. \A s : ~Opens(h, s)
  BY <1>2 DEF Opens
<1>6. \A s : NoOpen(G, s) <=> NoOpen(F, s)
  BY <1>1, <1>5
<1>7. /\ c.at = p.at /\ c.why = p.why /\ c.call = p.call /\ c.out = p.out /\ m.reg = n.reg /\ m.svc = n.svc
      /\ m.call = n.call /\ m.setup = n.setup /\ m.conf = n.conf /\ m.rel = n.rel
      /\ \A o \in Sapis : c.una[o] \in {p.una[o], "NONE"}
      /\ 0 \in Sapis /\ 3 \in Sapis /\ p.vr[0] \in Nums /\ p.vr[3] \in Nums /\ 0 \in Nums
  <2>1. 0 \in Nums
    BY Rom6Assumption DEF Nums
  <2> QED  BY <1>2, <2>1, UpSets, PhoneFields DEF Easy, SamePart, Pulled, SameCall
<1>8. \A g \in In(c.ctl) : \/ g \in In(p.ctl)
                           \/ g = Rr0(h.sapi) /\ h.t = "I"
                           \/ g = Sabm3 /\ Asks(n, p, c)
  BY <1>2 DEF Easy
<1>9. Rr0(h.sapi).t = "RR" /\ Rr0(h.sapi).sapi = h.sapi /\ Sabm3.t = "SABM" /\ Sabm3.sapi = 3 /\ Sabm3.msg = "NONE"
  BY DEF Rr0, Sabm3
<1>10. Held(m, c)
  <2>1. \A g \in In(c.ctl) : g.t # "DISC"
    BY <1>8, <1>9 DEF Alive, Held
  <2>2. OneSabm(c.ctl)
    BY <1>2 DEF Easy
  <2> QED  BY <1>1, <1>7, <2>1, <2>2 DEF Alive, Held, F, G
<1>11. Sync(m, c)
  <2>1. Tracks(m, 3, From3(m, c), 0)
    <3>1. Tracks(n, 3, From3(n, p), 0) /\ From3(n, p) \in Nums
      BY <1>7 DEF Alive, Sync, From3
    <3>2. CASE IsI(h, 3)
      <4>1. c.vr[3] = Next_(p.vr[3])
        BY <1>2, <3>2 DEF Easy, IsI
      <4> QED  BY <1>3, <1>6, <1>7, <3>2, <4>1 DEF From3, G
    <3>3. CASE ~IsI(h, 3)
      <4>1. c.vr[3] = p.vr[3]
        BY <1>2, <1>7, <3>3 DEF Easy, IsI
      <4>2. From3(m, c) = From3(n, p)
        BY <1>6, <4>1 DEF From3, F, G
      <4> QED  BY <1>4, <1>7, <3>1, <3>3, <4>2
    <3> QED  BY <3>2, <3>3
  <2>2. p.at = "on" => Tracks(m, 0, c.vr[0], 0) /\ NoOpen(G, 0) /\ ~Sabm(In(c.ctl), 0)
    <3> SUFFICES ASSUME p.at = "on"
                 PROVE  Tracks(m, 0, c.vr[0], 0) /\ NoOpen(G, 0) /\ ~Sabm(In(c.ctl), 0)
      OBVIOUS
    <3>1. Tracks(n, 0, p.vr[0], 0) /\ NoOpen(F, 0) /\ ~Sabm(In(p.ctl), 0)
      BY DEF Alive, Sync, F
    <3>2. CASE IsI(h, 0)
      <4>1. c.vr[0] = Next_(p.vr[0])
        BY <1>2, <3>2 DEF Easy, IsI
      <4>2. Tracks(m, 0, c.vr[0], 0)
        BY <1>3, <1>7, <3>2, <4>1
      <4>3. ~Sabm(In(c.ctl), 0)
        BY <1>8, <1>9, <3>1 DEF Sabm
      <4> QED  BY <1>6, <3>1, <4>2, <4>3
    <3>3. CASE ~IsI(h, 0)
      <4>1. c.vr[0] = p.vr[0]
        BY <1>2, <1>7, <3>3 DEF Easy, IsI
      <4>2. Tracks(m, 0, c.vr[0], 0)
        BY <1>4, <1>7, <3>1, <3>3, <4>1
      <4>3. ~Sabm(In(c.ctl), 0)
        BY <1>8, <1>9, <3>1 DEF Sabm
      <4> QED  BY <1>6, <3>1, <4>2, <4>3
    <3> QED  BY <3>2, <3>3
  <2>3. p.at # "on" => h.t = "RR"
    BY <1>2, <1>3
  <2>4. p.at = "tune" => /\ NoI(G, 0) /\ NoOpen(G, 0)
                         /\ \A g \in In(c.ctl) : g.t = "RR" /\ g.sapi = 0
    <3>1. p.at = "tune" => c.ctl = p.ctl
      BY <1>2, <2>3 DEF Easy
    <3> QED  BY <1>1, <3>1 DEF Alive, Sync, F
  <2>5. p.at = "sabm" => c.una[0] = "NONE" /\ Opening0(m, c)
    <3> SUFFICES ASSUME p.at = "sabm"
                 PROVE  c.una[0] = "NONE" /\ Opening0(m, c)
      OBVIOUS
    <3>1. c.ctl = p.ctl /\ ~IsI(h, 0)
      BY <1>2, <2>3 DEF Easy
    <3>2. p.una[0] = "NONE" /\ Opening0(n, p)
      BY DEF Alive, Sync
    <3>3. Tracks(n, 0, 0, 0) => Tracks(m, 0, 0, 0)
      BY <1>4, <1>7, <3>1
    <3>4. Opening0(m, c)
      BY <1>1, <1>6, <1>7, <3>1, <3>2, <3>3 DEF Opening0, F, G
    <3> QED  BY <1>7, <3>2, <3>4
  <2> QED  BY <1>7, <2>1, <2>2, <2>4, <2>5 DEF Sync, G
<1>12. Unused3(m, c) => Unused3(n, p)
  <2>1. (c.una[0] # "NONE" => p.una[0] # "NONE") /\ (Has(G, "CIPHER_COMMAND") => Has(F, "CIPHER_COMMAND"))
    BY <1>1, <1>7
  <2> QED  BY <1>7, <2>1 DEF Unused3, F, G
<1>13. Link3(m, c)
  <2>1. p.una[3] = "NONE" => c.una[3] = "NONE"
    BY <1>7
  <2>2. CASE IsI(h, 3)
    <3>1. ~NoI(F, 3) /\ NoOpen(G, 3)
      BY <1>1, <1>3, <1>6, <1>7, <2>2 DEF NoI
    <3>2. ~Blank(n, p) /\ ~Asked3(n, p)
      BY <3>1 DEF Blank, Asked3, F
    <3>3. ~Sabm(In(c.ctl), 3)
      BY <1>8, <1>9, <3>2 DEF Alive, Link3, Asks, Sabm
    <3> QED  BY <1>12, <3>1, <3>2, <3>3 DEF Alive, Link3, G
  <2>3. CASE ~IsI(h, 3)
    <3>1. \A g \in In(c.ctl) : g \in In(p.ctl) \/ (g.t = "RR" /\ g.sapi = 0) \/ (g = Sabm3 /\ Asks(n, p, c))
      <4>1. h.t = "I" => h.sapi = 0
        BY <1>2, <2>3, UpSets
      <4> QED  BY <1>8, <1>9, <4>1
    <3>2. Asks(n, p, c) => ~Unused3(m, c)
      <4>1. Has(G, "CIPHER_COMMAND") => Has(F, "CIPHER_COMMAND")
        BY <1>1
      <4> QED  BY <1>7, <4>1 DEF Asks, Unused3, F, G
    <3>3. ~NoOpen(G, 3) => Still(c)
      <4>1. ~NoOpen(G, 3) => Still(p) /\ ~Asks(n, p, c)
        BY <1>6 DEF Alive, Link3, Asks, Blank, F
      <4> QED  BY <1>7, <2>1, <3>1, <4>1 DEF Still
    <3>4. Sabm(In(c.ctl), 3) => Asked3(m, c)
      <4>1. ASSUME Sabm(In(c.ctl), 3)
            PROVE  Asked3(n, p) \/ Asks(n, p, c)
        BY <3>1, <4>1 DEF Sabm, Alive, Link3
      <4>2. Asked3(n, p) \/ Asks(n, p, c) =>
              /\ p.out[3] = <<>> /\ p.una[3] = "NONE" /\ (\A g \in In(p.ctl) : g.sapi = 3 => g.t = "SABM")
              /\ NoI(F, 3) /\ NoOpen(F, 3)
        BY DEF Asked3, Asks, Blank, Still, F
      <4>3. (\A g \in In(p.ctl) : g.sapi = 3 => g.t = "SABM") => \A g \in In(c.ctl) : g.sapi = 3 => g.t = "SABM"
        BY <1>9, <3>1
      <4> QED  BY <1>1, <1>7, <2>1, <4>1, <4>2, <4>3 DEF Asked3, G
    <3>5. Unused3(m, c) => Blank(m, c)
      <4>1. ASSUME Unused3(m, c)
            PROVE  Blank(n, p) /\ \A g \in In(c.ctl) : g \in In(p.ctl) \/ (g.t = "RR" /\ g.sapi = 0)
        BY <1>12, <3>1, <3>2, <4>1 DEF Alive, Link3
      <4> QED  BY <1>1, <1>7, <2>1, <4>1 DEF Blank, Still, F, G
    <3> QED  BY <3>3, <3>4, <3>5 DEF Link3, G
  <2> QED  BY <2>2, <2>3
<1>14. Sms(m, c)
  <2>1. Sms(n, p)
    BY DEF Alive
  <2>2. c.una[0] \in {p.una[0], "NONE"}
    BY <1>7
  <2> QED  BY <1>1, <1>7, <2>1, <2>2 DEF Sms, F, G
<1>15. Said(c) \subseteq Said(p) \cup {"NONE"} /\ "NONE" \in PreMsg
  BY <1>7 DEF Said, PreMsg
<1>16. Cipher(m, c)
  <2>1. Cipher(n, p)
    BY DEF Alive
  <2>2. c.una[0] \in {p.una[0], "NONE"}
    BY <1>7
  <2>3. m.reg \in Ciphers => /\ Only(G, {"CIPHER_COMMAND"}) /\ c.call = "no"
                             /\ Said(c) \subseteq PreMsg \cup {"EMERGENCY_SETUP"}
                             /\ c.why = "CM_CALL" => Said(c) \subseteq PreMsg
    BY <1>1, <1>7, <1>15, <2>1 DEF Cipher, F
  <2>4. Has(G, "CIPHER_COMMAND") => m.reg \in Ciphers /\ c.out[0] = <<>> /\ c.una[0] = "NONE"
    BY <1>1, <1>7, <2>1, <2>2 DEF Cipher, F
  <2> QED  BY <2>3, <2>4 DEF Cipher, G
<1>17. Call(m, c)
  <2>1. (Early(m) => Early(n)) /\ (InCall(n) => InCall(m)) /\ (Listens(p) => Listens(c))
    BY <1>7, <1>15 DEF Early, InCall, Listens
  <2>2. Moves(c) => Moves(p)
    BY <1>7, <1>8, <1>9 DEF Moves
  <2> QED  BY <1>1, <1>7, <2>1, <2>2 DEF Alive, Call, F, G
<1>18. Unasked(m, c)
  BY <1>1, <1>7 DEF Alive, Unasked, F, G
<1> QED  BY <1>10, <1>11, <1>13, <1>14, <1>16, <1>17, <1>18 DEF Alive

\* What is under way on the main link is not disturbed by a frame that leaves the queue.
LEMMA RestAlive ==
    ASSUME NEW n, NEW m, Pulled(n, m), NEW p, Sms(n, p), Cipher(n, p), Call(n, p), NEW q,
           q.why = p.why, q.call = p.call, q.at = p.at \/ (p.at # "on" /\ q.at # "tune"),
           q.out[0] = p.out[0], q.una[0] \in {p.una[0], "NONE"},
           \A g \in In(q.ctl) : g \in In(p.ctl) \/ (g.t = "SABM" => g.msg # "ASSIGNMENT_COMPLETE")
    PROVE  Sms(m, q) /\ Cipher(m, q) /\ Call(m, q)
<1> DEFINE F == In(n.q)
           G == In(m.q)
<1>1. (\A K : Only(F, K) => Only(G, K)) /\ (\A k : Has(G, k) => Has(F, k))
  BY PulledIs
<1>2. m.reg = n.reg /\ m.svc = n.svc /\ m.call = n.call /\ m.setup = n.setup
  BY DEF Pulled, SameCall
<1>3. Said(q) \subseteq Said(p) \cup {"NONE"} /\ "NONE" \in PreMsg
  BY DEF Said, PreMsg
<1>4. Sms(m, q)
  BY <1>1 DEF Sms
<1>5. Cipher(m, q)
  <2>1. m.reg \in Ciphers => /\ Only(G, {"CIPHER_COMMAND"}) /\ q.call = "no"
                             /\ Said(q) \subseteq PreMsg \cup {"EMERGENCY_SETUP"}
                             /\ q.why = "CM_CALL" => Said(q) \subseteq PreMsg
    BY <1>1, <1>2, <1>3 DEF Cipher
  <2>2. Has(G, "CIPHER_COMMAND") => m.reg \in Ciphers /\ q.out[0] = <<>> /\ q.una[0] = "NONE"
    BY <1>1, <1>2 DEF Cipher
  <2> QED  BY <2>1, <2>2 DEF Cipher
<1>6. Call(m, q)
  <2>1. (Early(m) => Early(n)) /\ (InCall(n) => InCall(m)) /\ (Listens(p) => Listens(q))
    BY <1>2, <1>3 DEF Early, InCall, Listens
  <2>2. Moves(q) => Moves(p)
    BY DEF Moves
  <2> QED  BY <1>1, <2>1, <2>2 DEF Call
<1> QED  BY <1>4, <1>5, <1>6

\* The link for short messages is opened, by the network or with its answer.
LEMMA Open3Alive ==
    ASSUME NEW n, NEW m, Pulled(n, m), NEW p, PhoneOk(p), Alive(n, p), Live(p), Opens(Head(n.q), 3),
           NEW q, SamePart(p, q), q.out[0] = p.out[0], q.vr[0] = p.vr[0], q.una[0] = p.una[0],
           q.vr[3] = 0, In(q.ctl) \subseteq In(p.ctl) \cup {Ua(3)}, OneSabm(p.ctl) => OneSabm(q.ctl)
    PROVE  Alive(m, q)
<1> DEFINE h == Head(n.q)
           F == In(n.q)
           G == In(m.q)
<1>1. /\ h \in Frame /\ h \in F /\ G \subseteq F
      /\ \A s : NoOpen(F, s) => NoOpen(G, s)
      /\ \A k : Has(G, k) => Has(F, k)
      /\ Kinds(F) => Kinds(G)
      /\ Order(n.q) => Order(m.q) /\ \A g \in G : Ok(h, g)
  BY PulledIs
<1>2. \A s \in Sapis, from \in Nums : Tracks(n, s, from, 0) /\ ~IsI(h, s) => Tracks(m, s, from, 0)
  BY TracksTail
<1> HIDE DEF h
<1>3. Opens(h, 3) /\ ~NoOpen(F, 3) /\ \A s \in Sapis : ~IsI(h, s)
  BY <1>1 DEF Opens, NoOpen, IsI, h
<1>4. 0 \in Sapis /\ 3 \in Sapis /\ p.vr[0] \in Nums /\ 0 \in Nums
  <2>1. 0 \in Nums
    BY Rom6Assumption DEF Nums
  <2> QED  BY <2>1, UpSets, PhoneFields
<1>5. m.reg = n.reg /\ m.svc = n.svc /\ m.conf = n.conf /\ m.rel = n.rel
  BY DEF Pulled, SameCall
<1>6. Still(p) /\ ~Blank(n, p) /\ ~Asked3(n, p)
  BY <1>3 DEF Alive, Link3, Blank, Asked3
<1>7. ~Unused3(n, p) /\ ~Sabm(In(p.ctl), 3)
  BY <1>6 DEF Alive, Link3
<1>8. p.at = "on" /\ n.reg # "IDLE" /\ q.at = "on" /\ q.why = p.why /\ q.call = p.call
  BY <1>7 DEF Unused3, Live, SamePart
<1>9. Ua(3).t = "UA"
  BY DEF Ua
<1>10. NoOpen(G, 3)
  <2>1. \A g \in G : Ok(h, g)
    BY <1>1 DEF Alive, Held
  <2> QED  BY <1>3, <1>4, <2>1 DEF Ok, NoOpen
<1>11. Held(m, q)
  <2>1. \A g \in In(q.ctl) : g.t # "DISC"
    BY <1>9 DEF Alive, Held
  <2> QED  BY <1>1, <1>5, <1>8, <2>1 DEF Alive, Held
<1>12. Sync(m, q)
  <2>1. Tracks(m, 3, From3(m, q), 0)
    BY <1>2, <1>3, <1>4, <1>10 DEF Alive, Sync, From3
  <2>2. Tracks(m, 0, q.vr[0], 0) /\ NoOpen(G, 0)
    BY <1>1, <1>2, <1>3, <1>4, <1>8 DEF Alive, Sync
  <2>3. ~Sabm(In(q.ctl), 0)
    BY <1>8, <1>9 DEF Alive, Sync, Sabm
  <2> QED  BY <1>8, <2>1, <2>2, <2>3 DEF Sync
<1>13. Link3(m, q)
  <2>1. ~Sabm(In(q.ctl), 3)
    BY <1>7, <1>9 DEF Sabm
  <2>2. ~Unused3(m, q)
    BY <1>1, <1>5, <1>7, <1>8 DEF Unused3
  <2> QED  BY <1>10, <2>1, <2>2 DEF Link3
<1>14. Sms(m, q) /\ Cipher(m, q) /\ Call(m, q)
  BY <1>8, <1>9, RestAlive DEF Alive
<1>15. Unasked(m, q)
  BY <1>5, <1>8 DEF Unasked
<1> QED  BY <1>11, <1>12, <1>13, <1>14, <1>15 DEF Alive

\* The network's answer opens the main link.
LEMMA Open0Alive ==
    ASSUME NEW n, NEW m, Pulled(n, m), NEW p, PhoneOk(p), Alive(n, p), p.at = "sabm", Opens(Head(n.q), 0),
           NEW q, q.at = "on", q.why = p.why, q.call = p.call, q.ctl = p.ctl, q.out = p.out,
           q.vr[0] = 0, q.una[0] = "NONE", q.vr[3] = p.vr[3], q.una[3] = p.una[3]
    PROVE  Alive(m, q)
<1> DEFINE h == Head(n.q)
           F == In(n.q)
           G == In(m.q)
<1>1. /\ h \in Frame /\ h \in F /\ G \subseteq F
      /\ \A s : (NoI(F, s) => NoI(G, s)) /\ (NoOpen(F, s) => NoOpen(G, s))
      /\ \A k : Has(G, k) => Has(F, k)
      /\ Kinds(F) => Kinds(G)
      /\ Order(n.q) => Order(m.q) /\ \A g \in G : Ok(h, g)
  BY PulledIs
<1>2. \A s \in Sapis, from \in Nums : Tracks(n, s, from, 0) /\ ~IsI(h, s) => Tracks(m, s, from, 0)
  BY TracksTail
<1> HIDE DEF h
<1>3. Opens(h, 0) /\ ~NoOpen(F, 0) /\ \A s \in Sapis : ~IsI(h, s)
  BY <1>1 DEF Opens, NoOpen, IsI, h
<1>4. 0 \in Sapis /\ 3 \in Sapis /\ p.vr[3] \in Nums /\ 0 \in Nums
  <2>1. 0 \in Nums
    BY Rom6Assumption DEF Nums
  <2> QED  BY <2>1, UpSets, PhoneFields
<1>5. m.reg = n.reg /\ m.svc = n.svc /\ m.conf = n.conf /\ m.rel = n.rel
  BY DEF Pulled, SameCall
<1>6. p.ctl = <<>> /\ Tracks(n, 0, 0, 0)
  BY <1>3 DEF Alive, Sync, Opening0
<1>7. In(q.ctl) = {}
  BY <1>6, InTuples
<1>8. NoOpen(G, 0)
  <2>1. \A g \in G : Ok(h, g)
    BY <1>1 DEF Alive, Held
  <2> QED  BY <1>3, <1>4, <2>1 DEF Ok, NoOpen
<1>9. Blank(n, p)
  BY DEF Alive, Link3, Unused3
<1>10. Blank(m, q)
  BY <1>1, <1>7, <1>9 DEF Blank, Still
<1>11. Held(m, q)
  BY <1>1, <1>5 DEF Alive, Held
<1>12. Sync(m, q)
  <2>1. Tracks(m, 3, From3(m, q), 0)
    BY <1>2, <1>3, <1>4, <1>9, <1>10 DEF Alive, Sync, From3, Blank
  <2>2. Tracks(m, 0, q.vr[0], 0)
    BY <1>2, <1>3, <1>4, <1>6
  <2> QED  BY <1>7, <1>8, <2>1, <2>2 DEF Sync, Sabm
<1>13. Link3(m, q)
  BY <1>7, <1>10 DEF Link3, Blank, Sabm
<1>14. Sms(m, q) /\ Cipher(m, q) /\ Call(m, q)
  BY <1>7, RestAlive DEF Alive
<1>15. Unasked(m, q)
  <2>1. \A s \in Sapis : q.una[s] = "NONE" \/ q.una[s] = p.una[s]
    BY UpSets
  <2> QED  BY <1>1, <1>5, <2>1 DEF Alive, Unasked
<1> QED  BY <1>11, <1>12, <1>13, <1>14, <1>15 DEF Alive

\* What the phone says first, once it has taken the cipher command.
LEMMA CipherReactAlive ==
    ASSUME NEW m, NEW c, Alive(m, c), c.at = "on", m.reg \in Ciphers, ~Has(In(m.q), "CIPHER_COMMAND"),
           c.why = "CM_SMS" => Blank(m, c), c.out[0] = <<>>, c.una[0] = "NONE",
           NEW q, SameLinks(c, q), SamePart(c, q), q.ctl = c.ctl, q.out[3] = c.out[3],
           In(q.out[0]) \subseteq (PreMsg \ {"NONE"}) \cup {"EMERGENCY_SETUP"},
           c.why = "CM_CALL" => In(q.out[0]) \subseteq PreMsg \ {"NONE"},
           c.why = "CM_SMS" => q.out[0] = <<"CIPHER_COMPLETE">>
    PROVE  Alive(m, q)
<1>1. /\ q.at = c.at /\ q.why = c.why /\ q.call = c.call /\ q.vr = c.vr /\ q.una = c.una
      /\ m.reg # "MM_ACTIVE" /\ m.reg # "IDLE"
  BY DEF SamePart, SameLinks, Ciphers
<1>2. Held(m, q)
  BY <1>1 DEF Alive, Held
<1>3. Sync(m, q)
  <2>1. From3(m, q) = From3(m, c)
    BY <1>1 DEF From3
  <2> QED  BY <1>1, <2>1 DEF Alive, Sync
<1>4. Link3(m, q)
  <2>1. (Still(c) => Still(q)) /\ (Asked3(m, c) => Asked3(m, q))
    BY <1>1 DEF Still, Asked3
  <2>2. Blank(m, c) => Blank(m, q)
    BY <2>1 DEF Blank
  <2>3. Unused3(m, q) => Unused3(m, c) \/ c.why = "CM_SMS"
    BY <1>1 DEF Unused3
  <2> QED  BY <2>1, <2>2, <2>3 DEF Alive, Link3
<1>5. Sms(m, q)
  BY <1>1 DEF Alive, Sms
<1>6. Cipher(m, q)
  <2>1. Said(q) \subseteq PreMsg \cup {"EMERGENCY_SETUP"} /\ (q.why = "CM_CALL" => Said(q) \subseteq PreMsg)
    <3>1. "NONE" \in PreMsg
      BY DEF PreMsg
    <3> QED  BY <1>1, <3>1 DEF Said
  <2>2. Only(In(m.q), {"CIPHER_COMMAND"}) /\ q.call = "no"
    BY <1>1 DEF Alive, Cipher
  <2> QED  BY <2>1, <2>2 DEF Cipher
<1>7. Call(m, q)
  <2>1. ~Early(m) /\ ~InCall(m)
    BY <1>1 DEF Early, InCall
  <2>2. Moves(q) => Moves(c)
    BY <1>1 DEF Moves
  <2> QED  BY <2>1, <2>2 DEF Alive, Call
<1>8. Unasked(m, q)
  BY <1>1 DEF Unasked
<1> QED  BY <1>2, <1>3, <1>4, <1>5, <1>6, <1>7, <1>8 DEF Alive

\* The phone sets out for the traffic channel.
LEMMA TuneAlive ==
    ASSUME NEW m, NEW c, Alive(m, c), PhoneOk(c), c.at = "on", InCall(m), c.call = "no", NoI(In(m.q), 0),
           c.why # "CM_SMS",
           NEW q, SameLinks(c, q), q.at = "tune", q.why = c.why, q.call = c.call, q.ctl = c.ctl, q.out = c.out
    PROVE  Alive(m, q)
<1>1. /\ q.vr = c.vr /\ q.una = c.una /\ m.reg = "MM_ACTIVE" /\ m.reg # "IDLE" /\ m.reg \notin Ciphers
  BY DEF SameLinks, InCall, Ciphers
<1>2. Held(m, q)
  BY DEF Alive, Held
<1>3. Blank(m, c)
  <2>1. c.why = "CM_CALL"
    BY SvcWhy DEF InCall, Alive, Held
  <2> QED  BY <2>1 DEF Alive, Link3, Unused3
<1>4. \A g \in In(c.ctl) : g.t = "RR" /\ g.sapi = 0
  <2>1. \A g \in Controls : g.t \in {"RR", "UA", "DISC", "SABM"} /\ g.sapi \in Sapis /\ (g.t = "UA" => g.sapi = 3)
    BY UpSets DEF Controls
  <2>2. \A g \in In(c.ctl) : g.sapi # 3 /\ g.t # "DISC" /\ ~(g.t = "SABM" /\ g.sapi = 0)
    BY <1>3 DEF Blank, Still, Alive, Held, Sync, Sabm
  <2>3. \A g \in In(c.ctl) : g \in Controls
    BY PhoneFields
  <2> QED  BY <2>1, <2>2, <2>3, UpSets
<1>5. Sync(m, q)
  <2>1. From3(m, q) = From3(m, c)
    BY <1>1 DEF From3
  <2> QED  BY <1>1, <1>4, <2>1 DEF Alive, Sync
<1>6. Link3(m, q)
  <2>1. Blank(m, q)
    BY <1>1, <1>3 DEF Blank, Still
  <2>2. ~Sabm(In(q.ctl), 3)
    BY <1>4 DEF Sabm
  <2> QED  BY <2>1, <2>2 DEF Link3, Blank
<1>7. \A k : ~Has(In(m.q), k)
  BY NoI0
<1>8. Sms(m, q) /\ Cipher(m, q) /\ Unasked(m, q)
  BY <1>1, <1>7 DEF Sms, Cipher, Unasked
<1>9. Call(m, q)
  BY <1>7 DEF Call, Early, InCall
<1> QED  BY <1>2, <1>5, <1>6, <1>8, <1>9 DEF Alive

\* The phone says something on the link for short messages, which is up.
LEMMA Say3Alive ==
    ASSUME NEW m, NEW c, Alive(m, c), NoOpen(In(m.q), 3), ~Sabm(In(c.ctl), 3), ~Unused3(m, c),
           NEW q, SameLinks(c, q), SamePart(c, q), q.ctl = c.ctl, q.out[0] = c.out[0]
    PROVE  Alive(m, q)
<1>1. q.at = c.at /\ q.why = c.why /\ q.call = c.call /\ q.vr = c.vr /\ q.una = c.una
  BY DEF SamePart, SameLinks
<1>2. Held(m, q)
  BY <1>1 DEF Alive, Held
<1>3. Sync(m, q)
  <2>1. From3(m, q) = From3(m, c)
    BY <1>1 DEF From3
  <2>2. Opening0(m, c) => Opening0(m, q)
    BY <1>1 DEF Opening0
  <2> QED  BY <1>1, <2>1, <2>2 DEF Alive, Sync
<1>4. ~Unused3(m, q)
  BY <1>1 DEF Unused3
<1>5. Link3(m, q)
  BY <1>4 DEF Link3
<1>6. Sms(m, q)
  BY <1>1 DEF Alive, Sms
<1>7. Said(q) = Said(c)
  BY <1>1 DEF Said
<1>8. Cipher(m, q)
  BY <1>1, <1>7 DEF Alive, Cipher
<1>9. Call(m, q)
  <2>1. (Listens(c) => Listens(q)) /\ (Moves(q) => Moves(c))
    BY <1>1, <1>7 DEF Listens, Moves
  <2> QED  BY <1>1, <2>1 DEF Alive, Call
<1>10. Unasked(m, q)
  BY <1>4 DEF Unasked, Unused3
<1> QED  BY <1>2, <1>3, <1>5, <1>6, <1>8, <1>9, <1>10 DEF Alive

\* The message of a frame of information tells its link.
LEMMA KindLink ==
    ASSUME NEW F, Kinds(F), NEW h \in F, h.t = "I", h.sapi \in Sapis
    PROVE  /\ h.kind \in Down0 \ Down3 => IsI(h, 0) /\ Has(F, h.kind)
           /\ h.kind \in Down3 \ Down0 => IsI(h, 3)
<1>1. h.sapi = 0 \/ h.sapi = 3
  BY UpSets
<1>2. IsI(h, 0) => h.kind \in Down0
  BY DEF Kinds
<1>3. IsI(h, 3) => h.kind \in Down3
  BY DEF Kinds
<1>4. h.kind \in Down0 \ Down3 => IsI(h, 0)
  BY <1>1, <1>3 DEF IsI
<1> QED  BY <1>1, <1>2, <1>4 DEF IsI, Has

\* The phone reacts to a message, after its acknowledge: c is the phone between the two.
LEMMA ReactAlive ==
    ASSUME NEW n, NEW m, Pulled(n, m), NEW p, PhoneOk(p), Alive(n, p), p.at = "on", Head(n.q).t = "I",
           NEW c, PhoneOk(c), Easy(n, p, c, Head(n.q)), Alive(m, c),
           NEW q, Reacted(c, q, Head(n.q).kind)
    PROVE  Linked(m, q)
<1> DEFINE h == Head(n.q)
           k == h.kind
           F == In(n.q)
           G == In(m.q)
           Calls == {"MT_CALL_SETUP", "CONNECT", "CONNECT_ACK", "RELEASE"}
<1>1. /\ h \in Frame /\ h \in F /\ G \subseteq F
      /\ \A s : NoOpen(F, s) => NoOpen(G, s)
      /\ \A j : Has(G, j) => Has(F, j)
      /\ Order(n.q) => Order(m.q) /\ \A g \in G : Ok(h, g)
  BY PulledIs
<1>2. \A s \in Sapis : IsI(h, s) => NoOpen(F, s)
  BY HeadFrom DEF Live
<1>3. Easy(n, p, c, h) /\ h.t = "I" /\ Reacted(c, q, k)
  OBVIOUS
<1> HIDE DEF h
<1>4. h.sapi \in Sapis /\ Kinds(F) /\ Order(n.q) /\ 0 \in Sapis /\ 3 \in Sapis
  BY <1>1, FrameFields, UpSets DEF Alive, Held
<1>5. /\ k \in Down0 \ Down3 => IsI(h, 0) /\ Has(F, k)
      /\ k \in Down3 \ Down0 => IsI(h, 3)
  BY <1>1, <1>3, <1>4, KindLink
<1>6. \A g \in G : Ok(h, g)
  BY <1>1, <1>4
<1>7. /\ c.at = "on" /\ c.why = p.why /\ c.call = p.call /\ c.out = p.out /\ SabmMsg(c)
      /\ \A o \in Sapis : c.una[o] \in {p.una[o], "NONE"}
      /\ m.reg = n.reg /\ m.svc = n.svc /\ m.call = n.call /\ m.setup = n.setup
  BY <1>3 DEF Easy, SamePart, Pulled, SameCall
<1>8. /\ PhoneOk(q) /\ SameLinks(c, q) /\ q.why = c.why
  BY <1>3 DEF Reacted
<1>9. ASSUME k \in Calls \cup {"ASSIGNMENT_CMD"}
      PROVE  /\ IsI(h, 0) /\ Has(F, k) /\ n.reg # "IDLE" /\ n.reg \notin Ciphers
             /\ ~Has(G, "CIPHER_COMMAND") /\ c.why # "CM_SMS" /\ ~Early(m) /\ ~Has(G, "ASSIGNMENT_CMD") /\ ~Moves(c)
  <2>1. k \in Down0 \ Down3
    BY <1>9 DEF Down0, Down3
  <2>2. IsI(h, 0) /\ Has(F, k)
    BY <1>5, <2>1
  <2>3. \A K : Only(F, K) => k \in K
    BY <1>1, <2>2 DEF Only
  <2>4. n.reg # "IDLE"
    BY <1>1, <2>2 DEF Alive, Unasked, NoI
  <2>5. n.reg \notin Ciphers
    BY <1>9, <2>3 DEF Alive, Cipher
  <2>6. ~Has(G, "CIPHER_COMMAND")
    BY <1>1, <2>5 DEF Alive, Cipher
  <2>7. c.why # "CM_SMS"
    <3>1. k \notin {"CIPHER_COMMAND", "MM_INFO", "CHAN_REL"}
      BY <1>9
    <3> QED  BY <1>7, <2>3, <3>1 DEF Alive, Sms
  <2>8. ~Early(m)
    <3>1. ~Early(n)
      BY <1>9, <2>3 DEF Alive, Call
    <3> QED  BY <1>7, <3>1 DEF Early
  <2>9. ~Has(G, "ASSIGNMENT_CMD")
    <3>1. CASE k = "ASSIGNMENT_CMD"
      BY <1>6, <2>2, <3>1 DEF Ok, Has
    <3>2. CASE k \in Calls
      <4>1. k \notin {"MM_INFO", "CALL_PROCEEDING", "ASSIGNMENT_CMD"}
        BY <3>2
      <4> QED  BY <1>1, <2>3, <4>1 DEF Alive, Call
    <3> QED  BY <1>9, <3>1, <3>2
  <2>10. ~Moves(c)
    <3>1. \A g \in Controls : g.sapi \in Sapis
      BY UpSets DEF Controls
    <3>2. \A g \in In(c.ctl) : g.sapi = 0 \/ g.sapi = 3
      BY <3>1, UpSets, PhoneFields
    <3>3. \A g \in In(c.ctl) : g.t = "SABM" => g.sapi # 0
      BY <1>7 DEF Alive, Sync, Sabm
    <3> QED  BY <1>7, <3>2, <3>3 DEF Moves, SabmMsg
  <2> QED  BY <2>2, <2>4, <2>5, <2>6, <2>7, <2>8, <2>9, <2>10
<1>10. \/ /\ k = "CIPHER_COMMAND" /\ SamePart(c, q) /\ q.ctl = c.ctl /\ q.out[3] = c.out[3]
          /\ In(q.out[0]) \subseteq In(c.out[0]) \cup (PreMsg \ {"NONE"}) \cup {"EMERGENCY_SETUP"}
          /\ c.why = "CM_CALL" => In(q.out[0]) \subseteq In(c.out[0]) \cup (PreMsg \ {"NONE"})
          /\ c.why = "CM_SMS" /\ c.out[0] = <<>> => q.out[0] = <<"CIPHER_COMPLETE">>
       \/ k \in Calls /\ q.at = c.at /\ q.ctl = c.ctl /\ q.out[3] = c.out[3]
       \/ /\ k = "ASSIGNMENT_CMD" /\ q.ctl = c.ctl /\ q.out[3] = c.out[3] /\ q.call = c.call
          /\ q.at = c.at \/ (q.at = "tune" /\ q.out = c.out)
       \/ k \in {"CP_DATA", "RP_ACK"} /\ SamePart(c, q) /\ q.ctl = c.ctl /\ q.out[0] = c.out[0]
       \/ k = "CHAN_REL" /\ q.at = "off" /\ In(q.ctl) = In(c.ctl) \cup {[t |-> "DISC", sapi |-> 0]}
       \/ q = c
  BY <1>3 DEF Reacted
<1>11. CASE /\ k = "CIPHER_COMMAND" /\ SamePart(c, q) /\ q.ctl = c.ctl /\ q.out[3] = c.out[3]
            /\ In(q.out[0]) \subseteq In(c.out[0]) \cup (PreMsg \ {"NONE"}) \cup {"EMERGENCY_SETUP"}
            /\ c.why = "CM_CALL" => In(q.out[0]) \subseteq In(c.out[0]) \cup (PreMsg \ {"NONE"})
            /\ c.why = "CM_SMS" /\ c.out[0] = <<>> => q.out[0] = <<"CIPHER_COMPLETE">>
  <2>1. IsI(h, 0) /\ Has(F, "CIPHER_COMMAND")
    <3>1. k \in Down0 \ Down3
      BY <1>11 DEF Down0, Down3
    <3> QED  BY <1>5, <1>11, <3>1
  <2>2. n.reg \in Ciphers /\ p.out[0] = <<>> /\ p.una[0] = "NONE"
    BY <2>1 DEF Alive, Cipher
  <2>3. c.out[0] = <<>> /\ c.una[0] = "NONE" /\ In(c.out[0]) = {}
    BY <1>4, <1>7, <2>2, InTuples
  <2>4. ~Has(G, "CIPHER_COMMAND")
    BY <1>6, <1>11, <2>1 DEF Ok, Has
  <2>5. c.why = "CM_SMS" => Blank(m, c)
    <3> SUFFICES ASSUME c.why = "CM_SMS" PROVE Blank(m, c)
      OBVIOUS
    <3>1. ~Asks(n, p, c)
      BY <2>1 DEF Asks
    <3>2. Blank(n, p)
      BY <1>7, <2>1 DEF Alive, Link3, Unused3
    <3>3. h.sapi = 0 /\ Rr0(h.sapi).sapi = h.sapi
      BY <2>1 DEF IsI, Rr0
    <3>4. \A g \in In(c.ctl) : g.sapi # 3
      BY <1>3, <3>1, <3>2, <3>3 DEF Easy, Blank, Still
    <3>5. c.una[3] = "NONE" /\ c.out[3] = <<>>
      BY <1>4, <1>7, <3>2 DEF Blank, Still
    <3>6. NoI(G, 3) /\ NoOpen(G, 3)
      BY <1>1, <3>2 DEF Blank, NoI
    <3> QED  BY <3>4, <3>5, <3>6 DEF Blank, Still
  <2>6. q.at = "on" /\ SabmMsg(q)
    BY <1>7, <1>11 DEF SamePart, SabmMsg
  <2>7. /\ In(q.out[0]) \subseteq (PreMsg \ {"NONE"}) \cup {"EMERGENCY_SETUP"}
        /\ c.why = "CM_CALL" => In(q.out[0]) \subseteq PreMsg \ {"NONE"}
        /\ c.why = "CM_SMS" => q.out[0] = <<"CIPHER_COMPLETE">>
    BY <1>11, <2>3
  <2>8. Alive(m, q)
    BY <1>7, <1>8, <1>11, <2>2, <2>3, <2>4, <2>5, <2>7, CipherReactAlive
  <2> QED  BY <2>6, <2>8 DEF Linked, Live
<1>12. CASE k \in Calls \cup {"ASSIGNMENT_CMD"} /\ q.at = c.at /\ q.ctl = c.ctl /\ q.out[3] = c.out[3]
  <2>1. Alive(m, q)
    BY <1>7, <1>8, <1>9, <1>12, BusyAlive
  <2> QED  BY <1>7, <1>12, <2>1 DEF Linked, Live, SabmMsg
<1>13. CASE k = "ASSIGNMENT_CMD" /\ q.ctl = c.ctl /\ q.call = c.call /\ q.at = "tune" /\ q.out = c.out
  <2>1. NoI(G, 0)
    BY <1>6, <1>9, <1>13 DEF Ok, NoI
  <2>2. InCall(n) /\ p.call = "no"
    BY <1>9, <1>13 DEF Alive, Call, Listens
  <2>3. InCall(m) /\ c.call = "no"
    BY <1>7, <2>2 DEF InCall
  <2>4. Alive(m, q)
    BY <1>7, <1>8, <1>9, <1>13, <2>1, <2>3, TuneAlive
  <2> QED  BY <1>7, <1>13, <2>4 DEF Linked, Live, SabmMsg
<1>14. CASE k \in {"CP_DATA", "RP_ACK"} /\ SamePart(c, q) /\ q.ctl = c.ctl /\ q.out[0] = c.out[0]
  <2>1. IsI(h, 3)
    <3>1. k \in Down3 \ Down0
      BY <1>14 DEF Down0, Down3
    <3> QED  BY <1>5, <3>1
  <2>2. ~Blank(n, p) /\ ~Asked3(n, p)
    BY <1>1, <2>1 DEF Blank, Asked3, NoI
  <2>3. ~Unused3(n, p) /\ ~Sabm(In(p.ctl), 3) /\ ~Asks(n, p, c)
    BY <2>2 DEF Alive, Link3, Asks
  <2>4. NoOpen(G, 3)
    BY <1>1, <1>2, <1>4, <2>1
  <2>5. ~Sabm(In(c.ctl), 3)
    <3>1. Rr0(h.sapi).t = "RR"
      BY DEF Rr0
    <3> QED  BY <1>3, <2>3, <3>1 DEF Easy, Sabm
  <2>6. ~Unused3(m, c)
    <3>1. c.una[0] # "NONE" => p.una[0] # "NONE"
      BY <1>4, <1>7
    <3>2. p.at = "on"
      OBVIOUS
    <3> QED  BY <1>1, <1>7, <2>3, <3>1, <3>2 DEF Unused3
  <2>7. Alive(m, q)
    BY <1>8, <1>14, <2>4, <2>5, <2>6, Say3Alive
  <2> QED  BY <1>7, <1>14, <2>7 DEF Linked, Live, SamePart, SabmMsg
<1>15. CASE k = "CHAN_REL" /\ q.at = "off" /\ In(q.ctl) = In(c.ctl) \cup {[t |-> "DISC", sapi |-> 0]}
  <2>1. IsI(h, 0)
    <3>1. k \in Down0 \ Down3
      BY <1>15 DEF Down0, Down3
    <3> QED  BY <1>5, <3>1
  <2>2. \A g \in G : g.t # "SABM"
    BY <1>6, <1>15, <2>1 DEF Ok
  <2>3. [t |-> "DISC", sapi |-> 0].t = "DISC"
    OBVIOUS
  <2>4. ~Sabm(In(q.ctl), 0)
    BY <1>7, <1>15, <2>3 DEF Alive, Sync, Sabm
  <2>5. SabmMsg(q)
    BY <1>7, <1>15, <2>3 DEF SabmMsg
  <2>6. ~Live(q) /\ Dead(m, q)
    BY <1>15, <2>2, <2>4 DEF Live, Dead
  <2> QED  BY <2>5, <2>6 DEF Linked
<1>16. CASE q = c
  BY <1>7, <1>16 DEF Linked, Live
<1> QED  BY <1>10, <1>11, <1>12, <1>13, <1>14, <1>15, <1>16

\* A frame reaches the phone on its channel.
LEMMA LiveSlot ==
    ASSUME NEW n, NEW m, Pulled(n, m), NEW p, PhoneOk(p), Linked(n, p), Live(p),
           NEW q, PhoneOk(q), Received(p, q, Head(n.q))
    PROVE  Linked(m, q)
<1> DEFINE h == Head(n.q)
           F == In(n.q)
<1>1. h \in Frame /\ h \in F
  BY PulledIs
<1>2. /\ h.t \in {"I", "UA", "SABM", "RR"} /\ h.sapi \in Sapis /\ (h.t = "SABM" => h.sapi = 3)
      /\ 0 \in Sapis /\ 3 \in Sapis
  BY <1>1, FrameFields, UpSets
<1>3. Alive(n, p) /\ SabmMsg(p)
  BY DEF Linked
<1>4. \A s \in Sapis : IsI(h, s) => p.at = "on" /\ h.ns = p.vr[s]
  BY <1>3, HeadFrom
<1>5. Received(p, q, h)
  OBVIOUS
<1> HIDE DEF h
<1>6. h.t = "I" => IsI(h, h.sapi)
  BY DEF IsI
<1>7. CASE /\ h.t = "SABM" /\ SamePart(p, q) /\ q.out = p.out
           /\ In(q.ctl) = In(p.ctl) \cup {Ua(3)} /\ (OneSabm(p.ctl) => OneSabm(q.ctl))
           /\ q.vr[3] = 0 /\ q.una[3] = "NONE" /\ q.vr[0] = p.vr[0] /\ q.una[0] = p.una[0]
  <2>1. Opens(h, 3)
    BY <1>2, <1>7 DEF Opens
  <2>2. Alive(m, q)
    BY <1>3, <1>7, <2>1, Open3Alive DEF h
  <2>3. SabmMsg(q)
    BY <1>3, <1>7 DEF SabmMsg, Ua
  <2> QED  BY <1>7, <2>2, <2>3 DEF Linked, SamePart, Live
<1>8. CASE /\ h.t = "UA" /\ h.sapi = 0 /\ p.at = "sabm" /\ q.at = "on" /\ q.why = p.why /\ q.call = p.call
           /\ q.ctl = p.ctl /\ q.out = p.out
           /\ q.vr[0] = 0 /\ q.una[0] = "NONE" /\ q.vr[3] = p.vr[3] /\ q.una[3] = p.una[3]
  <2>1. Opens(h, 0)
    BY <1>8 DEF Opens
  <2>2. Alive(m, q)
    BY <1>3, <1>8, <2>1, Open0Alive DEF h
  <2> QED  BY <1>3, <1>8, <2>2 DEF Linked, Live, SabmMsg
<1>9. CASE /\ h.t = "UA" /\ h.sapi = 3 /\ p.at = "on" /\ SamePart(p, q) /\ q.ctl = p.ctl /\ q.out[0] = p.out[0]
           /\ q.vr[3] = 0 /\ q.una[3] = "NONE" /\ q.vr[0] = p.vr[0] /\ q.una[0] = p.una[0]
  <2>1. Opens(h, 3)
    BY <1>9 DEF Opens
  <2>2. Alive(m, q)
    BY <1>3, <1>9, <2>1, Open3Alive DEF h
  <2> QED  BY <1>3, <1>9, <2>2 DEF Linked, SamePart, Live, SabmMsg
<1>10. CASE h.t = "UA" /\ p.at = "off" /\ q = Idle(p)
  BY <1>10 DEF Live
<1>11. CASE h.t = "RR" /\ Ackd(p, q, h.sapi)
  <2>1. SamePart(q, q)
    BY DEF SamePart
  <2>2. Eased(p, q, h)
    BY <1>11, <2>1 DEF Eased
  <2>3. Easy(n, p, q, h)
    BY <1>1, <1>3, <2>2, EasyIs
  <2>4. Alive(m, q)
    BY <1>3, <1>11, <2>3, EasyAlive DEF h
  <2> QED  BY <2>3, <2>4 DEF Linked, Live, Easy, SamePart
<1>12. CASE h.t = "I" /\ p.at = "on" /\ h.ns # p.vr[h.sapi]
  BY <1>2, <1>4, <1>6, <1>12
<1>13. CASE h.t = "I" /\ p.at = "on" /\ \E c : Taken(p, c, h.sapi) /\ Reacted(c, q, h.kind)
  <2>1. PICK c : Taken(p, c, h.sapi) /\ Reacted(c, q, h.kind)
    BY <1>13
  <2>2. Eased(p, c, h)
    <3>1. PhoneOk(c) /\ SamePart(p, c) /\ c.out = p.out
          /\ c.vr[h.sapi] = Next_(p.vr[h.sapi]) /\ \A o \in Sapis : o # h.sapi => c.vr[o] = p.vr[o]
      BY <2>1 DEF Taken
    <3>2. PICK a : /\ Ackd(p, a, h.sapi) /\ c.una = a.una /\ In(c.ctl) = In(a.ctl) \cup {Rr0(h.sapi)}
                   /\ OneSabm(a.ctl) => OneSabm(c.ctl)
      BY <2>1 DEF Taken
    <3>3. SamePart(a, c) /\ c.out = a.out
      BY <3>1, <3>2 DEF Ackd, SamePart
    <3> QED  BY <1>6, <1>13, <3>1, <3>2, <3>3 DEF Eased
  <2>3. Easy(n, p, c, h) /\ PhoneOk(c)
    BY <1>1, <1>3, <2>2, EasyIs
  <2>4. Alive(m, c)
    BY <1>3, <1>13, <2>3, EasyAlive DEF h
  <2> QED  BY <1>3, <1>13, <2>1, <2>3, <2>4, ReactAlive DEF h
<1>14. CASE /\ q = p /\ h.t \in {"UA", "I"} /\ (h.t = "I" => p.at # "on")
            /\ h.t = "UA" => p.at # "off" /\ ~(p.at = "sabm" /\ h.sapi = 0) /\ ~(p.at = "on" /\ h.sapi = 3)
  <2>1. h.t # "I"
    BY <1>2, <1>4, <1>6, <1>14
  <2>2. h.t = "UA" /\ (h.sapi = 0 \/ h.sapi = 3)
    BY <1>2, <1>14, <2>1, UpSets
  <2>3. ~NoOpen(F, h.sapi)
    BY <1>1, <2>2 DEF NoOpen, Opens
  <2>4. p.at \in {"sabm", "tune"} => NoOpen(F, 3)
    BY <1>3 DEF Alive, Link3, Unused3, Blank
  <2>5. p.at \in {"on", "tune"} => NoOpen(F, 0)
    BY <1>3 DEF Alive, Sync
  <2> QED  BY <1>14, <2>2, <2>3, <2>4, <2>5 DEF Live
<1> QED  BY <1>5, <1>7, <1>8, <1>9, <1>10, <1>11, <1>12, <1>13, <1>14 DEF Received

\* A frame reaches the phone that has no channel, or leaves it.
LEMMA DeadSlot ==
    ASSUME NEW n, NEW m, Pulled(n, m), NEW p, PhoneOk(p), Linked(n, p), ~Live(p),
           NEW q, PhoneOk(q), Received(p, q, Head(n.q))
    PROVE  SabmMsg(q) /\ Dead(m, q) /\ ~Live(q)
<1> DEFINE h == Head(n.q)
           F == In(n.q)
           G == In(m.q)
<1>1. h \in Frame /\ h \in F /\ G \subseteq F
  BY PulledIs
<1>2. Dead(n, p) /\ SabmMsg(p) /\ h.t # "SABM"
  BY <1>1 DEF Linked, Dead
<1>3. \A g \in G : g.t # "SABM"
  BY <1>1, <1>2 DEF Dead
<1>4. h.sapi \in Sapis
  BY <1>1, FrameFields
<1>5. p.at # "on" /\ p.at # "sabm"
  BY DEF Live
<1>6. CASE q = p
  BY <1>2, <1>3, <1>6 DEF Dead
<1>7. CASE p.at = "off" /\ q = Idle(p)
  <2>1. /\ q.at = "idle" /\ q.ctl = <<>> /\ q.call = "no"
        /\ \A s \in Sapis : q.out[s] = <<>> /\ q.una[s] = "NONE"
    BY <1>7, IdleOk
  <2>2. In(q.ctl) = {}
    BY <2>1, InTuples
  <2> QED  BY <1>3, <2>1, <2>2 DEF Dead, Live, Sabm, SabmMsg
<1>8. CASE Ackd(p, q, h.sapi)
  <2>1. SamePart(p, q) /\ (p.una[h.sapi] = "NONE" => q = p)
        /\ (q.ctl = p.ctl \/ In(q.ctl) = In(p.ctl) \cup {Sabm3})
    BY <1>8 DEF Ackd
  <2>2. CASE p.at \in {"idle", "rach"}
    <3>1. q = p
      BY <1>2, <1>4, <2>1, <2>2 DEF Dead
    <3> QED  BY <1>6, <3>1
  <2>3. CASE p.at \notin {"idle", "rach"}
    <3>1. ~Sabm(In(q.ctl), 0) /\ SabmMsg(q)
      BY <1>2, <2>1 DEF Dead, Sabm, SabmMsg, Sabm3
    <3> QED  BY <1>3, <2>1, <2>3, <3>1 DEF Dead, Live, SamePart
  <2> QED  BY <2>2, <2>3
<1> HIDE DEF h
<1>9. Received(p, q, h)
  BY DEF h
<1> QED  BY <1>2, <1>5, <1>6, <1>7, <1>8, <1>9 DEF Received

-----------------------------------------------------------------------------
(* The actions. *)

\* Room is room for another step, and the phone's next word is not mistaken.
LEMMA RoomIs ==
    ASSUME Typed, Room
    PROVE  /\ CtlRoom(r) /\ RrTells(r, ms)
           /\ \A s \in Sapis : ms.out[s] # <<>> \/ ms.una[s] # "NONE" => Tells(r, s)
<1>1. Len(r.q) \in Nat /\ DedicatedN \in Nat /\ AckN \in Nat
      /\ \A s \in Sapis : Len(r.link[s].acks) \in Nat
  <2>1. Legal(r)
    BY DEF Typed, TypedNet
  <2> QED  BY <2>1, LegalFields, Rom6Assumption
<1>2. Len(r.q) + 6 + 1 <= DedicatedN /\ Len(r.q) + Longest + 1 <= DedicatedN
  <2> DEFINE x == Len(r.q)
  <2>1. x \in Nat /\ x + 9 < DedicatedN
    BY <1>1 DEF Room, Longest
  <2> HIDE DEF x
  <2>2. x + 6 + 1 <= DedicatedN /\ x + 9 + 1 <= DedicatedN
    BY <1>1, <2>1
  <2> QED  BY <2>2 DEF x, Longest
<1>3. CtlRoom(r)
  BY <1>2 DEF CtlRoom, Space, SpaceFor, Room
<1>4. ASSUME NEW s \in Sapis, ms.out[s] # <<>> \/ ms.una[s] # "NONE" \/ [t |-> "RR", sapi |-> s] \in In(ms.ctl)
      PROVE  Tells(r, s)
  <2>1. Told(s)
    BY DEF Room
  <2>2. [t |-> "RR", sapi |-> s] \in In(ms.ctl) => [t |-> "RR", sapi |-> s] \in Range(ms.ctl)
    <3>1. ms.ctl \in Seq(Controls)
      BY PhoneFields DEF Typed, TypedNet
    <3>2. DOMAIN ms.ctl = 1 .. Len(ms.ctl)
      BY <3>1
    <3> QED  BY <3>2 DEF In, Range
  <2> QED  BY <1>4, <2>1, <2>2 DEF Told, Tells
<1> QED  BY <1>3, <1>4 DEF RrTells

\* The service queue, its paging and the phone's part in it are nothing to the links.
LEMMA QueueLinked ==
    ASSUME Typed, Linked(r, ms), NEW o \in Offers, QueueIncoming(o)
    PROVE  Linked(r', ms')
<1> DEFINE m == Queue(r, o)
<1>1. r \in Engine /\ Len(r.inq) < IncomingN
  BY DEF Typed, TypedNet, Legal
<1>2. Queueing(r, m)
  BY <1>1, QueueOffer
<1>3. r' = m /\ ms' = ms
  BY DEF QueueIncoming
<1> HIDE DEF m
<1>4. SamePart(ms, ms)
  BY DEF SamePart
<1> QED  BY <1>2, <1>3, <1>4, OtherLinked DEF Queueing

\* A paging block is nothing to the links.
LEMMA BlockLinked ==
    ASSUME Typed, Linked(r, ms), PagingBlock
    PROVE  Linked(r', ms')
<1>1. r \in Engine /\ r.page.on /\ ms \in Phone
  BY DEF Typed, TypedNet, Legal, PhoneOk, PagingBlock
<1>2. Queueing(r, r')
  <2>1. LET last == r.page.bursts + 1 >= Bursts
        IN  r' = [r EXCEPT !.page.bursts = IF last /\ r.page.cycles + 1 < Cycles THEN 0 ELSE @ + 1,
                          !.page.cycles = IF last THEN @ + 1 ELSE @,
                          !.page.on = ~last \/ r.page.cycles + 1 < Cycles]
    BY DEF PagingBlock
  <2> QED  BY <1>1, <2>1, BlockIs
<1>3. SamePart(ms, ms') /\ (ms').vr = ms.vr /\ (ms').una = ms.una /\ (ms').out = ms.out /\ (ms').ctl = ms.ctl
  <2>1. PICK heard \in BOOLEAN : ms' = [ms EXCEPT !.paged = @ \/ (heard /\ ms.at = "idle")]
    BY DEF PagingBlock
  <2> QED  BY <1>1, <2>1 DEF Phone, SamePart
<1> QED  BY <1>2, <1>3, OtherLinked DEF Queueing

\* Random access: the phone waits for its channel.
LEMMA RachLinked ==
    ASSUME Typed, Linked(r, ms), NEW why \in Reasons, Rach(why)
    PROVE  Linked(r', ms')
<1>1. r \in Engine /\ ms \in Phone /\ ms.at = "idle"
  BY DEF Typed, TypedNet, Legal, PhoneOk, Rach
<1>2. Queueing(r, r')
  <2>1. r' = [r EXCEPT !.page.answered = @ \/ r.page.on]
    BY DEF Rach
  <2> QED  BY <1>1, <2>1, RachIs
<1>3. /\ (ms').at = "rach" /\ (ms').why = why /\ (ms').call = ms.call /\ (ms').una = ms.una
      /\ (ms').out = ms.out /\ (ms').ctl = ms.ctl
  <2> DEFINE own == IF why = "PAGING_RESPONSE" THEN ms.own ELSE ms.own + 1
  <2>1. ms' = [ms EXCEPT !.at = "rach", !.why = why, !.paged = FALSE, !.own = own]
    BY DEF Rach
  <2> HIDE DEF own
  <2> QED  BY <1>1, <2>1 DEF Phone
<1>4. Dead(r, ms) /\ SabmMsg(ms)
  BY <1>1 DEF Linked, Live
<1>5. Dead(r', ms')
  BY <1>1, <1>2, <1>3, <1>4 DEF Dead, Queueing
<1> QED  BY <1>3, <1>4, <1>5 DEF Linked, Live, SabmMsg

\* Nothing waits on a new channel.
LEMMA NewTracks ==
    ASSUME NEW n, n.q = <<>>, NEW s \in Sapis, n.link[s].vs = 0, n.link[s].acks = <<>>
    PROVE  Tracks(n, s, 0, 0)
<1>1. Modulus \in Nat \ {0}
  BY Rom6Assumption
<1>2. n.q \in Seq(Frame) /\ In(n.q) = {}
  BY InTuples
<1>3. Info(n.q, s) = <<>>
  BY <1>2, InfoType
<1>4. Len(Info(n.q, s)) = 0 /\ Len(n.link[s].acks) = 0
  BY <1>3
<1>5. (0 + 0) % Modulus = 0
  BY <1>1
<1> DEFINE x == Len(Info(n.q, s))
<1>6. x = 0
  BY <1>4
<1> HIDE DEF x
<1>7. 1 .. x = {}
  BY <1>6
<1>8. 0 = (0 + x) % Modulus /\ x + 0 <= Len(n.link[s].acks) /\ ~(x < Len(n.link[s].acks))
  BY <1>4, <1>5, <1>6
<1> QED  BY <1>7, <1>8 DEF Tracks, x

\* The phone takes its channel: the request goes out first.
LEMMA SdcchLinked ==
    ASSUME Typed, Linked(r, ms), ConfigureSdcch
    PROVE  Linked(r', ms')
<1>0. PICK size \in Sizes : r' = Channel(r, size) /\ ms' = Begun(ms)
  BY DEF ConfigureSdcch, Channel, Begun, Sabm0
<1> DEFINE n == Channel(r, size)
           q == Begun(ms)
<1>1. Legal(r) /\ PhoneOk(ms) /\ ms.at = "rach"
  BY DEF Typed, TypedNet, ConfigureSdcch
<1>2. Dead(r, ms)
  BY <1>1 DEF Linked, Live
<1>3. /\ n.conf /\ ~n.rel /\ n.q = <<>> /\ n.reg = "IDLE" /\ n.svc = "NONE"
      /\ \A s \in Sapis : n.link[s].vs = 0 /\ n.link[s].acks = <<>>
  BY <1>1, ChannelIs
<1>4. /\ q.at = "sabm" /\ q.why = ms.why /\ q.call = "no" /\ q.ctl = <<Sabm0(ms.why)>>
      /\ \A s \in Sapis : q.vr[s] = 0 /\ q.una[s] = "NONE" /\ q.out[s] = <<>>
  BY <1>1, <1>2, BegunIs DEF Dead
<1>5. r' = n /\ ms' = q
  BY <1>0
<1> HIDE DEF n, q
<1>6. q.why \in Reasons /\ q.why # "ASSIGNMENT_COMPLETE"
  <2>1. DOMAIN CmService = {"CM_CALL", "CM_EMERGENCY", "CM_SMS"}
    BY DEF CmService
  <2> QED  BY <1>1, <1>2, <1>4, <2>1 DEF Dead, Reasons
<1>7. 0 \in Sapis /\ 3 \in Sapis
  BY UpSets
<1>8. In(n.q) = {} /\ In(q.ctl) = {Sabm0(q.why)} /\ Len(q.ctl) = 1 /\ Len(n.q) = 0
  BY <1>3, <1>4, InTuples
<1>9. Sabm0(q.why).t = "SABM" /\ Sabm0(q.why).sapi = 0 /\ Sabm0(q.why).msg = q.why
  BY DEF Sabm0
<1>10. /\ \A s : NoI(In(n.q), s) /\ NoOpen(In(n.q), s)
       /\ (\A K : Only(In(n.q), K)) /\ (\A k : ~Has(In(n.q), k)) /\ Kinds(In(n.q))
  BY <1>8 DEF NoI, NoOpen, Only, Has, Kinds
<1>11. Held(n, q)
  <2>1. \A i, j \in 1 .. 1 : i = j
    OBVIOUS
  <2>2. OneSabm(q.ctl)
    BY <1>8, <2>1 DEF OneSabm
  <2>3. Order(n.q)
    <3>1. 1 .. 0 = {}
      OBVIOUS
    <3> QED  BY <1>8, <3>1 DEF Order
  <2>4. "NONE" \in Of[q.why]
    <3>1. q.why \in {"PAGING_RESPONSE", "LU_REQUEST", "CM_CALL", "CM_EMERGENCY", "CM_SMS"}
      BY <1>6 DEF Reasons, CmService
    <3> QED  BY <3>1 DEF Of
  <2> QED  BY <1>3, <1>6, <1>8, <1>9, <1>10, <2>2, <2>3, <2>4 DEF Held
<1>12. Sync(n, q)
  <2>1. Tracks(n, 3, 0, 0) /\ From3(n, q) = 0
    BY <1>3, <1>4, <1>7, NewTracks DEF From3
  <2>2. Opening0(n, q)
    BY <1>3, <1>4, <1>6, <1>10 DEF Opening0
  <2> QED  BY <1>4, <1>7, <2>1, <2>2 DEF Sync
<1>13. Blank(n, q) /\ ~Sabm(In(q.ctl), 3)
  BY <1>4, <1>7, <1>8, <1>9, <1>10 DEF Blank, Still, Sabm
<1>14. Link3(n, q)
  BY <1>13 DEF Link3, Blank
<1>15. Sms(n, q)
  BY <1>4, <1>7, <1>10 DEF Sms
<1>16. Cipher(n, q)
  BY <1>3, <1>10 DEF Cipher, Ciphers
<1>17. Call(n, q)
  BY <1>3, <1>4, <1>6, <1>8, <1>9, <1>10 DEF Call, Early, Moves
<1>18. Unasked(n, q)
  BY <1>4, <1>10 DEF Unasked
<1>19. Alive(n, q)
  BY <1>11, <1>12, <1>14, <1>15, <1>16, <1>17, <1>18 DEF Alive
<1>20. SabmMsg(q)
  BY <1>8, <1>9 DEF SabmMsg
<1> QED  BY <1>4, <1>5, <1>19, <1>20 DEF Linked, Live

\* It is on the traffic channel and opens its link there.
LEMMA TchLinked ==
    ASSUME Typed, Linked(r, ms), ConfigureTch
    PROVE  Linked(r', ms')
<1>1. Legal(r) /\ PhoneOk(ms) /\ ms.at = "tune"
  BY DEF Typed, TypedNet, ConfigureTch
<1>2. Alive(r, ms)
  BY <1>1 DEF Linked, Live
<1> DEFINE n == [r EXCEPT !.tch = TRUE]
<1>3. /\ n.q = r.q /\ n.link = r.link /\ n.conf = r.conf /\ n.rel = r.rel /\ SameCall(r, n)
  BY <1>1, TchIs
<1>4. PICK again \in {<<>>, <<"SETUP_UDI">>} : ms' = Tuned(ms, again)
  BY DEF ConfigureTch, Tuned, Sabm0
<1> DEFINE q == Tuned(ms, again)
<1>5. /\ q.at = "sabm" /\ q.why = ms.why /\ q.call = "no"
      /\ q.ctl = <<Sabm0("ASSIGNMENT_COMPLETE")>> /\ q.out[3] = <<>>
      /\ \A s \in Sapis : q.vr[s] = ms.vr[s] /\ q.una[s] = "NONE"
  BY <1>1, TunedIs
<1>6. r' = n /\ ms' = q
  BY <1>4 DEF ConfigureTch
<1> HIDE DEF n, q
<1>7. 0 \in Sapis /\ 3 \in Sapis
  BY UpSets
<1> DEFINE b == Sabm0("ASSIGNMENT_COMPLETE")
<1>8. b.t = "SABM" /\ b.sapi = 0 /\ b.msg = "ASSIGNMENT_COMPLETE"
  BY DEF Sabm0
<1>9. In(q.ctl) = {b} /\ Len(q.ctl) = 1
  BY <1>5, InTuples
<1> HIDE DEF b
<1>10. InCall(r) /\ ms.why = "CM_CALL"
  <2>1. InCall(r)
    BY <1>1, <1>2 DEF Alive, Call, Moves
  <2> QED  BY <1>2, <2>1, SvcWhy DEF InCall, Alive, Held
<1>11. n.reg = "MM_ACTIVE" /\ InCall(n) /\ n.reg \notin Ciphers /\ n.reg # "IDLE" /\ n.svc = r.svc
  BY <1>3, <1>10 DEF SameCall, InCall, Ciphers
<1>12. NoI(In(n.q), 0) /\ NoOpen(In(n.q), 0) /\ \A k : ~Has(In(n.q), k)
  <2>1. NoI(In(n.q), 0) /\ NoOpen(In(n.q), 0)
    BY <1>1, <1>2, <1>3 DEF Alive, Sync
  <2> QED  BY <2>1, NoI0
<1>13. Held(n, q)
  <2>1. \A i, j \in 1 .. 1 : i = j
    OBVIOUS
  <2>2. OneSabm(q.ctl)
    BY <1>9, <2>1 DEF OneSabm
  <2> QED  BY <1>2, <1>3, <1>5, <1>8, <1>9, <1>11, <2>2 DEF Alive, Held
<1>14. Sync(n, q)
  <2>1. Tracks(n, 3, From3(n, q), 0)
    BY <1>2, <1>3, <1>5, <1>7 DEF Alive, Sync, From3, Tracks
  <2>2. Opening0(n, q)
    BY <1>5, <1>11, <1>12 DEF Opening0
  <2> QED  BY <1>5, <1>7, <2>1, <2>2 DEF Sync
<1>15. Blank(n, q) /\ ~Sabm(In(q.ctl), 3)
  <2>1. Blank(r, ms)
    BY <1>1, <1>2 DEF Alive, Link3, Unused3
  <2> QED  BY <1>3, <1>5, <1>7, <1>8, <1>9, <2>1 DEF Blank, Still, Sabm
<1>16. Link3(n, q)
  BY <1>15 DEF Link3, Blank
<1>17. Sms(n, q) /\ Cipher(n, q) /\ Unasked(n, q)
  BY <1>5, <1>10, <1>11, <1>12 DEF Sms, Cipher, Unasked
<1>18. Call(n, q)
  <2>1. ~Early(n)
    BY <1>11 DEF Early, InCall
  <2> QED  BY <1>5, <1>11, <1>12, <2>1 DEF Call
<1>19. Alive(n, q)
  BY <1>13, <1>14, <1>16, <1>17, <1>18 DEF Alive
<1>20. SabmMsg(q)
  BY <1>8, <1>9 DEF SabmMsg
<1> QED  BY <1>5, <1>6, <1>19, <1>20 DEF Linked, Live

\* A downlink slot keeps the links in step.
LEMMA SlotLinked ==
    ASSUME Typed, Linked(r, ms), Slot
    PROVE  Linked(r', ms')
<1> DEFINE n == Tailed(r)
           m == StartNext([n EXCEPT !.conf = FALSE, !.rel = FALSE])
<1>1. Legal(r) /\ PhoneOk(ms) /\ r.q \in Seq(Frame) /\ (r.q # <<>> \/ r.rel)
  BY LegalFields DEF Typed, TypedNet, Slot
<1>2. r' = IF n.rel /\ n.q = <<>> THEN m ELSE n
  BY DEF Slot, Tailed
<1>3. /\ Legal(n) /\ n.link = r.link /\ n.conf = r.conf /\ n.rel = r.rel /\ SameCall(r, n)
      /\ n.q = IF r.q = <<>> THEN <<>> ELSE Tail(r.q)
  BY <1>1, TailedIs
<1> HIDE DEF n
<1>4. m.q = n.q
  BY <1>3, ReleasedIs
<1> HIDE DEF m
<1>5. CASE r.q = <<>>
  <2>1. ms' = ms /\ r.rel /\ ~Live(ms)
    BY <1>1, <1>5 DEF Slot, Linked, Alive, Held
  <2>2. r' = m /\ (r').q = r.q
    BY <1>2, <1>3, <1>4, <1>5, <2>1
  <2> QED  BY <2>1, <2>2 DEF Linked, Dead
<1>6. CASE r.q # <<>>
  <2>1. Pulled(r, n)
    BY <1>1, <1>3, <1>6 DEF Pulled
  <2>2. ms' \in Receive(ms, Head(r.q)) /\ Head(r.q) \in Frame
    BY <1>1, <1>6, InTail DEF Slot
  <2>3. PhoneOk(ms') /\ Received(ms, ms', Head(r.q))
    BY <1>1, <2>2, ReceiveIs
  <2>4. CASE Live(ms)
    <3>1. Linked(n, ms')
      BY <1>1, <2>1, <2>3, <2>4, LiveSlot
    <3>2. r' = n
      BY <1>2, <1>3, <2>4 DEF Linked, Alive, Held
    <3> QED  BY <3>1, <3>2
  <2>5. CASE ~Live(ms)
    <3>1. SabmMsg(ms') /\ Dead(n, ms') /\ ~Live(ms')
      BY <1>1, <2>1, <2>3, <2>5, DeadSlot
    <3>2. (r').q = n.q
      BY <1>2, <1>4
    <3> QED  BY <3>1, <3>2 DEF Linked, Dead
  <2> QED  BY <2>4, <2>5
<1> QED  BY <1>5, <1>6

\* A block request: the phone sends what it owes, or what it has to say.
LEMMA UplinkLinked ==
    ASSUME Typed, Room, Linked(r, ms), Uplink
    PROVE  Linked(r', ms')
<1>1. Legal(r) /\ PhoneOk(ms) /\ CtlRoom(r) /\ RrTells(r, ms)
  BY RoomIs DEF Typed, TypedNet
<1>2. CASE /\ ms.ctl # <<>>
           /\ LET f == Head(ms.ctl)
              IN  r' = LapdmUplink(r, IF f.t = "RR" THEN [t |-> "RR", sapi |-> f.sapi, nr |-> ms.vr[f.sapi]] ELSE f)
           /\ ms' = [ms EXCEPT !.ctl = Tail(@)]
  <2>1. Owed(ms, ms')
    BY <1>1, <1>2, DropIs DEF Owed, SameLinks
  <2>2. r' = LapdmUplink(r, OnAir(ms, Head(ms.ctl)))
    BY <1>2 DEF OnAir
  <2>3. SabmMsg(ms')
    <3>1. In((ms').ctl) \subseteq In(ms.ctl)
      BY <1>1, <1>2, <2>1, OwedIs
    <3> QED  BY <3>1 DEF Linked, SabmMsg
  <2>4. Live(ms') <=> Live(ms)
    BY <2>1 DEF Owed, SamePart, Live
  <2>5. CASE Live(ms)
    <3>1. Alive(r', ms')
      BY <1>1, <1>2, <2>1, <2>2, <2>5, CtlAlive
    <3> QED  BY <2>3, <2>4, <2>5, <3>1 DEF Linked
  <2>6. CASE ~Live(ms)
    <3>1. Dead(r', ms')
      BY <1>1, <1>2, <2>1, <2>2, <2>6, DeadUplink DEF Linked
    <3> QED  BY <2>3, <2>4, <2>6, <3>1 DEF Linked
  <2> QED  BY <2>5, <2>6
<1>3. CASE /\ ms.at = "on"
           /\ \E s \in Sapis :
                /\ ms.out[s] # <<>> /\ ms.una[s] = "NONE"
                /\ r' = LapdmUplink(r, [t |-> "I", sapi |-> s, ns |-> ms.vs[s], nr |-> ms.vr[s],
                                       msg |-> Head(ms.out[s])])
                /\ ms' = [ms EXCEPT !.out[s] = Tail(@), !.una[s] = Head(ms.out[s]), !.vs[s] = Next_(@)]
  <2>1. PICK s \in Sapis :
                /\ ms.out[s] # <<>> /\ ms.una[s] = "NONE"
                /\ r' = LapdmUplink(r, InfoFrame(s, ms.vs[s], ms.vr[s], Head(ms.out[s])))
                /\ ms' = [ms EXCEPT !.out[s] = Tail(@), !.una[s] = Head(ms.out[s]), !.vs[s] = Next_(@)]
    BY <1>3 DEF InfoFrame
  <2>2. Posted(ms, ms', s) /\ Head(ms.out[s]) \in Up(s)
    BY <1>1, <2>1, PostIs
  <2>3. /\ PhoneOk(ms') /\ (ms').at = "on" /\ (ms').vr = ms.vr /\ (ms').una[s] = Head(ms.out[s])
        /\ (ms').ctl = ms.ctl
    BY <1>3, <2>2 DEF Posted, SamePart
  <2>4. "NONE" \notin Up(s)
    BY DEF Up, Up0, Up3
  <2>5. Alive(r, ms) /\ SabmMsg(ms)
    BY <1>3 DEF Linked, Live
  <2>6. Alive(r, ms')
    BY <1>1, <1>3, <2>1, <2>2, <2>5, PostAlive
  <2>7. SabmMsg(ms')
    BY <2>3, <2>5 DEF SabmMsg
  <2>8. ms.vs[s] \in Nums /\ (ms').una[s] # "NONE" /\ Tells(r, s)
    BY <1>1, <2>1, <2>2, <2>3, <2>4, PhoneFields, RoomIs
  <2>9. Alive(LapdmUplink(r, InfoFrame(s, ms.vs[s], (ms').vr[s], (ms').una[s])), ms')
    BY <1>1, <2>3, <2>6, <2>7, <2>8, HeardAlive DEF CtlRoom
  <2>10. Alive(r', ms')
    BY <2>1, <2>3, <2>9
  <2> QED  BY <2>3, <2>7, <2>10 DEF Linked, Live
<1> QED  BY <1>2, <1>3 DEF Uplink

\* A message is repeated.
LEMMA RepeatLinked ==
    ASSUME Typed, Room, Linked(r, ms), NEW s \in Sapis, Repeat(s)
    PROVE  Linked(r', ms')
<1>1. Legal(r) /\ PhoneOk(ms) /\ CtlRoom(r) /\ ms.at = "on" /\ ms.una[s] # "NONE" /\ ms \in Phone
      /\ Tells(r, s)
  BY RoomIs DEF Typed, TypedNet, Repeat, PhoneOk
<1>2. Alive(r, ms) /\ SabmMsg(ms)
  BY <1>1 DEF Linked, Live
<1> DEFINE ns == (ms.vs[s] + Modulus - 1) % Modulus
<1>3. ns \in Nums
  BY <1>1, PhoneFields, ModLess
<1>4. r' = LapdmUplink(r, InfoFrame(s, ns, ms.vr[s], ms.una[s]))
  BY DEF Repeat, InfoFrame
<1> HIDE DEF ns
<1>5. Alive(r', ms)
  BY <1>1, <1>2, <1>3, <1>4, HeardAlive DEF CtlRoom
<1>6. SamePart(ms, ms') /\ (ms').vr = ms.vr /\ (ms').una = ms.una /\ (ms').out = ms.out /\ (ms').ctl = ms.ctl
  <2>1. ms' = [ms EXCEPT !.reps = @ + 1]
    BY DEF Repeat
  <2> QED  BY <1>1, <2>1 DEF Phone, SamePart
<1>7. Alive(r', ms')
  BY <1>5, <1>6, LessAlive
<1> QED  BY <1>1, <1>2, <1>6, <1>7 DEF Linked, Live, SamePart, SabmMsg

\* The user's part.
LEMMA UserLinked ==
    ASSUME Typed, Linked(r, ms), Answer \/ HangUp
    PROVE  Linked(r', ms')
<1>1. PhoneOk(ms) /\ ms.at = "on" /\ ms.call # "no" /\ r' = r
  BY DEF Typed, TypedNet, Answer, HangUp
<1>2. /\ SameLinks(ms, ms') /\ (ms').at = ms.at /\ (ms').why = ms.why /\ (ms').ctl = ms.ctl
      /\ (ms').out[3] = ms.out[3]
  <2>1. PICK msg \in {"CONNECT", "DISCONNECT"}, c \in {"no", "wait"} :
          ms' = [Send(ms, 0, <<msg>>) EXCEPT !.call = c]
    BY DEF Answer, HangUp
  <2> QED  BY <1>1, <2>1, CallOk
<1>3. Alive(r, ms) /\ SabmMsg(ms)
  BY <1>1 DEF Linked, Live
<1>4. Alive(r, ms')
  BY <1>1, <1>2, <1>3, CallAlive
<1> QED  BY <1>1, <1>2, <1>3, <1>4 DEF Linked, Live, SabmMsg

\* Every step keeps the links in step.
LEMMA LinkedNext ==
    ASSUME Typed, Room, Linked(r, ms), [Next]_vars
    PROVE  Linked(r', ms')
<1>1. ASSUME NEW o \in Offers, QueueIncoming(o) PROVE Linked(r', ms')
  BY <1>1, QueueLinked
<1>2. ASSUME NEW why \in Reasons, Rach(why) PROVE Linked(r', ms')
  BY <1>2, RachLinked
<1>3. ASSUME NEW s \in Sapis, Repeat(s) PROVE Linked(r', ms')
  BY <1>3, RepeatLinked
<1>4. ASSUME UNCHANGED vars PROVE Linked(r', ms')
  BY <1>4 DEF vars
<1> QED  BY <1>1, <1>2, <1>3, <1>4, BlockLinked, SlotLinked, SdcchLinked, TchLinked, UplinkLinked,
            UserLinked DEF Next

\* Without a channel there is nothing to be in step.
LEMMA LinkedInit ==
    ASSUME Init
    PROVE  Linked(r, ms)
<1>1. r.q = <<>> /\ ms.at = "idle" /\ ms.ctl = <<>> /\ ms.call = "no"
  BY DEF Init
<1>2. \A s \in Sapis : ms.out[s] = <<>> /\ ms.una[s] = "NONE"
  BY DEF Init, NoFrames
<1>3. In(r.q) = {} /\ In(ms.ctl) = {}
  BY <1>1, InTuples
<1> QED  BY <1>1, <1>2, <1>3 DEF Linked, Live, Dead, Sabm, SabmMsg

\* One sequence ends the other.
LEMMA SuffixIs ==
    ASSUME NEW S, NEW a \in Seq(S), NEW b \in Seq(S), NEW d \in Nat, Len(b) = d + Len(a),
           \A i \in 1 .. Len(a) : a[i] = b[d + i]
    PROVE  IsSuffix(a, b)
<1> DEFINE k == Len(a)
           u == Reverse(a)
           v == Reverse(b)
<1>1. k \in Nat /\ Len(b) = d + k
  OBVIOUS
<1>2. /\ \A i \in 1 .. k : u[i] = a[k - i + 1] /\ u[i] \in S
      /\ \A i \in 1 .. d + k : v[i] = b[d + k - i + 1] /\ v[i] \in S
      /\ Len(u) = k /\ Len(v) = d + k
  <2>1. Len(u) = k /\ \A i \in 1 .. k : u[i] = a[k - i + 1]
    BY <1>1 DEF Reverse
  <2>2. Len(v) = d + k /\ \A i \in 1 .. d + k : v[i] = b[d + k - i + 1]
    BY <1>1 DEF Reverse
  <2>3. \A i \in 1 .. k : a[k - i + 1] \in S
    OBVIOUS
  <2>4. \A i \in 1 .. d + k : b[d + k - i + 1] \in S
    BY <1>1
  <2> QED  BY <2>1, <2>2, <2>3, <2>4
<1>3. \A i \in 1 .. k : a[k - i + 1] = b[d + k - i + 1]
  <2> SUFFICES ASSUME NEW i \in 1 .. k PROVE a[k - i + 1] = b[d + k - i + 1]
    OBVIOUS
  <2>1. k - i + 1 \in 1 .. k /\ d + (k - i + 1) = d + k - i + 1
    BY <1>1
  <2>2. a[k - i + 1] = b[d + (k - i + 1)]
    BY <2>1
  <2> QED  BY <2>1, <2>2
<1> HIDE DEF k, u, v
<1>4. \A i \in 1 .. k : v[i] = u[i] /\ v[i] \in S
  <2>1. \A i \in 1 .. k : i \in 1 .. d + k
    BY <1>1
  <2> QED  BY <1>2, <1>3, <2>1
<1>5. SubSeq(u, 1, k) = SubSeq(v, 1, k)
  <2> DEFINE x == SubSeq(u, 1, k)
             y == SubSeq(v, 1, k)
  <2>1. x \in Seq(S) /\ Len(x) = k /\ \A i \in 1 .. k : x[i] = u[i]
    BY <1>1, <1>2, SubSeqProperties
  <2>2. y \in Seq(S) /\ Len(y) = k /\ \A i \in 1 .. k : y[i] = v[i]
    BY <1>1, <1>4, SubSeqProperties
  <2> HIDE DEF x, y
  <2>3. x = y
    BY <1>4, <2>1, <2>2, SeqEqual
  <2> QED  BY <2>3 DEF x, y
<1>6. IsPrefix(u, v)
  BY <1>1, <1>2, <1>5 DEF IsPrefix
<1> QED  BY <1>6 DEF IsSuffix, u, v

\* A link as InStep has it.
Agrees(n, s, from) ==
    LET w == Info(n.q, s)
        k == n.link[s]
    IN  /\ \A i \in DOMAIN w : w[i].ns = (from + i - 1) % Modulus
        /\ IsSuffix([i \in DOMAIN w |-> [rs |-> Next_(w[i].ns), kind |-> w[i].kind]], k.acks)

\* Tracks is what InStep asks of a link.
LEMMA TracksAgrees ==
    ASSUME NEW n, Legal(n), NEW s \in Sapis, NEW from, Tracks(n, s, from, 0)
    PROVE  Agrees(n, s, from) /\ n.link[s].vs = (from + Len(Info(n.q, s))) % Modulus
<1> DEFINE w == Info(n.q, s)
           b == n.link[s].acks
           a == [i \in DOMAIN w |-> [rs |-> Next_(w[i].ns), kind |-> w[i].kind]]
           l == Len(w)
           t == Len(b)
<1>1. w \in Seq(IFrame) /\ b \in Seq(Acks) /\ l \in Nat /\ t \in Nat /\ DOMAIN w = 1 .. l
  BY LegalFields
<1>2. /\ \A i \in 1 .. l : w[i].ns = (from + i - 1) % Modulus
      /\ n.link[s].vs = (from + l) % Modulus
      /\ l + 0 <= t
      /\ \A i \in 1 .. l : b[t - l + i] = [rs |-> Next_(w[i].ns), kind |-> w[i].kind]
  BY DEF Tracks
<1>3. \A i \in 1 .. l : w[i] \in IFrame
  BY <1>1
<1> HIDE DEF w, b, l, t
<1>4. \A i \in 1 .. l : a[i] \in Acks
  <2>1. \A f \in IFrame : f.ns \in Nums /\ f.kind \in Messages
    BY DEF IFrame
  <2>2. \A f \in IFrame : [rs |-> Next_(f.ns), kind |-> f.kind] \in Acks
    BY <2>1, NumsNext DEF Acks
  <2> QED  BY <1>1, <1>3, <2>2
<1>5. a \in Seq(Acks) /\ Len(a) = l
  <2>1. a \in [1 .. l -> Acks]
    BY <1>1, <1>4
  <2> HIDE DEF a
  <2> QED  BY <1>1, <2>1
<1>6. t - l \in Nat /\ t = (t - l) + l
  BY <1>1, <1>2
<1>7. \A i \in 1 .. l : a[i] = b[(t - l) + i]
  BY <1>1, <1>2
<1>8. IsSuffix(a, b)
  <2> DEFINE d == t - l
  <2>1. d \in Nat /\ Len(b) = d + Len(a) /\ \A i \in 1 .. Len(a) : a[i] = b[d + i]
    BY <1>5, <1>6, <1>7 DEF t
  <2> HIDE DEF a, d
  <2> QED  BY <1>1, <1>5, <2>1, SuffixIs
<1> QED  BY <1>1, <1>2, <1>8 DEF Agrees, w, b, l

\* The invariant gives InStep.
LEMMA LinkedInStep ==
    ASSUME Typed, Room, Linked(r, ms)
    PROVE  InStep
<1>1. Legal(r) /\ PhoneOk(ms) /\ TypeOK /\ r.q \in Seq(Frame)
  BY TypedOk, LegalFields DEF Typed, TypedNet
<1>2. \A s : Opening(s) <=> ~NoOpen(In(r.q), s)
  BY <1>1, RangeIs DEF Opening, NoOpen, Opens
<1>3. ASSUME r.conf, ms.at \in {"on", "sabm"}, NEW s \in Sapis
      PROVE  LET from == IF Opening(s) \/ (s = 0 /\ ms.at = "sabm") THEN 0 ELSE ms.vr[s]
             IN  /\ Agrees(r, s, from)
                 /\ \/ r.link[s].vs = (from + Len(Info(r.q, s))) % Modulus
                    \/ s = 0 /\ ms.at = "sabm" /\ ms.ctl # <<>>
  <2> DEFINE from == IF Opening(s) \/ (s = 0 /\ ms.at = "sabm") THEN 0 ELSE ms.vr[s]
  <2>1. Alive(r, ms)
    BY <1>3 DEF Linked, Live
  <2>2. s = 0 \/ s = 3
    BY UpSets
  <2>3. Tracks(r, s, from, 0) => /\ Agrees(r, s, from)
                                 /\ r.link[s].vs = (from + Len(Info(r.q, s))) % Modulus
    BY <1>1, TracksAgrees
  <2>4. CASE s = 3
    <3>1. from = From3(r, ms)
      BY <1>2, <2>4 DEF From3
    <3>2. Tracks(r, s, from, 0)
      BY <2>1, <2>4, <3>1 DEF Alive, Sync
    <3> QED  BY <2>3, <3>2
  <2>5. CASE s = 0 /\ ms.at = "on"
    <3>1. from = ms.vr[0] /\ Tracks(r, 0, ms.vr[0], 0)
      BY <1>2, <2>1, <2>5 DEF Alive, Sync
    <3> QED  BY <2>3, <2>5, <3>1
  <2>6. CASE s = 0 /\ ms.at = "sabm"
    <3>1. from = 0 /\ Opening0(r, ms)
      BY <2>1, <2>6 DEF Alive, Sync
    <3>2. CASE Tracks(r, 0, 0, 0)
      BY <2>3, <2>6, <3>1, <3>2
    <3>3. CASE \E msg : ms.ctl = <<Sabm0(msg)>> /\ NoI(In(r.q), 0)
      <4>1. ms.ctl # <<>>
        BY <3>3
      <4>2. Info(r.q, 0) = <<>>
        BY <1>1, <3>3, InfoType DEF NoI
      <4> DEFINE w == Info(r.q, 0)
                 b == r.link[0].acks
                 a == [i \in DOMAIN w |-> [rs |-> Next_(w[i].ns), kind |-> w[i].kind]]
      <4>3. DOMAIN w = {}
        BY <4>2
      <4>4. b \in Seq(Acks) /\ Len(b) \in Nat
        BY <1>1, <2>6, LegalFields
      <4>5. a \in Seq(Acks) /\ Len(a) = 0
        <5>1. a = [i \in {} |-> [rs |-> Next_(w[i].ns), kind |-> w[i].kind]]
          BY <4>3
        <5>2. a = <<>>
          BY <5>1
        <5> HIDE DEF a
        <5> QED  BY <5>2
      <4>6. IsSuffix(a, b)
        <5> HIDE DEF a, b
        <5> DEFINE d == Len(b)
                   z == Len(a)
        <5>1. d \in Nat /\ z = 0
          BY <4>4, <4>5
        <5> HIDE DEF d, z
        <5>2. d = d + z /\ 1 .. z = {}
          BY <5>1
        <5>3. Len(b) = d + Len(a) /\ \A i \in 1 .. Len(a) : a[i] = b[d + i]
          BY <5>2 DEF d, z
        <5> QED  BY <4>4, <4>5, <5>1, <5>3, SuffixIs
      <4>7. Agrees(r, 0, 0)
        BY <4>3, <4>6 DEF Agrees
      <4> QED  BY <2>6, <3>1, <4>1, <4>7
    <3> QED  BY <3>1, <3>2, <3>3 DEF Opening0
  <2> QED  BY <1>3, <2>2, <2>4, <2>5, <2>6
<1> QED  BY <1>1, <1>3 DEF InStep, Agrees

\* The network's view of each link is the phone's, in every behaviour whose queue and
\* rings always have room for another step.
THEOREM InStepAlways == Spec /\ []Room => []InStep
<1>1. Init => Typed /\ Linked(r, ms)
  BY TypedInit, LinkedInit
<1>2. (Typed /\ Linked(r, ms)) /\ Room /\ [Next]_vars => (Typed /\ Linked(r, ms))'
  BY TypedNext, LinkedNext
<1>3. Typed /\ Linked(r, ms) /\ Room => InStep
  BY LinkedInStep
<1> QED  BY <1>1, <1>2, <1>3, PTL DEF Spec
=============================================================================
