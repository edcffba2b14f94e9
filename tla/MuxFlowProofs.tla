---------------------------- MODULE MuxFlowProofs ----------------------------
(***************************************************************************)
(* Every step of the multiplexer is a step of the flow control it promises *)
(* on each channel and in each direction, or does not touch it: the        *)
(* refinement that MuxFlow states, for any window, any segment and frame   *)
(* length, any number of channels and frames, and whatever the             *)
(* applications and the network do.                                        *)
(***************************************************************************)
EXTENDS MuxProofs

\* What flow control counts of one direction of channel c: its sender's state
\* m, what it wrote w and its history h, its receiver's state r and what that
\* wrote v.
FigureOf(m, w, h, r, v, c) ==
    [frames |-> h.frames[c], todo |-> m.todo[c], held |-> m.held[c],
     flight |-> Bodies(w, c) \o Bodies(m.out[c], c),
     asm |-> r.asm[c], unacked |-> r.unacked[c],
     granted |-> SumOf(r.urgent, c, "WINDOW") + SumOf(v, c, "WINDOW")]
Figure(e, c) == FigureOf(ep[e], wire[e], hist[e], ep[Peer(e)], wire[Peer(e)], c)

IsFigure(x) ==
    /\ x.frames \in Lengths
    /\ x.todo \in Strand /\ x.held \in Strand /\ x.flight \in Strand /\ x.asm \in Strand
    /\ x.unacked \in Nat /\ x.granted \in Nat

\* The totals of CreditFlow.
Upto(F, k) == Amount(SubSeq(F, 1, k))
EndsIn(F) == {Upto(F, i) : i \in 1 .. Len(F)}
Paid(x) == Amount(x.frames) - Len(x.todo)
Posted(x) == Paid(x) - Len(x.held)
Arrived(x) == Posted(x) - Len(x.flight)
Whole(x) == Arrived(x) - Len(x.asm)
Refunded(x) == Arrived(x) - x.unacked
Regained(x) == Refunded(x) - x.granted
-----------------------------------------------------------------------------
(* Where frames end. *)

LEMMA FirstIs ==
    ASSUME NEW S, NEW q \in Seq(S), NEW k \in Nat, k < Len(q)
    PROVE  /\ SubSeq(q, 1, k) \in Seq(S) /\ q[k + 1] \in S
           /\ SubSeq(q, 1, k + 1) = SubSeq(q, 1, k) \o <<q[k + 1]>>
           /\ SubSeq(q, 1, 0) = <<>> /\ SubSeq(q, 1, Len(q)) = q
<1>1. Len(q) \in Nat /\ k + 1 \in 1 .. Len(q) /\ \A i \in 1 .. Len(q) : q[i] \in S
  OBVIOUS
<1>2. ASSUME NEW j \in 0 .. Len(q)
      PROVE  /\ SubSeq(q, 1, j) \in Seq(S) /\ Len(SubSeq(q, 1, j)) = j
             /\ \A i \in 1 .. j : SubSeq(q, 1, j)[i] = q[i]
  <2>1. 1 \in 1 .. Len(q) + 1 /\ \A i \in 1 .. j : q[i] \in S
    BY <1>1
  <2>2. /\ SubSeq(q, 1, j) \in Seq(S) /\ Len(SubSeq(q, 1, j)) = IF 1 <= j THEN j - 1 + 1 ELSE 0
        /\ \A i \in 1 .. j - 1 + 1 : SubSeq(q, 1, j)[i] = q[1 + i - 1]
    BY <2>1, SubSeqProperties
  <2>3. j \in Nat /\ \A i \in 1 .. j : i \in 1 .. j - 1 + 1 /\ 1 + i - 1 = i
    BY <1>1
  <2> QED
    BY <2>2, <2>3
<1> DEFINE x == SubSeq(q, 1, k)
           y == SubSeq(q, 1, k + 1)
           one == <<q[k + 1]>>
<1>3. k \in 0 .. Len(q) /\ k + 1 \in 0 .. Len(q) /\ 0 \in 0 .. Len(q) /\ Len(q) \in 0 .. Len(q)
  BY <1>1
<1>4. x \in Seq(S) /\ Len(x) = k /\ \A i \in 1 .. k : x[i] = q[i]
  BY <1>2, <1>3
<1>5. y \in Seq(S) /\ Len(y) = k + 1 /\ \A i \in 1 .. k + 1 : y[i] = q[i]
  BY <1>2, <1>3
<1>6. one \in Seq(S) /\ Len(one) = 1 /\ one[1] = q[k + 1]
  BY <1>1
<1> HIDE DEF x, y, one
<1>7. x \o one = y
  <2>1. /\ x \o one \in Seq(S) /\ Len(x \o one) = k + 1
        /\ \A i \in 1 .. k + 1 : (x \o one)[i] = IF i <= k THEN x[i] ELSE one[i - k]
    BY <1>4, <1>6, ConcatProperties
  <2>2. ASSUME NEW i \in 1 .. k + 1 PROVE (x \o one)[i] = y[i]
    <3>1. CASE i <= k
      <4>1. i \in 1 .. k
        BY <3>1
      <4> QED
        BY <1>4, <1>5, <2>1, <3>1, <4>1
    <3>2. CASE ~(i <= k)
      <4>1. i = k + 1 /\ i - k = 1
        BY <3>2
      <4> QED
        BY <1>5, <1>6, <2>1, <3>2, <4>1
    <3> QED
      BY <3>1, <3>2
  <2> QED
    BY <1>5, <2>1, <2>2, SeqEqual
<1>8. SubSeq(q, 1, 0) = <<>>
  BY <1>2, <1>3
<1>9. SubSeq(q, 1, Len(q)) = q
  BY <1>2, <1>3, SeqEqual
<1> QED
  BY <1>1, <1>4, <1>7, <1>8, <1>9 DEF x, y, one

LEMMA WholeIs ==
    ASSUME NEW S, NEW q \in Seq(S)
    PROVE  SubSeq(q, 1, Len(q)) = q
<1>1. CASE q = <<>>
  BY <1>1
<1>2. CASE q # <<>>
  <2>1. Len(q) \in Nat /\ Len(q) > 0
    BY <1>2
  <2>2. 0 \in Nat /\ 0 < Len(q)
    BY <2>1
  <2> QED
    BY <2>2, FirstIs
<1> QED
  BY <1>1, <1>2

LEMMA UptoNext ==
    ASSUME NEW F \in Lengths, NEW k \in 0 .. Len(F), k # Len(F)
    PROVE  /\ Upto(F, k) \in Nat /\ F[k + 1] \in 1 .. MaxFrame /\ k + 1 \in 0 .. Len(F)
           /\ Upto(F, k + 1) = Upto(F, k) + F[k + 1]
<1>1. /\ Len(F) \in Nat /\ k \in Nat /\ k < Len(F) /\ k + 1 \in 1 .. Len(F) /\ k + 1 \in 0 .. Len(F)
      /\ \A i \in 1 .. Len(F) : F[i] \in 1 .. MaxFrame
  BY LengthsAre
<1>2. F \in Seq(Nat) /\ F[k + 1] \in Nat
  <2>1. Length \subseteq Nat
    BY ConstantsAre DEF Length
  <2>2. F \in Seq(Length)
    BY DEF Lengths
  <2>3. F \in Seq(Nat)
    BY <2>1, <2>2, SeqMonotonic
  <2> QED
    BY <1>1, <2>3
<1>3. /\ SubSeq(F, 1, k) \in Seq(Nat)
      /\ SubSeq(F, 1, k + 1) = SubSeq(F, 1, k) \o <<F[k + 1]>>
  BY <1>1, <1>2, FirstIs
<1>4. Upto(F, k) \in Nat
  BY <1>3, UnitsFinite DEF Upto
<1>5. <<F[k + 1]>> \in Seq(Nat) /\ Amount(<<F[k + 1]>>) = F[k + 1]
  BY <1>2, AmountOne
<1> QED
  BY <1>1, <1>3, <1>4, <1>5, AmountConcat DEF Upto

\* The frames up to the k-th and what is still to come are all of them.
LEMMA UptoIs ==
    ASSUME NEW F \in Lengths
    PROVE  /\ Upto(F, 0) = 0 /\ Upto(F, Len(F)) = Amount(F) /\ Amount(F) \in Nat
           /\ \A k \in 0 .. Len(F) : Upto(F, k) \in Nat /\ Len(Rest(F, k)) \in Nat
           /\ \A k \in 0 .. Len(F) : Upto(F, k) + Len(Rest(F, k)) = Amount(F)
<1>1. PICK n \in Nat : n = Len(F)
  BY LengthsAre
<1>2. Upto(F, n) = Amount(F) /\ F \in Seq(Length)
  BY <1>1, WholeIs DEF Upto, Lengths
<1>3. Upto(F, 0) = 0
  <2>1. SubSeq(F, 1, 0) = <<>>
    OBVIOUS
  <2>2. <<>> \in Seq(Nat) /\ DOMAIN <<>> = {}
    OBVIOUS
  <2> QED
    BY <2>1, <2>2, AmountZero DEF Upto
<1>4. ASSUME NEW k \in 0 .. n PROVE Len(Rest(F, k)) \in Nat
  BY <1>1, FollowingIs, Glue
<1>5. Len(Rest(F, n)) = 0
  BY <1>1, RestEnds, Glue
<1>6. ASSUME NEW k \in 0 .. n, k < n
      PROVE  /\ Upto(F, k) \in Nat /\ F[k + 1] \in Nat
             /\ Upto(F, k + 1) = Upto(F, k) + F[k + 1]
             /\ Len(Rest(F, k)) = F[k + 1] + Len(Rest(F, k + 1))
  <2>1. k # Len(F) /\ k \in 0 .. Len(F) /\ k + 1 \in Nat /\ k + 1 \in 0 .. n
    BY <1>1, <1>6
  <2>2. /\ Upto(F, k) \in Nat /\ F[k + 1] \in 1 .. MaxFrame
        /\ Upto(F, k + 1) = Upto(F, k) + F[k + 1]
    BY <2>1, UptoNext
  <2>3. PICK x \in Strand, y \in Strand :
          x = Bytes(k + 1, F[k + 1]) /\ y = Rest(F, k + 1) /\ Len(x) = F[k + 1]
    BY <1>1, <2>1, <2>2, BytesAre, FollowingIs
  <2>4. Rest(F, k) = x \o y
    BY <2>1, <2>3, RestNext
  <2>5. Len(x \o y) = Len(x) + Len(y) /\ Len(x) \in Nat
    BY Glue
  <2> QED
    BY <2>2, <2>3, <2>4, <2>5
<1> DEFINE T == {k \in 0 .. n : /\ Upto(F, k) \in Nat
                                /\ Upto(F, k) + Len(Rest(F, k)) = Len(Rest(F, 0))}
<1>7. 0 \in T
  <2>1. 0 \in 0 .. n
    BY <1>1
  <2>2. Len(Rest(F, 0)) \in Nat
    BY <1>4, <2>1
  <2> QED
    BY <1>3, <2>1, <2>2
<1>8. ASSUME NEW k \in 0 .. n, k < n, k \in T PROVE k + 1 \in T
  <2>1. k + 1 \in 0 .. n
    BY <1>8
  <2>2. PICK u \in Nat, f \in Nat, r \in Nat, z \in Nat :
          u = Upto(F, k) /\ f = F[k + 1] /\ r = Len(Rest(F, k + 1)) /\ z = Len(Rest(F, 0))
    <3>1. 0 \in 0 .. n
      BY <1>1
    <3> QED
      BY <1>4, <1>6, <1>8, <2>1, <3>1
  <2>3. Upto(F, k + 1) = u + f /\ Len(Rest(F, k)) = f + r
    BY <1>6, <1>8, <2>2
  <2>4. u + (f + r) = z
    BY <1>8, <2>2, <2>3
  <2>5. (u + f) + r = z /\ u + f \in Nat
    BY <2>4
  <2> QED
    BY <2>1, <2>2, <2>3, <2>5
<1> HIDE DEF T
<1>9. \A k \in 0 .. n : k \in T
  BY <1>7, <1>8, Climb
<1>10. /\ \A k \in 0 .. n : Upto(F, k) \in Nat
       /\ \A k \in 0 .. n : Upto(F, k) + Len(Rest(F, k)) = Len(Rest(F, 0))
  BY <1>9 DEF T
<1>11. Amount(F) \in Nat /\ Amount(F) = Len(Rest(F, 0))
  <2>1. n \in 0 .. n
    BY <1>1
  <2>2. Upto(F, n) \in Nat /\ Upto(F, n) + 0 = Len(Rest(F, 0))
    BY <1>5, <1>10, <2>1
  <2> QED
    BY <1>2, <2>2
<1> QED
  BY <1>1, <1>2, <1>3, <1>4, <1>10, <1>11

LEMMA UptoRises ==
    ASSUME NEW F \in Lengths, NEW i \in 0 .. Len(F), NEW j \in 0 .. Len(F), i <= j
    PROVE  Upto(F, i) <= Upto(F, j)
<1>1. PICK n \in Nat : n = Len(F)
  BY LengthsAre
<1>2. PICK d \in Nat : d = n - i /\ j - i \in 0 .. d /\ i \in Nat /\ j = i + (j - i)
  <2>1. n - i \in Nat /\ j - i \in 0 .. n - i /\ i \in Nat /\ j = i + (j - i)
    BY <1>1
  <2> QED
    BY <2>1
<1> DEFINE T == {k \in 0 .. d : Upto(F, i) <= Upto(F, i + k)}
<1>3. \A k \in 0 .. n : Upto(F, k) \in Nat
  BY <1>1, UptoIs
<1>4. 0 \in T
  <2>1. i + 0 = i /\ i \in 0 .. n /\ 0 \in 0 .. d
    BY <1>1, <1>2
  <2>2. Upto(F, i) \in Nat
    BY <1>3, <2>1
  <2>3. Upto(F, i) <= Upto(F, i + 0)
    BY <2>1, <2>2
  <2> QED
    BY <2>1, <2>3
<1>5. ASSUME NEW k \in 0 .. d, k < d, k \in T PROVE k + 1 \in T
  <2>1. PICK a \in 0 .. n : a = i + k /\ a # n /\ i + (k + 1) = a + 1 /\ k + 1 \in 0 .. d
    BY <1>1, <1>2, <1>5
  <2>2. /\ Upto(F, a) \in Nat /\ F[a + 1] \in 1 .. MaxFrame
        /\ Upto(F, a + 1) = Upto(F, a) + F[a + 1]
    BY <1>1, <2>1, UptoNext
  <2>3. PICK u \in Nat, f \in Nat, z \in Nat : u = Upto(F, a) /\ f = F[a + 1] /\ z = Upto(F, i)
    <3>1. F[a + 1] \in Nat
      BY <2>2, ConstantsAre
    <3>2. i \in 0 .. n
      BY <1>1
    <3> QED
      BY <1>3, <2>2, <3>1, <3>2
  <2>4. z <= u
    BY <1>5, <2>1, <2>3
  <2>5. z <= u + f
    BY <2>4
  <2>6. Upto(F, i) <= Upto(F, i + (k + 1))
    BY <2>1, <2>2, <2>3, <2>5
  <2> QED
    BY <2>1, <2>6
<1> HIDE DEF T
<1>6. \A k \in 0 .. d : k \in T
  BY <1>4, <1>5, Climb
<1>7. j - i \in T
  BY <1>2, <1>6
<1> QED
  BY <1>2, <1>7 DEF T

\* No frame is longer than MaxFrame.
LEMMA AmountBound ==
    ASSUME NEW F \in Lengths, NEW b \in Nat, Len(F) <= b
    PROVE  Amount(F) <= b * MaxFrame
<1>1. PICK n \in Nat, M \in Nat : n = Len(F) /\ M = MaxFrame
  BY LengthsAre, ConstantsAre
<1> DEFINE T == {k \in 0 .. n : Upto(F, k) <= k * M}
<1>2. 0 \in T
  <2>1. Upto(F, 0) = 0 /\ 0 * M = 0 /\ 0 \in 0 .. n
    BY <1>1, UptoIs
  <2> QED
    BY <2>1
<1>3. ASSUME NEW k \in 0 .. n, k < n, k \in T PROVE k + 1 \in T
  <2>1. k # Len(F) /\ k \in 0 .. Len(F)
    BY <1>1, <1>3
  <2>2. /\ Upto(F, k) \in Nat /\ F[k + 1] \in 1 .. MaxFrame
        /\ Upto(F, k + 1) = Upto(F, k) + F[k + 1]
    BY <2>1, UptoNext
  <2>3. PICK u \in Nat, f \in Nat : u = Upto(F, k) /\ f = F[k + 1] /\ f <= M
    <3>1. F[k + 1] \in Nat /\ F[k + 1] <= M
      BY <1>1, <2>2
    <3> QED
      BY <2>2, <3>1
  <2>4. u <= k * M
    BY <1>3, <2>3
  <2>5. (k + 1) * M = k * M + M
    BY <1>1
  <2>6. u + f <= k * M + M
    <3>1. PICK z \in Int : z = k * M
      BY <1>1
    <3> QED
      BY <2>3, <2>4, <3>1
  <2>7. k + 1 \in 0 .. n
    BY <1>3
  <2> QED
    BY <2>2, <2>3, <2>5, <2>6, <2>7
<1> HIDE DEF T
<1>4. \A k \in 0 .. n : k \in T
  BY <1>2, <1>3, Climb
<1>5. n \in T
  BY <1>1, <1>4
<1>6. Amount(F) <= n * M /\ Amount(F) \in Nat
  BY <1>1, <1>5, UptoIs DEF T
<1>7. n * M <= b * M
  <2>1. PICK d \in Nat : b = n + d
    <3>1. b - n \in Nat /\ b = n + (b - n)
      BY <1>1
    <3> QED
      BY <3>1
  <2>2. (n + d) * M = n * M + d * M
    BY <1>1
  <2>3. d * M >= 0 /\ d * M \in Int /\ n * M \in Int
    BY <1>1
  <2> QED
    BY <2>1, <2>2, <2>3
<1>8. PICK y \in Int, z \in Int : y = n * M /\ z = b * M
  BY <1>1
<1> QED
  BY <1>1, <1>6, <1>7, <1>8
-----------------------------------------------------------------------------
(* What the bytes of a channel add up to. *)

LEMMA BodiesLong ==
    ASSUME NEW q \in Seq(Segment), NEW c
    PROVE  Len(Bodies(q, c)) = SumOf(q, c, "DATA")
<1>1. PICK n \in Nat : n = Len(q)
  OBVIOUS
<1> DEFINE Q(k) == SubSeq(q, 1, k)
           T == {k \in 0 .. n : Len(Bodies(Q(k), c)) = SumOf(Q(k), c, "DATA")}
<1>2. 0 \in T
  <2>1. Q(0) = <<>> /\ 0 \in 0 .. n
    OBVIOUS
  <2>2. Len(Bodies(<<>>, c)) = 0 /\ SumOf(<<>>, c, "DATA") = 0
    BY BodiesEmpty, SumEmpty, Glue
  <2> QED
    BY <2>1, <2>2
<1>3. ASSUME NEW k \in 0 .. n, k < n, k \in T PROVE k + 1 \in T
  <2>1. /\ k \in Nat /\ k < Len(q) /\ k + 1 \in 0 .. n
    BY <1>1, <1>3
  <2>2. PICK a \in Seq(Segment), s \in Segment : a = Q(k) /\ s = q[k + 1] /\ Q(k + 1) = a \o <<s>>
    <3>1. /\ Q(k) \in Seq(Segment) /\ q[k + 1] \in Segment
          /\ Q(k + 1) = Q(k) \o <<q[k + 1]>>
      BY <2>1, FirstIs
    <3> QED
      BY <3>1
  <2>3. a \o <<s>> = Append(a, s)
    OBVIOUS
  <2>4. /\ Bodies(Append(a, s), c) = Bodies(a, c) \o Body(s, c)
        /\ SumOf(Append(a, s), c, "DATA") = SumOf(a, c, "DATA") + Worth(s, c, "DATA")
    BY BodiesAppend, SumAppend
  <2>5. PICK x \in Strand, y \in Strand : x = Bodies(a, c) /\ y = Body(s, c)
    BY BodiesIs, BodyIs
  <2>6. Len(x \o y) = Len(x) + Len(y)
    BY Glue
  <2>7. Len(y) = Worth(s, c, "DATA")
    BY <2>5, Glue DEF Body, Worth, Segment
  <2>8. Len(x) = SumOf(a, c, "DATA")
    BY <1>3, <2>2, <2>5
  <2>9. Len(Bodies(Q(k + 1), c)) = SumOf(Q(k + 1), c, "DATA")
    BY <2>2, <2>3, <2>4, <2>5, <2>6, <2>7, <2>8
  <2> QED
    BY <2>1, <2>9
<1> HIDE DEF T
<1>4. \A k \in 0 .. n : k \in T
  BY <1>2, <1>3, Climb
<1>5. n \in T
  BY <1>1, <1>4
<1>6. Q(n) = q
  BY <1>1, WholeIs
<1> QED
  BY <1>5, <1>6 DEF T

LEMMA FigureOfIs ==
    ASSUME NEW e, NEW m, IsEnd(e, m), NEW w \in Seq(Segment), NEW h, Tale(h),
           NEW p, NEW r, IsEnd(p, r), NEW v \in Seq(Segment), NEW c \in Ch
    PROVE  LET x == FigureOf(m, w, h, r, v, c)
           IN  /\ IsFigure(x)
               /\ Len(x.flight) = SumOf(m.out[c], c, "DATA") + SumOf(w, c, "DATA")
<1> DEFINE x == FigureOf(m, w, h, r, v, c)
<1>1. /\ x.frames = h.frames[c] /\ x.todo = m.todo[c] /\ x.held = m.held[c]
      /\ x.flight = Bodies(w, c) \o Bodies(m.out[c], c)
      /\ x.asm = r.asm[c] /\ x.unacked = r.unacked[c]
      /\ x.granted = SumOf(r.urgent, c, "WINDOW") + SumOf(v, c, "WINDOW")
  BY DEF FigureOf
<1> HIDE DEF x
<1>2. m.out[c] \in Seq(Segment)
  BY QueuesAre
<1>3. m.todo[c] \in Strand /\ m.held[c] \in Strand /\ r.asm[c] \in Strand
  BY DEF IsEnd, Strand
<1>4. h.frames[c] \in Lengths
  BY DEF Tale
<1>5. r.unacked[c] \in Nat /\ SumOf(r.urgent, c, "WINDOW") \in Nat
  BY NumbersAre
<1>6. SumOf(v, c, "WINDOW") \in Nat
  BY SumsAre
<1>7. PICK a \in Strand, b \in Strand : a = Bodies(w, c) /\ b = Bodies(m.out[c], c)
  BY <1>2, BodiesIs
<1>8. a \o b \in Strand /\ Len(a \o b) = Len(a) + Len(b) /\ Len(a) \in Nat /\ Len(b) \in Nat
  BY Glue
<1>9. Len(a) = SumOf(w, c, "DATA") /\ Len(b) = SumOf(m.out[c], c, "DATA")
  BY <1>2, <1>7, BodiesLong
<1>10. x.granted \in Nat
  <2>1. \A i, j \in Nat : i + j \in Nat
    OBVIOUS
  <2> QED
    BY <1>1, <1>5, <1>6, <2>1
<1>11. IsFigure(x)
  BY <1>1, <1>3, <1>4, <1>5, <1>7, <1>8, <1>10 DEF IsFigure
<1>12. Len(x.flight) = SumOf(m.out[c], c, "DATA") + SumOf(w, c, "DATA")
  <2>1. \A i, j \in Nat : i + j = j + i
    OBVIOUS
  <2> QED
    BY <1>1, <1>7, <1>8, <1>9, <2>1
<1> QED
  BY <1>11, <1>12 DEF x

\* The totals of CreditFlow are those of the figure.
Shown(e, c) ==
    LET x == Figure(e, c)
    IN  /\ IsFigure(x)
        /\ Begun(e, c) = Amount(x.frames) /\ Ends_(e, c) = EndsIn(x.frames)
        /\ Acquired(e, c) = Paid(x) /\ Pushed(e, c) = Posted(x)
        /\ Received(e, c) = Arrived(x) /\ Returned(e, c) = Refunded(x)
        /\ Granted(e, c) = x.granted /\ ep[Peer(e)].asm[c] = x.asm
        /\ hist[e].frames[c] = x.frames

LEMMA FiguresShow == IInv /\ Tales => \A e \in End, c \in Ch : Shown(e, c)
<1> SUFFICES ASSUME IInv, Tales, NEW e \in End, NEW c \in Ch PROVE Shown(e, c)
  OBVIOUS
<1> DEFINE p == Peer(e)
           x == Figure(e, c)
<1>1. p \in End /\ Types
  BY PeerIs DEF IInv
<1>2. IsEnd(e, ep[e]) /\ wire[e] \in Seq(Segment)
  BY <1>1, EndsAre
<1>3. IsEnd(p, ep[p]) /\ wire[p] \in Seq(Segment)
  BY <1>1, EndsAre
<1>4. Tale(hist[e])
  BY DEF Tales
<1>5. /\ IsFigure(x)
      /\ Len(x.flight) = SumOf(ep[e].out[c], c, "DATA") + SumOf(wire[e], c, "DATA")
  <2> HIDE DEF p
  <2>1. LET y == FigureOf(ep[e], wire[e], hist[e], ep[p], wire[p], c)
        IN  /\ IsFigure(y)
            /\ Len(y.flight) = SumOf(ep[e].out[c], c, "DATA") + SumOf(wire[e], c, "DATA")
    BY <1>2, <1>3, <1>4, FigureOfIs
  <2> QED
    BY <2>1 DEF Figure, p
<1>6. /\ x.frames = hist[e].frames[c] /\ x.todo = ep[e].todo[c] /\ x.held = ep[e].held[c]
      /\ x.asm = ep[p].asm[c] /\ x.unacked = ep[p].unacked[c]
      /\ x.granted = SumOf(ep[p].urgent, c, "WINDOW") + SumOf(wire[p], c, "WINDOW")
  BY DEF Figure, FigureOf
<1> HIDE DEF x
<1>7. /\ Begun(e, c) = Amount(x.frames) /\ Ends_(e, c) = EndsIn(x.frames)
      /\ Acquired(e, c) = Paid(x) /\ Pushed(e, c) = Posted(x)
  BY <1>6 DEF Begun, Ends_, EndsIn, Upto, Acquired, Pushed, Paid, Posted
<1>8. Granted(e, c) = x.granted
  BY <1>6 DEF Granted
<1>9. Received(e, c) = Arrived(x)
  <2>1. PICK a \in Nat, b \in Nat :
          a = SumOf(ep[e].out[c], c, "DATA") /\ b = SumOf(wire[e], c, "DATA")
    BY <1>1, <1>2, NumbersAre, EndsAre
  <2>2. PICK z \in Int : z = Posted(x)
    <3>1. x.frames \in Lengths /\ Len(x.todo) \in Nat /\ Len(x.held) \in Nat
      BY <1>5, Glue DEF IsFigure
    <3>2. Amount(x.frames) \in Nat
      BY <3>1, UptoIs
    <3> QED
      BY <3>1, <3>2 DEF Posted, Paid
  <2>3. z - a - b = z - (a + b)
    OBVIOUS
  <2> QED
    BY <1>5, <1>7, <2>1, <2>2, <2>3 DEF Received, Arrived
<1>10. Returned(e, c) = Refunded(x)
  BY <1>6, <1>9 DEF Returned, Refunded
<1> QED
  BY <1>5, <1>6, <1>7, <1>8, <1>9, <1>10 DEF Shown, x
-----------------------------------------------------------------------------
(* How the figure of one direction may move while both ends count it.      *)

\* The bytes that are to come after those in the assembler, up to the end of
\* the frames that were begun: k of these were decoded, and no more could be.
Ahead(x) == x.flight \o (x.held \o x.todo)
Aligned(x) ==
    /\ Len(x.frames) <= MaxFrames
    /\ Short(x.asm)
    /\ \E k \in 0 .. Len(x.frames) : Leads(x.asm, Ahead(x), x.frames, k)

SameSent(x, y) == y.frames = x.frames /\ y.todo = x.todo /\ y.held = x.held
SameRead(x, y) == y.asm = x.asm /\ y.unacked = x.unacked /\ y.granted = x.granted

BeginsFrame(x, y) ==
    /\ x.todo = <<>> /\ x.held = <<>> /\ Len(x.frames) < MaxFrames
    /\ \E len \in 1 .. MaxFrame :
         y.frames = Append(x.frames, len) /\ y.todo = Bytes(Len(x.frames) + 1, len)
    /\ y.held = <<>> /\ y.flight = x.flight /\ SameRead(x, y)

ChunkOf(x) == IF Len(x.todo) < MaxSeg THEN Len(x.todo) ELSE MaxSeg
PaysChunk(x, y) ==
    /\ x.todo # <<>> /\ x.held = <<>>
    /\ ChunkOf(x) <= Window - (Paid(x) - Regained(x))
    /\ y.held = SubSeq(x.todo, 1, ChunkOf(x))
    /\ y.todo = SubSeq(x.todo, ChunkOf(x) + 1, Len(x.todo))
    /\ y.frames = x.frames /\ y.flight = x.flight /\ SameRead(x, y)

PostsChunk(x, y) ==
    /\ x.held # <<>> /\ y.held = <<>> /\ y.flight = x.flight \o x.held
    /\ y.frames = x.frames /\ y.todo = x.todo /\ SameRead(x, y)

GathersBytes(x, y, body) ==
    /\ x.flight = body \o y.flight
    /\ LET r == Reassemble(x.asm \o body)
       IN  /\ y.asm = r.rest
           /\ \E back \in {0, r.used} : /\ y.unacked = x.unacked + Len(body) - back
                                        /\ y.granted = x.granted + back
    /\ SameSent(x, y)

ReturnsCredit(x, y, n) ==
    /\ n <= x.unacked - Len(x.asm)
    /\ y.unacked = x.unacked - n /\ y.granted = x.granted + n
    /\ SameSent(x, y) /\ y.flight = x.flight /\ y.asm = x.asm

RegainsCredit(x, y, n) ==
    /\ x.granted = y.granted + n
    /\ SameSent(x, y) /\ y.flight = x.flight /\ y.asm = x.asm /\ y.unacked = x.unacked

FigureMoves(x, y) ==
    \/ BeginsFrame(x, y) \/ PaysChunk(x, y) \/ PostsChunk(x, y)
    \/ \E body \in Strand : GathersBytes(x, y, body)
    \/ \E n \in Nat \ {0} : ReturnsCredit(x, y, n)
    \/ \E n \in Nat : RegainsCredit(x, y, n)

LEMMA FigureIs ==
    ASSUME NEW x, IsFigure(x)
    PROVE  /\ Amount(x.frames) \in Nat /\ Len(x.todo) \in Nat /\ Len(x.held) \in Nat
           /\ Len(x.flight) \in Nat /\ Len(x.asm) \in Nat /\ x.unacked \in Nat /\ x.granted \in Nat
           /\ x.held \o x.todo \in Strand /\ Ahead(x) \in Strand
           /\ Len(Ahead(x)) = Len(x.flight) + (Len(x.held) + Len(x.todo))
           /\ Len(x.frames) \in Nat
<1>1. /\ x.todo \in Strand /\ x.held \in Strand /\ x.flight \in Strand /\ x.asm \in Strand
      /\ x.unacked \in Nat /\ x.granted \in Nat /\ x.frames \in Lengths
  BY DEF IsFigure
<1>2. x.held \o x.todo \in Strand /\ Len(x.held \o x.todo) = Len(x.held) + Len(x.todo)
  BY <1>1, Glue
<1>3. Ahead(x) \in Strand /\ Len(Ahead(x)) = Len(x.flight) + (Len(x.held) + Len(x.todo))
  BY <1>1, <1>2, Glue DEF Ahead
<1>4. /\ Len(x.todo) \in Nat /\ Len(x.held) \in Nat /\ Len(x.flight) \in Nat /\ Len(x.asm) \in Nat
  BY <1>1, Glue
<1> QED
  BY <1>1, <1>2, <1>3, <1>4, UptoIs, LengthsAre

\* What was decoded ends where a frame ends, and no further frame has arrived.
LEMMA WholeEnds ==
    ASSUME NEW x, IsFigure(x), Aligned(x)
    PROVE  /\ \E k \in 0 .. Len(x.frames) : Whole(x) = Upto(x.frames, k)
           /\ Whole(x) \in Nat /\ Arrived(x) \in Nat /\ Whole(x) <= Arrived(x)
           /\ \A i \in 1 .. Len(x.frames) :
                Upto(x.frames, i) <= Arrived(x) => Upto(x.frames, i) <= Whole(x)
<1>1. PICK F \in Lengths, asm \in Strand, rest \in Strand :
        F = x.frames /\ asm = x.asm /\ rest = Ahead(x)
  BY FigureIs DEF IsFigure
<1>2. PICK k \in 0 .. Len(F) : Leads(asm, rest, F, k)
  BY <1>1 DEF Aligned
<1>3. PICK n \in Nat : n = Len(F) /\ k \in 0 .. n
  BY <1>1, LengthsAre
<1>4. PICK a \in Nat, t \in Nat, h \in Nat, f \in Nat, s \in Nat :
        /\ a = Amount(F) /\ t = Len(x.todo) /\ h = Len(x.held) /\ f = Len(x.flight) /\ s = Len(asm)
        /\ Len(rest) = f + (h + t)
  BY <1>1, FigureIs
<1>5. PICK u \in Nat, r \in Nat : u = Upto(F, k) /\ r = Len(Rest(F, k)) /\ u + r = a
  BY <1>3, <1>4, UptoIs
<1>6. r = s + (f + (h + t))
  <2>1. Len(asm \o rest) = Len(asm) + Len(rest)
    BY Glue
  <2> QED
    BY <1>2, <1>4, <1>5, <2>1 DEF Leads
<1>7. Arrived(x) = a - t - h - f /\ Whole(x) = a - t - h - f - s
  BY <1>1, <1>4 DEF Arrived, Posted, Paid, Whole
<1>8. Whole(x) = u /\ Arrived(x) = u + s
  BY <1>5, <1>6, <1>7
<1>9. ASSUME NEW i \in 1 .. n, Upto(F, i) <= u + s
      PROVE  Upto(F, i) <= u
  <2>1. CASE i <= k
    <3>1. i \in 0 .. n /\ k \in 0 .. n
      BY <1>3
    <3> QED
      BY <1>3, <1>5, <2>1, <3>1, UptoRises
  <2>2. CASE ~(i <= k)
    <3>1. k # n /\ k + 1 \in 0 .. n /\ i \in 0 .. n /\ k + 1 <= i
      BY <1>3, <2>2
    <3>2. F[k + 1] \in 1 .. MaxFrame /\ Upto(F, k + 1) = u + F[k + 1]
      BY <1>3, <1>5, <3>1, UptoNext
    <3>3. Upto(F, k + 1) <= Upto(F, i)
      BY <1>3, <3>1, UptoRises
    <3>4. PICK v \in Nat, b \in Nat : v = Upto(F, i) /\ b = F[k + 1] /\ b > 0
      <4>1. F[k + 1] \in Nat /\ F[k + 1] > 0
        BY <3>2, ConstantsAre
      <4>2. Upto(F, i) \in Nat
        BY <1>3, <3>1, UptoIs
      <4> QED
        BY <4>1, <4>2
    <3>5. b > s
      <4>1. CASE asm = <<>>
        BY <1>4, <3>4, <4>1, Glue
      <4>2. CASE asm # <<>>
        <5>1. asm[1].of = F[k + 1]
          BY <1>2, <4>2, LeadsFrame
        <5>2. asm[1].of > Len(asm)
          BY <1>1, <4>2 DEF Aligned, Short
        <5> QED
          BY <1>4, <3>4, <5>1, <5>2
      <4> QED
        BY <4>1, <4>2
    <3>6. u + b <= v /\ v <= u + s
      BY <1>9, <3>2, <3>3, <3>4
    <3> QED
      BY <3>4, <3>5, <3>6
  <2> QED
    BY <2>1, <2>2
<1>10. u <= u + s /\ u + s \in Nat
  OBVIOUS
<1> QED
  BY <1>1, <1>3, <1>5, <1>8, <1>9, <1>10
-----------------------------------------------------------------------------
(* What was decoded stays what is in line.                                 *)

LEMMA BeginAligns ==
    ASSUME NEW x, NEW y, IsFigure(x), IsFigure(y), Aligned(x), BeginsFrame(x, y)
    PROVE  Aligned(y)
<1>1. PICK F \in Lengths, asm \in Strand, flight \in Strand :
        F = x.frames /\ asm = x.asm /\ flight = x.flight
  BY DEF IsFigure
<1>2. PICK k \in 0 .. Len(F) : Leads(asm, Ahead(x), F, k)
  BY <1>1 DEF Aligned
<1>3. PICK len \in 1 .. MaxFrame : y.frames = Append(F, len) /\ y.todo = Bytes(Len(F) + 1, len)
  BY <1>1 DEF BeginsFrame
<1>4. Len(F) \in Nat /\ Len(F) < MaxFrames /\ Len(F) + 1 \in Nat
  BY <1>1, LengthsAre DEF BeginsFrame
<1>5. PICK z \in Strand : z = Bytes(Len(F) + 1, len)
  BY <1>4, BytesAre
<1>6. PICK G \in Lengths : G = Append(F, len) /\ Len(G) = Len(F) + 1 /\ Rest(G, k) = Rest(F, k) \o z
  BY <1>5, RestAppend
<1>7. Ahead(x) = flight
  BY <1>1, Glue DEF Ahead, BeginsFrame
<1>8. Ahead(y) = flight \o z
  BY <1>1, <1>3, <1>5, Glue DEF Ahead, BeginsFrame
<1>9. asm \o (flight \o z) = Rest(G, k)
  <2>1. asm \o flight = Rest(F, k)
    BY <1>2, <1>7 DEF Leads
  <2>2. Assoc(asm, flight, z)
    BY Associates
  <2> QED
    BY <1>6, <2>1, <2>2 DEF Assoc
<1>10. y.frames = G /\ y.asm = asm /\ k \in 0 .. Len(G) /\ Len(G) <= MaxFrames
  <2>1. MaxFrames \in Nat
    BY MuxAssumption
  <2> QED
    BY <1>1, <1>3, <1>4, <1>6, <2>1 DEF BeginsFrame, SameRead
<1>11. Leads(y.asm, Ahead(y), y.frames, k)
  BY <1>8, <1>9, <1>10 DEF Leads
<1>12. Short(y.asm)
  BY <1>1, <1>10 DEF Aligned
<1> QED
  BY <1>10, <1>11, <1>12 DEF Aligned

\* The sender holds nothing that it did not cut off what it still had to send.
LEMMA SameAhead ==
    ASSUME NEW x, NEW y, Aligned(x), Ahead(y) = Ahead(x), y.frames = x.frames, y.asm = x.asm
    PROVE  Aligned(y)
BY DEF Aligned

LEMMA ChunkIs ==
    ASSUME NEW x, IsFigure(x), x.todo # <<>>
    PROVE  /\ ChunkOf(x) \in Nat /\ ChunkOf(x) <= Len(x.todo) /\ ChunkOf(x) > 0
           /\ LET head == SubSeq(x.todo, 1, ChunkOf(x))
                  tail == SubSeq(x.todo, ChunkOf(x) + 1, Len(x.todo))
              IN  /\ head \in Strand /\ tail \in Strand /\ head \o tail = x.todo
                  /\ Len(head) = ChunkOf(x) /\ Len(x.todo) = ChunkOf(x) + Len(tail)
<1>1. PICK t \in Strand : t = x.todo /\ t # <<>>
  BY DEF IsFigure
<1>2. Len(t) \in Nat /\ Len(t) # 0
  BY <1>1, Glue
<1>3. PICK n \in Nat : n = ChunkOf(x) /\ n <= Len(t) /\ n > 0
  <2>1. MaxSeg \in Nat /\ MaxSeg > 0
    BY ConstantsAre
  <2>2. ChunkOf(x) = IF Len(t) < MaxSeg THEN Len(t) ELSE MaxSeg
    BY <1>1 DEF ChunkOf
  <2> QED
    BY <1>2, <2>1, <2>2
<1>4. PICK head, tail : head = SubSeq(t, 1, n) /\ tail = SubSeq(t, n + 1, Len(t))
  OBVIOUS
<1>5. head \in Strand /\ tail \in Strand /\ head \o tail = t
  <2>1. t \in Seq(Byte)
    BY DEF Strand
  <2>2. /\ SubSeq(t, 1, n) \in Seq(Byte) /\ SubSeq(t, n + 1, Len(t)) \in Seq(Byte)
        /\ SubSeq(t, 1, n) \o SubSeq(t, n + 1, Len(t)) = t
    BY <1>3, <2>1, CutInTwo
  <2> QED
    BY <1>4, <2>2 DEF Strand
<1>6. Len(head) = n
  <2>1. 0 \in Nat /\ 0 <= n /\ 0 + 1 = 1 /\ n - 0 = n
    BY <1>3
  <2>2. Len(SubSeq(t, 0 + 1, n)) = n - 0
    BY <1>3, <2>1, PieceIs
  <2> QED
    BY <1>4, <2>1, <2>2
<1>7. Len(t) = n + Len(tail)
  BY <1>5, <1>6, Glue
<1> QED
  BY <1>1, <1>3, <1>4, <1>5, <1>6, <1>7

LEMMA PayAligns ==
    ASSUME NEW x, NEW y, IsFigure(x), IsFigure(y), Aligned(x), PaysChunk(x, y)
    PROVE  Aligned(y)
<1>1. y.held \o y.todo = x.todo
  BY ChunkIs DEF PaysChunk
<1>2. x.held \o x.todo = x.todo
  BY Glue DEF PaysChunk, IsFigure
<1>3. Ahead(y) = Ahead(x)
  BY <1>1, <1>2 DEF Ahead, PaysChunk
<1> QED
  BY <1>3, SameAhead DEF PaysChunk, SameRead

LEMMA PostAligns ==
    ASSUME NEW x, NEW y, IsFigure(x), IsFigure(y), Aligned(x), PostsChunk(x, y)
    PROVE  Aligned(y)
<1>1. PICK a \in Strand, b \in Strand, t \in Strand : a = x.flight /\ b = x.held /\ t = x.todo
  BY DEF IsFigure
<1>2. y.flight = a \o b /\ y.held \o y.todo = t
  BY <1>1, Glue DEF PostsChunk
<1>3. (a \o b) \o t = a \o (b \o t)
  <2>1. Assoc(a, b, t)
    BY Associates
  <2> QED
    BY <2>1 DEF Assoc
<1>4. Ahead(y) = Ahead(x)
  BY <1>1, <1>2, <1>3 DEF Ahead
<1> QED
  BY <1>4, SameAhead DEF PostsChunk, SameRead

LEMMA GatherAligns ==
    ASSUME NEW x, NEW y, IsFigure(x), IsFigure(y), Aligned(x),
           NEW body \in Strand, GathersBytes(x, y, body)
    PROVE  Aligned(y)
<1>1. PICK F \in Lengths, asm \in Strand, flight \in Strand, rest \in Strand :
        F = x.frames /\ asm = x.asm /\ flight = y.flight /\ rest = x.held \o x.todo
  BY FigureIs DEF IsFigure
<1>2. PICK k \in 0 .. Len(F) : Leads(asm, Ahead(x), F, k)
  BY <1>1 DEF Aligned
<1>3. Ahead(x) = (body \o flight) \o rest /\ Ahead(y) = flight \o rest
  BY <1>1 DEF Ahead, GathersBytes, SameSent
<1>4. PICK b \in Strand, z \in Strand : b = asm \o body /\ z = flight \o rest
  BY Glue
<1>5. asm \o ((body \o flight) \o rest) = b \o z
  <2>1. (body \o flight) \o rest = body \o z
    <3>1. Assoc(body, flight, rest)
      BY Associates
    <3> QED
      BY <1>4, <3>1 DEF Assoc
  <2>2. Assoc(asm, body, z)
    BY Associates
  <2>3. (asm \o body) \o z = asm \o (body \o z)
    BY <2>2 DEF Assoc
  <2> QED
    BY <1>4, <2>1, <2>3
<1>6. Leads(b, z, F, k)
  BY <1>2, <1>3, <1>5 DEF Leads
<1>7. PICK r : r = Reassemble(b)
  OBVIOUS
<1>8. /\ r.frames \in Seq(Frame) /\ NextOf(r.frames, F, k)
      /\ r.rest \in Strand /\ Leads(r.rest, z, F, k + Len(r.frames)) /\ Short(r.rest)
  BY <1>6, <1>7, ReassembleNext
<1>9. y.asm = r.rest /\ y.frames = F
  BY <1>1, <1>4, <1>7 DEF GathersBytes, SameSent
<1>10. k + Len(r.frames) \in 0 .. Len(F)
  <2>1. PICK i \in Nat, n \in Nat : i = Len(r.frames) /\ n = Len(F)
    BY <1>8, LengthsAre
  <2>2. k + i <= n
    BY <1>8, <2>1 DEF NextOf
  <2> QED
    BY <2>1, <2>2
<1>11. Len(F) <= MaxFrames
  BY <1>1 DEF Aligned
<1> QED
  BY <1>3, <1>4, <1>8, <1>9, <1>10, <1>11 DEF Aligned

LEMMA MoveAligns ==
    ASSUME NEW x, NEW y, IsFigure(x), IsFigure(y), Aligned(x), FigureMoves(x, y)
    PROVE  Aligned(y)
<1>1. CASE BeginsFrame(x, y)
  BY <1>1, BeginAligns
<1>2. CASE PaysChunk(x, y)
  BY <1>2, PayAligns
<1>3. CASE PostsChunk(x, y)
  BY <1>3, PostAligns
<1>4. CASE \E body \in Strand : GathersBytes(x, y, body)
  BY <1>4, GatherAligns
<1>5. CASE \E n \in Nat \ {0} : ReturnsCredit(x, y, n)
  <2>1. Ahead(y) = Ahead(x) /\ y.frames = x.frames /\ y.asm = x.asm
    BY <1>5 DEF ReturnsCredit, SameSent, Ahead
  <2> QED
    BY <2>1, SameAhead
<1>6. CASE \E n \in Nat : RegainsCredit(x, y, n)
  <2>1. Ahead(y) = Ahead(x) /\ y.frames = x.frames /\ y.asm = x.asm
    BY <1>6 DEF RegainsCredit, SameSent, Ahead
  <2> QED
    BY <2>1, SameAhead
<1> QED
  BY <1>1, <1>2, <1>3, <1>4, <1>5, <1>6 DEF FigureMoves
-----------------------------------------------------------------------------
(* A move of the figure is a step of the flow control.                     *)

StartOf(F) == Amount(F) - IF F = <<>> THEN 0 ELSE Last(F)

\* What the mapping makes of a figure that both ends count.
Totals(e, c, x) ==
    /\ Mapped(e, c, Begun(e, c) -
         IF hist[e].frames[c] = <<>> THEN 0 ELSE Last(hist[e].frames[c])) = StartOf(x.frames)
    /\ Mapped(e, c, Begun(e, c)) = Amount(x.frames)
    /\ (IF Linked(e, c) THEN Ends_(e, c) ELSE {}) = EndsIn(x.frames)
    /\ Mapped(e, c, Acquired(e, c)) = Paid(x)
    /\ Mapped(e, c, Pushed(e, c)) = Posted(x)
    /\ Mapped(e, c, Received(e, c)) = Arrived(x)
    /\ Mapped(e, c, Received(e, c) - Len(ep[Peer(e)].asm[c])) = Whole(x)
    /\ Mapped(e, c, Returned(e, c)) = Refunded(x)
    /\ Mapped(e, c, Returned(e, c) - Granted(e, c)) = Regained(x)

LEMMA TotalsAre ==
    \A e \in End, c \in Ch : Linked(e, c) /\ Shown(e, c) => Totals(e, c, Figure(e, c))
<1> SUFFICES ASSUME NEW e \in End, NEW c \in Ch, Linked(e, c), Shown(e, c)
             PROVE  Totals(e, c, Figure(e, c))
  OBVIOUS
<1>1. \A total : Mapped(e, c, total) = total
  BY DEF Mapped
<1> QED
  BY <1>1 DEF Shown, StartOf, Whole, Regained, Totals

\* The flow control's own step, from the figure x to the figure y.
SameHeld(x, y) == Paid(y) = Paid(x) /\ Posted(y) = Posted(x)
SameBytes(x, y) == Arrived(y) = Arrived(x) /\ Whole(y) = Whole(x)
SameCredit(x, y) == Refunded(y) = Refunded(x) /\ Regained(y) = Regained(x)

FlowBegins(x, y) ==
    /\ Posted(x) = Amount(x.frames)
    /\ \E len \in 1 .. MaxFrame : /\ Amount(x.frames) + len <= MaxFrames * MaxFrame
                                  /\ Amount(y.frames) = Amount(x.frames) + len
    /\ StartOf(y.frames) = Amount(x.frames)
    /\ EndsIn(y.frames) = EndsIn(x.frames) \union {Amount(y.frames)}
    /\ SameHeld(x, y) /\ SameBytes(x, y) /\ SameCredit(x, y)
Unpaid(x) == Amount(x.frames) - Paid(x)
FlowAcquires(x, y) ==
    /\ Paid(x) = Posted(x) /\ Paid(x) < Amount(x.frames)
    /\ LET n == IF Unpaid(x) < MaxSeg THEN Unpaid(x) ELSE MaxSeg
       IN  n <= Window - (Paid(x) - Regained(x)) /\ Paid(y) = Paid(x) + n
    /\ y.frames = x.frames /\ Posted(y) = Posted(x)
    /\ SameBytes(x, y) /\ SameCredit(x, y)
FlowPushes(x, y) ==
    /\ Posted(x) < Paid(x) /\ Posted(y) = Paid(x)
    /\ y.frames = x.frames /\ Paid(y) = Paid(x) /\ SameBytes(x, y) /\ SameCredit(x, y)
FlowReceives(x, y) ==
    /\ \E n \in 1 .. (Posted(x) - Arrived(x)) : Arrived(y) = Arrived(x) + n
    /\ Whole(y) \in {z \in EndsIn(x.frames) : z <= Arrived(y)} \union {0}
    /\ \A z \in EndsIn(x.frames) : z <= Arrived(y) => z <= Whole(y)
    /\ \E refund \in 0 .. MaxFrames * MaxFrame :
         refund \in 0 .. (Whole(y) - Whole(x)) /\ Refunded(y) = Refunded(x) + refund
    /\ y.frames = x.frames /\ SameHeld(x, y) /\ Regained(y) = Regained(x)
FlowReturns(x, y) ==
    /\ \E n \in 1 .. (Whole(x) - Refunded(x)) : Refunded(y) = Refunded(x) + n
    /\ y.frames = x.frames /\ SameHeld(x, y) /\ SameBytes(x, y) /\ Regained(y) = Regained(x)
FlowCredits(x, y) ==
    /\ \E n \in 1 .. (Refunded(x) - Regained(x)) : Regained(y) = Regained(x) + n
    /\ y.frames = x.frames /\ SameHeld(x, y) /\ SameBytes(x, y) /\ Refunded(y) = Refunded(x)
FlowStays(x, y) ==
    y.frames = x.frames /\ SameHeld(x, y) /\ SameBytes(x, y) /\ SameCredit(x, y)

Flows(x, y) ==
    \/ FlowBegins(x, y) \/ FlowAcquires(x, y) \/ FlowPushes(x, y) \/ FlowReceives(x, y)
    \/ FlowReturns(x, y) \/ FlowCredits(x, y) \/ FlowStays(x, y)

LEMMA FlowsFlow ==
    ASSUME NEW e \in End, NEW c \in Ch, Linked(e, c), Linked(e, c)', NEW x, NEW y,
           Totals(e, c, x), Totals(e, c, y)', Flows(x, y)
    PROVE  [Flow(e, c)!Next]_(Flow(e, c)!vars)
<1>1. CASE FlowBegins(x, y)
  <2>1. PICK len \in 1 .. MaxFrame : /\ Amount(x.frames) + len <= MaxFrames * MaxFrame
                                     /\ Amount(y.frames) = Amount(x.frames) + len
    BY <1>1 DEF FlowBegins
  <2>2. Flow(e, c)!BeginFrame(len)
    BY <1>1, <2>1 DEF FlowBegins, SameHeld, SameBytes, SameCredit, Totals, Flow!BeginFrame
  <2>3. Flow(e, c)!Next
    BY <2>1, <2>2 DEF Totals, Flow!Next
  <2> QED
    BY <2>3
<1>2. CASE FlowAcquires(x, y)
  <2>1. Flow(e, c)!Acquire
    BY <1>2 DEF FlowAcquires, Unpaid, SameBytes, SameCredit, Totals, Flow!Acquire, Flow!chunk, Flow!credit
  <2>2. Flow(e, c)!Next
    BY <2>1 DEF Flow!Next
  <2> QED
    BY <2>2
<1>3. CASE FlowPushes(x, y)
  <2>1. Flow(e, c)!Push
    BY <1>3 DEF FlowPushes, SameBytes, SameCredit, Totals, Flow!Push
  <2>2. Flow(e, c)!Next
    BY <2>1 DEF Flow!Next
  <2> QED
    BY <2>2
<1>4. CASE FlowReceives(x, y)
  <2>1. PICK n \in 1 .. (Posted(x) - Arrived(x)) : Arrived(y) = Arrived(x) + n
    BY <1>4 DEF FlowReceives
  <2>2. PICK refund \in 0 .. MaxFrames * MaxFrame :
          refund \in 0 .. (Whole(y) - Whole(x)) /\ Refunded(y) = Refunded(x) + refund
    BY <1>4 DEF FlowReceives
  <2>3. Flow(e, c)!Receive(n, refund)
    BY <1>4, <2>1, <2>2 DEF FlowReceives, SameHeld, Totals, Flow!Receive
  <2>4. Flow(e, c)!Next
    BY <2>1, <2>2, <2>3 DEF Totals, Flow!Next
  <2> QED
    BY <2>4
<1>5. CASE FlowReturns(x, y)
  <2>1. PICK n \in 1 .. (Whole(x) - Refunded(x)) : Refunded(y) = Refunded(x) + n
    BY <1>5 DEF FlowReturns
  <2>2. Flow(e, c)!Return(n)
    BY <1>5, <2>1 DEF FlowReturns, SameHeld, SameBytes, Totals, Flow!Return
  <2>3. Flow(e, c)!Next
    BY <2>1, <2>2 DEF Totals, Flow!Next
  <2> QED
    BY <2>3
<1>6. CASE FlowCredits(x, y)
  <2>1. PICK n \in 1 .. (Refunded(x) - Regained(x)) : Regained(y) = Regained(x) + n
    BY <1>6 DEF FlowCredits
  <2>2. Flow(e, c)!Credit(n)
    BY <1>6, <2>1 DEF FlowCredits, SameHeld, SameBytes, Totals, Flow!Credit
  <2>3. Flow(e, c)!Next
    BY <2>1, <2>2 DEF Totals, Flow!Next
  <2> QED
    BY <2>3
<1>7. CASE FlowStays(x, y)
  <2>1. UNCHANGED Flow(e, c)!vars
    BY <1>7 DEF FlowStays, SameHeld, SameBytes, SameCredit, Totals, Flow!vars, Flow!totals
  <2> QED
    BY <2>1
<1> QED
  BY <1>1, <1>2, <1>3, <1>4, <1>5, <1>6, <1>7 DEF Flows
LEMMA TotalsInt ==
    ASSUME NEW x, IsFigure(x)
    PROVE  Posted(x) \in Int /\ Arrived(x) \in Int /\ Refunded(x) \in Int
<1>1. PICK a \in Nat, t \in Nat, h \in Nat, f \in Nat, u \in Nat :
        /\ a = Amount(x.frames) /\ t = Len(x.todo) /\ h = Len(x.held)
        /\ f = Len(x.flight) /\ u = x.unacked
  BY FigureIs
<1>2. Posted(x) = a - t - h
  BY <1>1 DEF Posted, Paid
<1>3. Arrived(x) = a - t - h - f
  BY <1>1, <1>2 DEF Arrived
<1>4. Refunded(x) = a - t - h - f - u
  BY <1>1, <1>3 DEF Refunded
<1> QED
  BY <1>2, <1>3, <1>4

LEMMA EndsAppend ==
    ASSUME NEW F \in Lengths, NEW len \in 1 .. MaxFrame, NEW G, G = Append(F, len)
    PROVE  /\ G \in Lengths /\ Len(G) = Len(F) + 1 /\ Amount(G) = Amount(F) + len
           /\ EndsIn(G) = EndsIn(F) \union {Amount(G)} /\ StartOf(G) = Amount(F)
<1>1. PICK n \in Nat : n = Len(F) /\ n + 1 \in Nat
  BY LengthsAre
<1>2. /\ G \in Lengths /\ Len(G) = n + 1 /\ G[n + 1] = len
      /\ \A i \in 1 .. n : G[i] = F[i]
  <2>1. /\ Append(F, len) \in Lengths /\ Len(Append(F, len)) = Len(F) + 1
        /\ Append(F, len)[Len(F) + 1] = len
        /\ \A i \in 1 .. Len(F) : Append(F, len)[i] = F[i]
    <3>1. Len(F) \in 0 .. Len(F)
      BY <1>1
    <3> QED
      BY <3>1, RestAppend
  <2> QED
    BY <1>1, <2>1
<1>3. ASSUME NEW i \in 0 .. n PROVE Upto(G, i) = Upto(F, i)
  <2>1. SubSeq(G, 1, i) = SubSeq(F, 1, i)
    <3>1. G \in Seq(Length) /\ F \in Seq(Length)
      BY <1>2 DEF Lengths
    <3>2. i \in Nat /\ \A j \in 1 .. i : j \in 1 .. n
      BY <1>1
    <3> QED
      BY <1>1, <1>2, <3>1, <3>2
  <2> QED
    BY <2>1 DEF Upto
<1>4. Upto(F, n) = Amount(F) /\ Upto(G, n + 1) = Amount(G) /\ Amount(F) \in Nat /\ Amount(G) \in Nat
  BY <1>1, <1>2, UptoIs
<1>5. Amount(G) = Amount(F) + len
  <2>1. n \in 0 .. Len(G) /\ n # Len(G) /\ n \in 0 .. n
    BY <1>1, <1>2
  <2>2. Upto(G, n + 1) = Upto(G, n) + G[n + 1]
    BY <1>2, <2>1, UptoNext
  <2> QED
    BY <1>2, <1>3, <1>4, <2>1, <2>2
<1>6. EndsIn(G) = EndsIn(F) \union {Amount(G)}
  <2>1. \A i \in 1 .. n + 1 : i \in 1 .. n \/ i = n + 1
    BY <1>1
  <2>2. \A i \in 1 .. n : i \in 1 .. n + 1 /\ i \in 0 .. n
    BY <1>1
  <2>3. n + 1 \in 1 .. n + 1
    BY <1>1
  <2>4. EndsIn(G) = {Upto(G, i) : i \in 1 .. n + 1} /\ EndsIn(F) = {Upto(F, i) : i \in 1 .. n}
    BY <1>1, <1>2 DEF EndsIn
  <2> QED
    BY <1>3, <1>4, <2>1, <2>2, <2>3, <2>4
<1>7. StartOf(G) = Amount(F)
  <2>1. G # <<>> /\ Last(G) = len
    <3>1. Len(<<>>) = 0
      OBVIOUS
    <3> QED
      BY <1>1, <1>2, <3>1 DEF Last
  <2>2. len \in Nat
    BY ConstantsAre
  <2>3. (Amount(F) + len) - len = Amount(F)
    BY <1>4, <2>2
  <2>4. StartOf(G) = Amount(G) - len
    BY <2>1 DEF StartOf
  <2> QED
    BY <1>5, <2>3, <2>4
<1> QED
  BY <1>1, <1>2, <1>5, <1>6, <1>7

LEMMA BeginFlows ==
    ASSUME NEW x, NEW y, IsFigure(x), IsFigure(y), Aligned(y), BeginsFrame(x, y)
    PROVE  FlowBegins(x, y)
<1>1. PICK F \in Lengths : F = x.frames
  BY DEF IsFigure
<1>2. PICK len \in 1 .. MaxFrame : y.frames = Append(F, len) /\ y.todo = Bytes(Len(F) + 1, len)
  BY <1>1 DEF BeginsFrame
<1>3. PICK G \in Lengths : /\ G = y.frames /\ Amount(G) = Amount(F) + len
                           /\ EndsIn(G) = EndsIn(F) \union {Amount(G)} /\ StartOf(G) = Amount(F)
  BY <1>2, EndsAppend
<1>4. Len(y.todo) = len /\ len \in Nat
  <2>1. Len(F) + 1 \in Nat
    BY LengthsAre
  <2> QED
    BY <1>2, <2>1, BytesAre
<1>5. /\ Len(x.todo) = 0 /\ Len(x.held) = 0 /\ Len(y.held) = 0 /\ y.flight = x.flight
      /\ y.asm = x.asm /\ y.unacked = x.unacked /\ y.granted = x.granted
  BY DEF BeginsFrame, SameRead
<1>6. Amount(G) <= MaxFrames * MaxFrame
  <2>1. Len(G) <= MaxFrames /\ MaxFrames \in Nat
    BY <1>3, MuxAssumption DEF Aligned
  <2> QED
    BY <2>1, AmountBound
<1>7. PICK a \in Nat, f \in Nat, s \in Nat, u \in Nat, g \in Nat :
        /\ a = Amount(F) /\ f = Len(x.flight) /\ s = Len(x.asm) /\ u = x.unacked /\ g = x.granted
  BY <1>1, FigureIs
<1>8. Posted(x) = a /\ Paid(x) = a /\ Arrived(x) = a - f /\ Whole(x) = a - f - s
  BY <1>1, <1>5, <1>7 DEF Paid, Posted, Arrived, Whole
<1>9. Amount(y.frames) = a + len /\ Amount(x.frames) = a
  BY <1>1, <1>3, <1>7
<1>10. Paid(y) = a /\ Posted(y) = a /\ Arrived(y) = a - f /\ Whole(y) = a - f - s
  BY <1>4, <1>5, <1>7, <1>9 DEF Paid, Posted, Arrived, Whole
<1>11. SameCredit(x, y)
  BY <1>5, <1>8, <1>10 DEF SameCredit, Refunded, Regained
<1> QED
  BY <1>1, <1>3, <1>6, <1>7, <1>8, <1>9, <1>10, <1>11 DEF FlowBegins, SameHeld, SameBytes

LEMMA PayFlows ==
    ASSUME NEW x, NEW y, IsFigure(x), IsFigure(y), PaysChunk(x, y)
    PROVE  FlowAcquires(x, y)
<1>1. PICK n \in Nat : /\ n = ChunkOf(x) /\ n > 0 /\ n <= Len(x.todo)
                       /\ Len(y.held) = n /\ Len(x.todo) = n + Len(y.todo)
  BY ChunkIs DEF PaysChunk
<1>2. PICK a \in Nat, t \in Nat, v \in Nat, f \in Nat, s \in Nat :
        /\ a = Amount(x.frames) /\ t = Len(x.todo) /\ v = Len(y.todo)
        /\ f = Len(x.flight) /\ s = Len(x.asm)
  BY FigureIs
<1>3. Len(x.held) = 0 /\ y.frames = x.frames /\ y.flight = x.flight /\ y.asm = x.asm
  BY DEF PaysChunk, SameRead
<1>4. Paid(x) = a - t /\ Posted(x) = a - t /\ Arrived(x) = a - t - f /\ Whole(x) = a - t - f - s
  BY <1>2, <1>3 DEF Paid, Posted, Arrived, Whole
<1>5. Paid(y) = a - t + n /\ Posted(y) = a - t /\ Arrived(y) = a - t - f /\ Whole(y) = a - t - f - s
  <2>1. Paid(y) = a - v /\ Posted(y) = Paid(y) - n /\ Arrived(y) = Posted(y) - f /\ Whole(y) = Arrived(y) - s
    BY <1>1, <1>2, <1>3 DEF Paid, Posted, Arrived, Whole
  <2>2. t = n + v
    BY <1>1, <1>2
  <2> QED
    BY <2>1, <2>2
<1>6. SameCredit(x, y)
  BY <1>4, <1>5 DEF SameCredit, Refunded, Regained, PaysChunk, SameRead
<1>7. Unpaid(x) = t
  BY <1>2, <1>4 DEF Unpaid
<1>8. n = IF t < MaxSeg THEN t ELSE MaxSeg
  BY <1>1, <1>2 DEF ChunkOf
<1>9. n <= Window - (Paid(x) - Regained(x))
  BY <1>1 DEF PaysChunk
<1>10. Paid(x) < a
  BY <1>1, <1>2, <1>4
<1> QED
  BY <1>2, <1>3, <1>4, <1>5, <1>6, <1>7, <1>8, <1>9, <1>10 DEF FlowAcquires, SameBytes

LEMMA PostFlows ==
    ASSUME NEW x, NEW y, IsFigure(x), IsFigure(y), PostsChunk(x, y)
    PROVE  FlowPushes(x, y)
<1>1. PICK a \in Nat, t \in Nat, h \in Nat, f \in Nat, s \in Nat :
        /\ a = Amount(x.frames) /\ t = Len(x.todo) /\ h = Len(x.held)
        /\ f = Len(x.flight) /\ s = Len(x.asm)
  BY FigureIs
<1>2. h > 0
  BY <1>1, Glue DEF PostsChunk, IsFigure
<1>3. Len(y.flight) = f + h /\ Len(y.held) = 0
  BY <1>1, Glue DEF PostsChunk, IsFigure
<1>4. y.frames = x.frames /\ y.todo = x.todo /\ y.asm = x.asm
  BY DEF PostsChunk, SameRead
<1>5. Paid(x) = a - t /\ Posted(x) = a - t - h /\ Arrived(x) = a - t - h - f /\ Whole(x) = a - t - h - f - s
  BY <1>1 DEF Paid, Posted, Arrived, Whole
<1>6. Paid(y) = a - t /\ Posted(y) = a - t /\ Arrived(y) = a - t - h - f /\ Whole(y) = a - t - h - f - s
  <2>1. Paid(y) = a - t /\ Posted(y) = Paid(y) - 0 /\ Arrived(y) = Posted(y) - (f + h) /\ Whole(y) = Arrived(y) - s
    BY <1>1, <1>3, <1>4 DEF Paid, Posted, Arrived, Whole
  <2> QED
    BY <2>1
<1>7. SameCredit(x, y)
  BY <1>5, <1>6 DEF SameCredit, Refunded, Regained, PostsChunk, SameRead
<1>8. Posted(x) < Paid(x)
  BY <1>1, <1>2, <1>5
<1> QED
  BY <1>4, <1>5, <1>6, <1>7, <1>8 DEF FlowPushes, SameBytes

LEMMA WholeStays ==
    ASSUME NEW x, NEW y, IsFigure(x), IsFigure(y), Aligned(x), Aligned(y),
           y.frames = x.frames, Arrived(y) = Arrived(x)
    PROVE  Whole(y) = Whole(x)
<1>1. ASSUME NEW z, NEW v, IsFigure(z), IsFigure(v), Aligned(z), Aligned(v),
             v.frames = z.frames, Arrived(v) = Arrived(z)
      PROVE  Whole(v) <= Whole(z)
  <2>1. PICK F \in Lengths : F = z.frames /\ F = v.frames
    BY <1>1 DEF IsFigure
  <2>2. PICK k \in 0 .. Len(F) : Whole(v) = Upto(F, k)
    BY <1>1, <2>1, WholeEnds
  <2>3. Whole(v) \in Nat /\ Whole(v) <= Arrived(v)
    BY <1>1, WholeEnds
  <2>4. Whole(z) \in Nat /\ \A i \in 1 .. Len(F) : Upto(F, i) <= Arrived(z) => Upto(F, i) <= Whole(z)
    BY <1>1, <2>1, WholeEnds
  <2>5. CASE k = 0
    <3>1. Whole(v) = 0
      BY <2>2, <2>5, UptoIs
    <3> QED
      BY <2>4, <3>1
  <2>6. CASE k # 0
    <3>1. k \in 1 .. Len(F)
      BY <2>6, LengthsAre
    <3> QED
      BY <1>1, <2>2, <2>3, <2>4, <3>1
  <2> QED
    BY <2>5, <2>6
<1>2. Whole(y) <= Whole(x)
  BY <1>1
<1>3. Whole(x) <= Whole(y)
  BY <1>1
<1>4. Whole(x) \in Nat /\ Whole(y) \in Nat
  BY WholeEnds
<1> QED
  BY <1>2, <1>3, <1>4

LEMMA GatherFlows ==
    ASSUME NEW x, NEW y, IsFigure(x), IsFigure(y), Aligned(x), Aligned(y),
           NEW body \in Strand, GathersBytes(x, y, body)
    PROVE  FlowReceives(x, y) \/ FlowStays(x, y)
<1>1. PICK asm \in Strand, b \in Strand : asm = x.asm /\ b = asm \o body /\ Len(b) = Len(asm) + Len(body)
  <2>1. PICK a \in Strand : a = x.asm
    BY DEF IsFigure
  <2>2. a \o body \in Strand /\ Len(a \o body) = Len(a) + Len(body)
    BY Glue
  <2> QED
    BY <2>1, <2>2
<1>2. PICK r : r = Reassemble(b)
  OBVIOUS
<1>3. r.used \in Nat /\ Len(r.rest) + r.used = Len(b)
  <2>1. b \in Seq(Byte)
    BY DEF Strand
  <2> QED
    BY <1>2, <2>1, ReassembleIs
<1>4. PICK back \in {0, r.used} : /\ y.unacked = x.unacked + Len(body) - back
                                  /\ y.granted = x.granted + back
  BY <1>1, <1>2 DEF GathersBytes
<1>5. PICK n \in Nat, f \in Nat, v \in Nat, s \in Nat, q \in Nat, k \in Nat :
        /\ n = Len(body) /\ f = Len(x.flight) /\ v = Len(y.flight) /\ s = Len(x.asm) /\ q = Len(y.asm)
        /\ k = back
  BY <1>3, FigureIs, Glue
<1>6. y.frames = x.frames /\ y.todo = x.todo /\ y.held = x.held /\ y.asm = r.rest
  BY <1>1, <1>2 DEF GathersBytes, SameSent
<1>7. f = n + v
  <2>1. x.flight = body \o y.flight /\ y.flight \in Strand
    BY DEF GathersBytes, IsFigure
  <2> QED
    BY <1>5, <2>1, Glue
<1>8. r.used = s + n - q
  <2>1. PICK w \in Nat : w = r.used /\ q + w = s + n
    BY <1>1, <1>3, <1>5, <1>6
  <2> QED
    BY <2>1
<1>9. SameHeld(x, y)
  BY <1>6 DEF SameHeld, Paid, Posted
<1>10. PICK o \in Int : o = Posted(x) /\ o = Posted(y)
  <2>1. Posted(x) \in Int
    BY TotalsInt
  <2> QED
    BY <1>9, <2>1 DEF SameHeld
<1>11. Arrived(x) = o - f /\ Arrived(y) = o - v /\ Whole(x) = o - f - s /\ Whole(y) = o - v - q
  BY <1>5, <1>10 DEF Arrived, Whole
<1>12. Arrived(y) = Arrived(x) + n
  BY <1>7, <1>11
<1>13. Whole(y) - Whole(x) = r.used
  BY <1>7, <1>8, <1>11
<1>14. Refunded(y) = Refunded(x) + k /\ Regained(y) = Regained(x)
  <2>1. PICK u \in Nat, g \in Nat : u = x.unacked /\ g = x.granted
    BY FigureIs
  <2>2. y.unacked = u + (n - k) /\ y.granted = g + k
    BY <1>4, <1>5, <2>1
  <2>3. Refunded(x) = Arrived(x) - u /\ Refunded(y) = Arrived(y) - (u + (n - k))
    BY <2>1, <2>2 DEF Refunded
  <2>4. Refunded(x) = o - f - u /\ Refunded(y) = o - v - (u + (n - k))
    BY <1>11, <2>3
  <2>5. Refunded(y) = Refunded(x) + k
    BY <1>7, <2>4
  <2>6. Regained(x) = Refunded(x) - g /\ Regained(y) = Refunded(y) - (g + k)
    BY <2>1, <2>2 DEF Regained
  <2>7. Refunded(x) \in Int
    BY <2>4
  <2> QED
    BY <2>5, <2>6, <2>7
<1>15. k \in {0, r.used}
  BY <1>5
<1>16. CASE n = 0
  <2>1. Arrived(y) = Arrived(x)
    BY <1>11, <1>12, <1>16
  <2>2. Whole(y) = Whole(x)
    BY <1>6, <2>1, WholeStays
  <2>3. k = 0
    BY <1>11, <1>13, <1>15, <2>2
  <2>4. Refunded(x) \in Int
    BY TotalsInt
  <2>5. Refunded(y) = Refunded(x)
    BY <1>14, <2>3, <2>4
  <2> QED
    BY <1>6, <1>9, <1>14, <2>1, <2>2, <2>5 DEF FlowStays, SameBytes, SameCredit
<1>17. CASE n > 0
  <2>1. n \in 1 .. (Posted(x) - Arrived(x))
    BY <1>7, <1>10, <1>11, <1>17
  <2>2. PICK F \in Lengths : F = x.frames /\ F = y.frames
    BY <1>6 DEF IsFigure
  <2>3. PICK i \in 0 .. Len(F) : Whole(y) = Upto(F, i)
    BY <2>2, WholeEnds
  <2>4. Len(F) \in Nat
    BY LengthsAre
  <2>5. Whole(y) \in EndsIn(F) \union {0}
    <3>1. CASE i = 0
      BY <2>3, <3>1, UptoIs
    <3>2. CASE i # 0
      <4>1. i \in 1 .. Len(F)
        BY <2>4, <3>2
      <4> QED
        BY <2>3, <4>1 DEF EndsIn
    <3> QED
      BY <3>1, <3>2
  <2>6. /\ Whole(y) \in Nat /\ Whole(y) <= Arrived(y) /\ Whole(x) \in Nat
        /\ \A j \in 1 .. Len(F) : Upto(F, j) <= Arrived(y) => Upto(F, j) <= Whole(y)
    BY <2>2, WholeEnds
  <2>7. \A z \in EndsIn(F) : z <= Arrived(y) => z <= Whole(y)
    BY <2>6 DEF EndsIn
  <2>8. k \in 0 .. (Whole(y) - Whole(x))
    BY <1>3, <1>13, <1>15
  <2>9. Whole(y) <= MaxFrames * MaxFrame
    <3>1. Whole(y) <= Amount(F) /\ Amount(F) \in Nat
      <4>1. Len(F) \in 0 .. Len(F) /\ i <= Len(F)
        BY <2>4
      <4>2. Upto(F, i) <= Upto(F, Len(F))
        BY <4>1, UptoRises
      <4> QED
        BY <2>3, <4>2, UptoIs
    <3>2. Amount(F) <= MaxFrames * MaxFrame
      <4>1. Len(F) <= MaxFrames /\ MaxFrames \in Nat
        BY <2>2, MuxAssumption DEF Aligned
      <4> QED
        BY <4>1, AmountBound
    <3>3. PICK z \in Int : z = MaxFrames * MaxFrame
      BY ConstantsAre, MuxAssumption
    <3> QED
      BY <2>6, <3>1, <3>2, <3>3
  <2>10. k \in 0 .. MaxFrames * MaxFrame
    <3>1. PICK z \in Int : z = MaxFrames * MaxFrame
      BY ConstantsAre, MuxAssumption
    <3> QED
      BY <2>6, <2>8, <2>9, <3>1
  <2>11. /\ Whole(y) \in {z \in EndsIn(x.frames) : z <= Arrived(y)} \union {0}
         /\ \A z \in EndsIn(x.frames) : z <= Arrived(y) => z <= Whole(y)
    BY <2>2, <2>5, <2>6, <2>7
  <2> QED
    BY <1>6, <1>9, <1>12, <1>14, <2>1, <2>8, <2>10, <2>11 DEF FlowReceives
<1> QED
  BY <1>5, <1>16, <1>17

LEMMA MoveFlows ==
    ASSUME NEW x, NEW y, IsFigure(x), IsFigure(y), Aligned(x), Aligned(y), FigureMoves(x, y)
    PROVE  Flows(x, y)
<1>1. CASE BeginsFrame(x, y)
  BY <1>1, BeginFlows DEF Flows
<1>2. CASE PaysChunk(x, y)
  BY <1>2, PayFlows DEF Flows
<1>3. CASE PostsChunk(x, y)
  BY <1>3, PostFlows DEF Flows
<1>4. CASE \E body \in Strand : GathersBytes(x, y, body)
  BY <1>4, GatherFlows DEF Flows
<1>5. ASSUME NEW n \in Nat \ {0}, ReturnsCredit(x, y, n) PROVE FlowReturns(x, y)
  <2>1. PICK o \in Int, s \in Nat, u \in Nat, g \in Nat :
          o = Arrived(x) /\ s = Len(x.asm) /\ u = x.unacked /\ g = x.granted
    BY FigureIs, TotalsInt
  <2>2. y.unacked = u - n /\ y.granted = g + n /\ n <= u - s
    BY <1>5, <2>1 DEF ReturnsCredit
  <2>3. /\ y.frames = x.frames /\ SameHeld(x, y) /\ SameBytes(x, y)
    BY <1>5 DEF ReturnsCredit, SameSent, SameHeld, SameBytes, Paid, Posted, Arrived, Whole
  <2>4. Whole(x) = o - s /\ Refunded(x) = o - u /\ Refunded(y) = o - (u - n)
    BY <2>1, <2>2, <2>3 DEF Whole, Refunded, SameBytes
  <2>5. Regained(x) = (o - u) - g /\ Regained(y) = (o - (u - n)) - (g + n)
    BY <2>1, <2>2, <2>4 DEF Regained
  <2>6. n \in 1 .. (Whole(x) - Refunded(x)) /\ Refunded(y) = Refunded(x) + n
    BY <2>2, <2>4
  <2>7. Regained(y) = Regained(x)
    BY <2>5
  <2> QED
    BY <2>3, <2>6, <2>7 DEF FlowReturns
<1>6. ASSUME NEW n \in Nat, RegainsCredit(x, y, n) PROVE FlowCredits(x, y) \/ FlowStays(x, y)
  <2>1. PICK o \in Int, g \in Nat, v \in Nat : o = Refunded(x) /\ g = x.granted /\ v = y.granted
    BY FigureIs, TotalsInt
  <2>2. g = v + n
    BY <1>6, <2>1 DEF RegainsCredit
  <2>3. y.frames = x.frames /\ SameHeld(x, y) /\ SameBytes(x, y) /\ Refunded(y) = Refunded(x)
    BY <1>6 DEF RegainsCredit, SameSent, SameHeld, SameBytes, Paid, Posted, Arrived, Whole, Refunded
  <2>4. Regained(x) = o - g /\ Regained(y) = o - v
    BY <2>1, <2>3 DEF Regained
  <2>5. CASE n = 0
    BY <2>2, <2>3, <2>4, <2>5 DEF FlowStays, SameCredit
  <2>6. CASE n > 0
    <3>1. n \in 1 .. (Refunded(x) - Regained(x)) /\ Regained(y) = Regained(x) + n
      BY <2>1, <2>2, <2>4, <2>6
    <3> QED
      BY <2>3, <3>1 DEF FlowCredits
  <2> QED
    BY <2>5, <2>6
<1> QED
  BY <1>1, <1>2, <1>3, <1>4, <1>5, <1>6 DEF FigureMoves, Flows
-----------------------------------------------------------------------------
(* The channel opens and closes.                                           *)

\* The figure of a channel that nothing was sent on.
Blank ==
    [frames |-> <<>>, todo |-> <<>>, held |-> <<>>, flight |-> <<>>, asm |-> <<>>,
     unacked |-> 0, granted |-> 0]

LEMMA BlankIs ==
    /\ IsFigure(Blank) /\ Aligned(Blank)
    /\ StartOf(Blank.frames) = 0 /\ Amount(Blank.frames) = 0 /\ EndsIn(Blank.frames) = {}
    /\ Paid(Blank) = 0 /\ Posted(Blank) = 0 /\ Arrived(Blank) = 0 /\ Whole(Blank) = 0
    /\ Refunded(Blank) = 0 /\ Regained(Blank) = 0
<1>1. PICK x : x = Blank
  OBVIOUS
<1>2. /\ x.frames = <<>> /\ x.todo = <<>> /\ x.held = <<>> /\ x.flight = <<>> /\ x.asm = <<>>
      /\ x.unacked = 0 /\ x.granted = 0
  BY <1>1 DEF Blank
<1>3. <<>> \in Lengths /\ <<>> \in Strand /\ Len(<<>>) = 0
  BY DEF Lengths, Strand
<1>4. IsFigure(x)
  BY <1>2, <1>3 DEF IsFigure
<1>5. Amount(x.frames) = 0 /\ StartOf(x.frames) = 0 /\ EndsIn(x.frames) = {}
  <2>1. 0 \in 0 .. Len(<<>>)
    BY <1>3
  <2>2. Upto(<<>>, 0) = 0 /\ Upto(<<>>, Len(<<>>)) = Amount(<<>>)
    BY <1>3, UptoIs
  <2>3. Amount(x.frames) = 0
    BY <1>2, <1>3, <2>2
  <2>4. StartOf(x.frames) = 0
    BY <1>2, <2>3 DEF StartOf
  <2>5. EndsIn(x.frames) = {}
    BY <1>2, <1>3 DEF EndsIn
  <2> QED
    BY <2>3, <2>4, <2>5
<1>6. /\ Paid(x) = 0 /\ Posted(x) = 0 /\ Arrived(x) = 0 /\ Whole(x) = 0
      /\ Refunded(x) = 0 /\ Regained(x) = 0
  BY <1>2, <1>3, <1>5 DEF Paid, Posted, Arrived, Whole, Refunded, Regained
<1>7. Aligned(x)
  <2>1. Len(x.frames) <= MaxFrames /\ 0 \in 0 .. Len(x.frames)
    BY <1>2, <1>3, MuxAssumption
  <2>2. Short(x.asm)
    BY <1>2 DEF Short
  <2>3. Ahead(x) = <<>>
    BY <1>2, Glue DEF Ahead
  <2>4. Rest(<<>>, 0) = <<>>
    BY <1>3, RestEnds
  <2>5. Leads(x.asm, Ahead(x), x.frames, 0)
    BY <1>2, <2>3, <2>4, Glue DEF Leads
  <2> QED
    BY <2>1, <2>2, <2>5 DEF Aligned
<1> QED
  BY <1>1, <1>4, <1>5, <1>6, <1>7

LEMMA BeginsFlow ==
    ASSUME NEW e \in End, NEW c \in Ch, ~Linked(e, c)
    PROVE  Flow(e, c)!Init
BY DEF Mapped, Flow!Init, Flow!Fresh

LEMMA OpensFlow ==
    ASSUME NEW e \in End, NEW c \in Ch, ~Linked(e, c), Linked(e, c)', Totals(e, c, Blank)'
    PROVE  [Flow(e, c)!Next]_(Flow(e, c)!vars)
<1>1. Flow(e, c)!Open
  BY BlankIs DEF Totals, Mapped, Flow!Open, Flow!totals
<1>2. Flow(e, c)!Next
  BY <1>1 DEF Flow!Next
<1> QED
  BY <1>2

LEMMA ClosesFlow ==
    ASSUME NEW e \in End, NEW c \in Ch, Linked(e, c), ~Linked(e, c)'
    PROVE  [Flow(e, c)!Next]_(Flow(e, c)!vars)
<1>1. Flow(e, c)!Close
  BY DEF Mapped, Flow!Close
<1>2. Flow(e, c)!Next
  BY <1>1 DEF Flow!Next
<1> QED
  BY <1>2

LEMMA RestsFlow ==
    ASSUME NEW e \in End, NEW c \in Ch, ~Linked(e, c), ~Linked(e, c)'
    PROVE  [Flow(e, c)!Next]_(Flow(e, c)!vars)
<1>1. Linked(e, c)' = Linked(e, c)
  BY DEF Linked
<1>2. UNCHANGED Flow(e, c)!vars
  BY <1>1 DEF Mapped, Flow!vars, Flow!totals
<1> QED
  BY <1>2

\* What a step may do to one direction of one channel.
Stirs(e, c) == Figure(e, c)' = Figure(e, c) \/ FigureMoves(Figure(e, c), Figure(e, c)')
Passes(e, c) ==
    /\ Linked(e, c)' => Linked(e, c) \/ Figure(e, c)' = Blank
    /\ Linked(e, c) /\ Linked(e, c)' => Stirs(e, c)

InLine(e, c) == Linked(e, c) => Aligned(Figure(e, c))

LEMMA PassesFlow ==
    ASSUME NEW e \in End, NEW c \in Ch, Shown(e, c), Shown(e, c)', InLine(e, c), Passes(e, c),
           \A d \in End, k \in Ch : Linked(d, k) /\ Shown(d, k) => Totals(d, k, Figure(d, k)),
           (\A d \in End, k \in Ch : Linked(d, k) /\ Shown(d, k) => Totals(d, k, Figure(d, k)))'
    PROVE  [Flow(e, c)!Next]_(Flow(e, c)!vars) /\ InLine(e, c)'
<1>1. CASE ~Linked(e, c) /\ ~Linked(e, c)'
  BY <1>1, RestsFlow DEF InLine
<1>2. CASE Linked(e, c) /\ ~Linked(e, c)'
  BY <1>2, ClosesFlow DEF InLine
<1>3. CASE ~Linked(e, c) /\ Linked(e, c)'
  <2>1. Figure(e, c)' = Blank
    BY <1>3 DEF Passes
  <2>2. Totals(e, c, Figure(e, c))'
    BY <1>3
  <2>3. Totals(e, c, Blank)'
    BY <2>1, <2>2 DEF Totals
  <2>4. InLine(e, c)'
    BY <2>1, BlankIs DEF InLine
  <2> QED
    BY <1>3, <2>3, <2>4, OpensFlow
<1>4. CASE Linked(e, c) /\ Linked(e, c)'
  <2>1. PICK x, y : x = Figure(e, c) /\ y = Figure(e, c)'
    OBVIOUS
  <2>2. IsFigure(x) /\ IsFigure(y)
    BY <2>1 DEF Shown
  <2>3. Totals(e, c, x)
    BY <1>4, <2>1
  <2>4. Totals(e, c, y)'
    <3>1. Totals(e, c, Figure(e, c))'
      BY <1>4
    <3> QED
      BY <2>1, <3>1 DEF Totals
  <2>5. Aligned(x)
    BY <1>4, <2>1 DEF InLine
  <2>6. Flows(x, y) /\ Aligned(y)
    <3>1. CASE y = x
      BY <2>5, <3>1 DEF Flows, FlowStays, SameHeld, SameBytes, SameCredit
    <3>2. CASE FigureMoves(x, y)
      BY <2>2, <2>5, <3>2, MoveAligns, MoveFlows
    <3> QED
      BY <1>4, <2>1, <3>1, <3>2 DEF Passes, Stirs
  <2>7. InLine(e, c)'
    BY <2>1, <2>6 DEF InLine
  <2> QED
    BY <1>4, <2>3, <2>4, <2>6, <2>7, FlowsFlow
<1> QED
  BY <1>1, <1>2, <1>3, <1>4
-----------------------------------------------------------------------------
(* The steps of one end by itself. *)

\* Linked, in the terms of the invariant.
Bound(e, c) == Joined(e, c) /\ c \in ep[e].send

Goes(e, c) ==
    /\ Bound(e, c)' => Bound(e, c) \/ Figure(e, c)' = Blank
    /\ Bound(e, c) /\ Bound(e, c)' => Stirs(e, c)
AllGo == \A e \in End, c \in Ch : Goes(e, c)

LEMMA BoundStays ==
    ASSUME NEW x \in End, NEW c \in Ch, AllQuiet,
           ep'[x].chans \subseteq ep[x].chans, ep'[x].send \subseteq ep[x].send,
           ep'[Peer(x)].chans \subseteq ep[Peer(x)].chans,
           Closed(ep[Peer(x)]) => Closed(ep'[Peer(x)]),
           \A y \in End : alive'[y] => alive[y], Bound(x, c)'
    PROVE  Bound(x, c)
<1>1. Peer(x) \in End
  BY PeerIs
<1>2. Announced(ep'[x], wire'[x], c) => Announced(ep[x], wire[x], c)
  BY DEF AllQuiet, Quiet
<1> QED
  BY <1>1, <1>2 DEF Bound, Joined

Fewer(m, n) ==
    /\ n.chans \subseteq m.chans /\ n.send \subseteq m.send
    /\ Closed(m) => Closed(n)
SameOut(m, n, h, b, c) ==
    /\ n.todo[c] = m.todo[c] /\ n.held[c] = m.held[c] /\ n.out[c] = m.out[c]
    /\ b.frames[c] = h.frames[c]
SameIn(m, n, c) ==
    /\ n.asm[c] = m.asm[c] /\ n.unacked[c] = m.unacked[c]
    /\ SumOf(n.urgent, c, "WINDOW") = SumOf(m.urgent, c, "WINDOW")

LEMMA SoloFigure ==
    ASSUME NEW a \in End, NEW n, NEW b, Reaches(a, n), hist'[a] = b,
           hist'[Peer(a)] = hist[Peer(a)], NEW c \in Ch
    PROVE  /\ Figure(a, c)' = FigureOf(n, wire[a], b, ep[Peer(a)], wire[Peer(a)], c)
           /\ Figure(Peer(a), c)' =
                FigureOf(ep[Peer(a)], wire[Peer(a)], hist[Peer(a)], n, wire[a], c)
           /\ Figure(Peer(a), c) =
                FigureOf(ep[Peer(a)], wire[Peer(a)], hist[Peer(a)], ep[a], wire[a], c)
<1>1. Peer(a) \in End /\ Peer(Peer(a)) = a
  BY PeerIs
<1>2. ep'[a] = n /\ ep'[Peer(a)] = ep[Peer(a)] /\ wire' = wire
  BY DEF Reaches
<1> QED
  BY <1>1, <1>2 DEF Figure

LEMMA SoloGoes ==
    ASSUME NEW a \in End, NEW n, NEW b, Reaches(a, n), hist'[a] = b,
           hist'[Peer(a)] = hist[Peer(a)], NoNewOpen(ep[a], n), Fewer(ep[a], n),
           \A c \in Ch : c \in n.chans /\ c \in n.send /\ Bound(a, c) =>
             SameOut(ep[a], n, hist[a], b, c) \/ Stirs(a, c),
           \A c \in Ch : ~Closed(n) => SameIn(ep[a], n, c) \/ Stirs(Peer(a), c)
    PROVE  AllGo
<1>1. PICK p : p = Peer(a)
  OBVIOUS
<1>2. p \in End /\ Peer(p) = a /\ \A x \in End : x = a \/ x = p
  BY <1>1, PeerIs
<1>3. ep'[a] = n /\ ep'[p] = ep[p] /\ alive' = alive
  BY <1>1 DEF Reaches
<1>4. AllQuiet
  BY QuietStep
<1>5. ASSUME NEW x \in End, NEW c \in Ch, Bound(x, c)' PROVE Bound(x, c)
  <2>1. /\ ep'[x].chans \subseteq ep[x].chans /\ ep'[x].send \subseteq ep[x].send
        /\ ep'[Peer(x)].chans \subseteq ep[Peer(x)].chans
        /\ Closed(ep[Peer(x)]) => Closed(ep'[Peer(x)])
    BY <1>1, <1>2, <1>3 DEF Fewer
  <2>2. \A y \in End : alive'[y] => alive[y]
    BY <1>3
  <2> QED
    BY <1>4, <1>5, <2>1, <2>2, BoundStays
<1>6. ASSUME NEW c \in Ch, Bound(a, c), Bound(a, c)' PROVE Stirs(a, c)
  <2>1. c \in n.chans /\ c \in n.send
    BY <1>3, <1>6 DEF Bound, Joined
  <2>2. CASE SameOut(ep[a], n, hist[a], b, c)
    <3>1. Figure(a, c)' = FigureOf(n, wire[a], b, ep[p], wire[p], c)
      BY <1>1, SoloFigure
    <3>2. Figure(a, c)' = Figure(a, c)
      BY <1>1, <2>2, <3>1 DEF Figure, FigureOf, SameOut
    <3> QED
      BY <3>2 DEF Stirs
  <2> QED
    BY <1>6, <2>1, <2>2
<1>7. ASSUME NEW c \in Ch, Bound(p, c)' PROVE Stirs(p, c)
  <2>1. ~Closed(n)
    BY <1>2, <1>3, <1>7 DEF Bound, Joined
  <2>2. CASE SameIn(ep[a], n, c)
    <3>1. Figure(p, c)' = FigureOf(ep[p], wire[p], hist[p], n, wire[a], c)
      BY <1>1, SoloFigure
    <3>2. Figure(p, c) = FigureOf(ep[p], wire[p], hist[p], ep[a], wire[a], c)
      BY <1>1, SoloFigure
    <3>3. Figure(p, c)' = Figure(p, c)
      BY <2>2, <3>1, <3>2 DEF FigureOf, SameIn
    <3> QED
      BY <3>3 DEF Stirs
  <2> QED
    BY <1>1, <2>1, <2>2
<1> QED
  BY <1>2, <1>5, <1>6, <1>7 DEF AllGo, Goes

LEMMA AcceptGoes ==
    ASSUME SInv, NEW e \in End, AcceptBi(e)
    PROVE  AllGo
<1>1. Types /\ DOMAIN ep[e] = Fields
  BY OwnIs
<1>2. PICK n : n = [ep[e] EXCEPT !.acceptQ = Tail(@)] /\ Becomes(e, n) /\ hist' = hist
  BY DEF AcceptBi
<1>3. /\ n.nextLocal = ep[e].nextLocal /\ n.reason = ep[e].reason /\ n.chans = ep[e].chans
      /\ n.out = ep[e].out /\ n.asm = ep[e].asm /\ n.unacked = ep[e].unacked
      /\ n.urgent = ep[e].urgent /\ n.send = ep[e].send /\ n.todo = ep[e].todo
      /\ n.held = ep[e].held
  BY <1>1, <1>2 DEF Fields
<1>4. NoNewOpen(ep[e], n) /\ Fewer(ep[e], n)
  BY <1>3 DEF NoNewOpen, Fewer, Closed
<1>5. \A c \in Ch : SameOut(ep[e], n, hist[e], hist[e], c) /\ SameIn(ep[e], n, c)
  BY <1>3 DEF SameOut, SameIn
<1>6. Reaches(e, n)
  BY <1>1, <1>2, BecomesIs
<1>7. hist'[e] = hist[e] /\ hist'[Peer(e)] = hist[Peer(e)]
  BY <1>2
<1> QED
  BY <1>4, <1>5, <1>6, <1>7, SoloGoes

LEMMA BeginSendGoes ==
    ASSUME SInv, NEW e \in End, NEW c \in Ch, NEW len \in FrameLens, BeginSend(e, c, len)
    PROVE  AllGo
<1>1. /\ Types /\ IsEnd(e, ep[e]) /\ DOMAIN ep[e] = Fields /\ Tale(hist[e]) /\ DOMAIN hist = End
      /\ Peer(e) \in End /\ Peer(e) # e
      /\ DOMAIN hist[e] = {"frames", "got", "ended", "givenUp", "closedHere", "torn"}
  BY OwnIs
<1>2. PICK m, n, h, b :
        /\ m = ep[e] /\ h = hist[e]
        /\ n = [m EXCEPT !.todo[c] = Bytes(Len(h.frames[c]) + 1, len)]
        /\ b = [h EXCEPT !.frames[c] = Append(@, len)]
        /\ Becomes(e, n) /\ hist'[e] = b /\ hist'[Peer(e)] = hist[Peer(e)]
        /\ m.todo[c] = <<>> /\ m.held[c] = <<>> /\ Len(h.frames[c]) < MaxFrames
  BY <1>1 DEF BeginSend, Sending
<1>3. len \in 1 .. MaxFrame
  BY ConstantsAre
<1>4. /\ n.nextLocal = m.nextLocal /\ n.reason = m.reason /\ n.chans = m.chans
      /\ n.out = m.out /\ n.asm = m.asm /\ n.unacked = m.unacked
      /\ n.urgent = m.urgent /\ n.send = m.send /\ n.held = m.held
      /\ n.todo = [m.todo EXCEPT ![c] = Bytes(Len(h.frames[c]) + 1, len)]
  BY <1>1, <1>2 DEF Fields
<1>5. /\ n.todo[c] = Bytes(Len(h.frames[c]) + 1, len)
      /\ \A x \in Ch : x # c => n.todo[x] = m.todo[x]
  <2>1. DOMAIN m.todo = Ch
    BY <1>1, <1>2 DEF IsEnd
  <2> QED
    BY <1>4, <2>1
<1>6. b.frames = [h.frames EXCEPT ![c] = Append(@, len)]
  BY <1>1, <1>2
<1>7. /\ b.frames[c] = Append(h.frames[c], len)
      /\ \A x \in Ch : x # c => b.frames[x] = h.frames[x]
  BY <1>1, <1>2, <1>6 DEF Tale
<1>8. NoNewOpen(m, n) /\ Fewer(m, n)
  BY <1>4 DEF NoNewOpen, Fewer, Closed
<1>9. Reaches(e, n)
  BY <1>1, <1>2, BecomesIs
<1>10. Stirs(e, c)
  <2>1. PICK x, y : x = Figure(e, c) /\ y = Figure(e, c)'
    OBVIOUS
  <2>2. y = FigureOf(n, wire[e], b, ep[Peer(e)], wire[Peer(e)], c)
    BY <1>2, <1>9, <2>1, SoloFigure
  <2>3. x = FigureOf(m, wire[e], h, ep[Peer(e)], wire[Peer(e)], c)
    BY <1>2, <2>1 DEF Figure
  <2>4. /\ x.todo = <<>> /\ x.held = <<>> /\ x.frames = h.frames[c]
        /\ y.frames = Append(x.frames, len) /\ y.todo = Bytes(Len(x.frames) + 1, len)
        /\ y.held = <<>> /\ y.flight = x.flight /\ SameRead(x, y)
    BY <1>2, <1>4, <1>5, <1>7, <2>2, <2>3 DEF FigureOf, SameRead
  <2>5. BeginsFrame(x, y)
    BY <1>2, <1>3, <2>4 DEF BeginsFrame
  <2> QED
    BY <2>1, <2>5 DEF Stirs, FigureMoves
<1>11. \A x \in Ch : x # c => SameOut(m, n, h, b, x)
  BY <1>4, <1>5, <1>7 DEF SameOut
<1>12. \A x \in Ch : SameIn(m, n, x)
  BY <1>4 DEF SameIn
<1> QED
  BY <1>2, <1>8, <1>9, <1>10, <1>11, <1>12, SoloGoes

\* The semaphore of a channel that both ends count.
LEMMA CreditShown ==
    ASSUME SInv, NEW e \in End, NEW c \in Ch, Bound(e, c)
    PROVE  LET x == Figure(e, c) IN ep[e].credit[c] = Window - (Paid(x) - Regained(x))
<1>1. IInv /\ Tales /\ Types
  BY DEF SInv, IInv
<1>2. Linked(e, c)
  BY <1>1, LinkedIsJoined DEF Bound
<1>3. ep[e].credit[c] = Flow(e, c)!credit
  BY <1>1, <1>2, CreditIs DEF CreditBalances
<1>4. Flow(e, c)!credit = Window - (Acquired(e, c) - (Returned(e, c) - Granted(e, c)))
  BY <1>2 DEF Flow!credit, Mapped
<1>5. Shown(e, c)
  BY <1>1, FiguresShow
<1> QED
  BY <1>3, <1>4, <1>5 DEF Shown, Regained

\* A step of one end that changes only what it sends on channel c.
LEMMA SendingGoes ==
    ASSUME SInv, NEW e \in End, NEW c \in Ch, NEW n, Becomes(e, n), hist' = hist,
           SendsOn(e, n, c), NoNewOpen(ep[e], n),
           n.unacked = ep[e].unacked, n.urgent = ep[e].urgent,
           c \in n.chans /\ Bound(e, c) => Stirs(e, c)
    PROVE  AllGo
<1>1. Reaches(e, n) /\ Fewer(ep[e], n)
  BY BecomesIs DEF SInv, IInv, Fewer, SendsOn, Closed
<1>2. \A x \in Ch : x # c => SameOut(ep[e], n, hist[e], hist[e], x)
  BY DEF SameOut, SendsOn
<1>3. \A x \in Ch : SameIn(ep[e], n, x)
  BY DEF SameIn, SendsOn
<1>4. hist'[e] = hist[e] /\ hist'[Peer(e)] = hist[Peer(e)]
  OBVIOUS
<1> QED
  BY <1>1, <1>2, <1>3, <1>4, SoloGoes

LEMMA AcquireGoes ==
    ASSUME SInv, NEW e \in End, NEW c \in Ch, AcquireCredit(e, c)
    PROVE  AllGo
<1>1. IsEnd(e, ep[e]) /\ DOMAIN ep[e] = Fields
  BY OwnIs
<1>2. PICK m, x, k : m = ep[e] /\ x = m.todo[c] /\ k = IF Len(x) < MaxSeg THEN Len(x) ELSE MaxSeg
  OBVIOUS
<1>3. PICK s, t : s = SubSeq(x, 1, k) /\ t = SubSeq(x, k + 1, Len(x))
  OBVIOUS
<1>4. PICK n : /\ n = [m EXCEPT !.credit[c] = @ - k, !.held[c] = s, !.todo[c] = t]
               /\ Becomes(e, n) /\ k <= m.credit[c]
               /\ hist' = hist /\ x # <<>> /\ m.held[c] = <<>> /\ c \in m.chans
  BY <1>2, <1>3 DEF AcquireCredit
<1>5. /\ n.nextLocal = m.nextLocal /\ n.reason = m.reason /\ n.chans = m.chans
      /\ n.asm = m.asm /\ n.rx = m.rx /\ n.send = m.send /\ n.recv = m.recv /\ n.out = m.out
      /\ n.unacked = m.unacked /\ n.urgent = m.urgent
      /\ n.held = [m.held EXCEPT ![c] = s] /\ n.todo = [m.todo EXCEPT ![c] = t]
  BY <1>1, <1>2, <1>4 DEF Fields
<1>6. /\ n.held[c] = s /\ n.todo[c] = t
      /\ \A y \in Ch : y # c => n.held[y] = m.held[y] /\ n.todo[y] = m.todo[y]
  BY <1>1, <1>2, <1>5 DEF IsEnd
<1>7. SendsOn(e, n, c) /\ NoNewOpen(ep[e], n)
  BY <1>2, <1>5, <1>6 DEF SendsOn, NoNewOpen
<1>8. ASSUME Bound(e, c) PROVE Stirs(e, c)
  <2>1. PICK f, g : f = Figure(e, c) /\ g = Figure(e, c)'
    OBVIOUS
  <2>2. Reaches(e, n) /\ hist'[e] = hist[e] /\ hist'[Peer(e)] = hist[Peer(e)]
    BY <1>4, BecomesIs DEF SInv, IInv
  <2>3. g = FigureOf(n, wire[e], hist[e], ep[Peer(e)], wire[Peer(e)], c)
    BY <2>1, <2>2, SoloFigure
  <2>4. f = FigureOf(m, wire[e], hist[e], ep[Peer(e)], wire[Peer(e)], c)
    BY <1>2, <2>1 DEF Figure
  <2>5. m.credit[c] = Window - (Paid(f) - Regained(f))
    BY <1>2, <1>8, <2>1, CreditShown
  <2>6. f.todo = x /\ f.held = m.held[c]
    BY <1>2, <2>4 DEF FigureOf
  <2>7. ChunkOf(f) = k
    BY <1>2, <2>6 DEF ChunkOf
  <2>8. g.held = s /\ g.todo = t
    BY <1>6, <2>3 DEF FigureOf
  <2>9. g.frames = f.frames /\ g.flight = f.flight /\ SameRead(f, g)
    BY <1>5, <2>3, <2>4 DEF FigureOf, SameRead
  <2>10. PaysChunk(f, g)
    BY <1>3, <1>4, <2>5, <2>6, <2>7, <2>8, <2>9 DEF PaysChunk
  <2> QED
    BY <2>1, <2>10 DEF Stirs, FigureMoves
<1> QED
  BY <1>2, <1>4, <1>5, <1>7, <1>8, SendingGoes

LEMMA PushGoes ==
    ASSUME SInv, NEW e \in End, NEW c \in Ch, PushData(e, c)
    PROVE  AllGo
<1>1. IsEnd(e, ep[e]) /\ DOMAIN ep[e] = Fields /\ wire[e] \in Seq(Segment)
  BY OwnIs, EndsAre
<1>2. PICK m, n, d : /\ m = ep[e] /\ Becomes(e, n) /\ hist' = hist /\ d = DataSeg(c, m.held[c])
                     /\ n = [m EXCEPT !.out[c] = Append(@, d), !.held[c] = <<>>]
                     /\ m.held[c] # <<>> /\ c \in m.chans
  BY DEF PushData
<1>3. /\ n.nextLocal = m.nextLocal /\ n.reason = m.reason /\ n.chans = m.chans
      /\ n.asm = m.asm /\ n.rx = m.rx /\ n.send = m.send /\ n.recv = m.recv /\ n.todo = m.todo
      /\ n.unacked = m.unacked /\ n.urgent = m.urgent
      /\ n.out = [m.out EXCEPT ![c] = Append(@, d)] /\ n.held = [m.held EXCEPT ![c] = <<>>]
  BY <1>1, <1>2 DEF Fields
<1>4. /\ n.out[c] = Append(m.out[c], d) /\ n.held[c] = <<>>
      /\ \A y \in Ch : y # c => n.held[y] = m.held[y] /\ n.out[y] = m.out[y]
  <2>1. DOMAIN m.out = Ch /\ DOMAIN m.held = Ch
    BY <1>1, <1>2 DEF IsEnd
  <2> QED
    BY <1>3, <2>1
<1>5. m.todo[c] \in Strand /\ m.held[c] \in Strand /\ m.out[c] \in Seq(Segment)
  BY <1>1, <1>2, QueuesAre DEF IsEnd, Strand
<1>6. d \in Segment /\ Body(d, c) = m.held[c] /\ ~IsOpen(d, c)
  BY <1>2, <1>5 DEF DataSeg, Segment, Body, Strand, IsOpen
<1>7. NoNewOpen(ep[e], n)
  <2>1. PICK q \in Seq(Segment) : q = m.out[c] /\ n.out[c] = Append(q, d)
    BY <1>4, <1>5
  <2>2. \A i \in DOMAIN Append(q, d) : IsOpen(Append(q, d)[i], c) => i \in DOMAIN q /\ IsOpen(q[i], c)
    <3>1. PICK l \in Nat : l = Len(q) /\ DOMAIN q = 1 .. l /\ DOMAIN Append(q, d) = 1 .. l + 1
                           /\ Append(q, d)[l + 1] = d /\ \A i \in 1 .. l : Append(q, d)[i] = q[i]
      <4>1. Append(q, d)[Len(q) + 1] = d /\ \A i \in 1 .. Len(q) : Append(q, d)[i] = q[i]
        OBVIOUS
      <4>2. DOMAIN q = 1 .. Len(q) /\ DOMAIN Append(q, d) = 1 .. Len(q) + 1
        OBVIOUS
      <4>3. PICK l \in Nat : l = Len(q)
        OBVIOUS
      <4> QED
        BY <4>1, <4>2, <4>3
    <3>2. \A i \in 1 .. l + 1 : i \in 1 .. l \/ i = l + 1
      BY <3>1
    <3> QED
      BY <1>6, <3>1, <3>2
  <2> QED
    <3>1. n.nextLocal = ep[e].nextLocal
      BY <1>2, <1>4
    <3>2. ASSUME NEW x \in Ch, NEW i \in DOMAIN n.out[x], IsOpen(n.out[x][i], x)
          PROVE  i \in DOMAIN ep[e].out[x] /\ IsOpen(ep[e].out[x][i], x)
      <4>1. CASE x # c
        BY <1>2, <1>4, <3>2, <4>1
      <4>2. CASE x = c
        BY <1>2, <2>1, <2>2, <3>2, <4>2
      <4> QED
        BY <4>1, <4>2
    <3> QED
      BY <3>1, <3>2 DEF NoNewOpen
<1>8. SendsOn(e, n, c)
  BY <1>2, <1>3, <1>4 DEF SendsOn
<1>9. Stirs(e, c)
  <2>1. PICK f, g : f = Figure(e, c) /\ g = Figure(e, c)'
    OBVIOUS
  <2>2. Reaches(e, n) /\ hist'[e] = hist[e] /\ hist'[Peer(e)] = hist[Peer(e)]
    BY <1>2, BecomesIs DEF SInv, IInv
  <2>3. g = FigureOf(n, wire[e], hist[e], ep[Peer(e)], wire[Peer(e)], c)
    BY <2>1, <2>2, SoloFigure
  <2>4. f = FigureOf(m, wire[e], hist[e], ep[Peer(e)], wire[Peer(e)], c)
    BY <1>2, <2>1 DEF Figure
  <2>5. PICK x \in Strand, y \in Strand, z \in Strand :
          x = Bodies(wire[e], c) /\ y = Bodies(m.out[c], c) /\ z = m.held[c]
    BY <1>1, <1>5, BodiesIs
  <2>6. Bodies(n.out[c], c) = y \o z
    <3>1. Bodies(Append(m.out[c], d), c) = Bodies(m.out[c], c) \o Body(d, c)
      BY <1>5, <1>6, BodiesAppend
    <3> QED
      BY <1>4, <1>6, <2>5, <3>1
  <2>7. f.flight = x \o y /\ f.held = z
    BY <2>4, <2>5 DEF FigureOf
  <2>8. g.flight = x \o (y \o z) /\ g.held = <<>>
    BY <1>4, <2>3, <2>5, <2>6 DEF FigureOf
  <2>9. g.flight = f.flight \o f.held
    BY <2>7, <2>8, Associates DEF Assoc
  <2>10. g.frames = f.frames /\ g.todo = f.todo /\ SameRead(f, g)
    BY <1>3, <2>3, <2>4 DEF FigureOf, SameRead
  <2>11. PostsChunk(f, g)
    BY <1>2, <2>5, <2>7, <2>8, <2>9, <2>10 DEF PostsChunk
  <2> QED
    BY <2>1, <2>11 DEF Stirs, FigureMoves
<1> QED
  BY <1>2, <1>3, <1>7, <1>8, <1>9, SendingGoes

LEMMA SendFailsGoes ==
    ASSUME SInv, NEW e \in End, NEW c \in Ch, SendFails(e, c)
    PROVE  AllGo
<1>1. IsEnd(e, ep[e]) /\ DOMAIN ep[e] = Fields
  BY OwnIs
<1>2. PICK m, n : /\ m = ep[e] /\ Becomes(e, n) /\ hist' = hist /\ c \notin m.chans
                  /\ n = [m EXCEPT !.todo[c] = <<>>, !.held[c] = <<>>]
  BY DEF SendFails
<1>3. /\ n.nextLocal = m.nextLocal /\ n.reason = m.reason /\ n.chans = m.chans
      /\ n.asm = m.asm /\ n.rx = m.rx /\ n.send = m.send /\ n.recv = m.recv /\ n.out = m.out
      /\ n.unacked = m.unacked /\ n.urgent = m.urgent
      /\ n.todo = [m.todo EXCEPT ![c] = <<>>] /\ n.held = [m.held EXCEPT ![c] = <<>>]
  BY <1>1, <1>2 DEF Fields
<1>4. \A y \in Ch : y # c => n.held[y] = m.held[y] /\ n.todo[y] = m.todo[y]
  <2>1. DOMAIN m.todo = Ch /\ DOMAIN m.held = Ch
    BY <1>1, <1>2 DEF IsEnd
  <2> QED
    BY <1>3, <2>1
<1>5. SendsOn(e, n, c) /\ NoNewOpen(ep[e], n)
  BY <1>2, <1>3, <1>4 DEF SendsOn, NoNewOpen
<1> QED
  BY <1>2, <1>3, <1>5, SendingGoes

LEMMA RecvFrameGoes ==
    ASSUME SInv, NEW e \in End, NEW c \in Ch, RecvFrame(e, c)
    PROVE  AllGo
<1>1. /\ Types /\ DOMAIN ep[e] = Fields /\ DOMAIN hist = End /\ Peer(e) \in End /\ Peer(e) # e
      /\ DOMAIN hist[e] = {"frames", "got", "ended", "givenUp", "closedHere", "torn"}
  BY OwnIs
<1>2. PICK m, n, b :
        /\ m = ep[e] /\ n = [m EXCEPT !.rx[c] = Tail(@), !.taken[c] = Len(Head(m.rx[c]))]
        /\ Becomes(e, n) /\ b = [hist[e] EXCEPT !.got[c] = Append(@, Head(m.rx[c]))]
        /\ hist'[e] = b /\ hist'[Peer(e)] = hist[Peer(e)]
  BY <1>1 DEF RecvFrame
<1>3. /\ n.nextLocal = m.nextLocal /\ n.reason = m.reason /\ n.chans = m.chans
      /\ n.out = m.out /\ n.asm = m.asm /\ n.unacked = m.unacked
      /\ n.urgent = m.urgent /\ n.send = m.send /\ n.held = m.held /\ n.todo = m.todo
  BY <1>1, <1>2 DEF Fields
<1>4. b.frames = hist[e].frames
  BY <1>1, <1>2
<1>5. NoNewOpen(m, n) /\ Fewer(m, n)
  BY <1>3 DEF NoNewOpen, Fewer, Closed
<1>6. \A x \in Ch : SameOut(m, n, hist[e], b, x) /\ SameIn(m, n, x)
  BY <1>3, <1>4 DEF SameOut, SameIn
<1>7. Reaches(e, n)
  BY <1>1, <1>2, BecomesIs
<1> QED
  BY <1>2, <1>5, <1>6, <1>7, SoloGoes

\* Nothing moves but the end of a byte stream, or what a receiver was told.
LEMMA StayGoes ==
    ASSUME ep' = ep, wire' = wire, alive' = alive,
           \A e \in End : hist'[e].frames = hist[e].frames
    PROVE  AllGo
<1>1. ASSUME NEW e \in End, NEW c \in Ch PROVE Goes(e, c)
  <2>1. Figure(e, c)' = Figure(e, c)
    BY DEF Figure, FigureOf
  <2>2. Bound(e, c)' = Bound(e, c)
    BY DEF Bound, Joined
  <2> QED
    BY <2>1, <2>2 DEF Goes, Stirs
<1> QED
  BY <1>1 DEF AllGo

LEMMA RecvEndGoes ==
    ASSUME SInv, NEW e \in End, NEW c \in Ch, RecvEnd(e, c)
    PROVE  AllGo
<1>1. DOMAIN hist = End /\ Peer(e) \in End /\ Peer(e) # e /\ \A x \in End : x = e \/ x = Peer(e)
  BY OwnIs, PeerIs
<1>2. DOMAIN hist[e] = {"frames", "got", "ended", "givenUp", "closedHere", "torn"}
  BY OwnIs
<1>3. PICK told, b :
        b = [hist[e] EXCEPT !.ended[c] = told] /\ hist' = [hist EXCEPT ![e] = b]
  BY <1>1 DEF RecvEnd
<1>4. b.frames = hist[e].frames /\ hist'[e] = b /\ hist'[Peer(e)] = hist[Peer(e)]
  BY <1>1, <1>2, <1>3
<1>5. \A x \in End : hist'[x].frames = hist[x].frames
  BY <1>1, <1>4
<1>6. ep' = ep /\ wire' = wire /\ alive' = alive
  BY DEF RecvEnd
<1> QED
  BY <1>5, <1>6, StayGoes

LEMMA RecvCreditGoes ==
    ASSUME SInv, NEW e \in End, NEW c \in Ch, RecvCredit(e, c)
    PROVE  AllGo
<1>1. /\ Types /\ IsEnd(e, ep[e]) /\ DOMAIN ep[e] = Fields /\ Local(e, ep[e])
      /\ Peer(e) \in End
  BY OwnIs
<1>2. PICK m, k, o, n : /\ m = ep[e] /\ k = m.taken[c] /\ o = ReturnCredit(m, c, k)
                        /\ n = [o EXCEPT !.taken[c] = 0] /\ Becomes(e, n) /\ hist' = hist
                        /\ k > 0
  BY DEF RecvCredit
<1>3. /\ DOMAIN o = Fields /\ o.nextLocal = m.nextLocal /\ o.reason = m.reason
      /\ o.chans = m.chans /\ o.asm = m.asm /\ o.send = m.send
      /\ o.todo = m.todo /\ o.held = m.held /\ o.out = m.out
  BY <1>1, <1>2 DEF ReturnCredit, Fields
<1>4. /\ n.nextLocal = m.nextLocal /\ n.reason = m.reason
      /\ n.chans = m.chans /\ n.asm = m.asm /\ n.send = m.send
      /\ n.todo = m.todo /\ n.held = m.held /\ n.out = m.out
      /\ n.unacked = o.unacked /\ n.urgent = o.urgent
  BY <1>2, <1>3 DEF Fields
<1>5. NoNewOpen(m, n) /\ Fewer(m, n)
  BY <1>4 DEF NoNewOpen, Fewer, Closed
<1>6. Reaches(e, n) /\ hist'[e] = hist[e] /\ hist'[Peer(e)] = hist[Peer(e)]
  BY <1>1, <1>2, BecomesIs
<1>7. \A x \in Ch : SameOut(m, n, hist[e], hist[e], x)
  BY <1>4 DEF SameOut
<1>8. CASE Closed(m) \/ c \notin m.chans
  <2>1. o = m
    BY <1>2, <1>8 DEF ReturnCredit
  <2>2. \A x \in Ch : SameIn(m, n, x)
    BY <1>4, <2>1 DEF SameIn
  <2>3. \A x \in Ch : x \in n.chans /\ x \in n.send /\ Bound(e, x) =>
                       SameOut(m, n, hist[e], hist[e], x) \/ Stirs(e, x)
    BY <1>7
  <2>4. \A x \in Ch : ~Closed(n) => SameIn(m, n, x) \/ Stirs(Peer(e), x)
    BY <2>2
  <2>5. m = ep[e]
    BY <1>2
  <2> QED
    BY <1>5, <1>6, <2>3, <2>4, <2>5, SoloGoes
<1>9. CASE ~Closed(m) /\ c \in m.chans
  <2>1. PICK l \in Nat, u \in Nat, t \in Nat, i \in Nat :
          l = Len(m.asm[c]) /\ u = m.unacked[c] /\ t = Total(m.rx[c]) /\ i = k
    BY <1>1, <1>2, NumbersAre
  <2>2. l + t + i <= u
    <3>1. Unread(m, c) <= m.unacked[c]
      BY <1>1, <1>2 DEF Local, Accounted
    <3> QED
      BY <1>2, <2>1, <3>1 DEF Unread
  <2>3. k \in Nat /\ k <= m.unacked[c] /\ k <= m.unacked[c] - Len(m.asm[c]) /\ k \in Nat \ {0}
    <3>1. i <= u /\ i <= u - l
      BY <2>2
    <3>2. i > 0
      BY <1>2, <2>1
    <3> QED
      BY <2>1, <3>1, <3>2
  <2>4. o.unacked[c] = m.unacked[c] - k /\ \A x \in Ch : x # c => o.unacked[x] = m.unacked[x]
    BY <1>1, <1>2, <1>9, <2>3, ReturnIs
  <2>5. \A x \in Ch : Debt(o, x) = Debt(m, x)
    BY <1>1, <1>2, <1>9, <2>3, ReturnIs
  <2>6. IsEnd(e, o)
    BY <1>1, <1>2, <1>9, <2>3, ReturnIs
  <2>7. ASSUME NEW x \in Ch
        PROVE  SumOf(o.urgent, x, "WINDOW")
                 = SumOf(m.urgent, x, "WINDOW") + (m.unacked[x] - o.unacked[x])
    <3>1. PICK f \in Nat, g \in Nat : f = SumOf(o.urgent, x, "WINDOW") /\ g = SumOf(m.urgent, x, "WINDOW")
      BY <1>1, <1>2, <2>6, NumbersAre
    <3>2. PICK v \in Nat, w \in Nat : v = o.unacked[x] /\ w = m.unacked[x]
      BY <1>1, <1>2, <2>6, NumbersAre
    <3>3. v + f = w + g
      BY <2>5, <3>1, <3>2 DEF Debt
    <3>4. f = g + (w - v)
      BY <3>3
    <3> QED
      BY <3>1, <3>2, <3>4
  <2>8. ASSUME NEW x \in Ch, x # c PROVE SameIn(m, n, x)
    <3>1. PICK g \in Nat, w \in Nat : g = SumOf(m.urgent, x, "WINDOW") /\ w = m.unacked[x]
      BY <1>1, <1>2, NumbersAre
    <3>2. SumOf(o.urgent, x, "WINDOW") = g + (w - w)
      BY <2>4, <2>7, <2>8, <3>1
    <3>3. SumOf(o.urgent, x, "WINDOW") = g
      BY <3>1, <3>2
    <3> QED
      BY <1>4, <2>4, <2>8, <3>1, <3>3 DEF SameIn
  <2>9. Stirs(Peer(e), c)
    <3>1. PICK p : p = Peer(e)
      OBVIOUS
    <3>2. PICK x, y : x = Figure(p, c) /\ y = Figure(p, c)'
      OBVIOUS
    <3>3. y = FigureOf(ep[p], wire[p], hist[p], n, wire[e], c)
      BY <1>6, <3>1, <3>2, SoloFigure
    <3>4. x = FigureOf(ep[p], wire[p], hist[p], m, wire[e], c)
      BY <1>2, <1>6, <3>1, <3>2, SoloFigure
    <3>5. SameSent(x, y) /\ y.flight = x.flight
      BY <3>3, <3>4 DEF FigureOf, SameSent
    <3>6. y.asm = x.asm /\ x.asm = m.asm[c] /\ x.unacked = m.unacked[c] /\ y.unacked = o.unacked[c]
      BY <1>4, <3>3, <3>4 DEF FigureOf
    <3>7. y.unacked = x.unacked - k /\ k <= x.unacked - Len(x.asm)
      BY <2>3, <2>4, <3>6
    <3>8. y.granted = x.granted + k
      <4>1. PICK f \in Nat, g \in Nat : f = SumOf(m.urgent, c, "WINDOW") /\ g = SumOf(wire[e], c, "WINDOW")
        BY <1>1, <1>2, NumbersAre, EndsAre
      <4>2. SumOf(o.urgent, c, "WINDOW") = f + (u - (u - i))
        BY <2>1, <2>4, <2>7, <4>1
      <4>3. x.granted = f + g /\ y.granted = (f + (u - (u - i))) + g
        BY <1>4, <3>3, <3>4, <4>1, <4>2 DEF FigureOf
      <4>4. (f + (u - (u - i))) + g = (f + g) + i
        OBVIOUS
      <4> QED
        BY <2>1, <4>3, <4>4
    <3>9. ReturnsCredit(x, y, k)
      BY <3>5, <3>6, <3>7, <3>8 DEF ReturnsCredit
    <3> QED
      BY <2>3, <3>1, <3>2, <3>9 DEF Stirs, FigureMoves
  <2> QED
    BY <1>2, <1>5, <1>6, <1>7, <2>8, <2>9, SoloGoes
<1> QED
  BY <1>8, <1>9

\* A channel that is closed takes nothing from what is owed to the peer.
LEMMA CloseOwes ==
    ASSUME NEW m, DOMAIN m = Fields, NEW c \in Ch, NEW n, n = CloseChannel(m, c)
    PROVE  n.asm = m.asm /\ n.unacked = m.unacked /\ n.urgent = m.urgent
<1>1. CASE Closed(m) \/ c \notin m.chans
  BY <1>1 DEF CloseChannel
<1>2. CASE ~Closed(m) /\ c \in m.chans
  <2>1. PICK o : o = [m EXCEPT !.chans = @ \ {c}, !.out[c] = Append(@, ResetSeg(c))]
    OBVIOUS
  <2>2. DOMAIN o = Fields /\ o.asm = m.asm /\ o.unacked = m.unacked /\ o.urgent = m.urgent
    BY <2>1 DEF Fields
  <2>3. n = Retire(o, c)
    BY <1>2, <2>1 DEF CloseChannel
  <2>4. n.asm = o.asm /\ n.unacked = o.unacked /\ n.urgent = o.urgent
    BY <2>2, <2>3 DEF Retire, Fields
  <2> QED
    BY <2>2, <2>4
<1> QED
  BY <1>1, <1>2

LEMMA DropsGoes ==
    ASSUME SInv, NEW e \in End, NEW c \in Ch, NEW o, NEW last, NEW given,
           Sheds(e, c, o, last, given)
    PROVE  AllGo
<1> USE DEF Sheds
<1>1. /\ Types /\ Local(e, ep[e]) /\ DOMAIN hist = End /\ Peer(e) \in End /\ Peer(e) # e
      /\ DOMAIN hist[e] = {"frames", "got", "ended", "givenUp", "closedHere", "torn"}
  BY OwnIs
<1>2. PICK m, h : m = ep[e] /\ h = hist[e]
  OBVIOUS
<1>3. PICK n : n = IF last THEN CloseChannel(o, c) ELSE o
  OBVIOUS
<1>4. PICK b : /\ b = [Noting(e, n, h) EXCEPT !.closedHere = @ \union (m.chans \ n.chans),
                                              !.givenUp = @ \union (IF given THEN {c} ELSE {})]
               /\ Becomes(e, n) /\ hist'[e] = b /\ hist'[Peer(e)] = hist[Peer(e)]
  BY <1>1, <1>2, <1>3 DEF Drops
<1>5. b.frames = h.frames
  BY <1>1, <1>2, <1>4 DEF Noting
<1>6. Fine(e, m, o) /\ Local(e, o) /\ IsEnd(e, o) /\ DOMAIN o = Fields
  <2>1. Fine(e, m, o)
    BY <1>1, <1>2, ReleasedIsFine
  <2> QED
    BY <2>1 DEF Fine, Local, IsEnd
<1>7. /\ (last => Shuts(o, n, c)) /\ (~last => n = o) /\ Fine(e, o, n)
      /\ n.asm = o.asm /\ n.unacked = o.unacked /\ n.urgent = o.urgent
  <2>1. ASSUME last
        PROVE  /\ Shuts(o, n, c) /\ Fine(e, o, n)
               /\ n.asm = o.asm /\ n.unacked = o.unacked /\ n.urgent = o.urgent
    <3>1. n = CloseChannel(o, c)
      BY <1>3, <2>1
    <3>2. Shuts(o, n, c) /\ Fine(e, o, n)
      BY <1>6, <3>1, CloseShuts, CloseChannelIsFine
    <3>3. n.asm = o.asm /\ n.unacked = o.unacked /\ n.urgent = o.urgent
      BY <1>6, <3>1, CloseOwes
    <3> QED
      BY <3>2, <3>3
  <2>2. ASSUME ~last PROVE n = o /\ Fine(e, o, n)
    BY <1>3, <1>6, <2>2 DEF Fine, Gently, Even
  <2> QED
    BY <2>1, <2>2
<1>8. NoNewOpen(m, n)
  <2>1. Fine(e, m, n)
    BY <1>6, <1>7, FineTwice
  <2> QED
    BY <2>1 DEF Fine, Gently, NoNewOpen
<1>9. Fewer(m, n)
  BY <1>2, <1>7 DEF Shuts, LetsGo, Released, Fewer, Closed
<1>10. Reaches(e, n)
  BY <1>1, <1>4, BecomesIs
<1>11. \A x \in Ch : SameIn(m, n, x)
  BY <1>2, <1>7 DEF Released, SameIn
<1>12. ASSUME NEW x \in Ch, x \in n.chans, x \in n.send PROVE SameOut(m, n, h, b, x)
  <2>1. CASE x # c
    BY <1>2, <1>5, <1>7, <2>1 DEF SameOut, LetsGo, Shuts
  <2>2. CASE x = c
    <3>1. ~last /\ n = o
      BY <1>7, <1>12, <2>2 DEF Shuts
    <3>2. SameSender(m, o, c)
      BY <1>2, <1>12, <2>2, <3>1 DEF StopsSending
    <3> QED
      BY <1>5, <2>2, <3>1, <3>2 DEF SameOut, SameSender
  <2> QED
    BY <2>1, <2>2
<1> QED
  BY <1>2, <1>4, <1>8, <1>9, <1>10, <1>11, <1>12, SoloGoes

LEMMA ShedsGoes ==
    ASSUME SInv, NEW e \in End, NEW c \in Ch, Finish(e, c) \/ DropSend(e, c) \/ DropRecv(e, c)
    PROVE  AllGo
BY FinishSheds, DropSendSheds, DropRecvSheds, DropsGoes

LEMMA EndsGoes ==
    ASSUME SInv, NEW e \in End, NEW why, why # "none", Ends(e, why)
    PROVE  AllGo
<1>1. /\ Types /\ Local(e, ep[e]) /\ IsEnd(e, ep[e]) /\ Tale(hist[e]) /\ DOMAIN hist = End
      /\ Peer(e) \in End /\ Peer(e) # e
      /\ DOMAIN hist[e] = {"frames", "got", "ended", "givenUp", "closedHere", "torn"}
  BY OwnIs
<1>2. PICK m, h, n, b : /\ m = ep[e] /\ h = hist[e] /\ n = Shutdown(m, why) /\ b = Noting(e, n, h)
                        /\ Becomes(e, n) /\ hist'[e] = b /\ hist'[Peer(e)] = hist[Peer(e)]
  BY <1>1 DEF Ends
<1>3. n = m \/ Over(m, n)
  BY <1>1, <1>2, ShutdownIs
<1>4. b.frames = h.frames
  BY <1>1, <1>2, NotedIs DEF Noted
<1>5. NoNewOpen(m, n)
  <2>1. Fine(e, m, n)
    BY <1>1, <1>2, ShutdownIsFine
  <2> QED
    BY <2>1 DEF Fine, Gently, NoNewOpen
<1>6. Reaches(e, n)
  BY <1>1, <1>2, BecomesIs
<1>7. CASE n = m
  <2>1. Fewer(m, n)
    BY <1>7 DEF Fewer
  <2>2. \A c \in Ch : SameOut(m, n, h, b, c) /\ SameIn(m, n, c)
    BY <1>4, <1>7 DEF SameOut, SameIn
  <2> QED
    BY <1>2, <1>5, <1>6, <2>1, <2>2, SoloGoes
<1>8. CASE Over(m, n)
  <2>1. Fewer(m, n) /\ n.chans = {} /\ Closed(n)
    BY <1>8 DEF Fewer, Over
  <2> QED
    BY <1>2, <1>5, <1>6, <2>1, SoloGoes
<1> QED
  BY <1>3, <1>7, <1>8

\* Nobody counts the channels of an end that was dropped.
LEMMA DropMuxGoes ==
    ASSUME SInv, NEW e \in End, DropMux(e)
    PROVE  AllGo
<1>1. alive'[e] = FALSE
  <2>1. DOMAIN alive = End
    BY DEF SInv, IInv, Types, Flags
  <2> QED
    BY <2>1 DEF DropMux
<1>2. ASSUME NEW x \in End, NEW c \in Ch PROVE ~Bound(x, c)'
  <2>1. x = e \/ Peer(x) = e
    BY PeerIs
  <2> QED
    BY <1>1, <2>1 DEF Bound, Joined
<1> QED
  BY <1>2 DEF AllGo, Goes

LEMMA LinkGoes ==
    ASSUME NEW e \in End, WriterExits(e) \/ Cut
    PROVE  AllGo
<1>1. ep' = ep /\ wire' = wire /\ alive' = alive /\ hist' = hist
  BY DEF WriterExits, Cut
<1> QED
  BY <1>1, StayGoes
-----------------------------------------------------------------------------
(* The writer task takes a segment. *)

LEMMA WriteFlight ==
    ASSUME NEW e, NEW m, IsEnd(e, m), NEW n, NEW d \in Segment, NEW c \in Ch,
           Writing(m, n, d, c), NEW w \in Seq(Segment)
    PROVE  Bodies(Append(w, d), c) \o Bodies(n.out[c], c) = Bodies(w, c) \o Bodies(m.out[c], c)
<1>1. PICK q \in Seq(Segment) : q = m.out[c]
  BY QueuesAre
<1>2. PICK x \in Strand, y \in Strand, z \in Strand :
        x = Bodies(w, c) /\ y = Bodies(q, c) /\ z = Body(d, c)
  BY BodiesIs, BodyIs
<1>3. Bodies(Append(w, d), c) = x \o z
  BY <1>2, BodiesAppend
<1>4. CASE ~Moving(d, c) /\ n.out[c] = m.out[c]
  <2>1. z = <<>>
    BY <1>2, <1>4, BodyIs
  <2>2. Bodies(n.out[c], c) = y
    BY <1>1, <1>2, <1>4
  <2>3. x \o z = x
    BY <2>1, Glue
  <2> QED
    BY <1>1, <1>2, <1>3, <2>2, <2>3
<1>5. CASE m.out[c] # <<>> /\ d = Head(m.out[c]) /\ n.out[c] = Tail(m.out[c])
  <2>1. q # <<>> /\ d = Head(q) /\ n.out[c] = Tail(q)
    BY <1>1, <1>5
  <2>2. y = z \o Bodies(Tail(q), c) /\ Tail(q) \in Seq(Segment)
    BY <1>2, <2>1, BodiesHead
  <2>3. PICK t \in Strand : t = Bodies(Tail(q), c) /\ y = z \o t
    BY <2>2, BodiesIs
  <2>4. Bodies(n.out[c], c) = t
    BY <2>1, <2>3
  <2>5. (x \o z) \o t = x \o (z \o t)
    BY Associates DEF Assoc
  <2> QED
    BY <1>1, <1>2, <1>3, <2>3, <2>4, <2>5
<1> QED
  BY <1>4, <1>5 DEF Writing

LEMMA WriteGrants ==
    ASSUME NEW e, NEW m, IsEnd(e, m), NEW n, IsEnd(e, n), NEW d \in Segment, Writes(e, m, n, d),
           NEW w \in Seq(Segment), NEW c \in Ch
    PROVE  SumOf(n.urgent, c, "WINDOW") + SumOf(Append(w, d), c, "WINDOW")
             = SumOf(m.urgent, c, "WINDOW") + SumOf(w, c, "WINDOW")
<1>1. PICK f \in Nat, g \in Nat, u \in Nat, a \in Nat, b \in Nat :
        /\ f = SumOf(n.urgent, c, "WINDOW") /\ g = SumOf(m.urgent, c, "WINDOW")
        /\ u = m.unacked[c] /\ a = SumOf(w, c, "WINDOW")
        /\ b = SumOf(Append(w, d), c, "WINDOW")
  <2>1. Append(w, d) \in Seq(Segment)
    BY AppendProperties
  <2> QED
    BY <2>1, NumbersAre, SumsAre
<1>2. Debt(n, c) + SumOf(Append(w, d), c, "WINDOW") = Debt(m, c) + SumOf(w, c, "WINDOW")
  BY WritesMoves
<1>3. Debt(n, c) = u + f /\ Debt(m, c) = u + g
  BY <1>1 DEF Debt, Writes
<1>4. (u + f) + b = (u + g) + a
  BY <1>1, <1>2, <1>3
<1>5. f + b = g + a
  BY <1>4
<1> QED
  BY <1>1, <1>5

LEMMA WriterTakesGoes ==
    ASSUME SInv, NEW e \in End, WriterTakes(e)
    PROVE  AllGo
<1>1. PICK p, m, w, n, d, v :
        /\ p = Peer(e) /\ m = ep[e] /\ w = wire[e] /\ n = TakeNext(m).m /\ d = TakeNext(m).seg
        /\ v = Append(w, d)
  OBVIOUS
<1>2. /\ p \in End /\ p # e /\ Peer(p) = e /\ DOMAIN ep = End /\ DOMAIN wire = End
      /\ Local(e, m) /\ IsEnd(e, m) /\ w \in Seq(Segment)
      /\ \A x \in End : x = e \/ x = p
  BY <1>1, OwnIs, PeerIs, EndsAre DEF Types
<1>3. /\ ep'[e] = n /\ ep'[p] = ep[p] /\ hist' = hist /\ wire'[p] = wire[p]
      /\ wire'[e] = v /\ alive' = alive
  BY <1>1, <1>2 DEF WriterTakes
<1>4. d \in Written(e) /\ Local(e, n) /\ Writes(e, m, n, d)
  BY <1>1, <1>2, TakeNextWrites DEF WriterTakes
<1>5. d \in Segment /\ IsEnd(e, n)
  BY <1>4 DEF Written, Local
<1>6. AllQuiet
  <2>1. ASSUME NEW c \in Ch, Announced(n, v, c)
        PROVE  Announced(m, w, c)
    <3>1. OpenLeads(m, w, c)
      BY <1>1 DEF SInv, IInv, Order
    <3> QED
      BY <1>1, <1>2, <1>4, <1>5, <2>1, <3>1, WritesTells
  <2>2. Quiet(e)
    BY <1>1, <1>3, <1>4, <2>1 DEF Quiet, Writes
  <2>3. Quiet(p)
    BY <1>3 DEF Quiet
  <2> QED
    BY <1>2, <2>2, <2>3 DEF AllQuiet
<1>7. ASSUME NEW c \in Ch PROVE Writing(m, n, d, c)
  <2>1. /\ n.chans = m.chans /\ n.send = m.send /\ n.todo = m.todo /\ n.held = m.held
    BY <1>4 DEF Writes
  <2>2. CASE d \in Updates /\ n.out = m.out
    BY <2>1, <2>2 DEF Writing, Moving, Updates
  <2>3. CASE d.ch = c /\ m.out[c] # <<>> /\ d = Head(m.out[c]) /\ n.out[c] = Tail(m.out[c])
    BY <2>1, <2>3 DEF Writing
  <2>4. CASE d.ch # c /\ n.out[c] = m.out[c]
    BY <2>1, <2>4 DEF Writing, Moving
  <2> QED
    BY <1>4, <2>2, <2>3, <2>4 DEF Writes
<1>8. ASSUME NEW c \in Ch PROVE Figure(e, c)' = Figure(e, c)
  <2>1. Figure(e, c)' = FigureOf(n, v, hist[e], ep[p], wire[p], c)
    BY <1>1, <1>3 DEF Figure
  <2>2. Figure(e, c) = FigureOf(m, w, hist[e], ep[p], wire[p], c)
    BY <1>1 DEF Figure
  <2>3. Bodies(v, c) \o Bodies(n.out[c], c) = Bodies(w, c) \o Bodies(m.out[c], c)
    <3>1. Writing(m, n, d, c)
      BY <1>7
    <3>2. Bodies(Append(w, d), c) \o Bodies(n.out[c], c) = Bodies(w, c) \o Bodies(m.out[c], c)
      BY <1>2, <1>5, <3>1, WriteFlight
    <3> QED
      BY <1>1, <3>2
  <2> QED
    BY <1>4, <2>1, <2>2, <2>3 DEF FigureOf, Writes
<1>9. ASSUME NEW c \in Ch PROVE Figure(p, c)' = Figure(p, c)
  <2>1. Figure(p, c)' = FigureOf(ep[p], wire[p], hist[p], n, v, c)
    BY <1>1, <1>2, <1>3 DEF Figure
  <2>2. Figure(p, c) = FigureOf(ep[p], wire[p], hist[p], m, w, c)
    BY <1>1, <1>2 DEF Figure
  <2>3. SumOf(n.urgent, c, "WINDOW") + SumOf(v, c, "WINDOW")
          = SumOf(m.urgent, c, "WINDOW") + SumOf(w, c, "WINDOW")
    BY <1>1, <1>2, <1>4, <1>5, WriteGrants
  <2> QED
    BY <1>4, <2>1, <2>2, <2>3 DEF FigureOf, Writes
<1>10. ASSUME NEW x \in End, NEW c \in Ch, Bound(x, c)' PROVE Bound(x, c)
  <2>1. /\ ep'[x].chans \subseteq ep[x].chans /\ ep'[x].send \subseteq ep[x].send
        /\ ep'[Peer(x)].chans \subseteq ep[Peer(x)].chans
        /\ Closed(ep[Peer(x)]) => Closed(ep'[Peer(x)])
    BY <1>1, <1>2, <1>3, <1>4 DEF Writes, Closed
  <2>2. \A y \in End : alive'[y] => alive[y]
    BY <1>3
  <2> QED
    BY <1>6, <1>10, <2>1, <2>2, BoundStays
<1> QED
  BY <1>2, <1>8, <1>9, <1>10 DEF AllGo, Goes, Stirs

-----------------------------------------------------------------------------
(* The reader task takes a segment: what its own end received.             *)

\* Bytes arrive, and those of frames that nobody reads are given back.
Gathered(m, n, c, body) ==
    LET r == Reassemble(m.asm[c] \o body)
    IN  /\ n.asm[c] = r.rest
        /\ \E back \in {0, r.used} :
             /\ n.unacked[c] = m.unacked[c] + Len(body) - back
             /\ SumOf(n.urgent, c, "WINDOW") = SumOf(m.urgent, c, "WINDOW") + back

IsData(d, c) == d.ch = c /\ d.kind = "DATA"
TakesIn(m, n, d, c) ==
    \/ Closed(n)
    \/ SameIn(m, n, c) /\ (IsData(d, c) => c \notin n.chans)
    \/ IsData(d, c) /\ Gathered(m, n, c, d.body)
    \/ IsOpen(d, c) /\ n.asm[c] = <<>> /\ n.unacked[c] = 0 /\ n.urgent = m.urgent

LEMMA GatherIs ==
    ASSUME NEW e, NEW m, IsEnd(e, m), NEW c \in Ch, NEW body \in Strand, NEW r,
           r = Reassemble(m.asm[c] \o body), NEW n, n.asm[c] = r.rest, NEW back \in {0, r.used},
           n.unacked[c] = (m.unacked[c] + Len(body)) - back,
           SumOf(n.urgent, c, "WINDOW") = SumOf(m.urgent, c, "WINDOW") + back
    PROVE  Gathered(m, n, c, body)
<1>1. m.asm[c] \in Strand
  BY DEF IsEnd, Strand
<1>2. m.asm[c] \o body \in Seq(Byte)
  BY <1>1, Glue DEF Strand
<1>3. r.used \in Nat
  BY <1>2, ReassembleIs
<1>4. PICK u \in Nat, b \in Nat, g \in Nat : u = m.unacked[c] /\ b = Len(body) /\ g = back
  BY <1>3, NumbersAre, Glue
<1>5. (u + b) - g = u + b - g
  OBVIOUS
<1>6. n.unacked[c] = m.unacked[c] + Len(body) - back
  BY <1>4, <1>5
<1> QED
  BY <1>6 DEF Gathered

LEMMA ShutsIn ==
    ASSUME NEW m, DOMAIN m = Fields, NEW why, why # "none", NEW n, n = Shutdown(m, why)
    PROVE  Closed(n)
BY DEF Shutdown, Closed, Fields

LEMMA DataIn ==
    ASSUME NEW e, NEW m, Local(e, m), NEW c \in Ch, NEW body \in Strand, NEW n,
           n = PeerData(m, c, body), NEW x \in Ch
    PROVE  \/ Closed(n)
           \/ SameIn(m, n, x) /\ (x = c => c \notin n.chans)
           \/ x = c /\ Gathered(m, n, c, body)
<1>1. /\ IsEnd(e, m) /\ DOMAIN m = Fields /\ DOMAIN m.asm = Ch /\ DOMAIN m.unacked = Ch
      /\ m.urgent \in Seq(Segment)
  BY QueuesAre DEF Local, IsEnd
<1>2. CASE Closed(m) \/ c \in Range(m.retired)
  <2>1. n = m /\ c \notin m.chans
    BY <1>1, <1>2 DEF PeerData, Local, NotRetired, IsEnd, Closed
  <2> QED
    BY <2>1 DEF SameIn
<1>3. CASE /\ ~Closed(m) /\ c \notin Range(m.retired)
           /\ c \notin m.chans \/ m.unacked[c] + Len(body) > Window
  <2>1. n = Shutdown(m, "UnknownChannel") \/ n = Shutdown(m, "FlowControlExceeded")
    BY <1>3 DEF PeerData
  <2>2. "UnknownChannel" # "none" /\ "FlowControlExceeded" # "none"
    OBVIOUS
  <2>3. Closed(n)
    BY <1>1, <2>1, <2>2, ShutsIn
  <2> QED
    BY <2>3
<1>4. CASE /\ ~Closed(m) /\ c \notin Range(m.retired)
           /\ c \in m.chans /\ ~(m.unacked[c] + Len(body) > Window)
  <2>1. PICK r : r = Reassemble(m.asm[c] \o body)
    OBVIOUS
  <2>2. PICK o : o = [m EXCEPT !.unacked[c] = @ + Len(body), !.asm[c] = r.rest]
    OBVIOUS
  <2>3. /\ DOMAIN o = Fields /\ o.urgent = m.urgent /\ o.chans = m.chans /\ o.reason = m.reason
        /\ o.unacked = [m.unacked EXCEPT ![c] = m.unacked[c] + Len(body)]
        /\ o.asm = [m.asm EXCEPT ![c] = r.rest]
    BY <1>1, <2>2 DEF Fields
  <2>4. /\ o.asm[c] = r.rest /\ o.unacked[c] = m.unacked[c] + Len(body) /\ DOMAIN o.unacked = Ch
        /\ x # c => o.asm[x] = m.asm[x] /\ o.unacked[x] = m.unacked[x]
    BY <1>1, <2>3
  <2>5. n = IF c \in m.recv THEN [o EXCEPT !.rx[c] = @ \o r.frames]
            ELSE IF r.used > 0 THEN ReturnCredit(o, c, r.used) ELSE o
    BY <1>4, <2>1, <2>2 DEF PeerData
  <2>6. PICK u \in Nat, b \in Nat, g \in Nat :
          u = m.unacked[c] /\ b = Len(body) /\ g = SumOf(m.urgent, c, "WINDOW")
    BY <1>1, NumbersAre, Glue
  <2>7. CASE n.asm = o.asm /\ n.unacked = o.unacked /\ n.urgent = o.urgent
    <3>1. CASE x = c
      <4>1. n.asm[c] = r.rest /\ n.unacked[c] = u + b
        BY <2>4, <2>6, <2>7
      <4>2. n.unacked[c] = (m.unacked[c] + Len(body)) - 0
        BY <2>6, <4>1
      <4>3. SumOf(n.urgent, c, "WINDOW") = SumOf(m.urgent, c, "WINDOW") + 0
        BY <2>3, <2>6, <2>7
      <4>4. Gathered(m, n, c, body)
        BY <1>1, <2>1, <4>1, <4>2, <4>3, GatherIs
      <4> QED
        BY <3>1, <4>4
    <3>2. CASE x # c
      BY <2>3, <2>4, <2>7, <3>2 DEF SameIn
    <3> QED
      BY <3>1, <3>2
  <2>8. CASE n = ReturnCredit(o, c, r.used)
    <3>1. PICK k, s : k = r.used /\ s = WindowSeg(c, k)
      OBVIOUS
    <3>2. k \in Nat
      <4>1. m.asm[c] \o body \in Seq(Byte)
        <5>1. m.asm[c] \in Strand
          BY <1>1 DEF IsEnd, Strand
        <5> QED
          BY <5>1, Glue DEF Strand
      <4> QED
        BY <2>1, <3>1, <4>1, ReassembleIs
    <3>3. n = [o EXCEPT !.unacked[c] = @ - k, !.urgent = Append(@, s)]
      BY <1>4, <2>3, <2>8, <3>1 DEF ReturnCredit, Closed
    <3>4. /\ n.asm = o.asm /\ n.urgent = Append(m.urgent, s)
          /\ n.unacked = [o.unacked EXCEPT ![c] = o.unacked[c] - k]
      BY <2>3, <3>3 DEF Fields
    <3>5. n.unacked[c] = o.unacked[c] - k /\ (x # c => n.unacked[x] = o.unacked[x])
      BY <2>4, <3>4
    <3>6. s \in Segment /\ s.ch = c /\ s.kind = "WINDOW" /\ s.n = k
      BY <3>1, <3>2 DEF WindowSeg, Segment
    <3>7. SumOf(n.urgent, x, "WINDOW") = SumOf(m.urgent, x, "WINDOW") + Worth(s, x, "WINDOW")
      BY <1>1, <3>4, <3>6, SumAppend
    <3>8. CASE x = c
      <4>1. SumOf(n.urgent, c, "WINDOW") = SumOf(m.urgent, c, "WINDOW") + k
        BY <3>6, <3>7, <3>8 DEF Worth
      <4>2. n.asm[c] = r.rest /\ n.unacked[c] = (m.unacked[c] + Len(body)) - k
        BY <2>4, <3>4, <3>5
      <4>3. Gathered(m, n, c, body)
        BY <1>1, <2>1, <3>1, <4>1, <4>2, GatherIs
      <4> QED
        BY <3>8, <4>3
    <3>9. CASE x # c
      <4>1. Worth(s, x, "WINDOW") = 0
        BY <3>6, <3>9 DEF Worth
      <4>2. PICK f \in Nat : f = SumOf(m.urgent, x, "WINDOW")
        BY <1>1, NumbersAre
      <4>3. SumOf(n.urgent, x, "WINDOW") = SumOf(m.urgent, x, "WINDOW")
        BY <3>7, <4>1, <4>2
      <4> QED
        BY <2>4, <3>4, <3>5, <3>9, <4>3 DEF SameIn
    <3> QED
      BY <3>8, <3>9
  <2>9. CASE c \in m.recv
    <3>1. n = [o EXCEPT !.rx[c] = @ \o r.frames]
      BY <2>5, <2>9
    <3>2. n.asm = o.asm /\ n.unacked = o.unacked /\ n.urgent = o.urgent
      BY <2>3, <3>1 DEF Fields
    <3> QED
      BY <2>7, <3>2
  <2>10. CASE c \notin m.recv
    <3>1. n = ReturnCredit(o, c, r.used) \/ n = o
      BY <2>5, <2>10
    <3> QED
      BY <2>7, <2>8, <3>1
  <2> QED
    BY <2>9, <2>10
<1> QED
  BY <1>2, <1>3, <1>4

LEMMA SegmentIn ==
    ASSUME NEW e, NEW m, Local(e, m), NEW d \in Segment, NEW n, n = HandleSegment(m, e, d),
           NEW c \in Ch
    PROVE  TakesIn(m, n, d, c)
<1>1. /\ d.ch \in Ch /\ d.kind \in {"OPEN", "DATA", "WINDOW", "RESET"} /\ d.body \in Strand
      /\ IsEnd(e, m) /\ DOMAIN m = Fields /\ DOMAIN m.asm = Ch /\ DOMAIN m.unacked = Ch
  BY DEF Segment, Local, IsEnd, Strand
<1>3. ASSUME ~IsData(d, c), SameIn(m, n, c) PROVE TakesIn(m, n, d, c)
  BY <1>3 DEF TakesIn
<1>4. CASE d.kind = "OPEN"
  <2>1. n = PeerOpen(m, e, d.ch)
    BY <1>4 DEF HandleSegment
  <2>2. \/ n = m \/ n = Shutdown(m, "WrongChannelParity") \/ n = Shutdown(m, "DuplicateChannel")
        \/ n = Shutdown(m, "TooManyChannels")
        \/ n = [InsertChannel(m, d.ch) EXCEPT !.acceptQ = Append(@, d.ch)]
    BY <2>1 DEF PeerOpen
  <2>3. ASSUME NEW why, why # "none", n = Shutdown(m, why) PROVE TakesIn(m, n, d, c)
    BY <1>1, <2>3, ShutsIn DEF TakesIn
  <2>4. /\ "WrongChannelParity" # "none" /\ "DuplicateChannel" # "none"
        /\ "TooManyChannels" # "none"
    OBVIOUS
  <2>5. CASE n = [InsertChannel(m, d.ch) EXCEPT !.acceptQ = Append(@, d.ch)]
    <3>1. PICK o : o = InsertChannel(m, d.ch)
      OBVIOUS
    <3>2. /\ DOMAIN o = Fields /\ o.urgent = m.urgent
          /\ o.asm = [m.asm EXCEPT ![d.ch] = <<>>] /\ o.unacked = [m.unacked EXCEPT ![d.ch] = 0]
      BY <1>1, <3>1 DEF InsertChannel, Fields
    <3>3. n.asm = o.asm /\ n.unacked = o.unacked /\ n.urgent = m.urgent
      BY <2>5, <3>1, <3>2 DEF Fields
    <3>4. CASE d.ch = c
      <4>1. n.asm[c] = <<>> /\ n.unacked[c] = 0
        BY <1>1, <3>2, <3>3, <3>4
      <4> QED
        BY <1>4, <3>3, <3>4, <4>1 DEF TakesIn, IsOpen
    <3>5. CASE d.ch # c
      <4>1. n.asm[c] = m.asm[c] /\ n.unacked[c] = m.unacked[c]
        BY <1>1, <3>2, <3>3, <3>5
      <4> QED
        BY <1>3, <1>4, <3>3, <4>1 DEF SameIn, IsData
    <3> QED
      BY <3>4, <3>5
  <2>6. CASE n = m
    BY <1>3, <1>4, <2>6 DEF SameIn, IsData
  <2> QED
    BY <2>2, <2>3, <2>4, <2>5, <2>6
<1>5. CASE d.kind = "DATA"
  <2>1. n = PeerData(m, d.ch, d.body)
    BY <1>5 DEF HandleSegment
  <2>2. \/ Closed(n)
        \/ SameIn(m, n, c) /\ (c = d.ch => d.ch \notin n.chans)
        \/ c = d.ch /\ Gathered(m, n, d.ch, d.body)
    BY <1>1, <2>1, DataIn
  <2> QED
    BY <1>5, <2>2 DEF TakesIn, IsData
<1>6. CASE d.kind = "WINDOW"
  <2>1. n = PeerWindow(m, d.ch, d.n)
    BY <1>6 DEF HandleSegment
  <2>2. CASE n = Shutdown(m, "FlowControlInflated")
    <3>1. "FlowControlInflated" # "none"
      OBVIOUS
    <3> QED
      BY <1>1, <2>2, <3>1, ShutsIn DEF TakesIn
  <2>3. CASE n = m \/ n = [m EXCEPT !.credit[d.ch] = @ + d.n]
    <3>1. n.asm = m.asm /\ n.unacked = m.unacked /\ n.urgent = m.urgent
      BY <1>1, <2>3 DEF Fields
    <3> QED
      BY <1>3, <1>6, <3>1 DEF SameIn, IsData
  <2> QED
    BY <2>1, <2>2, <2>3 DEF PeerWindow
<1>7. CASE d.kind = "RESET"
  <2>1. n = PeerReset(m, d.ch)
    BY <1>7 DEF HandleSegment
  <2>2. n.asm = m.asm /\ n.unacked = m.unacked /\ n.urgent = m.urgent
    <3>1. PICK o : o = [m EXCEPT !.chans = @ \ {d.ch}, !.out[d.ch] = <<>>]
      OBVIOUS
    <3>2. DOMAIN o = Fields /\ o.asm = m.asm /\ o.unacked = m.unacked /\ o.urgent = m.urgent
      BY <1>1, <3>1 DEF Fields
    <3>3. n = m \/ n = Retire(o, d.ch)
      BY <2>1, <3>1 DEF PeerReset
    <3>4. CASE n = Retire(o, d.ch)
      BY <3>2, <3>4 DEF Retire, Fields
    <3> QED
      BY <3>2, <3>3, <3>4
  <2> QED
    BY <1>3, <1>7, <2>2 DEF SameIn, IsData
<1> QED
  BY <1>1, <1>4, <1>5, <1>6, <1>7

\* A segment that says nothing of its bytes moves no figure.
LEMMA NoBody ==
    ASSUME NEW d \in Segment, NEW c, ~IsData(d, c)
    PROVE  Body(d, c) = <<>>
BY DEF Body, IsData

\* What end e does with segment d, as the direction of its peer sees it.
LEMMA ReadMovesIn ==
    ASSUME NEW m, NEW n, NEW w \in Seq(Segment), w # <<>>, NEW d, d = Head(w), NEW c \in Ch,
           NEW s, NEW q \in Seq(Segment), s.out[c] = q, NEW h, NEW v, NEW e, IsEnd(e, m),
           v \in Seq(Segment), NEW x, x = FigureOf(s, w, h, m, v, c),
           NEW y, y = FigureOf(s, Tail(w), h, n, v, c),
           \/ SameIn(m, n, c) /\ ~IsData(d, c)
           \/ IsData(d, c) /\ Gathered(m, n, c, d.body)
    PROVE  y = x \/ FigureMoves(x, y)
<1>1. d \in Segment /\ d.body \in Strand
  BY TailIs DEF Segment, Strand
<1>2. PICK z \in Strand : z = Bodies(q, c)
  BY BodiesIs
<1>3. Bodies(w, c) \o z = Body(d, c) \o (Bodies(Tail(w), c) \o z)
  <2>1. /\ Bodies(w, c) = Body(d, c) \o Bodies(Tail(w), c)
        /\ d \in Segment /\ Tail(w) \in Seq(Segment)
    BY BodiesHead
  <2>2. PICK a \in Strand, b \in Strand : a = Body(d, c) /\ b = Bodies(Tail(w), c)
    BY <2>1, BodyIs, BodiesIs
  <2>3. (a \o b) \o z = a \o (b \o z)
    BY Associates DEF Assoc
  <2> QED
    BY <2>1, <2>2, <2>3
<1>4. x.flight = Body(d, c) \o y.flight /\ SameSent(x, y)
  <2>1. x.flight = Bodies(w, c) \o z /\ y.flight = Bodies(Tail(w), c) \o z
    BY <1>2 DEF FigureOf
  <2> QED
    BY <1>3, <2>1 DEF FigureOf, SameSent
<1>5. CASE SameIn(m, n, c) /\ ~IsData(d, c)
  <2>1. Body(d, c) = <<>>
    BY <1>1, <1>5, NoBody
  <2>2. Tail(w) \in Seq(Segment)
    BY TailIs
  <2>3. y.flight \in Strand
    <3>1. PICK t \in Strand : t = Bodies(Tail(w), c)
      BY <2>2, BodiesIs
    <3> QED
      BY <1>2, <3>1, Glue DEF FigureOf
  <2>4. x.flight = y.flight
    BY <1>4, <2>1, <2>3, Glue
  <2>5. x.flight = Bodies(w, c) \o z /\ y.flight = Bodies(Tail(w), c) \o z
    BY <1>2 DEF FigureOf
  <2>6. Bodies(Tail(w), c) \o Bodies(s.out[c], c) = Bodies(w, c) \o Bodies(s.out[c], c)
    BY <1>2, <2>4, <2>5
  <2> QED
    BY <1>5, <2>6 DEF FigureOf, SameIn
<1>6. CASE IsData(d, c) /\ Gathered(m, n, c, d.body)
  <2>1. Body(d, c) = d.body
    BY <1>6 DEF Body, IsData
  <2>2. x.asm = m.asm[c] /\ y.asm = n.asm[c] /\ x.unacked = m.unacked[c] /\ y.unacked = n.unacked[c]
    BY DEF FigureOf
  <2>3. PICK r : r = Reassemble(m.asm[c] \o d.body)
    OBVIOUS
  <2>4. PICK back \in {0, r.used} :
          /\ n.unacked[c] = m.unacked[c] + Len(d.body) - back
          /\ SumOf(n.urgent, c, "WINDOW") = SumOf(m.urgent, c, "WINDOW") + back
    BY <1>6, <2>3 DEF Gathered
  <2>5. back \in Nat
    <3>1. m.asm[c] \in Strand
      BY DEF IsEnd, Strand
    <3>2. m.asm[c] \o d.body \in Seq(Byte)
      BY <1>1, <3>1, Glue DEF Strand
    <3>3. r.used \in Nat
      BY <2>3, <3>2, ReassembleIs
    <3> QED
      BY <2>4, <3>3
  <2>6. y.granted = x.granted + back
    <3>1. PICK f \in Nat, g \in Nat, k \in Nat :
            f = SumOf(m.urgent, c, "WINDOW") /\ g = SumOf(v, c, "WINDOW") /\ k = back
      BY <2>5, NumbersAre, SumsAre
    <3>2. x.granted = f + g /\ y.granted = (f + k) + g
      BY <2>4, <3>1 DEF FigureOf
    <3> QED
      BY <3>1, <3>2
  <2>7. y.asm = r.rest
    BY <1>6, <2>2, <2>3 DEF Gathered
  <2>8. GathersBytes(x, y, d.body)
    BY <1>4, <2>1, <2>2, <2>3, <2>4, <2>6, <2>7 DEF GathersBytes
  <2> QED
    BY <1>1, <2>8 DEF FigureMoves
<1> QED
  BY <1>5, <1>6

LEMMA UntoldHolds ==
    ASSUME NEW p, NEW r, Local(p, r), NEW c \in Ch, Untold(r, c)
    PROVE  r.asm[c] = <<>>
<1>1. IsEnd(p, r) /\ r.unacked[c] = 0
  BY DEF Local, Untold
<1>2. PICK l \in Nat, t \in Nat, k \in Nat :
        l = Len(r.asm[c]) /\ t = Total(r.rx[c]) /\ k = r.taken[c]
  BY <1>1, NumbersAre
<1>3. l + t + k <= 0
  BY <1>1, <1>2 DEF Local, Accounted, Unread
<1>4. r.asm[c] \in Strand
  BY <1>1 DEF IsEnd, Strand
<1> QED
  BY <1>2, <1>3, <1>4, Glue

\* Nothing was sent on the channel, and nothing was heard of it.
LEMMA BlankFigure ==
    ASSUME NEW n, NEW w \in Seq(Segment), NEW h, NEW p, NEW r, Local(p, r),
           NEW v \in Seq(Segment), NEW c \in Ch, h.frames[c] = <<>>, n.todo[c] = <<>>,
           n.held[c] = <<>>, Bodies(n.out[c], c) = <<>>, \A i \in DOMAIN w : ~Moving(w[i], c),
           Untold(r, c), NoUpdate(v, c)
    PROVE  FigureOf(n, w, h, r, v, c) = Blank
<1>1. Bodies(w, c) = <<>>
  BY BodiesNone
<1>2. Bodies(w, c) \o Bodies(n.out[c], c) = <<>>
  BY <1>1, Glue
<1>3. /\ IsEnd(p, r) /\ r.urgent \in Seq(Segment) /\ r.unacked[c] = 0
  BY QueuesAre DEF Local, Untold
<1>4. r.asm[c] = <<>>
  BY UntoldHolds
<1>5. SumOf(r.urgent, c, "WINDOW") = 0
  BY <1>3, NothingInFlight DEF Untold
<1>6. SumOf(v, c, "WINDOW") = 0
  BY NothingInFlight
<1>7. SumOf(r.urgent, c, "WINDOW") + SumOf(v, c, "WINDOW") = 0
  BY <1>5, <1>6
<1> QED
  BY <1>2, <1>3, <1>4, <1>7 DEF FigureOf, Blank

\* What end e does with segment d, as its own direction of channel c sees it.
LEMMA ReadMovesOut ==
    ASSUME NEW c \in Ch, NEW m, NEW n, NEW h, NEW b, SameOut(m, n, h, b, c), NEW v \in Seq(Segment), v # <<>>,
           NEW d, d = Head(v), NEW w, NEW p, NEW r, IsEnd(p, r),
           NEW x, x = FigureOf(m, w, h, r, v, c), NEW y, y = FigureOf(n, w, b, r, Tail(v), c)
    PROVE  FigureMoves(x, y)
<1>1. Tail(v) \in Seq(Segment) /\ d \in Segment
  BY TailIs
<1>2. PICK f \in Nat, g \in Nat, k \in Nat :
        /\ f = SumOf(r.urgent, c, "WINDOW") /\ g = SumOf(Tail(v), c, "WINDOW")
        /\ k = Worth(d, c, "WINDOW")
  BY <1>1, NumbersAre, SumsAre, WorthIs
<1>3. SumOf(v, c, "WINDOW") = k + g
  BY <1>2, SumHeadTail
<1>4. x.granted = f + (k + g) /\ y.granted = f + g
  BY <1>2, <1>3 DEF FigureOf
<1>5. x.granted = y.granted + k
  BY <1>4
<1>6. SameSent(x, y) /\ y.flight = x.flight /\ y.asm = x.asm /\ y.unacked = x.unacked
  BY DEF FigureOf, SameSent, SameOut
<1>7. RegainsCredit(x, y, k)
  BY <1>5, <1>6 DEF RegainsCredit
<1> QED
  BY <1>7 DEF FigureMoves

LEMMA ReaderTakesGoes ==
    ASSUME SInv, NEW e \in End, ReaderTakes(e)
    PROVE  AllGo
<1>1. PICK p, m, d, n, b, w, v :
        /\ p = Peer(e) /\ m = ep[e] /\ d = Head(wire[p]) /\ n = HandleSegment(m, e, d)
        /\ b = Noting(e, n, hist[e]) /\ w = wire[e] /\ v = wire[p]
  OBVIOUS
<1>2. /\ p \in End /\ p # e /\ Peer(p) = e /\ DOMAIN ep = End /\ DOMAIN wire = End
      /\ DOMAIN hist = End /\ Local(e, m) /\ IsEnd(e, m) /\ Tale(hist[e])
      /\ v \in Seq(Segment) /\ v \in Seq(Written(p)) /\ w \in Seq(Segment)
      /\ Local(p, ep[p]) /\ IsEnd(p, ep[p]) /\ \A x \in End : x = e \/ x = p
  BY <1>1, OwnIs, PeerIs, EndsAre DEF Types
<1>3. /\ ep'[e] = n /\ ep'[p] = ep[p] /\ hist'[e] = b /\ hist'[p] = hist[p]
      /\ v # <<>> /\ wire'[p] = Tail(v) /\ wire'[e] = w /\ alive' = alive
  BY <1>1, <1>2 DEF ReaderTakes
<1>4. d \in Segment /\ d \in Written(p) /\ 1 \in DOMAIN v /\ v[1] = d /\ Tail(v) \in Seq(Segment)
  <2>1. d \in Segment /\ 1 \in DOMAIN v /\ v[1] = d /\ Tail(v) \in Seq(Segment)
    BY <1>1, <1>2, <1>3, TailIs
  <2>2. d \in Written(p)
    BY <1>2, <2>1
  <2> QED
    BY <2>1, <2>2
<1>5. Takes(m, n, d)
  BY <1>1, <1>2, <1>4, SegmentTaken
<1>6. b.frames = hist[e].frames
  <2>1. Noted(hist[e], b)
    <3>1. DOMAIN hist[e] = {"frames", "got", "ended", "givenUp", "closedHere", "torn"}
      BY OwnIs
    <3> QED
      BY <1>1, <1>2, <3>1, NotedIs
  <2> QED
    BY <2>1 DEF Noted
<1>7. AllQuiet
  <2>1. NoNewOpen(m, n) /\ Shortened(wire[e], wire'[e])
    BY <1>1, <1>3, <1>4, <1>5, NoNewTaken DEF Shortened
  <2>2. Quiet(e)
    BY <1>1, <1>3, <2>1, QuietIs
  <2>3. Quiet(p)
    BY <1>1, <1>2, <1>3, QuietReads
  <2> QED
    BY <1>2, <2>2, <2>3 DEF AllQuiet
<1>8. Closed(m) => Closed(n)
  BY <1>5 DEF Takes, Ignored, Unmoved, Over, Arrives, SameBut, Removes, Admits, Closed
<1>9. ASSUME NEW c \in Ch
      PROVE  /\ c \in n.chans => c \in m.chans \/ IsOpen(d, c)
             /\ c \in n.send => c \in m.send \/ IsOpen(d, c)
  BY <1>5, <1>9 DEF Takes, Ignored, Unmoved, SameSender, Over, Arrives, SameBut, Removes, Admits, IsOpen
<1>10. ASSUME NEW c \in Ch, c \in n.chans PROVE SameOut(m, n, hist[e], b, c)
  <2>1. n.todo[c] = m.todo[c] /\ n.held[c] = m.held[c] /\ n.out[c] = m.out[c]
    BY <1>5, <1>10 DEF Takes, Ignored, Unmoved, SameSender, Over, Arrives, SameBut, Removes, Admits
  <2> QED
    BY <1>6, <2>1 DEF SameOut
<1>11. ASSUME NEW c \in Ch, IsOpen(d, c)
       PROVE  /\ Hidden(p, c) /\ Own(p, c) /\ Announced(ep[p], v, c)
              /\ Idle(m, w, c) /\ Untold(m, c) /\ Untold(ep[p], c) /\ NoUpdate(v, c)
  <2>1. Announced(ep[p], v, c)
    BY <1>4, <1>11 DEF Announced
  <2>2. Own(p, c)
    BY <1>4, <1>11 DEF Written, IsOpen
  <2>3. Hidden(p, c)
    BY <1>1, <2>1, <2>2 DEF Hidden
  <2> QED
    BY <1>1, <1>2, <2>1, <2>2, <2>3 DEF SInv, IInv, HiddenIdle, Unheard
<1>12. ASSUME NEW c \in Ch PROVE Figure(e, c)' = FigureOf(n, w, b, ep[p], Tail(v), c)
  BY <1>1, <1>3 DEF Figure
<1>13. ASSUME NEW c \in Ch PROVE Figure(p, c)' = FigureOf(ep[p], Tail(v), hist[p], n, w, c)
  BY <1>2, <1>3 DEF Figure
<1>14. ASSUME NEW c \in Ch, Bound(e, c)' PROVE Bound(e, c) \/ Figure(e, c)' = Blank
  <2>1. /\ c \in n.chans /\ c \in n.send /\ alive[e] /\ alive[p] /\ ~Closed(ep[p])
        /\ c \in ep[p].chans \/ (Own(e, c) /\ Announced(ep'[e], wire'[e], c))
    BY <1>1, <1>3, <1>14 DEF Bound, Joined
  <2>2. CASE IsOpen(d, c)
    <3>1. /\ Hidden(p, c) /\ Idle(m, w, c) /\ Untold(ep[p], c) /\ NoUpdate(v, c)
      BY <1>11, <2>2
    <3>2. hist[e].frames[c] = <<>>
      <4>1. c \in Foreign(e)
        BY <1>1, <3>1 DEF Foreign
      <4>2. StreamOf(e, c)
        BY DEF SInv
      <4> QED
        BY <4>1, <4>2 DEF StreamOf, Stream
    <3>3. SameOut(m, n, hist[e], b, c)
      BY <1>10, <2>1
    <3>4. /\ b.frames[c] = <<>> /\ n.todo[c] = <<>> /\ n.held[c] = <<>> /\ n.out[c] = <<>>
          /\ \A i \in DOMAIN w : ~Moving(w[i], c)
      BY <3>1, <3>2, <3>3 DEF SameOut, Idle, Silent
    <3>5. Bodies(n.out[c], c) = <<>>
      BY <3>4, BodiesEmpty
    <3>6. NoUpdate(Tail(v), c)
      <4>1. \A i \in DOMAIN Tail(v) : \E j \in DOMAIN v : Tail(v)[i] = v[j]
        BY <1>2, <1>3, TailIs
      <4> QED
        BY <3>1, <4>1 DEF NoUpdate
    <3>7. FigureOf(n, w, b, ep[p], Tail(v), c) = Blank
      BY <1>2, <1>4, <3>1, <3>4, <3>5, <3>6, BlankFigure
    <3> QED
      BY <1>12, <3>7
  <2>3. CASE ~IsOpen(d, c)
    <3>1. c \in m.chans /\ c \in m.send
      BY <1>9, <2>1, <2>3
    <3>2. c \in ep[p].chans \/ (Own(e, c) /\ Announced(ep[e], wire[e], c))
      BY <1>7, <2>1 DEF AllQuiet, Quiet
    <3> QED
      BY <1>1, <2>1, <3>1, <3>2 DEF Bound, Joined
  <2> QED
    BY <2>2, <2>3
<1>15. ASSUME NEW c \in Ch, Bound(e, c)' PROVE Stirs(e, c)
  <2>1. SameOut(m, n, hist[e], b, c)
    BY <1>3, <1>10, <1>15 DEF Bound, Joined
  <2>2. PICK x, y : x = Figure(e, c) /\ y = Figure(e, c)'
    OBVIOUS
  <2>3. x = FigureOf(m, w, hist[e], ep[p], v, c)
    BY <1>1, <2>2 DEF Figure
  <2>4. y = FigureOf(n, w, b, ep[p], Tail(v), c)
    BY <1>12, <2>2
  <2>5. FigureMoves(x, y)
    BY <1>1, <1>2, <1>3, <2>1, <2>3, <2>4, ReadMovesOut
  <2> QED
    BY <2>2, <2>5 DEF Stirs
<1>16. ASSUME NEW c \in Ch, Bound(p, c)' PROVE Bound(p, c)
  <2>1. /\ c \in ep[p].chans /\ c \in ep[p].send /\ alive[p] /\ alive[e] /\ ~Closed(n)
        /\ c \in n.chans \/ (Own(p, c) /\ Announced(ep'[p], wire'[p], c))
    BY <1>2, <1>3, <1>16 DEF Bound, Joined
  <2>2. c \in m.chans \/ (Own(p, c) /\ Announced(ep[p], wire[p], c))
    <3>1. CASE c \in n.chans
      BY <1>1, <1>9, <1>11, <3>1
    <3>2. CASE Own(p, c) /\ Announced(ep'[p], wire'[p], c)
      BY <1>2, <1>7, <3>2 DEF AllQuiet, Quiet
    <3> QED
      BY <2>1, <3>1, <3>2
  <2> QED
    BY <1>1, <1>2, <1>8, <2>1, <2>2 DEF Bound, Joined
<1>17. ASSUME NEW c \in Ch, Bound(p, c)' PROVE Stirs(p, c)
  <2>1. ~Closed(n) /\ (c \in n.chans \/ (Own(p, c) /\ Announced(ep'[p], wire'[p], c)))
    BY <1>2, <1>3, <1>17 DEF Bound, Joined
  <2>2. TakesIn(m, n, d, c)
    BY <1>1, <1>2, <1>4, SegmentIn
  <2>3. ASSUME IsData(d, c) PROVE c \in n.chans
    <3>1. Moving(d, c) /\ d.kind # "OPEN"
      BY <2>3 DEF IsData, Moving
    <3>2. c \notin HiddenTo(p)
      BY <1>1, <1>3, <3>1, KnownIs
    <3>3. ~(Own(p, c) /\ Announced(ep[p], wire[p], c))
      BY <3>2 DEF HiddenTo, Hidden
    <3>4. ~(Own(p, c) /\ Announced(ep'[p], wire'[p], c))
      BY <1>2, <1>7, <3>3 DEF AllQuiet, Quiet
    <3> QED
      BY <2>1, <3>4
  <2>4. ASSUME IsOpen(d, c), n.asm[c] = <<>>, n.unacked[c] = 0, n.urgent = m.urgent
        PROVE  SameIn(m, n, c) /\ ~IsData(d, c)
    <3>1. Untold(m, c)
      BY <1>11, <2>4
    <3>2. m.asm[c] = <<>> /\ m.unacked[c] = 0
      BY <1>2, <3>1, UntoldHolds DEF Untold
    <3> QED
      BY <2>4, <3>2 DEF SameIn, IsData, IsOpen
  <2>5. \/ SameIn(m, n, c) /\ ~IsData(d, c)
        \/ IsData(d, c) /\ Gathered(m, n, c, d.body)
    BY <2>1, <2>2, <2>3, <2>4 DEF TakesIn
  <2>6. PICK x, y : x = Figure(p, c) /\ y = Figure(p, c)'
    OBVIOUS
  <2>7. x = FigureOf(ep[p], v, hist[p], m, w, c)
    BY <1>1, <1>2, <2>6 DEF Figure
  <2>8. y = FigureOf(ep[p], Tail(v), hist[p], n, w, c)
    BY <1>13, <2>6
  <2>9. PICK q \in Seq(Segment) : ep[p].out[c] = q
    BY <1>2, QueuesAre
  <2>10. y = x \/ FigureMoves(x, y)
    BY <1>1, <1>2, <1>3, <2>5, <2>7, <2>8, <2>9, ReadMovesIn
  <2> QED
    BY <2>6, <2>10 DEF Stirs
<1> QED
  BY <1>2, <1>14, <1>15, <1>16, <1>17 DEF AllGo, Goes

-----------------------------------------------------------------------------
(* A channel is opened.                                                    *)

\* What opening channel id makes of state m of an end.
Starts(m, n, id) ==
    /\ n.reason = m.reason /\ n.todo = m.todo /\ n.held = m.held /\ n.urgent = m.urgent
    /\ \A c \in Ch : c # id => /\ SameSender(m, n, c)
                               /\ n.asm[c] = m.asm[c] /\ n.unacked[c] = m.unacked[c]
    /\ Bodies(n.out[id], id) = <<>>

LEMMA StartsGoes ==
    ASSUME SInv, NEW e \in End, NEW id \in Ch, id = ep[e].nextLocal, NEW n,
           Reaches(e, n), hist' = hist, Starts(ep[e], n, id)
    PROVE  AllGo
<1>1. PICK p, m : p = Peer(e) /\ m = ep[e]
  OBVIOUS
<1>2. /\ p \in End /\ p # e /\ Peer(p) = e /\ Types /\ Local(p, ep[p])
      /\ wire[e] \in Seq(Segment) /\ wire[p] \in Seq(Segment) /\ \A x \in End : x = e \/ x = p
  BY <1>1, OwnIs, PeerIs, EndsAre DEF Types
<1>3. ep'[e] = n /\ ep'[p] = ep[p] /\ wire' = wire /\ alive' = alive
  BY <1>1 DEF Reaches
<1>4. /\ Idle(m, wire[e], id) /\ Idle(ep[p], wire[p], id) /\ hist[e].frames[id] = <<>>
      /\ id \in HiddenTo(e)
  BY <1>1, UnusedTells
<1>5. Untold(ep[p], id) /\ NoUpdate(wire[p], id)
  BY <1>1, <1>4 DEF HiddenTo, SInv, IInv, HiddenIdle, Unheard
<1>6. ASSUME NEW c \in Ch PROVE Figure(e, c)' = FigureOf(n, wire[e], hist[e], ep[p], wire[p], c)
  BY <1>1, <1>3 DEF Figure
<1>7. ASSUME NEW c \in Ch PROVE Figure(p, c)' = FigureOf(ep[p], wire[p], hist[p], n, wire[e], c)
  BY <1>2, <1>3 DEF Figure
<1>8. Figure(e, id)' = Blank
  <2>1. /\ n.todo[id] = <<>> /\ n.held[id] = <<>> /\ Bodies(n.out[id], id) = <<>>
        /\ \A i \in DOMAIN wire[e] : ~Moving(wire[e][i], id)
    BY <1>1, <1>4 DEF Starts, Idle, Silent
  <2>2. FigureOf(n, wire[e], hist[e], ep[p], wire[p], id) = Blank
    <3>0. PICK h, r : h = hist[e] /\ r = ep[p]
      OBVIOUS
    <3>1. PICK w \in Seq(Segment), v \in Seq(Segment) : w = wire[e] /\ v = wire[p]
      BY <1>2
    <3>2. /\ Local(p, r) /\ h.frames[id] = <<>> /\ Untold(r, id) /\ NoUpdate(v, id)
          /\ \A i \in DOMAIN w : ~Moving(w[i], id)
      BY <1>2, <1>4, <1>5, <2>1, <3>0, <3>1
    <3>3. FigureOf(n, w, h, r, v, id) = Blank
      BY <2>1, <3>2, BlankFigure
    <3> QED
      BY <3>0, <3>1, <3>3
  <2> QED
    BY <1>6, <2>2
<1>9. ~Bound(e, id) /\ ~Bound(p, id)'
  <2>1. id \notin m.chans /\ id \notin ep[p].chans
    BY <1>4 DEF Idle, Silent
  <2> QED
    BY <1>1, <1>3, <2>1 DEF Bound, Joined
<1>10. ASSUME NEW c \in Ch, c # id
       PROVE  Goes(e, c)
  <2>1. SameSender(m, n, c)
    BY <1>1, <1>10 DEF Starts
  <2>2. Figure(e, c)' = Figure(e, c)
    <3>1. Figure(e, c) = FigureOf(m, wire[e], hist[e], ep[p], wire[p], c)
      BY <1>1 DEF Figure
    <3>2. Figure(e, c)' = FigureOf(n, wire[e], hist[e], ep[p], wire[p], c)
      BY <1>6
    <3> QED
      BY <2>1, <3>1, <3>2 DEF FigureOf, SameSender
  <2>3. Bound(e, c)' => Bound(e, c)
    <3>1. Announced(n, wire[e], c) => Announced(m, wire[e], c)
      BY <2>1 DEF SameSender, Announced
    <3>2. (c \in n.chans <=> c \in m.chans) /\ (c \in n.send <=> c \in m.send)
      BY <2>1 DEF SameSender
    <3> QED
      BY <1>1, <1>3, <3>1, <3>2 DEF Bound, Joined
  <2> QED
    BY <2>2, <2>3 DEF Goes, Stirs
<1>11. ASSUME NEW c \in Ch, c # id
       PROVE  Goes(p, c)
  <2>1. /\ c \in n.chans <=> c \in m.chans
        /\ n.asm[c] = m.asm[c] /\ n.unacked[c] = m.unacked[c] /\ n.urgent = m.urgent
        /\ n.reason = m.reason
    BY <1>1, <1>11 DEF Starts, SameSender
  <2>2. Figure(p, c)' = Figure(p, c)
    <3>1. Figure(p, c) = FigureOf(ep[p], wire[p], hist[p], m, wire[e], c)
      BY <1>1, <1>2 DEF Figure
    <3>2. Figure(p, c)' = FigureOf(ep[p], wire[p], hist[p], n, wire[e], c)
      BY <1>7
    <3> QED
      BY <2>1, <3>1, <3>2 DEF FigureOf
  <2>3. Bound(p, c)' => Bound(p, c)
    BY <1>1, <1>2, <1>3, <2>1 DEF Bound, Joined, Closed
  <2> QED
    BY <2>2, <2>3 DEF Goes, Stirs
<1>12. Goes(e, id) /\ Goes(p, id)
  BY <1>8, <1>9 DEF Goes
<1> QED
  BY <1>2, <1>10, <1>11, <1>12 DEF AllGo

LEMMA OpenBiGoes ==
    ASSUME SInv, NEW e \in End, OpenBi(e)
    PROVE  AllGo
<1>1. PICK k, id : k = ep[e] /\ id = k.nextLocal
  OBVIOUS
<1>2. /\ Types /\ IsEnd(e, k) /\ DOMAIN k = Fields /\ id \in Ch /\ hist' = hist
  BY <1>1, OwnIs DEF OpenBi
<1>3. DOMAIN k.asm = Ch /\ DOMAIN k.out = Ch /\ DOMAIN k.unacked = Ch
  BY <1>2 DEF IsEnd
<1>4. Idle(k, wire[e], id)
  BY <1>1, <1>2, UnusedTells
<1>5. PICK m : m = [k EXCEPT !.nextLocal = @ + 2]
  OBVIOUS
<1>6. /\ DOMAIN m = Fields /\ m.chans = k.chans /\ m.reason = k.reason
      /\ m.out = k.out /\ m.asm = k.asm /\ m.unacked = k.unacked /\ m.urgent = k.urgent
      /\ m.send = k.send /\ m.todo = k.todo /\ m.held = k.held
  BY <1>1, <1>2, <1>5 DEF Fields
<1>7. \/ Becomes(e, m)
      \/ Becomes(e, [InsertChannel(m, id) EXCEPT !.out[id] = Append(@, OpenSeg(id))])
  BY <1>1, <1>5 DEF OpenBi
<1>8. ASSUME NEW n, Becomes(e, n), Starts(k, n, id)
      PROVE  AllGo
  <2>1. Reaches(e, n)
    BY <1>2, <1>8, BecomesIs
  <2> QED
    BY <1>1, <1>2, <1>8, <2>1, StartsGoes
<1>9. k.out[id] = <<>>
  BY <1>4 DEF Idle, Silent
<1>10. CASE Becomes(e, m)
  <2>1. \A c \in Ch : SameSender(k, m, c)
    BY <1>6 DEF SameSender
  <2>2. Bodies(m.out[id], id) = <<>>
    BY <1>6, <1>9, BodiesEmpty
  <2>3. Starts(k, m, id)
    BY <1>6, <2>1, <2>2 DEF Starts
  <2> QED
    BY <1>8, <1>10, <2>3
<1>11. ASSUME NEW n, Becomes(e, n),
              n = [InsertChannel(m, id) EXCEPT !.out[id] = Append(@, OpenSeg(id))]
       PROVE  AllGo
  <2>1. PICK o : o = InsertChannel(m, id)
    OBVIOUS
  <2>2. /\ DOMAIN o = Fields /\ o.reason = m.reason /\ o.urgent = m.urgent
        /\ o.chans = m.chans \cup {id} /\ o.out = m.out /\ o.todo = m.todo /\ o.held = m.held
        /\ o.send = m.send \cup {id}
        /\ o.asm = [m.asm EXCEPT ![id] = <<>>] /\ o.unacked = [m.unacked EXCEPT ![id] = 0]
    BY <1>6, <2>1 DEF InsertChannel, Fields
  <2>3. /\ n.reason = o.reason /\ n.chans = o.chans /\ n.urgent = o.urgent
        /\ n.todo = o.todo /\ n.held = o.held /\ n.send = o.send
        /\ n.asm = o.asm /\ n.unacked = o.unacked
        /\ n.out = [o.out EXCEPT ![id] = Append(@, OpenSeg(id))]
    BY <1>11, <2>1, <2>2 DEF Fields
  <2>4. /\ n.out[id] = Append(k.out[id], OpenSeg(id))
        /\ \A c \in Ch : c # id => /\ n.out[c] = k.out[c] /\ n.unacked[c] = k.unacked[c]
                                   /\ n.asm[c] = k.asm[c]
    BY <1>2, <1>3, <1>6, <2>2, <2>3
  <2>5. \A c \in Ch : c # id => SameSender(k, n, c)
    BY <1>6, <2>2, <2>3, <2>4 DEF SameSender
  <2>6. Bodies(n.out[id], id) = <<>>
    <3>1. PICK s : s = OpenSeg(id)
      OBVIOUS
    <3>2. s \in Segment /\ s.kind # "DATA"
      BY <1>2, <3>1 DEF Segment, OpenSeg
    <3>3. Bodies(<<s>>, id) = Body(s, id)
      BY <3>2, BodiesOne
    <3>4. Body(s, id) = <<>>
      BY <3>2, BodyIs
    <3>5. n.out[id] = <<s>>
      BY <1>9, <2>4, <3>1
    <3> QED
      BY <3>3, <3>4, <3>5
  <2>7. /\ n.reason = k.reason /\ n.todo = k.todo /\ n.held = k.held /\ n.urgent = k.urgent
    BY <1>6, <2>2, <2>3
  <2>8. Starts(k, n, id)
    BY <2>4, <2>5, <2>6, <2>7 DEF Starts
  <2> QED
    BY <1>8, <1>11, <2>8
<1> QED
  BY <1>7, <1>10, <1>11
-----------------------------------------------------------------------------
(* Every step.                                                             *)

LEMMA NextGoes ==
    ASSUME SInv, [Next]_vars
    PROVE  AllGo
<1>1. CASE UNCHANGED vars
  <2>1. ep' = ep /\ wire' = wire /\ alive' = alive /\ hist' = hist
    BY <1>1 DEF vars
  <2>2. \A e \in End : hist'[e].frames = hist[e].frames
    BY <2>1
  <2> QED
    BY <2>1, <2>2, StayGoes
<1>2. CASE Cut
  <2>1. PICK e \in End : TRUE
    BY DEF End
  <2> QED
    BY <1>2, <2>1, LinkGoes
<1>3. ASSUME NEW e \in End,
             \/ OpenBi(e) \/ AcceptBi(e) \/ CloseMux(e) \/ DropMux(e)
             \/ WriterTakes(e) \/ WriterExits(e) \/ WriterFails(e)
             \/ ReaderTakes(e) \/ ReaderEof(e) \/ ReaderFails(e)
      PROVE  AllGo
  <2>0. "clean" # "none" /\ "ConnectionLost" # "none"
    OBVIOUS
  <2>1. CASE OpenBi(e)
    BY <2>1, OpenBiGoes
  <2>2. CASE AcceptBi(e)
    BY <2>2, AcceptGoes
  <2>3. CASE CloseMux(e)
    BY <2>0, <2>3, EndsGoes DEF CloseMux
  <2>4. CASE DropMux(e)
    BY <2>4, DropMuxGoes
  <2>5. CASE WriterTakes(e)
    BY <2>5, WriterTakesGoes
  <2>6. CASE WriterExits(e)
    BY <2>6, LinkGoes
  <2>7. CASE WriterFails(e)
    BY <2>0, <2>7, EndsGoes DEF WriterFails
  <2>8. CASE ReaderTakes(e)
    BY <2>8, ReaderTakesGoes
  <2>9. CASE ReaderEof(e)
    BY <2>0, <2>9, EndsGoes DEF ReaderEof
  <2>10. CASE ReaderFails(e)
    BY <2>0, <2>10, EndsGoes DEF ReaderFails
  <2> QED
    BY <1>3, <2>1, <2>2, <2>3, <2>4, <2>5, <2>6, <2>7, <2>8, <2>9, <2>10
<1>4. ASSUME NEW e \in End, NEW c \in Ch,
             \/ \E len \in FrameLens : BeginSend(e, c, len)
             \/ AcquireCredit(e, c) \/ PushData(e, c) \/ SendFails(e, c)
             \/ RecvFrame(e, c) \/ RecvCredit(e, c) \/ RecvEnd(e, c)
             \/ Finish(e, c) \/ DropSend(e, c) \/ DropRecv(e, c)
      PROVE  AllGo
  <2>1. CASE \E len \in FrameLens : BeginSend(e, c, len)
    BY <2>1, BeginSendGoes
  <2>2. CASE AcquireCredit(e, c)
    BY <2>2, AcquireGoes
  <2>3. CASE PushData(e, c)
    BY <2>3, PushGoes
  <2>4. CASE SendFails(e, c)
    BY <2>4, SendFailsGoes
  <2>5. CASE RecvFrame(e, c)
    BY <2>5, RecvFrameGoes
  <2>6. CASE RecvCredit(e, c)
    BY <2>6, RecvCreditGoes
  <2>7. CASE RecvEnd(e, c)
    BY <2>7, RecvEndGoes
  <2>8. CASE Finish(e, c) \/ DropSend(e, c) \/ DropRecv(e, c)
    BY <2>8, ShedsGoes
  <2> QED
    BY <1>4, <2>1, <2>2, <2>3, <2>4, <2>5, <2>6, <2>7, <2>8
<1> QED
  BY <1>1, <1>2, <1>3, <1>4, NextIs

\* Linked and Bound are the same.
Meant == \A e \in End, c \in Ch : Linked(e, c) <=> Bound(e, c)

LEMMA MeantIs == Types => Meant
BY LinkedIsJoined DEF Meant, Bound

\* The totals of CreditFlow are those of the figures; and the frames of every
\* channel are in line.
Told == \A e \in End, c \in Ch : Linked(e, c) /\ Shown(e, c) => Totals(e, c, Figure(e, c))
AllShown == \A e \in End, c \in Ch : Shown(e, c)
AllInLine == \A e \in End, c \in Ch : InLine(e, c)

FlowStep == \A e \in End, c \in Ch : [Flow(e, c)!Next]_(Flow(e, c)!vars)

LEMMA GoesFlow ==
    ASSUME AllGo, Meant, Meant', AllShown, AllShown', Told, Told', AllInLine
    PROVE  FlowStep /\ AllInLine'
<1>1. ASSUME NEW e \in End, NEW c \in Ch
      PROVE  [Flow(e, c)!Next]_(Flow(e, c)!vars) /\ InLine(e, c)'
  <2>1. (Linked(e, c) <=> Bound(e, c)) /\ (Linked(e, c)' <=> Bound(e, c)')
    BY DEF Meant
  <2>2. Passes(e, c)
    BY <2>1 DEF AllGo, Goes, Passes
  <2>3. Shown(e, c) /\ Shown(e, c)' /\ InLine(e, c)
    BY DEF AllShown, AllInLine
  <2>4. \A d \in End, k \in Ch : Linked(d, k) /\ Shown(d, k) => Totals(d, k, Figure(d, k))
    BY DEF Told
  <2>5. (\A d \in End, k \in Ch : Linked(d, k) /\ Shown(d, k) => Totals(d, k, Figure(d, k)))'
    BY DEF Told
  <2> QED
    BY <2>2, <2>3, <2>4, <2>5, PassesFlow
<1> QED
  BY <1>1 DEF FlowStep, AllInLine

\* At first there is no channel, and nothing to count.
LEMMA InitFlows ==
    ASSUME Init
    PROVE  (\A e \in End, c \in Ch : Flow(e, c)!Init) /\ AllInLine
<1>1. ASSUME NEW e \in End, NEW c \in Ch PROVE ~Linked(e, c)
  <2>1. ep[e].chans = {}
    BY DEF Init
  <2> QED
    BY <2>1 DEF Linked
<1> QED
  BY <1>1, BeginsFlow DEF AllInLine, InLine

\* Every step of the multiplexer is, on each channel and in each direction, a
\* step of the flow control it promises, or does not touch it: bytes are paid
\* for before they are queued, queued before they arrive, given back once, after
\* they arrived, and a channel starts with nothing in flight (push_data,
\* return_credit, take_next, MuxSend::send, peer_data and peer_window,
\* mux.rs:445-474, 511-548, 620-645, 1067-1150).
THEOREM FlowImplemented == Spec => ImplementsFlow
<1> DEFINE FlowBegin == \A e \in End, c \in Ch : Flow(e, c)!Init
<1>1. Init => FlowBegin /\ AllInLine
  BY InitFlows
<1>2. SInv => Meant /\ AllShown
  BY MeantIs, FiguresShow DEF SInv, IInv, AllShown
<1>3. Told
  BY TotalsAre DEF Told
<1>4. SInv /\ [Next]_vars => AllGo
  BY NextGoes
<1>5. AllGo /\ Meant /\ Meant' /\ AllShown /\ AllShown' /\ Told /\ Told' /\ AllInLine
        => FlowStep /\ AllInLine'
  BY GoesFlow
<1>6. Spec => FlowBegin /\ [][FlowStep]_vars
  <2> HIDE DEF FlowBegin
  <2> QED
    BY <1>1, <1>2, <1>3, <1>4, <1>5, StreamsInvariance, PTL DEF Spec
<1> QED
  BY <1>6 DEF ImplementsFlow, FlowStep
=============================================================================
