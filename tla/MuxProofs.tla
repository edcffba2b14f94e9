------------------------------ MODULE MuxProofs ------------------------------
(***************************************************************************)
(* The books of the multiplexer agree, and the frames of each channel      *)
(* arrive whole, in order and all of them before its end, for any window,  *)
(* any segment and frame length, any number of channels and frames, any    *)
(* memory of retired ids and whatever the applications and the network do; *)
(* and no wakeup of its writer is lost, for any number of producers and    *)
(* any size of batch.                                                      *)
(***************************************************************************)
EXTENDS MuxFlow, MuxWriter, FiniteSetTheorems, SequenceTheorems, WellFoundedInduction, TLAPS

Fields == {"reason", "nextLocal", "chans", "retired", "acceptQ", "urgent", "out",
           "cursor", "credit", "asm", "unacked", "rx", "send", "recv", "todo",
           "held", "taken"}

Byte == [frame : Nat, at : Nat, of : 1 .. MaxFrame]
Frame == {f \in Seq(Byte) : Len(f) \in 1 .. MaxFrame}
Segment ==
    {s \in [kind : {"OPEN", "DATA", "WINDOW", "RESET"}, ch : Ch, body : Seq(Byte), n : Nat] :
       s.kind = "DATA" => s.n = Len(s.body)}

\* Ids of even number belong to the initiator, odd ones to the responder.
Own(e, c) == c % 2 = FirstChannel(e)

Updates == {s \in Segment : s.kind = "WINDOW"}
Sendable(e, c) ==
    {s \in Segment : s.ch = c /\ s.kind # "WINDOW" /\ (s.kind = "OPEN" => Own(e, c))}
Written(e) == {s \in Segment : s.kind = "OPEN" => Own(e, s.ch)}

\* One end by itself: what its fields hold, that a retired id is not in use,
\* and that bytes which arrived and were not given back are accounted for.
IsEnd(e, m) ==
    /\ DOMAIN m = Fields
    /\ m.nextLocal \in Nat /\ Own(e, m.nextLocal)
    /\ m.chans \subseteq Ch /\ m.send \subseteq Ch /\ m.recv \subseteq Ch
    /\ m.reason # "none" => m.chans = {}
    /\ m.retired \in Seq(Ch) /\ m.acceptQ \in Seq(Ch)
    /\ m.urgent \in Seq(Updates)
    /\ DOMAIN m.out = Ch /\ \A c \in Ch : m.out[c] \in Seq(Sendable(e, c))
    /\ m.credit \in [Ch -> 0 .. Window]
    /\ m.unacked \in [Ch -> 0 .. Window]
    /\ m.taken \in [Ch -> 0 .. MaxFrame]
    /\ m.asm \in [Ch -> Seq(Byte)] /\ m.rx \in [Ch -> Seq(Frame)]
    /\ m.todo \in [Ch -> Seq(Byte)] /\ m.held \in [Ch -> Seq(Byte)]

NotRetired(m) == m.chans \cap Range(m.retired) = {}

Unread(m, c) == Len(m.asm[c]) + Total(m.rx[c]) + m.taken[c]
Accounted(m) == \A c \in Ch : Unread(m, c) <= m.unacked[c]

Local(e, m) == IsEnd(e, m) /\ NotRetired(m) /\ Accounted(m)

Histories ==
    /\ DOMAIN hist = End
    /\ \A e \in End : /\ DOMAIN hist[e] = {"frames", "got", "ended", "givenUp", "closedHere", "torn"}
                      /\ hist[e].frames \in [Ch -> Seq(Nat)]

Flags ==
    /\ fin \in [End -> {"up", "eof", "cut"}]
    /\ alive \in [End -> BOOLEAN]
    /\ Histories

Types ==
    /\ DOMAIN ep = End /\ \A e \in End : Local(e, ep[e])
    /\ DOMAIN wire = End /\ \A e \in End : wire[e] \in Seq(Written(e))
    /\ Flags

\* A segment of channel c that is no window update: it moves the channel on.
Moving(s, c) == s.ch = c /\ s.kind # "WINDOW"
IsOpen(s, c) == s.ch = c /\ s.kind = "OPEN"

\* The OPEN of c is on its way.
Announced(m, w, c) ==
    \/ \E i \in DOMAIN m.out[c] : IsOpen(m.out[c][i], c)
    \/ \E i \in DOMAIN w : IsOpen(w[i], c)

\* It travels ahead of everything else about its channel.
OpenLeads(m, w, c) ==
    /\ \A i \in DOMAIN m.out[c] : IsOpen(m.out[c][i], c) =>
         i = 1 /\ \A j \in DOMAIN w : ~Moving(w[j], c)
    /\ \A i, j \in DOMAIN w : i < j /\ IsOpen(w[j], c) => ~Moving(w[i], c)

\* Nobody holds c at this end, and nothing was sent on it.
Silent(m, c) ==
    /\ c \notin m.chans /\ c \notin m.send /\ c \notin m.recv
    /\ m.todo[c] = <<>> /\ m.held[c] = <<>> /\ m.taken[c] = 0
    /\ m.out[c] = <<>>
Idle(m, w, c) == Silent(m, c) /\ \A i \in DOMAIN w : ~Moving(w[i], c)

\* Nor was anything received.
NoUpdate(q, c) == \A i \in DOMAIN q : ~(q[i].ch = c /\ q[i].kind = "WINDOW")
Untold(m, c) == m.unacked[c] = 0 /\ NoUpdate(m.urgent, c)
Unheard(m, w, c) == Untold(m, c) /\ NoUpdate(w, c)

\* An id e has not used yet, and one whose OPEN has not arrived.
Unused(e, c) == Own(e, c) /\ c >= ep[e].nextLocal
Hidden(e, c) == Own(e, c) /\ (c >= ep[e].nextLocal \/ Announced(ep[e], wire[e], c))

Order == \A e \in End, c \in Ch : OpenLeads(ep[e], wire[e], c)
UnusedIdle == \A e \in End, c \in Ch : Unused(e, c) => Idle(ep[e], wire[e], c)
HiddenIdle ==
    \A e \in End, c \in Ch : Hidden(e, c) =>
      /\ Idle(ep[Peer(e)], wire[Peer(e)], c)
      /\ Unheard(ep[Peer(e)], wire[Peer(e)], c)
      /\ Unheard(ep[e], wire[e], c)

\* What one end has of the window of a channel it sends on, and of one it
\* receives on; the rest is on the wire.
Stake(m, c) == m.credit[c] + Len(m.held[c]) + SumOf(m.out[c], c, "DATA")
Debt(m, c) == m.unacked[c] + SumOf(m.urgent, c, "WINDOW")

Joined(e, c) ==
    LET p == Peer(e)
    IN  /\ c \in ep[e].chans
        /\ alive[e] /\ alive[p] /\ ~Closed(ep[p])
        /\ c \in ep[p].chans \/ (Own(e, c) /\ Announced(ep[e], wire[e], c))

Balanced(e, c) ==
    Stake(ep[e], c) + SumOf(wire[e], c, "DATA")
      + Debt(ep[Peer(e)], c) + SumOf(wire[Peer(e)], c, "WINDOW") = Window

Conserved == \A e \in End, c \in Ch : Joined(e, c) => Balanced(e, c)

IInv == Types /\ Order /\ UnusedIdle /\ HiddenIdle /\ Conserved
-----------------------------------------------------------------------------
(* Sums over sequences. *)

LEMMA UnitsFinite ==
    ASSUME NEW f \in Seq(Nat)
    PROVE  IsFiniteSet(Units(f)) /\ Amount(f) \in Nat
<1> DEFINE D == 1 .. Len(f)
           B == [i \in D |-> {i} \X (1 .. f[i])]
           T == {B[i] : i \in D}
<1>1. Len(f) \in Nat /\ DOMAIN f = D /\ \A i \in D : f[i] \in Nat
  OBVIOUS
<1>2. IsFiniteSet(D)
  BY <1>1, FS_Interval
<1>3. IsFiniteSet(T)
  <2>1. B \in Surjection(D, T)
    BY DEF Surjection
  <2> HIDE DEF B, T
  <2> QED
    BY <1>2, <2>1, FS_Surjection
<1>4. \A X \in T : IsFiniteSet(X)
  <2> SUFFICES ASSUME NEW i \in D PROVE IsFiniteSet({i} \X (1 .. f[i]))
    OBVIOUS
  <2>1. IsFiniteSet({i})
    BY FS_Singleton
  <2>2. IsFiniteSet(1 .. f[i])
    BY <1>1, FS_Interval
  <2> QED
    BY <2>1, <2>2, FS_Product
<1>5. Units(f) = UNION T
  BY <1>1 DEF Units
<1> HIDE DEF T
<1>6. IsFiniteSet(Units(f))
  BY <1>3, <1>4, <1>5, FS_UNION
<1> QED
  BY <1>6, FS_CardinalityType DEF Amount

LEMMA UnitIs ==
    ASSUME NEW f \in Seq(Nat)
    PROVE  \A u : u \in Units(f) <=>
             /\ u = <<u[1], u[2]>> /\ u[1] \in 1 .. Len(f) /\ u[2] \in 1 .. f[u[1]]
<1>1. DOMAIN f = 1 .. Len(f)
  OBVIOUS
<1> QED
  BY <1>1 DEF Units

LEMMA AmountConcat ==
    ASSUME NEW f \in Seq(Nat), NEW g \in Seq(Nat)
    PROVE  /\ f \o g \in Seq(Nat)
           /\ Amount(f \o g) = Amount(f) + Amount(g)
<1> DEFINE n == Len(f)
           h == f \o g
           V == {u \in Units(h) : u[1] > n}
           shift == [u \in Units(g) |-> <<u[1] + n, u[2]>>]
<1>1. /\ h \in Seq(Nat) /\ Len(h) = n + Len(g) /\ n \in Nat /\ Len(g) \in Nat
      /\ \A i \in 1 .. Len(h) : h[i] = IF i <= n THEN f[i] ELSE g[i - n]
  BY ConcatProperties
<1>2. Units(h) = Units(f) \cup V
  <2> HIDE DEF h
  <2>1. ASSUME NEW u \in Units(h), u \notin V PROVE u \in Units(f)
    <3>1. u = <<u[1], u[2]>> /\ u[1] \in 1 .. Len(h) /\ u[2] \in 1 .. h[u[1]]
      BY <1>1, UnitIs
    <3>2. u[1] \in 1 .. n /\ h[u[1]] = f[u[1]]
      BY <1>1, <2>1, <3>1
    <3> QED
      BY <3>1, <3>2, UnitIs
  <2>2. ASSUME NEW u \in Units(f) PROVE u \in Units(h)
    <3>1. u = <<u[1], u[2]>> /\ u[1] \in 1 .. Len(f) /\ u[2] \in 1 .. f[u[1]]
      BY UnitIs
    <3>2. u[1] \in 1 .. Len(h) /\ h[u[1]] = f[u[1]]
      BY <1>1, <3>1
    <3> QED
      BY <1>1, <3>1, <3>2, UnitIs
  <2> QED
    BY <2>1, <2>2
<1>3. Units(f) \cap V = {}
  BY <1>1, UnitIs
<1>4. shift \in Bijection(Units(g), V)
  <2>1. ASSUME NEW u \in Units(g) PROVE <<u[1] + n, u[2]>> \in V
    <3>1. u[1] \in 1 .. Len(g) /\ u[2] \in 1 .. g[u[1]]
      BY UnitIs
    <3> HIDE DEF h, n
    <3>2. PICK k \in Nat : k = u[1]
      BY <1>1, <3>1
    <3>3. PICK b \in Nat : b = Len(g) /\ Len(h) = n + b /\ n \in Nat /\ k \in 1 .. b
      BY <1>1, <3>1, <3>2
    <3>4. k + n \in 1 .. n + b /\ k + n > n /\ ~(k + n <= n) /\ (k + n) - n = k
      BY <3>2, <3>3
    <3>5. h[k + n] = g[k]
      BY <1>1, <3>3, <3>4
    <3>6. <<k + n, u[2]>>[1] = k + n /\ <<k + n, u[2]>>[2] = u[2]
      OBVIOUS
    <3>7. <<k + n, u[2]>> \in Units(h)
      BY <1>1, <3>1, <3>2, <3>3, <3>4, <3>5, <3>6, UnitIs
    <3> QED
      BY <3>2, <3>4, <3>6, <3>7
  <2>2. ASSUME NEW u \in Units(g), NEW v \in Units(g), shift[u] = shift[v] PROVE u = v
    <3>1. /\ u = <<u[1], u[2]>> /\ v = <<v[1], v[2]>>
          /\ u[1] \in 1 .. Len(g) /\ v[1] \in 1 .. Len(g)
      BY UnitIs
    <3>2. u[1] + n = v[1] + n /\ u[2] = v[2]
      BY <2>2
    <3> QED
      BY <1>1, <3>1, <3>2
  <2>3. ASSUME NEW v \in V PROVE \E u \in Units(g) : shift[u] = v
    <3>1. /\ v = <<v[1], v[2]>> /\ v[1] \in 1 .. Len(h) /\ v[2] \in 1 .. h[v[1]]
          /\ v[1] > n
      BY <1>1, UnitIs
    <3>2. v[1] - n \in 1 .. Len(g) /\ h[v[1]] = g[v[1] - n]
      BY <1>1, <3>1
    <3>3. <<v[1] - n, v[2]>> \in Units(g)
      BY <3>1, <3>2, UnitIs
    <3>4. shift[<<v[1] - n, v[2]>>] = v
      BY <1>1, <3>1, <3>3
    <3> QED
      BY <3>3, <3>4
  <2>4. shift \in [Units(g) -> V]
    BY <2>1
  <2> HIDE DEF shift, V
  <2> QED
    BY <2>2, <2>3, <2>4 DEF Bijection, Injection, Surjection, IsInjective
<1> HIDE DEF V, shift
<1>5. IsFiniteSet(Units(f)) /\ IsFiniteSet(Units(g)) /\ Amount(f) \in Nat /\ Amount(g) \in Nat
  BY UnitsFinite
<1>6. IsFiniteSet(V) /\ Cardinality(V) = Amount(g)
  BY <1>4, <1>5, FS_Bijection DEF ExistsBijection, Amount
<1>7. Amount(h) = Amount(f) + Amount(g) - Cardinality({})
  BY <1>2, <1>3, <1>5, <1>6, FS_Union DEF Amount
<1> QED
  BY <1>1, <1>5, <1>7, FS_EmptySet

LEMMA AmountOne ==
    ASSUME NEW n \in Nat
    PROVE  <<n>> \in Seq(Nat) /\ Amount(<<n>>) = n
<1>1. <<n>> \in Seq(Nat) /\ Len(<<n>>) = 1 /\ <<n>>[1] = n /\ DOMAIN <<n>> = {1}
  OBVIOUS
<1>2. Units(<<n>>) = {1} \X (1 .. n)
  BY <1>1 DEF Units
<1>3. IsFiniteSet({1}) /\ Cardinality({1}) = 1
  BY FS_Singleton
<1>4. IsFiniteSet(1 .. n) /\ Cardinality(1 .. n) = n
  BY FS_Interval
<1>5. Cardinality({1} \X (1 .. n)) = 1 * n
  BY <1>3, <1>4, FS_Product
<1>6. 1 * n = n
  OBVIOUS
<1> QED
  BY <1>1, <1>2, <1>5, <1>6 DEF Amount

LEMMA AmountZero ==
    ASSUME NEW f \in Seq(Nat), \A i \in DOMAIN f : f[i] = 0
    PROVE  Amount(f) = 0
<1>1. Units(f) = {}
  BY DEF Units
<1> QED
  BY <1>1, FS_EmptySet DEF Amount

Worth(s, c, kind) == IF s.ch = c /\ s.kind = kind THEN s.n ELSE 0

LEMMA WorthIs ==
    ASSUME NEW s \in Segment, NEW c, NEW kind
    PROVE  Worth(s, c, kind) \in Nat
BY DEF Worth, Segment

LEMMA SumType ==
    ASSUME NEW q \in Seq(Segment), NEW c, NEW kind
    PROVE  /\ [i \in DOMAIN q |-> Worth(q[i], c, kind)] \in Seq(Nat)
           /\ SumOf(q, c, kind) = Amount([i \in DOMAIN q |-> Worth(q[i], c, kind)])
           /\ SumOf(q, c, kind) \in Nat
<1>1. /\ Len(q) \in Nat /\ DOMAIN q = 1 .. Len(q)
      /\ \A i \in 1 .. Len(q) : q[i] \in Segment
  OBVIOUS
<1>2. \A i \in 1 .. Len(q) : Worth(q[i], c, kind) \in Nat
  BY <1>1, WorthIs
<1>3. [i \in DOMAIN q |-> Worth(q[i], c, kind)] \in Seq(Nat)
  BY <1>1, <1>2
<1>4. SumOf(q, c, kind) = Amount([i \in DOMAIN q |-> Worth(q[i], c, kind)])
  BY DEF SumOf, Worth
<1> QED
  BY <1>3, <1>4, UnitsFinite

LEMMA SumConcat ==
    ASSUME NEW q \in Seq(Segment), NEW r \in Seq(Segment), NEW c, NEW kind
    PROVE  SumOf(q \o r, c, kind) = SumOf(q, c, kind) + SumOf(r, c, kind)
<1> DEFINE w(s) == [i \in DOMAIN s |-> Worth(s[i], c, kind)]
<1>1. q \o r \in Seq(Segment)
  BY ConcatProperties
<1>2. /\ w(q) \in Seq(Nat) /\ w(r) \in Seq(Nat) /\ w(q \o r) \in Seq(Nat)
      /\ SumOf(q, c, kind) = Amount(w(q)) /\ SumOf(r, c, kind) = Amount(w(r))
      /\ SumOf(q \o r, c, kind) = Amount(w(q \o r))
  BY <1>1, SumType
<1>3. w(q) \o w(r) \in Seq(Nat) /\ Amount(w(q) \o w(r)) = Amount(w(q)) + Amount(w(r))
  BY <1>2, AmountConcat
<1>4. w(q \o r) = w(q) \o w(r)
  <2>1. /\ Len(q) \in Nat /\ Len(r) \in Nat
        /\ DOMAIN q = 1 .. Len(q) /\ DOMAIN r = 1 .. Len(r)
        /\ DOMAIN (q \o r) = 1 .. Len(q) + Len(r)
        /\ Len(w(q)) = Len(q) /\ Len(w(r)) = Len(r) /\ Len(w(q \o r)) = Len(q) + Len(r)
    BY <1>1, ConcatProperties
  <2>2. ASSUME NEW i \in 1 .. Len(q) + Len(r) PROVE w(q \o r)[i] = (w(q) \o w(r))[i]
    <3>1. (q \o r)[i] = IF i <= Len(q) THEN q[i] ELSE r[i - Len(q)]
      BY ConcatProperties
    <3>2. (w(q) \o w(r))[i] = IF i <= Len(q) THEN w(q)[i] ELSE w(r)[i - Len(q)]
      BY <1>2, <2>1, ConcatProperties
    <3>3. w(q \o r)[i] = Worth((q \o r)[i], c, kind)
      BY <2>1
    <3>4. CASE i <= Len(q)
      BY <2>1, <3>1, <3>2, <3>3, <3>4
    <3>5. CASE ~(i <= Len(q))
      BY <2>1, <3>1, <3>2, <3>3, <3>5
    <3> QED
      BY <3>4, <3>5
  <2>3. Len(w(q) \o w(r)) = Len(q) + Len(r)
    BY <1>2, <2>1, ConcatProperties
  <2> HIDE DEF w
  <2> QED
    BY <1>2, <1>3, <2>1, <2>2, <2>3, SeqEqual
<1> QED
  BY <1>2, <1>3, <1>4

LEMMA SumOne ==
    ASSUME NEW s \in Segment, NEW c, NEW kind
    PROVE  SumOf(<<s>>, c, kind) = Worth(s, c, kind)
<1>1. <<s>> \in Seq(Segment) /\ DOMAIN <<s>> = {1} /\ <<s>>[1] = s
  OBVIOUS
<1>2. [i \in DOMAIN <<s>> |-> Worth(<<s>>[i], c, kind)] = <<Worth(s, c, kind)>>
  BY <1>1
<1>3. SumOf(<<s>>, c, kind) = Amount([i \in DOMAIN <<s>> |-> Worth(<<s>>[i], c, kind)])
  BY <1>1, SumType
<1>4. Amount(<<Worth(s, c, kind)>>) = Worth(s, c, kind)
  BY WorthIs, AmountOne
<1> QED
  BY <1>2, <1>3, <1>4

LEMMA SumAppend ==
    ASSUME NEW q \in Seq(Segment), NEW s \in Segment, NEW c, NEW kind
    PROVE  SumOf(Append(q, s), c, kind) = SumOf(q, c, kind) + Worth(s, c, kind)
<1> DEFINE r == <<s>>
<1>1. Append(q, s) = q \o r /\ r \in Seq(Segment)
  OBVIOUS
<1>3. SumOf(r, c, kind) = Worth(s, c, kind)
  BY SumOne
<1> HIDE DEF r
<1>2. SumOf(q \o r, c, kind) = SumOf(q, c, kind) + SumOf(r, c, kind)
  BY <1>1, SumConcat
<1> QED
  BY <1>1, <1>2, <1>3

LEMMA SumHeadTail ==
    ASSUME NEW q \in Seq(Segment), q # <<>>, NEW c, NEW kind
    PROVE  SumOf(q, c, kind) = Worth(Head(q), c, kind) + SumOf(Tail(q), c, kind)
<1>1. Head(q) \in Segment /\ Tail(q) \in Seq(Segment)
  BY HeadTailProperties
<1> DEFINE r == <<Head(q)>>
           t == Tail(q)
<1>2. q = r \o t /\ r \in Seq(Segment) /\ t \in Seq(Segment)
  BY <1>1
<1>3. SumOf(r, c, kind) = Worth(Head(q), c, kind)
  BY <1>1, SumOne
<1> HIDE DEF r, t
<1>4. SumOf(r \o t, c, kind) = SumOf(r, c, kind) + SumOf(t, c, kind)
  BY <1>2, SumConcat
<1> QED
  BY <1>2, <1>3, <1>4 DEF t

LEMMA SumZero ==
    ASSUME NEW q \in Seq(Segment), NEW c, NEW kind,
           \A i \in DOMAIN q : ~(q[i].ch = c /\ q[i].kind = kind)
    PROVE  SumOf(q, c, kind) = 0
<1> DEFINE w == [i \in DOMAIN q |-> Worth(q[i], c, kind)]
<1>1. w \in Seq(Nat) /\ SumOf(q, c, kind) = Amount(w)
  BY SumType
<1>2. \A i \in DOMAIN w : w[i] = 0
  BY DEF Worth
<1> HIDE DEF w
<1> QED
  BY <1>1, <1>2, AmountZero

LEMMA SumEmpty ==
    ASSUME NEW c, NEW kind
    PROVE  SumOf(<<>>, c, kind) = 0
<1>1. <<>> \in Seq(Segment)
  BY EmptySeq
<1>2. \A i \in DOMAIN <<>> : ~(<<>>[i].ch = c /\ <<>>[i].kind = kind)
  OBVIOUS
<1> QED
  BY <1>1, <1>2, SumZero

LEMMA TotalType ==
    ASSUME NEW S, NEW q \in Seq(Seq(S))
    PROVE  /\ [i \in DOMAIN q |-> Len(q[i])] \in Seq(Nat)
           /\ Total(q) \in Nat
<1>1. /\ Len(q) \in Nat /\ DOMAIN q = 1 .. Len(q)
      /\ \A i \in 1 .. Len(q) : q[i] \in Seq(S)
  OBVIOUS
<1>2. \A i \in 1 .. Len(q) : Len(q[i]) \in Nat
  BY <1>1
<1>3. [i \in DOMAIN q |-> Len(q[i])] \in Seq(Nat)
  BY <1>1, <1>2
<1> QED
  BY <1>3, UnitsFinite DEF Total

LEMMA TotalConcat ==
    ASSUME NEW S, NEW q \in Seq(Seq(S)), NEW r \in Seq(Seq(S))
    PROVE  q \o r \in Seq(Seq(S)) /\ Total(q \o r) = Total(q) + Total(r)
<1> DEFINE w(s) == [i \in DOMAIN s |-> Len(s[i])]
<1>1. q \o r \in Seq(Seq(S))
  BY ConcatProperties
<1>2. w(q) \in Seq(Nat) /\ w(r) \in Seq(Nat) /\ w(q \o r) \in Seq(Nat)
  BY <1>1, TotalType
<1>3. w(q) \o w(r) \in Seq(Nat) /\ Amount(w(q) \o w(r)) = Amount(w(q)) + Amount(w(r))
  BY <1>2, AmountConcat
<1>4. w(q \o r) = w(q) \o w(r)
  <2>1. /\ Len(q) \in Nat /\ Len(r) \in Nat
        /\ DOMAIN q = 1 .. Len(q) /\ DOMAIN r = 1 .. Len(r)
        /\ DOMAIN (q \o r) = 1 .. Len(q) + Len(r)
        /\ Len(w(q)) = Len(q) /\ Len(w(r)) = Len(r) /\ Len(w(q \o r)) = Len(q) + Len(r)
    BY <1>1, ConcatProperties
  <2>2. ASSUME NEW i \in 1 .. Len(q) + Len(r) PROVE w(q \o r)[i] = (w(q) \o w(r))[i]
    <3>1. (q \o r)[i] = IF i <= Len(q) THEN q[i] ELSE r[i - Len(q)]
      BY ConcatProperties
    <3>2. (w(q) \o w(r))[i] = IF i <= Len(q) THEN w(q)[i] ELSE w(r)[i - Len(q)]
      BY <1>2, <2>1, ConcatProperties
    <3>3. w(q \o r)[i] = Len((q \o r)[i])
      BY <2>1
    <3>4. CASE i <= Len(q)
      BY <2>1, <3>1, <3>2, <3>3, <3>4
    <3>5. CASE ~(i <= Len(q))
      BY <2>1, <3>1, <3>2, <3>3, <3>5
    <3> QED
      BY <3>4, <3>5
  <2>3. Len(w(q) \o w(r)) = Len(q) + Len(r)
    BY <1>2, <2>1, ConcatProperties
  <2> HIDE DEF w
  <2> QED
    BY <1>2, <1>3, <2>1, <2>2, <2>3, SeqEqual
<1> QED
  BY <1>1, <1>3, <1>4 DEF Total

LEMMA TotalOne ==
    ASSUME NEW S, NEW f \in Seq(S)
    PROVE  <<f>> \in Seq(Seq(S)) /\ Total(<<f>>) = Len(f)
<1>1. <<f>> \in Seq(Seq(S)) /\ DOMAIN <<f>> = {1} /\ <<f>>[1] = f /\ Len(f) \in Nat
  OBVIOUS
<1>2. [i \in DOMAIN <<f>> |-> Len(<<f>>[i])] = <<Len(f)>>
  BY <1>1
<1> QED
  BY <1>1, <1>2, AmountOne DEF Total

LEMMA TotalEmpty == Total(<<>>) = 0
<1>1. [i \in DOMAIN <<>> |-> Len(<<>>[i])] \in Seq(Nat)
      /\ DOMAIN [i \in DOMAIN <<>> |-> Len(<<>>[i])] = {}
  OBVIOUS
<1> QED
  BY <1>1, AmountZero DEF Total

LEMMA TotalHeadTail ==
    ASSUME NEW S, NEW q \in Seq(Seq(S)), q # <<>>
    PROVE  Total(q) = Len(Head(q)) + Total(Tail(q))
<1>1. Head(q) \in Seq(S) /\ Tail(q) \in Seq(Seq(S))
  BY HeadTailProperties
<1>2. q = <<Head(q)>> \o Tail(q) /\ <<Head(q)>> \in Seq(Seq(S))
  BY <1>1
<1> QED
  BY <1>1, <1>2, TotalConcat, TotalOne
-----------------------------------------------------------------------------
(* What the fields of one end are. *)

LEMMA ConstantsAre ==
    /\ Window \in Nat \ {0} /\ MaxFrame \in Nat \ {0} /\ MaxFrame <= Window
    /\ MaxSeg \in Nat \ {0} /\ RetiredMemory \in Nat \ {0} /\ MaxOpen \in Nat \ {0}
    /\ FrameLens \subseteq 1 .. MaxFrame
BY MuxAssumption

LEMMA ChannelsAre == Ch \subseteq Nat
BY ConstantsAre DEF Ch, FirstChannel, End

LEMMA PeerIs ==
    ASSUME NEW e \in End
    PROVE  /\ Peer(e) \in End /\ Peer(e) # e /\ Peer(Peer(e)) = e
           /\ \A x \in End : x = e \/ x = Peer(e)
           /\ \A c \in Nat : Own(e, c) <=> ~Own(Peer(e), c)
BY DEF End, Peer, Own, FirstChannel

LEMMA SegmentsAre ==
    ASSUME NEW e, NEW c
    PROVE  /\ Updates \subseteq Segment /\ Sendable(e, c) \subseteq Segment
           /\ Written(e) \subseteq Segment
           /\ Seq(Updates) \subseteq Seq(Segment) /\ Seq(Sendable(e, c)) \subseteq Seq(Segment)
           /\ Seq(Written(e)) \subseteq Seq(Segment)
<1>1. Updates \subseteq Segment /\ Sendable(e, c) \subseteq Segment /\ Written(e) \subseteq Segment
  BY DEF Updates, Sendable, Written
<1> QED
  BY <1>1, SeqMonotonic

LEMMA QueuesAre ==
    ASSUME NEW e, NEW m, IsEnd(e, m), NEW c \in Ch
    PROVE  /\ m.urgent \in Seq(Segment) /\ m.out[c] \in Seq(Segment)
           /\ \A i \in DOMAIN m.urgent : m.urgent[i] \in Updates
           /\ \A i \in DOMAIN m.out[c] : m.out[c][i] \in Sendable(e, c)
<1>1. m.urgent \in Seq(Updates) /\ m.out[c] \in Seq(Sendable(e, c))
  BY DEF IsEnd
<1>2. m.urgent \in Seq(Segment) /\ m.out[c] \in Seq(Segment)
  BY <1>1, SegmentsAre
<1> QED
  BY <1>1, <1>2

LEMMA FramesAre == Frame \subseteq Seq(Byte) /\ Seq(Frame) \subseteq Seq(Seq(Byte))
<1>1. Frame \subseteq Seq(Byte)
  BY DEF Frame
<1> QED
  BY <1>1, SeqMonotonic

LEMMA NumbersAre ==
    ASSUME NEW e, NEW m, IsEnd(e, m), NEW c \in Ch
    PROVE  /\ m.credit[c] \in Nat /\ m.unacked[c] \in Nat /\ m.taken[c] \in Nat
           /\ m.credit[c] <= Window /\ m.unacked[c] <= Window /\ m.taken[c] <= MaxFrame
           /\ Len(m.todo[c]) \in Nat /\ Len(m.held[c]) \in Nat /\ Len(m.asm[c]) \in Nat
           /\ Total(m.rx[c]) \in Nat
           /\ SumOf(m.out[c], c, "DATA") \in Nat /\ SumOf(m.urgent, c, "WINDOW") \in Nat
<1>1. m.credit[c] \in 0 .. Window /\ m.unacked[c] \in 0 .. Window /\ m.taken[c] \in 0 .. MaxFrame
  BY DEF IsEnd
<1>2. m.todo[c] \in Seq(Byte) /\ m.held[c] \in Seq(Byte) /\ m.asm[c] \in Seq(Byte)
  BY DEF IsEnd
<1>3. Total(m.rx[c]) \in Nat
  <2>1. m.rx[c] \in Seq(Frame)
    BY DEF IsEnd
  <2> QED
    BY <2>1, FramesAre, TotalType
<1>4. SumOf(m.out[c], c, "DATA") \in Nat /\ SumOf(m.urgent, c, "WINDOW") \in Nat
  BY QueuesAre, SumType
<1>5. Len(m.todo[c]) \in Nat /\ Len(m.held[c]) \in Nat /\ Len(m.asm[c]) \in Nat
  BY <1>2
<1> QED
  BY <1>1, <1>3, <1>4, <1>5, ConstantsAre

LEMMA SumsAre ==
    ASSUME NEW q \in Seq(Segment), NEW c
    PROVE  /\ SumOf(q, c, "DATA") \in Nat /\ SumOf(q, c, "DATA") \in Int
           /\ SumOf(q, c, "WINDOW") \in Nat /\ SumOf(q, c, "WINDOW") \in Int
<1>1. SumOf(q, c, "DATA") \in Nat
  BY SumType
<1>2. SumOf(q, c, "WINDOW") \in Nat
  BY SumType
<1> QED
  BY <1>1, <1>2

LEMMA BooksAre ==
    ASSUME NEW e, NEW m, IsEnd(e, m), NEW c \in Ch
    PROVE  /\ Stake(m, c) \in Int /\ Debt(m, c) \in Int
           /\ Stake(m, c) >= m.credit[c]
<1>1. PICK a \in Nat, b \in Nat, k \in Nat :
        a = m.credit[c] /\ b = Len(m.held[c]) /\ k = SumOf(m.out[c], c, "DATA")
  BY NumbersAre
<1>2. PICK x \in Nat, y \in Nat : x = m.unacked[c] /\ y = SumOf(m.urgent, c, "WINDOW")
  BY NumbersAre
<1>3. Stake(m, c) = a + b + k /\ Debt(m, c) = x + y
  BY <1>1, <1>2 DEF Stake, Debt
<1> QED
  BY <1>1, <1>3

LEMMA EndsAre ==
    ASSUME Types, NEW e \in End
    PROVE  /\ IsEnd(e, ep[e]) /\ NotRetired(ep[e]) /\ Accounted(ep[e])
           /\ wire[e] \in Seq(Segment) /\ wire[e] \in Seq(Written(e))
           /\ \A c : SumOf(wire[e], c, "DATA") \in Nat /\ SumOf(wire[e], c, "WINDOW") \in Nat
<1>1. wire[e] \in Seq(Segment) /\ wire[e] \in Seq(Written(e))
  BY SegmentsAre DEF Types
<1>2. \A c : SumOf(wire[e], c, "DATA") \in Nat /\ SumOf(wire[e], c, "WINDOW") \in Nat
  BY <1>1, SumsAre
<1> QED
  BY <1>1, <1>2 DEF Types, Local
-----------------------------------------------------------------------------
(* A step of one end that opens nothing and writes nothing: m becomes n.   *)

Gently(m, n) ==
    /\ n.nextLocal = m.nextLocal /\ n.chans \subseteq m.chans
    /\ Closed(m) => Closed(n)
    /\ \A c \in Ch :
         /\ Silent(m, c) => Silent(n, c)
         /\ \A i \in DOMAIN n.out[c] : IsOpen(n.out[c][i], c) =>
              i \in DOMAIN m.out[c] /\ IsOpen(m.out[c][i], c)

\* The same, except for channel d, which the peer may have opened.
Onward(m, n, d) ==
    /\ n.nextLocal = m.nextLocal /\ n.chans \subseteq m.chans \cup {d}
    /\ Closed(m) => Closed(n)
    /\ \A c \in Ch :
         /\ c # d /\ Silent(m, c) => Silent(n, c)
         /\ \A i \in DOMAIN n.out[c] : IsOpen(n.out[c][i], c) =>
              i \in DOMAIN m.out[c] /\ IsOpen(m.out[c][i], c)

\* What it read, if anything, is the first segment of w, of channel d.
Read(w, w2, d) ==
    \/ w2 = w /\ d \notin Ch
    \/ w # <<>> /\ w2 = Tail(w) /\ Head(w).ch = d

\* The books of the channels it keeps move by what it read.
Booked(m, n, w, w2) ==
    \A c \in Ch : c \in n.chans /\ c \in m.chans =>
      /\ Stake(n, c) + SumOf(w2, c, "WINDOW") = Stake(m, c) + SumOf(w, c, "WINDOW")
      /\ Debt(n, c) + SumOf(w2, c, "DATA") = Debt(m, c) + SumOf(w, c, "DATA")

\* The end's own bytes on the wire are lost only if its Mux is dropped.
Shortened(v, v2) == DOMAIN v2 \subseteq DOMAIN v /\ \A i \in DOMAIN v2 : v2[i] = v[i]

EndStep(e, d) ==
    LET p == Peer(e)
    IN  /\ DOMAIN ep' = End /\ ep'[p] = ep[p]
        /\ Local(e, ep'[e]) /\ Onward(ep[e], ep'[e], d)
        /\ \A c \in Ch : c # d /\ Untold(ep[e], c) => Untold(ep'[e], c)
        /\ Booked(ep[e], ep'[e], wire[p], wire'[p])
        /\ \A c \in Ch : c \in ep'[e].chans /\ c \notin ep[e].chans =>
             (Balanced(e, c) /\ (Joined(p, c) => Balanced(p, c)))'
        /\ DOMAIN wire' = End
        /\ Read(wire[p], wire'[p], d)
        /\ Shortened(wire[e], wire'[e]) /\ wire'[e] \in Seq(Segment)
        /\ alive'[e] => wire'[e] = wire[e]
        /\ \A x \in End : alive'[x] => alive[x]
        /\ Flags'

LEMMA ReadIs ==
    ASSUME NEW S, NEW w \in Seq(S), NEW w2, NEW d, Read(w, w2, d)
    PROVE  /\ w2 \in Seq(S)
           /\ \A j \in DOMAIN w2 : j \in DOMAIN w /\ \E i \in DOMAIN w : w2[j] = w[i]
           /\ (w2 = w /\ d \notin Ch) \/ ( /\ 1 \in DOMAIN w /\ w[1] = Head(w) /\ w[1].ch = d
                          /\ \A j \in DOMAIN w2 : j + 1 \in DOMAIN w /\ w2[j] = w[j + 1] )
<1>1. CASE w2 = w /\ d \notin Ch
  BY <1>1
<1>2. CASE w # <<>> /\ w2 = Tail(w) /\ Head(w).ch = d
  <2>1. /\ w2 \in Seq(S) /\ Len(w2) = Len(w) - 1 /\ \A i \in 1 .. Len(w2) : w2[i] = w[i + 1]
    BY <1>2, HeadTailProperties
  <2>2. Len(w) \in Nat \ {0} /\ DOMAIN w = 1 .. Len(w) /\ DOMAIN w2 = 1 .. Len(w2) /\ w[1] = Head(w)
    BY <1>2, <2>1
  <2>3. \A j \in DOMAIN w2 : j + 1 \in DOMAIN w /\ w2[j] = w[j + 1] /\ j \in DOMAIN w
    BY <2>1, <2>2
  <2>4. 1 \in DOMAIN w /\ w[1].ch = d
    BY <1>2, <2>2
  <2>5. \A j \in DOMAIN w2 : \E i \in DOMAIN w : w2[j] = w[i]
    BY <2>3
  <2> QED
    BY <2>1, <2>2, <2>3, <2>4, <2>5
<1> QED
  BY <1>1, <1>2 DEF Read

LEMMA ShortenedIs ==
    ASSUME NEW S, NEW v \in Seq(S), NEW v2 \in Seq(Segment), Shortened(v, v2)
    PROVE  v2 \in Seq(S)
<1>1. Len(v2) \in Nat /\ DOMAIN v2 = 1 .. Len(v2) /\ \A i \in 1 .. Len(v2) : v2[i] \in S
  BY DEF Shortened
<1> QED
  BY <1>1

LEMMA StepTypes ==
    ASSUME IInv, NEW e \in End, NEW d, EndStep(e, d)
    PROVE  Types'
<1> DEFINE p == Peer(e)
<1>1. Types
  BY DEF IInv
<1>2. p \in End /\ p # e /\ End = {e, p}
  BY PeerIs
<1>3. \A x \in End : Local(x, ep'[x])
  BY <1>1, <1>2 DEF EndStep, Types
<1>4. wire'[e] \in Seq(Segment) /\ wire'[e] \in Seq(Written(e))
  BY <1>1, EndsAre, ShortenedIs DEF EndStep
<1>5. wire'[p] \in Seq(Segment) /\ wire'[p] \in Seq(Written(p))
  BY <1>1, <1>2, EndsAre, ReadIs DEF EndStep
<1>6. DOMAIN wire' = End /\ DOMAIN ep' = End /\ Flags'
  BY DEF EndStep
<1>7. \A x \in End : wire'[x] \in Seq(Segment) /\ wire'[x] \in Seq(Written(x))
  BY <1>2, <1>4, <1>5
<1> QED
  BY <1>3, <1>6, <1>7 DEF Types

LEMMA StepHidden ==
    ASSUME IInv, NEW e \in End, NEW d, EndStep(e, d),
           NEW x \in End, NEW c \in Ch, Hidden(x, c)'
    PROVE  Hidden(x, c) /\ c # d
<1> DEFINE p == Peer(e)
           w == wire[p]
<1>1. p \in End /\ p # e /\ Peer(p) = e /\ (x = e \/ x = p)
  BY PeerIs
<1>2. /\ w \in Seq(Segment) /\ Types
  BY <1>1, EndsAre DEF IInv
<1>3. /\ \A j \in DOMAIN wire'[p] : j \in DOMAIN w /\ \E i \in DOMAIN w : wire'[p][j] = w[i]
      /\ (wire'[p] = w /\ d \notin Ch) \/ ( /\ 1 \in DOMAIN w /\ w[1] = Head(w) /\ w[1].ch = d
                           /\ \A j \in DOMAIN wire'[p] : j + 1 \in DOMAIN w /\ wire'[p][j] = w[j + 1] )
  BY <1>2, ReadIs DEF EndStep
<1>4. CASE x = e
  <2>1. Hidden(e, c)
    <3>1. Own(e, c) /\ (c >= ep[e].nextLocal \/ Announced(ep'[e], wire'[e], c))
      BY <1>4 DEF Hidden, EndStep, Onward
    <3>2. Announced(ep'[e], wire'[e], c) => Announced(ep[e], wire[e], c)
      BY DEF Announced, EndStep, Onward, Shortened
    <3> QED
      BY <3>1, <3>2 DEF Hidden
  <2>2. \A i \in DOMAIN w : w[i].ch # c
    <3>1. Idle(ep[p], w, c) /\ Unheard(ep[p], w, c)
      BY <2>1 DEF IInv, HiddenIdle
    <3> QED
      BY <3>1 DEF Idle, Unheard, NoUpdate, Moving
  <2> QED
    BY <1>3, <1>4, <2>1, <2>2
<1>5. CASE x = p
  <2>1. Own(p, c) /\ (c >= ep[p].nextLocal \/ Announced(ep[p], wire'[p], c))
    BY <1>5 DEF Hidden, EndStep
  <2>2. Announced(ep[p], wire'[p], c) => Announced(ep[p], w, c)
    BY <1>3 DEF Announced
  <2>3. Hidden(p, c)
    BY <2>1, <2>2 DEF Hidden
  <2>4. ASSUME c = d PROVE FALSE
    <3>1. /\ 1 \in DOMAIN w /\ w[1].ch = c
          /\ \A j \in DOMAIN wire'[p] : j + 1 \in DOMAIN w /\ wire'[p][j] = w[j + 1]
      BY <1>3, <2>4
    <3>2. Unheard(ep[p], w, c)
      BY <1>1, <2>3 DEF IInv, HiddenIdle
    <3>3. Moving(w[1], c)
      BY <3>1, <3>2 DEF Unheard, NoUpdate, Moving
    <3>4. CASE c >= ep[p].nextLocal
      <4>1. Idle(ep[p], w, c)
        BY <1>1, <2>1, <3>4 DEF IInv, UnusedIdle, Unused
      <4> QED
        BY <3>1, <3>3, <4>1 DEF Idle
    <3>5. CASE \E i \in DOMAIN ep[p].out[c] : IsOpen(ep[p].out[c][i], c)
      <4>1. \A j \in DOMAIN w : ~Moving(w[j], c)
        BY <1>1, <3>5 DEF IInv, Order, OpenLeads
      <4> QED
        BY <3>1, <3>3, <4>1
    <3>6. CASE \E i \in DOMAIN wire'[p] : IsOpen(wire'[p][i], c)
      <4>1. PICK i \in DOMAIN wire'[p] : IsOpen(wire'[p][i], c)
        BY <3>6
      <4>2. i + 1 \in DOMAIN w /\ IsOpen(w[i + 1], c)
        BY <3>1, <4>1
      <4>3. i \in Nat /\ i > 0
        BY <1>2, <1>3, <4>1
      <4>4. 1 < i + 1
        BY <4>3
      <4>5. ~Moving(w[1], c)
        BY <1>1, <3>1, <4>2, <4>4 DEF IInv, Order, OpenLeads
      <4> QED
        BY <3>3, <4>5
    <3> QED
      BY <2>1, <3>4, <3>5, <3>6 DEF Announced
  <2> QED
    BY <1>5, <2>3, <2>4
<1> QED
  BY <1>1, <1>4, <1>5

LEMMA StepOrder ==
    ASSUME IInv, NEW e \in End, NEW d, EndStep(e, d)
    PROVE  Order'
<1> DEFINE p == Peer(e)
           w == wire[p]
<1>1. p \in End /\ p # e /\ Peer(p) = e /\ \A x \in End : x = e \/ x = p
  BY PeerIs
<1>2. w \in Seq(Segment) /\ Types
  BY <1>1, EndsAre DEF IInv
<1>3. /\ \A j \in DOMAIN wire'[p] : j \in DOMAIN w /\ \E i \in DOMAIN w : wire'[p][j] = w[i]
      /\ wire'[p] = w \/ \A j \in DOMAIN wire'[p] : j + 1 \in DOMAIN w /\ wire'[p][j] = w[j + 1]
  BY <1>2, ReadIs DEF EndStep
<1>4. \A c \in Ch : OpenLeads(ep[e], wire[e], c) /\ OpenLeads(ep[p], w, c)
  BY <1>1 DEF IInv, Order
<1>5. ASSUME NEW c \in Ch PROVE OpenLeads(ep'[e], wire'[e], c)
  <2>1. \A i \in DOMAIN ep'[e].out[c] : IsOpen(ep'[e].out[c][i], c) =>
          i \in DOMAIN ep[e].out[c] /\ IsOpen(ep[e].out[c][i], c)
    BY DEF EndStep, Onward
  <2>2. DOMAIN wire'[e] \subseteq DOMAIN wire[e] /\ \A i \in DOMAIN wire'[e] : wire'[e][i] = wire[e][i]
    BY DEF EndStep, Shortened
  <2> QED
    BY <1>4, <2>1, <2>2 DEF OpenLeads
<1>6. ASSUME NEW c \in Ch PROVE OpenLeads(ep[p], wire'[p], c)
  <2>1. \A i \in DOMAIN ep[p].out[c] : IsOpen(ep[p].out[c][i], c) =>
          i = 1 /\ \A j \in DOMAIN wire'[p] : ~Moving(wire'[p][j], c)
    BY <1>3, <1>4 DEF OpenLeads
  <2>2. ASSUME NEW i \in DOMAIN wire'[p], NEW j \in DOMAIN wire'[p], i < j, IsOpen(wire'[p][j], c)
        PROVE  ~Moving(wire'[p][i], c)
    <3>1. CASE wire'[p] = w
      BY <1>4, <2>2, <3>1 DEF OpenLeads
    <3>2. CASE \A k \in DOMAIN wire'[p] : k + 1 \in DOMAIN w /\ wire'[p][k] = w[k + 1]
      <4>1. i + 1 \in DOMAIN w /\ j + 1 \in DOMAIN w /\ IsOpen(w[j + 1], c) /\ wire'[p][i] = w[i + 1]
        BY <2>2, <3>2
      <4>2. i \in Nat /\ j \in Nat
        BY SMTT(30), <1>2, <1>3
      <4>3. i + 1 < j + 1
        BY <2>2, <4>2
      <4> QED
        BY <1>4, <4>1, <4>3 DEF OpenLeads
    <3> QED
      BY <1>3, <3>1, <3>2
  <2> QED
    BY <2>1, <2>2 DEF OpenLeads
<1>7. ASSUME NEW x \in End, NEW c \in Ch PROVE OpenLeads(ep'[x], wire'[x], c)
  BY <1>1, <1>5, <1>6 DEF EndStep
<1> QED
  BY <1>7 DEF Order

LEMMA StepUnused ==
    ASSUME IInv, NEW e \in End, NEW d, EndStep(e, d)
    PROVE  UnusedIdle'
<1> DEFINE p == Peer(e)
           w == wire[p]
<1>1. p \in End /\ p # e /\ Peer(p) = e /\ \A x \in End : x = e \/ x = p
  BY PeerIs
<1>2. w \in Seq(Segment) /\ Types
  BY <1>1, EndsAre DEF IInv
<1>3. \A j \in DOMAIN wire'[p] : \E i \in DOMAIN w : wire'[p][j] = w[i]
  BY <1>2, ReadIs DEF EndStep
<1>4. ASSUME NEW c \in Ch, Own(e, c), c >= ep'[e].nextLocal PROVE Idle(ep'[e], wire'[e], c)
  <2>1. Idle(ep[e], wire[e], c)
    BY <1>4 DEF IInv, UnusedIdle, Unused, EndStep, Onward
  <2>2. c # d
    <3>1. Hidden(e, c)'
      BY <1>4 DEF Hidden
    <3> QED
      BY <3>1, StepHidden
  <2> QED
    BY <2>1, <2>2 DEF Idle, EndStep, Onward, Shortened
<1>5. ASSUME NEW c \in Ch, Own(p, c), c >= ep[p].nextLocal PROVE Idle(ep[p], wire'[p], c)
  <2>1. Idle(ep[p], w, c)
    BY <1>1, <1>5 DEF IInv, UnusedIdle, Unused
  <2> QED
    BY <1>3, <2>1 DEF Idle
<1>6. ASSUME NEW x \in End, NEW c \in Ch, Own(x, c), c >= ep'[x].nextLocal
      PROVE  Idle(ep'[x], wire'[x], c)
  BY <1>1, <1>4, <1>5, <1>6 DEF EndStep
<1> QED
  BY <1>6 DEF UnusedIdle, Unused

LEMMA StepHiddenIdle ==
    ASSUME IInv, NEW e \in End, NEW d, EndStep(e, d)
    PROVE  HiddenIdle'
<1> DEFINE p == Peer(e)
           w == wire[p]
<1>1. p \in End /\ p # e /\ Peer(p) = e /\ \A x \in End : x = e \/ x = p
  BY PeerIs
<1>2. w \in Seq(Segment) /\ Types
  BY <1>1, EndsAre DEF IInv
<1>3. \A j \in DOMAIN wire'[p] : \E i \in DOMAIN w : wire'[p][j] = w[i]
  BY <1>2, ReadIs DEF EndStep
<1>4. \A i \in DOMAIN wire'[e] : i \in DOMAIN wire[e] /\ wire'[e][i] = wire[e][i]
  BY DEF EndStep, Shortened
<1>5. ASSUME NEW x \in End, NEW c \in Ch, Hidden(x, c)'
      PROVE  /\ Idle(ep'[Peer(x)], wire'[Peer(x)], c)
             /\ Unheard(ep'[Peer(x)], wire'[Peer(x)], c)
             /\ Unheard(ep'[x], wire'[x], c)
  <2>1. Hidden(x, c)
    BY <1>5, StepHidden
  <2>2. /\ Idle(ep[Peer(x)], wire[Peer(x)], c)
        /\ Unheard(ep[Peer(x)], wire[Peer(x)], c) /\ Unheard(ep[x], wire[x], c)
    BY <2>1 DEF IInv, HiddenIdle
  <2>3. c # d
    BY <1>5, StepHidden
  <2>4. Unheard(ep[e], wire[e], c) => Unheard(ep'[e], wire'[e], c)
    BY <1>4, <2>3 DEF Unheard, NoUpdate, EndStep
  <2>5. Unheard(ep[p], wire[p], c) => Unheard(ep'[p], wire'[p], c)
    BY <1>3 DEF Unheard, NoUpdate, EndStep
  <2>6. Idle(ep[e], wire[e], c) => Idle(ep'[e], wire'[e], c)
    BY <1>4, <2>3 DEF Idle, EndStep, Onward
  <2>7. Idle(ep[p], wire[p], c) => Idle(ep'[p], wire'[p], c)
    BY <1>3 DEF Idle, EndStep
  <2>8. CASE x = e
    BY <2>2, <2>4, <2>5, <2>7, <2>8
  <2>9. CASE x = p
    BY <1>1, <2>2, <2>4, <2>5, <2>6, <2>9
  <2> QED
    BY <1>1, <2>8, <2>9
<1> QED
  BY <1>5 DEF HiddenIdle

LEMMA DebtIsNone ==
    ASSUME NEW e, NEW m, IsEnd(e, m), NEW c \in Ch, Untold(m, c)
    PROVE  Debt(m, c) = 0
<1>1. m.urgent \in Seq(Segment)
  BY QueuesAre
<1>2. SumOf(m.urgent, c, "WINDOW") = 0
  BY <1>1, SumZero DEF Untold, NoUpdate
<1> QED
  BY <1>2 DEF Debt, Untold

LEMMA StepConserved ==
    ASSUME IInv, NEW e \in End, NEW d, EndStep(e, d)
    PROVE  Conserved'
<1> DEFINE p == Peer(e)
           w == wire[p]
           m == ep[e]
           n == ep'[e]
<1>1. p \in End /\ p # e /\ Peer(p) = e /\ \A x \in End : x = e \/ x = p
  BY PeerIs
<1>2. w \in Seq(Segment) /\ Types /\ IsEnd(e, m) /\ IsEnd(e, n) /\ IsEnd(p, ep[p])
  BY <1>1, EndsAre DEF IInv, EndStep, Local
<1>3. ASSUME NEW c \in Ch, Joined(e, c)' PROVE Balanced(e, c)'
  <2> SUFFICES ASSUME c \in m.chans PROVE Balanced(e, c)'
    BY <1>3 DEF Joined, EndStep
  <2>1. /\ c \in n.chans /\ alive'[e] /\ alive'[p] /\ ~Closed(ep[p])
        /\ c \in ep[p].chans \/ (Own(e, c) /\ Announced(n, wire'[e], c))
    BY <1>3 DEF Joined, EndStep
  <2>2. c \in m.chans /\ alive[e] /\ alive[p] /\ wire'[e] = wire[e]
    BY <1>1, <2>1 DEF EndStep, Onward
  <2>3. Announced(n, wire'[e], c) => Announced(m, wire[e], c)
    BY DEF Announced, EndStep, Onward, Shortened
  <2>4. Joined(e, c)
    BY <2>1, <2>2, <2>3 DEF Joined
  <2>5. Balanced(e, c)
    BY <2>4 DEF IInv, Conserved
  <2>6. Stake(n, c) + SumOf(wire'[p], c, "WINDOW") = Stake(m, c) + SumOf(w, c, "WINDOW")
    BY <2>1 DEF EndStep, Booked
  <2>7. PICK s \in Int, s2 \in Int, a \in Int, a2 \in Int, b \in Int, t \in Int :
          /\ s = Stake(m, c) /\ s2 = Stake(n, c)
          /\ a = SumOf(w, c, "WINDOW") /\ a2 = SumOf(wire'[p], c, "WINDOW")
          /\ b = SumOf(wire[e], c, "DATA") /\ t = Debt(ep[p], c)
    <3>1. Stake(m, c) \in Int /\ Stake(n, c) \in Int /\ Debt(ep[p], c) \in Int
      BY <1>2, BooksAre
    <3>2. wire'[p] \in Seq(Segment)
      BY <1>2, ReadIs DEF EndStep
    <3>3. SumOf(w, c, "WINDOW") \in Int /\ SumOf(wire'[p], c, "WINDOW") \in Int
      BY <1>2, <3>2, SumsAre
    <3>4. SumOf(wire[e], c, "DATA") \in Int
      BY <1>2, EndsAre
    <3> QED
      BY <3>1, <3>3, <3>4
  <2>8. s + b + t + a = Window
    BY <2>5, <2>7 DEF Balanced
  <2>9. s2 + a2 = s + a
    BY <2>6, <2>7
  <2>10. s2 + b + t + a2 = Window
    BY <2>8, <2>9
  <2>11. Balanced(e, c)' <=>
           Stake(n, c) + SumOf(wire[e], c, "DATA") + Debt(ep[p], c) + SumOf(wire'[p], c, "WINDOW")
             = Window
    BY <2>2 DEF Balanced, EndStep
  <2> QED
    BY <2>7, <2>10, <2>11
<1>4. ASSUME NEW c \in Ch, Joined(p, c)' PROVE Balanced(p, c)'
  <2> SUFFICES ASSUME c \in n.chans => c \in m.chans PROVE Balanced(p, c)'
    BY <1>4 DEF EndStep
  <2>1. /\ c \in ep[p].chans /\ alive'[e] /\ alive'[p] /\ ~Closed(n)
        /\ c \in n.chans \/ (Own(p, c) /\ Announced(ep[p], wire'[p], c))
    BY <1>1, <1>4 DEF Joined, EndStep
  <2>2. alive[e] /\ alive[p] /\ wire'[e] = wire[e] /\ ~Closed(m)
    BY <1>1, <2>1 DEF EndStep, Onward
  <2>3. wire'[p] \in Seq(Segment)
    BY <1>2, ReadIs DEF EndStep
  <2>4. /\ Joined(p, c)
        /\ Debt(n, c) + SumOf(wire'[p], c, "DATA") = Debt(m, c) + SumOf(w, c, "DATA")
    <3>1. CASE c \in n.chans
      <4>1. c \in m.chans
        BY <3>1 DEF EndStep, Onward
      <4> QED
        BY <1>1, <2>1, <2>2, <3>1, <4>1 DEF Joined, EndStep, Booked
    <3>2. CASE Own(p, c) /\ Announced(ep[p], wire'[p], c)
      <4>1. Hidden(p, c)'
        BY <3>2 DEF Hidden, EndStep
      <4>2. Hidden(p, c) /\ c # d
        BY <1>1, <4>1, StepHidden
      <4>3. Announced(ep[p], w, c)
        BY <1>2, <3>2, ReadIs DEF EndStep, Announced
      <4>4. Joined(p, c)
        BY <1>1, <2>1, <2>2, <3>2, <4>3 DEF Joined
      <4>5. Untold(m, c)
        BY <1>1, <4>2 DEF IInv, HiddenIdle, Unheard
      <4>6. Untold(n, c)
        BY <4>2, <4>5 DEF EndStep
      <4>7. Debt(m, c) = 0 /\ Debt(n, c) = 0
        BY <1>2, <4>5, <4>6, DebtIsNone
      <4>8. SumOf(wire'[p], c, "DATA") = SumOf(w, c, "DATA")
        <5>1. CASE wire'[p] = w
          BY <5>1
        <5>2. CASE w # <<>> /\ wire'[p] = Tail(w) /\ Head(w).ch = d
          <6>1. SumOf(w, c, "DATA") = Worth(Head(w), c, "DATA") + SumOf(wire'[p], c, "DATA")
            BY <1>2, <5>2, SumHeadTail
          <6>2. Worth(Head(w), c, "DATA") = 0
            BY <4>2, <5>2 DEF Worth
          <6>3. SumOf(wire'[p], c, "DATA") \in Int
            BY <2>3, SumsAre
          <6> QED
            BY <6>1, <6>2, <6>3
        <5> QED
          BY <5>1, <5>2 DEF EndStep, Read
      <4> QED
        BY <4>4, <4>7, <4>8
    <3> QED
      BY <2>1, <3>1, <3>2
  <2>5. Balanced(p, c)
    BY <1>1, <2>4 DEF IInv, Conserved
  <2>6. PICK s \in Int, a \in Int, b \in Int, b2 \in Int, t \in Int, t2 \in Int :
          /\ s = Stake(ep[p], c) /\ a = SumOf(wire[e], c, "WINDOW")
          /\ b = SumOf(w, c, "DATA") /\ b2 = SumOf(wire'[p], c, "DATA")
          /\ t = Debt(m, c) /\ t2 = Debt(n, c)
    <3>1. Stake(ep[p], c) \in Int /\ Debt(m, c) \in Int /\ Debt(n, c) \in Int
      BY <1>2, BooksAre
    <3>2. SumOf(w, c, "DATA") \in Int /\ SumOf(wire'[p], c, "DATA") \in Int
      BY <1>2, <2>3, SumsAre
    <3>3. SumOf(wire[e], c, "WINDOW") \in Int
      BY <1>2, EndsAre
    <3> QED
      BY <3>1, <3>2, <3>3
  <2>7. s + b + t + a = Window
    BY <1>1, <2>5, <2>6 DEF Balanced
  <2>8. t2 + b2 = t + b
    BY <2>4, <2>6
  <2>9. s + b2 + t2 + a = Window
    BY <2>7, <2>8
  <2>10. Balanced(p, c)' <=>
           Stake(ep[p], c) + SumOf(wire'[p], c, "DATA") + Debt(n, c) + SumOf(wire[e], c, "WINDOW")
             = Window
    BY <1>1, <2>2 DEF Balanced, EndStep
  <2> QED
    BY <2>6, <2>9, <2>10
<1> QED
  BY <1>1, <1>3, <1>4 DEF Conserved

LEMMA StepKeeps ==
    ASSUME IInv, NEW e \in End, NEW d, EndStep(e, d)
    PROVE  IInv'
BY StepTypes, StepOrder, StepUnused, StepHiddenIdle, StepConserved DEF IInv
-----------------------------------------------------------------------------
(* What the application of one end does to it. *)

\* Nothing is read: neither end's part of a window changes.
Even(m, n) ==
    \A c \in Ch :
      /\ Untold(m, c) => Untold(n, c)
      /\ c \in n.chans => Stake(n, c) = Stake(m, c) /\ Debt(n, c) = Debt(m, c)

Fine(e, m, n) == Local(e, n) /\ Gently(m, n) /\ Even(m, n)

LEMMA BecomesKeeps ==
    ASSUME IInv, NEW e \in End, NEW n, Becomes(e, n), Fine(e, ep[e], n), Histories'
    PROVE  IInv'
<1> DEFINE p == Peer(e)
<1>1. p \in End /\ p # e
  BY PeerIs
<1>2. DOMAIN ep = End /\ DOMAIN wire = End /\ wire[e] \in Seq(Segment) /\ Flags
  BY EndsAre DEF IInv, Types
<1>3. DOMAIN ep' = End /\ ep'[p] = ep[p] /\ ep'[e] = n
  BY <1>1, <1>2 DEF Becomes
<1>4. wire' = wire /\ alive' = alive /\ Flags'
  BY <1>2 DEF Becomes, Flags
<1>5. Booked(ep[e], ep'[e], wire[p], wire'[p])
  BY <1>3, <1>4 DEF Booked, Fine, Even
<1>6. -1 \notin Ch
  BY ChannelsAre
<1>7. Onward(ep[e], ep'[e], -1)
  BY <1>3 DEF Fine, Gently, Onward
<1>8. EndStep(e, -1)
  BY <1>2, <1>3, <1>4, <1>5, <1>6, <1>7 DEF EndStep, Fine, Gently, Even, Read, Shortened
<1> QED
  BY <1>8, StepKeeps

LEMMA AcceptKeeps ==
    ASSUME IInv, NEW e \in End, AcceptBi(e)
    PROVE  IInv'
<1> DEFINE m == ep[e]
           n == [m EXCEPT !.acceptQ = Tail(@)]
<1>1. Types /\ Local(e, m) /\ m.acceptQ # <<>> /\ Becomes(e, n) /\ Histories'
  BY DEF IInv, Types, Flags, AcceptBi, Histories
<1>2. DOMAIN m = Fields /\ m.acceptQ \in Seq(Ch)
  BY <1>1 DEF Local, IsEnd
<1>3. Tail(m.acceptQ) \in Seq(Ch)
  BY <1>1, <1>2, HeadTailProperties
<1>4. /\ DOMAIN n = Fields /\ n.acceptQ = Tail(m.acceptQ)
      /\ n.reason = m.reason /\ n.nextLocal = m.nextLocal /\ n.chans = m.chans
      /\ n.retired = m.retired /\ n.urgent = m.urgent /\ n.out = m.out
      /\ n.credit = m.credit /\ n.asm = m.asm /\ n.unacked = m.unacked /\ n.rx = m.rx
      /\ n.send = m.send /\ n.recv = m.recv /\ n.todo = m.todo /\ n.held = m.held
      /\ n.taken = m.taken
  BY <1>2 DEF Fields
<1> HIDE DEF n, m
<1>5. Local(e, n)
  BY <1>1, <1>3, <1>4 DEF Local, IsEnd, NotRetired, Accounted, Unread
<1>6. Gently(m, n)
  BY <1>4 DEF Gently, Closed, Silent
<1>7. Even(m, n)
  BY <1>4 DEF Even, Untold, Stake, Debt
<1> QED
  BY <1>1, <1>5, <1>6, <1>7, BecomesKeeps DEF Fine, m

LEMMA BeginSendKeeps ==
    ASSUME IInv, NEW e \in End, NEW c \in Ch, NEW len \in FrameLens, BeginSend(e, c, len)
    PROVE  IInv'
<1> DEFINE m == ep[e]
           h == hist[e]
           frame == Bytes(Len(h.frames[c]) + 1, len)
           n == [m EXCEPT !.todo[c] = frame]
<1>1. Types /\ Local(e, m) /\ Becomes(e, n) /\ c \in m.send
      /\ hist' = [hist EXCEPT ![e].frames[c] = Append(@, len)]
  BY DEF IInv, Types, BeginSend
<1>2. IsEnd(e, m) /\ DOMAIN m = Fields /\ m.todo \in [Ch -> Seq(Byte)]
  BY <1>1 DEF Local, IsEnd
<1>3. /\ DOMAIN hist = End /\ h.frames \in [Ch -> Seq(Nat)]
      /\ DOMAIN h = {"frames", "got", "ended", "givenUp", "closedHere", "torn"}
  BY <1>1 DEF Types, Flags, Histories
<1>4. len \in 1 .. MaxFrame /\ len \in Nat
  BY ConstantsAre
<1>5. frame \in Seq(Byte)
  <2>1. Len(h.frames[c]) + 1 \in Nat
    BY <1>3
  <2> QED
    BY <1>4, <2>1 DEF Bytes, Byte
<1>6. Histories'
  <2>1. Append(h.frames[c], len) \in Seq(Nat)
    BY <1>3, <1>4
  <2>2. /\ DOMAIN hist' = End /\ \A x \in End : x # e => hist'[x] = hist[x]
        /\ hist'[e] = [h EXCEPT !.frames[c] = Append(@, len)]
    BY <1>1, <1>3
  <2>3. /\ DOMAIN hist'[e] = DOMAIN h
        /\ hist'[e].frames = [h.frames EXCEPT ![c] = Append(@, len)]
    BY <1>3, <2>2
  <2>4. hist'[e].frames \in [Ch -> Seq(Nat)]
    BY <1>3, <2>1, <2>3
  <2> QED
    BY <1>1, <1>3, <2>2, <2>3, <2>4 DEF Histories, Types, Flags
<1>7. /\ DOMAIN n = Fields /\ n.todo = [m.todo EXCEPT ![c] = frame]
      /\ n.reason = m.reason /\ n.nextLocal = m.nextLocal /\ n.chans = m.chans
      /\ n.retired = m.retired /\ n.urgent = m.urgent /\ n.out = m.out
      /\ n.credit = m.credit /\ n.asm = m.asm /\ n.unacked = m.unacked /\ n.rx = m.rx
      /\ n.send = m.send /\ n.recv = m.recv /\ n.acceptQ = m.acceptQ /\ n.held = m.held
      /\ n.taken = m.taken
  BY <1>2 DEF Fields
<1> HIDE DEF n, m, h, frame
<1>8. n.todo \in [Ch -> Seq(Byte)] /\ \A x \in Ch : x # c => n.todo[x] = m.todo[x]
  BY <1>2, <1>5, <1>7
<1>9. Local(e, n)
  BY <1>1, <1>7, <1>8 DEF Local, IsEnd, NotRetired, Accounted, Unread
<1>10. Gently(m, n)
  BY <1>1, <1>7, <1>8 DEF Gently, Closed, Silent
<1>11. Even(m, n)
  BY <1>7 DEF Even, Untold, Stake, Debt
<1> QED
  BY <1>1, <1>6, <1>9, <1>10, <1>11, BecomesKeeps DEF Fine, m

LEMMA AcquireKeeps ==
    ASSUME IInv, NEW e \in End, NEW c \in Ch, AcquireCredit(e, c)
    PROVE  IInv'
<1> DEFINE m == ep[e]
           k == IF Len(m.todo[c]) < MaxSeg THEN Len(m.todo[c]) ELSE MaxSeg
           chunk == SubSeq(m.todo[c], 1, k)
           rest == SubSeq(m.todo[c], k + 1, Len(m.todo[c]))
           n == [m EXCEPT !.credit[c] = @ - k, !.held[c] = chunk, !.todo[c] = rest]
<1>1. /\ Types /\ Local(e, m) /\ Becomes(e, n) /\ c \in m.chans /\ Histories'
      /\ m.todo[c] # <<>> /\ m.held[c] = <<>> /\ k <= m.credit[c]
  BY DEF IInv, Types, Flags, Histories, AcquireCredit
<1>2. /\ IsEnd(e, m) /\ DOMAIN m = Fields /\ m.todo \in [Ch -> Seq(Byte)]
      /\ m.held \in [Ch -> Seq(Byte)] /\ m.credit \in [Ch -> 0 .. Window]
  BY <1>1 DEF Local, IsEnd
<1>3. k \in Nat /\ k <= Len(m.todo[c]) /\ Len(m.todo[c]) \in Nat
  BY <1>2, ConstantsAre
<1>4. chunk \in Seq(Byte) /\ Len(chunk) = k /\ rest \in Seq(Byte)
  <2>1. \A i \in 1 .. Len(m.todo[c]) : m.todo[c][i] \in Byte
    BY <1>2
  <2>2. chunk \in Seq(Byte) /\ Len(chunk) = IF 1 <= k THEN k - 1 + 1 ELSE 0
    BY <1>3, <2>1, SubSeqProperties
  <2>3. rest \in Seq(Byte)
    BY <1>3, <2>1, SubSeqProperties
  <2> QED
    BY <1>3, <2>2, <2>3
<1>5. /\ DOMAIN n = Fields /\ n.todo = [m.todo EXCEPT ![c] = rest]
      /\ n.held = [m.held EXCEPT ![c] = chunk] /\ n.credit = [m.credit EXCEPT ![c] = @ - k]
      /\ n.reason = m.reason /\ n.nextLocal = m.nextLocal /\ n.chans = m.chans
      /\ n.retired = m.retired /\ n.urgent = m.urgent /\ n.out = m.out
      /\ n.asm = m.asm /\ n.unacked = m.unacked /\ n.rx = m.rx
      /\ n.send = m.send /\ n.recv = m.recv /\ n.acceptQ = m.acceptQ /\ n.taken = m.taken
  BY <1>2 DEF Fields
<1> HIDE DEF n, m, k, chunk, rest
<1>6. /\ n.todo \in [Ch -> Seq(Byte)] /\ n.held \in [Ch -> Seq(Byte)]
      /\ n.held[c] = chunk /\ n.credit[c] = m.credit[c] - k
      /\ \A x \in Ch : x # c => /\ n.todo[x] = m.todo[x] /\ n.held[x] = m.held[x]
                                /\ n.credit[x] = m.credit[x]
  BY <1>2, <1>4, <1>5
<1>7. n.credit \in [Ch -> 0 .. Window]
  <2>1. m.credit[c] \in 0 .. Window /\ m.credit[c] - k \in 0 .. Window
    BY <1>1, <1>2, <1>3, ConstantsAre
  <2> QED
    BY <1>2, <1>5, <2>1
<1>8. Local(e, n)
  BY <1>1, <1>5, <1>6, <1>7 DEF Local, IsEnd, NotRetired, Accounted, Unread
<1>9. Gently(m, n)
  BY <1>1, <1>5, <1>6 DEF Gently, Closed, Silent
<1>10. Even(m, n)
  <2>1. Stake(n, c) = Stake(m, c)
    <3>1. PICK a \in Nat, b \in Nat : a = m.credit[c] /\ b = SumOf(m.out[c], c, "DATA")
      BY <1>2, NumbersAre
    <3>2. Stake(m, c) = a + 0 + b
      BY <1>1, <3>1 DEF Stake
    <3>3. Stake(n, c) = (a - k) + k + b
      BY <1>4, <1>5, <1>6, <3>1 DEF Stake
    <3> QED
      BY <1>3, <3>1, <3>2, <3>3
  <2>2. \A x \in Ch : x # c => Stake(n, x) = Stake(m, x)
    BY <1>5, <1>6 DEF Stake
  <2> QED
    BY <1>5, <2>1, <2>2 DEF Even, Untold, Debt
<1> QED
  BY <1>1, <1>8, <1>9, <1>10, BecomesKeeps DEF Fine, m

LEMMA PushKeeps ==
    ASSUME IInv, NEW e \in End, NEW c \in Ch, PushData(e, c)
    PROVE  IInv'
<1> DEFINE m == ep[e]
           s == DataSeg(c, m.held[c])
           n == [m EXCEPT !.out[c] = Append(@, s), !.held[c] = <<>>]
<1>1. /\ Types /\ Local(e, m) /\ Becomes(e, n) /\ c \in m.chans /\ Histories'
  BY DEF IInv, Types, Flags, Histories, PushData
<1>2. /\ IsEnd(e, m) /\ DOMAIN m = Fields /\ m.held \in [Ch -> Seq(Byte)]
      /\ DOMAIN m.out = Ch /\ m.out[c] \in Seq(Sendable(e, c)) /\ m.out[c] \in Seq(Segment)
      /\ \A x \in Ch : m.out[x] \in Seq(Sendable(e, x))
  BY <1>1, QueuesAre DEF Local, IsEnd
<1>3. /\ s \in Segment /\ s \in Sendable(e, c) /\ s.kind = "DATA" /\ s.ch = c
      /\ s.n = Len(m.held[c])
  BY <1>2 DEF DataSeg, Segment, Sendable
<1>4. /\ DOMAIN n = Fields /\ n.out = [m.out EXCEPT ![c] = Append(@, s)]
      /\ n.held = [m.held EXCEPT ![c] = <<>>] /\ n.credit = m.credit
      /\ n.reason = m.reason /\ n.nextLocal = m.nextLocal /\ n.chans = m.chans
      /\ n.retired = m.retired /\ n.urgent = m.urgent /\ n.todo = m.todo
      /\ n.asm = m.asm /\ n.unacked = m.unacked /\ n.rx = m.rx
      /\ n.send = m.send /\ n.recv = m.recv /\ n.acceptQ = m.acceptQ /\ n.taken = m.taken
  BY <1>2 DEF Fields
<1> HIDE DEF n, m, s
<1>5. /\ n.held \in [Ch -> Seq(Byte)] /\ DOMAIN n.out = Ch
      /\ n.held[c] = <<>> /\ n.out[c] = Append(m.out[c], s)
      /\ \A x \in Ch : x # c => n.out[x] = m.out[x] /\ n.held[x] = m.held[x]
  BY <1>2, <1>4
<1>6. \A x \in Ch : n.out[x] \in Seq(Sendable(e, x))
  <2>1. n.out[c] \in Seq(Sendable(e, c))
    BY <1>2, <1>3, <1>5
  <2> QED
    BY <1>2, <1>5, <2>1
<1>7. Local(e, n)
  BY <1>1, <1>4, <1>5, <1>6 DEF Local, IsEnd, NotRetired, Accounted, Unread
<1>8. Gently(m, n)
  <2>1. \A i \in DOMAIN n.out[c] : IsOpen(n.out[c][i], c) =>
          i \in DOMAIN m.out[c] /\ IsOpen(m.out[c][i], c)
    BY <1>2, <1>3, <1>5 DEF IsOpen
  <2> QED
    BY <1>1, <1>4, <1>5, <2>1 DEF Gently, Closed, Silent
<1>9. Even(m, n)
  <2>1. Stake(n, c) = Stake(m, c)
    <3>1. PICK a \in Nat, b \in Nat, l \in Nat :
            a = m.credit[c] /\ b = SumOf(m.out[c], c, "DATA") /\ l = Len(m.held[c])
      BY <1>2, NumbersAre
    <3>2. SumOf(n.out[c], c, "DATA") = b + l
      <4>1. SumOf(n.out[c], c, "DATA") = SumOf(m.out[c], c, "DATA") + Worth(s, c, "DATA")
        BY <1>2, <1>3, <1>5, SumAppend
      <4> QED
        BY <1>3, <3>1, <4>1 DEF Worth
    <3>3. Stake(m, c) = a + l + b
      BY <3>1 DEF Stake
    <3>4. Stake(n, c) = a + 0 + (b + l)
      BY <1>4, <1>5, <3>1, <3>2 DEF Stake
    <3> QED
      BY <3>1, <3>3, <3>4
  <2>2. \A x \in Ch : x # c => Stake(n, x) = Stake(m, x)
    BY <1>4, <1>5 DEF Stake
  <2> QED
    BY <1>4, <2>1, <2>2 DEF Even, Untold, Debt
<1> QED
  BY <1>1, <1>7, <1>8, <1>9, BecomesKeeps DEF Fine, m

LEMMA SendFailsKeeps ==
    ASSUME IInv, NEW e \in End, NEW c \in Ch, SendFails(e, c)
    PROVE  IInv'
<1> DEFINE m == ep[e]
           n == [m EXCEPT !.todo[c] = <<>>, !.held[c] = <<>>]
<1>1. /\ Types /\ Local(e, m) /\ Becomes(e, n) /\ c \notin m.chans /\ Histories'
  BY DEF IInv, Types, Flags, Histories, SendFails
<1>2. /\ IsEnd(e, m) /\ DOMAIN m = Fields /\ m.held \in [Ch -> Seq(Byte)]
      /\ m.todo \in [Ch -> Seq(Byte)]
  BY <1>1 DEF Local, IsEnd
<1>3. /\ DOMAIN n = Fields /\ n.todo = [m.todo EXCEPT ![c] = <<>>]
      /\ n.held = [m.held EXCEPT ![c] = <<>>] /\ n.credit = m.credit
      /\ n.reason = m.reason /\ n.nextLocal = m.nextLocal /\ n.chans = m.chans
      /\ n.retired = m.retired /\ n.urgent = m.urgent /\ n.out = m.out
      /\ n.asm = m.asm /\ n.unacked = m.unacked /\ n.rx = m.rx
      /\ n.send = m.send /\ n.recv = m.recv /\ n.acceptQ = m.acceptQ /\ n.taken = m.taken
  BY <1>2 DEF Fields
<1> HIDE DEF n, m
<1>4. /\ n.held \in [Ch -> Seq(Byte)] /\ n.todo \in [Ch -> Seq(Byte)]
      /\ n.held[c] = <<>> /\ n.todo[c] = <<>>
      /\ \A x \in Ch : x # c => n.todo[x] = m.todo[x] /\ n.held[x] = m.held[x]
  BY <1>2, <1>3
<1>5. Local(e, n)
  BY <1>1, <1>3, <1>4 DEF Local, IsEnd, NotRetired, Accounted, Unread
<1>6. Gently(m, n)
  BY <1>3, <1>4 DEF Gently, Closed, Silent
<1>7. Even(m, n)
  BY <1>1, <1>3, <1>4 DEF Even, Untold, Stake, Debt
<1> QED
  BY <1>1, <1>5, <1>6, <1>7, BecomesKeeps DEF Fine, m

LEMMA RecvFrameKeeps ==
    ASSUME IInv, NEW e \in End, NEW c \in Ch, RecvFrame(e, c)
    PROVE  IInv'
<1> DEFINE m == ep[e]
           f == Head(m.rx[c])
           n == [m EXCEPT !.rx[c] = Tail(@), !.taken[c] = Len(f)]
<1>1. /\ Types /\ Local(e, m) /\ Becomes(e, n) /\ c \in m.recv
      /\ m.taken[c] = 0 /\ m.rx[c] # <<>>
      /\ hist' = [hist EXCEPT ![e].got[c] = Append(@, f)]
  BY DEF IInv, Types, RecvFrame
<1>2. /\ IsEnd(e, m) /\ DOMAIN m = Fields /\ m.rx \in [Ch -> Seq(Frame)]
      /\ m.taken \in [Ch -> 0 .. MaxFrame]
  BY <1>1 DEF Local, IsEnd
<1>3. Histories'
  <2>1. /\ DOMAIN hist = End
        /\ \A x \in End : /\ DOMAIN hist[x] = {"frames", "got", "ended", "givenUp", "closedHere", "torn"}
                          /\ hist[x].frames \in [Ch -> Seq(Nat)]
    BY <1>1 DEF Types, Flags, Histories
  <2>2. /\ DOMAIN hist' = End /\ \A x \in End : x # e => hist'[x] = hist[x]
        /\ hist'[e] = [hist[e] EXCEPT !.got[c] = Append(@, f)]
    BY <1>1, <2>1
  <2>3. DOMAIN hist'[e] = DOMAIN hist[e] /\ hist'[e].frames = hist[e].frames
    BY <2>1, <2>2
  <2> QED
    BY <2>1, <2>2, <2>3 DEF Histories
<1>4. /\ f \in Frame /\ Tail(m.rx[c]) \in Seq(Frame) /\ Len(f) \in 0 .. MaxFrame
      /\ Total(m.rx[c]) = Len(f) + Total(Tail(m.rx[c]))
  <2>1. m.rx[c] \in Seq(Frame)
    BY <1>2
  <2>2. f \in Frame /\ Tail(m.rx[c]) \in Seq(Frame)
    BY <1>1, <2>1, HeadTailProperties
  <2>3. Total(m.rx[c]) = Len(f) + Total(Tail(m.rx[c]))
    BY <1>1, <2>1, FramesAre, TotalHeadTail
  <2> QED
    BY <2>2, <2>3, ConstantsAre DEF Frame
<1>5. /\ DOMAIN n = Fields /\ n.rx = [m.rx EXCEPT ![c] = Tail(@)]
      /\ n.taken = [m.taken EXCEPT ![c] = Len(f)] /\ n.credit = m.credit
      /\ n.reason = m.reason /\ n.nextLocal = m.nextLocal /\ n.chans = m.chans
      /\ n.retired = m.retired /\ n.urgent = m.urgent /\ n.out = m.out
      /\ n.asm = m.asm /\ n.unacked = m.unacked /\ n.todo = m.todo /\ n.held = m.held
      /\ n.send = m.send /\ n.recv = m.recv /\ n.acceptQ = m.acceptQ
  BY <1>2 DEF Fields
<1> HIDE DEF n, m, f
<1>6. /\ n.rx \in [Ch -> Seq(Frame)] /\ n.taken \in [Ch -> 0 .. MaxFrame]
      /\ n.rx[c] = Tail(m.rx[c]) /\ n.taken[c] = Len(f)
      /\ \A x \in Ch : x # c => n.rx[x] = m.rx[x] /\ n.taken[x] = m.taken[x]
  BY <1>2, <1>4, <1>5
<1>7. IsEnd(e, n)
  BY <1>2, <1>5, <1>6 DEF IsEnd
<1>8. Accounted(n)
  <2>1. Unread(n, c) = Unread(m, c)
    <3>1. Len(m.asm[c]) \in Nat /\ Total(n.rx[c]) \in Nat
      BY <1>2, <1>7, NumbersAre
    <3>2. PICK a \in Nat, t \in Nat, l \in Nat :
            a = Len(m.asm[c]) /\ t = Total(n.rx[c]) /\ l = Len(f)
      <4>1. Len(f) \in Nat
        BY <1>4
      <4> QED
        BY <3>1, <4>1
    <3>3. Unread(m, c) = a + (l + t) + 0
      BY <1>1, <1>4, <1>6, <3>2 DEF Unread
    <3>4. Unread(n, c) = a + t + l
      BY <1>5, <1>6, <3>2 DEF Unread
    <3> QED
      BY <3>2, <3>3, <3>4
  <2> QED
    BY <1>1, <1>5, <1>6, <2>1 DEF Accounted, Local, Unread
<1>9. Local(e, n)
  BY <1>1, <1>5, <1>7, <1>8 DEF Local, NotRetired
<1>10. Gently(m, n)
  BY <1>1, <1>5, <1>6 DEF Gently, Closed, Silent
<1>11. Even(m, n)
  BY <1>5 DEF Even, Untold, Stake, Debt
<1> QED
  BY <1>1, <1>3, <1>9, <1>10, <1>11, BecomesKeeps DEF Fine, m

LEMMA ReturnIs ==
    ASSUME NEW e, NEW m, IsEnd(e, m), NEW c \in Ch, NEW k \in Nat,
           k <= m.unacked[c], c \in m.chans, ~Closed(m),
           NEW n, n = ReturnCredit(m, c, k)
    PROVE  /\ IsEnd(e, n) /\ n.unacked[c] = m.unacked[c] - k
           /\ \A x \in Ch : x # c => n.unacked[x] = m.unacked[x]
           /\ DOMAIN n = Fields /\ n.credit = m.credit
           /\ n.reason = m.reason /\ n.nextLocal = m.nextLocal /\ n.chans = m.chans
           /\ n.retired = m.retired /\ n.out = m.out /\ n.rx = m.rx /\ n.taken = m.taken
           /\ n.asm = m.asm /\ n.todo = m.todo /\ n.held = m.held
           /\ n.send = m.send /\ n.recv = m.recv /\ n.acceptQ = m.acceptQ
           /\ \A x \in Ch : /\ Debt(n, x) = Debt(m, x)
                            /\ x # c /\ Untold(m, x) => Untold(n, x)
<1> DEFINE s == WindowSeg(c, k)
<1>1. /\ DOMAIN m = Fields /\ m.urgent \in Seq(Updates) /\ m.urgent \in Seq(Segment)
      /\ m.unacked \in [Ch -> 0 .. Window]
  BY QueuesAre DEF IsEnd
<1>2. s \in Segment /\ s \in Updates /\ s.kind = "WINDOW" /\ s.ch = c /\ s.n = k
  BY DEF WindowSeg, Segment, Updates
<1>3. n = [m EXCEPT !.unacked[c] = @ - k, !.urgent = Append(@, s)]
  BY DEF ReturnCredit
<1>4. /\ DOMAIN n = Fields /\ n.credit = m.credit
      /\ n.unacked = [m.unacked EXCEPT ![c] = @ - k] /\ n.urgent = Append(m.urgent, s)
      /\ n.reason = m.reason /\ n.nextLocal = m.nextLocal /\ n.chans = m.chans
      /\ n.retired = m.retired /\ n.out = m.out /\ n.rx = m.rx /\ n.taken = m.taken
      /\ n.asm = m.asm /\ n.todo = m.todo /\ n.held = m.held
      /\ n.send = m.send /\ n.recv = m.recv /\ n.acceptQ = m.acceptQ
  BY <1>1, <1>3 DEF Fields
<1> HIDE DEF s
<1>5. /\ n.unacked[c] = m.unacked[c] - k /\ \A x \in Ch : x # c => n.unacked[x] = m.unacked[x]
      /\ n.unacked \in [Ch -> 0 .. Window]
  <2>1. m.unacked[c] \in 0 .. Window /\ m.unacked[c] - k \in 0 .. Window
    BY <1>1, ConstantsAre
  <2> QED
    BY <1>1, <1>4, <2>1
<1>6. n.urgent \in Seq(Updates)
  BY <1>1, <1>2, <1>4
<1>7. IsEnd(e, n)
  BY <1>4, <1>5, <1>6 DEF IsEnd
<1>8. ASSUME NEW x \in Ch PROVE Debt(n, x) = Debt(m, x)
  <2>1. SumOf(n.urgent, x, "WINDOW") = SumOf(m.urgent, x, "WINDOW") + Worth(s, x, "WINDOW")
    BY <1>1, <1>2, <1>4, SumAppend
  <2>2. PICK u \in Nat, v \in Nat : u = m.unacked[x] /\ v = SumOf(m.urgent, x, "WINDOW")
    BY NumbersAre
  <2>3. Debt(m, x) = u + v
    BY <2>2 DEF Debt
  <2>4. CASE x = c
    <3>1. Debt(n, x) = (u - k) + (v + k)
      BY <1>2, <1>5, <2>1, <2>2, <2>4 DEF Debt, Worth
    <3> QED
      BY <2>2, <2>3, <3>1
  <2>5. CASE x # c
    <3>1. Debt(n, x) = u + (v + 0)
      BY <1>2, <1>5, <2>1, <2>2, <2>5 DEF Debt, Worth
    <3> QED
      BY <2>2, <2>3, <3>1
  <2> QED
    BY <2>4, <2>5
<1>9. ASSUME NEW x \in Ch, x # c, Untold(m, x) PROVE Untold(n, x)
  BY <1>1, <1>2, <1>4, <1>5, <1>9 DEF Untold, NoUpdate
<1> QED
  BY <1>4, <1>5, <1>7, <1>8, <1>9

LEMMA RecvCreditKeeps ==
    ASSUME IInv, NEW e \in End, NEW c \in Ch, RecvCredit(e, c)
    PROVE  IInv'
<1> DEFINE m == ep[e]
           t == m.taken[c]
           r == ReturnCredit(m, c, t)
           n == [r EXCEPT !.taken[c] = 0]
<1>1. /\ Types /\ Local(e, m) /\ Becomes(e, n) /\ Histories' /\ t > 0
  BY DEF IInv, Types, Flags, Histories, RecvCredit
<1>2. IsEnd(e, m) /\ DOMAIN m = Fields /\ Accounted(m) /\ NotRetired(m) /\ t \in Nat
  BY <1>1, NumbersAre DEF Local, IsEnd
<1>3. PICK a \in Nat, b \in Nat, u \in Nat :
        a = Len(m.asm[c]) /\ b = Total(m.rx[c]) /\ u = m.unacked[c]
  BY <1>2, NumbersAre
<1>4. a + b + t <= u /\ t <= u
  <2>1. a + b + t <= u
    BY <1>2, <1>3 DEF Accounted, Unread
  <2> HIDE DEF t
  <2> QED
    BY <1>2, <1>3, <2>1
<1> HIDE DEF m
<1>5. CASE Closed(m) \/ c \notin m.chans
  <2>1. n = [m EXCEPT !.taken[c] = 0]
    BY <1>5 DEF ReturnCredit
  <2>2. m.taken \in [Ch -> 0 .. MaxFrame]
    BY <1>2 DEF IsEnd
  <2>3. /\ DOMAIN n = Fields /\ n.rx = m.rx /\ n.taken = [m.taken EXCEPT ![c] = 0]
        /\ n.credit = m.credit
        /\ n.reason = m.reason /\ n.nextLocal = m.nextLocal /\ n.chans = m.chans
        /\ n.retired = m.retired /\ n.urgent = m.urgent /\ n.out = m.out
        /\ n.asm = m.asm /\ n.unacked = m.unacked /\ n.todo = m.todo /\ n.held = m.held
        /\ n.send = m.send /\ n.recv = m.recv /\ n.acceptQ = m.acceptQ
    BY <1>2, <2>1 DEF Fields
  <2> HIDE DEF n, t, r
  <2>4. /\ n.taken \in [Ch -> 0 .. MaxFrame] /\ n.taken[c] = 0
        /\ \A x \in Ch : x # c => n.taken[x] = m.taken[x]
    BY <2>2, <2>3, ConstantsAre
  <2>5. IsEnd(e, n)
    BY <1>2, <2>3, <2>4 DEF IsEnd
  <2>6. Accounted(n)
    <3>1. Unread(n, c) <= n.unacked[c]
      <4>1. Unread(n, c) = a + b + 0
        BY <1>3, <2>3, <2>4 DEF Unread
      <4> QED
        BY <1>2, <1>3, <1>4, <2>3, <4>1
    <3> QED
      BY <1>2, <2>3, <2>4, <3>1 DEF Accounted, Unread
  <2>7. Local(e, n)
    BY <1>2, <2>3, <2>5, <2>6 DEF Local, NotRetired
  <2>8. Gently(m, n)
    BY <2>3, <2>4 DEF Gently, Closed, Silent
  <2>9. Even(m, n)
    BY <2>3 DEF Even, Untold, Stake, Debt
  <2> QED
    BY <1>1, <2>7, <2>8, <2>9, BecomesKeeps DEF Fine, m
<1>6. CASE ~Closed(m) /\ c \in m.chans
  <2>1. /\ IsEnd(e, r) /\ r.unacked[c] = m.unacked[c] - t
        /\ \A x \in Ch : x # c => r.unacked[x] = m.unacked[x]
        /\ DOMAIN r = Fields /\ r.credit = m.credit
        /\ r.reason = m.reason /\ r.nextLocal = m.nextLocal /\ r.chans = m.chans
        /\ r.retired = m.retired /\ r.out = m.out /\ r.rx = m.rx /\ r.taken = m.taken
        /\ r.asm = m.asm /\ r.todo = m.todo /\ r.held = m.held
        /\ r.send = m.send /\ r.recv = m.recv /\ r.acceptQ = m.acceptQ
        /\ \A x \in Ch : /\ Debt(r, x) = Debt(m, x)
                         /\ x # c /\ Untold(m, x) => Untold(r, x)
    <3> HIDE DEF r, t
    <3> QED
      BY <1>2, <1>3, <1>4, <1>6, ReturnIs DEF r
  <2>2. m.taken \in [Ch -> 0 .. MaxFrame]
    BY <1>2 DEF IsEnd
  <2> HIDE DEF r
  <2>3. /\ DOMAIN n = Fields /\ n.rx = m.rx /\ n.taken = [m.taken EXCEPT ![c] = 0]
        /\ n.credit = m.credit
        /\ n.reason = m.reason /\ n.nextLocal = m.nextLocal /\ n.chans = m.chans
        /\ n.retired = m.retired /\ n.urgent = r.urgent /\ n.out = m.out
        /\ n.asm = m.asm /\ n.unacked = r.unacked /\ n.todo = m.todo /\ n.held = m.held
        /\ n.send = m.send /\ n.recv = m.recv /\ n.acceptQ = m.acceptQ
    BY <2>1 DEF Fields
  <2> HIDE DEF n, t
  <2>4. /\ n.taken \in [Ch -> 0 .. MaxFrame] /\ n.taken[c] = 0
        /\ \A x \in Ch : x # c => n.taken[x] = m.taken[x]
    BY <2>2, <2>3, ConstantsAre
  <2>5. IsEnd(e, n)
    BY <2>1, <2>3, <2>4 DEF IsEnd
  <2>6. Accounted(n)
    <3>1. Unread(n, c) <= n.unacked[c]
      <4>1. Unread(n, c) = a + b + 0
        BY <1>3, <2>3, <2>4 DEF Unread
      <4>2. n.unacked[c] = u - t
        BY <1>3, <2>1, <2>3
      <4> QED
        BY <1>2, <1>3, <1>4, <4>1, <4>2, SMTT(20)
    <3> QED
      BY <1>2, <2>1, <2>3, <2>4, <3>1 DEF Accounted, Unread
  <2>7. Local(e, n)
    BY <1>2, <2>3, <2>5, <2>6 DEF Local, NotRetired
  <2>8. Gently(m, n)
    BY <2>3, <2>4 DEF Gently, Closed, Silent
  <2>9. Even(m, n)
    <3>1. ~Untold(m, c)
      BY <1>1, <1>2, <1>3, <1>4 DEF Untold, t
    <3>2. \A x \in Ch : Debt(n, x) = Debt(m, x) /\ Stake(n, x) = Stake(m, x)
      BY <2>1, <2>3 DEF Debt, Stake
    <3>3. \A x \in Ch : x # c /\ Untold(m, x) => Untold(n, x)
      BY <2>1, <2>3 DEF Untold
    <3> QED
      BY <3>1, <3>2, <3>3 DEF Even
  <2> QED
    BY <1>1, <2>7, <2>8, <2>9, BecomesKeeps DEF Fine, m
<1> QED
  BY <1>5, <1>6

LEMMA StayKeeps ==
    ASSUME IInv, ep' = ep, wire' = wire, alive' = alive, Flags'
    PROVE  IInv'
<1>1. Types'
  BY DEF IInv, Types
<1>2. Order' /\ UnusedIdle'
  BY DEF IInv, Order, UnusedIdle, Unused
<1>3. HiddenIdle'
  BY DEF IInv, HiddenIdle, Hidden
<1>4. Conserved'
  BY DEF IInv, Conserved, Joined, Balanced
<1> QED
  BY <1>1, <1>2, <1>3, <1>4 DEF IInv

LEMMA RecvEndKeeps ==
    ASSUME IInv, NEW e \in End, NEW c \in Ch, RecvEnd(e, c)
    PROVE  IInv'
<1>1. /\ ep' = ep /\ wire' = wire /\ fin' = fin /\ alive' = alive /\ Types
      /\ \E v : hist' = [hist EXCEPT ![e].ended[c] = v]
  BY DEF RecvEnd, IInv
<1>2. PICK v : hist' = [hist EXCEPT ![e].ended[c] = v]
  BY <1>1
<1>3. Histories'
  <2>1. /\ DOMAIN hist = End
        /\ \A x \in End : /\ DOMAIN hist[x] = {"frames", "got", "ended", "givenUp", "closedHere", "torn"}
                          /\ hist[x].frames \in [Ch -> Seq(Nat)]
    BY <1>1 DEF Types, Flags, Histories
  <2>2. /\ DOMAIN hist' = End /\ \A x \in End : x # e => hist'[x] = hist[x]
        /\ hist'[e] = [hist[e] EXCEPT !.ended[c] = v]
    BY <1>2, <2>1
  <2>3. DOMAIN hist'[e] = DOMAIN hist[e] /\ hist'[e].frames = hist[e].frames
    BY <2>1, <2>2
  <2> QED
    BY <2>1, <2>2, <2>3 DEF Histories
<1>4. Flags'
  BY <1>1, <1>3 DEF Types, Flags
<1> QED
  BY <1>1, <1>4, StayKeeps
-----------------------------------------------------------------------------
(* Handles are dropped, channels and connections closed. *)

LEMMA FineTwice ==
    ASSUME NEW e, NEW m, NEW n, NEW o, Fine(e, m, n), Fine(e, n, o)
    PROVE  Fine(e, m, o)
<1>1. Gently(m, o)
  BY DEF Fine, Gently
<1>2. Even(m, o)
  <2>1. /\ \A c \in Ch : Untold(m, c) => Untold(n, c)
        /\ \A c \in Ch : Untold(n, c) => Untold(o, c)
        /\ \A c \in Ch : c \in o.chans => c \in n.chans
        /\ \A c \in Ch : c \in n.chans => Stake(n, c) = Stake(m, c) /\ Debt(n, c) = Debt(m, c)
        /\ \A c \in Ch : c \in o.chans => Stake(o, c) = Stake(n, c) /\ Debt(o, c) = Debt(n, c)
    BY DEF Fine, Even, Gently
  <2> QED
    BY <2>1 DEF Even
<1> QED
  BY <1>1, <1>2 DEF Fine

\* What an end gives up of its handles, calls and unread frames.
Released(m, n) ==
    /\ DOMAIN n = Fields
    /\ n.reason = m.reason /\ n.nextLocal = m.nextLocal /\ n.chans = m.chans
    /\ n.retired = m.retired /\ n.urgent = m.urgent /\ n.out = m.out
    /\ n.credit = m.credit /\ n.asm = m.asm /\ n.unacked = m.unacked
    /\ n.held = m.held /\ n.taken = m.taken
    /\ n.acceptQ \in Seq(Ch) /\ n.send \subseteq m.send /\ n.recv \subseteq m.recv
    /\ n.todo \in [Ch -> Seq(Byte)] /\ n.rx \in [Ch -> Seq(Frame)]
    /\ \A c \in Ch : /\ n.todo[c] = m.todo[c] \/ n.todo[c] = <<>>
                     /\ n.rx[c] = m.rx[c] \/ n.rx[c] = <<>>

LEMMA ReleasedIsFine ==
    ASSUME NEW e, NEW m, NEW n, Local(e, m), Released(m, n)
    PROVE  Fine(e, m, n)
<1>1. IsEnd(e, n)
  <2>1. n.send \subseteq Ch /\ n.recv \subseteq Ch
    BY DEF Local, IsEnd, Released
  <2> QED
    BY <2>1 DEF Local, IsEnd, Released
<1>2. Accounted(n)
  <2> SUFFICES ASSUME NEW c \in Ch PROVE Unread(n, c) <= n.unacked[c]
    BY DEF Accounted
  <2>1. n.asm = m.asm /\ n.taken = m.taken /\ n.unacked = m.unacked
    BY DEF Released
  <2>2. Unread(m, c) <= m.unacked[c] /\ IsEnd(e, m)
    BY DEF Local, Accounted
  <2>3. CASE n.rx[c] = m.rx[c]
    BY <2>1, <2>2, <2>3 DEF Unread
  <2>4. CASE n.rx[c] = <<>>
    <3>1. Len(m.asm[c]) \in Nat /\ Total(m.rx[c]) \in Nat /\ m.taken[c] \in Nat /\ m.unacked[c] \in Nat
      BY <2>2, NumbersAre
    <3>2. PICK a \in Nat, t \in Nat, k \in Nat, u \in Nat :
            a = Len(m.asm[c]) /\ t = Total(m.rx[c]) /\ k = m.taken[c] /\ u = m.unacked[c]
      BY <3>1
    <3>3. a + t + k <= u
      BY <2>2, <3>2 DEF Unread
    <3>4. Unread(n, c) = a + 0 + k
      BY <2>1, <2>4, <3>2, TotalEmpty DEF Unread
    <3>5. a + 0 + k <= u
      BY <3>3
    <3> QED
      BY <2>1, <3>2, <3>4, <3>5
  <2> QED
    BY <2>3, <2>4 DEF Released
<1>3. NotRetired(n)
  BY DEF Local, NotRetired, Released
<1>4. Gently(m, n)
  BY DEF Released, Gently, Closed, Silent
<1>5. Even(m, n)
  BY DEF Released, Even, Untold, Stake, Debt
<1> QED
  BY <1>1, <1>2, <1>3, <1>4, <1>5 DEF Fine, Local

LEMMA RetireIs ==
    ASSUME NEW m, DOMAIN m = Fields, m.retired \in Seq(Ch), NEW c \in Ch,
           NEW n, n = Retire(m, c)
    PROVE  /\ n = [m EXCEPT !.retired = n.retired]
           /\ n.retired \in Seq(Ch) /\ Range(n.retired) \subseteq Range(m.retired) \cup {c}
<1> DEFINE order == IF c \in Range(m.retired) THEN m.retired ELSE Append(m.retired, c)
           kept == IF Len(order) > RetiredMemory THEN Tail(order) ELSE order
<1>1. order \in Seq(Ch) /\ Range(order) \subseteq Range(m.retired) \cup {c}
  <2>1. Append(m.retired, c) \in Seq(Ch)
    OBVIOUS
  <2>2. Range(Append(m.retired, c)) \subseteq Range(m.retired) \cup {c}
    BY DEF Range
  <2> QED
    BY <2>1, <2>2
<1>2. n = [m EXCEPT !.retired = kept]
  BY DEF Retire
<1> HIDE DEF order
<1>3. kept \in Seq(Ch) /\ Range(kept) \subseteq Range(order)
  <2>1. CASE Len(order) > RetiredMemory
    <3>1. order # <<>>
      BY <2>1, ConstantsAre
    <3>2. Tail(order) \in Seq(Ch) /\ \A i \in DOMAIN Tail(order) : Tail(order)[i] = order[i + 1] /\ i + 1 \in DOMAIN order
      BY <1>1, <3>1
    <3> QED
      BY <2>1, <3>2 DEF Range
  <2>2. CASE ~(Len(order) > RetiredMemory)
    BY <1>1, <2>2
  <2> QED
    BY <2>1, <2>2
<1>4. n.retired = kept
  BY <1>2 DEF Fields
<1> QED
  BY <1>1, <1>2, <1>3, <1>4

LEMMA CloseChannelIsFine ==
    ASSUME NEW e, NEW m, Local(e, m), NEW c \in Ch, NEW n, n = CloseChannel(m, c)
    PROVE  Fine(e, m, n)
<1>1. CASE Closed(m) \/ c \notin m.chans
  BY <1>1 DEF CloseChannel, Fine, Gently, Even
<1>2. CASE ~Closed(m) /\ c \in m.chans
  <2> DEFINE s == ResetSeg(c)
             o == [m EXCEPT !.chans = @ \ {c}, !.out[c] = Append(@, s)]
  <2>1. /\ IsEnd(e, m) /\ NotRetired(m) /\ Accounted(m) /\ DOMAIN m = Fields
        /\ m.retired \in Seq(Ch) /\ DOMAIN m.out = Ch
        /\ \A x \in Ch : m.out[x] \in Seq(Sendable(e, x)) /\ m.out[x] \in Seq(Segment)
    BY QueuesAre DEF Local, IsEnd
  <2>2. s \in Segment /\ s \in Sendable(e, c) /\ s.kind = "RESET" /\ s.ch = c
    BY DEF ResetSeg, Segment, Sendable
  <2>3. /\ DOMAIN o = Fields /\ o.chans = m.chans \ {c} /\ o.out = [m.out EXCEPT ![c] = Append(@, s)]
        /\ o.retired = m.retired
        /\ o.reason = m.reason /\ o.nextLocal = m.nextLocal /\ o.urgent = m.urgent
        /\ o.credit = m.credit /\ o.asm = m.asm /\ o.unacked = m.unacked /\ o.rx = m.rx
        /\ o.send = m.send /\ o.recv = m.recv /\ o.acceptQ = m.acceptQ
        /\ o.todo = m.todo /\ o.held = m.held /\ o.taken = m.taken
    BY <2>1 DEF Fields
  <2>4. n = Retire(o, c)
    BY <1>2 DEF CloseChannel
  <2> HIDE DEF o, s
  <2>5. /\ n = [o EXCEPT !.retired = n.retired]
        /\ n.retired \in Seq(Ch) /\ Range(n.retired) \subseteq Range(m.retired) \cup {c}
    BY <2>1, <2>3, <2>4, RetireIs
  <2>6. /\ DOMAIN n = Fields /\ n.chans = m.chans \ {c} /\ n.out = [m.out EXCEPT ![c] = Append(@, s)]
        /\ n.reason = m.reason /\ n.nextLocal = m.nextLocal /\ n.urgent = m.urgent
        /\ n.credit = m.credit /\ n.asm = m.asm /\ n.unacked = m.unacked /\ n.rx = m.rx
        /\ n.send = m.send /\ n.recv = m.recv /\ n.acceptQ = m.acceptQ
        /\ n.todo = m.todo /\ n.held = m.held /\ n.taken = m.taken
    BY <2>3, <2>5 DEF Fields
  <2>7. /\ DOMAIN n.out = Ch /\ n.out[c] = Append(m.out[c], s)
        /\ \A x \in Ch : x # c => n.out[x] = m.out[x]
    BY <2>1, <2>6
  <2>8. \A x \in Ch : n.out[x] \in Seq(Sendable(e, x))
    <3>1. n.out[c] \in Seq(Sendable(e, c))
      BY <2>1, <2>2, <2>7
    <3> QED
      BY <2>1, <2>7, <3>1
  <2>9. IsEnd(e, n)
    BY <2>1, <2>5, <2>6, <2>7, <2>8 DEF IsEnd
  <2>10. NotRetired(n) /\ Accounted(n)
    BY <2>1, <2>5, <2>6 DEF NotRetired, Accounted, Unread
  <2>11. Gently(m, n)
    <3>1. \A i \in DOMAIN n.out[c] : IsOpen(n.out[c][i], c) =>
            i \in DOMAIN m.out[c] /\ IsOpen(m.out[c][i], c)
      BY <2>1, <2>2, <2>7 DEF IsOpen
    <3> QED
      BY <1>2, <2>6, <2>7, <3>1 DEF Gently, Closed, Silent
  <2>12. Even(m, n)
    BY <2>6, <2>7 DEF Even, Untold, Stake, Debt
  <2> QED
    BY <2>9, <2>10, <2>11, <2>12 DEF Fine, Local
<1> QED
  BY <1>1, <1>2

LEMMA NotingIs ==
    ASSUME Histories, NEW e \in End, NEW m, NEW lost, NEW gone,
           \/ hist' = [hist EXCEPT ![e] = Noting(e, m, @)]
           \/ hist' = [hist EXCEPT ![e] =
                         [Noting(e, m, hist[e]) EXCEPT !.closedHere = @ \union gone,
                                                       !.givenUp = @ \union lost]]
    PROVE  Histories'
<1>1. /\ DOMAIN hist = End
      /\ \A x \in End : /\ DOMAIN hist[x] = {"frames", "got", "ended", "givenUp", "closedHere", "torn"}
                        /\ hist[x].frames \in [Ch -> Seq(Nat)]
  BY DEF Histories
<1> DEFINE h == Noting(e, m, hist[e])
<1>2. DOMAIN h = DOMAIN hist[e] /\ h.frames = hist[e].frames
  BY <1>1 DEF Noting
<1> HIDE DEF h
<1>3. DOMAIN hist' = End /\ \A x \in End : x # e => hist'[x] = hist[x]
  BY <1>1
<1>4. DOMAIN hist'[e] = DOMAIN hist[e] /\ hist'[e].frames = hist[e].frames
  <2>1. CASE hist'[e] = h
    BY <1>2, <2>1
  <2>2. CASE hist'[e] = [h EXCEPT !.closedHere = @ \union gone, !.givenUp = @ \union lost]
    BY <1>1, <1>2, <2>2
  <2> QED
    BY <1>1, <2>1, <2>2 DEF h
<1> QED
  BY <1>1, <1>3, <1>4 DEF Histories

LEMMA DropsKeeps ==
    ASSUME IInv, NEW e \in End, NEW c \in Ch, NEW n, Released(ep[e], n),
           NEW last \in BOOLEAN, NEW givenUp \in BOOLEAN, Drops(e, n, c, last, givenUp)
    PROVE  IInv'
<1> DEFINE m == ep[e]
           after == IF last THEN CloseChannel(n, c) ELSE n
<1>1. Types /\ Local(e, m) /\ Histories
  BY DEF IInv, Types, Flags
<1>2. Fine(e, m, n)
  BY <1>1, ReleasedIsFine
<1>3. Fine(e, m, after)
  <2>1. CASE last
    <3>1. Fine(e, n, CloseChannel(n, c))
      BY <1>2, CloseChannelIsFine DEF Fine
    <3> QED
      BY <1>2, <2>1, <3>1, FineTwice
  <2>2. CASE ~last
    BY <1>2, <2>2
  <2> QED
    BY <2>1, <2>2
<1>4. Becomes(e, after)
  BY DEF Drops
<1>5. Histories'
  <2>1. hist' = [hist EXCEPT ![e] =
                   [Noting(e, after, hist[e]) EXCEPT
                      !.closedHere = @ \union (m.chans \ after.chans),
                      !.givenUp = @ \union (IF givenUp THEN {c} ELSE {})]]
    BY DEF Drops
  <2> HIDE DEF after
  <2> QED
    BY <1>1, <2>1, NotingIs
<1> QED
  BY <1>3, <1>4, <1>5, BecomesKeeps

LEMMA FinishKeeps ==
    ASSUME IInv, NEW e \in End, NEW c \in Ch, Finish(e, c)
    PROVE  IInv'
<1> DEFINE m == ep[e]
           n == [m EXCEPT !.send = @ \ {c}]
<1>1. IsEnd(e, m) /\ DOMAIN m = Fields /\ m.todo \in [Ch -> Seq(Byte)] /\ m.rx \in [Ch -> Seq(Frame)]
  BY DEF IInv, Types, Local, IsEnd
<1>2. Released(m, n)
  BY <1>1 DEF Released, Fields, IsEnd
<1>3. Drops(e, n, c, TRUE, FALSE)
  BY DEF Finish
<1> HIDE DEF n
<1> QED
  BY <1>2, <1>3, DropsKeeps

LEMMA DropSendKeeps ==
    ASSUME IInv, NEW e \in End, NEW c \in Ch, DropSend(e, c)
    PROVE  IInv'
<1> DEFINE m == ep[e]
           n == [m EXCEPT !.send = @ \ {c}, !.todo[c] = <<>>]
<1>1. IsEnd(e, m) /\ DOMAIN m = Fields /\ m.todo \in [Ch -> Seq(Byte)] /\ m.rx \in [Ch -> Seq(Frame)]
  BY DEF IInv, Types, Local, IsEnd
<1>2. n.todo = [m.todo EXCEPT ![c] = <<>>] /\ n.todo \in [Ch -> Seq(Byte)]
  BY <1>1 DEF Fields
<1>3. Released(m, n)
  BY <1>1, <1>2 DEF Released, Fields, IsEnd
<1>4. Drops(e, n, c, c \notin n.recv, Sending(m, c))
  BY DEF DropSend
<1> HIDE DEF n
<1> QED
  BY <1>3, <1>4, DropsKeeps DEF Sending

LEMMA DropRecvKeeps ==
    ASSUME IInv, NEW e \in End, NEW c \in Ch, DropRecv(e, c)
    PROVE  IInv'
<1> DEFINE m == ep[e]
           n == [m EXCEPT !.recv = @ \ {c}, !.rx[c] = <<>>]
<1>1. IsEnd(e, m) /\ DOMAIN m = Fields /\ m.todo \in [Ch -> Seq(Byte)] /\ m.rx \in [Ch -> Seq(Frame)]
  BY DEF IInv, Types, Local, IsEnd
<1>2. Released(m, n)
  BY SMTT(30), <1>1 DEF Released, Fields, IsEnd
<1>3. Drops(e, n, c, c \notin n.send, FALSE)
  BY DEF DropRecv
<1> HIDE DEF n
<1> QED
  BY <1>2, <1>3, DropsKeeps

LEMMA ShutdownIsFine ==
    ASSUME NEW e, NEW m, Local(e, m), NEW why, NEW n, n = Shutdown(m, why)
    PROVE  Fine(e, m, n)
<1>1. CASE Closed(m)
  BY <1>1 DEF Shutdown, Fine, Gently, Even
<1>2. CASE ~Closed(m)
  <2>1. DOMAIN m = Fields
    BY DEF Local, IsEnd
  <2>2. /\ DOMAIN n = Fields /\ n.chans = {} /\ n.out = Each(<<>>) /\ n.urgent = <<>>
        /\ n.nextLocal = m.nextLocal /\ n.retired = m.retired
        /\ n.credit = m.credit /\ n.asm = m.asm /\ n.unacked = m.unacked /\ n.rx = m.rx
        /\ n.send = m.send /\ n.recv = m.recv /\ n.acceptQ = m.acceptQ
        /\ n.todo = m.todo /\ n.held = m.held /\ n.taken = m.taken
    BY <1>2, <2>1 DEF Shutdown, Fields
  <2>3. DOMAIN n.out = Ch /\ \A c \in Ch : n.out[c] = <<>> /\ n.out[c] \in Seq(Sendable(e, c))
    BY <2>2 DEF Each
  <2>4. n.urgent \in Seq(Updates)
    BY <2>2
  <2>5. IsEnd(e, n)
    BY <2>2, <2>3, <2>4 DEF Local, IsEnd
  <2>6. NotRetired(n) /\ Accounted(n)
    BY <2>2 DEF Local, NotRetired, Accounted, Unread
  <2>7. Gently(m, n)
    BY <1>2, <2>2, <2>3 DEF Gently, Silent, IsOpen
  <2>8. Even(m, n)
    BY <2>2 DEF Even, Untold, NoUpdate
  <2> QED
    BY <2>5, <2>6, <2>7, <2>8 DEF Fine, Local
<1> QED
  BY <1>1, <1>2

LEMMA EndsKeeps ==
    ASSUME IInv, NEW e \in End, NEW why, Ends(e, why)
    PROVE  IInv'
<1> DEFINE n == Shutdown(ep[e], why)
<1>1. Local(e, ep[e]) /\ Histories
  BY DEF IInv, Types, Flags
<1>2. Fine(e, ep[e], n)
  BY <1>1, ShutdownIsFine
<1>3. Becomes(e, n) /\ hist' = [hist EXCEPT ![e] = Noting(e, n, @)]
  BY DEF Ends
<1> HIDE DEF n
<1>4. Histories'
  BY <1>1, <1>3, NotingIs
<1> QED
  BY <1>2, <1>3, <1>4, BecomesKeeps
-----------------------------------------------------------------------------
(* A Mux is dropped. *)

LEMMA LeastNumber ==
    ASSUME NEW T \in SUBSET Nat, T # {}
    PROVE  \E n \in T : \A k \in T : n <= k
<1>1. PICK n \in T : \A k \in T : ~(<<k, n>> \in OpToRel(<, Nat))
  BY NatLessThanWellFounded, WFMin
<1>2. \A k \in T : ~(k < n)
  BY <1>1 DEF OpToRel
<1> QED
  BY <1>2

\* A set that holds 0, and with each number below k the next, holds 0 .. k.
LEMMA Climb ==
    ASSUME NEW k \in Nat, NEW T, 0 \in T,
           \A i \in 0 .. k : i < k /\ i \in T => i + 1 \in T
    PROVE  \A i \in 0 .. k : i \in T
<1> SUFFICES ASSUME NEW i \in 0 .. k, i \notin T PROVE FALSE
  OBVIOUS
<1> DEFINE B == {j \in 0 .. k : j \notin T}
<1>1. PICK j \in B : \A x \in B : j <= x
  <2>1. B \in SUBSET Nat /\ B # {}
    OBVIOUS
  <2> HIDE DEF B
  <2> QED
    BY <2>1, LeastNumber
<1>2. j \in 0 .. k /\ j # 0 /\ j \notin T
  BY <1>1
<1>3. j - 1 \in 0 .. k /\ j - 1 < k /\ j - 1 \in T
  BY <1>1, <1>2
<1>4. (j - 1) + 1 \in T
  BY <1>3
<1> QED
  BY <1>2, <1>4

LEMMA CloseUnacceptedIs ==
    ASSUME NEW m, NEW k \in Nat, Len(m.acceptQ) = k
    PROVE  \E f : /\ f = [i \in 0 .. k |->
                            IF i = 0 THEN m ELSE CloseChannel(f[i - 1], m.acceptQ[i])]
                  /\ CloseUnaccepted(m) = f[k]
<1> DEFINE q == m.acceptQ
           Is(f, j) == f = [i \in 0 .. j |-> IF i = 0 THEN m ELSE CloseChannel(f[i - 1], q[i])]
           F == CHOOSE f : Is(f, k)
           T == {j \in 0 .. k : \E f : Is(f, j)}
<1>1. CloseUnaccepted(m) = F[k]
  BY DEF CloseUnaccepted
<1>2. \E f : Is(f, 0)
  <2>1. Is([i \in 0 .. 0 |-> m], 0)
    OBVIOUS
  <2> QED
    BY <2>1
<1>3. ASSUME NEW j \in 0 .. k, j < k, NEW g, Is(g, j) PROVE \E f : Is(f, j + 1)
  <2> DEFINE f == [i \in 0 .. j + 1 |-> IF i = j + 1 THEN CloseChannel(g[j], q[j + 1]) ELSE g[i]]
  <2>1. \A i \in 0 .. j : f[i] = g[i] /\ g[i] = IF i = 0 THEN m ELSE CloseChannel(g[i - 1], q[i])
    BY <1>3
  <2>2. f[j + 1] = CloseChannel(f[j], q[j + 1])
    BY <2>1
  <2>3. f = [i \in 0 .. j + 1 |-> f[i]]
    OBVIOUS
  <2> HIDE DEF f
  <2>4. ASSUME NEW i \in 0 .. j + 1 PROVE f[i] = IF i = 0 THEN m ELSE CloseChannel(f[i - 1], q[i])
    <3>1. CASE i = j + 1
      BY <2>2, <3>1
    <3>2. CASE i \in 0 .. j
      BY <2>1, <3>2
    <3> QED
      BY <3>1, <3>2
  <2>5. Is(f, j + 1)
    BY <2>3, <2>4
  <2> QED
    BY <2>5
<1>4. \A j \in 0 .. k : j \in T
  <2>1. 0 \in T /\ \A j \in 0 .. k : j < k /\ j \in T => j + 1 \in T
    <3> HIDE DEF Is
    <3>1. \A j \in 0 .. k : j < k => j + 1 \in 0 .. k
      OBVIOUS
    <3> QED
      BY <1>2, <1>3, <3>1
  <2> HIDE DEF T
  <2> QED
    BY <2>1, Climb
<1>5. Is(F, k)
  <2>1. \E f : Is(f, k)
    BY <1>4
  <2> HIDE DEF Is
  <2> QED
    BY <2>1
<1> QED
  BY <1>1, <1>5

LEMMA CloseUnacceptedIsFine ==
    ASSUME NEW e, NEW m, Local(e, m), NEW n, n = CloseUnaccepted(m)
    PROVE  Fine(e, m, n)
<1> DEFINE q == m.acceptQ
           k == Len(q)
<1>1. q \in Seq(Ch) /\ k \in Nat
  BY DEF Local, IsEnd
<1>2. PICK f : /\ f = [i \in 0 .. k |-> IF i = 0 THEN m ELSE CloseChannel(f[i - 1], q[i])]
               /\ n = f[k]
  BY <1>1, CloseUnacceptedIs
<1> DEFINE T == {i \in 0 .. k : Fine(e, m, f[i])}
<1>3. 0 \in T
  <2>1. f[0] = m
    BY <1>1, <1>2
  <2>2. Fine(e, m, m)
    BY DEF Fine, Gently, Even
  <2> QED
    BY <1>1, <2>1, <2>2
<1>4. ASSUME NEW i \in 0 .. k, i < k, i \in T PROVE i + 1 \in T
  <2>1. f[i + 1] = CloseChannel(f[i], q[i + 1])
    <3>1. i + 1 \in 0 .. k /\ i + 1 # 0 /\ (i + 1) - 1 = i
      BY <1>1, <1>4
    <3> HIDE DEF k
    <3> QED
      BY <1>2, <3>1
  <2>2. q[i + 1] \in Ch
    BY <1>1, <1>4
  <2>3. Fine(e, m, f[i]) /\ Local(e, f[i])
    BY <1>4 DEF Fine
  <2>4. Fine(e, f[i], f[i + 1])
    BY <2>1, <2>2, <2>3, CloseChannelIsFine
  <2>5. Fine(e, m, f[i + 1])
    BY <2>3, <2>4, FineTwice
  <2> QED
    BY <1>1, <1>4, <2>5
<1>5. k \in T
  <2> HIDE DEF T, k
  <2>1. \A i \in 0 .. k : i \in T
    BY <1>1, <1>3, <1>4, Climb
  <2> QED
    BY <1>1, <2>1
<1> QED
  BY <1>2, <1>5

LEMMA DropMuxKeeps ==
    ASSUME IInv, NEW e \in End, DropMux(e)
    PROVE  IInv'
<1> DEFINE p == Peer(e)
           m == ep[e]
           o == CloseUnaccepted(m)
           gone == Range(m.acceptQ)
           n == [o EXCEPT !.acceptQ = <<>>, !.send = @ \ gone, !.recv = @ \ gone]
<1>1. p \in End /\ p # e
  BY PeerIs
<1>2. /\ Types /\ Local(e, m) /\ DOMAIN ep = End /\ DOMAIN wire = End /\ Flags
      /\ wire[e] \in Seq(Segment)
  BY EndsAre DEF IInv, Types
<1>3. Fine(e, m, n)
  <2>1. Fine(e, m, o)
    BY <1>2, CloseUnacceptedIsFine
  <2>2. IsEnd(e, o) /\ Local(e, o)
    BY <2>1 DEF Fine, Local
  <2>3. Released(o, n)
    <3> HIDE DEF o, gone
    <3>1. DOMAIN o = Fields
      BY <2>2 DEF IsEnd
    <3>2. n.acceptQ \in Seq(Ch)
      BY <3>1 DEF Fields
    <3> QED
      BY <2>2, <3>1, <3>2 DEF Released, Fields, IsEnd
  <2> HIDE DEF o, n
  <2> QED
    BY <2>1, <2>2, <2>3, ReleasedIsFine, FineTwice
<1>4. DOMAIN ep' = End /\ ep'[p] = ep[p] /\ ep'[e] = n
  BY <1>1, <1>2 DEF DropMux
<1> HIDE DEF n
<1>5. /\ alive' = [alive EXCEPT ![e] = FALSE] /\ hist' = hist
      /\ \/ /\ \E k \in 0 .. Len(wire[e]) : wire' = [wire EXCEPT ![e] = SubSeq(@, 1, k)]
            /\ \E how \in {"eof", "cut"} : fin' = [fin EXCEPT ![e] = how]
         \/ wire' = wire /\ fin' = fin
  BY DEF DropMux
<1>6. /\ Flags' /\ ~alive'[e] /\ \A x \in End : alive'[x] => alive[x]
  BY <1>2, <1>5 DEF Flags, Histories
<1>7. DOMAIN wire' = End /\ wire'[p] = wire[p] /\ Shortened(wire[e], wire'[e]) /\ wire'[e] \in Seq(Segment)
  <2>1. CASE wire' = wire
    BY <1>2, <2>1 DEF Shortened
  <2>2. ASSUME NEW k \in 0 .. Len(wire[e]), wire' = [wire EXCEPT ![e] = SubSeq(@, 1, k)]
        PROVE  DOMAIN wire' = End /\ wire'[p] = wire[p] /\ Shortened(wire[e], wire'[e])
               /\ wire'[e] \in Seq(Segment)
    <3> DEFINE w == wire[e]
    <3>1. /\ w \in Seq(Segment) /\ Len(w) \in Nat /\ DOMAIN w = 1 .. Len(w)
          /\ k \in 0 .. Len(w)
      BY <1>2
    <3>2. DOMAIN wire' = End /\ wire'[p] = wire[p] /\ wire'[e] = SubSeq(w, 1, k)
      BY <1>1, <1>2, <2>2
    <3> HIDE DEF w
    <3>3. \A i \in 1 .. k : w[i] \in Segment
      BY <3>1, <2>2
    <3>4. /\ SubSeq(w, 1, k) \in Seq(Segment) /\ DOMAIN SubSeq(w, 1, k) = 1 .. k
          /\ \A i \in 1 .. k : SubSeq(w, 1, k)[i] = w[i]
      BY <3>1, <3>3
    <3>5. 1 .. k \subseteq DOMAIN w
      BY <3>1
    <3> QED
      BY <3>2, <3>4, <3>5 DEF w, Shortened
  <2> QED
    BY <1>5, <2>1, <2>2
<1>8. Booked(m, n, wire[p], wire'[p])
  BY <1>3, <1>7 DEF Booked, Fine, Even
<1>9. -1 \notin Ch
  BY ChannelsAre
<1>10. Onward(m, ep'[e], -1)
  BY <1>3, <1>4 DEF Fine, Gently, Onward
<1>11. EndStep(e, -1)
  BY <1>3, <1>4, <1>6, <1>7, <1>8, <1>9, <1>10 DEF EndStep, Fine, Gently, Even, Read
<1> QED
  BY <1>11, StepKeeps
-----------------------------------------------------------------------------
(* What the assembler makes of the bytes it holds. *)

\* What can be decoded of asm after i bytes, given what can be after more.
After(asm, f, i) ==
    IF i = Len(asm) \/ i + asm[i + 1].of > Len(asm) THEN <<>>
    ELSE <<SubSeq(asm, i + 1, i + asm[i + 1].of)>> \o f[i + asm[i + 1].of]

LEMMA DeclaredIs ==
    ASSUME NEW asm \in Seq(Byte), NEW i \in 0 .. Len(asm), i # Len(asm)
    PROVE  asm[i + 1].of \in 1 .. MaxFrame /\ asm[i + 1].of \in Nat /\ asm[i + 1].of > 0
<1>1. asm[i + 1] \in Byte
  <2>1. Len(asm) \in Nat /\ \A x \in 1 .. Len(asm) : asm[x] \in Byte
    OBVIOUS
  <2>2. i + 1 \in 1 .. Len(asm)
    BY <2>1
  <2> QED
    BY <2>1, <2>2
<1> QED
  BY <1>1, ConstantsAre DEF Byte

LEMMA WholeFramesIs ==
    ASSUME NEW asm \in Seq(Byte)
    PROVE  \E f : /\ f = [i \in 0 .. Len(asm) |-> After(asm, f, i)]
                  /\ WholeFrames(asm) = f[0]
<1> DEFINE k == Len(asm)
           Is(f, j) == f = [i \in k - j .. k |-> After(asm, f, i)]
           F == CHOOSE f : f = [i \in 0 .. k |-> After(asm, f, i)]
           T == {j \in 0 .. k : \E f : Is(f, j)}
<1>1. WholeFrames(asm) = F[0]
  BY DEF WholeFrames, After
<1>2. k \in Nat
  OBVIOUS
<1>3. \E f : Is(f, 0)
  <2> DEFINE f == [i \in k .. k |-> <<>>]
  <2>1. f = [i \in k - 0 .. k |-> After(asm, f, i)]
    <3>1. k - 0 = k /\ \A i \in k .. k : i = k
      BY <1>2
    <3>2. \A i \in k .. k : After(asm, f, i) = <<>>
      BY <3>1 DEF After
    <3> QED
      BY <3>1, <3>2
  <2> QED
    BY <2>1
<1>4. ASSUME NEW j \in 0 .. k, j < k, NEW g, Is(g, j) PROVE \E f : Is(f, j + 1)
  <2> DEFINE b == k - (j + 1)
             f == [i \in b .. k |-> IF i = b THEN After(asm, g, i) ELSE g[i]]
  <2>1. b \in Nat /\ b + 1 = k - j /\ b < k
    BY <1>2, <1>4
  <2> HIDE DEF b
  <2>2. \A i \in b + 1 .. k : f[i] = g[i] /\ g[i] = After(asm, g, i)
    <3>1. g = [i \in b + 1 .. k |-> After(asm, g, i)]
      BY <1>4, <2>1
    <3> HIDE DEF k
    <3>2. \A i \in b + 1 .. k : i \in b .. k /\ i # b
      BY <1>2, <2>1
    <3> QED
      BY <3>1, <3>2
  <2>3. f[b] = After(asm, g, b) /\ f = [i \in b .. k |-> f[i]]
    <3> HIDE DEF k
    <3>1. b \in b .. k
      BY <1>2, <2>1
    <3> QED
      BY <3>1
  <2> HIDE DEF f
  <2>4. ASSUME NEW i \in b .. k PROVE After(asm, f, i) = After(asm, g, i)
    <3>1. CASE i = k \/ i + asm[i + 1].of > k
      BY <3>1 DEF After
    <3>2. CASE ~(i = k \/ i + asm[i + 1].of > k)
      <4>1. asm[i + 1].of \in Nat /\ asm[i + 1].of > 0
        BY <1>2, <2>1, <3>2, DeclaredIs
      <4>2. i + asm[i + 1].of \in b + 1 .. k
        BY <1>2, <2>1, <3>2, <4>1
      <4>3. f[i + asm[i + 1].of] = g[i + asm[i + 1].of]
        BY <2>2, <4>2
      <4> QED
        BY <3>2, <4>3 DEF After
    <3> QED
      BY <3>1, <3>2
  <2>5. ASSUME NEW i \in b .. k PROVE f[i] = After(asm, f, i)
    <3>1. CASE i = b
      BY <2>3, <2>4, <3>1
    <3>2. CASE i \in b + 1 .. k
      BY <2>2, <2>4, <3>2
    <3> QED
      BY <1>2, <2>1, <3>1, <3>2
  <2>6. f = [i \in b .. k |-> After(asm, f, i)]
    BY <2>3, <2>5
  <2> QED
    BY <2>6 DEF b
<1>5. \A j \in 0 .. k : j \in T
  <2>1. 0 \in T /\ \A j \in 0 .. k : j < k /\ j \in T => j + 1 \in T
    <3> HIDE DEF Is, k
    <3>1. \A j \in 0 .. k : j < k => j + 1 \in 0 .. k
      BY <1>2
    <3> QED
      BY <1>2, <1>3, <1>4, <3>1
  <2> HIDE DEF T, k
  <2> QED
    BY <1>2, <2>1, Climb
<1>6. \E f : f = [i \in 0 .. k |-> After(asm, f, i)]
  <2>1. \E f : Is(f, k)
    <3> HIDE DEF Is, k
    <3> QED
      BY <1>2, <1>5
  <2>2. k - k = 0
    BY <1>2
  <2> QED
    BY <2>1, <2>2
<1>7. F = [i \in 0 .. k |-> After(asm, F, i)]
  BY <1>6
<1> QED
  BY <1>1, <1>7

\* Every frame is whole, and together they are no longer than what was there.
Decodes(asm, f) == f = [i \in 0 .. Len(asm) |-> After(asm, f, i)]

LEMMA FramesFitFrom ==
    ASSUME NEW asm \in Seq(Byte), NEW f, Decodes(asm, f)
    PROVE  \A i \in 0 .. Len(asm) :
             f[i] \in Seq(Frame) /\ Total(f[i]) \in Nat /\ Total(f[i]) <= Len(asm) - i
<1> DEFINE k == Len(asm)
<1>1. k \in Nat
  OBVIOUS
<1>2. f = [i \in 0 .. k |-> After(asm, f, i)]
  BY DEF Decodes
<1> DEFINE Fits(i) == f[i] \in Seq(Frame) /\ Total(f[i]) \in Nat /\ Total(f[i]) <= k - i
           T == {j \in 0 .. k : \A i \in k - j .. k : Fits(i)}
<1>3. ASSUME NEW i \in 0 .. k, \A x \in i + 1 .. k : Fits(x) PROVE Fits(i)
  <2>1. f[i] = After(asm, f, i)
    BY <1>1, <1>2
  <2>2. CASE i = k \/ i + asm[i + 1].of > k
    <3>1. f[i] = <<>>
      BY <2>1, <2>2 DEF After
    <3>2. <<>> \in Seq(Frame)
      OBVIOUS
    <3> QED
      BY <1>1, <3>1, <3>2, TotalEmpty
  <2>3. CASE ~(i = k \/ i + asm[i + 1].of > k)
    <3> DEFINE of == asm[i + 1].of
               s == SubSeq(asm, i + 1, i + of)
               rest == f[i + of]
               one == <<s>>
    <3>1. of \in 1 .. MaxFrame /\ of \in Nat /\ of > 0
      BY <1>1, <2>3, DeclaredIs
    <3>2. f[i] = one \o rest
      BY <2>1, <2>3 DEF After
    <3> HIDE DEF of
    <3>3. i + of \in i + 1 .. k
      BY <1>1, <2>3, <3>1 DEF of
    <3>4. Fits(i + of)
      BY <1>3, <3>3
    <3>5. s \in Seq(Byte) /\ Len(s) = of
      <4>1. \A x \in i + 1 .. i + of : asm[x] \in Byte
        BY <1>1, <3>3
      <4>2. /\ s \in Seq(Byte)
            /\ Len(s) = IF i + 1 <= i + of THEN (i + of) - (i + 1) + 1 ELSE 0
        BY <1>1, <3>1, <4>1, SubSeqProperties
      <4> QED
        BY <1>1, <3>1, <4>2
    <3>6. s \in Frame
      BY <3>1, <3>5 DEF Frame
    <3> HIDE DEF s, rest
    <3>7. one \in Seq(Frame) /\ one \in Seq(Seq(Byte)) /\ Total(one) = of
      BY <3>5, <3>6, TotalOne
    <3> HIDE DEF one
    <3>8. rest \in Seq(Frame) /\ rest \in Seq(Seq(Byte)) /\ Total(rest) \in Nat
          /\ Total(rest) <= k - (i + of)
      BY <3>4, FramesAre DEF rest
    <3>9. Total(one \o rest) = of + Total(rest)
      BY <3>7, <3>8, TotalConcat
    <3>10. one \o rest \in Seq(Frame)
      BY <3>7, <3>8, ConcatProperties
    <3>11. of + Total(rest) \in Nat /\ of + Total(rest) <= k - i
      <4>1. PICK t \in Nat : t = Total(rest)
        BY <3>8
      <4>2. of + t <= k - i
        BY <1>1, <3>1, <3>8, <4>1
      <4> QED
        BY <3>1, <4>1, <4>2
    <3> QED
      BY <3>2, <3>9, <3>10, <3>11
  <2> QED
    BY <2>2, <2>3
<1> HIDE DEF Fits
<1>4. 0 \in T
  <2>1. \A x \in k + 1 .. k : Fits(x)
    BY <1>1
  <2>2. Fits(k)
    BY <1>1, <1>3, <2>1
  <2>3. \A i \in k - 0 .. k : i = k
    BY <1>1
  <2> QED
    BY <1>1, <2>2, <2>3
<1>5. ASSUME NEW j \in 0 .. k, j < k, j \in T PROVE j + 1 \in T
  <2> DEFINE b == k - (j + 1)
  <2>1. b \in 0 .. k /\ b + 1 = k - j /\ j + 1 \in 0 .. k
    BY <1>1, <1>5
  <2>2. \A i \in b + 1 .. k : Fits(i)
    BY <1>5, <2>1
  <2>3. Fits(b)
    BY <1>3, <2>1, <2>2
  <2> HIDE DEF b
  <2>4. \A i \in b .. k : i = b \/ i \in b + 1 .. k
    BY <1>1, <2>1
  <2> USE DEF b
  <2> QED
    BY <2>1, <2>2, <2>3, <2>4
<1>6. k \in T
  <2> HIDE DEF T, k
  <2>1. \A j \in 0 .. k : j \in T
    BY <1>1, <1>4, <1>5, Climb
  <2> QED
    BY <1>1, <2>1
<1>7. \A i \in 0 .. k : Fits(i)
  <2>1. k - k = 0
    BY <1>1
  <2> QED
    BY <1>6, <2>1
<1> QED
  BY <1>7 DEF Fits

LEMMA FramesFit ==
    ASSUME NEW asm \in Seq(Byte)
    PROVE  WholeFrames(asm) \in Seq(Frame) /\ Total(WholeFrames(asm)) <= Len(asm)
<1>1. PICK f : Decodes(asm, f) /\ WholeFrames(asm) = f[0]
  BY WholeFramesIs DEF Decodes
<1>2. Len(asm) \in Nat /\ 0 \in 0 .. Len(asm) /\ Len(asm) - 0 = Len(asm)
  OBVIOUS
<1> QED
  BY <1>1, <1>2, FramesFitFrom
-----------------------------------------------------------------------------
(* The reader task hands a segment s to its end: m becomes n.              *)

\* The books move by what s carries.
Handled(e, m, n, s) ==
    /\ Local(e, n) /\ Gently(m, n)
    /\ \A c \in Ch : c # s.ch /\ Untold(m, c) => Untold(n, c)
    /\ \A c \in Ch : c \in n.chans =>
         /\ Stake(n, c) = Stake(m, c) + Worth(s, c, "WINDOW")
         /\ Debt(n, c) = Debt(m, c) + Worth(s, c, "DATA")

ReadsTo(e, n) ==
    LET p == Peer(e)
    IN  /\ wire[p] # <<>> /\ ep' = [ep EXCEPT ![e] = n]
        /\ wire' = [wire EXCEPT ![p] = Tail(@)]
        /\ alive' = alive /\ Flags'

LEMMA ReadMoves ==
    ASSUME NEW w \in Seq(Segment), w # <<>>, NEW c,
           NEW a \in Int, NEW b \in Int
    PROVE  /\ b = a + Worth(Head(w), c, "WINDOW")
                => b + SumOf(Tail(w), c, "WINDOW") = a + SumOf(w, c, "WINDOW")
           /\ b = a + Worth(Head(w), c, "DATA")
                => b + SumOf(Tail(w), c, "DATA") = a + SumOf(w, c, "DATA")
<1>1. Tail(w) \in Seq(Segment) /\ Head(w) \in Segment
  BY HeadTailProperties
<1>2. PICK x \in Int, y \in Int :
        x = Worth(Head(w), c, "WINDOW") /\ y = SumOf(Tail(w), c, "WINDOW")
  <2>1. Worth(Head(w), c, "WINDOW") \in Nat
    BY <1>1, WorthIs
  <2>2. SumOf(Tail(w), c, "WINDOW") \in Int
    BY <1>1, SumsAre
  <2> QED
    BY <2>1, <2>2
<1>3. PICK u \in Int, v \in Int :
        u = Worth(Head(w), c, "DATA") /\ v = SumOf(Tail(w), c, "DATA")
  <2>1. Worth(Head(w), c, "DATA") \in Nat
    BY <1>1, WorthIs
  <2>2. SumOf(Tail(w), c, "DATA") \in Int
    BY <1>1, SumsAre
  <2> QED
    BY <2>1, <2>2
<1>4. SumOf(w, c, "WINDOW") = x + y
  BY <1>2, SumHeadTail
<1>5. SumOf(w, c, "DATA") = u + v
  BY <1>3, SumHeadTail
<1>6. b = a + x => b + y = a + (x + y)
  OBVIOUS
<1>7. b = a + u => b + v = a + (u + v)
  OBVIOUS
<1> QED
  BY <1>2, <1>3, <1>4, <1>5, <1>6, <1>7

LEMMA HandledKeeps ==
    ASSUME IInv, NEW e \in End, NEW n, ReadsTo(e, n),
           Handled(e, ep[e], n, Head(wire[Peer(e)]))
    PROVE  IInv'
<1> DEFINE p == Peer(e)
           m == ep[e]
           w == wire[p]
           d == Head(w).ch
<1>1. p \in End /\ p # e
  BY PeerIs
<1>2. /\ DOMAIN ep = End /\ DOMAIN wire = End /\ wire[e] \in Seq(Segment)
      /\ w \in Seq(Segment) /\ w # <<>> /\ IsEnd(e, m)
  BY <1>1, EndsAre DEF IInv, Types, ReadsTo
<1>3. /\ DOMAIN ep' = End /\ ep'[p] = ep[p] /\ ep'[e] = n /\ DOMAIN wire' = End
      /\ wire'[p] = Tail(w) /\ wire'[e] = wire[e] /\ alive' = alive /\ Flags'
  BY <1>1, <1>2 DEF ReadsTo
<1>4. Onward(m, n, d)
  BY DEF Handled, Gently, Onward
<1>5. Booked(m, n, w, Tail(w))
  <2> SUFFICES ASSUME NEW c \in Ch, c \in n.chans
               PROVE  /\ Stake(n, c) + SumOf(Tail(w), c, "WINDOW") = Stake(m, c) + SumOf(w, c, "WINDOW")
                      /\ Debt(n, c) + SumOf(Tail(w), c, "DATA") = Debt(m, c) + SumOf(w, c, "DATA")
    BY DEF Booked
  <2>1. IsEnd(e, n)
    BY DEF Handled, Local
  <2>2. Stake(m, c) \in Int /\ Stake(n, c) \in Int /\ Debt(m, c) \in Int /\ Debt(n, c) \in Int
    BY <1>2, <2>1, BooksAre
  <2>3. /\ Stake(n, c) = Stake(m, c) + Worth(Head(w), c, "WINDOW")
        /\ Debt(n, c) = Debt(m, c) + Worth(Head(w), c, "DATA")
    BY DEF Handled
  <2> HIDE DEF w, m
  <2> QED
    BY <1>2, <2>2, <2>3, ReadMoves
<1>6. \A c \in Ch : c \in n.chans => c \in m.chans
  BY DEF Handled, Gently
<1>7. EndStep(e, d)
  <2>1. Shortened(wire[e], wire'[e])
    BY <1>3 DEF Shortened
  <2>2. Read(w, wire'[p], d)
    BY <1>2, <1>3 DEF Read
  <2>3. \A c \in Ch : c # d /\ Untold(m, c) => Untold(n, c)
    BY DEF Handled
  <2>4. Local(e, n)
    BY DEF Handled
  <2> HIDE DEF w, m, d
  <2> QED
    BY <1>2, <1>3, <1>4, <1>5, <1>6, <2>1, <2>2, <2>3, <2>4 DEF EndStep, w, m
<1> QED
  BY <1>7, StepKeeps

\* A segment of a channel the end does not keep moves no books.
LEMMA FineIsHandled ==
    ASSUME NEW e, NEW m, NEW n, Fine(e, m, n), IsEnd(e, m), NEW s \in Segment,
           s.kind = "OPEN" \/ s.kind = "RESET" \/ s.ch \notin n.chans
    PROVE  Handled(e, m, n, s)
<1>1. Local(e, n) /\ Gently(m, n) /\ \A c \in Ch : Untold(m, c) => Untold(n, c)
  BY DEF Fine, Even
<1>2. ASSUME NEW c \in Ch, c \in n.chans
      PROVE  /\ Stake(n, c) = Stake(m, c) + Worth(s, c, "WINDOW")
             /\ Debt(n, c) = Debt(m, c) + Worth(s, c, "DATA")
  <2>1. Worth(s, c, "WINDOW") = 0 /\ Worth(s, c, "DATA") = 0
    BY <1>2 DEF Worth
  <2>2. Stake(n, c) = Stake(m, c) /\ Debt(n, c) = Debt(m, c)
    BY <1>2 DEF Fine, Even
  <2>3. Stake(m, c) \in Int /\ Debt(m, c) \in Int
    BY BooksAre
  <2> QED
    BY <2>1, <2>2, <2>3
<1> QED
  BY <1>1, <1>2 DEF Handled

LEMMA SameIsFine ==
    ASSUME NEW e, NEW m, Local(e, m)
    PROVE  Fine(e, m, m)
BY DEF Fine, Gently, Even

LEMMA WindowIsHandled ==
    ASSUME NEW e, NEW m, Local(e, m), NEW s \in Segment, s.kind = "WINDOW",
           s.ch \in Ch, NEW n, n = PeerWindow(m, s.ch, s.n)
    PROVE  Handled(e, m, n, s)
<1> DEFINE c == s.ch
<1>1. IsEnd(e, m) /\ s.n \in Nat /\ c \in Ch
  BY DEF Local, Segment
<1>2. CASE Closed(m) \/ c \in Range(m.retired) \/ c \notin m.chans
  <2>1. n = m /\ c \notin m.chans
    BY <1>1, <1>2 DEF PeerWindow, Local, NotRetired, IsEnd, Closed
  <2> QED
    BY <1>1, <2>1, SameIsFine, FineIsHandled
<1>3. CASE /\ ~(Closed(m) \/ c \in Range(m.retired) \/ c \notin m.chans)
           /\ m.credit[c] + s.n > Window
  <2>1. n = Shutdown(m, "FlowControlInflated")
    BY <1>3 DEF PeerWindow
  <2>2. Fine(e, m, n)
    BY <2>1, ShutdownIsFine
  <2>3. n.chans = {}
    BY <1>1, <1>3, <2>1 DEF Shutdown, IsEnd, Fields
  <2> QED
    BY <1>1, <2>2, <2>3, FineIsHandled
<1>4. CASE /\ ~(Closed(m) \/ c \in Range(m.retired) \/ c \notin m.chans)
           /\ ~(m.credit[c] + s.n > Window)
  <2>1. /\ DOMAIN m = Fields /\ m.credit \in [Ch -> 0 .. Window]
        /\ m.credit[c] \in Nat
    BY <1>1, NumbersAre DEF IsEnd
  <2>2. n = [m EXCEPT !.credit[c] = @ + s.n]
    BY <1>4 DEF PeerWindow
  <2>3. /\ DOMAIN n = Fields /\ n.credit = [m.credit EXCEPT ![c] = @ + s.n]
        /\ n.reason = m.reason /\ n.nextLocal = m.nextLocal /\ n.chans = m.chans
        /\ n.retired = m.retired /\ n.urgent = m.urgent /\ n.out = m.out
        /\ n.asm = m.asm /\ n.unacked = m.unacked /\ n.rx = m.rx
        /\ n.send = m.send /\ n.recv = m.recv /\ n.acceptQ = m.acceptQ
        /\ n.todo = m.todo /\ n.held = m.held /\ n.taken = m.taken
    BY <2>1, <2>2 DEF Fields
  <2>4. m.credit[c] + s.n \in 0 .. Window
    BY <1>1, <1>4, <2>1, ConstantsAre
  <2>5. /\ n.credit \in [Ch -> 0 .. Window] /\ n.credit[c] = m.credit[c] + s.n
        /\ \A x \in Ch : x # c => n.credit[x] = m.credit[x]
    BY <1>1, <2>1, <2>3, <2>4
  <2> HIDE DEF c
  <2>6. IsEnd(e, n)
    BY <1>1, <2>3, <2>5 DEF IsEnd
  <2>7. Local(e, n)
    BY <2>3, <2>6 DEF Local, NotRetired, Accounted, Unread
  <2>8. Gently(m, n)
    BY <2>3 DEF Gently, Closed, Silent
  <2>9. \A x \in Ch : (Untold(m, x) => Untold(n, x)) /\ Debt(n, x) = Debt(m, x)
    BY <2>3 DEF Untold, Debt
  <2>10. ASSUME NEW x \in Ch
         PROVE  /\ Stake(n, x) = Stake(m, x) + Worth(s, x, "WINDOW")
                /\ Debt(n, x) = Debt(m, x) + Worth(s, x, "DATA")
    <3>1. PICK a \in Nat, b \in Nat, k \in Nat :
            a = m.credit[x] /\ b = Len(m.held[x]) /\ k = SumOf(m.out[x], x, "DATA")
      BY <1>1, NumbersAre
    <3>2. Stake(m, x) = a + b + k /\ Stake(n, x) = n.credit[x] + b + k
      BY <2>3, <3>1 DEF Stake
    <3>3. Debt(m, x) \in Int /\ Worth(s, x, "DATA") = 0
      BY <1>1, BooksAre DEF Worth
    <3>4. CASE x = c
      <4>1. Worth(s, x, "WINDOW") = s.n
        BY <3>4 DEF Worth, c
      <4>2. Stake(n, x) = a + s.n + b + k
        BY <2>5, <3>1, <3>2, <3>4
      <4>3. PICK v \in Nat : v = s.n
        BY <1>1
      <4>4. a + v + b + k = a + b + k + v
        OBVIOUS
      <4> QED
        BY <2>9, <3>2, <3>3, <4>1, <4>2, <4>3, <4>4
    <3>5. CASE x # c
      <4>1. Worth(s, x, "WINDOW") = 0
        BY <3>5 DEF Worth, c
      <4>2. Stake(n, x) = a + b + k
        BY <2>5, <3>1, <3>2, <3>5
      <4>3. a + b + k = a + b + k + 0
        BY <3>1
      <4> QED
        BY <2>9, <3>2, <3>3, <4>1, <4>2, <4>3
    <3> QED
      BY <3>4, <3>5
  <2> QED
    BY <2>7, <2>8, <2>9, <2>10 DEF Handled
<1> QED
  BY <1>2, <1>3, <1>4

LEMMA ResetIsFine ==
    ASSUME NEW e, NEW m, Local(e, m), NEW c \in Ch, NEW n, n = PeerReset(m, c)
    PROVE  Fine(e, m, n)
<1>1. CASE Closed(m)
  BY <1>1, SameIsFine DEF PeerReset
<1>2. CASE ~Closed(m)
  <2> DEFINE o == [m EXCEPT !.chans = @ \ {c}, !.out[c] = <<>>]
  <2>1. /\ IsEnd(e, m) /\ NotRetired(m) /\ Accounted(m) /\ DOMAIN m = Fields
        /\ m.retired \in Seq(Ch) /\ DOMAIN m.out = Ch
        /\ \A x \in Ch : m.out[x] \in Seq(Sendable(e, x))
    BY DEF Local, IsEnd
  <2>2. /\ DOMAIN o = Fields /\ o.chans = m.chans \ {c} /\ o.out = [m.out EXCEPT ![c] = <<>>]
        /\ o.retired = m.retired
        /\ o.reason = m.reason /\ o.nextLocal = m.nextLocal /\ o.urgent = m.urgent
        /\ o.credit = m.credit /\ o.asm = m.asm /\ o.unacked = m.unacked /\ o.rx = m.rx
        /\ o.send = m.send /\ o.recv = m.recv /\ o.acceptQ = m.acceptQ
        /\ o.todo = m.todo /\ o.held = m.held /\ o.taken = m.taken
    BY <2>1 DEF Fields
  <2>3. n = Retire(o, c)
    BY <1>2 DEF PeerReset
  <2> HIDE DEF o
  <2>4. /\ n = [o EXCEPT !.retired = n.retired]
        /\ n.retired \in Seq(Ch) /\ Range(n.retired) \subseteq Range(m.retired) \cup {c}
    BY <2>1, <2>2, <2>3, RetireIs
  <2>5. /\ DOMAIN n = Fields /\ n.chans = m.chans \ {c} /\ n.out = [m.out EXCEPT ![c] = <<>>]
        /\ n.reason = m.reason /\ n.nextLocal = m.nextLocal /\ n.urgent = m.urgent
        /\ n.credit = m.credit /\ n.asm = m.asm /\ n.unacked = m.unacked /\ n.rx = m.rx
        /\ n.send = m.send /\ n.recv = m.recv /\ n.acceptQ = m.acceptQ
        /\ n.todo = m.todo /\ n.held = m.held /\ n.taken = m.taken
    BY <2>2, <2>4 DEF Fields
  <2>6. /\ DOMAIN n.out = Ch /\ n.out[c] = <<>>
        /\ \A x \in Ch : x # c => n.out[x] = m.out[x]
    BY <2>1, <2>5
  <2>7. \A x \in Ch : n.out[x] \in Seq(Sendable(e, x))
    <3>1. n.out[c] \in Seq(Sendable(e, c))
      BY <2>6
    <3> QED
      BY <2>1, <2>6, <3>1
  <2>8. IsEnd(e, n)
    BY <2>1, <2>4, <2>5, <2>6, <2>7 DEF IsEnd
  <2>9. NotRetired(n) /\ Accounted(n)
    BY <2>1, <2>4, <2>5 DEF NotRetired, Accounted, Unread
  <2>10. Gently(m, n)
    BY <1>2, <2>5, <2>6 DEF Gently, Closed, Silent
  <2>11. Even(m, n)
    BY <2>5, <2>6 DEF Even, Untold, Stake, Debt
  <2> QED
    BY <2>8, <2>9, <2>10, <2>11 DEF Fine, Local
<1> QED
  BY <1>1, <1>2

LEMMA ReassembleIs ==
    ASSUME NEW asm \in Seq(Byte), NEW r, r = Reassemble(asm)
    PROVE  /\ r.frames \in Seq(Frame) /\ r.rest \in Seq(Byte)
           /\ r.used \in Nat /\ r.used = Total(r.frames)
           /\ Len(r.rest) + r.used = Len(asm)
<1> DEFINE frames == WholeFrames(asm)
           used == Total(frames)
           rest == SubSeq(asm, used + 1, Len(asm))
<1>1. r.frames = frames /\ r.rest = rest /\ r.used = used
  BY DEF Reassemble
<1>2. frames \in Seq(Frame) /\ used <= Len(asm)
  BY FramesFit
<1> HIDE DEF frames
<1>3. used \in Nat
  <2>1. frames \in Seq(Seq(Byte))
    BY <1>2, FramesAre
  <2> QED
    BY <2>1, TotalType
<1> HIDE DEF used
<1>4. Len(asm) \in Nat /\ \A i \in 1 .. Len(asm) : asm[i] \in Byte
  OBVIOUS
<1>5. \A i \in used + 1 .. Len(asm) : asm[i] \in Byte
  BY <1>3, <1>4
<1>6. /\ rest \in Seq(Byte)
      /\ Len(rest) = IF used + 1 <= Len(asm) THEN Len(asm) - (used + 1) + 1 ELSE 0
  BY <1>3, <1>4, <1>5, SubSeqProperties
<1>7. Len(rest) + used = Len(asm)
  BY <1>2, <1>3, <1>4, <1>6
<1> QED
  BY <1>1, <1>2, <1>3, <1>6, <1>7 DEF used

\* What is decoded is queued for the receiver.
Delivered(m, c, frames) == [m EXCEPT !.rx[c] = @ \o frames]

LEMMA DeliveredIs ==
    ASSUME NEW e, NEW m, IsEnd(e, m), NEW c \in Ch, NEW frames \in Seq(Frame),
           NEW n, n = Delivered(m, c, frames)
    PROVE  /\ IsEnd(e, n) /\ Total(n.rx[c]) = Total(m.rx[c]) + Total(frames)
           /\ \A x \in Ch : x # c => n.rx[x] = m.rx[x]
           /\ n.unacked = m.unacked /\ n.asm = m.asm /\ n.credit = m.credit
           /\ n.reason = m.reason /\ n.nextLocal = m.nextLocal /\ n.chans = m.chans
           /\ n.retired = m.retired /\ n.urgent = m.urgent /\ n.out = m.out
           /\ n.send = m.send /\ n.recv = m.recv /\ n.acceptQ = m.acceptQ
           /\ n.todo = m.todo /\ n.held = m.held /\ n.taken = m.taken
<1> DEFINE q == m.rx[c] \o frames
<1>1. DOMAIN m = Fields /\ m.rx \in [Ch -> Seq(Frame)] /\ m.rx[c] \in Seq(Frame)
  BY DEF IsEnd
<1>2. /\ DOMAIN n = Fields /\ n.rx = [m.rx EXCEPT ![c] = q]
      /\ n.unacked = m.unacked /\ n.asm = m.asm /\ n.credit = m.credit
      /\ n.reason = m.reason /\ n.nextLocal = m.nextLocal /\ n.chans = m.chans
      /\ n.retired = m.retired /\ n.urgent = m.urgent /\ n.out = m.out
      /\ n.send = m.send /\ n.recv = m.recv /\ n.acceptQ = m.acceptQ
      /\ n.todo = m.todo /\ n.held = m.held /\ n.taken = m.taken
  BY <1>1 DEF Delivered, Fields
<1>3. q \in Seq(Frame) /\ Total(q) = Total(m.rx[c]) + Total(frames)
  <2>1. m.rx[c] \in Seq(Seq(Byte)) /\ frames \in Seq(Seq(Byte))
    BY <1>1, FramesAre
  <2>2. Total(q) = Total(m.rx[c]) + Total(frames)
    BY <2>1, TotalConcat
  <2>3. q \in Seq(Frame)
    BY <1>1, ConcatProperties
  <2> QED
    BY <2>2, <2>3
<1> HIDE DEF q
<1>4. /\ n.rx[c] = q /\ n.rx \in [Ch -> Seq(Frame)]
      /\ \A x \in Ch : x # c => n.rx[x] = m.rx[x]
  BY <1>1, <1>2, <1>3
<1>5. IsEnd(e, n)
  BY <1>2, <1>4 DEF IsEnd
<1> QED
  BY <1>2, <1>3, <1>4, <1>5

Stored(m, c, body, r, o, n) ==
    /\ r = Reassemble(m.asm[c] \o body)
    /\ o = [m EXCEPT !.unacked[c] = @ + Len(body), !.asm[c] = r.rest]
    /\ n = IF c \in m.recv THEN [o EXCEPT !.rx[c] = @ \o r.frames]
           ELSE IF r.used > 0 THEN ReturnCredit(o, c, r.used) ELSE o

\* The segment fits: what arrives is counted, and what is decoded is queued
\* for the receiver or, if that is gone, given back.
LEMMA DataStored ==
    ASSUME NEW e, NEW m, Local(e, m), NEW c \in Ch, NEW body \in Seq(Byte),
           c \in m.chans, ~Closed(m), m.unacked[c] + Len(body) <= Window,
           NEW r, NEW o, NEW n, Stored(m, c, body, r, o, n)
    PROVE  /\ Local(e, n) /\ Gently(m, n)
           /\ \A x \in Ch : x # c /\ Untold(m, x) => Untold(n, x)
           /\ \A x \in Ch : Stake(n, x) = Stake(m, x)
           /\ Debt(n, c) = Debt(m, c) + Len(body)
           /\ \A x \in Ch : x # c => Debt(n, x) = Debt(m, x)
<1>1. /\ IsEnd(e, m) /\ NotRetired(m) /\ Accounted(m) /\ DOMAIN m = Fields
      /\ m.unacked \in [Ch -> 0 .. Window] /\ m.asm \in [Ch -> Seq(Byte)]
      /\ m.rx \in [Ch -> Seq(Frame)] /\ m.asm[c] \in Seq(Byte) /\ m.rx[c] \in Seq(Frame)
  BY DEF Local, IsEnd
<1>2. m.asm[c] \o body \in Seq(Byte) /\ Len(m.asm[c] \o body) = Len(m.asm[c]) + Len(body)
  BY <1>1, ConcatProperties
<1>3. /\ r.frames \in Seq(Frame) /\ r.rest \in Seq(Byte)
      /\ r.used \in Nat /\ r.used = Total(r.frames)
      /\ Len(r.rest) + r.used = Len(m.asm[c]) + Len(body)
  BY <1>2, ReassembleIs DEF Stored
<1>4. PICK a \in Nat, t \in Nat, k \in Nat, u \in Nat, b \in Nat, l \in Nat, g \in Nat :
        /\ a = Len(m.asm[c]) /\ t = Total(m.rx[c]) /\ k = m.taken[c] /\ u = m.unacked[c]
        /\ b = Len(body) /\ l = Len(r.rest) /\ g = r.used
  <2>1. /\ Len(m.asm[c]) \in Nat /\ Total(m.rx[c]) \in Nat /\ m.taken[c] \in Nat
        /\ m.unacked[c] \in Nat
    BY <1>1, NumbersAre
  <2>2. Len(body) \in Nat /\ Len(r.rest) \in Nat
    BY <1>3
  <2> QED
    BY <1>3, <2>1, <2>2
<1>5. l + g = a + b /\ a + t + k <= u /\ u + b <= Window
  <2>1. l + g = a + b /\ u + b <= Window
    BY <1>3, <1>4
  <2>2. a + t + k <= u
    BY <1>1, <1>4 DEF Accounted, Unread
  <2> QED
    BY <2>1, <2>2
<1>6. /\ DOMAIN o = Fields /\ o.unacked = [m.unacked EXCEPT ![c] = @ + Len(body)]
      /\ o.asm = [m.asm EXCEPT ![c] = r.rest] /\ o.rx = m.rx /\ o.credit = m.credit
      /\ o.reason = m.reason /\ o.nextLocal = m.nextLocal /\ o.chans = m.chans
      /\ o.retired = m.retired /\ o.urgent = m.urgent /\ o.out = m.out
      /\ o.send = m.send /\ o.recv = m.recv /\ o.acceptQ = m.acceptQ
      /\ o.todo = m.todo /\ o.held = m.held /\ o.taken = m.taken
  BY <1>1 DEF Stored, Fields
<1>7. /\ o.unacked[c] = u + b /\ o.asm[c] = r.rest
      /\ \A x \in Ch : x # c => o.unacked[x] = m.unacked[x] /\ o.asm[x] = m.asm[x]
  BY <1>1, <1>4, <1>6
<1>8. IsEnd(e, o)
  <2>1. u + b \in 0 .. Window
    BY <1>5, ConstantsAre
  <2>2. o.unacked \in [Ch -> 0 .. Window]
    BY <1>1, <1>6, <1>7, <2>1
  <2>3. o.asm \in [Ch -> Seq(Byte)]
    BY <1>1, <1>3, <1>6
  <2> QED
    BY <1>1, <1>6, <2>2, <2>3 DEF IsEnd
<1>9. /\ Debt(o, c) = Debt(m, c) + Len(body)
      /\ \A x \in Ch : x # c => Debt(o, x) = Debt(m, x)
  <2>1. PICK v \in Nat : v = SumOf(m.urgent, c, "WINDOW")
    BY <1>1, NumbersAre
  <2>2. Debt(m, c) = u + v /\ Debt(o, c) = (u + b) + v
    BY <1>4, <1>6, <1>7, <2>1 DEF Debt
  <2>3. (u + b) + v = (u + v) + b
    BY <2>1
  <2>4. \A x \in Ch : x # c => Debt(o, x) = Debt(m, x)
    BY <1>6, <1>7 DEF Debt
  <2> QED
    BY <1>4, <2>2, <2>3, <2>4
<1>10. CASE c \in m.recv
  <2>1. n = Delivered(o, c, r.frames)
    BY <1>10 DEF Stored, Delivered
  <2>2. /\ IsEnd(e, n) /\ Total(n.rx[c]) = Total(o.rx[c]) + Total(r.frames)
        /\ \A x \in Ch : x # c => n.rx[x] = o.rx[x]
        /\ n.unacked = o.unacked /\ n.asm = o.asm /\ n.credit = o.credit
        /\ n.reason = o.reason /\ n.nextLocal = o.nextLocal /\ n.chans = o.chans
        /\ n.retired = o.retired /\ n.urgent = o.urgent /\ n.out = o.out
        /\ n.send = o.send /\ n.recv = o.recv /\ n.acceptQ = o.acceptQ
        /\ n.todo = o.todo /\ n.held = o.held /\ n.taken = o.taken
    BY <1>3, <1>8, <2>1, DeliveredIs
  <2>3. Accounted(n)
    <3>1. Unread(n, c) = l + (t + g) + k
      BY <1>3, <1>4, <1>6, <1>7, <2>2 DEF Unread
    <3>2. l + (t + g) + k <= u + b
      BY <1>5
    <3>3. Unread(n, c) <= n.unacked[c]
      BY <1>7, <2>2, <3>1, <3>2
    <3>4. \A x \in Ch : x # c => Unread(n, x) = Unread(m, x) /\ n.unacked[x] = m.unacked[x]
      BY <1>6, <1>7, <2>2 DEF Unread
    <3> QED
      BY <1>1, <3>3, <3>4 DEF Accounted
  <2>4. Local(e, n)
    BY <1>1, <1>6, <2>2, <2>3 DEF Local, NotRetired
  <2>5. Gently(m, n)
    BY <1>6, <2>2 DEF Gently, Closed, Silent
  <2>6. \A x \in Ch : x # c /\ Untold(m, x) => Untold(n, x)
    BY <1>6, <1>7, <2>2 DEF Untold
  <2>7. \A x \in Ch : Stake(n, x) = Stake(m, x) /\ Debt(n, x) = Debt(o, x)
    BY <1>6, <2>2 DEF Stake, Debt
  <2> QED
    BY <1>9, <2>4, <2>5, <2>6, <2>7
<1>11. Accounted(o)
  <2>1. Unread(o, c) = l + t + k
    BY <1>4, <1>6, <1>7 DEF Unread
  <2>2. l + t + k <= u + b
    BY <1>5
  <2>3. \A x \in Ch : x # c => Unread(o, x) = Unread(m, x) /\ o.unacked[x] = m.unacked[x]
    BY <1>6, <1>7 DEF Unread
  <2> QED
    BY <1>1, <1>7, <2>1, <2>2, <2>3 DEF Accounted
<1>12. CASE c \notin m.recv /\ ~(r.used > 0)
  <2>1. n = o
    BY <1>12 DEF Stored
  <2>2. Local(e, o)
    BY <1>1, <1>6, <1>8, <1>11 DEF Local, NotRetired
  <2>3. Gently(m, o)
    BY <1>6 DEF Gently, Closed, Silent
  <2>4. \A x \in Ch : x # c /\ Untold(m, x) => Untold(o, x)
    BY <1>6, <1>7 DEF Untold
  <2>5. \A x \in Ch : Stake(o, x) = Stake(m, x)
    BY <1>6 DEF Stake
  <2> QED
    BY <1>9, <2>1, <2>2, <2>3, <2>4, <2>5
<1>13. CASE c \notin m.recv /\ r.used > 0
  <2>1. n = ReturnCredit(o, c, g)
    BY <1>4, <1>13 DEF Stored
  <2>2. g <= u + b
    BY <1>5
  <2>3. g <= o.unacked[c] /\ c \in o.chans /\ ~Closed(o)
    BY <1>6, <1>7, <2>2 DEF Closed
  <2>4. /\ IsEnd(e, n) /\ n.unacked[c] = o.unacked[c] - g
        /\ \A x \in Ch : x # c => n.unacked[x] = o.unacked[x]
        /\ DOMAIN n = Fields /\ n.credit = o.credit
        /\ n.reason = o.reason /\ n.nextLocal = o.nextLocal /\ n.chans = o.chans
        /\ n.retired = o.retired /\ n.out = o.out /\ n.rx = o.rx /\ n.taken = o.taken
        /\ n.asm = o.asm /\ n.todo = o.todo /\ n.held = o.held
        /\ n.send = o.send /\ n.recv = o.recv /\ n.acceptQ = o.acceptQ
        /\ \A x \in Ch : /\ Debt(n, x) = Debt(o, x)
                         /\ x # c /\ Untold(o, x) => Untold(n, x)
    BY <1>4, <1>8, <2>1, <2>3, ReturnIs
  <2>5. Accounted(n)
    <3>1. Unread(n, c) = l + t + k
      BY <1>4, <1>6, <1>7, <2>4 DEF Unread
    <3>2. n.unacked[c] = (u + b) - g
      BY <1>7, <2>4
    <3>3. l + t + k <= (u + b) - g
      BY <1>5
    <3>4. \A x \in Ch : x # c => Unread(n, x) = Unread(o, x) /\ n.unacked[x] = o.unacked[x]
      BY <2>4 DEF Unread
    <3> QED
      BY <1>11, <3>1, <3>2, <3>3, <3>4 DEF Accounted
  <2>6. Local(e, n)
    BY <1>1, <1>6, <2>4, <2>5 DEF Local, NotRetired
  <2>7. Gently(m, n)
    BY <1>6, <2>4 DEF Gently, Closed, Silent
  <2>8. \A x \in Ch : x # c /\ Untold(m, x) => Untold(n, x)
    BY <1>6, <1>7, <2>4 DEF Untold
  <2>9. \A x \in Ch : Stake(n, x) = Stake(m, x)
    BY <1>6, <2>4 DEF Stake
  <2> QED
    BY <1>9, <2>4, <2>6, <2>7, <2>8, <2>9
<1> QED
  BY <1>10, <1>12, <1>13

LEMMA DataIsHandled ==
    ASSUME NEW e, NEW m, Local(e, m), NEW s \in Segment, s.kind = "DATA",
           s.ch \in Ch, NEW n, n = PeerData(m, s.ch, s.body)
    PROVE  Handled(e, m, n, s)
<1> DEFINE c == s.ch
           body == s.body
<1>1. IsEnd(e, m) /\ body \in Seq(Byte) /\ s.n = Len(body) /\ c \in Ch
  BY DEF Local, Segment
<1>2. CASE Closed(m) \/ c \in Range(m.retired)
  <2>1. n = m /\ c \notin m.chans
    BY <1>1, <1>2 DEF PeerData, Local, NotRetired, IsEnd, Closed
  <2> QED
    BY <1>1, <2>1, SameIsFine, FineIsHandled
<1>3. ASSUME ~Closed(m), NEW why, n = Shutdown(m, why) PROVE Handled(e, m, n, s)
  <2>1. Fine(e, m, n)
    BY <1>3, ShutdownIsFine
  <2>2. n.chans = {}
    BY <1>1, <1>3 DEF Shutdown, IsEnd, Fields
  <2> QED
    BY <1>1, <2>1, <2>2, FineIsHandled
<1>4. CASE /\ ~Closed(m) /\ c \notin Range(m.retired)
           /\ c \notin m.chans \/ m.unacked[c] + Len(body) > Window
  <2>1. n = Shutdown(m, "UnknownChannel") \/ n = Shutdown(m, "FlowControlExceeded")
    BY <1>4 DEF PeerData
  <2> QED
    BY <1>3, <1>4, <2>1
<1>5. CASE /\ ~Closed(m) /\ c \notin Range(m.retired)
           /\ c \in m.chans /\ ~(m.unacked[c] + Len(body) > Window)
  <2> DEFINE r == Reassemble(m.asm[c] \o body)
             o == [m EXCEPT !.unacked[c] = @ + Len(body), !.asm[c] = r.rest]
  <2>1. Stored(m, c, body, r, o, n)
    <3>1. DOMAIN m = Fields /\ o.recv = m.recv
      BY <1>1 DEF IsEnd, Fields
    <3> QED
      BY <1>5, <3>1 DEF PeerData, Stored
  <2>2. m.unacked[c] + Len(body) <= Window
    <3>1. m.unacked[c] \in Nat /\ Len(body) \in Nat
      BY <1>1, NumbersAre
    <3> QED
      BY <1>5, <3>1, ConstantsAre
  <2> HIDE DEF o, r, c, body
  <2>3. /\ Local(e, n) /\ Gently(m, n)
        /\ \A x \in Ch : x # c /\ Untold(m, x) => Untold(n, x)
        /\ \A x \in Ch : Stake(n, x) = Stake(m, x)
        /\ Debt(n, c) = Debt(m, c) + Len(body)
        /\ \A x \in Ch : x # c => Debt(n, x) = Debt(m, x)
    BY <1>1, <1>5, <2>1, <2>2, DataStored
  <2>4. ASSUME NEW x \in Ch
        PROVE  /\ Stake(n, x) = Stake(m, x) + Worth(s, x, "WINDOW")
               /\ Debt(n, x) = Debt(m, x) + Worth(s, x, "DATA")
    <3>1. Stake(m, x) \in Int /\ Debt(m, x) \in Int
      BY <1>1, BooksAre
    <3>2. Worth(s, x, "WINDOW") = 0 /\ Worth(s, x, "DATA") = IF x = c THEN Len(body) ELSE 0
      BY <1>1 DEF Worth, c
    <3> QED
      BY <2>3, <3>1, <3>2
  <2> QED
    BY <2>3, <2>4 DEF Handled, c
<1> QED
  BY <1>2, <1>4, <1>5
-----------------------------------------------------------------------------
(* Channels are opened. *)

LEMMA InsertIs ==
    ASSUME NEW e, NEW m, Local(e, m), NEW c \in Ch, ~Closed(m),
           c \notin Range(m.retired), m.taken[c] = 0,
           NEW n, n = InsertChannel(m, c)
    PROVE  /\ Local(e, n) /\ n.chans = m.chans \cup {c}
           /\ n.credit[c] = Window /\ n.unacked[c] = 0
           /\ \A x \in Ch : x # c =>
                /\ n.credit[x] = m.credit[x] /\ n.unacked[x] = m.unacked[x]
                /\ x \in n.send <=> x \in m.send
                /\ x \in n.recv <=> x \in m.recv
           /\ DOMAIN n = Fields /\ n.reason = m.reason /\ n.nextLocal = m.nextLocal
           /\ n.retired = m.retired /\ n.acceptQ = m.acceptQ /\ n.urgent = m.urgent
           /\ n.out = m.out /\ n.todo = m.todo /\ n.held = m.held /\ n.taken = m.taken
<1>1. /\ IsEnd(e, m) /\ NotRetired(m) /\ Accounted(m) /\ DOMAIN m = Fields
      /\ m.credit \in [Ch -> 0 .. Window] /\ m.unacked \in [Ch -> 0 .. Window]
      /\ m.asm \in [Ch -> Seq(Byte)] /\ m.rx \in [Ch -> Seq(Frame)]
  BY DEF Local, IsEnd
<1>2. /\ DOMAIN n = Fields /\ n.chans = m.chans \cup {c}
      /\ n.credit = [m.credit EXCEPT ![c] = Window] /\ n.asm = [m.asm EXCEPT ![c] = <<>>]
      /\ n.unacked = [m.unacked EXCEPT ![c] = 0] /\ n.rx = [m.rx EXCEPT ![c] = <<>>]
      /\ n.send = m.send \cup {c} /\ n.recv = m.recv \cup {c}
      /\ n.reason = m.reason /\ n.nextLocal = m.nextLocal
      /\ n.retired = m.retired /\ n.acceptQ = m.acceptQ /\ n.urgent = m.urgent
      /\ n.out = m.out /\ n.todo = m.todo /\ n.held = m.held /\ n.taken = m.taken
  BY <1>1 DEF InsertChannel, Fields
<1>3. /\ n.credit[c] = Window /\ n.unacked[c] = 0 /\ n.asm[c] = <<>> /\ n.rx[c] = <<>>
      /\ \A x \in Ch : x # c =>
           /\ n.credit[x] = m.credit[x] /\ n.unacked[x] = m.unacked[x]
           /\ n.asm[x] = m.asm[x] /\ n.rx[x] = m.rx[x]
           /\ x \in n.send <=> x \in m.send
           /\ x \in n.recv <=> x \in m.recv
  BY <1>1, <1>2
<1>4. IsEnd(e, n)
  <2>1. n.credit \in [Ch -> 0 .. Window] /\ n.unacked \in [Ch -> 0 .. Window]
    BY <1>1, <1>2, ConstantsAre
  <2>2. n.asm \in [Ch -> Seq(Byte)]
    BY <1>1, <1>2
  <2>3. n.rx \in [Ch -> Seq(Frame)]
    BY <1>1, <1>2
  <2> QED
    BY <1>1, <1>2, <2>1, <2>2, <2>3 DEF IsEnd, Closed
<1>5. NotRetired(n)
  BY <1>1, <1>2 DEF NotRetired
<1>6. Accounted(n)
  <2>1. Unread(n, c) = 0
    <3>1. Len(<<>>) = 0
      OBVIOUS
    <3> QED
      BY <1>2, <1>3, <3>1, TotalEmpty DEF Unread
  <2>2. \A x \in Ch : x # c => Unread(n, x) = Unread(m, x)
    BY <1>2, <1>3 DEF Unread
  <2>3. Unread(n, c) <= n.unacked[c]
    BY <1>3, <2>1
  <2>4. \A x \in Ch : x # c => Unread(n, x) <= n.unacked[x]
    BY <1>1, <1>3, <2>2 DEF Accounted
  <2> QED
    BY <2>3, <2>4 DEF Accounted
<1> QED
  BY <1>2, <1>3, <1>4, <1>5, <1>6 DEF Local

\* Nothing of a channel is on its way: no window is used up at either end.
LEMMA NothingInFlight ==
    ASSUME NEW w \in Seq(Segment), NEW c
    PROVE  /\ NoUpdate(w, c) => SumOf(w, c, "WINDOW") = 0
           /\ (\A i \in DOMAIN w : ~Moving(w[i], c)) => SumOf(w, c, "DATA") = 0
<1>1. NoUpdate(w, c) => SumOf(w, c, "WINDOW") = 0
  BY SumZero DEF NoUpdate
<1>2. ASSUME \A i \in DOMAIN w : ~Moving(w[i], c) PROVE SumOf(w, c, "DATA") = 0
  <2>1. \A i \in DOMAIN w : ~(w[i].ch = c /\ w[i].kind = "DATA")
    BY <1>2 DEF Moving
  <2> QED
    BY <2>1, SumZero
<1> QED
  BY <1>1, <1>2

LEMMA TailIs ==
    ASSUME NEW w \in Seq(Segment), w # <<>>
    PROVE  /\ Tail(w) \in Seq(Segment) /\ Head(w) \in Segment /\ 1 \in DOMAIN w /\ w[1] = Head(w)
           /\ \A i \in DOMAIN Tail(w) : \E j \in DOMAIN w : Tail(w)[i] = w[j]
<1>1. /\ Tail(w) \in Seq(Segment) /\ Len(Tail(w)) = Len(w) - 1 /\ Head(w) \in Segment
      /\ \A i \in 1 .. Len(Tail(w)) : Tail(w)[i] = w[i + 1]
  BY HeadTailProperties
<1>2. Len(w) \in Nat \ {0} /\ DOMAIN w = 1 .. Len(w) /\ w[1] = Head(w)
  OBVIOUS
<1>3. DOMAIN Tail(w) = 1 .. Len(Tail(w)) /\ \A i \in 1 .. Len(Tail(w)) : i + 1 \in DOMAIN w
  BY <1>1, <1>2
<1> QED
  BY <1>1, <1>2, <1>3

LEMMA AdmitKeeps ==
    ASSUME IInv, NEW e \in End, NEW c \in Ch, NEW n, ReadsTo(e, n),
           Head(wire[Peer(e)]).kind = "OPEN", Head(wire[Peer(e)]).ch = c,
           ~Closed(ep[e]), c \notin Range(ep[e].retired), c \notin ep[e].chans,
           n = [InsertChannel(ep[e], c) EXCEPT !.acceptQ = Append(@, c)]
    PROVE  IInv'
<1> DEFINE p == Peer(e)
           m == ep[e]
           w == wire[p]
           v == wire[e]
<1>1. p \in End /\ p # e /\ Peer(p) = e
  BY PeerIs
<1>2. /\ DOMAIN ep = End /\ DOMAIN wire = End /\ v \in Seq(Segment) /\ w \in Seq(Segment)
      /\ w # <<>> /\ IsEnd(e, m) /\ Local(e, m) /\ IsEnd(p, ep[p]) /\ w \in Seq(Written(p))
  BY <1>1, EndsAre DEF IInv, Types, ReadsTo
<1>3. /\ DOMAIN ep' = End /\ ep'[p] = ep[p] /\ ep'[e] = n /\ DOMAIN wire' = End
      /\ wire'[p] = Tail(w) /\ wire'[e] = v /\ alive' = alive /\ Flags'
  BY <1>1, <1>2 DEF ReadsTo
<1>4. /\ Tail(w) \in Seq(Segment) /\ Head(w) \in Segment /\ 1 \in DOMAIN w /\ w[1] = Head(w)
      /\ \A i \in DOMAIN Tail(w) : \E j \in DOMAIN w : Tail(w)[i] = w[j]
  BY <1>2, TailIs
<1>5. Own(p, c) /\ Announced(ep[p], w, c) /\ Hidden(p, c)
  <2>1. w[1] \in Written(p)
    BY <1>2, <1>4
  <2>2. Own(p, c) /\ IsOpen(w[1], c)
    BY <1>4, <2>1 DEF Written, IsOpen
  <2> QED
    BY <1>4, <2>2 DEF Announced, Hidden
<1>6. /\ Silent(m, c) /\ \A i \in DOMAIN v : ~Moving(v[i], c)
      /\ Untold(m, c) /\ NoUpdate(v, c) /\ Untold(ep[p], c) /\ NoUpdate(w, c)
  BY <1>1, <1>5 DEF IInv, HiddenIdle, Idle, Unheard
<1> DEFINE o == InsertChannel(m, c)
<1>7. /\ Local(e, o) /\ o.chans = m.chans \cup {c}
      /\ o.credit[c] = Window /\ o.unacked[c] = 0
      /\ \A x \in Ch : x # c =>
           /\ o.credit[x] = m.credit[x] /\ o.unacked[x] = m.unacked[x]
           /\ x \in o.send <=> x \in m.send
           /\ x \in o.recv <=> x \in m.recv
      /\ DOMAIN o = Fields /\ o.reason = m.reason /\ o.nextLocal = m.nextLocal
      /\ o.retired = m.retired /\ o.acceptQ = m.acceptQ /\ o.urgent = m.urgent
      /\ o.out = m.out /\ o.todo = m.todo /\ o.held = m.held /\ o.taken = m.taken
  <2>1. m.taken[c] = 0
    BY <1>6 DEF Silent
  <2> HIDE DEF m, o
  <2> QED
    BY <1>2, <2>1, InsertIs DEF m, o
<1> HIDE DEF o
<1>8. /\ DOMAIN n = Fields /\ n.acceptQ = Append(o.acceptQ, c) /\ n.chans = o.chans
      /\ n.reason = o.reason /\ n.nextLocal = o.nextLocal /\ n.asm = o.asm /\ n.rx = o.rx
      /\ n.retired = o.retired /\ n.urgent = o.urgent /\ n.send = o.send /\ n.recv = o.recv
      /\ n.out = o.out /\ n.todo = o.todo /\ n.held = o.held /\ n.taken = o.taken
      /\ n.credit = o.credit /\ n.unacked = o.unacked
  BY <1>7 DEF o, Fields
<1>9. Local(e, n)
  <2>1. o.acceptQ \in Seq(Ch) /\ Append(o.acceptQ, c) \in Seq(Ch)
    BY <1>7 DEF Local, IsEnd
  <2> QED
    BY <1>7, <1>8, <2>1 DEF Local, IsEnd, NotRetired, Accounted, Unread
<1> HIDE DEF m, w, v
<1>10. Onward(m, n, c)
  BY <1>7, <1>8 DEF Onward, Closed, Silent
<1>11. \A x \in Ch : x # c /\ Untold(m, x) => Untold(n, x)
  BY <1>7, <1>8 DEF Untold
<1>12. Booked(m, n, w, Tail(w))
  <2> SUFFICES ASSUME NEW x \in Ch, x \in m.chans
               PROVE  /\ Stake(n, x) + SumOf(Tail(w), x, "WINDOW") = Stake(m, x) + SumOf(w, x, "WINDOW")
                      /\ Debt(n, x) + SumOf(Tail(w), x, "DATA") = Debt(m, x) + SumOf(w, x, "DATA")
    BY DEF Booked
  <2>1. x # c
    BY DEF m
  <2>2. Stake(n, x) = Stake(m, x) /\ Debt(n, x) = Debt(m, x)
    BY <1>7, <1>8, <2>1 DEF Stake, Debt
  <2>3. Stake(m, x) \in Int /\ Debt(m, x) \in Int
    BY <1>2, BooksAre
  <2>4. Worth(Head(w), x, "WINDOW") = 0 /\ Worth(Head(w), x, "DATA") = 0
    BY DEF Worth, w
  <2>5. /\ Stake(m, x) = Stake(m, x) + Worth(Head(w), x, "WINDOW")
        /\ Debt(m, x) = Debt(m, x) + Worth(Head(w), x, "DATA")
    BY <2>3, <2>4
  <2> QED
    BY <1>2, <2>2, <2>3, <2>5, ReadMoves
<1>13. SumOf(Tail(w), c, "WINDOW") = 0
  <2>1. NoUpdate(Tail(w), c)
    BY <1>4, <1>6 DEF NoUpdate
  <2> QED
    BY <1>4, <2>1, NothingInFlight
<1>14. Balanced(e, c)'
  <2>1. Stake(n, c) = Window
    <3>1. n.credit[c] = Window /\ n.held[c] = <<>> /\ n.out[c] = <<>>
      BY <1>6, <1>7, <1>8 DEF Silent
    <3>2. SumOf(<<>>, c, "DATA") = 0 /\ Len(<<>>) = 0
      BY SumEmpty
    <3> QED
      BY <3>1, <3>2, ConstantsAre DEF Stake
  <2>2. SumOf(v, c, "DATA") = 0
    BY <1>2, <1>6, NothingInFlight
  <2>3. Debt(ep[p], c) = 0
    BY <1>2, <1>6, DebtIsNone
  <2>4. Window + 0 + 0 + 0 = Window
    BY ConstantsAre
  <2> QED
    BY <1>1, <1>3, <1>13, <2>1, <2>2, <2>3, <2>4 DEF Balanced
<1>15. ASSUME Joined(p, c)' PROVE Balanced(p, c)'
  <2>1. Joined(p, c)
    BY <1>1, <1>3, <1>5, <1>15 DEF Joined, w, m
  <2>2. Balanced(p, c)
    BY <1>1, <2>1 DEF IInv, Conserved
  <2>3. Stake(ep[p], c) + SumOf(w, c, "DATA") + Debt(m, c) + SumOf(v, c, "WINDOW") = Window
    BY <1>1, <2>2 DEF Balanced, w, m, v
  <2>4. Debt(m, c) = 0
    BY <1>2, <1>6, DebtIsNone
  <2>5. Debt(n, c) = 0
    <3>1. Untold(n, c) /\ IsEnd(e, n)
      BY <1>6, <1>7, <1>8, <1>9 DEF Untold, Local
    <3> QED
      BY <3>1, DebtIsNone
  <2>6. SumOf(Tail(w), c, "DATA") = SumOf(w, c, "DATA")
    <3>1. SumOf(w, c, "DATA") = Worth(Head(w), c, "DATA") + SumOf(Tail(w), c, "DATA")
      BY <1>2, SumHeadTail
    <3>2. Worth(Head(w), c, "DATA") = 0
      BY DEF Worth, w
    <3>3. SumOf(Tail(w), c, "DATA") \in Int
      BY <1>4, SumsAre
    <3> QED
      BY <3>1, <3>2, <3>3
  <2> QED
    BY <1>1, <1>3, <2>3, <2>4, <2>5, <2>6 DEF Balanced
<1>16. EndStep(e, c)
  <2>1. Shortened(v, wire'[e])
    BY <1>3 DEF Shortened
  <2>2. Read(w, wire'[p], c)
    BY <1>2, <1>3 DEF Read, w
  <2>3. \A x \in Ch : x \in n.chans /\ x \notin m.chans => x = c
    BY <1>7, <1>8
  <2> QED
    BY <1>2, <1>3, <1>9, <1>10, <1>11, <1>12, <1>14, <1>15, <2>1, <2>2, <2>3
       DEF EndStep, w, m, v
<1> QED
  BY <1>16, StepKeeps

LEMMA PeerOpenKeeps ==
    ASSUME IInv, NEW e \in End, NEW n, ReadsTo(e, n),
           NEW s, s = Head(wire[Peer(e)]), s.kind = "OPEN", n = PeerOpen(ep[e], e, s.ch)
    PROVE  IInv'
<1> DEFINE p == Peer(e)
           m == ep[e]
           c == s.ch
<1>1. p \in End /\ Local(e, m) /\ IsEnd(e, m) /\ s \in Written(p) /\ s \in Segment
  <2>1. p \in End /\ wire[p] \in Seq(Written(p)) /\ wire[p] # <<>>
    BY PeerIs, EndsAre DEF IInv, ReadsTo
  <2>2. s \in Written(p)
    BY <2>1, HeadTailProperties
  <2> QED
    BY <2>1, <2>2 DEF IInv, Types, Local, Written
<1>2. c \in Ch /\ c % 2 = FirstChannel(p)
  BY <1>1 DEF Written, Segment, Own
<1>3. ASSUME Fine(e, m, n) PROVE IInv'
  <2>1. Handled(e, m, n, s)
    BY <1>1, <1>3, FineIsHandled
  <2> QED
    BY <2>1, HandledKeeps
<1>4. CASE Closed(m) \/ c \in Range(m.retired)
  <2>1. n = m
    BY <1>2, <1>4 DEF PeerOpen
  <2> QED
    BY <1>1, <1>3, <2>1, SameIsFine
<1>5. CASE ~(Closed(m) \/ c \in Range(m.retired)) /\ c \in m.chans
  <2>1. n = Shutdown(m, "DuplicateChannel")
    BY <1>2, <1>5 DEF PeerOpen
  <2> QED
    BY <1>1, <1>3, <2>1, ShutdownIsFine
<1>6. CASE /\ ~(Closed(m) \/ c \in Range(m.retired)) /\ c \notin m.chans
           /\ Cardinality(m.chans) >= MaxChannels
  <2>1. n = Shutdown(m, "TooManyChannels")
    BY <1>2, <1>6 DEF PeerOpen
  <2> QED
    BY <1>1, <1>3, <2>1, ShutdownIsFine
<1>7. CASE /\ ~(Closed(m) \/ c \in Range(m.retired)) /\ c \notin m.chans
           /\ ~(Cardinality(m.chans) >= MaxChannels)
  <2>1. n = [InsertChannel(m, c) EXCEPT !.acceptQ = Append(@, c)]
    BY <1>2, <1>7 DEF PeerOpen
  <2> QED
    BY <1>2, <1>7, <2>1, AdmitKeeps
<1> QED
  BY <1>4, <1>5, <1>6, <1>7

LEMMA ReaderTakesKeeps ==
    ASSUME IInv, NEW e \in End, ReaderTakes(e)
    PROVE  IInv'
<1> DEFINE p == Peer(e)
           m == ep[e]
           s == Head(wire[p])
           n == HandleSegment(m, e, s)
<1>1. p \in End /\ Local(e, m) /\ s \in Segment /\ wire[p] # <<>>
  <2>1. p \in End /\ wire[p] \in Seq(Segment) /\ wire[p] # <<>>
    BY PeerIs, EndsAre DEF IInv, ReaderTakes
  <2>2. s \in Segment
    BY <2>1, HeadTailProperties
  <2> QED
    BY <2>1, <2>2 DEF IInv, Types
<1>2. ReadsTo(e, n)
  <2>1. hist' = [hist EXCEPT ![e] = Noting(e, n, @)] /\ fin' = fin /\ alive' = alive
    BY DEF ReaderTakes
  <2> HIDE DEF n
  <2>2. Histories'
    <3>1. Histories
      BY DEF IInv, Types, Flags
    <3> QED
      BY <2>1, <3>1, NotingIs
  <2> QED
    BY <2>1, <2>2 DEF ReaderTakes, ReadsTo, n, IInv, Types, Flags
<1>3. s.ch \in Ch /\ s.kind \in {"OPEN", "DATA", "WINDOW", "RESET"}
  BY <1>1 DEF Segment
<1>4. CASE s.kind = "OPEN"
  <2>1. n = PeerOpen(m, e, s.ch)
    BY <1>4 DEF HandleSegment
  <2> HIDE DEF n, s
  <2> QED
    BY <1>2, <1>4, <2>1, PeerOpenKeeps DEF s
<1>5. ASSUME Handled(e, m, n, s) PROVE IInv'
  <2> HIDE DEF n
  <2> QED
    BY <1>2, <1>5, HandledKeeps
<1>6. CASE s.kind = "DATA"
  <2>1. n = PeerData(m, s.ch, s.body)
    BY <1>6 DEF HandleSegment
  <2> HIDE DEF n, s, m
  <2> QED
    BY <1>1, <1>3, <1>5, <1>6, <2>1, DataIsHandled
<1>7. CASE s.kind = "WINDOW"
  <2>1. n = PeerWindow(m, s.ch, s.n)
    BY <1>7 DEF HandleSegment
  <2> HIDE DEF n, s, m
  <2> QED
    BY <1>1, <1>3, <1>5, <1>7, <2>1, WindowIsHandled
<1>8. CASE s.kind = "RESET"
  <2>1. n = PeerReset(m, s.ch)
    BY <1>8 DEF HandleSegment
  <2> HIDE DEF n, s, m
  <2>2. Fine(e, m, n)
    BY <1>1, <1>3, <2>1, ResetIsFine
  <2>3. IsEnd(e, m)
    BY <1>1 DEF Local
  <2> QED
    BY <1>1, <1>5, <1>8, <2>2, <2>3, FineIsHandled
<1> QED
  BY <1>3, <1>4, <1>6, <1>7, <1>8

\* What an end keeps for channel c.
Alike(m, n, c) ==
    /\ c \in n.chans <=> c \in m.chans
    /\ c \in n.send <=> c \in m.send
    /\ c \in n.recv <=> c \in m.recv
    /\ n.todo[c] = m.todo[c] /\ n.held[c] = m.held[c] /\ n.taken[c] = m.taken[c]
    /\ n.out[c] = m.out[c] /\ n.unacked[c] = m.unacked[c] /\ n.credit[c] = m.credit[c]

\* The next id is used up, and its channel may have been created.
Opened(m, n) ==
    LET id == m.nextLocal
    IN  /\ n.nextLocal = id + 2 /\ n.reason = m.reason /\ n.urgent = m.urgent
        /\ \A c \in Ch : c # id => Alike(m, n, c)
        /\ \/ Alike(m, n, id)
           \/ /\ n.unacked[id] = 0 /\ n.credit[id] = Window /\ n.held[id] = m.held[id]
              /\ n.out[id] = Append(m.out[id], OpenSeg(id))

LEMMA OpenedKeeps ==
    ASSUME IInv, NEW e \in End, NEW n, Becomes(e, n), Histories', Local(e, n),
           Opened(ep[e], n), ep[e].nextLocal \in Ch
    PROVE  IInv'
<1> DEFINE p == Peer(e)
           m == ep[e]
           v == wire[e]
<1>1. p \in End /\ p # e /\ Peer(p) = e /\ \A x \in End : x = e \/ x = p
  BY PeerIs
<1>2. /\ Types /\ DOMAIN ep = End /\ v \in Seq(Segment) /\ wire[p] \in Seq(Segment)
      /\ IsEnd(e, m) /\ IsEnd(p, ep[p]) /\ IsEnd(e, n)
  BY <1>1, EndsAre DEF IInv, Types, Local
<1>3. PICK id \in Ch : id = m.nextLocal
  OBVIOUS
<1>4. id \in Nat
  BY ChannelsAre
<1>5. /\ DOMAIN ep' = End /\ ep'[p] = ep[p] /\ ep'[e] = n /\ wire' = wire /\ alive' = alive
  BY <1>1, <1>2 DEF Becomes
<1>6. Types'
  BY <1>1, <1>2, <1>5 DEF Becomes, Types, Flags
<1>7. Own(e, id) /\ ~Own(p, id)
  BY <1>3, <1>4, <1>2, PeerIs DEF IsEnd
<1>8. /\ Idle(m, v, id) /\ Idle(ep[p], wire[p], id)
      /\ Unheard(ep[p], wire[p], id) /\ Unheard(m, v, id)
  <2>1. Unused(e, id) /\ Hidden(e, id)
    BY <1>3, <1>4, <1>7 DEF Unused, Hidden
  <2> QED
    BY <2>1 DEF IInv, UnusedIdle, HiddenIdle
<1>9. /\ n.nextLocal = id + 2 /\ n.reason = m.reason /\ n.urgent = m.urgent
      /\ \A c \in Ch : c # id => Alike(m, n, c)
      /\ \/ Alike(m, n, id)
         \/ /\ n.unacked[id] = 0 /\ n.credit[id] = Window /\ n.held[id] = m.held[id]
            /\ n.out[id] = Append(m.out[id], OpenSeg(id))
  BY <1>3 DEF Opened
<1> HIDE DEF m, v
<1>10. n.out[id] = m.out[id] \/ (DOMAIN n.out[id] = {1} /\ n.out[id] = <<OpenSeg(id)>>)
  <2>1. m.out[id] = <<>>
    BY <1>8 DEF Idle, Silent
  <2> QED
    BY <1>9, <2>1 DEF Alike
<1>11. Order'
  <2>1. ASSUME NEW c \in Ch PROVE OpenLeads(n, v, c)
    <3>1. OpenLeads(m, v, c)
      BY DEF IInv, Order, m, v
    <3>2. CASE n.out[c] = m.out[c]
      BY <3>1, <3>2 DEF OpenLeads
    <3>3. CASE n.out[c] # m.out[c]
      <4>1. c = id /\ DOMAIN n.out[id] = {1}
        BY <1>9, <1>10, <3>3 DEF Alike
      <4> QED
        BY <1>8, <3>1, <4>1 DEF OpenLeads, Idle
    <3> QED
      BY <3>2, <3>3
  <2>2. \A c \in Ch : OpenLeads(ep[p], wire[p], c)
    BY <1>1 DEF IInv, Order
  <2>3. ASSUME NEW x \in End, NEW c \in Ch PROVE OpenLeads(ep'[x], wire'[x], c)
    BY <1>1, <1>5, <2>1, <2>2 DEF v
  <2> QED
    BY <2>3 DEF Order
<1>12. UnusedIdle'
  <2>1. ASSUME NEW c \in Ch, Own(e, c), c >= id + 2 PROVE Idle(n, v, c)
    <3>1. c # id /\ c >= id
      BY <1>4, <2>1, ChannelsAre
    <3>2. Idle(m, v, c)
      BY <1>3, <2>1, <3>1 DEF IInv, UnusedIdle, Unused, m, v
    <3> QED
      BY <1>9, <3>1, <3>2 DEF Idle, Silent, Alike
  <2>2. \A c \in Ch : Own(p, c) /\ c >= ep[p].nextLocal => Idle(ep[p], wire[p], c)
    BY <1>1 DEF IInv, UnusedIdle, Unused
  <2>3. ASSUME NEW x \in End, NEW c \in Ch, Own(x, c), c >= ep'[x].nextLocal
        PROVE  Idle(ep'[x], wire'[x], c)
    BY <1>1, <1>5, <1>9, <2>1, <2>2, <2>3 DEF v
  <2> QED
    BY <2>3 DEF UnusedIdle, Unused
<1>13. HiddenIdle'
  <2>1. ASSUME NEW c \in Ch, Hidden(e, c)'
        PROVE  /\ Idle(ep[p], wire[p], c) /\ Unheard(ep[p], wire[p], c) /\ Unheard(n, v, c)
    <3>1. CASE c = id
      <4>1. n.unacked[id] = 0
        BY <1>8, <1>9 DEF Alike, Unheard, Untold
      <4> QED
        BY <1>8, <1>9, <3>1, <4>1 DEF Unheard, Untold
    <3>2. CASE c # id
      <4>1. Own(e, c) /\ (c >= id + 2 \/ Announced(n, v, c))
        BY <1>5, <1>9, <2>1 DEF Hidden, v
      <4>2. Own(e, c) /\ (c >= id \/ Announced(m, v, c))
        BY <1>4, <1>9, <3>2, <4>1, ChannelsAre DEF Announced, Alike
      <4>3. Idle(ep[p], wire[p], c) /\ Unheard(ep[p], wire[p], c) /\ Unheard(m, v, c)
        BY <1>3, <4>2 DEF IInv, HiddenIdle, Hidden, m, v
      <4> QED
        BY <1>9, <3>2, <4>3 DEF Unheard, Untold, Alike
    <3> QED
      BY <3>1, <3>2
  <2>2. ASSUME NEW c \in Ch, Hidden(p, c)'
        PROVE  /\ Idle(n, v, c) /\ Unheard(n, v, c) /\ Unheard(ep[p], wire[p], c)
    <3>1. Hidden(p, c)
      BY <1>1, <1>5, <2>2 DEF Hidden
    <3>2. c # id
      BY <1>7, <3>1 DEF Hidden
    <3>3. Idle(m, v, c) /\ Unheard(m, v, c) /\ Unheard(ep[p], wire[p], c)
      BY <1>1, <3>1 DEF IInv, HiddenIdle, m, v
    <3> QED
      BY <1>9, <3>2, <3>3 DEF Unheard, Untold, Alike, Idle, Silent
  <2>3. ASSUME NEW x \in End, NEW c \in Ch, Hidden(x, c)'
        PROVE  /\ Idle(ep'[Peer(x)], wire'[Peer(x)], c)
               /\ Unheard(ep'[Peer(x)], wire'[Peer(x)], c) /\ Unheard(ep'[x], wire'[x], c)
    BY <1>1, <1>5, <2>1, <2>2, <2>3 DEF v
  <2> QED
    BY <2>3 DEF HiddenIdle
<1>14. Conserved'
  <2>1. ASSUME NEW c \in Ch, Alike(m, n, c), Joined(e, c)' PROVE Balanced(e, c)'
    <3>1. Joined(e, c)
      BY <1>1, <1>5, <1>9, <2>1 DEF Joined, Closed, Announced, Alike, m, v
    <3>2. Balanced(e, c)
      BY <3>1 DEF IInv, Conserved
    <3>3. Stake(n, c) = Stake(m, c)
      BY <2>1 DEF Stake, Alike
    <3> QED
      BY <1>1, <1>5, <3>2, <3>3 DEF Balanced, m, v
  <2>2. ASSUME NEW c \in Ch, Joined(p, c)' PROVE Balanced(p, c)'
    <3>1. c \in ep[p].chans /\ c # id
      BY <1>1, <1>5, <1>8, <2>2 DEF Joined, Idle, Silent
    <3>2. Joined(p, c)
      BY <1>1, <1>5, <1>9, <2>2, <3>1 DEF Joined, Closed, Alike, m, v
    <3>3. Balanced(p, c)
      BY <1>1, <3>2 DEF IInv, Conserved
    <3>4. Debt(n, c) = Debt(m, c)
      BY <1>9, <3>1 DEF Debt, Alike
    <3> QED
      BY <1>1, <1>5, <3>3, <3>4 DEF Balanced, m, v
  <2>3. ASSUME ~Alike(m, n, id) PROVE Balanced(e, id)'
    <3>1. n.credit[id] = Window /\ n.held[id] = <<>> /\ n.out[id] = <<OpenSeg(id)>>
      BY <1>8, <1>9, <2>3 DEF Idle, Silent
    <3>2. Stake(n, id) = Window
      <4>1. SumOf(<<OpenSeg(id)>>, id, "DATA") = Worth(OpenSeg(id), id, "DATA")
        <5>1. OpenSeg(id) \in Segment
          BY DEF OpenSeg, Segment
        <5> QED
          BY <5>1, SumOne
      <4>2. Worth(OpenSeg(id), id, "DATA") = 0 /\ Len(<<>>) = 0
        BY DEF Worth, OpenSeg
      <4> QED
        BY <3>1, <4>1, <4>2, ConstantsAre DEF Stake
    <3>3. SumOf(v, id, "DATA") = 0
      BY <1>2, <1>8, NothingInFlight DEF Idle
    <3>4. Debt(ep[p], id) = 0 /\ SumOf(wire[p], id, "WINDOW") = 0
      <4>1. Untold(ep[p], id) /\ NoUpdate(wire[p], id) /\ id \in Ch
        BY <1>8 DEF Unheard
      <4> QED
        BY <1>2, <4>1, DebtIsNone, NothingInFlight
    <3>5. Window + 0 + 0 + 0 = Window
      BY ConstantsAre
    <3> QED
      BY <1>1, <1>5, <3>2, <3>3, <3>4, <3>5 DEF Balanced, v
  <2>4. ASSUME NEW x \in End, NEW c \in Ch, Joined(x, c)' PROVE Balanced(x, c)'
    <3>1. CASE x = p
      BY <2>2, <2>4, <3>1
    <3>2. CASE x = e
      BY <1>9, <2>1, <2>3, <2>4, <3>2
    <3> QED
      BY <1>1, <3>1, <3>2
  <2> QED
    BY <2>4 DEF Conserved
<1> QED
  BY <1>6, <1>11, <1>12, <1>13, <1>14 DEF IInv

LEMMA OpenBiKeeps ==
    ASSUME IInv, NEW e \in End, OpenBi(e)
    PROVE  IInv'
<1> DEFINE k == ep[e]
           id == k.nextLocal
           m == [k EXCEPT !.nextLocal = @ + 2]
           s == OpenSeg(id)
<1>1. /\ Local(e, k) /\ IsEnd(e, k) /\ DOMAIN k = Fields /\ id \in Ch /\ id \in Nat
      /\ Histories'
  BY ChannelsAre DEF IInv, Types, Flags, Local, IsEnd, OpenBi, Histories
<1>2. /\ DOMAIN m = Fields /\ m.nextLocal = id + 2 /\ m.chans = k.chans /\ m.reason = k.reason
      /\ m.retired = k.retired /\ m.urgent = k.urgent /\ m.out = k.out
      /\ m.credit = k.credit /\ m.asm = k.asm /\ m.unacked = k.unacked /\ m.rx = k.rx
      /\ m.send = k.send /\ m.recv = k.recv /\ m.acceptQ = k.acceptQ
      /\ m.todo = k.todo /\ m.held = k.held /\ m.taken = k.taken
  BY <1>1 DEF Fields
<1>3. \/ Becomes(e, m)
      \/ /\ Becomes(e, [InsertChannel(m, id) EXCEPT !.out[id] = Append(@, s)])
         /\ ~Closed(m) /\ id \notin m.chans \union Range(m.retired)
  <2> HIDE DEF m
  <2> QED
    BY DEF OpenBi, m
<1> HIDE DEF m
<1>4. Local(e, m)
  <2>1. Own(e, id) /\ id + 2 \in Nat
    <3>1. Own(e, k.nextLocal) /\ k.nextLocal \in Nat
      BY <1>1 DEF IsEnd
    <3> HIDE DEF k
    <3> QED
      BY <3>1
  <2>2. Own(e, id + 2)
    BY <1>1, <2>1 DEF Own
  <2> QED
    BY <1>1, <1>2, <2>1, <2>2 DEF Local, IsEnd, NotRetired, Accounted, Unread
<1>5. CASE Becomes(e, m)
  <2>1. Opened(k, m)
    BY <1>1, <1>2 DEF Opened, Alike
  <2> QED
    BY <1>1, <1>4, <1>5, <2>1, OpenedKeeps
<1>6. ASSUME NEW n, n = [InsertChannel(m, id) EXCEPT !.out[id] = Append(@, s)], Becomes(e, n),
             ~Closed(m), id \notin m.chans \union Range(m.retired)
      PROVE  IInv'
  <2> DEFINE o == InsertChannel(m, id)
  <2>1. Idle(k, wire[e], id)
    <3>1. Unused(e, id)
      BY <1>1 DEF IsEnd, Unused
    <3> QED
      BY <1>1, <3>1 DEF IInv, UnusedIdle
  <2>2. m.taken[id] = 0
    BY <1>2, <2>1 DEF Idle, Silent
  <2>3. /\ Local(e, o) /\ o.chans = m.chans \cup {id}
        /\ o.credit[id] = Window /\ o.unacked[id] = 0
        /\ \A x \in Ch : x # id =>
             /\ o.credit[x] = m.credit[x] /\ o.unacked[x] = m.unacked[x]
             /\ x \in o.send <=> x \in m.send
             /\ x \in o.recv <=> x \in m.recv
        /\ DOMAIN o = Fields /\ o.reason = m.reason /\ o.nextLocal = m.nextLocal
        /\ o.retired = m.retired /\ o.acceptQ = m.acceptQ /\ o.urgent = m.urgent
        /\ o.out = m.out /\ o.todo = m.todo /\ o.held = m.held /\ o.taken = m.taken
    <3> HIDE DEF o, id, k
    <3> QED
      BY <1>1, <1>4, <1>6, <2>2, InsertIs DEF o
  <2> HIDE DEF o
  <2>4. /\ DOMAIN n = Fields /\ n.out = [o.out EXCEPT ![id] = Append(@, s)]
        /\ n.chans = o.chans /\ n.reason = o.reason /\ n.nextLocal = o.nextLocal
        /\ n.asm = o.asm /\ n.rx = o.rx /\ n.acceptQ = o.acceptQ
        /\ n.retired = o.retired /\ n.urgent = o.urgent /\ n.send = o.send /\ n.recv = o.recv
        /\ n.todo = o.todo /\ n.held = o.held /\ n.taken = o.taken
        /\ n.credit = o.credit /\ n.unacked = o.unacked
    BY <1>6, <2>3 DEF o, Fields
  <2>5. /\ DOMAIN o.out = Ch /\ \A x \in Ch : o.out[x] \in Seq(Sendable(e, x))
        /\ s \in Sendable(e, id)
    <3>1. s \in Segment /\ Own(e, id)
      BY <1>1 DEF OpenSeg, Segment, IsEnd
    <3> QED
      BY <2>3, <3>1 DEF Sendable, OpenSeg, Local, IsEnd
  <2> HIDE DEF s
  <2>6. /\ DOMAIN n.out = Ch /\ n.out[id] = Append(o.out[id], s)
        /\ \A x \in Ch : x # id => n.out[x] = o.out[x]
    BY <1>1, <2>4, <2>5
  <2>7. \A x \in Ch : n.out[x] \in Seq(Sendable(e, x))
    <3>1. n.out[id] \in Seq(Sendable(e, id))
      BY <1>1, <2>5, <2>6
    <3> QED
      BY <2>5, <2>6, <3>1
  <2>8. Local(e, n)
    BY <2>3, <2>4, <2>6, <2>7 DEF Local, IsEnd, NotRetired, Accounted, Unread
  <2>9. Opened(k, n)
    <3>1. \A x \in Ch : x # id => Alike(k, n, x)
      BY <1>2, <2>3, <2>4, <2>6 DEF Alike
    <3>2. /\ n.unacked[id] = 0 /\ n.credit[id] = Window /\ n.held[id] = k.held[id]
      BY <1>2, <2>3, <2>4
    <3>3. n.out[id] = Append(k.out[id], OpenSeg(id))
      BY <1>2, <2>3, <2>4, <2>6 DEF s
    <3> QED
      BY <1>2, <2>3, <2>4, <3>1, <3>2, <3>3 DEF Opened
  <2> QED
    BY <1>1, <1>6, <2>8, <2>9, OpenedKeeps
<1> QED
  BY <1>3, <1>5, <1>6
-----------------------------------------------------------------------------
(* The writer moves the first segment s of a queue onto the wire. *)

Writes(e, m, n, s) ==
    /\ n.nextLocal = m.nextLocal /\ n.reason = m.reason /\ n.chans = m.chans
    /\ n.retired = m.retired /\ n.acceptQ = m.acceptQ
    /\ n.send = m.send /\ n.recv = m.recv /\ n.todo = m.todo /\ n.held = m.held
    /\ n.taken = m.taken /\ n.credit = m.credit /\ n.unacked = m.unacked
    /\ n.asm = m.asm /\ n.rx = m.rx
    /\ \/ /\ m.urgent # <<>> /\ s = Head(m.urgent) /\ n.urgent = Tail(m.urgent)
          /\ s \in Updates /\ n.out = m.out
       \/ /\ s.ch \in Ch /\ m.out[s.ch] # <<>> /\ s = Head(m.out[s.ch])
          /\ n.out[s.ch] = Tail(m.out[s.ch])
          /\ s \in Sendable(e, s.ch) /\ n.urgent = m.urgent
          /\ \A c \in Ch : c # s.ch => n.out[c] = m.out[c]

LEMMA PickIs ==
    ASSUME NEW m, Queued(m) # {}
    PROVE  Pick(m) \in Queued(m)
<1>1. ASSUME NEW S \in SUBSET Nat, S # {} PROVE MinOf(S) \in S
  <2>1. \E n \in S : \A k \in S : n <= k
    BY <1>1, LeastNumber
  <2> QED
    BY <2>1 DEF MinOf
<1> DEFINE later == {c \in Queued(m) : c >= m.cursor}
<1>2. Queued(m) \in SUBSET Nat /\ later \in SUBSET Nat /\ later \subseteq Queued(m)
  BY ChannelsAre DEF Queued
<1>3. Pick(m) = IF Control \in Queued(m) THEN Control
                ELSE MinOf(IF later # {} THEN later ELSE Queued(m))
  BY DEF Pick
<1> HIDE DEF later
<1>4. CASE later # {}
  <2>1. MinOf(later) \in later
    BY <1>1, <1>2, <1>4
  <2> QED
    BY <1>2, <1>3, <1>4, <2>1
<1>5. CASE later = {}
  <2>1. MinOf(Queued(m)) \in Queued(m)
    BY <1>1, <1>2
  <2> QED
    BY <1>3, <1>5, <2>1
<1> QED
  BY <1>4, <1>5

LEMMA TakeNextWrites ==
    ASSUME NEW e, NEW m, Local(e, m), ~NothingToTake(m)
    PROVE  /\ TakeNext(m).seg \in Written(e)
           /\ Local(e, TakeNext(m).m) /\ Writes(e, m, TakeNext(m).m, TakeNext(m).seg)
<1>1. /\ IsEnd(e, m) /\ DOMAIN m = Fields /\ m.urgent \in Seq(Updates)
      /\ DOMAIN m.out = Ch /\ \A c \in Ch : m.out[c] \in Seq(Sendable(e, c))
  BY DEF Local, IsEnd
<1>2. CASE m.urgent # <<>>
  <2> DEFINE s == Head(m.urgent)
             n == [m EXCEPT !.urgent = Tail(@)]
  <2>1. TakeNext(m).seg = s /\ TakeNext(m).m = n
    BY <1>2 DEF TakeNext
  <2>2. s \in Updates /\ Tail(m.urgent) \in Seq(Updates)
    BY <1>1, <1>2, HeadTailProperties
  <2>3. s \in Written(e)
    BY <2>2 DEF Updates, Written
  <2>4. /\ DOMAIN n = Fields /\ n.urgent = Tail(m.urgent) /\ n.out = m.out
        /\ n.nextLocal = m.nextLocal /\ n.reason = m.reason /\ n.chans = m.chans
        /\ n.retired = m.retired /\ n.acceptQ = m.acceptQ
        /\ n.send = m.send /\ n.recv = m.recv /\ n.todo = m.todo /\ n.held = m.held
        /\ n.taken = m.taken /\ n.credit = m.credit /\ n.unacked = m.unacked
        /\ n.asm = m.asm /\ n.rx = m.rx
    BY <1>1 DEF Fields
  <2> HIDE DEF n
  <2>5. Local(e, n)
    BY <2>2, <2>4 DEF Local, IsEnd, NotRetired, Accounted, Unread
  <2>6. Writes(e, m, n, s)
    BY <1>2, <2>2, <2>4 DEF Writes
  <2> QED
    BY <2>1, <2>3, <2>5, <2>6
<1>3. CASE m.urgent = <<>>
  <2>1. PICK d \in Ch : d = Pick(m) /\ m.out[d] # <<>>
    <3>1. Queued(m) # {}
      BY <1>3 DEF NothingToTake
    <3>2. Pick(m) \in Queued(m)
      BY <3>1, PickIs
    <3> QED
      BY <3>2 DEF Queued
  <2> DEFINE s == Head(m.out[d])
             n == [m EXCEPT !.out[d] = Tail(@), !.cursor = IF d = Control THEN @ ELSE d + 1]
  <2>2. TakeNext(m).seg = s /\ TakeNext(m).m = n
    BY <1>3, <2>1 DEF TakeNext
  <2>3. m.out[d] \in Seq(Sendable(e, d))
    BY <1>1
  <2>4. s \in Sendable(e, d) /\ Tail(m.out[d]) \in Seq(Sendable(e, d))
    BY <2>1, <2>3, HeadTailProperties
  <2>5. s \in Written(e) /\ s.ch = d
    BY <2>4 DEF Sendable, Written
  <2>6. /\ DOMAIN n = Fields /\ n.out = [m.out EXCEPT ![d] = Tail(m.out[d])]
        /\ n.urgent = m.urgent
        /\ n.nextLocal = m.nextLocal /\ n.reason = m.reason /\ n.chans = m.chans
        /\ n.retired = m.retired /\ n.acceptQ = m.acceptQ
        /\ n.send = m.send /\ n.recv = m.recv /\ n.todo = m.todo /\ n.held = m.held
        /\ n.taken = m.taken /\ n.credit = m.credit /\ n.unacked = m.unacked
        /\ n.asm = m.asm /\ n.rx = m.rx
    BY <1>1 DEF Fields
  <2> HIDE DEF n
  <2>7. /\ DOMAIN n.out = Ch /\ n.out[d] = Tail(m.out[d])
        /\ \A c \in Ch : c # d => n.out[c] = m.out[c]
    BY <1>1, <2>6
  <2>8. \A c \in Ch : n.out[c] \in Seq(Sendable(e, c))
    BY <1>1, <2>4, <2>7
  <2>9. Local(e, n)
    BY <2>6, <2>7, <2>8 DEF Local, IsEnd, NotRetired, Accounted, Unread
  <2>10. Writes(e, m, n, s)
    <3> HIDE DEF s
    <3>1. s = Head(m.out[d])
      BY DEF s
    <3> QED
      BY <2>1, <2>4, <2>5, <2>6, <2>7, <3>1 DEF Writes
  <2> QED
    BY <2>2, <2>5, <2>9, <2>10
<1> QED
  BY <1>2, <1>3

\* What leaves a queue is on the wire: each sum over both stays.
LEMMA WritesMoves ==
    ASSUME NEW e, NEW m, NEW n, IsEnd(e, m), IsEnd(e, n), NEW s \in Segment, Writes(e, m, n, s),
           NEW v \in Seq(Segment), NEW c \in Ch
    PROVE  /\ Stake(n, c) + SumOf(Append(v, s), c, "DATA") = Stake(m, c) + SumOf(v, c, "DATA")
           /\ Debt(n, c) + SumOf(Append(v, s), c, "WINDOW") = Debt(m, c) + SumOf(v, c, "WINDOW")
<1>1. PICK x \in Nat, y \in Nat : x = Worth(s, c, "DATA") /\ y = Worth(s, c, "WINDOW")
  BY WorthIs
<1>2. PICK a \in Nat, b \in Nat : a = SumOf(v, c, "DATA") /\ b = SumOf(v, c, "WINDOW")
  BY SumsAre
<1>3. SumOf(Append(v, s), c, "DATA") = a + x /\ SumOf(Append(v, s), c, "WINDOW") = b + y
  BY <1>1, <1>2, SumAppend
<1>4. PICK k \in Nat, h \in Nat, u \in Nat :
        k = m.credit[c] /\ h = Len(m.held[c]) /\ u = m.unacked[c]
  BY NumbersAre
<1>5. PICK o \in Nat, o2 \in Nat, g \in Nat, g2 \in Nat :
        /\ o = SumOf(m.out[c], c, "DATA") /\ o2 = SumOf(n.out[c], c, "DATA")
        /\ g = SumOf(m.urgent, c, "WINDOW") /\ g2 = SumOf(n.urgent, c, "WINDOW")
  BY NumbersAre
<1>6. /\ m.out[c] \in Seq(Segment) /\ m.urgent \in Seq(Segment)
      /\ m.out[c] # <<>> =>
           SumOf(m.out[c], c, "DATA")
             = Worth(Head(m.out[c]), c, "DATA") + SumOf(Tail(m.out[c]), c, "DATA")
      /\ m.urgent # <<>> =>
           SumOf(m.urgent, c, "WINDOW")
             = Worth(Head(m.urgent), c, "WINDOW") + SumOf(Tail(m.urgent), c, "WINDOW")
  BY QueuesAre, SumHeadTail
<1>7. o = x + o2 /\ g = y + g2
  <2>1. CASE m.urgent # <<>> /\ s = Head(m.urgent) /\ n.urgent = Tail(m.urgent)
             /\ s \in Updates /\ n.out = m.out
    <3>1. x = 0 /\ o = o2
      BY <1>1, <1>5, <2>1 DEF Worth, Updates
    <3>2. g = y + g2
      BY <1>1, <1>5, <1>6, <2>1
    <3> QED
      BY <3>1, <3>2
  <2>2. CASE /\ s.ch \in Ch /\ m.out[s.ch] # <<>> /\ s = Head(m.out[s.ch])
             /\ n.out[s.ch] = Tail(m.out[s.ch])
             /\ s \in Sendable(e, s.ch) /\ n.urgent = m.urgent
             /\ \A i \in Ch : i # s.ch => n.out[i] = m.out[i]
    <3>1. y = 0 /\ g = g2
      BY <1>1, <1>5, <2>2 DEF Worth, Sendable
    <3>2. CASE s.ch = c
      <4>1. o = x + o2
        BY <1>1, <1>5, <1>6, <2>2, <3>2
      <4> QED
        BY <3>1, <4>1
    <3>3. CASE s.ch # c
      <4>1. x = 0 /\ o = o2
        BY <1>1, <1>5, <2>2, <3>3 DEF Worth
      <4> QED
        BY <3>1, <4>1
    <3> QED
      BY <3>2, <3>3
  <2> QED
    BY <2>1, <2>2 DEF Writes
<1>8. /\ Stake(m, c) = k + h + o /\ Stake(n, c) = k + h + o2
      /\ Debt(m, c) = u + g /\ Debt(n, c) = u + g2
  BY <1>4, <1>5 DEF Stake, Debt, Writes
<1>9. (k + h + o2) + (a + x) = (k + h + o) + a /\ (u + g2) + (b + y) = (u + g) + b
  BY <1>7
<1> QED
  BY <1>2, <1>3, <1>8, <1>9

\* What becomes of the two queues of channel c and of what is said about it.
LEMMA WritesTells ==
    ASSUME NEW e, NEW m, NEW n, IsEnd(e, m), IsEnd(e, n), NEW s \in Segment, Writes(e, m, n, s),
           NEW v \in Seq(Segment), NEW c \in Ch, OpenLeads(m, v, c)
    PROVE  /\ OpenLeads(n, Append(v, s), c)
           /\ Idle(m, v, c) => Idle(n, Append(v, s), c)
           /\ Unheard(m, v, c) => Unheard(n, Append(v, s), c)
           /\ Announced(n, Append(v, s), c) => Announced(m, v, c)
<1> DEFINE w == Append(v, s)
           k == Len(v)
<1>1. /\ k \in Nat /\ DOMAIN v = 1 .. k /\ DOMAIN w = 1 .. k + 1
      /\ w[k + 1] = s /\ \A i \in 1 .. k : w[i] = v[i]
  BY AppendProperties
<1> HIDE DEF w, k
<1>2. \A i \in DOMAIN w : (i \in DOMAIN v /\ w[i] = v[i]) \/ (i = k + 1 /\ w[i] = s)
  BY <1>1
<1>3. /\ m.out[c] \in Seq(Segment) /\ m.urgent \in Seq(Segment)
      /\ \A i \in DOMAIN m.urgent : m.urgent[i] \in Updates
  BY QueuesAre
<1>4. m.urgent # <<>> =>
        /\ Head(m.urgent) = m.urgent[1] /\ 1 \in DOMAIN m.urgent
        /\ \A i \in DOMAIN Tail(m.urgent) :
             i + 1 \in DOMAIN m.urgent /\ Tail(m.urgent)[i] = m.urgent[i + 1]
  <2> DEFINE q == m.urgent
  <2>1. q \in Seq(Segment)
    BY <1>3
  <2> HIDE DEF q
  <2>2. q # <<>> => /\ Head(q) = q[1] /\ 1 \in DOMAIN q
                    /\ \A i \in DOMAIN Tail(q) : i + 1 \in DOMAIN q /\ Tail(q)[i] = q[i + 1]
    BY <2>1
  <2> QED
    BY <2>2 DEF q
<1>5. m.out[c] # <<>> =>
        /\ Head(m.out[c]) = m.out[c][1] /\ 1 \in DOMAIN m.out[c]
        /\ \A i \in DOMAIN Tail(m.out[c]) :
             /\ i \in Nat \ {0} /\ i + 1 \in DOMAIN m.out[c]
             /\ Tail(m.out[c])[i] = m.out[c][i + 1]
  <2> DEFINE q == m.out[c]
  <2>1. q \in Seq(Segment)
    BY <1>3
  <2> HIDE DEF q
  <2>2. q # <<>> => /\ Head(q) = q[1] /\ 1 \in DOMAIN q
                    /\ \A i \in DOMAIN Tail(q) :
                         i \in Nat \ {0} /\ i + 1 \in DOMAIN q /\ Tail(q)[i] = q[i + 1]
    BY <2>1
  <2> QED
    BY <2>2 DEF q
\* Either s says nothing about c that moves it on, or it headed c's queue.
<1>6. \/ ~Moving(s, c) /\ n.out[c] = m.out[c]
      \/ /\ s.ch = c /\ s.kind # "WINDOW" /\ m.out[c] # <<>> /\ s = m.out[c][1]
         /\ n.out[c] = Tail(m.out[c])
  BY <1>5 DEF Writes, Moving, Updates, Sendable
<1>7. NoUpdate(m.urgent, c) => NoUpdate(n.urgent, c) /\ ~(s.ch = c /\ s.kind = "WINDOW")
  BY ZenonT(60), <1>4 DEF Writes, NoUpdate, Updates, Sendable
<1>8. IsOpen(s, c) => 1 \in DOMAIN m.out[c] /\ IsOpen(m.out[c][1], c) /\ s = m.out[c][1]
  BY <1>5, <1>6 DEF IsOpen, Moving
<1>9. \A i \in DOMAIN n.out[c] : IsOpen(n.out[c][i], c) =>
        n.out[c] = m.out[c] /\ ~Moving(s, c)
  <2>1. ASSUME NEW i \in DOMAIN n.out[c], IsOpen(n.out[c][i], c), n.out[c] = Tail(m.out[c]),
               m.out[c] # <<>>
        PROVE  FALSE
    <3>1. i \in Nat \ {0} /\ i + 1 \in DOMAIN m.out[c] /\ IsOpen(m.out[c][i + 1], c)
      BY <1>5, <2>1
    <3>2. i + 1 = 1
      BY <3>1 DEF OpenLeads
    <3> QED
      BY <3>1, <3>2
  <2> QED
    BY <1>6, <2>1
<1>10. OpenLeads(n, w, c)
  <2>1. ASSUME NEW i \in DOMAIN n.out[c], IsOpen(n.out[c][i], c), NEW j \in DOMAIN w
        PROVE  i = 1 /\ ~Moving(w[j], c)
    <3>1. n.out[c] = m.out[c] /\ ~Moving(s, c)
      BY <1>9, <2>1
    <3> QED
      BY <1>2, <2>1, <3>1 DEF OpenLeads
  <2>2. ASSUME NEW i \in DOMAIN n.out[c], IsOpen(n.out[c][i], c)
        PROVE  i = 1
    <3>1. k + 1 \in DOMAIN w
      BY <1>1
    <3> QED
      BY <2>1, <2>2, <3>1
  <2>3. ASSUME NEW i \in DOMAIN w, NEW j \in DOMAIN w, i < j, IsOpen(w[j], c)
        PROVE  ~Moving(w[i], c)
    <3>1. i \in DOMAIN v /\ w[i] = v[i]
      BY <1>1, <2>3
    <3>2. CASE j \in DOMAIN v /\ w[j] = v[j]
      BY <2>3, <3>1, <3>2 DEF OpenLeads
    <3>3. CASE w[j] = s
      BY <1>8, <2>3, <3>1, <3>3 DEF OpenLeads
    <3> QED
      BY <1>2, <3>2, <3>3
  <2> QED
    BY <2>1, <2>2, <2>3 DEF OpenLeads
<1>11. Idle(m, v, c) => Idle(n, w, c)
  BY <1>2, <1>6 DEF Idle, Silent, Writes
<1>12. Unheard(m, v, c) => Unheard(n, w, c)
  BY <1>2, <1>7 DEF Unheard, Untold, NoUpdate, Writes
<1>13. Announced(n, w, c) => Announced(m, v, c)
  BY <1>2, <1>8, <1>9 DEF Announced
<1> QED
  BY <1>10, <1>11, <1>12, <1>13 DEF w

LEMMA WriterTakesKeeps ==
    ASSUME IInv, NEW e \in End, WriterTakes(e)
    PROVE  IInv'
<1> DEFINE p == Peer(e)
           m == ep[e]
           v == wire[e]
           n == TakeNext(m).m
           s == TakeNext(m).seg
<1>1. p \in End /\ p # e /\ Peer(p) = e /\ \A x \in End : x = e \/ x = p
  BY PeerIs
<1>2. /\ Types /\ DOMAIN ep = End /\ DOMAIN wire = End /\ Local(e, m) /\ IsEnd(e, m)
      /\ v \in Seq(Segment) /\ v \in Seq(Written(e)) /\ IsEnd(p, ep[p]) /\ wire[p] \in Seq(Segment)
  BY <1>1, EndsAre DEF IInv, Types
<1>3. s \in Written(e) /\ Local(e, n) /\ Writes(e, m, n, s)
  BY <1>2, TakeNextWrites DEF WriterTakes
<1>4. s \in Segment /\ IsEnd(e, n)
  BY <1>3 DEF Written, Local
<1>5. /\ DOMAIN ep' = End /\ DOMAIN wire' = End /\ ep'[p] = ep[p] /\ wire'[p] = wire[p]
      /\ ep'[e] = n /\ wire'[e] = Append(v, s)
      /\ fin' = fin /\ alive' = alive /\ hist' = hist
  BY <1>1, <1>2 DEF WriterTakes
<1> HIDE DEF m, v, n, s
<1>6. Types'
  <2>1. Append(v, s) \in Seq(Written(e))
    BY <1>2, <1>3, AppendProperties
  <2>2. Flags'
    BY <1>2, <1>5 DEF Types, Flags, Histories
  <2>3. \A x \in End : Local(x, ep'[x]) /\ wire'[x] \in Seq(Written(x))
    BY <1>1, <1>2, <1>3, <1>5, <2>1 DEF Types
  <2> QED
    BY <1>5, <2>2, <2>3 DEF Types
<1>7. ASSUME NEW c \in Ch
      PROVE  /\ OpenLeads(n, Append(v, s), c)
             /\ Idle(m, v, c) => Idle(n, Append(v, s), c)
             /\ Unheard(m, v, c) => Unheard(n, Append(v, s), c)
             /\ Announced(n, Append(v, s), c) => Announced(m, v, c)
  <2>1. OpenLeads(m, v, c)
    BY DEF IInv, Order, m, v
  <2> QED
    BY <1>2, <1>3, <1>4, <2>1, WritesTells
<1>8. n.nextLocal = m.nextLocal /\ n.chans = m.chans /\ n.reason = m.reason
  BY <1>3 DEF Writes
<1>9. Order'
  <2>1. \A c \in Ch : OpenLeads(ep[p], wire[p], c)
    BY <1>1 DEF IInv, Order
  <2>2. \A x \in End, c \in Ch : OpenLeads(ep'[x], wire'[x], c)
    BY <1>1, <1>5, <1>7, <2>1
  <2> QED
    BY <2>2 DEF Order
<1>10. UnusedIdle'
  <2>1. ASSUME NEW x \in End, NEW c \in Ch, Own(x, c), c >= ep'[x].nextLocal
        PROVE  Idle(ep'[x], wire'[x], c)
    <3>1. Idle(ep[x], wire[x], c)
      BY <1>1, <1>5, <1>8, <2>1 DEF IInv, UnusedIdle, Unused, m
    <3> QED
      BY <1>1, <1>5, <1>7, <3>1 DEF m, v
  <2> QED
    BY <2>1 DEF UnusedIdle, Unused
<1>11. HiddenIdle'
  <2>1. ASSUME NEW x \in End, NEW c \in Ch, Hidden(x, c)'
        PROVE  Hidden(x, c)
    BY <1>1, <1>5, <1>7, <1>8, <2>1 DEF Hidden, m, v
  <2>2. ASSUME NEW x \in End, NEW c \in Ch
        PROVE  /\ Idle(ep[x], wire[x], c) => Idle(ep'[x], wire'[x], c)
               /\ Unheard(ep[x], wire[x], c) => Unheard(ep'[x], wire'[x], c)
    BY <1>1, <1>5, <1>7 DEF m, v
  <2>3. ASSUME NEW x \in End, NEW c \in Ch, Hidden(x, c)'
        PROVE  /\ Idle(ep'[Peer(x)], wire'[Peer(x)], c)
               /\ Unheard(ep'[Peer(x)], wire'[Peer(x)], c) /\ Unheard(ep'[x], wire'[x], c)
    BY <2>1, <2>2, <2>3, PeerIs DEF IInv, HiddenIdle
  <2> QED
    BY <2>3 DEF HiddenIdle
<1>12. Conserved'
  <2>1. ASSUME NEW x \in End, NEW c \in Ch, Joined(x, c)'
        PROVE  Joined(x, c)
    BY <1>1, <1>5, <1>7, <1>8, <2>1 DEF Joined, Closed, m, v
  <2>2. ASSUME NEW c \in Ch
        PROVE  /\ Stake(n, c) + SumOf(Append(v, s), c, "DATA") = Stake(m, c) + SumOf(v, c, "DATA")
               /\ Debt(n, c) + SumOf(Append(v, s), c, "WINDOW") = Debt(m, c) + SumOf(v, c, "WINDOW")
    BY <1>2, <1>3, <1>4, WritesMoves
  <2>3. ASSUME NEW c \in Ch
        PROVE  /\ Stake(n, c) \in Int /\ Debt(n, c) \in Int
               /\ Stake(m, c) \in Int /\ Debt(m, c) \in Int
               /\ Stake(ep[p], c) \in Int /\ Debt(ep[p], c) \in Int
               /\ SumOf(v, c, "DATA") \in Int /\ SumOf(v, c, "WINDOW") \in Int
               /\ SumOf(wire[p], c, "DATA") \in Int /\ SumOf(wire[p], c, "WINDOW") \in Int
               /\ SumOf(Append(v, s), c, "DATA") \in Int
               /\ SumOf(Append(v, s), c, "WINDOW") \in Int
    <3>1. Append(v, s) \in Seq(Segment)
      BY <1>2, <1>4, AppendProperties
    <3>2. Stake(n, c) \in Int /\ Debt(n, c) \in Int
      BY <1>4, BooksAre
    <3>3. Stake(m, c) \in Int /\ Debt(m, c) \in Int
      BY <1>2, BooksAre
    <3>4. Stake(ep[p], c) \in Int /\ Debt(ep[p], c) \in Int
      BY <1>2, BooksAre
    <3>5. SumOf(v, c, "DATA") \in Int /\ SumOf(v, c, "WINDOW") \in Int
      BY <1>2, SumsAre
    <3>6. SumOf(wire[p], c, "DATA") \in Int /\ SumOf(wire[p], c, "WINDOW") \in Int
      BY <1>2, SumsAre
    <3>7. SumOf(Append(v, s), c, "DATA") \in Int /\ SumOf(Append(v, s), c, "WINDOW") \in Int
      BY <3>1, SumsAre
    <3> QED
      BY <3>2, <3>3, <3>4, <3>5, <3>6, <3>7
  <2>4. ASSUME NEW c \in Ch, Balanced(e, c) PROVE Balanced(e, c)'
    <3>1. Stake(m, c) + SumOf(v, c, "DATA") + Debt(ep[p], c) + SumOf(wire[p], c, "WINDOW") = Window
      BY <2>4 DEF Balanced, m, v
    <3>2. PICK a \in Int, b \in Int, k \in Int, d \in Int, x \in Int, y \in Int :
            /\ a = Stake(m, c) /\ b = SumOf(v, c, "DATA") /\ k = Debt(ep[p], c)
            /\ d = SumOf(wire[p], c, "WINDOW") /\ x = Stake(n, c)
            /\ y = SumOf(Append(v, s), c, "DATA")
      BY <2>3
    <3>3. x + y = a + b /\ a + b + k + d = Window
      BY <2>2, <3>1, <3>2
    <3>4. x + y + k + d = Window
      BY <3>3
    <3> QED
      BY <1>5, <3>2, <3>4 DEF Balanced
  <2>5. ASSUME NEW c \in Ch, Balanced(p, c) PROVE Balanced(p, c)'
    <3>1. Stake(ep[p], c) + SumOf(wire[p], c, "DATA") + Debt(m, c) + SumOf(v, c, "WINDOW") = Window
      BY <1>1, <2>5 DEF Balanced, m, v
    <3>2. PICK a \in Int, b \in Int, k \in Int, d \in Int, x \in Int, y \in Int :
            /\ a = Stake(ep[p], c) /\ b = SumOf(wire[p], c, "DATA") /\ k = Debt(m, c)
            /\ d = SumOf(v, c, "WINDOW") /\ x = Debt(n, c)
            /\ y = SumOf(Append(v, s), c, "WINDOW")
      BY <2>3
    <3>3. x + y = k + d /\ a + b + k + d = Window
      BY <2>2, <3>1, <3>2
    <3>4. a + b + x + y = Window
      BY <3>3
    <3> QED
      BY <1>1, <1>5, <3>2, <3>4 DEF Balanced
  <2>6. ASSUME NEW x \in End, NEW c \in Ch, Joined(x, c)' PROVE Balanced(x, c)'
    <3>1. Balanced(x, c)
      BY <2>1, <2>6 DEF IInv, Conserved
    <3>2. x = e \/ x = p
      BY <1>1
    <3> QED
      BY <2>4, <2>5, <3>1, <3>2
  <2> QED
    BY <2>6 DEF Conserved
<1> QED
  BY <1>6, <1>9, <1>10, <1>11, <1>12 DEF IInv
-----------------------------------------------------------------------------
(* The invariant says what the run checks. *)

LEMMA LinkedIsJoined ==
    ASSUME Types, NEW e \in End, NEW c \in Ch
    PROVE  Linked(e, c) <=> Joined(e, c) /\ c \in ep[e].send
<1>1. IsEnd(e, ep[e]) /\ wire[e] \in Seq(Written(e))
  BY DEF Types, Local
<1>2. ep[e].out[c] \in Seq(Sendable(e, c))
  BY <1>1 DEF IsEnd
<1>3. Opening(e, c) <=> Announced(ep[e], wire[e], c)
  BY DEF Opening, Announced, IsOpen, Range
<1>4. Announced(ep[e], wire[e], c) => Own(e, c)
  BY <1>1, <1>2 DEF Announced, IsOpen, Sendable, Written
<1> QED
  BY <1>3, <1>4 DEF Linked, Joined

LEMMA CreditIs ==
    ASSUME IInv
    PROVE  CreditBalances
<1> SUFFICES ASSUME NEW e \in End, NEW c \in Ch, Linked(e, c)
             PROVE  ep[e].credit[c] = Flow(e, c)!credit
  BY DEF CreditBalances
<1> DEFINE p == Peer(e)
<1>1. p \in End /\ Types
  BY PeerIs DEF IInv
<1>2. Balanced(e, c)
  BY <1>1, LinkedIsJoined DEF IInv, Conserved
<1>3. Begun(e, c) \in Int
  <2>1. hist[e].frames[c] \in Seq(Nat)
    BY <1>1 DEF Types, Flags, Histories
  <2> QED
    BY <2>1, UnitsFinite DEF Begun
<1>4. /\ Len(ep[e].todo[c]) \in Int /\ Len(ep[e].held[c]) \in Int
      /\ ep[e].credit[c] \in Int /\ SumOf(ep[e].out[c], c, "DATA") \in Int
  BY <1>1, EndsAre, NumbersAre
<1>5. ep[p].unacked[c] \in Int /\ SumOf(ep[p].urgent, c, "WINDOW") \in Int
  BY <1>1, EndsAre, NumbersAre
<1>6. SumOf(wire[e], c, "DATA") \in Int /\ SumOf(wire[p], c, "WINDOW") \in Int
  BY <1>1, EndsAre
<1>7. Flow(e, c)!credit = Window - (Acquired(e, c) - (Returned(e, c) - Granted(e, c)))
  BY DEF Flow!credit, Mapped
<1>8. PICK begun \in Int, todo \in Int, held \in Int, k \in Int, out \in Int, w \in Int :
        /\ begun = Begun(e, c) /\ todo = Len(ep[e].todo[c]) /\ held = Len(ep[e].held[c])
        /\ k = ep[e].credit[c] /\ out = SumOf(ep[e].out[c], c, "DATA")
        /\ w = SumOf(wire[e], c, "DATA")
  BY <1>3, <1>4, <1>6
<1>9. PICK due \in Int, u \in Int, v \in Int :
        /\ due = ep[p].unacked[c] /\ u = SumOf(ep[p].urgent, c, "WINDOW")
        /\ v = SumOf(wire[p], c, "WINDOW")
  BY <1>5, <1>6
<1>10. k + held + out + w + (due + u) + v = Window
  BY <1>2, <1>8, <1>9 DEF Balanced, Stake, Debt
<1>11. Granted(e, c) = u + v /\ Acquired(e, c) = begun - todo
  BY <1>8, <1>9 DEF Granted, Acquired
<1>12. Returned(e, c) = begun - todo - held - out - w - due
  BY <1>8, <1>9 DEF Returned, Received, Pushed, Acquired
<1>13. Window - (begun - todo - (begun - todo - held - out - w - due - (u + v))) = k
  BY <1>10, ConstantsAre
<1> QED
  BY <1>7, <1>8, <1>11, <1>12, <1>13

LEMMA BooksFromInvariant ==
    ASSUME IInv
    PROVE  BooksAgree
<1>1. TypeOK
  <2>1. ASSUME NEW e \in End
        PROVE  /\ ep[e].chans \subseteq Ch /\ ep[e].send \subseteq Ch /\ ep[e].recv \subseteq Ch
               /\ Range(ep[e].retired) \subseteq Ch /\ Range(ep[e].acceptQ) \subseteq Ch
               /\ ep[e].credit \in [Ch -> 0 .. Window]
               /\ ep[e].unacked \in [Ch -> 0 .. Window]
               /\ ep[e].taken \in [Ch -> 0 .. MaxFrame]
    <3>1. IsEnd(e, ep[e])
      BY EndsAre DEF IInv
    <3>2. Range(ep[e].retired) \subseteq Ch /\ Range(ep[e].acceptQ) \subseteq Ch
      <4>1. ep[e].retired \in Seq(Ch) /\ ep[e].acceptQ \in Seq(Ch)
        BY <3>1 DEF IsEnd
      <4> QED
        BY <4>1 DEF Range
    <3> QED
      BY <3>1, <3>2 DEF IsEnd
  <2> QED
    BY <2>1 DEF TypeOK, IInv, Types, Flags
<1>2. BufferWithinWindow
  <2> SUFFICES ASSUME NEW e \in End, NEW c \in Ch
               PROVE  Len(ep[e].asm[c]) + Total(ep[e].rx[c]) <= Window
    BY DEF BufferWithinWindow
  <2>1. IsEnd(e, ep[e]) /\ Unread(ep[e], c) <= ep[e].unacked[c]
    BY EndsAre DEF IInv, Accounted
  <2>2. /\ ep[e].unacked[c] <= Window /\ ep[e].unacked[c] \in Nat /\ ep[e].taken[c] \in Nat
        /\ Len(ep[e].asm[c]) \in Nat /\ Total(ep[e].rx[c]) \in Nat
    BY <2>1, NumbersAre
  <2> QED
    BY SMTT(30), <2>1, <2>2, ConstantsAre DEF Unread
<1> QED
  BY <1>1, <1>2, CreditIs DEF BooksAgree
-----------------------------------------------------------------------------
(* The specification. *)

LEMMA InitHolds ==
    ASSUME Init
    PROVE  IInv
<1>1. /\ DOMAIN ep = End /\ DOMAIN wire = End /\ \A e \in End : wire[e] = <<>>
      /\ \A e \in End : ep[e] =
           [reason |-> "none", nextLocal |-> FirstChannel(e),
            chans |-> {}, retired |-> <<>>, acceptQ |-> <<>>,
            urgent |-> <<>>, out |-> Each(<<>>), cursor |-> 0,
            credit |-> Each(0), asm |-> Each(<<>>), unacked |-> Each(0),
            rx |-> Each(<<>>), send |-> {}, recv |-> {},
            todo |-> Each(<<>>), held |-> Each(<<>>), taken |-> Each(0)]
  BY DEF Init
<1>2. ASSUME NEW e \in End
      PROVE  /\ DOMAIN ep[e] = Fields /\ ep[e].reason = "none"
             /\ ep[e].nextLocal = FirstChannel(e)
             /\ ep[e].chans = {} /\ ep[e].send = {} /\ ep[e].recv = {}
             /\ ep[e].retired = <<>> /\ ep[e].acceptQ = <<>> /\ ep[e].urgent = <<>>
             /\ ep[e].out = Each(<<>>) /\ ep[e].credit = Each(0) /\ ep[e].unacked = Each(0)
             /\ ep[e].asm = Each(<<>>) /\ ep[e].rx = Each(<<>>) /\ ep[e].todo = Each(<<>>)
             /\ ep[e].held = Each(<<>>) /\ ep[e].taken = Each(0)
  BY <1>1 DEF Fields
<1>3. \A e \in End : FirstChannel(e) \in Nat /\ Own(e, FirstChannel(e))
  BY DEF FirstChannel, Own
<1>4. Types
  <2>1. ASSUME NEW e \in End PROVE Local(e, ep[e])
    <3>1. /\ 0 \in 0 .. Window /\ 0 \in 0 .. MaxFrame
          /\ <<>> \in Seq(Ch) /\ <<>> \in Seq(Updates) /\ <<>> \in Seq(Byte) /\ <<>> \in Seq(Frame)
          /\ \A c \in Ch : <<>> \in Seq(Sendable(e, c))
      BY ConstantsAre
    <3>2. IsEnd(e, ep[e])
      <4>1. \A S, v : v \in S => Each(v) \in [Ch -> S]
        BY DEF Each
      <4>2. /\ Each(0) \in [Ch -> 0 .. Window] /\ Each(0) \in [Ch -> 0 .. MaxFrame]
            /\ Each(<<>>) \in [Ch -> Seq(Byte)] /\ Each(<<>>) \in [Ch -> Seq(Frame)]
        BY <3>1, <4>1
      <4>3. DOMAIN Each(<<>>) = Ch /\ \A c \in Ch : Each(<<>>)[c] \in Seq(Sendable(e, c))
        BY <3>1 DEF Each
      <4> QED
        BY <1>2, <1>3, <3>1, <4>2, <4>3 DEF IsEnd
    <3>3. NotRetired(ep[e])
      BY <1>2 DEF NotRetired
    <3>4. Accounted(ep[e])
      <4>1. \A c \in Ch : ep[e].asm[c] = <<>> /\ ep[e].rx[c] = <<>> /\ ep[e].taken[c] = 0
                          /\ ep[e].unacked[c] = 0
        BY <1>2 DEF Each
      <4>2. Len(<<>>) + 0 + 0 <= 0
        OBVIOUS
      <4> QED
        BY <4>1, <4>2, TotalEmpty DEF Accounted, Unread
    <3> QED
      BY <3>2, <3>3, <3>4 DEF Local
  <2>2. \A e \in End : wire[e] \in Seq(Written(e))
    <3>1. \A e \in End : <<>> \in Seq(Written(e))
      OBVIOUS
    <3> QED
      BY <1>1, <3>1
  <2>3. Flags
    <3>1. <<>> \in Seq(Nat)
      OBVIOUS
    <3> QED
      BY <3>1 DEF Init, Flags, Histories, Each
  <2> QED
    BY <1>1, <2>1, <2>2, <2>3 DEF Types
<1>5. \A e \in End, c \in Ch :
        /\ Idle(ep[e], wire[e], c) /\ Unheard(ep[e], wire[e], c) /\ OpenLeads(ep[e], wire[e], c)
        /\ c \notin ep[e].chans
  BY <1>1, <1>2 DEF Idle, Silent, Unheard, Untold, NoUpdate, OpenLeads, Each
<1>6. Order /\ UnusedIdle /\ HiddenIdle
  BY <1>5, PeerIs DEF Order, UnusedIdle, HiddenIdle
<1>7. Conserved
  BY <1>5 DEF Conserved, Joined
<1> QED
  BY <1>4, <1>6, <1>7 DEF IInv

LEMMA WriterExitsKeeps ==
    ASSUME IInv, NEW e \in End, WriterExits(e)
    PROVE  IInv'
<1>1. /\ ep' = ep /\ wire' = wire /\ alive' = alive /\ hist' = hist
      /\ fin' = [fin EXCEPT ![e] = "eof"] /\ Flags
  BY DEF WriterExits, IInv, Types
<1>2. Flags'
  BY <1>1 DEF Flags, Histories
<1> QED
  BY <1>1, <1>2, StayKeeps

LEMMA CutKeeps ==
    ASSUME IInv, Cut
    PROVE  IInv'
<1>1. /\ ep' = ep /\ wire' = wire /\ alive' = alive /\ hist' = hist
      /\ fin' = [e \in End |-> "cut"] /\ Flags
  BY DEF Cut, IInv, Types
<1>2. Flags'
  BY <1>1 DEF Flags, Histories
<1> QED
  BY <1>1, <1>2, StayKeeps

\* A step is the link's, an end's, or one of an end on a channel.
LEMMA NextIs ==
    Next => \/ Cut
            \/ \E e \in End :
                 \/ OpenBi(e) \/ AcceptBi(e) \/ CloseMux(e) \/ DropMux(e)
                 \/ WriterTakes(e) \/ WriterExits(e) \/ WriterFails(e)
                 \/ ReaderTakes(e) \/ ReaderEof(e) \/ ReaderFails(e)
            \/ \E e \in End : \E c \in Ch :
                 \/ \E len \in FrameLens : BeginSend(e, c, len)
                 \/ AcquireCredit(e, c) \/ PushData(e, c) \/ SendFails(e, c)
                 \/ RecvFrame(e, c) \/ RecvCredit(e, c) \/ RecvEnd(e, c)
                 \/ Finish(e, c) \/ DropSend(e, c) \/ DropRecv(e, c)
BY DEF Next

LEMMA NextKeeps ==
    ASSUME IInv, [Next]_vars
    PROVE  IInv'
<1>1. CASE UNCHANGED vars
  <2>1. Flags'
    BY <1>1 DEF vars, IInv, Types, Flags, Histories
  <2> QED
    BY <1>1, <2>1, StayKeeps DEF vars
<1>2. CASE Cut
  BY <1>2, CutKeeps
<1>3. ASSUME NEW e \in End,
             \/ OpenBi(e) \/ AcceptBi(e) \/ CloseMux(e) \/ DropMux(e)
             \/ WriterTakes(e) \/ WriterExits(e) \/ WriterFails(e)
             \/ ReaderTakes(e) \/ ReaderEof(e) \/ ReaderFails(e)
      PROVE  IInv'
  <2>1. CASE OpenBi(e)
    BY <2>1, OpenBiKeeps
  <2>2. CASE AcceptBi(e)
    BY <2>2, AcceptKeeps
  <2>3. CASE CloseMux(e)
    BY <2>3, EndsKeeps DEF CloseMux
  <2>4. CASE DropMux(e)
    BY <2>4, DropMuxKeeps
  <2>5. CASE WriterTakes(e)
    BY <2>5, WriterTakesKeeps
  <2>6. CASE WriterExits(e)
    BY <2>6, WriterExitsKeeps
  <2>7. CASE WriterFails(e)
    BY <2>7, EndsKeeps DEF WriterFails
  <2>8. CASE ReaderTakes(e)
    BY <2>8, ReaderTakesKeeps
  <2>9. CASE ReaderEof(e)
    BY <2>9, EndsKeeps DEF ReaderEof
  <2>10. CASE ReaderFails(e)
    BY <2>10, EndsKeeps DEF ReaderFails
  <2> QED
    BY <1>3, <2>1, <2>2, <2>3, <2>4, <2>5, <2>6, <2>7, <2>8, <2>9, <2>10
<1>4. ASSUME NEW e \in End, NEW c \in Ch,
             \/ \E len \in FrameLens : BeginSend(e, c, len)
             \/ AcquireCredit(e, c) \/ PushData(e, c) \/ SendFails(e, c)
             \/ RecvFrame(e, c) \/ RecvCredit(e, c) \/ RecvEnd(e, c)
             \/ Finish(e, c) \/ DropSend(e, c) \/ DropRecv(e, c)
      PROVE  IInv'
  <2>1. CASE \E len \in FrameLens : BeginSend(e, c, len)
    BY <2>1, BeginSendKeeps
  <2>2. CASE AcquireCredit(e, c)
    BY <2>2, AcquireKeeps
  <2>3. CASE PushData(e, c)
    BY <2>3, PushKeeps
  <2>4. CASE SendFails(e, c)
    BY <2>4, SendFailsKeeps
  <2>5. CASE RecvFrame(e, c)
    BY <2>5, RecvFrameKeeps
  <2>6. CASE RecvCredit(e, c)
    BY <2>6, RecvCreditKeeps
  <2>7. CASE RecvEnd(e, c)
    BY <2>7, RecvEndKeeps
  <2>8. CASE Finish(e, c)
    BY <2>8, FinishKeeps
  <2>9. CASE DropSend(e, c)
    BY <2>9, DropSendKeeps
  <2>10. CASE DropRecv(e, c)
    BY <2>10, DropRecvKeeps
  <2> QED
    BY <1>4, <2>1, <2>2, <2>3, <2>4, <2>5, <2>6, <2>7, <2>8, <2>9, <2>10
<1> QED
  BY <1>1, <1>2, <1>3, <1>4, NextIs

\* An OPEN leads what is said about its channel, an id that was not announced
\* is known to nobody, and no critical section of Shared::inner makes up credit
\* or loses it (mux.rs:325-353).
THEOREM Invariance == Spec => []IInv
<1>1. Init => IInv
  BY InitHolds
<1>2. IInv /\ [Next]_vars => IInv'
  BY NextKeeps
<1> QED
  BY <1>1, <1>2, PTL DEF Spec

\* Both ends' books agree: a sender's semaphore (OutStream::sem) holds the
\* window less exactly the bytes that are held, queued, on their way or not
\* yet given back, and what a receiver keeps of one channel fits the window
\* (peer_data and return_credit, mux.rs:464-479, 1067-1134).
THEOREM BooksKept == Spec => []BooksAgree
<1>1. IInv => BooksAgree
  BY BooksFromInvariant
<1> QED
  BY <1>1, Invariance, PTL
-----------------------------------------------------------------------------
(* The bytes of one direction of a channel, as one stream: what its sender *)
(* began to send and its receiver has not decoded yet is, in this order,   *)
(* in the assembler, on the wire, in the queue and with the sender.        *)

Body(s, c) == IF s.ch = c /\ s.kind = "DATA" THEN s.body ELSE <<>>
Parts(q, c) == [i \in DOMAIN q |-> Body(q[i], c)]
Bodies(q, c) == FlattenSeq(Parts(q, c))

\* The frames of the given lengths that follow the k-th.
Following(lens, k) == [i \in 1 .. Len(lens) - k |-> Bytes(k + i, lens[k + i])]
Rest(lens, k) == FlattenSeq(Following(lens, k))

\* What the receiver holds is no whole frame.
Short(asm) == asm = <<>> \/ asm[1].of > Len(asm)
-----------------------------------------------------------------------------
(* Strands of bytes, and sequences of them joined into one. *)

Strand == Seq(Byte)

LEMMA Glue ==
    /\ <<>> \in Strand /\ Len(<<>>) = 0
    /\ \A x \in Strand : Len(x) \in Nat /\ x \o <<>> = x /\ <<>> \o x = x
    /\ \A x \in Strand : (x = <<>> <=> Len(x) = 0)
    /\ \A x, y \in Strand : x \o y \in Strand /\ Len(x \o y) = Len(x) + Len(y)
BY DEF Strand

LEMMA Regroup ==
    ASSUME NEW x \in Strand, NEW y \in Strand, NEW z \in Strand
    PROVE  /\ (x \o y) \o z = x \o (y \o z)
           /\ (x \o y) \o z \in Strand
<1>1. (x \o y) \o z \in Strand
  BY Glue
<1>2. (x \o y) \o z = x \o (y \o z)
  BY DEF Strand
<1> QED
  BY <1>1, <1>2

Assoc(x, y, z) == (x \o y) \o z = x \o (y \o z)

LEMMA Associates ==
    ASSUME NEW x \in Strand, NEW y \in Strand, NEW z \in Strand
    PROVE  Assoc(x, y, z)
BY Regroup DEF Assoc

\* f holds what the first elements of q are joined.
Joins(q, f) ==
    /\ DOMAIN f = 0 .. Len(q) /\ f[0] = <<>>
    /\ \A i \in 1 .. Len(q) : f[i] = f[i - 1] \o q[i]

LEMMA JoinsType ==
    ASSUME NEW q \in Seq(Strand), NEW f, Joins(q, f)
    PROVE  \A i \in 0 .. Len(q) : f[i] \in Strand
<1> DEFINE k == Len(q)
           T == {i \in 0 .. k : f[i] \in Strand}
<1>1. k \in Nat /\ 0 \in T
  BY Glue DEF Joins
<1>2. ASSUME NEW i \in 0 .. k, i < k, i \in T PROVE i + 1 \in T
  <2>1. i + 1 \in 1 .. k /\ (i + 1) - 1 = i /\ i + 1 \in 0 .. k
    BY <1>1, <1>2
  <2>2. f[i + 1] = f[i] \o q[i + 1]
    BY <2>1 DEF Joins
  <2>3. q[i + 1] \in Strand
    BY <2>1
  <2> QED
    BY <1>2, <2>1, <2>2, <2>3, Glue
<1> HIDE DEF T
<1>3. \A i \in 0 .. k : i \in T
  <2> HIDE DEF k
  <2> QED
    BY <1>1, <1>2, Climb
<1> QED
  BY <1>3 DEF T

LEMMA JoinsOnce ==
    ASSUME NEW q \in Seq(Strand), NEW f, NEW g, Joins(q, f), Joins(q, g)
    PROVE  f[Len(q)] = g[Len(q)]
<1> DEFINE k == Len(q)
           T == {i \in 0 .. k : f[i] = g[i]}
<1>1. k \in Nat /\ 0 \in T
  BY DEF Joins
<1>2. ASSUME NEW i \in 0 .. k, i < k, i \in T PROVE i + 1 \in T
  <2>1. i + 1 \in 1 .. k /\ (i + 1) - 1 = i /\ i + 1 \in 0 .. k
    BY <1>1, <1>2
  <2>2. f[i + 1] = f[i] \o q[i + 1] /\ g[i + 1] = g[i] \o q[i + 1]
    BY <2>1 DEF Joins
  <2> QED
    BY <1>2, <2>1, <2>2
<1> HIDE DEF T
<1>3. k \in T
  <2> HIDE DEF k
  <2>1. \A i \in 0 .. k : i \in T
    BY <1>1, <1>2, Climb
  <2> QED
    BY <1>1, <2>1
<1> QED
  BY <1>3 DEF T

\* FlattenSeq, which is given by a recursive function, is the last join.
LEMMA FlattenJoins ==
    ASSUME NEW q \in Seq(Strand)
    PROVE  \E f : Joins(q, f) /\ FlattenSeq(q) = f[Len(q)]
<1> DEFINE k == Len(q)
           Is(f, j) == f = [i \in 1 .. j |-> IF i = 1 THEN q[i] ELSE f[i - 1] \o q[i]]
           F == CHOOSE f : Is(f, k)
           T == {j \in 0 .. k : \E f : Is(f, j)}
<1>1. k \in Nat /\ \A i \in 1 .. k : q[i] \in Strand
  OBVIOUS
<1>2. \E f : Is(f, 0)
  <2>1. Is([i \in 1 .. 0 |-> <<>>], 0)
    OBVIOUS
  <2> QED
    BY <2>1
<1>3. ASSUME NEW j \in 0 .. k, j < k, NEW g, Is(g, j) PROVE \E f : Is(f, j + 1)
  <2> DEFINE f == [i \in 1 .. j + 1 |->
                     IF i # j + 1 THEN g[i] ELSE IF j = 0 THEN q[1] ELSE g[j] \o q[j + 1]]
  <2>1. \A i \in 1 .. j : f[i] = g[i] /\ g[i] = IF i = 1 THEN q[i] ELSE g[i - 1] \o q[i]
    <3>1. g = [i \in 1 .. j |-> IF i = 1 THEN q[i] ELSE g[i - 1] \o q[i]]
      BY <1>3
    <3>2. \A i \in 1 .. j : g[i] = IF i = 1 THEN q[i] ELSE g[i - 1] \o q[i]
      BY <3>1
    <3>3. \A i \in 1 .. j : i \in 1 .. j + 1 /\ i # j + 1
      OBVIOUS
    <3> QED
      BY <3>2, <3>3
  <2>2. f[j + 1] = IF j = 0 THEN q[1] ELSE g[j] \o q[j + 1]
    OBVIOUS
  <2>3. f = [i \in 1 .. j + 1 |-> f[i]]
    OBVIOUS
  <2> HIDE DEF f
  <2>4. ASSUME NEW i \in 1 .. j + 1 PROVE f[i] = IF i = 1 THEN q[i] ELSE f[i - 1] \o q[i]
    <3>1. CASE i = j + 1
      <4>1. CASE j = 0
        BY <2>2, <3>1, <4>1
      <4>2. CASE j # 0
        <5>1. j \in 1 .. j /\ i - 1 = j /\ i # 1
          BY <3>1, <4>2
        <5> QED
          BY <2>1, <2>2, <3>1, <4>2, <5>1
      <4> QED
        BY <4>1, <4>2
    <3>2. CASE i \in 1 .. j
      <4>1. i = 1 \/ i - 1 \in 1 .. j
        BY <3>2
      <4> QED
        BY <2>1, <3>2, <4>1
    <3> QED
      BY <3>1, <3>2
  <2>5. Is(f, j + 1)
    BY <2>3, <2>4
  <2> QED
    BY <2>5
<1>4. \A j \in 0 .. k : j \in T
  <2>1. 0 \in T /\ \A j \in 0 .. k : j < k /\ j \in T => j + 1 \in T
    <3> HIDE DEF Is
    <3>1. \A j \in 0 .. k : j < k => j + 1 \in 0 .. k
      OBVIOUS
    <3> QED
      BY <1>1, <1>2, <1>3, <3>1
  <2> HIDE DEF T
  <2> QED
    BY <1>1, <2>1, Climb
<1>5. Is(F, k)
  <2>1. \E f : Is(f, k)
    <3> HIDE DEF Is, k
    <3>1. k \in T
      BY <1>1, <1>4
    <3> QED
      BY <3>1
  <2> HIDE DEF Is
  <2> QED
    BY <2>1
<1>6. \A i \in 1 .. k : F[i] = IF i = 1 THEN q[i] ELSE F[i - 1] \o q[i]
  <2>1. F = [i \in 1 .. k |-> IF i = 1 THEN q[i] ELSE F[i - 1] \o q[i]]
    BY <1>5
  <2> HIDE DEF F
  <2> QED
    BY <2>1
<1>7. k # 0 => FlattenSeq(q) = F[k]
  BY DEF FlattenSeq
<1>8. k = 0 => FlattenSeq(q) = <<>>
  <2>1. k = 0 => q = <<>>
    OBVIOUS
  <2> QED
    BY <2>1 DEF FlattenSeq
<1> HIDE DEF F, k
<1> DEFINE f == [i \in 0 .. k |-> IF i = 0 THEN <<>> ELSE F[i]]
<1>9. DOMAIN f = 0 .. k /\ f[0] = <<>> /\ f[k] = FlattenSeq(q) /\ \A i \in 1 .. k : f[i] = F[i]
  BY <1>1, <1>7, <1>8
<1> HIDE DEF f
<1>10. ASSUME NEW i \in 1 .. k PROVE f[i] = f[i - 1] \o q[i]
  <2>1. CASE i = 1
    <3>1. i - 1 = 0 /\ q[i] \in Strand
      BY <1>1, <2>1
    <3>2. f[i] = q[i]
      BY <1>6, <1>9, <2>1
    <3> QED
      BY <1>9, <3>1, <3>2, Glue
  <2>2. CASE i # 1
    <3>1. i - 1 \in 1 .. k
      BY <1>1, <2>2
    <3> QED
      BY <1>6, <1>9, <2>2, <3>1
  <2> QED
    BY <2>1, <2>2
<1>11. Joins(q, f)
  BY <1>9, <1>10 DEF Joins, k
<1> QED
  BY <1>9, <1>11 DEF k

LEMMA FlatBasics ==
    /\ \A q \in Seq(Strand) : FlattenSeq(q) \in Strand
    /\ FlattenSeq(<<>>) = <<>>
    /\ \A x \in Strand : <<x>> \in Seq(Strand) /\ FlattenSeq(<<x>>) = x
<1>1. ASSUME NEW q \in Seq(Strand) PROVE FlattenSeq(q) \in Strand
  <2>1. PICK f : Joins(q, f) /\ FlattenSeq(q) = f[Len(q)]
    BY FlattenJoins
  <2>2. Len(q) \in 0 .. Len(q)
    OBVIOUS
  <2> QED
    BY <2>1, <2>2, JoinsType
<1>2. FlattenSeq(<<>>) = <<>>
  BY DEF FlattenSeq
<1>3. ASSUME NEW x \in Strand PROVE <<x>> \in Seq(Strand) /\ FlattenSeq(<<x>>) = x
  <2> DEFINE q == <<x>>
  <2>1. q \in Seq(Strand) /\ Len(q) = 1 /\ q[1] = x
    OBVIOUS
  <2> HIDE DEF q
  <2>2. PICK f : Joins(q, f) /\ FlattenSeq(q) = f[Len(q)]
    BY <2>1, FlattenJoins
  <2>3. f[1] = f[1 - 1] \o x /\ f[1 - 1] = <<>>
    BY <2>1, <2>2 DEF Joins
  <2>4. FlattenSeq(q) = x
    BY <2>1, <2>2, <2>3, Glue
  <2> QED
    BY <2>1, <2>4 DEF q
<1> QED
  BY <1>1, <1>2, <1>3

LEMMA FlatConcat ==
    ASSUME NEW q \in Seq(Strand), NEW r \in Seq(Strand)
    PROVE  q \o r \in Seq(Strand) /\ FlattenSeq(q \o r) = FlattenSeq(q) \o FlattenSeq(r)
<1> DEFINE a == Len(q)
           b == Len(r)
           s == q \o r
<1>1. /\ a \in Nat /\ b \in Nat /\ s \in Seq(Strand) /\ Len(s) = a + b
      /\ \A i \in 1 .. a + b : s[i] = IF i <= a THEN q[i] ELSE r[i - a]
      /\ \A i \in 1 .. b : r[i] \in Strand
  BY ConcatProperties
<1>2. PICK f : Joins(q, f) /\ FlattenSeq(q) = f[a]
  BY FlattenJoins
<1>3. PICK g : Joins(r, g) /\ FlattenSeq(r) = g[b]
  BY FlattenJoins
<1>4. /\ \A i \in 0 .. a : f[i] \in Strand
      /\ \A i \in 0 .. b : g[i] \in Strand
  BY <1>2, <1>3, JoinsType
<1> DEFINE h == [i \in 0 .. a + b |-> IF i <= a THEN f[i] ELSE f[a] \o g[i - a]]
<1> HIDE DEF a, b, s
<1>5. ASSUME NEW i \in 0 .. b PROVE h[a + i] = f[a] \o g[i]
  <2>1. a + i \in 0 .. a + b /\ (a + i) - a = i /\ a \in 0 .. a
    BY <1>1
  <2>2. CASE i = 0
    <3>1. g[i] = <<>> /\ h[a + i] = f[a] /\ f[a] \in Strand
      BY <1>1, <1>3, <1>4, <2>1, <2>2 DEF Joins
    <3> QED
      BY <3>1, Glue
  <2>3. CASE i # 0
    <3>1. ~(a + i <= a)
      BY <1>1, <2>3
    <3> QED
      BY <2>1, <3>1
  <2> QED
    BY <2>2, <2>3
<1>6. \A i \in 0 .. a : h[i] = f[i]
  BY <1>1
<1>7. DOMAIN h = 0 .. a + b
  OBVIOUS
<1> HIDE DEF h
<1>8. ASSUME NEW i \in 1 .. a + b PROVE h[i] = h[i - 1] \o s[i]
  <2>1. CASE i <= a
    <3>1. i \in 1 .. a /\ i \in 0 .. a /\ i - 1 \in 0 .. a /\ s[i] = q[i]
      BY <1>1, <2>1
    <3>2. f[i] = f[i - 1] \o q[i]
      BY <1>2, <3>1 DEF Joins, a
    <3> QED
      BY <1>6, <3>1, <3>2
  <2>2. CASE ~(i <= a)
    <3>1. PICK j \in Nat : j = i - a /\ j \in 1 .. b /\ j \in 0 .. b /\ j - 1 \in 0 .. b
      BY <1>1, <2>2
    <3>2. i = a + j /\ i - 1 = a + (j - 1) /\ s[i] = r[j]
      BY <1>1, <2>2, <3>1
    <3>3. g[j] = g[j - 1] \o r[j]
      BY <1>3, <3>1 DEF Joins, b
    <3>4. h[i] = f[a] \o g[j] /\ h[i - 1] = f[a] \o g[j - 1]
      BY <1>5, <3>1, <3>2
    <3>5. f[a] \in Strand /\ g[j - 1] \in Strand /\ r[j] \in Strand
      BY <1>1, <1>4, <3>1
    <3>6. (f[a] \o g[j - 1]) \o r[j] = f[a] \o (g[j - 1] \o r[j])
      BY <3>5, Regroup
    <3> QED
      BY <3>2, <3>3, <3>4, <3>6
  <2> QED
    BY <2>1, <2>2
<1>9. h[0] = <<>>
  <2>1. 0 \in 0 .. a
    BY <1>1
  <2> QED
    BY <1>2, <1>6, <2>1 DEF Joins
<1>10. Joins(s, h)
  BY <1>1, <1>7, <1>8, <1>9 DEF Joins
<1>11. PICK k : Joins(s, k) /\ FlattenSeq(s) = k[Len(s)]
  BY <1>1, FlattenJoins
<1>12. k[Len(s)] = h[Len(s)]
  BY <1>1, <1>10, <1>11, JoinsOnce
<1>13. h[a + b] = f[a] \o g[b]
  <2>1. b \in 0 .. b
    BY <1>1
  <2> QED
    BY <1>5, <2>1
<1> QED
  BY <1>1, <1>2, <1>3, <1>11, <1>12, <1>13 DEF s
-----------------------------------------------------------------------------
(* What the segments of a queue carry for one channel. *)

LEMMA BodyIs ==
    ASSUME NEW s \in Segment, NEW c
    PROVE  /\ Body(s, c) \in Strand
           /\ ~Moving(s, c) => Body(s, c) = <<>>
           /\ s.kind # "DATA" => Body(s, c) = <<>>
<1>1. s.body \in Seq(Byte)
  BY DEF Segment
<1> QED
  BY <1>1, Glue DEF Body, Strand, Moving

LEMMA PartsAre ==
    ASSUME NEW q \in Seq(Segment), NEW c
    PROVE  /\ Parts(q, c) \in Seq(Strand) /\ Len(Parts(q, c)) = Len(q)
           /\ \A i \in 1 .. Len(q) : Parts(q, c)[i] = Body(q[i], c)
<1>1. Len(q) \in Nat /\ DOMAIN q = 1 .. Len(q) /\ \A i \in 1 .. Len(q) : q[i] \in Segment
  OBVIOUS
<1>2. \A i \in 1 .. Len(q) : Body(q[i], c) \in Strand
  BY <1>1, BodyIs
<1> QED
  BY <1>1, <1>2 DEF Parts

LEMMA BodiesIs ==
    ASSUME NEW q \in Seq(Segment), NEW c
    PROVE  Bodies(q, c) \in Strand
BY PartsAre, FlatBasics DEF Bodies

LEMMA BodiesEmpty == \A c : Bodies(<<>>, c) = <<>>
<1> SUFFICES ASSUME NEW c PROVE Bodies(<<>>, c) = <<>>
  OBVIOUS
<1>1. Parts(<<>>, c) = <<>>
  BY DEF Parts
<1> QED
  BY <1>1, FlatBasics DEF Bodies

LEMMA BodiesConcat ==
    ASSUME NEW q \in Seq(Segment), NEW r \in Seq(Segment), NEW c
    PROVE  Bodies(q \o r, c) = Bodies(q, c) \o Bodies(r, c)
<1> DEFINE s == q \o r
           x == Parts(q, c)
           y == Parts(r, c)
<1>1. PICK a \in Nat, b \in Nat : a = Len(q) /\ b = Len(r)
  OBVIOUS
<1>2. /\ s \in Seq(Segment) /\ Len(s) = a + b
      /\ \A i \in 1 .. a + b : s[i] = IF i <= a THEN q[i] ELSE r[i - a]
  BY <1>1, ConcatProperties
<1>3. /\ x \in Seq(Strand) /\ Len(x) = a /\ \A i \in 1 .. a : x[i] = Body(q[i], c)
      /\ y \in Seq(Strand) /\ Len(y) = b /\ \A i \in 1 .. b : y[i] = Body(r[i], c)
  BY <1>1, PartsAre
<1> HIDE DEF s, x, y
<1>4. /\ Parts(s, c) \in Seq(Strand) /\ Len(Parts(s, c)) = a + b
      /\ \A i \in 1 .. a + b : Parts(s, c)[i] = Body(s[i], c)
  BY <1>2, PartsAre
<1>5. /\ x \o y \in Seq(Strand) /\ Len(x \o y) = a + b
      /\ \A i \in 1 .. a + b : (x \o y)[i] = IF i <= a THEN x[i] ELSE y[i - a]
  BY <1>3, ConcatProperties
<1>6. ASSUME NEW i \in 1 .. a + b PROVE Parts(s, c)[i] = (x \o y)[i]
  <2>1. CASE i <= a
    <3>1. i \in 1 .. a
      BY <2>1
    <3>2. s[i] = q[i] /\ (x \o y)[i] = x[i]
      BY <1>2, <1>5, <2>1
    <3> QED
      BY <1>3, <1>4, <3>1, <3>2
  <2>2. CASE ~(i <= a)
    <3>1. i - a \in 1 .. b
      BY <2>2
    <3> QED
      BY <1>2, <1>3, <1>4, <1>5, <2>2, <3>1
  <2> QED
    BY <2>1, <2>2
<1>7. Parts(s, c) = x \o y
  BY <1>4, <1>5, <1>6, SeqEqual
<1>8. FlattenSeq(x \o y) = FlattenSeq(x) \o FlattenSeq(y)
  BY <1>3, FlatConcat
<1> QED
  BY <1>7, <1>8 DEF Bodies, s, x, y

LEMMA BodiesOne ==
    ASSUME NEW s \in Segment, NEW c
    PROVE  <<s>> \in Seq(Segment) /\ Bodies(<<s>>, c) = Body(s, c)
<1>1. Body(s, c) \in Strand
  BY BodyIs
<1>2. Parts(<<s>>, c) = <<Body(s, c)>>
  BY DEF Parts
<1> QED
  BY <1>1, <1>2, FlatBasics DEF Bodies

LEMMA BodiesAppend ==
    ASSUME NEW q \in Seq(Segment), NEW s \in Segment, NEW c
    PROVE  Append(q, s) \in Seq(Segment) /\ Bodies(Append(q, s), c) = Bodies(q, c) \o Body(s, c)
<1> DEFINE r == <<s>>
<1>1. Append(q, s) = q \o r /\ Append(q, s) \in Seq(Segment)
  OBVIOUS
<1>2. r \in Seq(Segment) /\ Bodies(r, c) = Body(s, c)
  BY BodiesOne
<1> HIDE DEF r
<1>3. Bodies(q \o r, c) = Bodies(q, c) \o Bodies(r, c)
  BY <1>2, BodiesConcat
<1> QED
  BY <1>1, <1>2, <1>3

LEMMA BodiesHead ==
    ASSUME NEW q \in Seq(Segment), q # <<>>, NEW c
    PROVE  /\ Bodies(q, c) = Body(Head(q), c) \o Bodies(Tail(q), c)
           /\ Head(q) \in Segment /\ Tail(q) \in Seq(Segment)
<1> DEFINE r == <<Head(q)>>
           t == Tail(q)
<1>1. Head(q) \in Segment /\ t \in Seq(Segment) /\ q = r \o t
  BY HeadTailProperties
<1>2. r \in Seq(Segment) /\ Bodies(r, c) = Body(Head(q), c)
  BY <1>1, BodiesOne
<1> HIDE DEF r, t
<1>3. Bodies(r \o t, c) = Bodies(r, c) \o Bodies(t, c)
  BY <1>1, <1>2, BodiesConcat
<1> QED
  BY <1>1, <1>2, <1>3 DEF t

\* A queue that says nothing to c carries nothing for it.
LEMMA BodiesNone ==
    ASSUME NEW q \in Seq(Segment), NEW c, \A i \in DOMAIN q : ~Moving(q[i], c)
    PROVE  Bodies(q, c) = <<>>
<1> DEFINE k == Len(q)
           x == Parts(q, c)
<1>1. /\ k \in Nat /\ DOMAIN q = 1 .. k /\ x \in Seq(Strand) /\ Len(x) = k
      /\ \A i \in 1 .. k : q[i] \in Segment /\ x[i] = Body(q[i], c)
  BY PartsAre
<1>2. \A i \in 1 .. k : x[i] = <<>>
  BY <1>1, BodyIs
<1> HIDE DEF x, k
<1>3. PICK f : Joins(x, f) /\ FlattenSeq(x) = f[k]
  BY <1>1, FlattenJoins
<1> DEFINE T == {i \in 0 .. k : f[i] = <<>>}
<1>4. 0 \in T
  BY <1>1, <1>3 DEF Joins
<1>5. ASSUME NEW i \in 0 .. k, i < k, i \in T PROVE i + 1 \in T
  <2>1. i + 1 \in 1 .. k /\ (i + 1) - 1 = i /\ i + 1 \in 0 .. k
    BY <1>1, <1>5
  <2>2. f[i + 1] = f[i] \o x[i + 1]
    BY <1>1, <1>3, <2>1 DEF Joins
  <2> QED
    BY <1>2, <1>5, <2>1, <2>2, Glue
<1> HIDE DEF T
<1>6. k \in T
  <2>1. \A i \in 0 .. k : i \in T
    BY <1>1, <1>4, <1>5, Climb
  <2> QED
    BY <1>1, <2>1
<1> QED
  BY <1>3, <1>6 DEF T, Bodies, x

-----------------------------------------------------------------------------
(* The frames still to come, and what the assembler makes of them. *)

Length == 1 .. MaxFrame
Lengths == Seq(Length)

LEMMA LengthsAre ==
    ASSUME NEW F \in Lengths
    PROVE  Len(F) \in Nat /\ \A i \in 1 .. Len(F) : F[i] \in 1 .. MaxFrame
<1>1. \A S : \A q \in Seq(S) : Len(q) \in Nat /\ \A i \in 1 .. Len(q) : q[i] \in S
  OBVIOUS
<1>2. Len(F) \in Nat /\ \A i \in 1 .. Len(F) : F[i] \in Length
  BY <1>1 DEF Lengths
<1> QED
  BY <1>2 DEF Length

LEMMA BytesAre ==
    ASSUME NEW n \in Nat, NEW len \in 1 .. MaxFrame
    PROVE  /\ Bytes(n, len) \in Strand /\ Len(Bytes(n, len)) = len
           /\ \A i \in 1 .. len : Bytes(n, len)[i].of = len
           /\ len \in Nat /\ len > 0
<1>1. len \in Nat /\ len > 0 /\ MaxFrame \in Nat
  BY ConstantsAre
<1>2. \A i \in 1 .. len : [frame |-> n, at |-> i, of |-> len] \in Byte
  BY <1>1 DEF Byte
<1> QED
  BY <1>1, <1>2 DEF Bytes, Strand

\* Two strands that start with pieces of one length.
SameJoin(x, y, u, v) == x \o y = u \o v

LEMMA SplitEqual ==
    ASSUME NEW x \in Strand, NEW y \in Strand, NEW u \in Strand, NEW v \in Strand,
           Len(x) = Len(u), SameJoin(x, y, u, v)
    PROVE  x = u /\ y = v
<1> DEFINE a == Len(x)
<1> USE DEF SameJoin
<1>1. /\ a \in Nat /\ Len(y) \in Nat /\ Len(v) \in Nat /\ Len(u) = a
      /\ Len(x \o y) = a + Len(y) /\ Len(u \o v) = a + Len(v)
      /\ \A i \in 1 .. a + Len(y) : (x \o y)[i] = IF i <= a THEN x[i] ELSE y[i - a]
      /\ \A i \in 1 .. a + Len(v) : (u \o v)[i] = IF i <= a THEN u[i] ELSE v[i - a]
  <2>1. /\ Len(x \o y) = Len(x) + Len(y)
        /\ \A i \in 1 .. Len(x) + Len(y) :
             (x \o y)[i] = IF i <= Len(x) THEN x[i] ELSE y[i - Len(x)]
    BY ConcatProperties DEF Strand
  <2>2. /\ Len(u \o v) = Len(u) + Len(v)
        /\ \A i \in 1 .. Len(u) + Len(v) :
             (u \o v)[i] = IF i <= Len(u) THEN u[i] ELSE v[i - Len(u)]
    BY ConcatProperties DEF Strand
  <2>3. Len(x) \in Nat /\ Len(y) \in Nat /\ Len(v) \in Nat
    BY Glue
  <2> QED
    BY <2>1, <2>2, <2>3
<1> HIDE DEF a
<1>2. Len(y) = Len(v)
  BY <1>1
<1>3. \A i \in 1 .. a : x[i] = u[i]
  <2>1. \A i \in 1 .. a : i \in 1 .. a + Len(y) /\ i \in 1 .. a + Len(v) /\ i <= a
    BY <1>1
  <2> QED
    BY <1>1, <2>1
<1>4. \A i \in 1 .. Len(y) : y[i] = v[i]
  <2>1. ASSUME NEW i \in 1 .. Len(y) PROVE y[i] = v[i]
    <3>1. /\ a + i \in 1 .. a + Len(y) /\ a + i \in 1 .. a + Len(v) /\ ~(a + i <= a)
          /\ (a + i) - a = i
      BY <1>1, <1>2
    <3>2. (x \o y)[a + i] = y[i] /\ (u \o v)[a + i] = v[i]
      BY <1>1, <3>1
    <3> QED
      BY <3>2
  <2> QED
    BY <2>1
<1>5. x = u
  BY <1>1, <1>3, SeqEqual DEF Strand, a
<1>6. y = v
  BY <1>1, <1>2, <1>4, SeqEqual DEF Strand
<1> QED
  BY <1>5, <1>6

LEMMA FollowingIs ==
    ASSUME NEW F \in Lengths, NEW k \in 0 .. Len(F)
    PROVE  /\ Following(F, k) \in Seq(Strand) /\ Len(Following(F, k)) = Len(F) - k
           /\ \A i \in 1 .. Len(F) - k : Following(F, k)[i] = Bytes(k + i, F[k + i])
           /\ Rest(F, k) \in Strand
<1>1. /\ Len(F) \in Nat /\ k \in Nat /\ Len(F) - k \in Nat
      /\ \A i \in 1 .. Len(F) : F[i] \in 1 .. MaxFrame
  BY LengthsAre
<1>2. ASSUME NEW i \in 1 .. Len(F) - k PROVE Bytes(k + i, F[k + i]) \in Strand
  <2>1. k + i \in Nat /\ k + i \in 1 .. Len(F)
    BY <1>1
  <2>2. F[k + i] \in 1 .. MaxFrame
    BY <1>1, <2>1
  <2> QED
    BY <2>1, <2>2, BytesAre
<1>3. /\ Following(F, k) \in Seq(Strand) /\ Len(Following(F, k)) = Len(F) - k
      /\ \A i \in 1 .. Len(F) - k : Following(F, k)[i] = Bytes(k + i, F[k + i])
  BY <1>1, <1>2 DEF Following
<1> QED
  BY <1>3, FlatBasics DEF Rest

LEMMA RestEnds ==
    ASSUME NEW F \in Lengths
    PROVE  Rest(F, Len(F)) = <<>>
<1>1. Len(F) \in Nat /\ Len(F) \in 0 .. Len(F) /\ Len(F) - Len(F) = 0
  BY LengthsAre
<1>2. Following(F, Len(F)) \in Seq(Strand) /\ Len(Following(F, Len(F))) = 0
  BY <1>1, FollowingIs
<1>3. Following(F, Len(F)) = <<>>
  BY <1>2
<1> QED
  BY <1>3, FlatBasics DEF Rest

LEMMA RestNext ==
    ASSUME NEW F \in Lengths, NEW k \in 0 .. Len(F), k # Len(F)
    PROVE  /\ k + 1 \in 0 .. Len(F) /\ k + 1 \in 1 .. Len(F)
           /\ F[k + 1] \in 1 .. MaxFrame
           /\ Rest(F, k) = Bytes(k + 1, F[k + 1]) \o Rest(F, k + 1)
<1> DEFINE b == Bytes(k + 1, F[k + 1])
           one == <<b>>
           u == Following(F, k)
           v == Following(F, k + 1)
           d == Len(F) - (k + 1)
<1>1. /\ Len(F) \in Nat /\ k \in Nat /\ k + 1 \in 0 .. Len(F) /\ k + 1 \in 1 .. Len(F)
      /\ d \in Nat /\ Len(F) - k = 1 + d /\ k + 1 \in Nat
  BY LengthsAre
<1>2. F[k + 1] \in 1 .. MaxFrame
  BY <1>1, LengthsAre
<1>3. b \in Strand
  BY <1>1, <1>2, BytesAre
<1> HIDE DEF d
<1>4. u \in Seq(Strand) /\ Len(u) = 1 + d /\ \A i \in 1 .. 1 + d : u[i] = Bytes(k + i, F[k + i])
  BY <1>1, FollowingIs
<1>5. v \in Seq(Strand) /\ Len(v) = d /\ \A i \in 1 .. d : v[i] = Bytes((k + 1) + i, F[(k + 1) + i])
  BY <1>1, FollowingIs DEF d
<1> HIDE DEF u, v
<1>6. one \in Seq(Strand) /\ Len(one) = 1 /\ one[1] = b /\ FlattenSeq(one) = b
  <2> HIDE DEF b
  <2> QED
    BY <1>3, FlatBasics
<1> HIDE DEF one, b
<1>7. /\ one \o v \in Seq(Strand) /\ Len(one \o v) = 1 + d
      /\ \A i \in 1 .. 1 + d : (one \o v)[i] = IF i <= 1 THEN one[i] ELSE v[i - 1]
      /\ FlattenSeq(one \o v) = FlattenSeq(one) \o FlattenSeq(v)
  <2>1. one \o v \in Seq(Strand) /\ FlattenSeq(one \o v) = FlattenSeq(one) \o FlattenSeq(v)
    BY <1>5, <1>6, FlatConcat
  <2>2. /\ Len(one \o v) = Len(one) + Len(v)
        /\ \A i \in 1 .. Len(one) + Len(v) :
             (one \o v)[i] = IF i <= Len(one) THEN one[i] ELSE v[i - Len(one)]
    BY <1>5, <1>6, ConcatProperties
  <2> QED
    BY <1>5, <1>6, <2>1, <2>2
<1>8. ASSUME NEW i \in 1 .. 1 + d PROVE u[i] = (one \o v)[i]
  <2>1. CASE i = 1
    BY <1>1, <1>4, <1>6, <1>7, <2>1 DEF b
  <2>2. CASE i # 1
    <3>1. i - 1 \in 1 .. d /\ ~(i <= 1) /\ (k + 1) + (i - 1) = k + i
      BY <1>1, <2>2
    <3>2. v[i - 1] = Bytes(k + i, F[k + i])
      BY <1>5, <3>1
    <3> QED
      BY <1>4, <1>7, <3>1, <3>2
  <2> QED
    BY <2>1, <2>2
<1>9. u = one \o v
  BY <1>4, <1>7, <1>8, SeqEqual
<1>10. Rest(F, k) = b \o Rest(F, k + 1)
  BY <1>6, <1>7, <1>9 DEF Rest, u, v
<1> QED
  BY <1>1, <1>2, <1>10 DEF b

LEMMA RestAppend ==
    ASSUME NEW F \in Lengths, NEW k \in 0 .. Len(F), NEW len \in 1 .. MaxFrame
    PROVE  /\ Append(F, len) \in Lengths /\ Len(Append(F, len)) = Len(F) + 1
           /\ Append(F, len)[Len(F) + 1] = len
           /\ \A i \in 1 .. Len(F) : Append(F, len)[i] = F[i]
           /\ Rest(Append(F, len), k) = Rest(F, k) \o Bytes(Len(F) + 1, len)
<1> DEFINE G == Append(F, len)
           b == Bytes(Len(F) + 1, len)
           one == <<b>>
           u == Following(F, k)
           v == Following(G, k)
           d == Len(F) - k
<1>1. /\ G \in Lengths /\ Len(G) = Len(F) + 1 /\ G[Len(F) + 1] = len
      /\ \A i \in 1 .. Len(F) : G[i] = F[i]
  <2>1. \A S : \A q \in Seq(S), x \in S :
          /\ Append(q, x) \in Seq(S) /\ Len(Append(q, x)) = Len(q) + 1
          /\ Append(q, x)[Len(q) + 1] = x
          /\ \A i \in 1 .. Len(q) : Append(q, x)[i] = q[i]
    OBVIOUS
  <2>2. F \in Seq(Length) /\ len \in Length
    BY DEF Lengths, Length
  <2> QED
    BY <2>1, <2>2 DEF Lengths
<1>2. /\ Len(F) \in Nat /\ k \in Nat /\ d \in Nat /\ k \in 0 .. Len(G) /\ Len(G) - k = d + 1
      /\ k + (d + 1) = Len(F) + 1 /\ k + d = Len(F) /\ Len(F) + 1 \in Nat
  BY <1>1, LengthsAre
<1> HIDE DEF d, G
<1>3. u \in Seq(Strand) /\ Len(u) = d /\ \A i \in 1 .. d : u[i] = Bytes(k + i, F[k + i])
  BY FollowingIs DEF d
<1>4. v \in Seq(Strand) /\ Len(v) = d + 1 /\ \A i \in 1 .. d + 1 : v[i] = Bytes(k + i, G[k + i])
  BY <1>1, <1>2, FollowingIs
<1> HIDE DEF u, v
<1>5. b \in Strand
  BY <1>2, BytesAre
<1> HIDE DEF b
<1>6. one \in Seq(Strand) /\ Len(one) = 1 /\ one[1] = b /\ FlattenSeq(one) = b
  BY <1>5, FlatBasics
<1> HIDE DEF one
<1>7. /\ u \o one \in Seq(Strand) /\ FlattenSeq(u \o one) = FlattenSeq(u) \o FlattenSeq(one)
  BY <1>3, <1>6, FlatConcat
<1>8. /\ Len(u \o one) = d + 1
      /\ \A i \in 1 .. d + 1 : (u \o one)[i] = IF i <= d THEN u[i] ELSE one[i - d]
  <2>1. /\ Len(u \o one) = Len(u) + Len(one)
        /\ \A i \in 1 .. Len(u) + Len(one) :
             (u \o one)[i] = IF i <= Len(u) THEN u[i] ELSE one[i - Len(u)]
    BY <1>3, <1>6, ConcatProperties
  <2> QED
    BY <1>3, <1>6, <2>1
<1>9. ASSUME NEW i \in 1 .. d + 1 PROVE v[i] = (u \o one)[i]
  <2>1. CASE i = d + 1
    <3>1. ~(i <= d) /\ i - d = 1 /\ k + i = Len(F) + 1
      BY <1>2, <2>1
    <3> QED
      BY <1>1, <1>4, <1>6, <1>8, <3>1 DEF b
  <2>2. CASE i # d + 1
    <3>1. i \in 1 .. d /\ i <= d /\ k + i \in 1 .. Len(F)
      BY <1>2, <2>2
    <3> QED
      BY <1>1, <1>3, <1>4, <1>8, <3>1
  <2> QED
    BY <2>1, <2>2
<1>10. v = u \o one
  BY <1>4, <1>7, <1>8, <1>9, SeqEqual
<1>11. Rest(G, k) = Rest(F, k) \o b
  BY <1>6, <1>7, <1>10 DEF Rest, u, v
<1> QED
  BY <1>1, <1>11 DEF b, G

LEMMA FrontIs ==
    ASSUME NEW F \in Lengths, NEW d \in Nat, Len(F) = d + 1
    PROVE  /\ Front(F) \in Lengths /\ Len(Front(F)) = d
           /\ \A i \in 1 .. d : Front(F)[i] = F[i]
<1> DEFINE G == Front(F)
<1>1. G = SubSeq(F, 1, d) /\ F \in Seq(Length) /\ \A i \in 1 .. d : F[i] \in Length
  <2>1. (d + 1) - 1 = d /\ \A i \in 1 .. d : i \in 1 .. Len(F)
    OBVIOUS
  <2> QED
    BY <2>1, LengthsAre DEF Front, Length, Lengths
<1> HIDE DEF G
<1>2. /\ G \in Seq(Length) /\ Len(G) = IF 1 <= d THEN d - 1 + 1 ELSE 0
      /\ \A i \in 1 .. d - 1 + 1 : G[i] = F[1 + i - 1]
  BY <1>1, SubSeqProperties
<1>3. \A i \in 1 .. d : i \in 1 .. d - 1 + 1 /\ 1 + i - 1 = i
  OBVIOUS
<1>4. Len(G) = d /\ \A i \in 1 .. d : G[i] = F[i]
  BY <1>2, <1>3
<1> QED
  BY <1>2, <1>4 DEF G, Lengths

\* What is still to come is no shorter than the last frame.
LEMMA RestLong ==
    ASSUME NEW F \in Lengths, NEW k \in 0 .. Len(F), k # Len(F)
    PROVE  /\ F[Len(F)] \in 1 .. MaxFrame
           /\ Len(Rest(F, k)) >= F[Len(F)] /\ Rest(F, k) # <<>>
<1>1. PICK d \in Nat : Len(F) = d + 1 /\ k \in 0 .. d /\ Len(F) \in 1 .. Len(F)
  <2>1. Len(F) \in Nat /\ k \in Nat
    BY LengthsAre
  <2>2. Len(F) - 1 \in Nat /\ Len(F) = (Len(F) - 1) + 1 /\ k \in 0 .. Len(F) - 1 /\ Len(F) \in 1 .. Len(F)
    BY <2>1
  <2> QED
    BY <2>2
<1>2. PICK len \in 1 .. MaxFrame : len = F[Len(F)]
  BY <1>1, LengthsAre
<1>3. PICK G \in Lengths : Len(G) = d /\ \A i \in 1 .. d : G[i] = F[i]
  BY <1>1, FrontIs
<1>4. /\ Append(G, len) \in Lengths /\ Len(Append(G, len)) = d + 1
      /\ Append(G, len)[d + 1] = len
      /\ \A i \in 1 .. d : Append(G, len)[i] = G[i]
      /\ Rest(Append(G, len), k) = Rest(G, k) \o Bytes(d + 1, len)
  BY <1>1, <1>3, RestAppend
<1>5. Append(G, len) = F
  <2>1. \A i \in 1 .. d + 1 : i = d + 1 \/ i \in 1 .. d
    OBVIOUS
  <2>2. \A i \in 1 .. d + 1 : Append(G, len)[i] = F[i]
    BY <1>1, <1>2, <1>3, <1>4, <2>1
  <2> QED
    BY <1>1, <1>4, <2>2, SeqEqual DEF Lengths
<1>6. PICK x \in Strand, y \in Strand : x = Rest(G, k) /\ y = Bytes(d + 1, len) /\ Len(y) = len
  <2>1. d + 1 \in Nat
    OBVIOUS
  <2> QED
    BY <1>1, <1>3, <2>1, FollowingIs, BytesAre
<1>7. Rest(F, k) = x \o y /\ Len(x \o y) = Len(x) + len /\ Len(x) \in Nat /\ len \in Nat /\ len > 0
  <2>1. Rest(F, k) = x \o y
    BY <1>4, <1>5, <1>6
  <2>2. Len(x \o y) = Len(x) + Len(y) /\ Len(x) \in Nat
    BY Glue
  <2>3. len \in Nat /\ len > 0
    BY ConstantsAre
  <2> QED
    BY <1>6, <2>1, <2>2, <2>3
<1>8. Len(x) + len >= len /\ Len(x) + len # 0
  BY <1>7
<1> QED
  BY <1>2, <1>7, <1>8, Glue

\* What is left of a strand after i bytes.
Behind(x, i) == SubSeq(x, i + 1, Len(x))

LEMMA PieceIs ==
    ASSUME NEW x \in Strand, NEW i \in Nat, NEW j \in Nat, i <= j, j <= Len(x)
    PROVE  /\ SubSeq(x, i + 1, j) \in Strand /\ Len(SubSeq(x, i + 1, j)) = j - i
           /\ \A n \in 1 .. j - i : SubSeq(x, i + 1, j)[n] = x[i + n]
<1> DEFINE y == SubSeq(x, i + 1, j)
<1>1. i + 1 \in 1 .. Len(x) + 1 /\ \A n \in i + 1 .. j : x[n] \in Byte
  <2>1. Len(x) \in Nat /\ \A n \in 1 .. Len(x) : x[n] \in Byte
    BY Glue DEF Strand
  <2> QED
    BY <2>1
<1>2. /\ y \in Seq(Byte) /\ Len(y) = IF i + 1 <= j THEN j - (i + 1) + 1 ELSE 0
      /\ \A n \in 1 .. j - (i + 1) + 1 : y[n] = x[(i + 1) + n - 1]
  BY <1>1, SubSeqProperties DEF Strand
<1> HIDE DEF y
<1>3. Len(y) = j - i /\ \A n \in 1 .. j - i : y[n] = x[i + n]
  <2>1. \A n \in 1 .. j - i : n \in 1 .. j - (i + 1) + 1 /\ (i + 1) + n - 1 = i + n
    OBVIOUS
  <2>2. Len(y) = j - i
    BY <1>2
  <2> QED
    BY <1>2, <2>1, <2>2
<1> QED
  BY <1>2, <1>3 DEF y, Strand

LEMMA PiecesJoin ==
    ASSUME NEW x \in Strand, NEW i \in Nat, NEW j \in Nat, i <= j, j <= Len(x)
    PROVE  /\ Behind(x, i) = SubSeq(x, i + 1, j) \o Behind(x, j)
           /\ Behind(x, i) \in Strand /\ Len(Behind(x, i)) = Len(x) - i
           /\ \A n \in 1 .. Len(x) - i : Behind(x, i)[n] = x[i + n]
           /\ Behind(x, 0) = x
<1> DEFINE k == Len(x)
           u == Behind(x, i)
           v == SubSeq(x, i + 1, j)
           w == Behind(x, j)
<1>1. k \in Nat /\ i <= k /\ k <= Len(x)
  BY Glue
<1>2. v \in Strand /\ Len(v) = j - i /\ \A n \in 1 .. j - i : v[n] = x[i + n]
  BY PieceIs
<1>3. u \in Strand /\ Len(u) = k - i /\ \A n \in 1 .. k - i : u[n] = x[i + n]
  BY <1>1, PieceIs DEF Behind
<1>4. w \in Strand /\ Len(w) = k - j /\ \A n \in 1 .. k - j : w[n] = x[j + n]
  BY <1>1, PieceIs DEF Behind
<1>5. Behind(x, 0) = x
  <2>1. /\ Behind(x, 0) \in Strand /\ Len(Behind(x, 0)) = k - 0
        /\ \A n \in 1 .. k - 0 : Behind(x, 0)[n] = x[0 + n]
    BY <1>1, PieceIs DEF Behind
  <2>2. k - 0 = k
    BY <1>1
  <2>3. ASSUME NEW n \in 1 .. k PROVE Behind(x, 0)[n] = x[n]
    <3>1. 0 + n = n
      BY <1>1
    <3> QED
      BY <2>1, <2>2, <3>1
  <2> QED
    BY <2>1, <2>2, <2>3, SeqEqual DEF Strand
<1> HIDE DEF k, u, v, w
<1>6. /\ v \o w \in Strand /\ Len(v \o w) = k - i
      /\ \A n \in 1 .. k - i : (v \o w)[n] = IF n <= j - i THEN v[n] ELSE w[n - (j - i)]
  <2>1. /\ v \o w \in Strand /\ Len(v \o w) = Len(v) + Len(w)
        /\ \A n \in 1 .. Len(v) + Len(w) : (v \o w)[n] = IF n <= Len(v) THEN v[n] ELSE w[n - Len(v)]
    BY <1>2, <1>4, ConcatProperties DEF Strand
  <2>2. (j - i) + (k - j) = k - i
    BY <1>1
  <2> QED
    BY <1>2, <1>4, <2>1, <2>2
<1>7. ASSUME NEW n \in 1 .. k - i PROVE u[n] = (v \o w)[n]
  <2>1. CASE n <= j - i
    <3>1. n \in 1 .. j - i
      BY <1>1, <2>1
    <3> QED
      BY <1>2, <1>3, <1>6, <2>1, <3>1
  <2>2. CASE ~(n <= j - i)
    <3>1. n - (j - i) \in 1 .. k - j /\ j + (n - (j - i)) = i + n
      BY <1>1, <2>2
    <3> QED
      BY <1>3, <1>4, <1>6, <2>2, <3>1
  <2> QED
    BY <2>1, <2>2
<1>8. u = v \o w
  BY <1>3, <1>6, <1>7, SeqEqual DEF Strand
<1> QED
  BY <1>3, <1>5, <1>8 DEF k, u, v, w

\* D holds the frames after the k-th; the bytes x and then y are the rest.
NextOf(D, F, k) ==
    k + Len(D) <= Len(F) /\ \A i \in 1 .. Len(D) : D[i] = Bytes(k + i, F[k + i])
Leads(x, y, F, k) == x \o y = Rest(F, k)

\* Bytes that lead the rest, if there are any, start with the next frame.
LEMMA LeadsFrame ==
    ASSUME NEW F \in Lengths, NEW k \in 0 .. Len(F), NEW x \in Strand, NEW y \in Strand,
           Leads(x, y, F, k), x # <<>>
    PROVE  k # Len(F) /\ x[1].of = F[k + 1]
<1>1. Len(x) \in Nat /\ Len(x) > 0 /\ Len(y) \in Nat
  BY Glue
<1>2. /\ Len(x \o y) = Len(x) + Len(y)
      /\ \A i \in 1 .. Len(x) + Len(y) : (x \o y)[i] = IF i <= Len(x) THEN x[i] ELSE y[i - Len(x)]
  BY ConcatProperties DEF Strand
<1>3. (x \o y)[1] = x[1] /\ x \o y # <<>>
  BY <1>1, <1>2
<1>4. k # Len(F)
  BY <1>3, RestEnds DEF Leads
<1>5. PICK b \in Strand, v \in Strand, len \in 1 .. MaxFrame :
        /\ len = F[k + 1] /\ b = Bytes(k + 1, len) /\ v = Rest(F, k + 1)
        /\ Rest(F, k) = b \o v /\ Len(b) = len /\ b[1].of = len /\ len \in Nat /\ len > 0
  <2>1. /\ k + 1 \in 0 .. Len(F) /\ F[k + 1] \in 1 .. MaxFrame
        /\ Rest(F, k) = Bytes(k + 1, F[k + 1]) \o Rest(F, k + 1)
    BY <1>4, RestNext
  <2>2. PICK len \in 1 .. MaxFrame : len = F[k + 1]
    BY <2>1
  <2>3. k + 1 \in Nat
    OBVIOUS
  <2>4. /\ Bytes(k + 1, len) \in Strand /\ Len(Bytes(k + 1, len)) = len
        /\ \A i \in 1 .. len : Bytes(k + 1, len)[i].of = len
        /\ len \in Nat /\ len > 0
    BY <2>3, BytesAre
  <2>5. 1 \in 1 .. len
    BY <2>4
  <2>6. Rest(F, k + 1) \in Strand
    BY <2>1, FollowingIs
  <2> QED
    BY <2>1, <2>2, <2>4, <2>5, <2>6
<1>6. (b \o v)[1] = b[1]
  <2>1. Len(b) \in Nat /\ Len(v) \in Nat /\ 1 \in 1 .. Len(b) + Len(v) /\ 1 <= Len(b)
    BY <1>5, Glue
  <2>2. \A i \in 1 .. Len(b) + Len(v) : (b \o v)[i] = IF i <= Len(b) THEN b[i] ELSE v[i - Len(b)]
    BY ConcatProperties DEF Strand
  <2> QED
    BY <2>1, <2>2
<1> QED
  BY <1>3, <1>4, <1>5, <1>6 DEF Leads

\* A whole frame at the start of the bytes is the next one.
LEMMA LeadsNext ==
    ASSUME NEW F \in Lengths, NEW k \in 0 .. Len(F), k # Len(F),
           NEW x \in Strand, NEW y \in Strand, NEW z \in Strand,
           Len(x) = F[k + 1], Leads(x \o y, z, F, k)
    PROVE  /\ k + 1 \in 0 .. Len(F)
           /\ x = Bytes(k + 1, F[k + 1]) /\ Leads(y, z, F, k + 1)
<1>1. /\ k + 1 \in 0 .. Len(F) /\ F[k + 1] \in 1 .. MaxFrame
      /\ Rest(F, k) = Bytes(k + 1, F[k + 1]) \o Rest(F, k + 1)
  BY RestNext
<1>2. PICK len \in 1 .. MaxFrame : len = F[k + 1]
  BY <1>1
<1>3. k + 1 \in Nat
  OBVIOUS
<1>4. PICK b \in Strand, v \in Strand : b = Bytes(k + 1, len) /\ v = Rest(F, k + 1) /\ Len(b) = len
  BY <1>1, <1>3, BytesAre, FollowingIs
<1>5. PICK w \in Strand : w = y \o z
  BY Glue
<1>6. (x \o y) \o z = x \o w
  BY ZenonT(60), <1>5, Regroup
<1>7. SameJoin(x, w, b, v)
  BY <1>1, <1>2, <1>4, <1>6 DEF Leads, SameJoin
<1>8. x = b /\ w = v
  BY <1>2, <1>4, <1>7, SplitEqual
<1> QED
  BY <1>1, <1>2, <1>4, <1>5, <1>8 DEF Leads

\* What f makes of the bytes after the i-th, if those and y are the rest.
Decoding(x, y, F, f, i) ==
    \A k \in 0 .. Len(F) : Leads(Behind(x, i), y, F, k) =>
      /\ NextOf(f[i], F, k)
      /\ Leads(Behind(x, i + Total(f[i])), y, F, k + Len(f[i]))
      /\ Short(Behind(x, i + Total(f[i])))

LEMMA NextCons ==
    ASSUME NEW F \in Lengths, NEW k \in 0 .. Len(F), k # Len(F), NEW x \in Frame,
           NEW D \in Seq(Frame), x = Bytes(k + 1, F[k + 1]), NextOf(D, F, k + 1)
    PROVE  /\ NextOf(<<x>> \o D, F, k) /\ Len(<<x>> \o D) = 1 + Len(D)
           /\ k + Len(<<x>> \o D) = (k + 1) + Len(D)
<1> DEFINE one == <<x>>
<1>1. one \in Seq(Frame) /\ Len(one) = 1 /\ one[1] = x
  OBVIOUS
<1> HIDE DEF one
<1>2. PICK d \in Nat : d = Len(D)
  OBVIOUS
<1>3. /\ Len(one \o D) = 1 + d
      /\ \A i \in 1 .. 1 + d : (one \o D)[i] = IF i <= 1 THEN one[i] ELSE D[i - 1]
  <2>1. /\ Len(one \o D) = Len(one) + Len(D)
        /\ \A i \in 1 .. Len(one) + Len(D) :
             (one \o D)[i] = IF i <= Len(one) THEN one[i] ELSE D[i - Len(one)]
    BY <1>1, ConcatProperties
  <2> QED
    BY <1>1, <1>2, <2>1
<1>4. Len(F) \in Nat /\ k \in Nat /\ (k + 1) + d <= Len(F) /\ k + (1 + d) = (k + 1) + d
  BY <1>2, LengthsAre DEF NextOf
<1>5. ASSUME NEW i \in 1 .. 1 + d PROVE (one \o D)[i] = Bytes(k + i, F[k + i])
  <2>1. CASE i = 1
    BY <1>1, <1>3, <2>1
  <2>2. CASE i # 1
    <3>1. i - 1 \in 1 .. d /\ ~(i <= 1) /\ (k + 1) + (i - 1) = k + i
      BY <1>4, <2>2
    <3>2. D[i - 1] = Bytes((k + 1) + (i - 1), F[(k + 1) + (i - 1)])
      BY <1>2, <3>1 DEF NextOf
    <3> QED
      BY <1>3, <3>1, <3>2
  <2> QED
    BY <2>1, <2>2
<1>6. k + (1 + d) <= Len(F)
  BY <1>4
<1>7. NextOf(one \o D, F, k)
  BY <1>3, <1>5, <1>6 DEF NextOf
<1> QED
  BY <1>2, <1>3, <1>4, <1>7 DEF one

LEMMA DecodingStep ==
    ASSUME NEW x \in Strand, NEW y \in Strand, NEW F \in Lengths, NEW f, Decodes(x, f),
           NEW i \in 0 .. Len(x), \A j \in i + 1 .. Len(x) : Decoding(x, y, F, f, j)
    PROVE  Decoding(x, y, F, f, i)
<1> SUFFICES ASSUME NEW k \in 0 .. Len(F), Leads(Behind(x, i), y, F, k)
             PROVE  /\ NextOf(f[i], F, k)
                    /\ Leads(Behind(x, i + Total(f[i])), y, F, k + Len(f[i]))
                    /\ Short(Behind(x, i + Total(f[i])))
  BY DEF Decoding
<1>1. PICK a \in Nat, z \in Nat : a = Len(x) /\ z = Len(F)
  BY Glue, LengthsAre
<1>2. i \in Nat /\ k \in Nat /\ i <= a /\ k <= z /\ x \in Seq(Byte)
  BY <1>1 DEF Strand
<1>3. f[i] = After(x, f, i)
  BY DEF Decodes
<1>4. PICK b \in Strand : b = Behind(x, i) /\ Len(b) = a - i /\ \A n \in 1 .. a - i : b[n] = x[i + n]
  BY <1>1, <1>2, PiecesJoin
<1>5. CASE i = a \/ i + x[i + 1].of > a
  <2>1. f[i] = <<>>
    BY <1>1, <1>3, <1>5 DEF After
  <2>2. Total(f[i]) = 0 /\ Len(f[i]) = 0 /\ i + 0 = i /\ k + 0 = k
    BY <1>2, <2>1, TotalEmpty
  <2>3. NextOf(f[i], F, k)
    BY <1>1, <1>2, <2>2 DEF NextOf
  <2>4. Short(b)
    <3>1. CASE i = a
      <4>1. Len(b) = 0
        BY <1>2, <1>4, <3>1
      <4> QED
        BY <4>1, Glue DEF Short
    <3>2. CASE i # a
      <4>1. 1 \in 1 .. a - i
        BY <1>1, <1>2, <3>2
      <4>2. b[1] = x[i + 1]
        BY <1>4, <4>1
      <4>3. x[i + 1].of \in Nat
        BY <1>1, <1>2, <3>2, DeclaredIs
      <4>4. x[i + 1].of > a - i
        BY <1>1, <1>2, <1>5, <3>2, <4>3
      <4> QED
        BY <1>4, <4>2, <4>4 DEF Short
    <3> QED
      BY <3>1, <3>2
  <2> QED
    BY <1>4, <2>2, <2>3, <2>4
<1>6. CASE ~(i = a \/ i + x[i + 1].of > a)
  <2>1. PICK of \in Nat : of = x[i + 1].of /\ of > 0
    BY <1>1, <1>2, <1>6, DeclaredIs
  <2>2. PICK j \in Nat : j = i + of /\ i <= j /\ j <= a /\ j \in i + 1 .. a /\ j - i = of
    BY <1>1, <1>2, <1>6, <2>1
  <2>3. PICK s \in Strand : s = SubSeq(x, i + 1, j) /\ Len(s) = of
    <3>1. i \in Nat /\ j \in Nat /\ i <= j /\ j <= Len(x)
      BY <1>1, <1>2, <2>2
    <3>2. SubSeq(x, i + 1, j) \in Strand /\ Len(SubSeq(x, i + 1, j)) = j - i
      BY <3>1, PieceIs
    <3> QED
      BY <2>2, <3>2
  <2>4. PICK v \in Strand : v = Behind(x, j) /\ b = s \o v
    <3>1. i \in Nat /\ j \in Nat /\ i <= j /\ j <= Len(x) /\ j <= j
      BY <1>1, <1>2, <2>2
    <3>2. Behind(x, i) = SubSeq(x, i + 1, j) \o Behind(x, j)
      BY <3>1, PiecesJoin
    <3>3. Behind(x, j) \in Strand
      BY <3>1, PiecesJoin
    <3> QED
      BY <1>4, <2>3, <3>2, <3>3
  <2>5. f[i] = <<s>> \o f[j]
    BY <1>1, <1>3, <1>6, <2>1, <2>2, <2>3 DEF After
  <2>6. b # <<>> /\ b[1] = x[i + 1]
    <3>1. 1 \in 1 .. a - i /\ a - i # 0
      BY <1>2, <2>2
    <3> QED
      BY <1>4, <3>1, Glue
  <2>7. k # Len(F) /\ of = F[k + 1]
    BY <1>4, <2>1, <2>6, LeadsFrame
  <2>8. k + 1 \in 0 .. Len(F) /\ s = Bytes(k + 1, F[k + 1]) /\ Leads(v, y, F, k + 1)
    <3>1. Leads(s \o v, y, F, k)
      BY <1>4, <2>4
    <3>2. Len(s) = F[k + 1]
      BY <2>3, <2>7
    <3> QED
      BY <2>7, <3>1, <3>2, LeadsNext
  <2>9. Decoding(x, y, F, f, j)
    BY <1>1, <2>2
  <2>10. PICK D \in Seq(Frame) : D = f[j]
    BY <1>1, <1>2, <2>2, FramesFitFrom
  <2>11. /\ NextOf(D, F, k + 1) /\ Leads(Behind(x, j + Total(D)), y, F, (k + 1) + Len(D))
         /\ Short(Behind(x, j + Total(D)))
    BY <2>4, <2>8, <2>9, <2>10 DEF Decoding
  <2>12. s \in Frame
    <3>1. of \in 1 .. MaxFrame
      BY <1>1, <1>2, <1>6, <2>1, DeclaredIs
    <3> QED
      BY <2>3, <3>1 DEF Frame, Strand
  <2>13. /\ NextOf(<<s>> \o D, F, k) /\ k + Len(<<s>> \o D) = (k + 1) + Len(D)
    BY <2>7, <2>8, <2>11, <2>12, NextCons
  <2>14. i + Total(<<s>> \o D) = j + Total(D)
    <3>1. D \in Seq(Seq(Byte)) /\ s \in Seq(Byte)
      BY <2>10, FramesAre DEF Strand
    <3>2. <<s>> \in Seq(Seq(Byte)) /\ Total(<<s>>) = of
      BY <2>3, <3>1, TotalOne
    <3>3. PICK one \in Seq(Seq(Byte)) : one = <<s>>
      BY <3>2
    <3>4. Total(one \o D) = Total(one) + Total(D)
      BY <3>1, TotalConcat
    <3>5. PICK t \in Nat : t = Total(D)
      BY <3>1, TotalType
    <3>6. i + (of + t) = j + t
      BY <1>2, <2>2
    <3> QED
      BY <3>2, <3>3, <3>4, <3>5, <3>6
  <2> QED
    BY <2>5, <2>10, <2>11, <2>13, <2>14
<1> QED
  BY <1>5, <1>6

\* Decoding the bytes that lead the rest gives the next frames, and leaves
\* bytes that lead what is then the rest, too few for a frame.
LEMMA ReassembleNext ==
    ASSUME NEW x \in Strand, NEW y \in Strand, NEW F \in Lengths, NEW k \in 0 .. Len(F),
           Leads(x, y, F, k)
    PROVE  LET r == Reassemble(x)
           IN  /\ r.frames \in Seq(Frame) /\ NextOf(r.frames, F, k)
               /\ r.rest \in Strand /\ Leads(r.rest, y, F, k + Len(r.frames)) /\ Short(r.rest)
<1>1. PICK f : Decodes(x, f) /\ WholeFrames(x) = f[0]
  BY WholeFramesIs DEF Decodes, Strand
<1>2. PICK a \in Nat : a = Len(x)
  BY Glue
<1> DEFINE T == {j \in 0 .. a : \A i \in a - j .. a : Decoding(x, y, F, f, i)}
<1>3. 0 \in T
  <2>1. \A j \in a + 1 .. a : Decoding(x, y, F, f, j)
    OBVIOUS
  <2>2. a \in 0 .. a
    OBVIOUS
  <2>3. Decoding(x, y, F, f, a)
    BY <1>1, <1>2, <2>1, <2>2, DecodingStep
  <2>4. \A i \in a - 0 .. a : i = a
    OBVIOUS
  <2> QED
    BY <2>3, <2>4
<1>4. ASSUME NEW j \in 0 .. a, j < a, j \in T PROVE j + 1 \in T
  <2>1. PICK b \in 0 .. a : b = a - (j + 1) /\ b + 1 = a - j /\ j + 1 \in 0 .. a
    BY <1>4
  <2>2. \A i \in b + 1 .. a : Decoding(x, y, F, f, i)
    BY <1>4, <2>1
  <2>3. Decoding(x, y, F, f, b)
    BY <1>1, <1>2, <2>2, DecodingStep
  <2>4. \A i \in b .. a : i = b \/ i \in b + 1 .. a
    BY <2>1
  <2>5. \A i \in b .. a : Decoding(x, y, F, f, i)
    BY <2>2, <2>3, <2>4
  <2> QED
    BY <2>1, <2>5
<1>5. a \in T
  <2> HIDE DEF T
  <2>1. \A j \in 0 .. a : j \in T
    BY <1>3, <1>4, Climb
  <2> QED
    BY <2>1
<1>6. Decoding(x, y, F, f, 0)
  <2>1. a - a = 0 /\ 0 \in 0 .. a
    OBVIOUS
  <2> QED
    BY <1>5, <2>1
<1>7. PICK D \in Seq(Frame), t \in Nat : D = f[0] /\ t = Total(D) /\ t <= a
  <2>1. 0 \in 0 .. a /\ a - 0 = a
    OBVIOUS
  <2> QED
    BY <1>1, <1>2, <2>1, FramesFitFrom DEF Strand
<1>8. Behind(x, 0) = x /\ Behind(x, t) \in Strand
  BY <1>2, <1>7, PiecesJoin
<1>9. 0 + t = t
  OBVIOUS
<1>10. NextOf(D, F, k) /\ Leads(Behind(x, t), y, F, k + Len(D)) /\ Short(Behind(x, t))
  BY <1>6, <1>7, <1>8, <1>9 DEF Decoding
<1>11. Reassemble(x).frames = D /\ Reassemble(x).rest = Behind(x, t)
  BY <1>1, <1>7 DEF Reassemble, Behind
<1> QED
  BY <1>7, <1>8, <1>10, <1>11
-----------------------------------------------------------------------------
(* The invariant of one direction of channel c: its sender s with state m  *)
(* and history h, what it wrote w, its receiver's state r and history g.   *)
(* L holds the ends whose Mux was not dropped, H the channels whose OPEN   *)
(* has not reached the receiver and N those the sender never heard of.     *)

IsReset(s, c) == s.ch = c /\ s.kind = "RESET"
ResetIn(q, c) == \E i \in DOMAIN q : IsReset(q[i], c)

\* What the writer will still take, and what the sender will still queue.
Queue(s, m, L, c) == IF s \in L THEN m.out[c] ELSE <<>>
Kept(s, m, L, c) == IF s \in L /\ c \in m.chans THEN m.held[c] \o m.todo[c] ELSE <<>>
Supply(s, m, w, L, c) == Bodies(w, c) \o (Bodies(Queue(s, m, L, c), c) \o Kept(s, m, L, c))

\* The RESET is on its way, behind everything else of the channel.
Leaving(s, m, w, L, c) == ResetIn(Queue(s, m, L, c), c) \/ ResetIn(w, c)
ResetEnds(w, q, c) ==
    /\ \A i, j \in DOMAIN q : i < j => ~IsReset(q[i], c)
    /\ \A i, j \in DOMAIN w : i < j /\ IsReset(w[i], c) => ~Moving(w[j], c)
    /\ ResetIn(w, c) => q = <<>>

\* Nothing was lost yet; or a frame was left unfinished for good.
Intact(s, m, w, L, c) == (s \in L /\ c \in m.chans) \/ Leaving(s, m, w, L, c)
Broken(s, m, L, h, c) == c \in h.givenUp \/ (m.todo[c] # <<>> /\ ~(s \in L /\ c \in m.chans))

LastLen(F) == F[Len(F)]
Sender(s, m, w, L, h, c) ==
    /\ ResetEnds(w, Queue(s, m, L, c), c)
    /\ Leaving(s, m, w, L, c) => c \notin m.chans /\ c \notin m.send
    /\ s \in L /\ c \in m.chans /\ c \notin m.send => m.todo[c] = <<>> /\ m.held[c] = <<>>
    /\ c \in h.givenUp => c \notin m.send /\ h.frames[c] # <<>>
    /\ m.todo[c] # <<>> => h.frames[c] # <<>> /\ Len(m.todo[c]) <= LastLen(h.frames[c])

\* The frames decoded so far are the first ones, and all but the last were
\* sent to the end.
Decoded(r, g, c) == g.got[c] \o r.rx[c]
SentLen(h, c) == Len(h.frames[c]) - (IF c \in h.givenUp THEN 1 ELSE 0)
Ordered(m, h, r, g, c) ==
    /\ NextOf(Decoded(r, g, c), h.frames[c], 0)
    /\ c \in h.givenUp \/ m.todo[c] # <<>> => Len(Decoded(r, g, c)) < Len(h.frames[c])

\* While somebody listens, the bytes that were not decoded are lined up.
Listening(r, H, c) == c \in H \/ (c \in r.chans /\ c \in r.recv)
Lost(s, m, w, L, h, c, lost) ==
    /\ Broken(s, m, L, h, c) => lost # <<>>
    /\ Intact(s, m, w, L, c) /\ c \notin h.givenUp => lost = <<>>
    /\ Intact(s, m, w, L, c) /\ c \in h.givenUp => Len(lost) <= LastLen(h.frames[c])
Lined(s, m, w, L, h, r, g, c) ==
    /\ Short(r.asm[c])
    /\ \E lost \in Strand :
         /\ Leads(r.asm[c], Supply(s, m, w, L, c) \o lost, h.frames[c], Len(Decoded(r, g, c)))
         /\ Lost(s, m, w, L, h, c, lost)

\* A receiver that the peer's RESET reached has decoded everything.
Complete(m, h, r, g, H, N, c) ==
    /\ c \notin m.send /\ c \notin H /\ c \notin N /\ c \notin r.chans
    /\ Len(Decoded(r, g, c)) = SentLen(h, c)
WasReset(r, g, c) == c \in r.recv /\ c \notin r.chans /\ c \notin g.closedHere /\ ~Closed(r)
WasTold(g, c) == g.ended[c] = "reset" /\ c \notin g.closedHere

Stream(s, m, w, L, h, r, g, H, N, c) ==
    /\ Sender(s, m, w, L, h, c)
    /\ c \in H => r.asm[c] = <<>> /\ r.rx[c] = <<>> /\ g.got[c] = <<>>
    /\ c \in N => h.frames[c] = <<>>
    /\ Ordered(m, h, r, g, c)
    /\ Listening(r, H, c) => Lined(s, m, w, L, h, r, g, c)
    /\ WasReset(r, g, c) => Complete(m, h, r, g, H, N, c)
    /\ WasTold(g, c) => Complete(m, h, r, g, H, N, c) /\ r.rx[c] = <<>>

HiddenTo(e) == {c \in Ch : Hidden(e, c)}
Foreign(e) == {c \in Ch : Unused(e, c) \/ Hidden(Peer(e), c)}
Live == {e \in End : alive[e]}
StreamOf(e, c) ==
    Stream(e, ep[e], wire[e], Live, hist[e], ep[Peer(e)], hist[Peer(e)],
           HiddenTo(e), Foreign(e), c)
Tale(h) ==
    /\ h.frames \in [Ch -> Lengths] /\ h.got \in [Ch -> Seq(Frame)] /\ DOMAIN h.ended = Ch
Tales == \A e \in End : Tale(hist[e])
SInv == IInv /\ Tales /\ \A e \in End, c \in Ch : StreamOf(e, c)
-----------------------------------------------------------------------------
(* What the parts of the invariant are. *)

Typed(m, w, h, r, g, c) ==
    /\ m.out[c] \in Seq(Segment) /\ m.todo[c] \in Strand /\ m.held[c] \in Strand
    /\ w \in Seq(Segment) /\ h.frames[c] \in Lengths
    /\ r.asm[c] \in Strand /\ r.rx[c] \in Seq(Frame) /\ g.got[c] \in Seq(Frame)

LEMMA TypedOf ==
    ASSUME NEW e, NEW m, IsEnd(e, m), NEW w \in Seq(Segment), NEW h, Tale(h),
           NEW p, NEW r, IsEnd(p, r), NEW g, Tale(g), NEW c \in Ch
    PROVE  Typed(m, w, h, r, g, c)
<1>1. m.out[c] \in Seq(Segment)
  BY QueuesAre
<1>2. m.todo[c] \in Strand /\ m.held[c] \in Strand
  BY DEF IsEnd, Strand
<1>3. r.asm[c] \in Strand /\ r.rx[c] \in Seq(Frame)
  BY DEF IsEnd, Strand
<1>4. h.frames[c] \in Lengths /\ g.got[c] \in Seq(Frame)
  BY DEF Tale
<1> QED
  BY <1>1, <1>2, <1>3, <1>4 DEF Typed

LEMMA TypedIs ==
    ASSUME IInv, Tales, NEW e \in End, NEW c \in Ch
    PROVE  Typed(ep[e], wire[e], hist[e], ep[Peer(e)], hist[Peer(e)], c)
<1>1. Peer(e) \in End
  BY PeerIs
<1>2. IsEnd(e, ep[e]) /\ wire[e] \in Seq(Segment)
  BY EndsAre DEF IInv
<1>3. IsEnd(Peer(e), ep[Peer(e)])
  BY <1>1, EndsAre DEF IInv
<1>4. Tale(hist[e]) /\ Tale(hist[Peer(e)])
  BY <1>1 DEF Tales
<1> QED
  BY <1>2, <1>3, <1>4, TypedOf

LEMMA SupplyIs ==
    ASSUME NEW s, NEW m, NEW w, NEW L, NEW h, NEW r, NEW g, NEW c, Typed(m, w, h, r, g, c)
    PROVE  /\ Queue(s, m, L, c) \in Seq(Segment) /\ Kept(s, m, L, c) \in Strand
           /\ Bodies(w, c) \in Strand /\ Bodies(Queue(s, m, L, c), c) \in Strand
           /\ Supply(s, m, w, L, c) \in Strand
<1>1. m.todo[c] \in Strand /\ m.held[c] \in Strand /\ w \in Seq(Segment)
  BY DEF Typed
<1>2. <<>> \in Seq(Segment) /\ m.out[c] \in Seq(Segment)
  BY DEF Typed
<1>3. Queue(s, m, L, c) \in Seq(Segment)
  BY <1>2 DEF Queue
<1>4. m.held[c] \o m.todo[c] \in Strand /\ <<>> \in Strand
  BY <1>1, Glue
<1>5. Kept(s, m, L, c) \in Strand
  BY <1>4 DEF Kept
<1>6. Bodies(w, c) \in Strand /\ Bodies(Queue(s, m, L, c), c) \in Strand
  BY <1>1, <1>3, BodiesIs
<1>7. Bodies(Queue(s, m, L, c), c) \o Kept(s, m, L, c) \in Strand
  BY <1>5, <1>6, Glue
<1>8. Bodies(w, c) \o (Bodies(Queue(s, m, L, c), c) \o Kept(s, m, L, c)) \in Strand
  BY <1>6, <1>7, Glue
<1> QED
  BY <1>3, <1>5, <1>6, <1>8 DEF Supply

LEMMA DecodedIs ==
    ASSUME NEW m, NEW w, NEW h, NEW r, NEW g, NEW c, Typed(m, w, h, r, g, c)
    PROVE  /\ Decoded(r, g, c) \in Seq(Frame)
           /\ Len(Decoded(r, g, c)) \in Nat
           /\ Len(Decoded(r, g, c)) = Len(g.got[c]) + Len(r.rx[c])
           /\ Len(h.frames[c]) \in Nat
<1>1. PICK x \in Seq(Frame), y \in Seq(Frame) : x = g.got[c] /\ y = r.rx[c]
  BY DEF Typed
<1>2. x \o y \in Seq(Frame) /\ Len(x \o y) = Len(x) + Len(y) /\ Len(x \o y) \in Nat
  OBVIOUS
<1>3. h.frames[c] \in Lengths
  BY DEF Typed
<1> QED
  BY <1>1, <1>2, <1>3, LengthsAre DEF Decoded

\* Where the decoded frames are a beginning of those that were sent.
LEMMA OrderedIs ==
    ASSUME NEW m, NEW w, NEW h, NEW r, NEW g, NEW c, Typed(m, w, h, r, g, c),
           Ordered(m, h, r, g, c)
    PROVE  Len(Decoded(r, g, c)) \in 0 .. Len(h.frames[c])
<1>1. PICK k \in Nat, n \in Nat : k = Len(Decoded(r, g, c)) /\ n = Len(h.frames[c])
  BY DecodedIs
<1>2. 0 + k <= n
  BY <1>1 DEF Ordered, NextOf
<1>3. k \in 0 .. n
  BY <1>2
<1> QED
  BY <1>1, <1>3

\* What of a channel its stream depends on, before and after a step.
SameLife(s, L, L2) == s \in L2 <=> s \in L
SameSender(m, n, c) ==
    /\ n.out[c] = m.out[c] /\ n.held[c] = m.held[c] /\ n.todo[c] = m.todo[c]
    /\ (c \in n.chans <=> c \in m.chans) /\ (c \in n.send <=> c \in m.send)
SameBook(h, h2, c) ==
    h2.frames[c] = h.frames[c] /\ (c \in h2.givenUp <=> c \in h.givenUp)
SameReceiver(r, r2, c) ==
    /\ r2.asm[c] = r.asm[c] /\ r2.rx[c] = r.rx[c] /\ r2.reason = r.reason
    /\ (c \in r2.chans <=> c \in r.chans) /\ (c \in r2.recv <=> c \in r.recv)
SameNews(g, g2, c) ==
    /\ g2.got[c] = g.got[c] /\ g2.ended[c] = g.ended[c]
    /\ (c \in g2.closedHere <=> c \in g.closedHere)

\* What is lost before a step may be lost after it.
StillLost(s, m, w, L, h, n, v, L2, h2, c) ==
    \A lost : Lost(s, m, w, L, h, c, lost) => Lost(s, n, v, L2, h2, c, lost)

LEMMA SameSupply ==
    ASSUME NEW s, NEW m, NEW n, NEW w, NEW L, NEW L2, NEW h, NEW h2, NEW c,
           SameSender(m, n, c), SameBook(h, h2, c), SameLife(s, L, L2)
    PROVE  /\ Queue(s, n, L2, c) = Queue(s, m, L, c)
           /\ Supply(s, n, w, L2, c) = Supply(s, m, w, L, c)
           /\ Sender(s, m, w, L, h, c) => Sender(s, n, w, L2, h2, c)
           /\ StillLost(s, m, w, L, h, n, w, L2, h2, c)
           /\ SentLen(h2, c) = SentLen(h, c)
<1>1. Queue(s, n, L2, c) = Queue(s, m, L, c)
  BY DEF Queue, SameSender, SameLife
<1>2. Kept(s, n, L2, c) = Kept(s, m, L, c)
  BY DEF Kept, SameSender, SameLife
<1>3. Supply(s, n, w, L2, c) = Supply(s, m, w, L, c)
  BY <1>1, <1>2 DEF Supply
<1>4. Leaving(s, n, w, L2, c) <=> Leaving(s, m, w, L, c)
  BY <1>1 DEF Leaving
<1>5. Sender(s, m, w, L, h, c) => Sender(s, n, w, L2, h2, c)
  BY <1>1, <1>4 DEF Sender, SameSender, SameBook, SameLife, LastLen
<1>6. StillLost(s, m, w, L, h, n, w, L2, h2, c)
  BY <1>4 DEF StillLost, Lost, Broken, Intact, SameSender, SameBook, SameLife, LastLen
<1> QED
  BY <1>1, <1>3, <1>5, <1>6 DEF SentLen, SameBook

\* A step that leaves everything of a channel alone.
LEMMA StreamStays ==
    ASSUME NEW s, NEW m, NEW w, NEW L, NEW h, NEW r, NEW g, NEW H, NEW N, NEW c,
           NEW n, NEW L2, NEW h2, NEW r2, NEW g2, NEW H2, NEW N2,
           Stream(s, m, w, L, h, r, g, H, N, c),
           SameSender(m, n, c), SameBook(h, h2, c), SameLife(s, L, L2),
           SameReceiver(r, r2, c), SameNews(g, g2, c), H2 \subseteq H, N2 \subseteq N
    PROVE  Stream(s, n, w, L2, h2, r2, g2, H2, N2, c)
<1>1. /\ Supply(s, n, w, L2, c) = Supply(s, m, w, L, c)
      /\ Sender(s, m, w, L, h, c) => Sender(s, n, w, L2, h2, c)
      /\ StillLost(s, m, w, L, h, n, w, L2, h2, c)
      /\ SentLen(h2, c) = SentLen(h, c)
  <2>1. Supply(s, n, w, L2, c) = Supply(s, m, w, L, c)
    BY SameSupply
  <2>2. Sender(s, m, w, L, h, c) => Sender(s, n, w, L2, h2, c)
    BY SameSupply
  <2>3. StillLost(s, m, w, L, h, n, w, L2, h2, c)
    BY SameSupply
  <2>4. SentLen(h2, c) = SentLen(h, c)
    BY SameSupply
  <2> QED
    BY <2>1, <2>2, <2>3, <2>4
<1>2. Decoded(r2, g2, c) = Decoded(r, g, c)
  BY DEF Decoded, SameReceiver, SameNews
<1>3. Sender(s, n, w, L2, h2, c)
  BY <1>1 DEF Stream
<1>4. c \in H2 => r2.asm[c] = <<>> /\ r2.rx[c] = <<>> /\ g2.got[c] = <<>>
  BY DEF Stream, SameReceiver, SameNews
<1>5. c \in N2 => h2.frames[c] = <<>>
  BY DEF Stream, SameBook
<1>6. Ordered(n, h2, r2, g2, c)
  BY <1>2 DEF Stream, Ordered, SameSender, SameBook
<1>7. Listening(r2, H2, c) => Lined(s, n, w, L2, h2, r2, g2, c)
  <2>1. Listening(r2, H2, c) => Listening(r, H, c)
    BY DEF Listening, SameReceiver
  <2>2. Lined(s, m, w, L, h, r, g, c) => Lined(s, n, w, L2, h2, r2, g2, c)
    BY <1>1, <1>2 DEF Lined, StillLost, SameReceiver, SameBook
  <2> QED
    BY <2>1, <2>2 DEF Stream
<1>8. Complete(m, h, r, g, H, N, c) => Complete(n, h2, r2, g2, H2, N2, c)
  BY <1>1, <1>2 DEF Complete, SameSender, SameReceiver
<1>9. WasReset(r2, g2, c) => Complete(n, h2, r2, g2, H2, N2, c)
  BY <1>8 DEF Stream, WasReset, SameReceiver, SameNews, Closed
<1>10. WasTold(g2, c) => Complete(n, h2, r2, g2, H2, N2, c) /\ r2.rx[c] = <<>>
  BY <1>8 DEF Stream, WasTold, SameReceiver, SameNews
<1> QED
  BY <1>3, <1>4, <1>5, <1>6, <1>7, <1>9, <1>10 DEF Stream
-----------------------------------------------------------------------------
(* Steps of the sender: what its stream is made of moves on. *)

Carries(s, m, w, L, h, n, v, L2, h2, c) ==
    \A lost \in Strand : Lost(s, m, w, L, h, c, lost) =>
      \E more \in Strand : /\ SameJoin(Supply(s, m, w, L, c), lost, Supply(s, n, v, L2, c), more)
                           /\ Lost(s, n, v, L2, h2, c, more)

\* No frame is begun; one is given up only by a sender that had begun it.
NoneBegun(m, h, n, h2, c) ==
    /\ h2.frames[c] = h.frames[c]
    /\ c \in h2.givenUp \/ n.todo[c] # <<>> => c \in h.givenUp \/ m.todo[c] # <<>>
    /\ c \notin m.send => c \notin n.send /\ (c \in h2.givenUp <=> c \in h.givenUp)

LEMMA CarriesOn ==
    ASSUME NEW s, NEW m, NEW w, NEW L, NEW h, NEW n, NEW v, NEW L2, NEW h2, NEW c,
           Supply(s, n, v, L2, c) = Supply(s, m, w, L, c),
           StillLost(s, m, w, L, h, n, v, L2, h2, c)
    PROVE  Carries(s, m, w, L, h, n, v, L2, h2, c)
BY DEF Carries, SameJoin, StillLost

LEMMA SenderTells ==
    ASSUME NEW s, NEW m, NEW w, NEW L, NEW h, NEW r, NEW g, NEW H, NEW N, NEW c,
           NEW n, NEW v, NEW L2, NEW h2, NEW H2, NEW N2,
           Stream(s, m, w, L, h, r, g, H, N, c), Sender(s, n, v, L2, h2, c),
           NoneBegun(m, h, n, h2, c), Carries(s, m, w, L, h, n, v, L2, h2, c),
           H2 \subseteq H, N2 \subseteq N
    PROVE  Stream(s, n, v, L2, h2, r, g, H2, N2, c)
<1>1. /\ c \in H2 => r.asm[c] = <<>> /\ r.rx[c] = <<>> /\ g.got[c] = <<>>
      /\ c \in N2 => h2.frames[c] = <<>>
      /\ Ordered(n, h2, r, g, c)
  BY DEF Stream, NoneBegun, Ordered
<1>2. Listening(r, H2, c) => Lined(s, n, v, L2, h2, r, g, c)
  <2>1. Listening(r, H2, c) => Listening(r, H, c)
    BY DEF Listening
  <2>2. ASSUME Lined(s, m, w, L, h, r, g, c) PROVE Lined(s, n, v, L2, h2, r, g, c)
    <3>1. PICK lost \in Strand :
            /\ Leads(r.asm[c], Supply(s, m, w, L, c) \o lost, h.frames[c], Len(Decoded(r, g, c)))
            /\ Lost(s, m, w, L, h, c, lost)
      BY <2>2 DEF Lined
    <3>2. PICK more \in Strand :
            /\ SameJoin(Supply(s, m, w, L, c), lost, Supply(s, n, v, L2, c), more)
            /\ Lost(s, n, v, L2, h2, c, more)
      BY <3>1 DEF Carries
    <3>3. Leads(r.asm[c], Supply(s, n, v, L2, c) \o more, h2.frames[c], Len(Decoded(r, g, c)))
      BY <3>1, <3>2 DEF SameJoin, NoneBegun
    <3> QED
      BY <2>2, <3>2, <3>3 DEF Lined
  <2> QED
    BY <2>1, <2>2 DEF Stream
<1>3. Complete(m, h, r, g, H, N, c) => Complete(n, h2, r, g, H2, N2, c)
  BY DEF Complete, NoneBegun, SentLen
<1> QED
  BY <1>1, <1>2, <1>3 DEF Stream

\* AcquireCredit moves bytes from what is to be sent to what may be queued.
Acquires(m, n, c) ==
    /\ m.todo[c] # <<>> /\ m.held[c] = <<>> /\ c \in m.chans
    /\ n.out[c] = m.out[c] /\ n.chans = m.chans /\ n.send = m.send
    /\ n.held[c] \o n.todo[c] = m.todo[c] /\ Len(n.todo[c]) <= Len(m.todo[c])

LEMMA AcquireMoves ==
    ASSUME NEW s, NEW m, NEW w, NEW L, NEW h, NEW n, NEW c, Sender(s, m, w, L, h, c),
           Acquires(m, n, c), m.todo[c] \in Strand, n.todo[c] \in Strand,
           h.frames[c] \in Lengths
    PROVE  /\ Sender(s, n, w, L, h, c) /\ NoneBegun(m, h, n, h, c)
           /\ Carries(s, m, w, L, h, n, w, L, h, c)
<1>1. Queue(s, n, L, c) = Queue(s, m, L, c)
  BY DEF Queue, Acquires
<1>2. m.held[c] \o m.todo[c] = n.held[c] \o n.todo[c]
  BY Glue DEF Acquires
<1>3. Kept(s, n, L, c) = Kept(s, m, L, c)
  BY <1>2 DEF Kept, Acquires
<1>4. Supply(s, n, w, L, c) = Supply(s, m, w, L, c)
  BY <1>1, <1>3 DEF Supply
<1>5. Leaving(s, n, w, L, c) <=> Leaving(s, m, w, L, c)
  BY <1>1 DEF Leaving
<1>6. ResetEnds(w, Queue(s, n, L, c), c) /\ c \in n.chans
  BY <1>1 DEF Sender, Acquires
<1>7. ~Leaving(s, m, w, L, c) /\ (c \in h.givenUp => c \notin n.send /\ h.frames[c] # <<>>)
  BY DEF Sender, Acquires
<1>8. /\ s \in L /\ c \in n.chans /\ c \notin n.send => n.todo[c] = <<>> /\ n.held[c] = <<>>
      /\ h.frames[c] # <<>>
  BY DEF Sender, Acquires
<1>9. Len(n.todo[c]) <= LastLen(h.frames[c])
  <2>1. PICK a \in Nat, b \in Nat : a = Len(m.todo[c]) /\ b = Len(n.todo[c]) /\ b <= a
    BY Glue DEF Acquires
  <2>2. a <= LastLen(h.frames[c])
    BY <2>1 DEF Sender, Acquires
  <2>3. PICK z \in Nat : z = LastLen(h.frames[c])
    <3>1. Len(h.frames[c]) \in Nat /\ Len(h.frames[c]) # 0
      BY <1>8, LengthsAre DEF Lengths
    <3>2. Len(h.frames[c]) \in 1 .. Len(h.frames[c])
      BY <3>1
    <3>3. LastLen(h.frames[c]) \in 1 .. MaxFrame
      BY <3>2, LengthsAre DEF LastLen
    <3> QED
      BY <3>3
  <2> QED
    BY <2>1, <2>2, <2>3
<1>10. Sender(s, n, w, L, h, c)
  BY <1>5, <1>6, <1>7, <1>8, <1>9 DEF Sender
<1>11. StillLost(s, m, w, L, h, n, w, L, h, c)
  BY <1>5 DEF StillLost, Lost, Broken, Intact, Acquires
<1>12. NoneBegun(m, h, n, h, c)
  BY DEF NoneBegun, Acquires
<1> QED
  BY <1>4, <1>10, <1>11, <1>12, CarriesOn

\* push_data queues what was held.
Pushes(m, n, c) ==
    /\ m.held[c] # <<>> /\ c \in m.chans
    /\ n.out[c] = Append(m.out[c], DataSeg(c, m.held[c])) /\ n.held[c] = <<>>
    /\ n.todo[c] = m.todo[c] /\ n.chans = m.chans /\ n.send = m.send

\* A segment that is queued behind others.
LEMMA Queueing ==
    ASSUME NEW q \in Seq(Segment), NEW s \in Segment, NEW c
    PROVE  /\ ~IsReset(s, c) => (ResetIn(Append(q, s), c) <=> ResetIn(q, c))
           /\ ~ResetIn(q, c) => \A i, j \in DOMAIN Append(q, s) : i < j => ~IsReset(Append(q, s)[i], c)
           /\ IsReset(s, c) => ResetIn(Append(q, s), c)
<1>1. PICK k \in Nat : k = Len(q)
  OBVIOUS
<1>2. PICK t \in Seq(Segment) : t = Append(q, s)
  <2>1. Append(q, s) \in Seq(Segment)
    OBVIOUS
  <2> QED
    BY <2>1
<1>3. /\ DOMAIN q = 1 .. k /\ DOMAIN t = 1 .. k + 1 /\ t[k + 1] = s
      /\ \A i \in 1 .. k : t[i] = q[i]
  BY <1>1, <1>2
<1>4. \A i \in 1 .. k + 1 : i \in 1 .. k \/ i = k + 1
  BY <1>1
<1>5. ~IsReset(s, c) => (ResetIn(t, c) <=> ResetIn(q, c))
  BY <1>3, <1>4 DEF ResetIn
<1>6. IsReset(s, c) => ResetIn(t, c)
  <2>1. k + 1 \in 1 .. k + 1
    BY <1>1
  <2> QED
    BY <1>3, <2>1 DEF ResetIn
<1>7. ASSUME ~ResetIn(q, c), NEW i \in 1 .. k + 1, NEW j \in 1 .. k + 1, i < j
      PROVE  ~IsReset(t[i], c)
  <2>1. i \in 1 .. k
    BY <1>1, <1>7
  <2> QED
    BY <1>3, <1>7, <2>1 DEF ResetIn
<1> QED
  BY <1>2, <1>3, <1>5, <1>6, <1>7

LEMMA PushMoves ==
    ASSUME NEW s, NEW m, NEW w \in Seq(Segment), NEW L, NEW h, NEW n, NEW c \in Ch,
           Sender(s, m, w, L, h, c), Pushes(m, n, c),
           m.todo[c] \in Strand, m.held[c] \in Strand, m.out[c] \in Seq(Segment)
    PROVE  /\ Sender(s, n, w, L, h, c) /\ NoneBegun(m, h, n, h, c)
           /\ Carries(s, m, w, L, h, n, w, L, h, c)
<1>1. PICK d \in Segment : d = DataSeg(c, m.held[c])
  <2>1. PICK b \in Seq(Byte) : b = m.held[c]
    BY DEF Strand
  <2>2. Len(b) \in Nat
    OBVIOUS
  <2>3. DataSeg(c, b) \in Segment
    BY <2>2 DEF DataSeg, Segment
  <2> QED
    BY <2>1, <2>3
<1>2. ~IsReset(d, c) /\ Body(d, c) = m.held[c]
  BY <1>1 DEF DataSeg, IsReset, Body
<1>3. ~Leaving(s, m, w, L, c)
  BY DEF Sender, Pushes
<1>4. n.out[c] = Append(m.out[c], d) /\ n.held[c] = <<>> /\ n.todo[c] = m.todo[c]
  BY <1>1 DEF Pushes
<1>5. CASE s \in L
  <2>1. Queue(s, m, L, c) = m.out[c] /\ Queue(s, n, L, c) = Append(m.out[c], d)
    BY <1>4, <1>5 DEF Queue
  <2>2. ~ResetIn(m.out[c], c) /\ ~ResetIn(w, c)
    BY <1>3, <2>1 DEF Leaving
  <2>3. ~ResetIn(Append(m.out[c], d), c)
    BY <1>2, <2>2, Queueing
  <2>4. \A i, j \in DOMAIN Append(m.out[c], d) : i < j => ~IsReset(Append(m.out[c], d)[i], c)
    BY <2>2, Queueing
  <2>5. ~Leaving(s, n, w, L, c)
    BY <2>1, <2>2, <2>3 DEF Leaving
  <2>6. ResetEnds(w, Queue(s, n, L, c), c)
    BY <2>1, <2>2, <2>4 DEF Sender, ResetEnds
  <2>7. c \in m.send
    BY <1>5 DEF Sender, Pushes
  <2>8. Sender(s, n, w, L, h, c)
    BY <2>5, <2>6, <2>7 DEF Sender, Pushes
  <2>9. Supply(s, n, w, L, c) = Supply(s, m, w, L, c)
    <3>1. PICK a \in Strand, b \in Strand, x \in Strand :
            a = Bodies(m.out[c], c) /\ b = m.held[c] /\ x = m.todo[c]
      BY BodiesIs
    <3>2. Bodies(Append(m.out[c], d), c) = a \o b
      <4>1. Bodies(Append(m.out[c], d), c) = Bodies(m.out[c], c) \o Body(d, c)
        BY BodiesAppend
      <4> QED
        BY <1>2, <3>1, <4>1
    <3>3. Kept(s, m, L, c) = b \o x /\ Kept(s, n, L, c) = <<>> \o x
      BY <1>4, <1>5, <3>1 DEF Kept, Pushes
    <3>4. <<>> \o x = x /\ (a \o b) \o x = a \o (b \o x)
      BY Glue, Regroup
    <3>5. Bodies(Queue(s, n, L, c), c) \o Kept(s, n, L, c)
            = Bodies(Queue(s, m, L, c), c) \o Kept(s, m, L, c)
      BY <2>1, <3>1, <3>2, <3>3, <3>4
    <3> QED
      BY <3>5 DEF Supply
  <2>10. StillLost(s, m, w, L, h, n, w, L, h, c)
    BY <1>3, <2>5 DEF StillLost, Lost, Broken, Intact, Pushes
  <2>11. NoneBegun(m, h, n, h, c)
    BY DEF NoneBegun, Pushes
  <2> QED
    BY <2>8, <2>9, <2>10, <2>11, CarriesOn
<1>6. CASE s \notin L
  <2>1. Queue(s, m, L, c) = Queue(s, n, L, c) /\ Kept(s, m, L, c) = Kept(s, n, L, c)
    BY <1>6 DEF Queue, Kept
  <2>2. Leaving(s, n, w, L, c) <=> Leaving(s, m, w, L, c)
    BY <2>1 DEF Leaving
  <2>3. Sender(s, n, w, L, h, c)
    BY <1>6, <2>1, <2>2 DEF Sender, Pushes
  <2>4. StillLost(s, m, w, L, h, n, w, L, h, c)
    BY <2>2 DEF StillLost, Lost, Broken, Intact, Pushes
  <2>5. NoneBegun(m, h, n, h, c)
    BY DEF NoneBegun, Pushes
  <2>6. Supply(s, n, w, L, c) = Supply(s, m, w, L, c)
    BY <2>1 DEF Supply
  <2> QED
    BY <2>3, <2>4, <2>5, <2>6, CarriesOn
<1> QED
  BY <1>5, <1>6

\* A send that finds the channel gone forgets what it held.
Forgets(m, n, c) ==
    /\ c \notin m.chans /\ n.chans = m.chans /\ n.send = m.send /\ n.out[c] = m.out[c]
    /\ n.todo[c] = <<>> /\ n.held[c] = <<>>

LEMMA ForgetMoves ==
    ASSUME NEW s, NEW m, NEW w, NEW L, NEW h, NEW n, NEW c,
           Sender(s, m, w, L, h, c), Forgets(m, n, c)
    PROVE  /\ Sender(s, n, w, L, h, c) /\ NoneBegun(m, h, n, h, c)
           /\ Carries(s, m, w, L, h, n, w, L, h, c)
<1>1. Queue(s, m, L, c) = Queue(s, n, L, c) /\ Kept(s, m, L, c) = Kept(s, n, L, c)
  BY DEF Queue, Kept, Forgets
<1>2. Leaving(s, n, w, L, c) <=> Leaving(s, m, w, L, c)
  BY <1>1 DEF Leaving
<1>3. Sender(s, n, w, L, h, c)
  BY <1>1, <1>2 DEF Sender, Forgets
<1>4. StillLost(s, m, w, L, h, n, w, L, h, c)
  BY <1>2 DEF StillLost, Lost, Broken, Intact, Forgets
<1>5. NoneBegun(m, h, n, h, c)
  BY DEF NoneBegun, Forgets
<1>6. Supply(s, n, w, L, c) = Supply(s, m, w, L, c)
  BY <1>1 DEF Supply
<1> QED
  BY <1>3, <1>4, <1>5, <1>6, CarriesOn
LEMMA RegroupFour ==
    ASSUME NEW a \in Strand, NEW b \in Strand, NEW x \in Strand, NEW y \in Strand
    PROVE  SameJoin(a \o (b \o x), y, a \o (b \o <<>>), x \o y)
<1>1. PICK z \in Strand, u \in Strand, v \in Strand : z = x \o y /\ u = b \o x /\ v = a \o b
  BY Glue
<1>2. b \o <<>> = b
  BY Glue
<1>3. a \o u = v \o x
  <2>1. Assoc(a, b, x)
    BY Associates
  <2> QED
    BY <1>1, <2>1 DEF Assoc
<1>4. (v \o x) \o y = v \o z
  <2>1. Assoc(v, x, y)
    BY Associates
  <2> QED
    BY <1>1, <2>1 DEF Assoc
<1>5. v \o z = a \o (b \o z)
  <2>1. Assoc(a, b, z)
    BY Associates
  <2> QED
    BY <1>1, <2>1 DEF Assoc
<1> QED
  BY <1>1, <1>2, <1>3, <1>4, <1>5 DEF SameJoin

LEMMA NotEmpty == \A x, y \in Strand : x \o y = <<>> => x = <<>> /\ y = <<>>
<1>1. ASSUME NEW x \in Strand, NEW y \in Strand, x \o y = <<>> PROVE x = <<>> /\ y = <<>>
  <2>1. PICK a \in Nat, b \in Nat : a = Len(x) /\ b = Len(y)
    BY Glue
  <2>2. a + b = 0
    BY <1>1, <2>1, Glue
  <2>3. a = 0 /\ b = 0
    BY <2>2
  <2> QED
    BY <2>1, <2>3, Glue
<1> QED
  BY <1>1

\* The send half is gone: what is left of its frame is lost.
Forgoes(m, n, h, h2, c) ==
    /\ c \in m.send /\ c \notin n.send /\ n.out[c] = m.out[c] /\ n.chans = m.chans
    /\ m.held[c] = <<>> /\ n.held[c] = <<>> /\ n.todo[c] = <<>>
    /\ h2.frames[c] = h.frames[c]
    /\ c \in h2.givenUp <=> (c \in h.givenUp \/ m.todo[c] # <<>>)

LEMMA ForgoMoves ==
    ASSUME NEW s, NEW m, NEW w, NEW L, NEW h, NEW n, NEW h2, NEW r, NEW g, NEW c,
           Typed(m, w, h, r, g, c), Sender(s, m, w, L, h, c), Forgoes(m, n, h, h2, c)
    PROVE  /\ Sender(s, n, w, L, h2, c) /\ NoneBegun(m, h, n, h2, c)
           /\ Carries(s, m, w, L, h, n, w, L, h2, c)
<1>1. Queue(s, n, L, c) = Queue(s, m, L, c)
  BY DEF Queue, Forgoes
<1>2. ~Leaving(s, m, w, L, c) /\ ~Leaving(s, n, w, L, c) /\ c \notin h.givenUp
  BY <1>1 DEF Leaving, Sender, Forgoes
<1>3. Sender(s, n, w, L, h2, c)
  BY <1>1, <1>2 DEF Sender, Forgoes
<1>4. NoneBegun(m, h, n, h2, c)
  BY DEF NoneBegun, Forgoes
<1>5. PICK a \in Strand, b \in Strand, x \in Strand :
        a = Bodies(w, c) /\ b = Bodies(Queue(s, m, L, c), c) /\ x = m.todo[c]
  BY SupplyIs DEF Typed
<1>6. ASSUME NEW lost \in Strand, Lost(s, m, w, L, h, c, lost)
      PROVE  \E more \in Strand :
               /\ SameJoin(Supply(s, m, w, L, c), lost, Supply(s, n, w, L, c), more)
               /\ Lost(s, n, w, L, h2, c, more)
  <2>1. CASE s \in L /\ c \in m.chans
    <3>1. Kept(s, m, L, c) = x /\ Kept(s, n, L, c) = <<>>
      BY <1>5, <2>1, Glue DEF Kept, Forgoes
    <3>2. /\ (a \o (b \o x)) \o lost = (a \o (b \o <<>>)) \o (x \o lost)
          /\ x \o lost \in Strand
      <4>1. SameJoin(a \o (b \o x), lost, a \o (b \o <<>>), x \o lost)
        BY RegroupFour
      <4> QED
        BY <4>1, Glue DEF SameJoin
    <3>3. SameJoin(Supply(s, m, w, L, c), lost, Supply(s, n, w, L, c), x \o lost)
      BY <1>1, <1>5, <3>1, <3>2 DEF SameJoin, Supply
    <3>4. lost = <<>> /\ x \o lost = x
      BY <1>2, <1>6, <2>1, Glue DEF Lost, Intact
    <3>5. x # <<>> => Len(x) <= LastLen(h2.frames[c])
      BY <1>5 DEF Sender, Forgoes, LastLen
    <3>6. Lost(s, n, w, L, h2, c, x \o lost)
      BY <1>2, <1>5, <2>1, <3>4, <3>5 DEF Lost, Broken, Forgoes
    <3> QED
      BY <3>2, <3>3, <3>6
  <2>2. CASE ~(s \in L /\ c \in m.chans)
    <3>1. Kept(s, m, L, c) = <<>> /\ Kept(s, n, L, c) = <<>>
      BY <2>2 DEF Kept, Forgoes
    <3>2. Supply(s, n, w, L, c) = Supply(s, m, w, L, c)
      BY <1>1, <3>1 DEF Supply
    <3>3. Lost(s, n, w, L, h2, c, lost)
      BY <1>2, <1>6, <2>2 DEF Lost, Broken, Intact, Forgoes
    <3> QED
      BY <1>6, <3>2, <3>3 DEF SameJoin
  <2> QED
    BY <2>1, <2>2
<1>7. Carries(s, m, w, L, h, n, w, L, h2, c)
  BY <1>6 DEF Carries
<1> QED
  BY <1>3, <1>4, <1>7

\* The channel closes behind everything that was queued on it.
Closes(m, n, c) ==
    /\ c \in m.chans /\ c \notin m.send /\ c \notin n.chans /\ n.send = m.send
    /\ n.out[c] = Append(m.out[c], ResetSeg(c))
    /\ n.todo[c] = m.todo[c] /\ n.held[c] = m.held[c]

LEMMA CloseMoves ==
    ASSUME NEW s, NEW m, NEW w, NEW L, NEW h, NEW n, NEW r, NEW g, NEW c \in Ch,
           Typed(m, w, h, r, g, c), Sender(s, m, w, L, h, c), Closes(m, n, c)
    PROVE  /\ Sender(s, n, w, L, h, c) /\ NoneBegun(m, h, n, h, c)
           /\ Carries(s, m, w, L, h, n, w, L, h, c)
<1>1. PICK d \in Segment : d = ResetSeg(c)
  <2>1. <<>> \in Seq(Byte) /\ 0 \in Nat
    OBVIOUS
  <2>2. ResetSeg(c) \in Segment
    BY <2>1 DEF ResetSeg, Segment
  <2> QED
    BY <2>2
<1>2. IsReset(d, c) /\ Body(d, c) = <<>>
  BY <1>1 DEF ResetSeg, IsReset, Body
<1>3. ~Leaving(s, m, w, L, c)
  BY DEF Sender, Closes
<1>4. m.out[c] \in Seq(Segment)
  BY DEF Typed
<1>5. Kept(s, m, L, c) = <<>> /\ Kept(s, n, L, c) = <<>>
  BY Glue DEF Kept, Sender, Closes
<1>6. Bodies(Queue(s, n, L, c), c) = Bodies(Queue(s, m, L, c), c)
  <2>1. CASE s \in L
    <3>1. Bodies(Append(m.out[c], d), c) = Bodies(m.out[c], c) \o Body(d, c)
      BY <1>4, BodiesAppend
    <3>2. Bodies(m.out[c], c) \o <<>> = Bodies(m.out[c], c)
      BY <1>4, BodiesIs, Glue
    <3> QED
      BY <1>1, <1>2, <2>1, <3>1, <3>2 DEF Queue, Closes
  <2>2. CASE s \notin L
    BY <2>2 DEF Queue
  <2> QED
    BY <2>1, <2>2
<1>7. Supply(s, n, w, L, c) = Supply(s, m, w, L, c)
  BY <1>5, <1>6 DEF Supply
<1>8. ResetEnds(w, Queue(s, n, L, c), c) /\ (s \notin L => ~Leaving(s, n, w, L, c))
  <2>1. CASE s \in L
    <3>1. ~ResetIn(m.out[c], c) /\ ~ResetIn(w, c)
      BY <1>3, <2>1 DEF Leaving, Queue
    <3>2. \A i, j \in DOMAIN Append(m.out[c], d) : i < j => ~IsReset(Append(m.out[c], d)[i], c)
      BY <1>4, <3>1, Queueing
    <3> QED
      BY <1>1, <2>1, <3>1, <3>2 DEF ResetEnds, ResetIn, Queue, Closes
  <2>2. CASE s \notin L
    <3>1. Queue(s, n, L, c) = Queue(s, m, L, c)
      BY <2>2 DEF Queue
    <3> QED
      BY <1>3, <3>1 DEF Sender, Leaving
  <2> QED
    BY <2>1, <2>2
<1>9. Sender(s, n, w, L, h, c)
  BY <1>8 DEF Sender, Closes
<1>10. StillLost(s, m, w, L, h, n, w, L, h, c)
  BY <1>8 DEF StillLost, Lost, Broken, Intact, Sender, Closes
<1>11. NoneBegun(m, h, n, h, c)
  BY DEF NoneBegun, Closes
<1> QED
  BY <1>7, <1>9, <1>10, <1>11, CarriesOn

\* The end of the wire, the queue and what the sender keeps are lost.
Cuts(s, m, n, h, h2, L, L2, c) ==
    /\ s \in L2 => s \in L /\ n.out[c] = <<>> /\ c \notin n.chans
    /\ n.todo[c] = m.todo[c]
    /\ (c \in n.send => c \in m.send) /\ (c \in n.chans => c \in m.chans)
    /\ SameBook(h, h2, c)

LEMMA CutMoves ==
    ASSUME NEW s, NEW m, NEW w, NEW L, NEW h, NEW r, NEW g, NEW c,
           NEW n, NEW v \in Seq(Segment), NEW x \in Seq(Segment), NEW L2, NEW h2,
           Typed(m, w, h, r, g, c), Sender(s, m, w, L, h, c),
           w = v \o x, Cuts(s, m, n, h, h2, L, L2, c)
    PROVE  /\ Sender(s, n, v, L2, h2, c) /\ NoneBegun(m, h, n, h2, c)
           /\ Carries(s, m, w, L, h, n, v, L2, h2, c)
<1>1. Queue(s, n, L2, c) = <<>> /\ Kept(s, n, L2, c) = <<>> /\ ~(s \in L2 /\ c \in n.chans)
  BY DEF Queue, Kept, Cuts
<1>2. PICK k \in Nat, l \in Nat : /\ DOMAIN v = 1 .. k /\ DOMAIN x = 1 .. l /\ DOMAIN w = 1 .. k + l
                   /\ \A i \in 1 .. k + l : w[i] = IF i <= k THEN v[i] ELSE x[i - k]
  <2>1. PICK k \in Nat, l \in Nat : k = Len(v) /\ l = Len(x)
    OBVIOUS
  <2>2. v \o x \in Seq(Segment)
    BY ConcatProperties
  <2>3. /\ Len(v \o x) = Len(v) + Len(x)
        /\ \A i \in 1 .. Len(v) + Len(x) : (v \o x)[i] = IF i <= Len(v) THEN v[i] ELSE x[i - Len(v)]
    BY ConcatProperties
  <2>4. DOMAIN v = 1 .. k /\ DOMAIN x = 1 .. l /\ DOMAIN (v \o x) = 1 .. k + l
    BY <2>1, <2>2, <2>3
  <2> QED
    BY <2>1, <2>3, <2>4
<1>3. \A i \in DOMAIN v : i \in DOMAIN w /\ v[i] = w[i]
  BY <1>2
<1>4. ResetIn(v, c) => ResetIn(w, c)
  BY <1>3 DEF ResetIn
<1>5. ResetEnds(v, Queue(s, n, L2, c), c)
  BY <1>1, <1>3, SMTT(20) DEF ResetEnds, Sender
<1>6. Leaving(s, n, v, L2, c) => ResetIn(v, c) /\ Leaving(s, m, w, L, c)
  BY <1>1, <1>4 DEF Leaving, ResetIn
<1>7. Sender(s, n, v, L2, h2, c)
  <2>1. Leaving(s, n, v, L2, c) => c \notin n.chans /\ c \notin n.send
    BY <1>6 DEF Sender, Cuts
  <2> QED
    BY <1>1, <1>5, <2>1 DEF Sender, Cuts, SameBook
<1>8. NoneBegun(m, h, n, h2, c)
  BY DEF NoneBegun, Cuts, SameBook
<1>9. PICK a \in Strand, y \in Strand, b \in Strand, z \in Strand :
        /\ a = Bodies(v, c) /\ y = Bodies(x, c) /\ b = Bodies(Queue(s, m, L, c), c)
        /\ z = Kept(s, m, L, c)
  BY SupplyIs, BodiesIs
<1>10. Bodies(w, c) = a \o y
  BY <1>9, BodiesConcat
<1>11. ASSUME NEW lost \in Strand, Lost(s, m, w, L, h, c, lost)
       PROVE  \E more \in Strand :
                /\ SameJoin(Supply(s, m, w, L, c), lost, Supply(s, n, v, L2, c), more)
                /\ Lost(s, n, v, L2, h2, c, more)
  <2>1. PICK u \in Strand : u = b \o z
    BY Glue
  <2>2. PICK t \in Strand, more \in Strand : t = y \o u /\ more = t \o lost
    <3>1. \A p, q \in Strand : p \o q \in Strand
      BY Glue
    <3> QED
      BY <3>1
  <2>3. (a \o y) \o u = a \o t
    <3>1. Assoc(a, y, u)
      BY Associates
    <3> QED
      BY <2>2, <3>1 DEF Assoc
  <2>4. (a \o t) \o lost = a \o more
    <3>1. Assoc(a, t, lost)
      BY Associates
    <3> QED
      BY <2>2, <3>1 DEF Assoc
  <2>5. Supply(s, m, w, L, c) = (a \o y) \o u /\ Supply(s, n, v, L2, c) = a
    <3>1. Bodies(<<>>, c) = <<>> /\ <<>> \o <<>> = <<>> /\ a \o <<>> = a
      BY BodiesEmpty, Glue
    <3> QED
      BY <1>1, <1>9, <1>10, <2>1, <3>1 DEF Supply
  <2>6. SameJoin(Supply(s, m, w, L, c), lost, Supply(s, n, v, L2, c), more)
    BY <2>3, <2>4, <2>5 DEF SameJoin
  <2>7. Broken(s, n, L2, h2, c) => more # <<>>
    <3>1. lost # <<>> => more # <<>>
      BY <2>2, NotEmpty
    <3>2. CASE ~(s \in L /\ c \in m.chans) \/ c \in h.givenUp
      BY <3>1, <1>11, <3>2 DEF Broken, Cuts, SameBook, Lost
    <3>3. CASE s \in L /\ c \in m.chans /\ m.todo[c] # <<>>
      <4>1. PICK i \in Strand, j \in Strand : i = m.held[c] /\ j = m.todo[c] /\ z = i \o j
        BY <1>9, <3>3 DEF Kept, Typed
      <4>2. z # <<>>
        BY <3>3, <4>1, NotEmpty
      <4>3. u # <<>>
        BY <2>1, <4>2, NotEmpty
      <4>4. t # <<>>
        BY <2>2, <4>3, NotEmpty
      <4> QED
        BY <2>2, <4>4, NotEmpty
    <3>4. CASE s \in L /\ c \in m.chans /\ m.todo[c] = <<>> /\ c \notin h.givenUp
      BY <3>4 DEF Broken, Cuts, SameBook
    <3> QED
      BY <3>2, <3>3, <3>4
  <2>8. Intact(s, n, v, L2, c) => more = lost /\ Intact(s, m, w, L, c)
    <3>1. ASSUME Intact(s, n, v, L2, c) PROVE more = lost /\ Intact(s, m, w, L, c)
      <4>1. ResetIn(v, c) /\ Leaving(s, m, w, L, c)
        BY <1>1, <1>6, <3>1 DEF Intact
      <4>2. Queue(s, m, L, c) = <<>> /\ Kept(s, m, L, c) = <<>>
        BY <1>4, <4>1 DEF Sender, ResetEnds, Kept
      <4>3. b = <<>> /\ z = <<>>
        BY <1>9, <4>2, BodiesEmpty
      <4>4. y = <<>>
        <5>1. PICK i \in 1 .. k : IsReset(w[i], c)
          BY <1>2, <1>3, <4>1 DEF ResetIn
        <5>2. ASSUME NEW j \in DOMAIN x PROVE ~Moving(x[j], c)
          <6>1. k + j \in 1 .. k + l /\ i \in 1 .. k + l /\ i < k + j /\ ~(k + j <= k) /\ (k + j) - k = j
            BY <1>2
          <6>2. w[k + j] = x[j]
            BY <1>2, <6>1
          <6>3. ~Moving(w[k + j], c)
            BY <1>2, <5>1, <6>1 DEF Sender, ResetEnds
          <6> QED
            BY <6>2, <6>3
        <5> QED
          BY <1>9, <5>2, BodiesNone
      <4>5. more = lost
        <5>1. <<>> \o <<>> = <<>> /\ <<>> \o lost = lost
          BY Glue
        <5> QED
          BY <2>1, <2>2, <4>3, <4>4, <5>1
      <4> QED
        BY <4>1, <4>5 DEF Intact
    <3> QED
      BY <3>1
  <2>9. Lost(s, n, v, L2, h2, c, more)
    BY <1>11, <2>7, <2>8 DEF Lost, Cuts, SameBook, LastLen
  <2> QED
    BY <2>6, <2>9
<1>12. Carries(s, m, w, L, h, n, v, L2, h2, c)
  BY <1>11 DEF Carries
<1> QED
  BY <1>7, <1>8, <1>12
\* The writer takes a segment: the next of this channel, or another's.
Writing(m, n, d, c) ==
    /\ n.chans = m.chans /\ n.send = m.send /\ n.todo = m.todo /\ n.held = m.held
    /\ \/ ~Moving(d, c) /\ n.out[c] = m.out[c]
       \/ m.out[c] # <<>> /\ d = Head(m.out[c]) /\ n.out[c] = Tail(m.out[c])

LEMMA TailResets ==
    ASSUME NEW q \in Seq(Segment), q # <<>>, NEW c
    PROVE  /\ ResetIn(q, c) <=> IsReset(Head(q), c) \/ ResetIn(Tail(q), c)
           /\ (\A i, j \in DOMAIN q : i < j => ~IsReset(q[i], c)) =>
                /\ \A i, j \in DOMAIN Tail(q) : i < j => ~IsReset(Tail(q)[i], c)
                /\ IsReset(Head(q), c) => Tail(q) = <<>>
<1>1. PICK t \in Seq(Segment), k \in Nat :
        /\ t = Tail(q) /\ DOMAIN t = 1 .. k /\ DOMAIN q = 1 .. k + 1 /\ Head(q) = q[1]
        /\ \A i \in 1 .. k : t[i] = q[i + 1]
  <2>1. /\ Tail(q) \in Seq(Segment) /\ Len(Tail(q)) = Len(q) - 1
        /\ \A i \in 1 .. Len(Tail(q)) : Tail(q)[i] = q[i + 1]
    BY HeadTailProperties
  <2>2. PICK a \in Nat, k \in Nat : a = Len(q) /\ k = Len(Tail(q))
    <3>1. Len(q) \in Nat
      OBVIOUS
    <3>2. Len(Tail(q)) \in Nat
      BY <2>1
    <3> QED
      BY <3>1, <3>2
  <2>3. a = k + 1
    BY <2>1, <2>2
  <2>4. Head(q) = q[1] /\ DOMAIN q = 1 .. Len(q) /\ DOMAIN Tail(q) = 1 .. Len(Tail(q))
    BY <2>1
  <2> QED
    BY <2>1, <2>2, <2>3, <2>4
<1>2. /\ 1 \in 1 .. k + 1 /\ \A i \in 1 .. k : i + 1 \in 1 .. k + 1
      /\ \A j \in 1 .. k + 1 : j = 1 \/ \E i \in 1 .. k : j = i + 1
  <2>1. \A j \in 1 .. k + 1 : j = 1 \/ (j - 1 \in 1 .. k /\ j = (j - 1) + 1)
    BY <1>1
  <2> QED
    BY <1>1, <2>1
<1>3. ResetIn(q, c) <=> IsReset(q[1], c) \/ ResetIn(t, c)
  <2>1. ASSUME ResetIn(q, c) PROVE IsReset(q[1], c) \/ ResetIn(t, c)
    <3>1. PICK j \in 1 .. k + 1 : IsReset(q[j], c)
      BY <1>1, <2>1 DEF ResetIn
    <3>2. CASE j = 1
      BY <3>1, <3>2
    <3>3. ASSUME NEW i \in 1 .. k, j = i + 1 PROVE ResetIn(t, c)
      BY <1>1, <3>1, <3>3 DEF ResetIn
    <3> QED
      BY <1>2, <3>2, <3>3
  <2>2. ASSUME ResetIn(t, c) PROVE ResetIn(q, c)
    <3>1. PICK i \in 1 .. k : IsReset(t[i], c)
      BY <1>1, <2>2 DEF ResetIn
    <3> QED
      BY <1>1, <1>2, <3>1 DEF ResetIn
  <2>3. IsReset(q[1], c) => ResetIn(q, c)
    BY <1>1, <1>2 DEF ResetIn
  <2> QED
    BY <2>1, <2>2, <2>3
<1>4. ASSUME \A i, j \in DOMAIN q : i < j => ~IsReset(q[i], c)
      PROVE  /\ \A i, j \in DOMAIN t : i < j => ~IsReset(t[i], c)
             /\ IsReset(q[1], c) => t = <<>>
  <2>1. ASSUME NEW i \in DOMAIN t, NEW j \in DOMAIN t, i < j PROVE ~IsReset(t[i], c)
    <3>1. i + 1 \in DOMAIN q /\ j + 1 \in DOMAIN q /\ i + 1 < j + 1 /\ t[i] = q[i + 1]
      BY <1>1, <2>1
    <3> QED
      BY <1>4, <3>1
  <2>2. ASSUME IsReset(q[1], c) PROVE t = <<>>
    <3>1. ~(2 \in DOMAIN q)
      BY <1>1, <1>2, <1>4, <2>2
    <3>2. k = 0
      BY <1>1, <3>1
    <3> QED
      BY <1>1, <3>2
  <2> QED
    BY <2>1, <2>2
<1> QED
  BY <1>1, <1>3, <1>4

LEMMA WriteMoves ==
    ASSUME NEW s, NEW m, NEW w, NEW L, NEW h, NEW n, NEW r, NEW g, NEW c, NEW d \in Segment,
           Typed(m, w, h, r, g, c), s \in L, Sender(s, m, w, L, h, c), Writing(m, n, d, c)
    PROVE  /\ Sender(s, n, Append(w, d), L, h, c) /\ NoneBegun(m, h, n, h, c)
           /\ Carries(s, m, w, L, h, n, Append(w, d), L, h, c)
<1>1. PICK v \in Seq(Segment), k \in Nat :
        /\ v = Append(w, d) /\ DOMAIN w = 1 .. k /\ DOMAIN v = 1 .. k + 1 /\ v[k + 1] = d
        /\ \A i \in 1 .. k : v[i] = w[i]
  <2>1. w \in Seq(Segment)
    BY DEF Typed
  <2>2. /\ Append(w, d) \in Seq(Segment) /\ Append(w, d)[Len(w) + 1] = d
        /\ DOMAIN w = 1 .. Len(w) /\ DOMAIN Append(w, d) = 1 .. Len(w) + 1
    BY <2>1
  <2>3. \A i \in 1 .. Len(w) : Append(w, d)[i] = w[i]
    BY <2>1
  <2>4. PICK k \in Nat : k = Len(w)
    BY <2>1
  <2> QED
    BY <2>2, <2>3, <2>4
<1>2. \A i \in 1 .. k + 1 : i \in 1 .. k \/ i = k + 1
  BY <1>1
<1>3. PICK q \in Seq(Segment), t \in Seq(Segment) :
        q = m.out[c] /\ t = n.out[c] /\ Queue(s, m, L, c) = q /\ Queue(s, n, L, c) = t
  <2>1. m.out[c] \in Seq(Segment)
    BY DEF Typed
  <2>2. m.out[c] # <<>> => Tail(m.out[c]) \in Seq(Segment)
    BY <2>1, TailIs
  <2>3. n.out[c] \in Seq(Segment)
    BY <2>1, <2>2 DEF Writing
  <2> QED
    BY <2>1, <2>3 DEF Queue
<1>4. /\ \A i, j \in DOMAIN q : i < j => ~IsReset(q[i], c)
      /\ \A i, j \in DOMAIN w : i < j /\ IsReset(w[i], c) => ~Moving(w[j], c)
      /\ ResetIn(w, c) => q = <<>>
  BY <1>3 DEF Sender, ResetEnds
<1>5. ResetIn(v, c) <=> ResetIn(w, c) \/ IsReset(d, c)
  <2>1. k + 1 \in 1 .. k + 1 /\ \A i \in 1 .. k : i \in 1 .. k + 1
    BY <1>1
  <2> QED
    BY <1>1, <1>2, <2>1 DEF ResetIn
<1>6. PICK b \in Strand, a \in Strand, x \in Strand, y \in Strand, z \in Strand :
        /\ b = Body(d, c) /\ a = Bodies(w, c) /\ x = Bodies(q, c) /\ y = Bodies(t, c)
        /\ z = Kept(s, m, L, c) /\ z = Kept(s, n, L, c) /\ Bodies(v, c) = a \o b
  <2>1. Body(d, c) \in Strand
    BY BodyIs
  <2>2. Bodies(w, c) \in Strand /\ Bodies(Append(w, d), c) = Bodies(w, c) \o Body(d, c)
    BY BodiesAppend, BodiesIs DEF Typed
  <2>3. Kept(s, m, L, c) \in Strand
    BY SupplyIs
  <2>4. Kept(s, n, L, c) = Kept(s, m, L, c)
    BY DEF Kept, Writing
  <2>5. Bodies(q, c) \in Strand /\ Bodies(t, c) \in Strand
    BY BodiesIs
  <2> QED
    BY <1>1, <2>1, <2>2, <2>3, <2>4, <2>5
<1>7. x = b \o y /\ (ResetIn(q, c) \/ ResetIn(w, c) <=> ResetIn(t, c) \/ ResetIn(v, c))
      /\ ResetEnds(v, t, c)
  <2>1. CASE ~Moving(d, c) /\ n.out[c] = m.out[c]
    <3>1. b = <<>> /\ ~IsReset(d, c)
      BY <1>6, <2>1, BodyIs DEF Moving, IsReset
    <3>2. x = b \o y
      BY <1>3, <1>6, <2>1, <3>1, Glue
    <3>3. \A i, j \in DOMAIN v : i < j /\ IsReset(v[i], c) => ~Moving(v[j], c)
      <4>1. ASSUME NEW i \in 1 .. k + 1, NEW j \in 1 .. k + 1, i < j, IsReset(v[i], c)
            PROVE  ~Moving(v[j], c)
        <5>1. i \in 1 .. k
          BY <1>1, <4>1
        <5> QED
          BY <1>1, <1>2, <1>4, <2>1, <4>1, <5>1
      <4> QED
        BY <1>1, <4>1
    <3> QED
      BY <1>3, <1>4, <1>5, <2>1, <3>1, <3>2, <3>3 DEF ResetEnds
  <2>2. CASE m.out[c] # <<>> /\ d = Head(m.out[c]) /\ n.out[c] = Tail(m.out[c])
    <3>1. q # <<>> /\ d = Head(q) /\ t = Tail(q)
      BY <1>3, <2>2
    <3>2. x = b \o y
      BY <1>6, <3>1, BodiesHead
    <3>3. ~ResetIn(w, c)
      BY <1>4, <3>1
    <3>4. ResetIn(q, c) <=> IsReset(d, c) \/ ResetIn(t, c)
      BY <3>1, TailResets
    <3>5. (\A i, j \in DOMAIN t : i < j => ~IsReset(t[i], c)) /\ (IsReset(d, c) => t = <<>>)
      BY <1>4, <3>1, TailResets
    <3>6. \A i, j \in DOMAIN v : i < j /\ IsReset(v[i], c) => ~Moving(v[j], c)
      <4>1. ASSUME NEW i \in 1 .. k + 1, NEW j \in 1 .. k + 1, i < j, IsReset(v[i], c)
            PROVE  FALSE
        <5>1. i \in 1 .. k
          BY <1>1, <4>1
        <5> QED
          BY <1>1, <3>3, <4>1, <5>1 DEF ResetIn
      <4> QED
        BY <1>1, <4>1
    <3>7. ResetEnds(v, t, c)
      BY <1>5, <3>3, <3>5, <3>6 DEF ResetEnds
    <3> QED
      BY <1>5, <3>2, <3>3, <3>4, <3>7
  <2> QED
    BY <2>1, <2>2 DEF Writing
<1>8. Leaving(s, n, v, L, c) <=> Leaving(s, m, w, L, c)
  BY <1>3, <1>7 DEF Leaving
<1>9. Supply(s, n, v, L, c) = Supply(s, m, w, L, c)
  <2>1. PICK p \in Strand : p = y \o z
    BY Glue
  <2>2. Assoc(a, b, p)
    BY Associates
  <2>3. Assoc(b, y, z)
    BY Associates
  <2>4. Supply(s, n, v, L, c) = (a \o b) \o p
    BY <1>3, <1>6, <2>1 DEF Supply
  <2>5. Supply(s, m, w, L, c) = a \o ((b \o y) \o z)
    BY <1>3, <1>6, <1>7 DEF Supply
  <2> QED
    BY <2>1, <2>2, <2>3, <2>4, <2>5 DEF Assoc
<1>10. Sender(s, n, v, L, h, c)
  BY <1>3, <1>7, <1>8 DEF Sender, Writing
<1>11. StillLost(s, m, w, L, h, n, v, L, h, c)
  BY <1>8 DEF StillLost, Lost, Broken, Intact, Writing
<1>12. NoneBegun(m, h, n, h, c)
  BY DEF NoneBegun, Writing
<1> QED
  BY <1>1, <1>9, <1>10, <1>11, <1>12, CarriesOn

\* A frame is begun.
Begins(m, n, h, h2, len, c) ==
    /\ c \in m.send /\ m.todo[c] = <<>> /\ m.held[c] = <<>> /\ n.held[c] = <<>>
    /\ n.todo[c] = Bytes(Len(h.frames[c]) + 1, len)
    /\ n.out[c] = m.out[c] /\ n.chans = m.chans /\ n.send = m.send
    /\ h2.frames[c] = Append(h.frames[c], len) /\ (c \in h2.givenUp <=> c \in h.givenUp)

LEMMA BeginMoves ==
    ASSUME NEW s, NEW m, NEW w, NEW L, NEW h, NEW r, NEW g, NEW H, NEW N, NEW c,
           NEW n, NEW h2, NEW H2, NEW N2, NEW len \in 1 .. MaxFrame,
           Typed(m, w, h, r, g, c), Stream(s, m, w, L, h, r, g, H, N, c),
           Begins(m, n, h, h2, len, c), H2 \subseteq H, N2 \subseteq N, c \notin N2
    PROVE  Stream(s, n, w, L, h2, r, g, H2, N2, c)
<1>1. PICK F \in Lengths, F2 \in Lengths : F = h.frames[c] /\ F2 = Append(F, len) /\ F2 = h2.frames[c]
  <2>1. h.frames[c] \in Lengths
    BY DEF Typed
  <2>2. Append(h.frames[c], len) \in Lengths
    BY <2>1 DEF Lengths, Length
  <2> QED
    BY <2>1, <2>2 DEF Begins
<1>2. PICK k \in Nat, f \in Nat : k = Len(Decoded(r, g, c)) /\ f = Len(F) /\ k \in 0 .. Len(F)
  <2>1. Len(Decoded(r, g, c)) \in 0 .. Len(F)
    BY <1>1, OrderedIs DEF Stream
  <2> QED
    BY <2>1, LengthsAre
<1>3. /\ Len(F2) = f + 1 /\ F2[f + 1] = len /\ \A i \in 1 .. f : F2[i] = F[i]
      /\ Rest(F2, k) = Rest(F, k) \o Bytes(f + 1, len)
  <2>1. /\ Len(Append(F, len)) = Len(F) + 1 /\ Append(F, len)[Len(F) + 1] = len
        /\ \A i \in 1 .. Len(F) : Append(F, len)[i] = F[i]
        /\ Rest(Append(F, len), k) = Rest(F, k) \o Bytes(Len(F) + 1, len)
    BY <1>2, RestAppend
  <2> QED
    BY <1>1, <1>2, <2>1
<1>4. PICK b \in Strand : b = Bytes(f + 1, len) /\ Len(b) = len /\ b # <<>> /\ n.todo[c] = b
  <2>1. f + 1 \in Nat
    BY <1>2
  <2>2. Bytes(f + 1, len) \in Strand /\ Len(Bytes(f + 1, len)) = len /\ len # 0
    BY <2>1, BytesAre
  <2> QED
    BY <1>1, <1>2, <2>2, Glue DEF Begins
<1>5. LastLen(F2) = len /\ F2 # <<>>
  BY <1>2, <1>3 DEF LastLen
<1>6. Queue(s, n, L, c) = Queue(s, m, L, c)
  BY DEF Queue, Begins
<1>7. ~Leaving(s, m, w, L, c) /\ ~Leaving(s, n, w, L, c) /\ c \notin h2.givenUp /\ c \notin h.givenUp
  BY <1>6 DEF Leaving, Stream, Sender, Begins
<1>8. Sender(s, n, w, L, h2, c)
  <2>1. Len(n.todo[c]) <= LastLen(h2.frames[c])
    BY <1>1, <1>4, <1>5, BytesAre
  <2> QED
    BY <1>1, <1>5, <1>6, <1>7, <2>1 DEF Stream, Sender, Begins
<1>9. Ordered(n, h2, r, g, c)
  <2>1. k <= f + 1 /\ k < f + 1 /\ 0 + k <= f /\ 0 + k = k
    BY <1>2
  <2>2. \A i \in 1 .. k : 0 + i \in 1 .. f /\ 0 + i = i
    BY <1>2
  <2>3. \A i \in 1 .. k : Decoded(r, g, c)[i] = Bytes(0 + i, F[0 + i])
    BY <1>1, <1>2 DEF Stream, Ordered, NextOf
  <2>4. \A i \in 1 .. k : Decoded(r, g, c)[i] = Bytes(0 + i, F2[0 + i])
    BY <1>3, <2>2, <2>3
  <2> QED
    BY <1>1, <1>2, <1>3, <2>1, <2>4 DEF Ordered, NextOf
<1>10. Listening(r, H2, c) => Lined(s, n, w, L, h2, r, g, c)
  <2>1. Listening(r, H2, c) => Listening(r, H, c)
    BY DEF Listening
  <2>2. ASSUME Lined(s, m, w, L, h, r, g, c) PROVE Lined(s, n, w, L, h2, r, g, c)
    <3>1. PICK lost \in Strand :
            Leads(r.asm[c], Supply(s, m, w, L, c) \o lost, F, k) /\ Lost(s, m, w, L, h, c, lost)
      BY <1>1, <1>2, <2>2 DEF Lined
    <3>2. PICK a \in Strand, x \in Strand, y \in Strand, z \in Strand :
            /\ a = r.asm[c] /\ x = Bodies(w, c) /\ y = Bodies(Queue(s, m, L, c), c)
            /\ z = Supply(s, m, w, L, c)
      BY SupplyIs DEF Typed
    <3>3. PICK p \in Strand : p = z \o lost
      BY Glue
    <3>4. a \o p = Rest(F, k) /\ Rest(F2, k) = (a \o p) \o b
      BY <1>3, <1>4, <3>1, <3>2, <3>3 DEF Leads
    <3>5. Assoc(a, p, b)
      BY Associates
    <3>6. Rest(F2, k) = a \o (p \o b)
      BY <3>4, <3>5 DEF Assoc
    <3>7. \E more \in Strand : p \o b = Supply(s, n, w, L, c) \o more /\ Lost(s, n, w, L, h2, c, more)
      <4>1. CASE s \in L /\ c \in m.chans
        <5>1. lost = <<>>
          BY <1>7, <3>1, <4>1 DEF Lost, Intact
        <5>2. Kept(s, m, L, c) = <<>> /\ Kept(s, n, L, c) = b
          BY <1>4, <4>1, Glue DEF Kept, Begins
        <5>3. z = x \o (y \o <<>>) /\ Supply(s, n, w, L, c) = x \o (y \o b)
          BY <1>6, <3>2, <5>2 DEF Supply
        <5>4. p = z /\ y \o <<>> = y /\ x \o y \in Strand
          BY <3>3, <5>1, Glue
        <5>5. Assoc(x, y, b)
          BY Associates
        <5>6. p \o b = Supply(s, n, w, L, c)
          BY <5>3, <5>4, <5>5 DEF Assoc
        <5>7. Supply(s, n, w, L, c) \o <<>> = Supply(s, n, w, L, c) /\ <<>> \in Strand
          <6>1. p \o b \in Strand
            BY Glue
          <6> QED
            BY <5>6, <6>1, Glue
        <5>8. Lost(s, n, w, L, h2, c, <<>>)
          BY <1>7, <4>1 DEF Lost, Broken, Begins
        <5> QED
          BY <5>6, <5>7, <5>8
      <4>2. CASE ~(s \in L /\ c \in m.chans)
        <5>1. Kept(s, m, L, c) = <<>> /\ Kept(s, n, L, c) = <<>>
          BY <4>2 DEF Kept, Begins
        <5>2. Supply(s, n, w, L, c) = z
          BY <1>6, <3>2, <5>1 DEF Supply
        <5>3. PICK more \in Strand : more = lost \o b
          BY Glue
        <5>4. more # <<>>
          BY <1>4, <5>3, NotEmpty
        <5>5. Assoc(z, lost, b)
          BY Associates
        <5>6. p \o b = Supply(s, n, w, L, c) \o more
          BY <3>3, <5>2, <5>3, <5>5 DEF Assoc
        <5>7. Lost(s, n, w, L, h2, c, more)
          BY <1>7, <4>2, <5>4 DEF Lost, Intact, Begins
        <5> QED
          BY <5>6, <5>7
      <4> QED
        BY <4>1, <4>2
    <3> QED
      BY <1>1, <1>2, <2>2, <3>2, <3>6, <3>7 DEF Lined, Leads
  <2> QED
    BY <2>1, <2>2 DEF Stream
<1>11. ~Complete(m, h, r, g, H, N, c)
  BY DEF Complete, Begins
<1> QED
  BY <1>8, <1>9, <1>10, <1>11 DEF Stream
-----------------------------------------------------------------------------
(* A channel on which nothing was sent, and the steps of the receiver. *)

Fresh(m, w, h, r, g, H, c) ==
    /\ h.frames[c] = <<>> /\ m.todo[c] = <<>> /\ m.held[c] = <<>> /\ c \notin h.givenUp
    /\ m.out[c] = <<>> \/ m.out[c] = <<OpenSeg(c)>>
    /\ \A i \in DOMAIN w : ~Moving(w[i], c)
    /\ r.rx[c] = <<>> /\ g.got[c] = <<>> /\ (Listening(r, H, c) => r.asm[c] = <<>>)
    /\ ~WasReset(r, g, c) /\ ~WasTold(g, c)

LEMMA FreshStream ==
    ASSUME NEW s, NEW m, NEW w, NEW L, NEW h, NEW r, NEW g, NEW H, NEW N, NEW c \in Ch,
           Typed(m, w, h, r, g, c), Fresh(m, w, h, r, g, H, c)
    PROVE  Stream(s, m, w, L, h, r, g, H, N, c)
<1>1. /\ h.frames[c] = <<>> /\ m.todo[c] = <<>> /\ m.held[c] = <<>> /\ c \notin h.givenUp
      /\ r.rx[c] = <<>> /\ g.got[c] = <<>> /\ (Listening(r, H, c) => r.asm[c] = <<>>)
      /\ ~WasReset(r, g, c) /\ ~WasTold(g, c)
  BY DEF Fresh
<1>2. \A i \in DOMAIN w : ~Moving(w[i], c)
  BY DEF Fresh
<1>3. \A i \in DOMAIN m.out[c] : m.out[c][i] = OpenSeg(c)
  BY DEF Fresh
<1>4. \A i \in DOMAIN m.out[c] : ~IsReset(m.out[c][i], c)
  BY <1>3 DEF OpenSeg, IsReset
<1>5. \A i \in DOMAIN w : ~IsReset(w[i], c)
  BY <1>2 DEF Moving, IsReset
<1>6. \A i \in DOMAIN Queue(s, m, L, c) : ~IsReset(Queue(s, m, L, c)[i], c)
  BY <1>4 DEF Queue
<1>7. ~Leaving(s, m, w, L, c) /\ ResetEnds(w, Queue(s, m, L, c), c)
  BY <1>5, <1>6 DEF Leaving, ResetEnds, ResetIn
<1>8. Sender(s, m, w, L, h, c)
  BY <1>1, <1>7 DEF Sender
<1>9. Bodies(m.out[c], c) = <<>> /\ Bodies(<<>>, c) = <<>>
  <2>1. CASE m.out[c] = <<>>
    BY <2>1, BodiesEmpty
  <2>2. CASE m.out[c] = <<OpenSeg(c)>>
    <3>1. PICK d \in Segment : d = OpenSeg(c)
      <4>1. <<>> \in Seq(Byte) /\ 0 \in Nat
        OBVIOUS
      <4>2. OpenSeg(c) \in Segment
        BY <4>1 DEF OpenSeg, Segment
      <4> QED
        BY <4>2
    <3>2. Body(d, c) = <<>>
      BY <3>1 DEF Body, OpenSeg
    <3>3. Bodies(<<d>>, c) = Body(d, c)
      BY BodiesOne
    <3> QED
      BY <2>2, <3>1, <3>2, <3>3, BodiesEmpty
  <2> QED
    BY <2>1, <2>2 DEF Fresh
<1>10. Bodies(Queue(s, m, L, c), c) = <<>>
  BY <1>9 DEF Queue
<1>11. Bodies(w, c) = <<>>
  BY <1>2, BodiesNone DEF Typed
<1>12. Kept(s, m, L, c) = <<>> /\ <<>> \o <<>> = <<>>
  BY <1>1, Glue DEF Kept
<1>13. Supply(s, m, w, L, c) = <<>>
  BY <1>10, <1>11, <1>12 DEF Supply
<1>14. Decoded(r, g, c) = <<>> /\ Len(<<>>) = 0 /\ h.frames[c] \in Lengths
  BY <1>1, <1>12 DEF Decoded, Typed
<1>15. Ordered(m, h, r, g, c)
  BY <1>1, <1>14 DEF Ordered, NextOf
<1>16. Listening(r, H, c) => Lined(s, m, w, L, h, r, g, c)
  <2>1. Rest(<<>>, 0) = <<>>
    BY <1>1, <1>14, RestEnds
  <2>2. ASSUME Listening(r, H, c) PROVE Lined(s, m, w, L, h, r, g, c)
    <3>1. Leads(r.asm[c], Supply(s, m, w, L, c) \o <<>>, h.frames[c], Len(Decoded(r, g, c)))
      BY <1>1, <1>12, <1>13, <1>14, <2>1, <2>2 DEF Leads
    <3>2. Lost(s, m, w, L, h, c, <<>>)
      BY <1>1 DEF Lost, Broken
    <3>3. Short(r.asm[c]) /\ <<>> \in Strand
      BY <1>1, <2>2, Glue DEF Short
    <3> QED
      BY <3>1, <3>2, <3>3 DEF Lined
  <2> QED
    BY <2>2
<1>17. c \in H => r.asm[c] = <<>>
  BY <1>1 DEF Listening
<1> QED
  BY <1>1, <1>8, <1>15, <1>16, <1>17 DEF Stream

\* What a receiver may do without reading: take frames, learn of the end, let
\* go of its half or of the channel.
Hears(r, g, r2, g2, H, c) ==
    /\ r2.asm[c] = r.asm[c] \/ (c \notin r2.recv /\ c \notin H)
    /\ (c \in r2.chans => c \in r.chans) /\ (c \in r2.recv => c \in r.recv)
    /\ r.rx[c] = <<>> => r2.rx[c] = <<>> /\ g2.got[c] = g.got[c]
    /\ \/ Decoded(r2, g2, c) = Decoded(r, g, c)
       \/ c \notin r2.recv /\ r2.rx[c] = <<>> /\ g2.got[c] = g.got[c]
    /\ WasReset(r2, g2, c) => WasReset(r, g, c)
    /\ WasTold(g2, c) => WasTold(g, c) \/ (WasReset(r, g, c) /\ r.rx[c] = <<>>)

LEMMA ReceiverTells ==
    ASSUME NEW s, NEW m, NEW w, NEW L, NEW h, NEW r, NEW g, NEW H, NEW N, NEW c,
           NEW L2, NEW r2, NEW g2, NEW H2, NEW N2, Typed(m, w, h, r, g, c),
           Stream(s, m, w, L, h, r, g, H, N, c), Hears(r, g, r2, g2, H, c),
           SameLife(s, L, L2), H2 \subseteq H, N2 \subseteq N
    PROVE  Stream(s, m, w, L2, h, r2, g2, H2, N2, c)
<1>1. SameSender(m, m, c) /\ SameBook(h, h, c)
  BY DEF SameSender, SameBook
<1>2. Sender(s, m, w, L2, h, c)
  <2>1. Sender(s, m, w, L, h, c) => Sender(s, m, w, L2, h, c)
    BY <1>1, SameSupply
  <2> QED
    BY <2>1 DEF Stream
<1>3. Supply(s, m, w, L2, c) = Supply(s, m, w, L, c)
  BY <1>1, SameSupply
<1>4. StillLost(s, m, w, L, h, m, w, L2, h, c)
  BY <1>1, SameSupply
<1>5. c \in H2 => r2.asm[c] = <<>> /\ r2.rx[c] = <<>> /\ g2.got[c] = <<>>
  BY DEF Stream, Hears
<1>6. r.rx[c] = <<>> => Decoded(r2, g2, c) = Decoded(r, g, c) /\ r2.rx[c] = <<>>
  BY DEF Hears, Decoded
<1>7. Ordered(m, h, r2, g2, c)
  <2>1. CASE Decoded(r2, g2, c) = Decoded(r, g, c)
    BY <2>1 DEF Stream, Ordered
  <2>2. CASE r2.rx[c] = <<>> /\ g2.got[c] = g.got[c]
    <3>1. PICK x \in Seq(Frame), y \in Seq(Frame) : x = g.got[c] /\ y = r.rx[c]
      BY DEF Typed
    <3>2. PICK a \in Nat, b \in Nat : a = Len(x) /\ b = Len(y)
      OBVIOUS
    <3>3. x \o <<>> = x /\ Len(x \o y) = a + b /\ \A i \in 1 .. a : (x \o y)[i] = x[i]
      BY <3>2
    <3>4. Decoded(r2, g2, c) = x /\ Decoded(r, g, c) = x \o y
      BY <2>2, <3>1, <3>3 DEF Decoded
    <3>5. PICK f \in Nat : f = Len(h.frames[c])
      BY LengthsAre DEF Typed
    <3>6. /\ 0 + (a + b) <= f
          /\ \A i \in 1 .. a + b : (x \o y)[i] = Bytes(0 + i, h.frames[c][0 + i])
          /\ c \in h.givenUp \/ m.todo[c] # <<>> => a + b < f
      BY <3>3, <3>4, <3>5 DEF Stream, Ordered, NextOf
    <3>7. 0 + a <= f /\ (a + b < f => a < f) /\ \A i \in 1 .. a : i \in 1 .. a + b
      BY <3>2, <3>5, <3>6
    <3>8. \A i \in 1 .. a : x[i] = Bytes(0 + i, h.frames[c][0 + i])
      BY <3>3, <3>6, <3>7
    <3> QED
      BY <3>2, <3>4, <3>5, <3>6, <3>7, <3>8 DEF Ordered, NextOf
  <2> QED
    BY <2>1, <2>2 DEF Hears
<1>8. Listening(r2, H2, c) => Lined(s, m, w, L2, h, r2, g2, c)
  <2>1. ASSUME Listening(r2, H2, c) PROVE Listening(r, H, c)
    BY <2>1 DEF Listening, Hears
  <2>2. ASSUME Listening(r2, H2, c)
        PROVE  r2.asm[c] = r.asm[c] /\ Decoded(r2, g2, c) = Decoded(r, g, c)
    BY <1>6, <2>2 DEF Listening, Hears, Stream
  <2>3. Lined(s, m, w, L, h, r, g, c) => Lined(s, m, w, L2, h, r, g, c)
    BY <1>3, <1>4 DEF Lined, StillLost
  <2> QED
    BY <2>1, <2>2, <2>3 DEF Stream, Lined
<1>9. ASSUME Complete(m, h, r, g, H, N, c), Decoded(r2, g2, c) = Decoded(r, g, c)
      PROVE  Complete(m, h, r2, g2, H2, N2, c)
  BY <1>9 DEF Complete, Hears
<1>10. WasReset(r2, g2, c) => Complete(m, h, r2, g2, H2, N2, c)
  <2>1. WasReset(r2, g2, c) => Decoded(r2, g2, c) = Decoded(r, g, c)
    BY DEF Hears, WasReset
  <2> QED
    BY <1>9, <2>1 DEF Stream, Hears
<1>11. WasTold(g2, c) => Complete(m, h, r2, g2, H2, N2, c) /\ r2.rx[c] = <<>>
  BY <1>6, <1>9 DEF Stream, Hears
<1> QED
  BY <1>2, <1>5, <1>7, <1>8, <1>10, <1>11 DEF Stream
-----------------------------------------------------------------------------
(* The receiver reads the next segment. *)

HeadSupplies(s, m, w, L, c) ==
    Supply(s, m, w, L, c) = Body(Head(w), c) \o Supply(s, m, Tail(w), L, c)

\* What the sender's stream is, once the first segment d of the wire is read.
LEMMA HeadMoves ==
    ASSUME NEW s, NEW m, NEW w, NEW L, NEW h, NEW r, NEW g, NEW c, Typed(m, w, h, r, g, c),
           w # <<>>, Sender(s, m, w, L, h, c)
    PROVE  /\ Sender(s, m, Tail(w), L, h, c)
           /\ HeadSupplies(s, m, w, L, c)
           /\ ~IsReset(Head(w), c) => StillLost(s, m, w, L, h, m, Tail(w), L, h, c)
<1>1. PICK v \in Seq(Segment), k \in Nat :
        /\ v = Tail(w) /\ DOMAIN v = 1 .. k /\ DOMAIN w = 1 .. k + 1 /\ Head(w) = w[1]
        /\ \A i \in 1 .. k : v[i] = w[i + 1]
  <2>1. w \in Seq(Segment)
    BY DEF Typed
  <2>2. /\ Tail(w) \in Seq(Segment) /\ Len(Tail(w)) = Len(w) - 1
        /\ \A i \in 1 .. Len(Tail(w)) : Tail(w)[i] = w[i + 1]
    BY <2>1, HeadTailProperties
  <2>3. PICK a \in Nat, k \in Nat : a = Len(w) /\ k = Len(Tail(w))
    <3>1. Len(w) \in Nat
      BY <2>1
    <3>2. Len(Tail(w)) \in Nat
      BY <2>2
    <3> QED
      BY <3>1, <3>2
  <2>4. a = k + 1
    BY <2>2, <2>3
  <2>5. Head(w) = w[1] /\ DOMAIN w = 1 .. Len(w) /\ DOMAIN Tail(w) = 1 .. Len(Tail(w))
    BY <2>1, <2>2
  <2> QED
    BY <2>2, <2>3, <2>4, <2>5
<1>2. ResetIn(w, c) <=> IsReset(Head(w), c) \/ ResetIn(v, c)
  BY <1>1, TailResets DEF Typed
<1>3. ResetEnds(v, Queue(s, m, L, c), c)
  <2>1. \A i \in 1 .. k : i + 1 \in 1 .. k + 1
    BY <1>1
  <2>2. \A i, j \in 1 .. k : i < j => i + 1 < j + 1
    BY <1>1
  <2>3. \A i, j \in 1 .. k : i < j /\ IsReset(v[i], c) => ~Moving(v[j], c)
    BY <1>1, <2>1, <2>2 DEF Sender, ResetEnds
  <2> QED
    BY <1>1, <1>2, <2>3 DEF Sender, ResetEnds
<1>4. Leaving(s, m, v, L, c) => Leaving(s, m, w, L, c)
  BY <1>2 DEF Leaving
<1>5. Sender(s, m, v, L, h, c)
  BY <1>3, <1>4 DEF Sender
<1>6. ~IsReset(Head(w), c) => StillLost(s, m, w, L, h, m, v, L, h, c)
  BY <1>2 DEF StillLost, Lost, Intact, Leaving
<1>7. PICK b \in Strand, a \in Strand, x \in Strand :
        /\ b = Body(Head(w), c) /\ a = Bodies(v, c) /\ Bodies(w, c) = b \o a
        /\ x = Bodies(Queue(s, m, L, c), c) \o Kept(s, m, L, c)
  <2>1. w \in Seq(Segment)
    BY DEF Typed
  <2>2. Head(w) \in Segment /\ Bodies(w, c) = Body(Head(w), c) \o Bodies(Tail(w), c)
    BY <2>1, BodiesHead
  <2>3. Body(Head(w), c) \in Strand
    BY <2>2, BodyIs
  <2>4. Bodies(v, c) \in Strand
    BY BodiesIs
  <2>5. Bodies(Queue(s, m, L, c), c) \in Strand
    BY SupplyIs
  <2>6. Kept(s, m, L, c) \in Strand
    BY SupplyIs
  <2>7. Bodies(Queue(s, m, L, c), c) \o Kept(s, m, L, c) \in Strand
    BY <2>5, <2>6, Glue
  <2> QED
    BY <1>1, <2>2, <2>3, <2>4, <2>7
<1>8. Supply(s, m, w, L, c) = b \o Supply(s, m, v, L, c)
  <2>1. Assoc(b, a, x)
    BY Associates
  <2> QED
    BY <1>7, <2>1 DEF Assoc, Supply
<1> QED
  BY <1>1, <1>5, <1>6, <1>7, <1>8 DEF HeadSupplies

\* It says nothing to the channel, or nobody listens.
LEMMA ReadTells ==
    ASSUME NEW s, NEW m, NEW w, NEW L, NEW h, NEW r, NEW g, NEW H, NEW N, NEW c,
           NEW H2, NEW N2, Typed(m, w, h, r, g, c), w # <<>>,
           Stream(s, m, w, L, h, r, g, H, N, c),
           \/ Body(Head(w), c) = <<>> /\ ~IsReset(Head(w), c)
           \/ ~Listening(r, H2, c),
           H2 \subseteq H, N2 \subseteq N
    PROVE  Stream(s, m, Tail(w), L, h, r, g, H2, N2, c)
<1>0. Sender(s, m, w, L, h, c)
  BY DEF Stream
<1>1. Sender(s, m, Tail(w), L, h, c)
  BY <1>0, HeadMoves
<1>2. Supply(s, m, w, L, c) = Body(Head(w), c) \o Supply(s, m, Tail(w), L, c)
  <2>1. HeadSupplies(s, m, w, L, c)
    BY <1>0, HeadMoves
  <2> QED
    BY <2>1 DEF HeadSupplies
<1>3. ~IsReset(Head(w), c) => StillLost(s, m, w, L, h, m, Tail(w), L, h, c)
  BY <1>0, HeadMoves
<1>4. Listening(r, H2, c) => Lined(s, m, Tail(w), L, h, r, g, c)
  <2>1. CASE Body(Head(w), c) = <<>> /\ ~IsReset(Head(w), c)
    <3>1. Supply(s, m, Tail(w), L, c) \in Strand
      <4>1. w \in Seq(Segment)
        BY DEF Typed
      <4>2. Tail(w) \in Seq(Segment)
        BY <4>1, TailIs
      <4>3. Typed(m, Tail(w), h, r, g, c)
        BY <4>2 DEF Typed
      <4> QED
        BY <4>3, SupplyIs
    <3>2. Supply(s, m, w, L, c) = Supply(s, m, Tail(w), L, c)
      BY <1>2, <2>1, <3>1, Glue
    <3>3. Lined(s, m, w, L, h, r, g, c) => Lined(s, m, Tail(w), L, h, r, g, c)
      BY <1>3, <2>1, <3>2 DEF Lined, StillLost
    <3>4. Listening(r, H2, c) => Listening(r, H, c)
      BY DEF Listening
    <3> QED
      BY <3>3, <3>4 DEF Stream
  <2>2. CASE ~Listening(r, H2, c)
    BY <2>2
  <2> QED
    BY <2>1, <2>2
<1>5. Complete(m, h, r, g, H, N, c) => Complete(m, h, r, g, H2, N2, c)
  BY DEF Complete
<1>6. /\ c \in H2 => r.asm[c] = <<>> /\ r.rx[c] = <<>> /\ g.got[c] = <<>>
      /\ c \in N2 => h.frames[c] = <<>>
      /\ Ordered(m, h, r, g, c)
  BY DEF Stream
<1> QED
  BY <1>1, <1>4, <1>5, <1>6 DEF Stream

LEMMA NextJoin ==
    ASSUME NEW F \in Lengths, NEW D \in Seq(Frame), NEW x \in Seq(Frame),
           NextOf(D, F, 0), NextOf(x, F, Len(D))
    PROVE  /\ D \o x \in Seq(Frame) /\ Len(D \o x) = Len(D) + Len(x) /\ NextOf(D \o x, F, 0)
<1>1. PICK a \in Nat, b \in Nat, f \in Nat : a = Len(D) /\ b = Len(x) /\ f = Len(F)
  BY LengthsAre
<1>2. D \o x \in Seq(Frame) /\ Len(D \o x) = a + b
  BY <1>1, ConcatProperties
<1>3. \A i \in 1 .. a + b : (D \o x)[i] = IF i <= a THEN D[i] ELSE x[i - a]
  <2>1. \A i \in 1 .. Len(D) + Len(x) : (D \o x)[i] = IF i <= Len(D) THEN D[i] ELSE x[i - Len(D)]
    BY ConcatProperties
  <2> QED
    BY <1>1, <2>1
<1>4. a + b <= f /\ \A i \in 1 .. b : x[i] = Bytes(a + i, F[a + i])
  BY <1>1 DEF NextOf
<1>5. \A i \in 1 .. a : D[i] = Bytes(0 + i, F[0 + i])
  BY <1>1 DEF NextOf
<1>6. ASSUME NEW i \in 1 .. a + b PROVE (D \o x)[i] = Bytes(0 + i, F[0 + i])
  <2>1. CASE i <= a
    <3>1. i \in 1 .. a
      BY <1>1, <2>1
    <3> QED
      BY <1>3, <1>5, <2>1, <3>1
  <2>2. CASE ~(i <= a)
    <3>1. PICK j \in 1 .. b : i = a + j /\ i - a = j /\ 0 + i = a + j
      <4>1. i - a \in 1 .. b /\ i = a + (i - a) /\ 0 + i = a + (i - a)
        BY <1>1, <2>2
      <4> QED
        BY <4>1
    <3> QED
      BY <1>3, <1>4, <2>2, <3>1
  <2> QED
    BY <2>1, <2>2
<1>7. 0 + (a + b) <= f
  BY <1>1, <1>4
<1> QED
  BY <1>1, <1>2, <1>6, <1>7 DEF NextOf

\* Data for somebody who listens: whole frames go to the queue of the receiver.
Delivers(r, r2, b, c) ==
    LET a == Reassemble(r.asm[c] \o b)
    IN  /\ c \in r.chans /\ c \in r.recv /\ c \in r2.chans
        /\ r2.asm[c] = a.rest /\ r2.rx[c] = r.rx[c] \o a.frames

LEMMA DeliverTells ==
    ASSUME NEW s, NEW m, NEW w, NEW L, NEW h, NEW r, NEW g, NEW H, NEW N, NEW c,
           NEW r2, NEW H2, NEW N2, Typed(m, w, h, r, g, c), w # <<>>,
           Stream(s, m, w, L, h, r, g, H, N, c), Delivers(r, r2, Body(Head(w), c), c),
           ~IsReset(Head(w), c), c \notin H, H2 \subseteq H, N2 \subseteq N
    PROVE  Stream(s, m, Tail(w), L, h, r2, g, H2, N2, c)
<1>0. Sender(s, m, w, L, h, c)
  BY DEF Stream
<1>1. Sender(s, m, Tail(w), L, h, c)
  BY <1>0, HeadMoves
<1>2. Supply(s, m, w, L, c) = Body(Head(w), c) \o Supply(s, m, Tail(w), L, c)
  <2>1. HeadSupplies(s, m, w, L, c)
    BY <1>0, HeadMoves
  <2> QED
    BY <2>1 DEF HeadSupplies
<1>3. StillLost(s, m, w, L, h, m, Tail(w), L, h, c)
  BY <1>0, HeadMoves
<1>4. Typed(m, Tail(w), h, r, g, c) /\ Body(Head(w), c) \in Strand
  <2>1. w \in Seq(Segment)
    BY DEF Typed
  <2>2. Tail(w) \in Seq(Segment) /\ Head(w) \in Segment
    BY <2>1, TailIs
  <2> QED
    BY <2>2, BodyIs DEF Typed
<1>5. PICK F \in Lengths, D \in Seq(Frame), x \in Strand, b \in Strand, v \in Strand :
        /\ F = h.frames[c] /\ D = Decoded(r, g, c) /\ x = r.asm[c] /\ b = Body(Head(w), c)
        /\ v = Supply(s, m, Tail(w), L, c)
  <2>1. Supply(s, m, Tail(w), L, c) \in Strand
    BY <1>4, SupplyIs
  <2>2. Decoded(r, g, c) \in Seq(Frame)
    BY DecodedIs
  <2> QED
    BY <1>4, <2>1, <2>2 DEF Typed
<1>6. PICK k \in Nat, f \in Nat : k = Len(D) /\ f = Len(F) /\ k \in 0 .. Len(F) /\ k <= f
  <2>1. Len(D) \in 0 .. Len(F)
    BY <1>5, OrderedIs DEF Stream
  <2> QED
    BY <2>1, LengthsAre
<1>7. PICK lost \in Strand : Leads(x, (b \o v) \o lost, F, k) /\ Lost(s, m, w, L, h, c, lost)
  <2>1. Lined(s, m, w, L, h, r, g, c)
    BY DEF Stream, Listening, Delivers
  <2> QED
    BY <1>2, <1>5, <1>6, <2>1 DEF Lined
<1>8. PICK y \in Strand, z \in Strand : y = x \o b /\ z = v \o lost
  BY Glue
<1>9. Leads(y, z, F, k)
  <2>1. (b \o v) \o lost = b \o z
    <3>1. Assoc(b, v, lost)
      BY Associates
    <3> QED
      BY <1>8, <3>1 DEF Assoc
  <2>2. (x \o b) \o z = x \o (b \o z)
    <3>1. Assoc(x, b, z)
      BY Associates
    <3> QED
      BY <3>1 DEF Assoc
  <2> QED
    BY <1>7, <1>8, <2>1, <2>2 DEF Leads
<1>10. PICK E \in Seq(Frame), u \in Strand :
         /\ E = Reassemble(y).frames /\ u = Reassemble(y).rest
         /\ NextOf(E, F, k) /\ Leads(u, z, F, k + Len(E)) /\ Short(u)
  <2>1. /\ Reassemble(y).frames \in Seq(Frame) /\ NextOf(Reassemble(y).frames, F, k)
        /\ Reassemble(y).rest \in Strand
        /\ Leads(Reassemble(y).rest, z, F, k + Len(Reassemble(y).frames))
        /\ Short(Reassemble(y).rest)
    BY <1>6, <1>9, ReassembleNext
  <2> QED
    BY <2>1
<1>11. r2.asm[c] = u /\ r2.rx[c] = r.rx[c] \o E
  BY <1>5, <1>8, <1>10 DEF Delivers
<1>12. Decoded(r2, g, c) = D \o E
  <2>1. PICK p \in Seq(Frame), q \in Seq(Frame) : p = g.got[c] /\ q = r.rx[c]
    BY DEF Typed
  <2>2. p \o (q \o E) = (p \o q) \o E
    OBVIOUS
  <2> QED
    BY <1>5, <1>11, <2>1, <2>2 DEF Decoded
<1>13. PICK n \in Nat : n = Len(E) /\ k + n = Len(D \o E)
  <2>1. NextOf(D, F, 0) /\ NextOf(E, F, Len(D))
    BY <1>5, <1>6, <1>10 DEF Stream, Ordered
  <2>2. Len(D \o E) = Len(D) + Len(E)
    BY <2>1, NextJoin
  <2>3. Len(E) \in Nat
    OBVIOUS
  <2> QED
    BY <1>6, <2>2, <2>3
<1>14. NextOf(D \o E, F, 0) /\ k + n <= f
  <2>1. NextOf(D, F, 0) /\ NextOf(E, F, Len(D))
    BY <1>5, <1>6, <1>10 DEF Stream, Ordered
  <2> QED
    BY <1>6, <1>10, <1>13, <2>1, NextJoin DEF NextOf
<1>15. Lost(s, m, Tail(w), L, h, c, lost)
  BY <1>3, <1>7 DEF StillLost
<1>16. c \in h.givenUp \/ m.todo[c] # <<>> => k + n < f
  <2>1. ASSUME k + n = f PROVE v = <<>> /\ lost = <<>>
    <3>1. Rest(F, k + n) = <<>>
      BY <1>6, <2>1, RestEnds
    <3>2. u \o z = <<>>
      BY <1>10, <1>13, <3>1 DEF Leads
    <3>3. z = <<>>
      BY <3>2, NotEmpty
    <3> QED
      BY <1>8, <3>3, NotEmpty
  <2>2. ASSUME c \in h.givenUp PROVE lost # <<>>
    BY <1>15, <2>2 DEF Lost, Broken
  <2>3. ASSUME m.todo[c] # <<>>, ~(s \in L /\ c \in m.chans) PROVE lost # <<>>
    BY <1>15, <2>3 DEF Lost, Broken
  <2>4. ASSUME m.todo[c] # <<>>, s \in L, c \in m.chans PROVE v # <<>>
    <3>1. PICK p \in Strand, q \in Strand : p = m.held[c] /\ q = m.todo[c]
      BY DEF Typed
    <3>2. Kept(s, m, L, c) = p \o q /\ q # <<>>
      BY <2>4, <3>1 DEF Kept
    <3>3. p \o q # <<>>
      BY <3>2, NotEmpty
    <3>4. PICK i \in Strand, j \in Strand, t \in Strand :
            /\ i = Bodies(Tail(w), c) /\ j = Bodies(Queue(s, m, L, c), c) /\ t = p \o q
      <4>1. Bodies(Tail(w), c) \in Strand
        BY <1>4, SupplyIs
      <4>2. Bodies(Queue(s, m, L, c), c) \in Strand
        BY <1>4, SupplyIs
      <4>3. p \o q \in Strand
        BY Glue
      <4> QED
        BY <4>1, <4>2, <4>3
    <3>5. v = i \o (j \o t)
      BY <1>5, <3>2, <3>4 DEF Supply
    <3>6. j \o t # <<>> /\ j \o t \in Strand
      BY <3>3, <3>4, NotEmpty, Glue
    <3> QED
      BY <3>5, <3>6, NotEmpty
  <2>5. k + n # f => k + n < f
    BY <1>6, <1>13, <1>14
  <2> QED
    BY <2>1, <2>2, <2>3, <2>4, <2>5
<1>17. Ordered(m, h, r2, g, c)
  BY <1>5, <1>6, <1>12, <1>13, <1>14, <1>16 DEF Ordered
<1>18. Lined(s, m, Tail(w), L, h, r2, g, c)
  BY <1>5, <1>8, <1>10, <1>11, <1>12, <1>13, <1>15 DEF Lined
<1>19. ~WasReset(r2, g, c) /\ ~WasTold(g, c)
  BY DEF WasReset, Stream, Complete, Delivers
<1>20. c \notin H2 /\ (c \in N2 => h.frames[c] = <<>>)
  BY DEF Stream
<1> QED
  BY <1>1, <1>17, <1>18, <1>19, <1>20 DEF Stream

\* The RESET arrives: everything that was sent has been decoded.
LEMMA ResetTells ==
    ASSUME NEW s, NEW m, NEW w, NEW L, NEW h, NEW r, NEW g, NEW H, NEW N, NEW c,
           NEW r2, NEW H2, NEW N2, Typed(m, w, h, r, g, c), w # <<>>,
           Stream(s, m, w, L, h, r, g, H, N, c), IsReset(Head(w), c),
           c \in r.chans, c \in r.recv, c \notin r2.chans,
           r2.asm[c] = r.asm[c], r2.rx[c] = r.rx[c],
           c \notin H, c \notin N, H2 \subseteq H, N2 \subseteq N
    PROVE  Stream(s, m, Tail(w), L, h, r2, g, H2, N2, c)
<1>0. Sender(s, m, w, L, h, c)
  BY DEF Stream
<1>1. Sender(s, m, Tail(w), L, h, c)
  BY <1>0, HeadMoves
<1>2. ResetIn(w, c) /\ Leaving(s, m, w, L, c) /\ c \notin m.chans /\ c \notin m.send
  <2>1. 1 \in DOMAIN w /\ w[1] = Head(w)
    BY TailIs DEF Typed
  <2>2. ResetIn(w, c)
    BY <2>1 DEF ResetIn
  <2> QED
    BY <1>0, <2>2 DEF Leaving, Sender
<1>3. Supply(s, m, w, L, c) = <<>>
  <2>1. Queue(s, m, L, c) = <<>> /\ Kept(s, m, L, c) = <<>>
    BY <1>0, <1>2 DEF Sender, ResetEnds, Kept
  <2>2. w \in Seq(Segment)
    BY DEF Typed
  <2>3. /\ Tail(w) \in Seq(Segment) /\ Bodies(w, c) = Body(Head(w), c) \o Bodies(Tail(w), c)
        /\ Head(w) \in Segment
    BY <2>2, BodiesHead
  <2>4. Body(Head(w), c) = <<>>
    BY DEF IsReset, Body
  <2>5. ASSUME NEW i \in DOMAIN Tail(w) PROVE ~Moving(Tail(w)[i], c)
    <3>1. /\ Len(Tail(w)) = Len(w) - 1 /\ \A j \in 1 .. Len(Tail(w)) : Tail(w)[j] = w[j + 1]
      BY <2>2, HeadTailProperties
    <3>2. /\ DOMAIN Tail(w) = 1 .. Len(Tail(w)) /\ DOMAIN w = 1 .. Len(w) /\ Len(w) \in Nat
          /\ w[1] = Head(w)
      BY <2>2, <2>3
    <3>3. i + 1 \in DOMAIN w /\ 1 \in DOMAIN w /\ 1 < i + 1 /\ Tail(w)[i] = w[i + 1]
      BY <3>1, <3>2
    <3> QED
      BY <1>0, <3>2, <3>3 DEF Sender, ResetEnds
  <2>6. Bodies(Tail(w), c) = <<>>
    BY <2>3, <2>5, BodiesNone
  <2>7. Bodies(<<>>, c) = <<>> /\ <<>> \o <<>> = <<>>
    BY BodiesEmpty, Glue
  <2> QED
    BY <2>1, <2>3, <2>4, <2>6, <2>7 DEF Supply
<1>4. PICK F \in Lengths, x \in Strand : F = h.frames[c] /\ x = r.asm[c]
  BY DEF Typed
<1>5. PICK k \in Nat, f \in Nat : k = Len(Decoded(r, g, c)) /\ f = Len(F) /\ k \in 0 .. Len(F)
  <2>1. Len(Decoded(r, g, c)) \in 0 .. Len(F)
    BY <1>4, OrderedIs DEF Stream
  <2> QED
    BY <2>1, LengthsAre
<1>6. /\ Short(x)
      /\ \E lost \in Strand : Leads(x, lost, F, k) /\ Lost(s, m, w, L, h, c, lost)
  <2>1. Lined(s, m, w, L, h, r, g, c)
    BY DEF Stream, Listening
  <2>2. \A y \in Strand : <<>> \o y = y
    BY Glue
  <2> QED
    BY <1>3, <1>4, <1>5, <2>1, <2>2 DEF Lined
<1>7. PICK lost \in Strand : Leads(x, lost, F, k) /\ Lost(s, m, w, L, h, c, lost)
  BY <1>6
<1>8. Intact(s, m, w, L, c)
  BY <1>2 DEF Intact
\* The assembler holds less than the next frame.
<1>9. ASSUME NEW len \in 1 .. MaxFrame, k # f, len = F[k + 1] PROVE Len(x) < len
  <2>1. len \in Nat /\ len > 0 /\ Len(x) \in Nat
    BY ConstantsAre, Glue
  <2>2. CASE x = <<>>
    BY <2>1, <2>2, Glue
  <2>3. CASE x # <<>>
    <3>1. x[1].of = F[k + 1]
      BY <1>5, <1>7, <2>3, LeadsFrame
    <3>2. len > Len(x)
      BY <1>6, <1>9, <2>3, <3>1 DEF Short
    <3> QED
      BY <2>1, <3>2
  <2> QED
    BY <2>2, <2>3
<1>10. PICK q \in Nat, l \in Nat : q = Len(x) /\ l = Len(lost) /\ Len(x \o lost) = q + l
  BY Glue
<1>11. ASSUME k # f
       PROVE  \E len \in Nat, t \in Strand :
                /\ len = F[k + 1] /\ len \in 1 .. MaxFrame /\ k + 1 \in 0 .. f
                /\ t = Rest(F, k + 1) /\ Len(t) \in Nat /\ q + l = len + Len(t)
  <2>1. /\ k + 1 \in 0 .. Len(F) /\ F[k + 1] \in 1 .. MaxFrame
        /\ Rest(F, k) = Bytes(k + 1, F[k + 1]) \o Rest(F, k + 1)
    BY <1>5, <1>11, RestNext
  <2>2. PICK len \in 1 .. MaxFrame : len = F[k + 1]
    BY <2>1
  <2>3. k + 1 \in Nat
    BY <1>5
  <2>4. Bytes(k + 1, len) \in Strand /\ Len(Bytes(k + 1, len)) = len /\ len \in Nat
    BY <2>3, BytesAre
  <2>5. PICK t \in Strand : t = Rest(F, k + 1)
    BY <2>1, FollowingIs
  <2>6. Len(Bytes(k + 1, len) \o t) = len + Len(t) /\ Len(t) \in Nat
    BY <2>4, Glue
  <2> QED
    BY <1>5, <1>7, <1>10, <2>1, <2>2, <2>4, <2>5, <2>6 DEF Leads
<1>12. ASSUME c \notin h.givenUp PROVE Len(Decoded(r, g, c)) = SentLen(h, c)
  <2>1. l = 0
    BY <1>7, <1>8, <1>10, <1>12, Glue DEF Lost
  <2>2. ASSUME k # f PROVE FALSE
    <3>1. PICK len \in Nat, t \in Strand :
            /\ len = F[k + 1] /\ len \in 1 .. MaxFrame
            /\ Len(t) \in Nat /\ q + l = len + Len(t)
      BY <1>11, <2>2
    <3>2. q < len
      BY <1>9, <1>10, <2>2, <3>1
    <3> QED
      BY <2>1, <3>1, <3>2
  <2>3. f - 0 = f
    BY <1>5
  <2> QED
    BY <1>4, <1>5, <1>12, <2>2, <2>3 DEF SentLen
<1>13. ASSUME c \in h.givenUp PROVE Len(Decoded(r, g, c)) = SentLen(h, c)
  <2>1. k < f
    BY <1>4, <1>5, <1>13 DEF Stream, Ordered
  <2>2. PICK d \in Nat : f = d + 1 /\ f - 1 = d
    <3>1. f - 1 \in Nat /\ f = (f - 1) + 1
      BY <1>5, <2>1
    <3> QED
      BY <3>1
  <2>3. ASSUME k # d PROVE FALSE
    <3>1. k # f /\ k + 1 # f
      BY <1>5, <2>1, <2>2, <2>3
    <3>2. PICK len \in Nat, t \in Strand :
            /\ len = F[k + 1] /\ len \in 1 .. MaxFrame /\ k + 1 \in 0 .. f
            /\ t = Rest(F, k + 1) /\ Len(t) \in Nat /\ q + l = len + Len(t)
      BY <1>11, <3>1
    <3>3. q < len
      BY <1>9, <1>10, <3>1, <3>2
    <3>4. PICK z \in 1 .. MaxFrame, b \in Nat : z = F[f] /\ b = Len(t) /\ b >= z /\ z \in Nat
      <4>1. F[Len(F)] \in 1 .. MaxFrame /\ Len(Rest(F, k + 1)) >= F[Len(F)]
        BY <1>5, <3>1, <3>2, RestLong
      <4>2. 1 .. MaxFrame \subseteq Nat
        BY ConstantsAre
      <4> QED
        BY <1>5, <3>2, <4>1, <4>2
    <3>5. l <= z
      BY <1>4, <1>5, <1>7, <1>8, <1>10, <1>13, <3>4 DEF Lost, LastLen
    <3> QED
      BY <1>10, <3>2, <3>3, <3>4, <3>5
  <2> QED
    BY <1>4, <1>5, <1>13, <2>2, <2>3 DEF SentLen
<1>14. Len(Decoded(r, g, c)) = SentLen(h, c)
  BY <1>12, <1>13
<1>15. Decoded(r2, g, c) = Decoded(r, g, c)
  BY DEF Decoded
<1>16. Complete(m, h, r2, g, H2, N2, c)
  BY <1>2, <1>14, <1>15 DEF Complete
<1>17. Ordered(m, h, r2, g, c) /\ ~WasTold(g, c)
  BY <1>15 DEF Stream, Ordered, Complete
<1>18. ~Listening(r2, H2, c) /\ c \notin H2 /\ (c \in N2 => h.frames[c] = <<>>)
  BY DEF Listening, Stream
<1> QED
  BY <1>1, <1>16, <1>17, <1>18 DEF Stream
-----------------------------------------------------------------------------
(* From the streams of one end's channels to the invariant. *)

Moved(s, m, w, L, h, n, v, L2, h2, c) ==
    /\ Sender(s, n, v, L2, h2, c) /\ NoneBegun(m, h, n, h2, c)
    /\ Carries(s, m, w, L, h, n, v, L2, h2, c)

LEMMA SameMoved ==
    ASSUME NEW s, NEW m, NEW n, NEW w, NEW L, NEW L2, NEW h, NEW h2, NEW c,
           Sender(s, m, w, L, h, c), SameSender(m, n, c), SameBook(h, h2, c), SameLife(s, L, L2)
    PROVE  Moved(s, m, w, L, h, n, w, L2, h2, c)
<1>1. Supply(s, n, w, L2, c) = Supply(s, m, w, L, c)
  BY SameSupply
<1>2. StillLost(s, m, w, L, h, n, w, L2, h2, c)
  BY SameSupply
<1>3. Sender(s, m, w, L, h, c) => Sender(s, n, w, L2, h2, c)
  BY SameSupply
<1>4. NoneBegun(m, h, n, h2, c)
  BY DEF NoneBegun, SameSender, SameBook
<1>5. Carries(s, m, w, L, h, n, w, L2, h2, c)
  BY <1>1, <1>2, CarriesOn
<1> QED
  BY <1>3, <1>4, <1>5 DEF Moved

LEMMA SameHears ==
    ASSUME NEW r, NEW g, NEW r2, NEW g2, NEW H, NEW c,
           SameReceiver(r, r2, c), SameNews(g, g2, c)
    PROVE  Hears(r, g, r2, g2, H, c)
BY DEF SameReceiver, SameNews, Hears, Decoded, WasReset, WasTold, Closed

\* The streams of c after a step of end e that reads nothing, and after any.
Sends(e, c) ==
    Stream(e, ep'[e], wire'[e], Live', hist'[e], ep[Peer(e)], hist[Peer(e)],
           HiddenTo(e)', Foreign(e)', c)
Gets(e, c) ==
    Stream(Peer(e), ep[Peer(e)], wire'[Peer(e)], Live', hist[Peer(e)], ep'[e], hist'[e],
           HiddenTo(Peer(e))', Foreign(Peer(e))', c)
AllTell(e) == \A c \in Ch : Sends(e, c) /\ Gets(e, c)

LEMMA StepTells ==
    ASSUME SInv, IInv', NEW e \in End, Tale(hist'[e]),
           ep'[Peer(e)] = ep[Peer(e)], hist'[Peer(e)] = hist[Peer(e)], AllTell(e)
    PROVE  SInv'
<1>1. Peer(e) \in End /\ Peer(Peer(e)) = e /\ \A x \in End : x = e \/ x = Peer(e)
  BY PeerIs
<1>2. Tales'
  BY <1>1 DEF SInv, Tales
<1>3. ASSUME NEW x \in End, NEW c \in Ch PROVE StreamOf(x, c)'
  <2>1. CASE x = e
    BY <2>1 DEF AllTell, Sends, StreamOf
  <2>2. CASE x = Peer(e)
    BY <1>1, <2>2 DEF AllTell, Gets, StreamOf
  <2> QED
    BY <1>1, <2>1, <2>2
<1> QED
  BY <1>2, <1>3 DEF SInv

\* No id is taken into use and no OPEN is queued.
Quiet(x) ==
    /\ ep'[x].nextLocal = ep[x].nextLocal
    /\ \A c \in Ch : Announced(ep'[x], wire'[x], c) => Announced(ep[x], wire[x], c)
AllQuiet == \A x \in End : Quiet(x)

LEMMA HiddenShrinks ==
    ASSUME AllQuiet, NEW x \in End
    PROVE  HiddenTo(x)' \subseteq HiddenTo(x) /\ Foreign(x)' \subseteq Foreign(x)
<1>1. Peer(x) \in End
  BY PeerIs
<1>2. ASSUME NEW y \in End, NEW c \in Ch, Hidden(y, c)' PROVE Hidden(y, c)
  BY <1>2 DEF AllQuiet, Quiet, Hidden
<1>3. ASSUME NEW y \in End, NEW c \in Ch, Unused(y, c)' PROVE Unused(y, c)
  BY <1>3 DEF AllQuiet, Quiet, Unused
<1> QED
  BY <1>1, <1>2, <1>3 DEF HiddenTo, Foreign

\* What a step of end e leaves, of its state, wire and book.
Reached(e, n, v, b, L2) == ep'[e] = n /\ wire'[e] = v /\ hist'[e] = b /\ Live' = L2

LEMMA SendsIs ==
    ASSUME SInv, AllQuiet, NEW e \in End, NEW n, NEW v, NEW b, NEW L2, Reached(e, n, v, b, L2),
           NEW c \in Ch, Moved(e, ep[e], wire[e], Live, hist[e], n, v, L2, b, c)
    PROVE  Sends(e, c)
<1>1. PICK H2, N2 : H2 = HiddenTo(e)' /\ N2 = Foreign(e)'
  OBVIOUS
<1>2. H2 \subseteq HiddenTo(e) /\ N2 \subseteq Foreign(e)
  BY <1>1, HiddenShrinks
<1>3. StreamOf(e, c)
  BY DEF SInv
<1>4. Stream(e, ep[e], wire[e], Live, hist[e], ep[Peer(e)], hist[Peer(e)],
             HiddenTo(e), Foreign(e), c)
  BY <1>3 DEF StreamOf
<1>5. /\ Sender(e, n, v, L2, b, c) /\ NoneBegun(ep[e], hist[e], n, b, c)
      /\ Carries(e, ep[e], wire[e], Live, hist[e], n, v, L2, b, c)
  BY DEF Moved
<1>6. Stream(e, n, v, L2, b, ep[Peer(e)], hist[Peer(e)], H2, N2, c)
  BY <1>2, <1>4, <1>5, SenderTells
<1> QED
  BY <1>1, <1>6 DEF Sends, Reached

LEMMA GetsIs ==
    ASSUME SInv, AllQuiet, NEW e \in End, NEW n, NEW v, NEW b, NEW L2, Reached(e, n, v, b, L2),
           wire'[Peer(e)] = wire[Peer(e)], SameLife(Peer(e), Live, L2),
           NEW c \in Ch, Hears(ep[e], hist[e], n, b, HiddenTo(Peer(e)), c)
    PROVE  Gets(e, c)
<1>1. PICK p : p = Peer(e)
  OBVIOUS
<1>2. p \in End /\ Peer(p) = e
  BY <1>1, PeerIs
<1>3. PICK H2, N2 : H2 = HiddenTo(p)' /\ N2 = Foreign(p)'
  OBVIOUS
<1>4. H2 \subseteq HiddenTo(p) /\ N2 \subseteq Foreign(p)
  BY <1>2, <1>3, HiddenShrinks
<1>5. StreamOf(p, c)
  BY <1>2 DEF SInv
<1>6. Stream(p, ep[p], wire[p], Live, hist[p], ep[e], hist[e], HiddenTo(p), Foreign(p), c)
  BY <1>2, <1>5 DEF StreamOf
<1>7. Typed(ep[p], wire[p], hist[p], ep[e], hist[e], c)
  <2>1. Typed(ep[p], wire[p], hist[p], ep[Peer(p)], hist[Peer(p)], c)
    BY <1>2, TypedIs DEF SInv
  <2> QED
    BY <1>2, <2>1
<1>8. Hears(ep[e], hist[e], n, b, HiddenTo(p), c) /\ SameLife(p, Live, L2)
  BY <1>1
<1>9. Stream(p, ep[p], wire[p], L2, hist[p], n, b, H2, N2, c)
  BY <1>4, <1>6, <1>7, <1>8, ReceiverTells
<1> QED
  BY <1>1, <1>3, <1>9 DEF Gets, Reached

NoNewOpen(m, n) ==
    /\ n.nextLocal = m.nextLocal
    /\ \A c \in Ch : \A i \in DOMAIN n.out[c] : IsOpen(n.out[c][i], c) =>
         i \in DOMAIN m.out[c] /\ IsOpen(m.out[c][i], c)

LEMMA QuietIs ==
    ASSUME NEW x \in End, NoNewOpen(ep[x], ep'[x]), Shortened(wire[x], wire'[x])
    PROVE  Quiet(x)
BY DEF NoNewOpen, Shortened, Quiet, Announced

LEMMA QuietReads ==
    ASSUME NEW x \in End, ep'[x] = ep[x], wire[x] \in Seq(Segment), wire[x] # <<>>,
           wire'[x] = Tail(wire[x])
    PROVE  Quiet(x)
<1>1. \A i \in DOMAIN Tail(wire[x]) : \E j \in DOMAIN wire[x] : Tail(wire[x])[i] = wire[x][j]
  BY TailIs
<1> QED
  BY <1>1 DEF Quiet, Announced

\* A step of end e by itself, which reaches state n and book b.
StreamWith(e, n, b, c) ==
    Stream(e, n, wire[e], Live, b, ep[Peer(e)], hist[Peer(e)], HiddenTo(e), Foreign(e), c)
Tells(e, n, b, c) ==
    /\ \/ Moved(e, ep[e], wire[e], Live, hist[e], n, wire[e], Live, b, c)
       \/ StreamWith(e, n, b, c)
    /\ Hears(ep[e], hist[e], n, b, HiddenTo(Peer(e)), c)
AllTells(e, n, b) == \A c \in Ch : Tells(e, n, b, c)

LEMMA SameTells ==
    ASSUME SInv, NEW e \in End, NEW n, NEW b, NEW c \in Ch, SameSender(ep[e], n, c),
           SameBook(hist[e], b, c), SameReceiver(ep[e], n, c), SameNews(hist[e], b, c)
    PROVE  Tells(e, n, b, c)
<1>1. Sender(e, ep[e], wire[e], Live, hist[e], c)
  BY DEF SInv, StreamOf, Stream
<1>2. SameLife(e, Live, Live)
  BY DEF SameLife
<1>3. Moved(e, ep[e], wire[e], Live, hist[e], n, wire[e], Live, b, c)
  BY <1>1, <1>2, SameMoved
<1>4. Hears(ep[e], hist[e], n, b, HiddenTo(Peer(e)), c)
  BY SameHears
<1> QED
  BY <1>3, <1>4 DEF Tells

Reaches(e, n) ==
    /\ ep'[e] = n /\ ep'[Peer(e)] = ep[Peer(e)]
    /\ wire' = wire /\ alive' = alive

LEMMA BecomesIs ==
    ASSUME Types, NEW e \in End, NEW n, Becomes(e, n)
    PROVE  Reaches(e, n)
<1>1. Peer(e) \in End /\ Peer(e) # e /\ DOMAIN ep = End
  BY PeerIs DEF Types
<1> QED
  BY <1>1 DEF Becomes, Reaches

\* What is still hidden after a step of e by itself was hidden before.
LEMMA QuietStep ==
    ASSUME NEW e \in End, NEW n, Reaches(e, n), NoNewOpen(ep[e], n)
    PROVE  AllQuiet
<1>1. ep'[e] = n /\ ep'[Peer(e)] = ep[Peer(e)] /\ wire' = wire
  BY DEF Reaches
<1>2. \A x \in End : x = e \/ x = Peer(e)
  BY PeerIs
<1>3. NoNewOpen(ep[Peer(e)], ep[Peer(e)])
  BY DEF NoNewOpen
<1>4. \A x \in End : NoNewOpen(ep[x], ep'[x]) /\ Shortened(wire[x], wire'[x])
  BY <1>1, <1>2, <1>3 DEF Shortened
<1> QED
  BY <1>4, QuietIs DEF AllQuiet

LEMMA ReachStep ==
    ASSUME SInv, IInv', NEW e \in End, NEW n, NEW b, Reaches(e, n), NoNewOpen(ep[e], n),
           hist'[e] = b, hist'[Peer(e)] = hist[Peer(e)], Tale(b), AllTells(e, n, b)
    PROVE  SInv'
<1> DEFINE p == Peer(e)
<1>1. p \in End /\ Peer(p) = e
  BY PeerIs
<1>2. IInv /\ Types /\ Tales
  BY DEF SInv, IInv
<1>3. ep'[e] = n /\ ep'[p] = ep[p] /\ wire' = wire /\ Live' = Live
  BY DEF Reaches, Live
<1>4. AllQuiet
  BY QuietStep
<1>5. Reached(e, n, wire[e], b, Live) /\ wire'[p] = wire[p]
  BY <1>3 DEF Reached
<1>6. ASSUME NEW c \in Ch PROVE Sends(e, c) /\ Gets(e, c)
  <2>1. Tells(e, n, b, c)
    BY DEF AllTells
  <2>2. Hears(ep[e], hist[e], n, b, HiddenTo(p), c) /\ SameLife(p, Live, Live)
    BY <2>1 DEF Tells, SameLife
  <2>3. Gets(e, c)
    BY <1>4, <1>5, <2>2, GetsIs
  <2>4. CASE Moved(e, ep[e], wire[e], Live, hist[e], n, wire[e], Live, b, c)
    <3>1. Sends(e, c)
      BY <1>4, <1>5, <2>4, SendsIs
    <3> QED
      BY <2>3, <3>1
  <2>5. CASE StreamWith(e, n, b, c)
    <3>1. Stream(e, n, wire[e], Live, b, ep[p], hist[p], HiddenTo(e), Foreign(e), c)
      BY <2>5 DEF StreamWith
    <3>2. SameSender(n, n, c) /\ SameBook(b, b, c) /\ SameLife(e, Live, Live)
      BY DEF SameSender, SameBook, SameLife
    <3>3. SameReceiver(ep[p], ep[p], c) /\ SameNews(hist[p], hist[p], c)
      BY DEF SameReceiver, SameNews
    <3>4. PICK H2, N2 : H2 = HiddenTo(e)' /\ N2 = Foreign(e)'
      OBVIOUS
    <3>5. H2 \subseteq HiddenTo(e) /\ N2 \subseteq Foreign(e)
      BY <1>4, <3>4, HiddenShrinks
    <3>6. Stream(e, n, wire[e], Live, b, ep[p], hist[p], H2, N2, c)
      BY <3>1, <3>2, <3>3, <3>5, StreamStays
    <3> QED
      BY <1>3, <2>3, <3>4, <3>6 DEF Sends
  <2> QED
    BY <2>1, <2>4, <2>5 DEF Tells
<1>7. AllTell(e)
  BY <1>6 DEF AllTell
<1> QED
  BY <1>3, <1>7, StepTells

LEMMA OwnStep ==
    ASSUME SInv, IInv', NEW e \in End, NEW n, NEW b, Becomes(e, n), NoNewOpen(ep[e], n),
           hist'[e] = b, hist'[Peer(e)] = hist[Peer(e)], Tale(b), AllTells(e, n, b)
    PROVE  SInv'
<1>1. Reaches(e, n)
  BY BecomesIs DEF SInv, IInv
<1> QED
  BY <1>1, ReachStep
-----------------------------------------------------------------------------
(* The steps of an application that sends. *)

\* What an application's step needs to know of its end.
LEMMA OwnIs ==
    ASSUME SInv, NEW e \in End
    PROVE  /\ Types /\ Local(e, ep[e]) /\ IsEnd(e, ep[e]) /\ DOMAIN ep[e] = Fields
           /\ Tale(hist[e]) /\ DOMAIN hist = End /\ Peer(e) \in End /\ Peer(e) # e
           /\ DOMAIN hist[e] = {"frames", "got", "ended", "givenUp", "closedHere", "torn"}
           /\ NoNewOpen(ep[e], ep[e])
BY PeerIs DEF SInv, Tales, IInv, Types, Flags, Histories, Local, IsEnd, NoNewOpen

LEMMA AcceptTells ==
    ASSUME SInv, NEW e \in End, AcceptBi(e)
    PROVE  SInv'
<1>0. IInv'
  BY AcceptKeeps DEF SInv
<1>1. /\ Types /\ DOMAIN ep[e] = Fields /\ Tale(hist[e])
  BY OwnIs
<1>2. PICK n : n = [ep[e] EXCEPT !.acceptQ = Tail(@)] /\ Becomes(e, n) /\ hist' = hist
  BY DEF AcceptBi
<1>3. /\ n.nextLocal = ep[e].nextLocal /\ n.reason = ep[e].reason /\ n.chans = ep[e].chans
      /\ n.out = ep[e].out /\ n.asm = ep[e].asm /\ n.rx = ep[e].rx
      /\ n.send = ep[e].send /\ n.recv = ep[e].recv /\ n.todo = ep[e].todo /\ n.held = ep[e].held
  BY <1>1, <1>2 DEF Fields
<1>4. ASSUME NEW c \in Ch PROVE Tells(e, n, hist[e], c)
  <2>1. SameSender(ep[e], n, c) /\ SameReceiver(ep[e], n, c)
    BY <1>3 DEF SameSender, SameReceiver
  <2>2. SameBook(hist[e], hist[e], c) /\ SameNews(hist[e], hist[e], c)
    BY DEF SameBook, SameNews
  <2> QED
    BY <2>1, <2>2, SameTells
<1>5. AllTells(e, n, hist[e])
  BY <1>4 DEF AllTells
<1>6. NoNewOpen(ep[e], n)
  BY <1>3 DEF NoNewOpen
<1>7. hist'[e] = hist[e] /\ hist'[Peer(e)] = hist[Peer(e)]
  BY <1>2
<1> QED
  BY <1>0, <1>1, <1>2, <1>5, <1>6, <1>7, OwnStep

\* Nobody holds a channel that the peer has not heard of.
LEMMA HeldIsKnown ==
    ASSUME SInv, NEW e \in End, NEW c \in Ch,
           c \in ep[e].chans \/ c \in ep[e].send \/ c \in ep[e].recv
    PROVE  c \notin Foreign(e)
<1>1. Peer(e) \in End /\ Peer(Peer(e)) = e
  BY PeerIs
<1>2. Unused(e, c) => Silent(ep[e], c)
  BY DEF SInv, IInv, UnusedIdle, Idle
<1>3. Hidden(Peer(e), c) => Silent(ep[e], c)
  BY <1>1 DEF SInv, IInv, HiddenIdle, Idle
<1> QED
  BY <1>2, <1>3 DEF Foreign, Silent

LEMMA BeginSendTells ==
    ASSUME SInv, NEW e \in End, NEW c \in Ch, NEW len \in FrameLens, BeginSend(e, c, len)
    PROVE  SInv'
<1>0. IInv'
  BY BeginSendKeeps DEF SInv
<1>1. /\ Types /\ IsEnd(e, ep[e]) /\ DOMAIN ep[e] = Fields /\ Tale(hist[e]) /\ DOMAIN hist = End
      /\ Peer(e) \in End /\ Peer(e) # e
      /\ DOMAIN hist[e] = {"frames", "got", "ended", "givenUp", "closedHere", "torn"}
  BY OwnIs
<1>2. PICK n, b :
        /\ n = [ep[e] EXCEPT !.todo[c] = Bytes(Len(hist[e].frames[c]) + 1, len)]
        /\ b = [hist[e] EXCEPT !.frames[c] = Append(@, len)]
        /\ Becomes(e, n) /\ hist'[e] = b /\ hist'[Peer(e)] = hist[Peer(e)]
        /\ c \in ep[e].send /\ ep[e].todo[c] = <<>> /\ ep[e].held[c] = <<>>
  BY <1>1 DEF BeginSend, Sending
<1>3. len \in 1 .. MaxFrame
  BY ConstantsAre
<1>4. /\ n.nextLocal = ep[e].nextLocal /\ n.reason = ep[e].reason /\ n.chans = ep[e].chans
      /\ n.out = ep[e].out /\ n.asm = ep[e].asm /\ n.rx = ep[e].rx
      /\ n.send = ep[e].send /\ n.recv = ep[e].recv /\ n.held = ep[e].held
      /\ n.todo = [ep[e].todo EXCEPT ![c] = Bytes(Len(hist[e].frames[c]) + 1, len)]
  BY <1>1, <1>2 DEF Fields
<1>5. /\ n.todo[c] = Bytes(Len(hist[e].frames[c]) + 1, len)
      /\ \A x \in Ch : x # c => n.todo[x] = ep[e].todo[x]
  BY <1>1, <1>4 DEF IsEnd
<1>6. /\ b.frames = [hist[e].frames EXCEPT ![c] = Append(@, len)]
      /\ b.got = hist[e].got /\ b.ended = hist[e].ended /\ b.givenUp = hist[e].givenUp
      /\ b.closedHere = hist[e].closedHere
  BY <1>1, <1>2
<1>7. /\ b.frames[c] = Append(hist[e].frames[c], len)
      /\ \A x \in Ch : x # c => b.frames[x] = hist[e].frames[x]
  BY <1>1, <1>6 DEF Tale
<1>8. Tale(b)
  <2>1. Append(hist[e].frames[c], len) \in Lengths
    BY <1>1, <1>3 DEF Tale, Lengths, Length
  <2> QED
    BY <1>1, <1>6, <2>1 DEF Tale
<1>9. Tells(e, n, b, c)
  <2>1. Begins(ep[e], n, hist[e], b, len, c)
    BY <1>2, <1>4, <1>5, <1>6, <1>7 DEF Begins
  <2>2. Typed(ep[e], wire[e], hist[e], ep[Peer(e)], hist[Peer(e)], c)
    BY TypedIs DEF SInv
  <2>3. Stream(e, ep[e], wire[e], Live, hist[e], ep[Peer(e)], hist[Peer(e)], HiddenTo(e), Foreign(e), c)
    BY DEF SInv, StreamOf
  <2>4. c \notin Foreign(e)
    BY <1>2, HeldIsKnown
  <2>5. Stream(e, n, wire[e], Live, b, ep[Peer(e)], hist[Peer(e)], HiddenTo(e), Foreign(e), c)
    BY <1>3, <2>1, <2>2, <2>3, <2>4, BeginMoves
  <2>6. SameReceiver(ep[e], n, c) /\ SameNews(hist[e], b, c)
    BY <1>4, <1>6 DEF SameReceiver, SameNews
  <2>7. Hears(ep[e], hist[e], n, b, HiddenTo(Peer(e)), c)
    BY <2>6, SameHears
  <2> QED
    BY <2>5, <2>7 DEF Tells, StreamWith
<1>10. ASSUME NEW x \in Ch, x # c PROVE Tells(e, n, b, x)
  <2>1. SameSender(ep[e], n, x) /\ SameReceiver(ep[e], n, x)
    BY <1>4, <1>5, <1>10 DEF SameSender, SameReceiver
  <2>2. SameBook(hist[e], b, x) /\ SameNews(hist[e], b, x)
    BY <1>6, <1>7, <1>10 DEF SameBook, SameNews
  <2> QED
    BY <2>1, <2>2, SameTells
<1>11. AllTells(e, n, b)
  BY <1>9, <1>10 DEF AllTells
<1>12. NoNewOpen(ep[e], n)
  BY <1>4 DEF NoNewOpen
<1> QED
  BY <1>0, <1>2, <1>8, <1>11, <1>12, OwnStep
\* An application that sends more, or sends no more, on channel c.
SendsOn(e, n, c) ==
    /\ n.nextLocal = ep[e].nextLocal /\ n.reason = ep[e].reason /\ n.chans = ep[e].chans
    /\ n.asm = ep[e].asm /\ n.rx = ep[e].rx /\ n.send = ep[e].send /\ n.recv = ep[e].recv
    /\ \A x \in Ch : x # c => /\ n.todo[x] = ep[e].todo[x] /\ n.held[x] = ep[e].held[x]
                              /\ n.out[x] = ep[e].out[x]

LEMMA SendingTells ==
    ASSUME SInv, IInv', NEW e \in End, NEW c \in Ch, NEW n, Becomes(e, n), hist' = hist,
           SendsOn(e, n, c), NoNewOpen(ep[e], n),
           Moved(e, ep[e], wire[e], Live, hist[e], n, wire[e], Live, hist[e], c)
    PROVE  SInv'
<1>1. Tale(hist[e]) /\ hist'[e] = hist[e] /\ hist'[Peer(e)] = hist[Peer(e)]
  BY OwnIs
<1>2. ASSUME NEW x \in Ch PROVE Tells(e, n, hist[e], x)
  <2>1. SameReceiver(ep[e], n, x) /\ SameNews(hist[e], hist[e], x) /\ SameBook(hist[e], hist[e], x)
    BY DEF SendsOn, SameReceiver, SameNews, SameBook
  <2>2. Hears(ep[e], hist[e], n, hist[e], HiddenTo(Peer(e)), x)
    BY <2>1, SameHears
  <2>3. CASE x = c
    BY <2>2, <2>3 DEF Tells
  <2>4. CASE x # c
    <3>1. SameSender(ep[e], n, x)
      BY <2>4 DEF SendsOn, SameSender
    <3> QED
      BY <2>1, <3>1, SameTells
  <2> QED
    BY <2>3, <2>4
<1>3. AllTells(e, n, hist[e])
  BY <1>2 DEF AllTells
<1> QED
  BY <1>1, <1>3, OwnStep

LEMMA CutInTwo ==
    ASSUME NEW S, NEW x \in Seq(S), NEW k \in Nat, k <= Len(x)
    PROVE  /\ SubSeq(x, 1, k) \in Seq(S) /\ SubSeq(x, k + 1, Len(x)) \in Seq(S)
           /\ SubSeq(x, 1, k) \o SubSeq(x, k + 1, Len(x)) = x
           /\ Len(SubSeq(x, k + 1, Len(x))) <= Len(x)
<1>1. PICK l \in Nat : l = Len(x) /\ k <= l /\ DOMAIN x = 1 .. l /\ \A i \in 1 .. l : x[i] \in S
  OBVIOUS
<1>2. PICK a, b : a = SubSeq(x, 1, k) /\ b = SubSeq(x, k + 1, l)
  OBVIOUS
<1>3. a \in Seq(S) /\ Len(a) = k /\ \A i \in 1 .. k : a[i] = x[i]
  BY <1>1, <1>2
<1>4. b \in Seq(S) /\ Len(b) = l - k /\ \A i \in 1 .. l - k : b[i] = x[k + i]
  BY <1>1, <1>2
<1>5. /\ a \o b \in Seq(S) /\ Len(a \o b) = Len(a) + Len(b)
      /\ \A i \in 1 .. Len(a) + Len(b) : (a \o b)[i] = IF i <= Len(a) THEN a[i] ELSE b[i - Len(a)]
  BY <1>3, <1>4, ConcatProperties
<1>6. \A i \in 1 .. l : (a \o b)[i] = x[i]
  <2>1. \A i \in 1 .. l : (a \o b)[i] = IF i <= k THEN a[i] ELSE b[i - k]
    BY <1>1, <1>3, <1>4, <1>5
  <2>2. \A i \in 1 .. l : i <= k => i \in 1 .. k
    BY <1>1
  <2>3. \A i \in 1 .. l : ~(i <= k) => i - k \in 1 .. l - k /\ k + (i - k) = i
    BY <1>1
  <2> QED
    BY <1>3, <1>4, <2>1, <2>2, <2>3
<1>7. a \o b = x
  <2>1. PICK y \in Seq(S) : y = a \o b
    BY <1>5
  <2>2. Len(y) = Len(x) /\ \A i \in 1 .. Len(y) : y[i] = x[i]
    BY <1>1, <1>3, <1>4, <1>5, <1>6, <2>1
  <2>3. y = x
    BY <2>2, SeqEqual
  <2> QED
    BY <2>1, <2>3
<1>8. Len(b) <= l
  BY <1>1, <1>4
<1> QED
  BY <1>1, <1>2, <1>3, <1>4, <1>7, <1>8

LEMMA AcquireTells ==
    ASSUME SInv, NEW e \in End, NEW c \in Ch, AcquireCredit(e, c)
    PROVE  SInv'
<1>0. IInv'
  BY AcquireKeeps DEF SInv
<1>1. IsEnd(e, ep[e]) /\ DOMAIN ep[e] = Fields /\ hist[e].frames[c] \in Lengths
  BY OwnIs DEF Tale
<1>2. PICK m, x, k : m = ep[e] /\ x = m.todo[c] /\ k = IF Len(x) < MaxSeg THEN Len(x) ELSE MaxSeg
  OBVIOUS
<1>3. x \in Strand /\ k \in Nat /\ k <= Len(x)
  <2>1. x \in Seq(Byte)
    BY <1>1, <1>2 DEF IsEnd
  <2> QED
    BY <1>2, <2>1, ConstantsAre DEF Strand
<1>4. PICK a \in Strand, b \in Strand :
        /\ a = SubSeq(x, 1, k) /\ b = SubSeq(x, k + 1, Len(x)) /\ a \o b = x /\ Len(b) <= Len(x)
  <2>1. PICK a \in Strand, b \in Strand : a = SubSeq(x, 1, k) /\ b = SubSeq(x, k + 1, Len(x))
    BY <1>3, CutInTwo DEF Strand
  <2>2. SubSeq(x, 1, k) \o SubSeq(x, k + 1, Len(x)) = x
    BY <1>3, CutInTwo DEF Strand
  <2>3. Len(SubSeq(x, k + 1, Len(x))) <= Len(x)
    BY <1>3, CutInTwo DEF Strand
  <2> QED
    BY <2>1, <2>2, <2>3
<1>5. PICK n : /\ n = [m EXCEPT !.credit[c] = @ - k, !.held[c] = a, !.todo[c] = b]
               /\ Becomes(e, n)
               /\ hist' = hist /\ x # <<>> /\ m.held[c] = <<>> /\ c \in m.chans
  BY <1>2, <1>4 DEF AcquireCredit
<1>6. /\ n.nextLocal = m.nextLocal /\ n.reason = m.reason /\ n.chans = m.chans
      /\ n.asm = m.asm /\ n.rx = m.rx /\ n.send = m.send /\ n.recv = m.recv /\ n.out = m.out
      /\ n.held = [m.held EXCEPT ![c] = a] /\ n.todo = [m.todo EXCEPT ![c] = b]
  BY <1>1, <1>2, <1>5 DEF Fields
<1>7. /\ n.held[c] = a /\ n.todo[c] = b
      /\ \A y \in Ch : y # c => n.held[y] = m.held[y] /\ n.todo[y] = m.todo[y]
  BY <1>1, <1>2, <1>6 DEF IsEnd
<1>8. SendsOn(e, n, c)
  BY <1>2, <1>6, <1>7 DEF SendsOn
<1>9. NoNewOpen(ep[e], n)
  BY <1>2, <1>6 DEF NoNewOpen
<1>10. Moved(e, m, wire[e], Live, hist[e], n, wire[e], Live, hist[e], c)
  <2>1. Acquires(m, n, c)
    BY <1>2, <1>4, <1>5, <1>6, <1>7 DEF Acquires
  <2>2. Sender(e, m, wire[e], Live, hist[e], c)
    BY <1>2 DEF SInv, StreamOf, Stream
  <2>3. m.todo[c] \in Strand /\ n.todo[c] \in Strand
    BY <1>2, <1>3, <1>7
  <2>4. Sender(e, n, wire[e], Live, hist[e], c)
    BY <1>1, <2>1, <2>2, <2>3, AcquireMoves
  <2>5. NoneBegun(m, hist[e], n, hist[e], c)
    BY <1>1, <2>1, <2>2, <2>3, AcquireMoves
  <2>6. Carries(e, m, wire[e], Live, hist[e], n, wire[e], Live, hist[e], c)
    BY <1>1, <2>1, <2>2, <2>3, AcquireMoves
  <2> QED
    BY <2>4, <2>5, <2>6 DEF Moved
<1> QED
  BY <1>0, <1>2, <1>5, <1>8, <1>9, <1>10, SendingTells

LEMMA PushTells ==
    ASSUME SInv, NEW e \in End, NEW c \in Ch, PushData(e, c)
    PROVE  SInv'
<1>0. IInv'
  BY PushKeeps DEF SInv
<1>1. IsEnd(e, ep[e]) /\ DOMAIN ep[e] = Fields /\ wire[e] \in Seq(Segment)
  BY OwnIs, EndsAre
<1>2. PICK m, n : /\ m = ep[e] /\ Becomes(e, n) /\ hist' = hist
                  /\ n = [m EXCEPT !.out[c] = Append(@, DataSeg(c, m.held[c])), !.held[c] = <<>>]
                  /\ m.held[c] # <<>> /\ c \in m.chans
  BY DEF PushData
<1>3. /\ n.nextLocal = m.nextLocal /\ n.reason = m.reason /\ n.chans = m.chans
      /\ n.asm = m.asm /\ n.rx = m.rx /\ n.send = m.send /\ n.recv = m.recv /\ n.todo = m.todo
      /\ n.out = [m.out EXCEPT ![c] = Append(@, DataSeg(c, m.held[c]))]
      /\ n.held = [m.held EXCEPT ![c] = <<>>]
  BY <1>1, <1>2 DEF Fields
<1>4. /\ n.out[c] = Append(m.out[c], DataSeg(c, m.held[c])) /\ n.held[c] = <<>>
      /\ \A y \in Ch : y # c => n.held[y] = m.held[y] /\ n.out[y] = m.out[y]
  <2>1. DOMAIN m.out = Ch /\ DOMAIN m.held = Ch
    BY <1>1, <1>2 DEF IsEnd
  <2> QED
    BY <1>3, <2>1
<1>5. m.todo[c] \in Strand /\ m.held[c] \in Strand /\ m.out[c] \in Seq(Segment)
  BY <1>1, <1>2, QueuesAre DEF IsEnd, Strand
<1>6. SendsOn(e, n, c)
  BY <1>2, <1>3, <1>4 DEF SendsOn
<1>7. NoNewOpen(ep[e], n)
  <2>1. PICK q \in Seq(Segment), d \in {DataSeg(c, m.held[c])} :
          q = m.out[c] /\ n.out[c] = Append(q, d)
    BY <1>4, <1>5
  <2>2. ~IsOpen(d, c)
    BY <2>1 DEF DataSeg, IsOpen
  <2>3. \A i \in DOMAIN Append(q, d) : IsOpen(Append(q, d)[i], c) => i \in DOMAIN q /\ IsOpen(q[i], c)
    <3>1. PICK l \in Nat : l = Len(q) /\ DOMAIN q = 1 .. l /\ DOMAIN Append(q, d) = 1 .. l + 1
                           /\ Append(q, d)[l + 1] = d /\ \A i \in 1 .. l : Append(q, d)[i] = q[i]
      <4>1. Append(q, d)[Len(q) + 1] = d /\ \A i \in 1 .. Len(q) : Append(q, d)[i] = q[i]
        OBVIOUS
      <4>2. DOMAIN q = 1 .. Len(q) /\ DOMAIN Append(q, d) = 1 .. Len(q) + 1
        OBVIOUS
      <4>3. PICK l \in Nat : l = Len(q)
        OBVIOUS
      <4> QED
        BY <4>1, <4>2, <4>3
    <3>2. \A i \in 1 .. l + 1 : i \in 1 .. l \/ i = l + 1
      BY <3>1
    <3> QED
      BY <2>2, <3>1, <3>2
  <2> QED
    <3>1. n.nextLocal = ep[e].nextLocal
      BY <1>2, <1>3
    <3>2. ASSUME NEW x \in Ch, NEW i \in DOMAIN n.out[x], IsOpen(n.out[x][i], x)
          PROVE  i \in DOMAIN ep[e].out[x] /\ IsOpen(ep[e].out[x][i], x)
      <4>1. CASE x # c
        BY <1>2, <1>4, <3>2, <4>1
      <4>2. CASE x = c
        BY <1>2, <2>1, <2>3, <3>2, <4>2
      <4> QED
        BY <4>1, <4>2
    <3> QED
      BY <3>1, <3>2 DEF NoNewOpen
<1>8. Moved(e, m, wire[e], Live, hist[e], n, wire[e], Live, hist[e], c)
  <2>1. Pushes(m, n, c)
    BY <1>2, <1>3, <1>4 DEF Pushes
  <2>2. Sender(e, m, wire[e], Live, hist[e], c)
    BY <1>2 DEF SInv, StreamOf, Stream
  <2>3. Sender(e, n, wire[e], Live, hist[e], c)
    BY <1>1, <1>5, <2>1, <2>2, PushMoves
  <2>4. NoneBegun(m, hist[e], n, hist[e], c)
    BY <1>1, <1>5, <2>1, <2>2, PushMoves
  <2>5. Carries(e, m, wire[e], Live, hist[e], n, wire[e], Live, hist[e], c)
    BY <1>1, <1>5, <2>1, <2>2, PushMoves
  <2> QED
    BY <2>3, <2>4, <2>5 DEF Moved
<1> QED
  BY <1>0, <1>2, <1>6, <1>7, <1>8, SendingTells

LEMMA SendFailsTells ==
    ASSUME SInv, NEW e \in End, NEW c \in Ch, SendFails(e, c)
    PROVE  SInv'
<1>0. IInv'
  BY SendFailsKeeps DEF SInv
<1>1. IsEnd(e, ep[e]) /\ DOMAIN ep[e] = Fields
  BY OwnIs
<1>2. PICK m, n : /\ m = ep[e] /\ Becomes(e, n) /\ hist' = hist /\ c \notin m.chans
                  /\ n = [m EXCEPT !.todo[c] = <<>>, !.held[c] = <<>>]
  BY DEF SendFails
<1>3. /\ n.nextLocal = m.nextLocal /\ n.reason = m.reason /\ n.chans = m.chans
      /\ n.asm = m.asm /\ n.rx = m.rx /\ n.send = m.send /\ n.recv = m.recv /\ n.out = m.out
      /\ n.todo = [m.todo EXCEPT ![c] = <<>>] /\ n.held = [m.held EXCEPT ![c] = <<>>]
  BY <1>1, <1>2 DEF Fields
<1>4. /\ n.todo[c] = <<>> /\ n.held[c] = <<>>
      /\ \A y \in Ch : y # c => n.held[y] = m.held[y] /\ n.todo[y] = m.todo[y]
  <2>1. DOMAIN m.todo = Ch /\ DOMAIN m.held = Ch
    BY <1>1, <1>2 DEF IsEnd
  <2> QED
    BY <1>3, <2>1
<1>5. SendsOn(e, n, c)
  BY <1>2, <1>3, <1>4 DEF SendsOn
<1>6. NoNewOpen(ep[e], n)
  BY <1>2, <1>3 DEF NoNewOpen
<1>7. Moved(e, m, wire[e], Live, hist[e], n, wire[e], Live, hist[e], c)
  <2>1. Forgets(m, n, c)
    BY <1>2, <1>3, <1>4 DEF Forgets
  <2>2. Sender(e, m, wire[e], Live, hist[e], c)
    BY <1>2 DEF SInv, StreamOf, Stream
  <2>3. Sender(e, n, wire[e], Live, hist[e], c)
    BY <2>1, <2>2, ForgetMoves
  <2>4. NoneBegun(m, hist[e], n, hist[e], c)
    BY <2>1, <2>2, ForgetMoves
  <2>5. Carries(e, m, wire[e], Live, hist[e], n, wire[e], Live, hist[e], c)
    BY <2>1, <2>2, ForgetMoves
  <2> QED
    BY <2>3, <2>4, <2>5 DEF Moved
<1> QED
  BY <1>0, <1>2, <1>5, <1>6, <1>7, SendingTells
-----------------------------------------------------------------------------
(* The steps of an application that receives. *)

\* What was moved from the queue of a receiver to its application.
LEMMA TakeOne ==
    ASSUME NEW q \in Seq(Frame), NEW g \in Seq(Frame), q # <<>>
    PROVE  /\ Append(g, Head(q)) \o Tail(q) = g \o q
           /\ Head(q) \in Frame /\ Append(g, Head(q)) \in Seq(Frame)
<1>1. PICK f \in Frame, t \in Seq(Frame), k \in Nat, l \in Nat :
        /\ f = Head(q) /\ t = Tail(q) /\ k = Len(g) /\ l = Len(t) /\ Len(q) = l + 1
        /\ f = q[1] /\ \A i \in 1 .. l : t[i] = q[i + 1]
  <2>1. /\ Head(q) \in Frame /\ Tail(q) \in Seq(Frame) /\ Len(Tail(q)) = Len(q) - 1
        /\ \A i \in 1 .. Len(Tail(q)) : Tail(q)[i] = q[i + 1]
    BY HeadTailProperties
  <2>2. Len(q) \in Nat /\ Len(Tail(q)) \in Nat /\ Len(g) \in Nat /\ Head(q) = q[1]
    BY <2>1
  <2>3. Len(q) = Len(Tail(q)) + 1
    BY <2>1, <2>2
  <2> QED
    BY <2>1, <2>2, <2>3
<1>2. Append(g, f) \in Seq(Frame) /\ Len(Append(g, f)) = k + 1
      /\ Append(g, f)[k + 1] = f /\ \A i \in 1 .. k : Append(g, f)[i] = g[i]
  BY <1>1
<1>3. /\ Append(g, f) \o t \in Seq(Frame) /\ g \o q \in Seq(Frame)
      /\ Len(Append(g, f) \o t) = (k + 1) + l /\ Len(g \o q) = k + (l + 1)
  BY <1>1, <1>2
<1>4. \A i \in 1 .. (k + 1) + l : (Append(g, f) \o t)[i] = (g \o q)[i]
  <2> SUFFICES ASSUME NEW i \in 1 .. (k + 1) + l
               PROVE  (Append(g, f) \o t)[i] = (g \o q)[i]
    OBVIOUS
  <2>1. (Append(g, f) \o t)[i] = IF i <= k + 1 THEN Append(g, f)[i] ELSE t[i - (k + 1)]
    BY <1>1, <1>2
  <2>2. (g \o q)[i] = IF i <= k THEN g[i] ELSE q[i - k]
    BY <1>1
  <2>3. CASE i \in 1 .. k
    <3>1. i <= k + 1 /\ i <= k
      BY <1>1, <2>3
    <3> QED
      BY <1>2, <2>1, <2>2, <2>3, <3>1
  <2>4. CASE i = k + 1
    <3>1. i <= k + 1 /\ ~(i <= k) /\ i - k = 1
      BY <1>1, <2>4
    <3> QED
      BY <1>1, <1>2, <2>1, <2>2, <2>4, <3>1
  <2>5. CASE ~(i <= k + 1)
    <3>1. ~(i <= k) /\ i - (k + 1) \in 1 .. l /\ (i - (k + 1)) + 1 = i - k
      BY <1>1, <2>5
    <3> QED
      BY <1>1, <2>1, <2>2, <2>5, <3>1
  <2>6. i \in 1 .. k \/ i = k + 1 \/ ~(i <= k + 1)
    BY <1>1
  <2> QED
    BY <2>3, <2>4, <2>5, <2>6
<1>5. (k + 1) + l = k + (l + 1)
  BY <1>1
<1>6. Append(g, f) \o t = g \o q
  BY <1>3, <1>4, <1>5, SeqEqual
<1> QED
  BY <1>1, <1>2, <1>6

LEMMA RecvFrameTells ==
    ASSUME SInv, NEW e \in End, NEW c \in Ch, RecvFrame(e, c)
    PROVE  SInv'
<1>0. IInv'
  BY RecvFrameKeeps DEF SInv
<1>1. /\ IsEnd(e, ep[e]) /\ DOMAIN ep[e] = Fields /\ Tale(hist[e]) /\ DOMAIN hist = End
      /\ Peer(e) \in End /\ Peer(e) # e
      /\ DOMAIN hist[e] = {"frames", "got", "ended", "givenUp", "closedHere", "torn"}
  BY OwnIs
<1>2. PICK m, h, f : m = ep[e] /\ h = hist[e] /\ f = Head(m.rx[c])
  OBVIOUS
<1>3. PICK n, b : /\ n = [m EXCEPT !.rx[c] = Tail(@), !.taken[c] = Len(f)]
                  /\ b = [h EXCEPT !.got[c] = Append(@, f)]
                  /\ Becomes(e, n) /\ hist'[e] = b /\ hist'[Peer(e)] = hist[Peer(e)]
                  /\ c \in m.recv /\ m.rx[c] # <<>>
  BY <1>1, <1>2 DEF RecvFrame
<1>4. /\ DOMAIN m = Fields /\ DOMAIN m.rx = Ch /\ m.rx[c] \in Seq(Frame)
      /\ h.got[c] \in Seq(Frame) /\ DOMAIN h.got = Ch
      /\ DOMAIN h = {"frames", "got", "ended", "givenUp", "closedHere", "torn"}
  BY <1>1, <1>2 DEF IsEnd, Tale
<1>5. /\ n.nextLocal = m.nextLocal /\ n.reason = m.reason /\ n.chans = m.chans
      /\ n.asm = m.asm /\ n.send = m.send /\ n.recv = m.recv /\ n.out = m.out
      /\ n.todo = m.todo /\ n.held = m.held /\ n.rx = [m.rx EXCEPT ![c] = Tail(@)]
  BY <1>3, <1>4 DEF Fields
<1>6. n.rx[c] = Tail(m.rx[c]) /\ \A x \in Ch : x # c => n.rx[x] = m.rx[x]
  BY <1>4, <1>5
<1>7. /\ b.frames = h.frames /\ b.ended = h.ended /\ b.givenUp = h.givenUp
      /\ b.closedHere = h.closedHere /\ b.got = [h.got EXCEPT ![c] = Append(@, f)]
  BY <1>3, <1>4
<1>8. b.got[c] = Append(h.got[c], f) /\ \A x \in Ch : x # c => b.got[x] = h.got[x]
  BY <1>4, <1>7
<1>9. /\ b.got[c] \o n.rx[c] = h.got[c] \o m.rx[c] /\ Append(h.got[c], f) \in Seq(Frame)
  <2>1. Append(h.got[c], f) \o Tail(m.rx[c]) = h.got[c] \o m.rx[c]
    BY <1>2, <1>3, <1>4, TakeOne
  <2>2. Append(h.got[c], f) \in Seq(Frame)
    BY <1>2, <1>3, <1>4, TakeOne
  <2> QED
    BY <1>6, <1>8, <2>1, <2>2
<1>10. Tale(b)
  <2>1. b.got \in [Ch -> Seq(Frame)]
    BY <1>1, <1>2, <1>7, <1>9 DEF Tale
  <2> QED
    BY <1>1, <1>2, <1>7, <2>1 DEF Tale
<1>11. ASSUME NEW x \in Ch PROVE Tells(e, n, b, x)
  <2>1. SameSender(m, n, x) /\ SameBook(h, b, x)
    BY <1>5, <1>7 DEF SameSender, SameBook
  <2>2. CASE x # c
    <3>1. SameReceiver(m, n, x) /\ SameNews(h, b, x)
      BY <1>5, <1>6, <1>7, <1>8, <2>2 DEF SameReceiver, SameNews
    <3> QED
      BY <1>2, <2>1, <3>1, SameTells
  <2>3. CASE x = c
    <3>1. Hears(m, h, n, b, HiddenTo(Peer(e)), c)
      <4>1. Decoded(n, b, c) = Decoded(m, h, c)
        BY <1>9 DEF Decoded
      <4> QED
        BY <1>3, <1>5, <1>7, <4>1 DEF Hears, WasReset, WasTold, Closed
    <3>2. Sender(e, m, wire[e], Live, h, c) /\ SameLife(e, Live, Live)
      BY <1>2 DEF SInv, StreamOf, Stream, SameLife
    <3>3. SameSender(m, n, c) /\ SameBook(h, b, c)
      BY <2>1, <2>3
    <3>4. Moved(e, m, wire[e], Live, h, n, wire[e], Live, b, c)
      BY <3>2, <3>3, SameMoved
    <3> QED
      BY <1>2, <2>3, <3>1, <3>4 DEF Tells
  <2> QED
    BY <2>2, <2>3
<1>12. AllTells(e, n, b)
  BY <1>11 DEF AllTells
<1>13. NoNewOpen(ep[e], n)
  BY <1>2, <1>5 DEF NoNewOpen
<1> QED
  BY <1>0, <1>3, <1>10, <1>12, <1>13, OwnStep

LEMMA RecvCreditTells ==
    ASSUME SInv, NEW e \in End, NEW c \in Ch, RecvCredit(e, c)
    PROVE  SInv'
<1>0. IInv'
  BY RecvCreditKeeps DEF SInv
<1>1. /\ IsEnd(e, ep[e]) /\ DOMAIN ep[e] = Fields /\ Tale(hist[e])
  BY OwnIs
<1>2. PICK m, o, n : /\ m = ep[e] /\ o = ReturnCredit(m, c, m.taken[c])
                     /\ n = [o EXCEPT !.taken[c] = 0] /\ Becomes(e, n) /\ hist' = hist
  BY DEF RecvCredit
<1>3. /\ DOMAIN o = Fields /\ o.nextLocal = m.nextLocal /\ o.reason = m.reason
      /\ o.chans = m.chans /\ o.asm = m.asm /\ o.rx = m.rx /\ o.send = m.send
      /\ o.recv = m.recv /\ o.todo = m.todo /\ o.held = m.held /\ o.out = m.out
  BY <1>1, <1>2 DEF ReturnCredit, Fields
<1>4. /\ n.nextLocal = m.nextLocal /\ n.reason = m.reason
      /\ n.chans = m.chans /\ n.asm = m.asm /\ n.rx = m.rx /\ n.send = m.send
      /\ n.recv = m.recv /\ n.todo = m.todo /\ n.held = m.held /\ n.out = m.out
  BY <1>2, <1>3 DEF Fields
<1>5. ASSUME NEW x \in Ch PROVE Tells(e, n, hist[e], x)
  <2>1. SameSender(ep[e], n, x) /\ SameReceiver(ep[e], n, x)
    BY <1>2, <1>4 DEF SameSender, SameReceiver
  <2>2. SameBook(hist[e], hist[e], x) /\ SameNews(hist[e], hist[e], x)
    BY DEF SameBook, SameNews
  <2> QED
    BY <2>1, <2>2, SameTells
<1>6. AllTells(e, n, hist[e])
  BY <1>5 DEF AllTells
<1>7. NoNewOpen(ep[e], n)
  BY <1>2, <1>4 DEF NoNewOpen
<1>8. hist'[e] = hist[e] /\ hist'[Peer(e)] = hist[Peer(e)]
  BY <1>2
<1> QED
  BY <1>0, <1>1, <1>2, <1>6, <1>7, <1>8, OwnStep

LEMMA RecvEndTells ==
    ASSUME SInv, NEW e \in End, NEW c \in Ch, RecvEnd(e, c)
    PROVE  SInv'
<1>0. IInv'
  BY RecvEndKeeps DEF SInv
<1>1. /\ Types /\ DOMAIN hist = End /\ Peer(e) \in End /\ Peer(e) # e /\ Tale(hist[e])
      /\ DOMAIN hist[e] = {"frames", "got", "ended", "givenUp", "closedHere", "torn"}
      /\ NoNewOpen(ep[e], ep[e])
  BY OwnIs
<1>2. PICK m, h, v : /\ m = ep[e] /\ h = hist[e]
                     /\ hist' = [hist EXCEPT ![e].ended[c] = v] /\ (v = "reset" => m.reason = "none")
                     /\ c \in m.recv /\ m.rx[c] = <<>> /\ c \notin m.chans
                     /\ ep' = ep /\ wire' = wire /\ fin' = fin /\ alive' = alive
  <2>1. /\ c \in ep[e].recv /\ ep[e].rx[c] = <<>> /\ c \notin ep[e].chans
        /\ ep' = ep /\ wire' = wire /\ fin' = fin /\ alive' = alive
    BY DEF RecvEnd
  <2>2. PICK v : v = IF ep[e].reason = "none" THEN "reset"
                     ELSE IF ep[e].reason = "clean" THEN "clean" ELSE "error"
    OBVIOUS
  <2>3. hist' = [hist EXCEPT ![e].ended[c] = v] /\ (v = "reset" => ep[e].reason = "none")
    BY <2>2 DEF RecvEnd
  <2> QED
    BY <2>1, <2>3
<1>3. PICK b : b = [h EXCEPT !.ended[c] = v] /\ hist'[e] = b /\ hist'[Peer(e)] = hist[Peer(e)]
  BY <1>1, <1>2
<1>4. /\ b.frames = h.frames /\ b.got = h.got /\ b.givenUp = h.givenUp
      /\ b.closedHere = h.closedHere /\ b.ended = [h.ended EXCEPT ![c] = v]
  BY <1>1, <1>2, <1>3
<1>5. b.ended[c] = v /\ \A x \in Ch : x # c => b.ended[x] = h.ended[x]
  BY <1>1, <1>2, <1>4 DEF Tale
<1>6. Reaches(e, m)
  BY <1>2 DEF Reaches
<1>7. Tale(b)
  BY <1>1, <1>2, <1>4 DEF Tale
<1>8. ASSUME NEW x \in Ch PROVE Tells(e, m, b, x)
  <2>1. SameSender(m, m, x) /\ SameReceiver(m, m, x) /\ SameBook(h, b, x)
    BY <1>4 DEF SameSender, SameReceiver, SameBook
  <2>2. CASE x # c
    <3>1. SameNews(h, b, x)
      BY <1>4, <1>5, <2>2 DEF SameNews
    <3> QED
      BY <1>2, <2>1, <3>1, SameTells
  <2>3. CASE x = c
    <3>1. Hears(m, h, m, b, HiddenTo(Peer(e)), c)
      BY <1>2, <1>4, <1>5 DEF Hears, Decoded, WasReset, WasTold, Closed
    <3>2. Sender(e, m, wire[e], Live, h, c) /\ SameLife(e, Live, Live)
      BY <1>2 DEF SInv, StreamOf, Stream, SameLife
    <3>3. SameSender(m, m, c) /\ SameBook(h, b, c)
      BY <2>1, <2>3
    <3>4. Moved(e, m, wire[e], Live, h, m, wire[e], Live, b, c)
      BY <3>2, <3>3, SameMoved
    <3> QED
      BY <1>2, <2>3, <3>1, <3>4 DEF Tells
  <2> QED
    BY <2>2, <2>3
<1>9. AllTells(e, m, b)
  BY <1>8 DEF AllTells
<1>10. NoNewOpen(ep[e], m)
  BY <1>1, <1>2
<1> QED
  BY <1>0, <1>3, <1>6, <1>7, <1>9, <1>10, ReachStep
-----------------------------------------------------------------------------
(* Halves are dropped, and channels and connections closed. *)

LEMMA MovedTwice ==
    ASSUME NEW s, NEW m, NEW w, NEW L, NEW h, NEW n, NEW v, NEW L2, NEW h2,
           NEW o, NEW u, NEW L3, NEW h3, NEW c,
           Moved(s, m, w, L, h, n, v, L2, h2, c), Moved(s, n, v, L2, h2, o, u, L3, h3, c)
    PROVE  Moved(s, m, w, L, h, o, u, L3, h3, c)
<1>1. Sender(s, o, u, L3, h3, c)
  BY DEF Moved
<1>2. NoneBegun(m, h, o, h3, c)
  BY DEF Moved, NoneBegun
<1>3. ASSUME NEW lost \in Strand, Lost(s, m, w, L, h, c, lost)
      PROVE  \E more \in Strand :
               /\ SameJoin(Supply(s, m, w, L, c), lost, Supply(s, o, u, L3, c), more)
               /\ Lost(s, o, u, L3, h3, c, more)
  <2>1. PICK x \in Strand : /\ SameJoin(Supply(s, m, w, L, c), lost, Supply(s, n, v, L2, c), x)
                            /\ Lost(s, n, v, L2, h2, c, x)
    BY <1>3 DEF Moved, Carries
  <2>2. PICK y \in Strand : /\ SameJoin(Supply(s, n, v, L2, c), x, Supply(s, o, u, L3, c), y)
                            /\ Lost(s, o, u, L3, h3, c, y)
    BY <2>1 DEF Moved, Carries
  <2>3. SameJoin(Supply(s, m, w, L, c), lost, Supply(s, o, u, L3, c), y)
    BY <2>1, <2>2 DEF SameJoin
  <2> QED
    BY <2>2, <2>3
<1>4. Carries(s, m, w, L, h, o, u, L3, h3, c)
  BY <1>3 DEF Carries
<1> QED
  BY <1>1, <1>2, <1>4 DEF Moved

\* Channel c closes, if it was open, behind what is queued on it.
Shuts(m, n, c) ==
    /\ n.nextLocal = m.nextLocal /\ n.reason = m.reason /\ n.asm = m.asm /\ n.rx = m.rx
    /\ n.send = m.send /\ n.recv = m.recv /\ n.todo = m.todo /\ n.held = m.held
    /\ n.chans = m.chans \ {c}
    /\ c \in m.chans => n.out[c] = Append(m.out[c], ResetSeg(c))
    /\ c \notin m.chans => n.out[c] = m.out[c]
    /\ \A x \in Ch : x # c => n.out[x] = m.out[x]

LEMMA CloseShuts ==
    ASSUME NEW e, NEW m, IsEnd(e, m), NEW c \in Ch, NEW n, n = CloseChannel(m, c)
    PROVE  Shuts(m, n, c)
<1>1. CASE Closed(m) \/ c \notin m.chans
  <2>1. c \notin m.chans /\ m.chans = m.chans \ {c}
    BY <1>1 DEF IsEnd, Closed
  <2> QED
    BY <1>1, <2>1 DEF CloseChannel, Shuts
<1>2. CASE ~Closed(m) /\ c \in m.chans
  <2>1. /\ DOMAIN m = Fields /\ m.retired \in Seq(Ch) /\ DOMAIN m.out = Ch
    BY DEF IsEnd
  <2>2. PICK o : o = [m EXCEPT !.chans = @ \ {c}, !.out[c] = Append(@, ResetSeg(c))]
    OBVIOUS
  <2>3. /\ DOMAIN o = Fields /\ o.chans = m.chans \ {c}
        /\ o.out = [m.out EXCEPT ![c] = Append(@, ResetSeg(c))] /\ o.retired = m.retired
        /\ o.reason = m.reason /\ o.nextLocal = m.nextLocal /\ o.asm = m.asm /\ o.rx = m.rx
        /\ o.send = m.send /\ o.recv = m.recv /\ o.todo = m.todo /\ o.held = m.held
    BY <2>1, <2>2 DEF Fields
  <2>4. n = Retire(o, c)
    BY <1>2, <2>2 DEF CloseChannel
  <2>5. n = [o EXCEPT !.retired = n.retired]
    BY <2>1, <2>3, <2>4, RetireIs
  <2>6. /\ n.chans = m.chans \ {c} /\ n.out = [m.out EXCEPT ![c] = Append(@, ResetSeg(c))]
        /\ n.reason = m.reason /\ n.nextLocal = m.nextLocal /\ n.asm = m.asm /\ n.rx = m.rx
        /\ n.send = m.send /\ n.recv = m.recv /\ n.todo = m.todo /\ n.held = m.held
    BY <2>3, <2>5 DEF Fields
  <2>7. n.out[c] = Append(m.out[c], ResetSeg(c)) /\ \A x \in Ch : x # c => n.out[x] = m.out[x]
    BY <2>1, <2>6
  <2> QED
    BY <1>2, <2>6, <2>7 DEF Shuts
<1> QED
  BY <1>1, <1>2

LEMMA ShutsMoved ==
    ASSUME NEW s, NEW m, NEW w, NEW L, NEW h, NEW n, NEW r, NEW g, NEW c \in Ch,
           Typed(m, w, h, r, g, c), Sender(s, m, w, L, h, c), Shuts(m, n, c), c \notin m.send
    PROVE  Moved(s, m, w, L, h, n, w, L, h, c)
<1>1. CASE c \in m.chans
  <2>1. Closes(m, n, c)
    BY <1>1 DEF Closes, Shuts
  <2>2. Sender(s, n, w, L, h, c)
    BY <2>1, CloseMoves
  <2>3. NoneBegun(m, h, n, h, c)
    BY <2>1, CloseMoves
  <2>4. Carries(s, m, w, L, h, n, w, L, h, c)
    BY <2>1, CloseMoves
  <2> QED
    BY <2>2, <2>3, <2>4 DEF Moved
<1>2. CASE c \notin m.chans
  <2>1. SameSender(m, n, c) /\ SameBook(h, h, c) /\ SameLife(s, L, L)
    BY <1>2 DEF SameSender, SameBook, SameLife, Shuts
  <2> QED
    BY <2>1, SameMoved
<1> QED
  BY <1>1, <1>2

\* A half of c is let go of, with the call that is parked in it.
LetsGo(m, o, c) ==
    /\ o.nextLocal = m.nextLocal /\ o.reason = m.reason /\ o.chans = m.chans
    /\ o.asm = m.asm /\ o.out = m.out /\ o.held = m.held
    /\ \A x \in Ch : x # c => /\ o.todo[x] = m.todo[x] /\ o.rx[x] = m.rx[x]
                              /\ (x \in o.send <=> x \in m.send) /\ (x \in o.recv <=> x \in m.recv)
    /\ c \in o.recv => c \in m.recv
    /\ o.rx[c] = m.rx[c] \/ (o.rx[c] = <<>> /\ c \notin o.recv)
StopsSending(m, o, given, c) ==
    \/ ~given /\ SameSender(m, o, c)
    \/ /\ c \in m.send /\ c \notin o.send
       /\ m.held[c] = <<>> /\ o.todo[c] = <<>> /\ (given <=> m.todo[c] # <<>>)

\* The step of an end that gives up a handle of c.
Sheds(e, c, o, last, given) ==
    /\ Released(ep[e], o) /\ LetsGo(ep[e], o, c) /\ last \in BOOLEAN /\ given \in BOOLEAN
    /\ last => c \notin o.send
    /\ StopsSending(ep[e], o, given, c) /\ Drops(e, o, c, last, given)

LEMMA DropsTells ==
    ASSUME SInv, NEW e \in End, NEW c \in Ch, NEW o, NEW last, NEW given,
           Sheds(e, c, o, last, given)
    PROVE  SInv'
<1> USE DEF Sheds
<1>0. IInv'
  BY DropsKeeps DEF SInv
<1>1. /\ Local(e, ep[e]) /\ IsEnd(e, ep[e]) /\ Tale(hist[e]) /\ DOMAIN hist = End
      /\ Peer(e) \in End /\ Peer(e) # e
      /\ DOMAIN hist[e] = {"frames", "got", "ended", "givenUp", "closedHere", "torn"}
  BY OwnIs
<1>2. PICK m, h, w : m = ep[e] /\ h = hist[e] /\ w = wire[e]
  OBVIOUS
<1>3. PICK n : n = IF last THEN CloseChannel(o, c) ELSE o
  OBVIOUS
<1>4. PICK b : /\ b = [Noting(e, n, h) EXCEPT !.closedHere = @ \union (m.chans \ n.chans),
                                              !.givenUp = @ \union (IF given THEN {c} ELSE {})]
               /\ Becomes(e, n) /\ hist'[e] = b /\ hist'[Peer(e)] = hist[Peer(e)]
  BY <1>1, <1>2, <1>3 DEF Drops
<1>5. /\ b.frames = h.frames /\ b.got = h.got /\ b.ended = h.ended
      /\ b.closedHere = h.closedHere \union (m.chans \ n.chans)
      /\ b.givenUp = h.givenUp \union (IF given THEN {c} ELSE {})
  BY <1>1, <1>2, <1>4 DEF Noting
<1>6. Fine(e, m, o) /\ Local(e, o) /\ IsEnd(e, o)
  <2>1. Fine(e, m, o)
    BY <1>1, <1>2, ReleasedIsFine
  <2> QED
    BY <2>1 DEF Fine, Local
<1>7. (last => Shuts(o, n, c)) /\ (~last => n = o) /\ Fine(e, o, n)
  <2>1. ASSUME last PROVE Shuts(o, n, c) /\ Fine(e, o, n)
    <3>1. n = CloseChannel(o, c)
      BY <1>3, <2>1
    <3> QED
      BY <1>6, <3>1, CloseShuts, CloseChannelIsFine
  <2>2. ASSUME ~last PROVE n = o /\ Fine(e, o, n)
    BY <1>3, <1>6, <2>2 DEF Fine, Gently, Even
  <2> QED
    BY <2>1, <2>2
<1>8. NoNewOpen(ep[e], n)
  <2>1. Fine(e, m, n)
    BY <1>6, <1>7, FineTwice
  <2> QED
    BY <1>2, <2>1 DEF Fine, Gently, NoNewOpen
<1>9. Tale(b)
  BY <1>1, <1>2, <1>5 DEF Tale
<1>10. /\ n.reason = o.reason /\ n.asm = o.asm /\ n.rx = o.rx /\ n.send = o.send
       /\ n.recv = o.recv /\ n.todo = o.todo /\ n.held = o.held
       /\ n.chans \subseteq m.chans /\ m.chans \ n.chans \subseteq {c}
       /\ \A x \in Ch : x # c => n.out[x] = m.out[x]
  BY <1>2, <1>7 DEF Shuts, LetsGo
<1>11. Moved(e, m, w, Live, h, n, w, Live, b, c)
  <2>1. Sender(e, m, w, Live, h, c) /\ SameLife(e, Live, Live)
    BY <1>2 DEF SInv, StreamOf, Stream, SameLife
  <2>2. Typed(m, w, h, ep[Peer(e)], hist[Peer(e)], c)
    BY <1>2, TypedIs DEF SInv
  <2>3. Moved(e, m, w, Live, h, o, w, Live, b, c)
    <3>1. CASE ~given /\ SameSender(m, o, c)
      <4>1. SameBook(h, b, c)
        BY <1>5, <3>1 DEF SameBook
      <4> QED
        BY <2>1, <3>1, <4>1, SameMoved
    <3>2. CASE /\ c \in m.send /\ c \notin o.send /\ m.held[c] = <<>> /\ o.todo[c] = <<>>
               /\ (given <=> m.todo[c] # <<>>)
      <4>1. Forgoes(m, o, h, b, c)
        BY <1>2, <1>5, <3>2 DEF Forgoes, LetsGo
      <4>2. Sender(e, o, w, Live, b, c)
        BY <2>1, <2>2, <4>1, ForgoMoves
      <4>3. NoneBegun(m, h, o, b, c)
        BY <2>1, <2>2, <4>1, ForgoMoves
      <4>4. Carries(e, m, w, Live, h, o, w, Live, b, c)
        BY <2>1, <2>2, <4>1, ForgoMoves
      <4> QED
        BY <4>2, <4>3, <4>4 DEF Moved
    <3> QED
      BY <1>2, <3>1, <3>2 DEF StopsSending
  <2>4. CASE last
    <3>1. Sender(e, o, w, Live, b, c)
      BY <2>3 DEF Moved
    <3>2. Typed(o, w, b, ep[Peer(e)], hist[Peer(e)], c)
      <4>1. o.out[c] \in Seq(Segment) /\ o.todo[c] \in Strand /\ o.held[c] \in Strand
        BY <1>6, QueuesAre DEF IsEnd, Strand
      <4> QED
        BY <1>5, <2>2, <4>1 DEF Typed
    <3>3. Moved(e, o, w, Live, b, n, w, Live, b, c)
      BY <1>7, <2>4, <3>1, <3>2, ShutsMoved
    <3> QED
      BY <2>3, <3>3, MovedTwice
  <2>5. CASE ~last
    BY <1>7, <2>3, <2>5
  <2> QED
    BY <2>4, <2>5
<1>12. Hears(m, h, n, b, HiddenTo(Peer(e)), c)
  BY <1>2, <1>5, <1>10 DEF Hears, Decoded, WasReset, WasTold, Closed, LetsGo
<1>13. ASSUME NEW x \in Ch PROVE Tells(e, n, b, x)
  <2>1. CASE x = c
    BY <1>2, <1>11, <1>12, <2>1 DEF Tells
  <2>2. CASE x # c
    <3>1. SameSender(m, n, x)
      BY <1>2, <1>10, <2>2 DEF SameSender, LetsGo
    <3>2. SameReceiver(m, n, x)
      BY <1>2, <1>10, <2>2 DEF SameReceiver, LetsGo
    <3>3. SameBook(h, b, x) /\ SameNews(h, b, x)
      BY <1>5, <1>10, <2>2 DEF SameBook, SameNews
    <3> QED
      BY <1>2, <3>1, <3>2, <3>3, SameTells
  <2> QED
    BY <2>1, <2>2
<1>14. AllTells(e, n, b)
  BY <1>13 DEF AllTells
<1> QED
  BY <1>0, <1>4, <1>8, <1>9, <1>14, OwnStep

LEMMA FinishSheds ==
    ASSUME SInv, NEW e \in End, NEW c \in Ch, Finish(e, c)
    PROVE  \E o, last, given : Sheds(e, c, o, last, given)
<1>1. IsEnd(e, ep[e]) /\ DOMAIN ep[e] = Fields
  BY OwnIs
<1>2. PICK m, o : /\ m = ep[e] /\ o = [m EXCEPT !.send = @ \ {c}]
                  /\ Drops(e, o, c, TRUE, FALSE) /\ c \in m.send
                  /\ m.todo[c] = <<>> /\ m.held[c] = <<>>
  BY DEF Finish, Sending
<1>3. /\ o.nextLocal = m.nextLocal /\ o.reason = m.reason /\ o.chans = m.chans
      /\ o.asm = m.asm /\ o.out = m.out /\ o.held = m.held /\ o.todo = m.todo
      /\ o.rx = m.rx /\ o.recv = m.recv /\ o.send = m.send \ {c}
      /\ DOMAIN o = Fields /\ o.retired = m.retired /\ o.urgent = m.urgent
      /\ o.credit = m.credit /\ o.unacked = m.unacked /\ o.taken = m.taken /\ o.acceptQ = m.acceptQ
  BY <1>1, <1>2 DEF Fields
<1>4. Released(ep[e], o)
  BY <1>1, <1>2, <1>3 DEF Released, IsEnd
<1>5. LetsGo(ep[e], o, c) /\ StopsSending(ep[e], o, FALSE, c) /\ c \notin o.send
  BY <1>2, <1>3 DEF LetsGo, StopsSending
<1> QED
  BY <1>2, <1>4, <1>5 DEF Sheds

LEMMA DropSendSheds ==
    ASSUME SInv, NEW e \in End, NEW c \in Ch, DropSend(e, c)
    PROVE  \E o, last, given : Sheds(e, c, o, last, given)
<1>1. IsEnd(e, ep[e]) /\ DOMAIN ep[e] = Fields
  BY OwnIs
<1>2. PICK m, o, last, given :
        /\ m = ep[e] /\ o = [m EXCEPT !.send = @ \ {c}, !.todo[c] = <<>>]
        /\ last = (c \notin o.recv) /\ given = Sending(m, c)
        /\ Drops(e, o, c, last, given) /\ c \in m.send /\ m.held[c] = <<>>
  BY DEF DropSend
<1>3. /\ o.nextLocal = m.nextLocal /\ o.reason = m.reason /\ o.chans = m.chans
      /\ o.asm = m.asm /\ o.out = m.out /\ o.held = m.held
      /\ o.todo = [m.todo EXCEPT ![c] = <<>>]
      /\ o.rx = m.rx /\ o.recv = m.recv /\ o.send = m.send \ {c}
      /\ DOMAIN o = Fields /\ o.retired = m.retired /\ o.urgent = m.urgent
      /\ o.credit = m.credit /\ o.unacked = m.unacked /\ o.taken = m.taken /\ o.acceptQ = m.acceptQ
  BY <1>1, <1>2 DEF Fields
<1>4. /\ m.todo \in [Ch -> Seq(Byte)] /\ m.rx \in [Ch -> Seq(Frame)] /\ m.acceptQ \in Seq(Ch)
  BY <1>1, <1>2 DEF IsEnd
<1>5. o.todo[c] = <<>> /\ (\A x \in Ch : x # c => o.todo[x] = m.todo[x]) /\ o.todo \in [Ch -> Seq(Byte)]
  BY <1>3, <1>4
<1>6. Released(ep[e], o)
  BY <1>2, <1>3, <1>4, <1>5 DEF Released
<1>7. last \in BOOLEAN /\ given \in BOOLEAN /\ (given <=> m.todo[c] # <<>>) /\ c \notin o.send
  BY <1>2, <1>3 DEF Sending
<1>8. LetsGo(ep[e], o, c)
  BY <1>2, <1>3, <1>5 DEF LetsGo
<1>9. StopsSending(ep[e], o, given, c)
  BY <1>2, <1>5, <1>7 DEF StopsSending
<1>10. Drops(e, o, c, last, given)
  BY <1>2
<1>11. Sheds(e, c, o, last, given)
  BY <1>6, <1>7, <1>8, <1>9, <1>10 DEF Sheds
<1> QED
  BY <1>11

LEMMA DropRecvSheds ==
    ASSUME SInv, NEW e \in End, NEW c \in Ch, DropRecv(e, c)
    PROVE  \E o, last, given : Sheds(e, c, o, last, given)
<1>1. IsEnd(e, ep[e]) /\ DOMAIN ep[e] = Fields
  BY OwnIs
<1>2. PICK m, o, last :
        /\ m = ep[e] /\ o = [m EXCEPT !.recv = @ \ {c}, !.rx[c] = <<>>]
        /\ last = (c \notin o.send) /\ Drops(e, o, c, last, FALSE)
  BY DEF DropRecv
<1>3. /\ o.nextLocal = m.nextLocal /\ o.reason = m.reason /\ o.chans = m.chans
      /\ o.asm = m.asm /\ o.out = m.out /\ o.held = m.held /\ o.todo = m.todo
      /\ o.rx = [m.rx EXCEPT ![c] = <<>>] /\ o.recv = m.recv \ {c} /\ o.send = m.send
      /\ DOMAIN o = Fields /\ o.retired = m.retired /\ o.urgent = m.urgent
      /\ o.credit = m.credit /\ o.unacked = m.unacked /\ o.taken = m.taken /\ o.acceptQ = m.acceptQ
  BY <1>1, <1>2 DEF Fields
<1>4. /\ m.todo \in [Ch -> Seq(Byte)] /\ m.rx \in [Ch -> Seq(Frame)] /\ m.acceptQ \in Seq(Ch)
  BY <1>1, <1>2 DEF IsEnd
<1>5. o.rx[c] = <<>> /\ (\A x \in Ch : x # c => o.rx[x] = m.rx[x]) /\ o.rx \in [Ch -> Seq(Frame)]
  BY <1>3, <1>4
<1>6. Released(ep[e], o)
  BY <1>2, <1>3, <1>4, <1>5 DEF Released
<1>7. last \in BOOLEAN /\ FALSE \in BOOLEAN /\ (last => c \notin o.send)
  BY <1>2
<1>8. LetsGo(ep[e], o, c)
  BY <1>2, <1>3, <1>5 DEF LetsGo
<1>9. StopsSending(ep[e], o, FALSE, c)
  BY <1>2, <1>3 DEF StopsSending, SameSender
<1> QED
  BY <1>2, <1>6, <1>7, <1>8, <1>9 DEF Sheds

LEMMA ShedsTells ==
    ASSUME SInv, NEW e \in End, NEW c \in Ch, Finish(e, c) \/ DropSend(e, c) \/ DropRecv(e, c)
    PROVE  SInv'
BY FinishSheds, DropSendSheds, DropRecvSheds, DropsTells

\* The connection is over for this end: its queues and channels are gone.
Over(m, n) ==
    /\ n.nextLocal = m.nextLocal /\ n.asm = m.asm /\ n.rx = m.rx
    /\ n.send = m.send /\ n.recv = m.recv /\ n.todo = m.todo /\ n.held = m.held
    /\ Closed(n) /\ n.chans = {} /\ \A c \in Ch : n.out[c] = <<>>

LEMMA ShutdownIs ==
    ASSUME NEW e, NEW m, IsEnd(e, m), NEW why, why # "none", NEW n, n = Shutdown(m, why)
    PROVE  n = m \/ Over(m, n)
<1>1. CASE Closed(m)
  BY <1>1 DEF Shutdown
<1>2. CASE ~Closed(m)
  <2>1. DOMAIN m = Fields
    BY DEF IsEnd
  <2>2. /\ n.reason = why /\ n.chans = {} /\ n.out = Each(<<>>) /\ n.nextLocal = m.nextLocal
        /\ n.asm = m.asm /\ n.rx = m.rx
        /\ n.send = m.send /\ n.recv = m.recv /\ n.todo = m.todo /\ n.held = m.held
    BY <1>2, <2>1 DEF Shutdown, Fields
  <2>3. \A c \in Ch : n.out[c] = <<>>
    BY <2>2 DEF Each
  <2> QED
    BY <2>2, <2>3 DEF Over, Closed
<1> QED
  BY <1>1, <1>2

\* What a noted book keeps.
Noted(h, b) ==
    /\ b.frames = h.frames /\ b.got = h.got /\ b.ended = h.ended
    /\ b.closedHere = h.closedHere /\ b.givenUp = h.givenUp

LEMMA OverMoves ==
    ASSUME NEW s, NEW m, NEW w, NEW L, NEW h, NEW n, NEW b, NEW r, NEW g, NEW c \in Ch,
           Typed(m, w, h, r, g, c), Sender(s, m, w, L, h, c), Noted(h, b), n = m \/ Over(m, n)
    PROVE  Moved(s, m, w, L, h, n, w, L, b, c)
<1>1. SameBook(h, b, c) /\ SameLife(s, L, L)
  BY DEF SameBook, SameLife, Noted
<1>2. CASE n = m
  <2>1. SameSender(m, n, c)
    BY <1>2 DEF SameSender
  <2> QED
    BY <1>1, <2>1, SameMoved
<1>3. CASE Over(m, n)
  <2>1. Cuts(s, m, n, h, b, L, L, c)
    BY <1>1, <1>3 DEF Cuts, Over
  <2>2. w \in Seq(Segment) /\ <<>> \in Seq(Segment)
    BY DEF Typed
  <2>3. w = w \o <<>>
    BY <2>2
  <2>4. Sender(s, n, w, L, b, c)
    BY <2>1, <2>2, <2>3, CutMoves
  <2>5. NoneBegun(m, h, n, b, c)
    BY <2>1, <2>2, <2>3, CutMoves
  <2>6. Carries(s, m, w, L, h, n, w, L, b, c)
    BY <2>1, <2>2, <2>3, CutMoves
  <2> QED
    BY <2>4, <2>5, <2>6 DEF Moved
<1> QED
  BY <1>2, <1>3

LEMMA OverHears ==
    ASSUME NEW m, NEW h, NEW n, NEW b, NEW H, NEW c \in Ch, Noted(h, b), n = m \/ Over(m, n)
    PROVE  Hears(m, h, n, b, H, c)
BY DEF Hears, Decoded, WasReset, WasTold, Closed, Over, Noted

LEMMA NotedIs ==
    ASSUME NEW e, NEW n, NEW h, NEW b, b = Noting(e, n, h), Tale(h),
           DOMAIN h = {"frames", "got", "ended", "givenUp", "closedHere", "torn"}
    PROVE  Noted(h, b) /\ Tale(b)
<1>1. Noted(h, b)
  BY DEF Noting, Noted
<1> QED
  BY <1>1 DEF Noted, Tale

LEMMA EndsTells ==
    ASSUME SInv, NEW e \in End, NEW why, why # "none", Ends(e, why)
    PROVE  SInv'
<1>0. IInv'
  BY EndsKeeps DEF SInv
<1>1. /\ Local(e, ep[e]) /\ IsEnd(e, ep[e]) /\ Tale(hist[e]) /\ DOMAIN hist = End
      /\ Peer(e) \in End /\ Peer(e) # e
      /\ DOMAIN hist[e] = {"frames", "got", "ended", "givenUp", "closedHere", "torn"}
  BY OwnIs
<1>2. PICK m, h, n, b : /\ m = ep[e] /\ h = hist[e] /\ n = Shutdown(m, why) /\ b = Noting(e, n, h)
                        /\ Becomes(e, n) /\ hist'[e] = b /\ hist'[Peer(e)] = hist[Peer(e)]
  BY <1>1 DEF Ends
<1>3. n = m \/ Over(m, n)
  BY <1>1, <1>2, ShutdownIs
<1>4. Noted(h, b) /\ Tale(b)
  BY <1>1, <1>2, NotedIs
<1>5. NoNewOpen(ep[e], n)
  <2>1. Fine(e, m, n)
    BY <1>1, <1>2, ShutdownIsFine
  <2> QED
    BY <1>2, <2>1 DEF Fine, Gently, NoNewOpen
<1>6. ASSUME NEW c \in Ch PROVE Tells(e, n, b, c)
  <2>1. Sender(e, m, wire[e], Live, h, c)
    BY <1>2 DEF SInv, StreamOf, Stream
  <2>2. Typed(m, wire[e], h, ep[Peer(e)], hist[Peer(e)], c)
    BY <1>2, TypedIs DEF SInv
  <2>3. Moved(e, m, wire[e], Live, h, n, wire[e], Live, b, c)
    BY <1>3, <1>4, <2>1, <2>2, OverMoves
  <2>4. Hears(m, h, n, b, HiddenTo(Peer(e)), c)
    BY <1>3, <1>4, OverHears
  <2> QED
    BY <1>2, <2>3, <2>4 DEF Tells
<1>7. AllTells(e, n, b)
  BY <1>6 DEF AllTells
<1> QED
  BY <1>0, <1>2, <1>4, <1>5, <1>7, OwnStep
-----------------------------------------------------------------------------
(* A Mux is dropped. *)

\* What closing the pairs nobody accepted leaves alone.
Leaves(m, o) ==
    /\ o.nextLocal = m.nextLocal /\ o.reason = m.reason /\ o.asm = m.asm /\ o.rx = m.rx
    /\ o.send = m.send /\ o.recv = m.recv /\ o.todo = m.todo
    /\ o.chans \subseteq m.chans
    /\ \A c \in m.chans : c \notin Range(m.acceptQ) => c \in o.chans

LEMMA CloseUnacceptedLeaves ==
    ASSUME NEW e, NEW m, Local(e, m), NEW n, n = CloseUnaccepted(m)
    PROVE  Fine(e, m, n) /\ Leaves(m, n)
<1>1. PICK q \in Seq(Ch), k \in Nat : q = m.acceptQ /\ k = Len(q)
  <2>1. m.acceptQ \in Seq(Ch)
    BY DEF Local, IsEnd
  <2> QED
    BY <2>1
<1>2. PICK f : /\ f = [i \in 0 .. k |-> IF i = 0 THEN m ELSE CloseChannel(f[i - 1], m.acceptQ[i])]
               /\ n = f[k]
  BY <1>1, CloseUnacceptedIs
<1>3. PICK T : T = {i \in 0 .. k : Fine(e, m, f[i]) /\ Leaves(m, f[i])}
  OBVIOUS
<1>4. 0 \in T
  <2>1. f[0] = m /\ 0 \in 0 .. k
    BY <1>1, <1>2
  <2>2. Fine(e, m, m) /\ Leaves(m, m)
    BY DEF Fine, Gently, Even, Leaves
  <2> QED
    BY <1>3, <2>1, <2>2
<1>5. ASSUME NEW i \in 0 .. k, i < k, i \in T PROVE i + 1 \in T
  <2>1. i + 1 \in 0 .. k /\ i + 1 # 0 /\ (i + 1) - 1 = i /\ i + 1 \in 1 .. k
    BY <1>1, <1>5
  <2>2. PICK d \in Ch : d = q[i + 1] /\ d \in Range(m.acceptQ)
    BY <1>1, <2>1 DEF Range
  <2>3. PICK o, u : o = f[i] /\ u = f[i + 1] /\ u = CloseChannel(o, d)
    BY <1>1, <1>2, <2>1, <2>2
  <2>4. Fine(e, m, o) /\ Local(e, o) /\ IsEnd(e, o) /\ Leaves(m, o)
    BY <1>3, <1>5, <2>3 DEF Fine, Local
  <2>5. Fine(e, o, u) /\ Shuts(o, u, d)
    BY <2>3, <2>4, CloseChannelIsFine, CloseShuts
  <2>6. Fine(e, m, u)
    BY <2>4, <2>5, FineTwice
  <2>7. Leaves(m, u)
    BY <2>2, <2>4, <2>5 DEF Leaves, Shuts
  <2> QED
    BY <1>3, <2>1, <2>3, <2>6, <2>7
<1>6. \A i \in 0 .. k : i \in T
  BY <1>1, <1>4, <1>5, Climb
<1>7. k \in T
  BY <1>1, <1>6
<1> QED
  BY <1>2, <1>3, <1>7

LEMMA DropMuxTells ==
    ASSUME SInv, NEW e \in End, DropMux(e)
    PROVE  SInv'
<1>0. IInv'
  BY DropMuxKeeps DEF SInv
<1>1. /\ Local(e, ep[e]) /\ IsEnd(e, ep[e]) /\ Tale(hist[e]) /\ Types
      /\ Peer(e) \in End /\ Peer(e) # e /\ Peer(Peer(e)) = e /\ DOMAIN ep = End
      /\ wire[e] \in Seq(Segment) /\ DOMAIN wire = End /\ DOMAIN alive = End
  BY OwnIs, PeerIs, EndsAre DEF Types, Flags
<1>2. PICK p, m, o, gone, n :
        /\ p = Peer(e) /\ m = ep[e] /\ o = CloseUnaccepted(m) /\ gone = Range(m.acceptQ)
        /\ n = [o EXCEPT !.acceptQ = <<>>, !.send = @ \ gone, !.recv = @ \ gone]
  OBVIOUS
<1>3. /\ ep'[e] = n /\ ep'[p] = ep[p] /\ hist' = hist /\ wire'[p] = wire[p]
      /\ Live' = Live \ {e}
  BY <1>1, <1>2 DEF DropMux, Live
<1>4. Fine(e, m, o) /\ Leaves(m, o) /\ DOMAIN o = Fields
  <2>1. Fine(e, m, o) /\ Leaves(m, o)
    BY <1>1, <1>2, CloseUnacceptedLeaves
  <2> QED
    BY <2>1 DEF Fine, Local, IsEnd
<1>5. /\ n.nextLocal = o.nextLocal /\ n.reason = o.reason /\ n.asm = o.asm /\ n.rx = o.rx
      /\ n.send = o.send \ gone /\ n.recv = o.recv \ gone /\ n.todo = o.todo
      /\ n.chans = o.chans /\ n.out = o.out
  BY <1>2, <1>4 DEF Fields
<1>6. PICK w \in Seq(Segment), v \in Seq(Segment), x \in Seq(Segment) :
        w = wire[e] /\ v = wire'[e] /\ w = v \o x /\ Shortened(w, v)
  <2>1. CASE wire' = wire
    <3>1. wire[e] = wire[e] \o <<>> /\ <<>> \in Seq(Segment) /\ Shortened(wire[e], wire[e])
      BY <1>1 DEF Shortened
    <3> QED
      BY <1>1, <2>1, <3>1
  <2>2. CASE \E k \in 0 .. Len(wire[e]) : wire' = [wire EXCEPT ![e] = SubSeq(@, 1, k)]
    <3>1. PICK w \in Seq(Segment), l \in Nat : w = wire[e] /\ l = Len(w)
      BY <1>1
    <3>2. PICK k \in 0 .. l : wire'[e] = SubSeq(w, 1, k)
      BY <1>1, <2>2, <3>1
    <3>3. k \in Nat /\ k <= l /\ k \in 0 .. l
      BY <3>1, <3>2
    <3>4. PICK v \in Seq(Segment), x \in Seq(Segment) :
            v = SubSeq(w, 1, k) /\ x = SubSeq(w, k + 1, Len(w))
      BY <3>1, <3>3, CutInTwo
    <3>5. SubSeq(w, 1, k) \o SubSeq(w, k + 1, Len(w)) = w
      BY <3>1, <3>3, CutInTwo
    <3>6. Shortened(w, SubSeq(w, 1, k))
      <4>1. DOMAIN w = 1 .. l /\ 1 .. k \subseteq 1 .. l /\ \A i \in 1 .. k : w[i] \in Segment
        BY <3>1, <3>3
      <4>2. DOMAIN SubSeq(w, 1, k) = 1 .. k /\ \A i \in 1 .. k : SubSeq(w, 1, k)[i] = w[i]
        BY <3>1, <3>3, <4>1
      <4> QED
        BY <4>1, <4>2 DEF Shortened
    <3> QED
      BY <3>1, <3>2, <3>4, <3>5, <3>6
  <2>3. wire' = wire \/ \E k \in 0 .. Len(wire[e]) : wire' = [wire EXCEPT ![e] = SubSeq(@, 1, k)]
    BY DEF DropMux
  <2> QED
    BY <2>1, <2>2, <2>3
<1>7. NoNewOpen(m, n)
  BY <1>4, <1>5 DEF NoNewOpen, Fine, Gently
<1>8. AllQuiet
  <2>1. Quiet(e)
    BY <1>2, <1>3, <1>6, <1>7, QuietIs
  <2>2. NoNewOpen(ep[p], ep'[p]) /\ Shortened(wire[p], wire'[p])
    BY <1>3 DEF NoNewOpen, Shortened
  <2>3. Quiet(p)
    BY <1>1, <1>2, <2>2, QuietIs
  <2> QED
    BY <1>2, <2>1, <2>3, PeerIs DEF AllQuiet
<1>9. PICK L2 : L2 = Live' /\ L2 = Live \ {e}
  BY <1>3
<1>10. Reached(e, n, v, hist[e], L2) /\ wire'[Peer(e)] = wire[Peer(e)]
  BY <1>2, <1>3, <1>6, <1>9 DEF Reached
<1>11. SameLife(Peer(e), Live, L2)
  BY <1>1, <1>9 DEF SameLife
<1>12. ASSUME NEW c \in Ch PROVE Sends(e, c)
  <2>1. Sender(e, m, w, Live, hist[e], c)
    BY <1>2, <1>6 DEF SInv, StreamOf, Stream
  <2>2. Typed(m, w, hist[e], ep[p], hist[p], c)
    BY <1>2, <1>6, TypedIs DEF SInv
  <2>3. Cuts(e, m, n, hist[e], hist[e], Live, L2, c)
    BY <1>4, <1>5, <1>9 DEF Cuts, Leaves, SameBook
  <2>4. Sender(e, n, v, L2, hist[e], c)
    BY <1>6, <2>1, <2>2, <2>3, CutMoves
  <2>5. NoneBegun(m, hist[e], n, hist[e], c)
    BY <1>6, <2>1, <2>2, <2>3, CutMoves
  <2>6. Carries(e, m, w, Live, hist[e], n, v, L2, hist[e], c)
    BY <1>6, <2>1, <2>2, <2>3, CutMoves
  <2>7. Moved(e, ep[e], wire[e], Live, hist[e], n, v, L2, hist[e], c)
    BY <1>2, <1>6, <2>4, <2>5, <2>6 DEF Moved
  <2> QED
    BY <1>8, <1>10, <2>7, SendsIs
<1>13. ASSUME NEW c \in Ch PROVE Gets(e, c)
  <2>1. Hears(ep[e], hist[e], n, hist[e], HiddenTo(Peer(e)), c)
    BY <1>2, <1>4, <1>5 DEF Hears, Decoded, WasReset, WasTold, Closed, Leaves
  <2> QED
    BY <1>8, <1>10, <1>11, <2>1, GetsIs
<1>14. AllTell(e)
  BY <1>12, <1>13 DEF AllTell
<1>15. Tale(hist'[e]) /\ ep'[Peer(e)] = ep[Peer(e)] /\ hist'[Peer(e)] = hist[Peer(e)]
  BY <1>1, <1>2, <1>3
<1> QED
  BY <1>0, <1>14, <1>15, StepTells
-----------------------------------------------------------------------------
(* The writer task takes a segment. *)

LEMMA WriterTakesTells ==
    ASSUME SInv, NEW e \in End, WriterTakes(e)
    PROVE  SInv'
<1>0. IInv'
  BY WriterTakesKeeps DEF SInv
<1>1. PICK p, m, w, n, d, v :
        /\ p = Peer(e) /\ m = ep[e] /\ w = wire[e] /\ n = TakeNext(m).m /\ d = TakeNext(m).seg
        /\ v = Append(w, d)
  OBVIOUS
<1>2. /\ p \in End /\ p # e /\ Peer(p) = e /\ DOMAIN ep = End /\ DOMAIN wire = End
      /\ Local(e, m) /\ IsEnd(e, m) /\ Tale(hist[e]) /\ w \in Seq(Segment)
      /\ wire[p] \in Seq(Segment)
  BY <1>1, OwnIs, PeerIs, EndsAre DEF Types
<1>3. /\ ep'[e] = n /\ ep'[p] = ep[p] /\ hist' = hist /\ wire'[p] = wire[p]
      /\ wire'[e] = v /\ Live' = Live
  BY <1>1, <1>2 DEF WriterTakes, Live
<1>4. d \in Written(e) /\ Local(e, n) /\ Writes(e, m, n, d)
  BY <1>1, <1>2, TakeNextWrites DEF WriterTakes
<1>5. d \in Segment /\ IsEnd(e, n) /\ e \in Live
  BY <1>4 DEF Written, Local, WriterTakes, Live
<1>6. Reached(e, n, v, hist[e], Live)
  BY <1>3 DEF Reached
<1>7. AllQuiet
  <2>1. ASSUME NEW c \in Ch, Announced(n, v, c)
        PROVE  Announced(m, w, c)
    <3>1. OpenLeads(m, w, c)
      BY <1>1 DEF SInv, IInv, Order
    <3> QED
      BY <1>1, <1>2, <1>4, <1>5, <2>1, <3>1, WritesTells
  <2>2. Quiet(e)
    BY <1>1, <1>3, <1>4, <2>1 DEF Quiet, Writes
  <2>3. Quiet(p)
    BY <1>3 DEF Quiet
  <2> QED
    BY <1>1, <2>2, <2>3, PeerIs DEF AllQuiet
<1>8. ASSUME NEW c \in Ch PROVE Writing(m, n, d, c)
  <2>1. /\ n.chans = m.chans /\ n.send = m.send /\ n.todo = m.todo /\ n.held = m.held
    BY <1>4 DEF Writes
  <2>2. CASE d \in Updates /\ n.out = m.out
    BY <2>1, <2>2 DEF Writing, Moving, Updates
  <2>3. CASE d.ch = c /\ m.out[c] # <<>> /\ d = Head(m.out[c]) /\ n.out[c] = Tail(m.out[c])
    BY <2>1, <2>3 DEF Writing
  <2>4. CASE d.ch # c /\ n.out[c] = m.out[c]
    BY <2>1, <2>4 DEF Writing, Moving
  <2> QED
    BY <1>4, <2>2, <2>3, <2>4 DEF Writes
<1>9. ASSUME NEW c \in Ch PROVE Sends(e, c)
  <2>1. Stream(e, m, w, Live, hist[e], ep[p], hist[p], HiddenTo(e), Foreign(e), c)
    BY <1>1 DEF SInv, StreamOf
  <2>2. Sender(e, m, w, Live, hist[e], c)
    BY <2>1 DEF Stream
  <2>3. Typed(m, w, hist[e], ep[p], hist[p], c)
    BY <1>1, TypedIs DEF SInv
  <2>4. Sender(e, n, Append(w, d), Live, hist[e], c)
    BY <1>5, <1>8, <2>2, <2>3, WriteMoves
  <2>5. NoneBegun(m, hist[e], n, hist[e], c)
    BY <1>5, <1>8, <2>2, <2>3, WriteMoves
  <2>6. Carries(e, m, w, Live, hist[e], n, Append(w, d), Live, hist[e], c)
    BY <1>5, <1>8, <2>2, <2>3, WriteMoves
  <2>7. Moved(e, ep[e], wire[e], Live, hist[e], n, v, Live, hist[e], c)
    BY <1>1, <2>4, <2>5, <2>6 DEF Moved
  <2> QED
    BY <1>6, <1>7, <2>7, SendsIs
<1>10. ASSUME NEW c \in Ch PROVE Gets(e, c)
  <2>1. SameReceiver(ep[e], n, c) /\ SameNews(hist[e], hist[e], c)
    BY <1>1, <1>4 DEF Writes, SameReceiver, SameNews, Closed
  <2>2. Hears(ep[e], hist[e], n, hist[e], HiddenTo(Peer(e)), c)
    BY <2>1, SameHears
  <2>3. SameLife(Peer(e), Live, Live) /\ wire'[Peer(e)] = wire[Peer(e)]
    BY <1>1, <1>3 DEF SameLife
  <2> QED
    BY <1>6, <1>7, <2>2, <2>3, GetsIs
<1>11. AllTell(e)
  BY <1>9, <1>10 DEF AllTell
<1>12. Tale(hist'[e]) /\ ep'[Peer(e)] = ep[Peer(e)] /\ hist'[Peer(e)] = hist[Peer(e)]
  BY <1>1, <1>2, <1>3
<1> QED
  BY <1>0, <1>11, <1>12, StepTells
-----------------------------------------------------------------------------
(* A channel is opened: its id is taken into use, the others are as before. *)

LEMMA StreamElse ==
    ASSUME NEW s, NEW m, NEW w, NEW L, NEW h, NEW r, NEW g, NEW H, NEW N, NEW c,
           NEW n, NEW h2, NEW r2, NEW g2, NEW H2, NEW N2,
           Stream(s, m, w, L, h, r, g, H, N, c), SameSender(m, n, c), SameBook(h, h2, c),
           SameReceiver(r, r2, c), SameNews(g, g2, c), c \in H2 => c \in H, c \in N2 => c \in N
    PROVE  Stream(s, n, w, L, h2, r2, g2, H2, N2, c)
<1>1. PICK H3, N3 : H3 = H2 \cap H /\ N3 = N2 \cap N
  OBVIOUS
<1>2. H3 \subseteq H /\ N3 \subseteq N /\ SameLife(s, L, L)
  BY <1>1 DEF SameLife
<1>3. Stream(s, n, w, L, h2, r2, g2, H3, N3, c)
  BY <1>2, StreamStays
<1>4. c \in H3 <=> c \in H2
  BY <1>1
<1>5. c \in N3 <=> c \in N2
  BY <1>1
<1> QED
  BY <1>3, <1>4, <1>5 DEF Stream, Listening, Complete

OpensUp(m, n, id) ==
    /\ id = m.nextLocal /\ n.nextLocal = id + 2 /\ n.reason = m.reason
    /\ \A c \in Ch : c # id => SameSender(m, n, c) /\ SameReceiver(m, n, c)
    /\ n.todo[id] = m.todo[id] /\ n.held[id] = m.held[id]
    /\ n.out[id] = m.out[id] \/ n.out[id] = Append(m.out[id], OpenSeg(id))
    /\ n.rx[id] = m.rx[id] \/ n.rx[id] = <<>>
    /\ id \in n.chans => n.asm[id] = <<>>
    /\ id \in n.recv => id \in n.chans

\* Nothing was ever said on an id that is not in use yet.
\* Nothing was said on a channel that the sender never heard of.
LEMMA ForeignIs ==
    ASSUME NEW s, NEW m, NEW w, NEW L, NEW h, NEW r, NEW g, NEW H, NEW N, NEW c \in Ch,
           Typed(m, w, h, r, g, c), Stream(s, m, w, L, h, r, g, H, N, c), c \in N
    PROVE  /\ h.frames[c] = <<>> /\ r.rx[c] = <<>> /\ g.got[c] = <<>> /\ c \notin h.givenUp
           /\ Listening(r, H, c) => r.asm[c] = <<>>
           /\ ~WasReset(r, g, c) /\ ~WasTold(g, c)
<1>1. h.frames[c] = <<>> /\ ~WasReset(r, g, c) /\ ~WasTold(g, c)
  BY DEF Stream, Complete
<1>2. c \notin h.givenUp
  BY <1>1 DEF Stream, Sender
<1>3. PICK x \in Seq(Frame), y \in Seq(Frame) : x = g.got[c] /\ y = r.rx[c]
  BY DEF Typed
<1>4. PICK a \in Nat, b \in Nat : a = Len(x) /\ b = Len(y) /\ Len(x \o y) = a + b
  BY ConcatProperties
<1>5. a + b = 0
  <2>1. 0 + Len(x \o y) <= Len(<<>>)
    BY <1>1, <1>3 DEF Stream, Ordered, NextOf, Decoded
  <2>2. Len(<<>>) = 0
    OBVIOUS
  <2> QED
    BY <1>4, <2>1, <2>2
<1>6. a = 0 /\ b = 0
  BY <1>4, <1>5
<1>7. x = <<>> /\ y = <<>>
  BY <1>4, <1>6, EmptySeq
<1>8. ASSUME Listening(r, H, c) PROVE r.asm[c] = <<>>
  <2>1. Lined(s, m, w, L, h, r, g, c)
    BY <1>8 DEF Stream
  <2>2. PICK lost \in Strand : Leads(r.asm[c], Supply(s, m, w, L, c) \o lost, <<>>, Len(Decoded(r, g, c)))
    BY <1>1, <2>1 DEF Lined
  <2>3. Len(Decoded(r, g, c)) = 0
    BY <1>3, <1>4, <1>5 DEF Decoded
  <2>4. r.asm[c] \o (Supply(s, m, w, L, c) \o lost) = Rest(<<>>, 0)
    BY <2>2, <2>3 DEF Leads
  <2>5. Rest(<<>>, 0) = <<>>
    <3>1. <<>> \in Lengths /\ Len(<<>>) = 0
      BY LengthsAre DEF Lengths
    <3> QED
      BY <3>1, RestEnds
  <2>6. PICK z \in Strand : z = Supply(s, m, w, L, c) \o lost
    <3>1. PICK u \in Strand : u = Supply(s, m, w, L, c)
      BY SupplyIs
    <3>2. u \o lost \in Strand
      BY ConcatProperties DEF Strand
    <3> QED
      BY <3>1, <3>2
  <2>7. r.asm[c] \in Strand
    BY DEF Typed
  <2> QED
    BY <2>4, <2>5, <2>6, <2>7, NotEmpty
<1> QED
  BY <1>1, <1>2, <1>3, <1>7, <1>8

LEMMA UnusedTells ==
    ASSUME SInv, NEW e \in End, ep[e].nextLocal \in Ch, NEW id, id = ep[e].nextLocal
    PROVE  /\ id \in HiddenTo(e) /\ id \in Foreign(e) /\ id \in Foreign(Peer(e))
           /\ id \notin HiddenTo(Peer(e))
           /\ Idle(ep[e], wire[e], id) /\ Idle(ep[Peer(e)], wire[Peer(e)], id)
           /\ hist[e].frames[id] = <<>> /\ hist[Peer(e)].frames[id] = <<>>
           /\ ep[e].rx[id] = <<>> /\ hist[e].got[id] = <<>>
           /\ ep[Peer(e)].rx[id] = <<>> /\ hist[Peer(e)].got[id] = <<>>
           /\ ep[Peer(e)].asm[id] = <<>>
           /\ id \notin hist[e].givenUp /\ id \notin hist[Peer(e)].givenUp
           /\ ~WasTold(hist[e], id) /\ ~WasTold(hist[Peer(e)], id)
<1>1. PICK p : p = Peer(e)
  OBVIOUS
<1>2. p \in End /\ p # e /\ Peer(p) = e
  BY <1>1, PeerIs
<1>3. id \in Ch /\ Own(e, id) /\ id \in Nat /\ id >= ep[e].nextLocal
  <2>1. IsEnd(e, ep[e])
    BY OwnIs
  <2>2. Own(e, ep[e].nextLocal) /\ ep[e].nextLocal \in Nat
    BY <2>1 DEF IsEnd
  <2>3. PICK i \in Nat : i = ep[e].nextLocal
    BY <2>2
  <2> QED
    BY <2>2, <2>3
<1>4. ~Own(p, id)
  BY <1>2, <1>3 DEF Own, FirstChannel, End
<1>5. /\ id \in HiddenTo(e) /\ id \in Foreign(e) /\ id \in Foreign(p) /\ id \notin HiddenTo(p)
  BY <1>1, <1>2, <1>3, <1>4 DEF HiddenTo, Foreign, Unused, Hidden
<1>6. Idle(ep[e], wire[e], id)
  BY <1>3 DEF SInv, IInv, UnusedIdle, Unused
<1>7. Idle(ep[p], wire[p], id)
  BY <1>1, <1>3, <1>5 DEF SInv, IInv, HiddenIdle, HiddenTo
<1>8. Stream(e, ep[e], wire[e], Live, hist[e], ep[p], hist[p], HiddenTo(e), Foreign(e), id)
  BY <1>1, <1>3 DEF SInv, StreamOf
<1>9. Stream(p, ep[p], wire[p], Live, hist[p], ep[e], hist[e], HiddenTo(p), Foreign(p), id)
  <2>1. StreamOf(p, id)
    BY <1>2, <1>3 DEF SInv
  <2> QED
    BY <1>2, <2>1 DEF StreamOf
<1>10. Typed(ep[e], wire[e], hist[e], ep[p], hist[p], id)
  BY <1>1, <1>3, TypedIs DEF SInv
<1>11. Typed(ep[p], wire[p], hist[p], ep[e], hist[e], id)
  <2>1. Typed(ep[p], wire[p], hist[p], ep[Peer(p)], hist[Peer(p)], id)
    BY <1>2, <1>3, TypedIs DEF SInv
  <2> QED
    BY <1>2, <2>1
<1>12. /\ hist[e].frames[id] = <<>> /\ ep[p].rx[id] = <<>> /\ hist[p].got[id] = <<>>
       /\ id \notin hist[e].givenUp /\ ~WasTold(hist[p], id)
  BY <1>3, <1>5, <1>8, <1>10, ForeignIs
<1>13. /\ hist[p].frames[id] = <<>> /\ ep[e].rx[id] = <<>> /\ hist[e].got[id] = <<>>
       /\ id \notin hist[p].givenUp /\ ~WasTold(hist[e], id)
  BY <1>3, <1>5, <1>9, <1>11, ForeignIs
<1>14. ep[p].asm[id] = <<>>
  BY <1>5, <1>8 DEF Stream
<1> QED
  BY <1>1, <1>5, <1>6, <1>7, <1>12, <1>13, <1>14

LEMMA OpensUpTells ==
    ASSUME SInv, IInv', NEW e \in End, NEW n, Becomes(e, n), hist' = hist, NEW id \in Ch,
           OpensUp(ep[e], n, id)
    PROVE  SInv'
<1>1. PICK p, m : p = Peer(e) /\ m = ep[e]
  OBVIOUS
<1>2. /\ p \in End /\ p # e /\ Peer(p) = e /\ DOMAIN ep = End /\ IsEnd(e, m) /\ Tale(hist[e])
  BY <1>1, OwnIs, PeerIs, EndsAre DEF Types
<1>3. /\ ep'[e] = n /\ ep'[p] = ep[p] /\ hist' = hist /\ wire' = wire /\ Live' = Live
      /\ id = m.nextLocal
  BY <1>1, <1>2 DEF Becomes, Live, OpensUp
<1>4. PICK H, N, H1, N1 :
        H = HiddenTo(e) /\ N = Foreign(e) /\ H1 = HiddenTo(p) /\ N1 = Foreign(p)
  OBVIOUS
<1>5. PICK H2, N2, H3, N3 :
        /\ H2 = HiddenTo(e)' /\ N2 = Foreign(e)' /\ H3 = HiddenTo(p)' /\ N3 = Foreign(p)'
  OBVIOUS
<1>6. id \in H /\ id \in N /\ id \in N1 /\ id \notin H1
  BY <1>1, <1>3, <1>4, UnusedTells
<1>7. Idle(m, wire[e], id) /\ Idle(ep[p], wire[p], id)
  BY <1>1, <1>3, UnusedTells
<1>8. /\ hist[e].frames[id] = <<>> /\ hist[p].frames[id] = <<>>
      /\ m.rx[id] = <<>> /\ hist[e].got[id] = <<>>
      /\ ep[p].rx[id] = <<>> /\ hist[p].got[id] = <<>> /\ ep[p].asm[id] = <<>>
      /\ id \notin hist[e].givenUp /\ id \notin hist[p].givenUp
      /\ ~WasTold(hist[e], id) /\ ~WasTold(hist[p], id)
  BY <1>1, <1>3, UnusedTells
<1>9. ~Own(p, id)
  BY <1>2, <1>3 DEF Own, FirstChannel, End, IsEnd
<1>10. id \notin H3
  BY <1>5, <1>9 DEF HiddenTo, Hidden
<1>11. ASSUME NEW c \in Ch, c # id
       PROVE  /\ c \in H2 => c \in H
              /\ c \in N2 => c \in N
              /\ c \in H3 => c \in H1
              /\ c \in N3 => c \in N1
  <2>1. /\ Announced(n, wire[e], c) => Announced(m, wire[e], c)
    BY <1>1, <1>11 DEF OpensUp, SameSender, Announced
  <2>2. c >= n.nextLocal => c >= m.nextLocal
    <3>1. PICK i \in Nat : i = m.nextLocal /\ n.nextLocal = i + 2
      BY <1>1, <1>2 DEF IsEnd, OpensUp
    <3>2. PICK j \in Nat : j = c
      BY ChannelsAre
    <3> QED
      BY <3>1, <3>2
  <2>3. /\ Hidden(e, c)' => Hidden(e, c)
        /\ Unused(e, c)' => Unused(e, c)
    BY <1>1, <1>3, <2>1, <2>2 DEF Hidden, Unused
  <2>4. /\ Hidden(p, c)' => Hidden(p, c)
        /\ Unused(p, c)' => Unused(p, c)
    BY <1>3 DEF Hidden, Unused
  <2> QED
    BY <1>1, <1>2, <1>4, <1>5, <2>3, <2>4 DEF HiddenTo, Foreign
<1>12. ASSUME NEW c \in Ch
       PROVE  Stream(e, n, wire[e], Live, hist[e], ep[p], hist[p], H2, N2, c)
  <2>1. CASE c # id
    <3>1. Stream(e, m, wire[e], Live, hist[e], ep[p], hist[p], H, N, c)
      BY <1>1, <1>4 DEF SInv, StreamOf
    <3>2. SameSender(m, n, c) /\ SameBook(hist[e], hist[e], c)
      BY <1>1, <2>1 DEF OpensUp, SameBook
    <3>3. SameReceiver(ep[p], ep[p], c) /\ SameNews(hist[p], hist[p], c)
      BY DEF SameReceiver, SameNews
    <3>4. c \in H2 => c \in H
      BY <1>11, <2>1
    <3>5. c \in N2 => c \in N
      BY <1>11, <2>1
    <3> QED
      BY <3>1, <3>2, <3>3, <3>4, <3>5, StreamElse
  <2>2. CASE c = id
    <3>1. n.todo[id] = <<>> /\ n.held[id] = <<>>
      BY <1>1, <1>7 DEF OpensUp, Idle, Silent
    <3>2. n.out[id] = <<>> \/ n.out[id] = <<OpenSeg(id)>>
      <4>1. m.out[id] = <<>>
        BY <1>7 DEF Idle, Silent
      <4>2. Append(<<>>, OpenSeg(id)) = <<OpenSeg(id)>>
        OBVIOUS
      <4> QED
        BY <1>1, <4>1, <4>2 DEF OpensUp
    <3>3. \A i \in DOMAIN wire[e] : ~Moving(wire[e][i], id)
      BY <1>7 DEF Idle
    <3>4. ~WasReset(ep[p], hist[p], id)
      BY <1>7 DEF Idle, Silent, WasReset
    <3>5. Fresh(n, wire[e], hist[e], ep[p], hist[p], H2, id)
      BY <1>8, <3>1, <3>2, <3>3, <3>4 DEF Fresh
    <3>6. Typed(n, wire[e], hist[e], ep[p], hist[p], id)
      <4>1. Typed(m, wire[e], hist[e], ep[p], hist[p], id)
        BY <1>1, TypedIs DEF SInv
      <4>2. <<>> \in Seq(Segment) /\ <<OpenSeg(id)>> \in Seq(Segment) /\ <<>> \in Strand
        BY SegmentsAre DEF Strand, Segment, OpenSeg
      <4> QED
        BY <3>1, <3>2, <4>1, <4>2 DEF Typed
    <3> QED
      BY <2>2, <3>5, <3>6, FreshStream
  <2> QED
    BY <2>1, <2>2
<1>13. ASSUME NEW c \in Ch
       PROVE  Stream(p, ep[p], wire[p], Live, hist[p], n, hist[e], H3, N3, c)
  <2>1. Stream(p, ep[p], wire[p], Live, hist[p], m, hist[e], H1, N1, c)
    <3>1. StreamOf(p, c)
      BY <1>2 DEF SInv
    <3> QED
      BY <1>1, <1>2, <1>4, <3>1 DEF StreamOf
  <2>2. CASE c # id
    <3>1. SameSender(ep[p], ep[p], c) /\ SameBook(hist[p], hist[p], c)
      BY DEF SameSender, SameBook
    <3>2. SameReceiver(m, n, c) /\ SameNews(hist[e], hist[e], c)
      BY <1>1, <2>2 DEF OpensUp, SameNews
    <3>3. c \in H3 => c \in H1
      BY <1>11, <2>2
    <3>4. c \in N3 => c \in N1
      BY <1>11, <2>2
    <3> QED
      BY <2>1, <3>1, <3>2, <3>3, <3>4, StreamElse
  <2>3. CASE c = id
    <3>1. ep[p].todo[id] = <<>> /\ ep[p].held[id] = <<>> /\ ep[p].out[id] = <<>>
      BY <1>7 DEF Idle, Silent
    <3>2. \A i \in DOMAIN wire[p] : ~Moving(wire[p][i], id)
      BY <1>7 DEF Idle
    <3>3. n.rx[id] = <<>> /\ ~WasReset(n, hist[e], id)
      BY <1>1, <1>8 DEF OpensUp, WasReset
    <3>4. Listening(n, H3, id) => n.asm[id] = <<>>
      BY <1>1, <1>10 DEF OpensUp, Listening
    <3>5. Fresh(ep[p], wire[p], hist[p], n, hist[e], H3, id)
      BY <1>8, <3>1, <3>2, <3>3, <3>4 DEF Fresh
    <3>6. Typed(ep[p], wire[p], hist[p], n, hist[e], id)
      <4>1. IsEnd(e, n)
        BY <1>2, <1>3, EndsAre DEF IInv, Types, Local
      <4>2. /\ IsEnd(p, ep[p]) /\ wire[p] \in Seq(Segment) /\ Tale(hist[p])
        BY <1>2, EndsAre DEF SInv, IInv, Tales
      <4> QED
        BY <1>2, <4>1, <4>2, TypedOf
    <3> QED
      BY <2>3, <3>5, <3>6, FreshStream
  <2> QED
    BY <2>2, <2>3
<1>14. AllTell(e)
  BY <1>1, <1>3, <1>5, <1>12, <1>13 DEF AllTell, Sends, Gets
<1>15. Tale(hist'[e]) /\ ep'[Peer(e)] = ep[Peer(e)] /\ hist'[Peer(e)] = hist[Peer(e)]
  BY <1>1, <1>2, <1>3
<1> QED
  BY <1>14, <1>15, StepTells

LEMMA OpenBiTells ==
    ASSUME SInv, NEW e \in End, OpenBi(e)
    PROVE  SInv'
<1>0. IInv'
  BY OpenBiKeeps DEF SInv
<1>1. PICK k, id : k = ep[e] /\ id = k.nextLocal
  OBVIOUS
<1>2. /\ IsEnd(e, k) /\ DOMAIN k = Fields /\ id \in Ch /\ hist' = hist
  BY <1>1, OwnIs DEF OpenBi
<1>3. /\ DOMAIN k.asm = Ch /\ DOMAIN k.rx = Ch /\ DOMAIN k.out = Ch
  BY <1>2 DEF IsEnd
<1>4. Idle(k, wire[e], id)
  BY <1>1, <1>2, UnusedTells
<1>5. PICK m : m = [k EXCEPT !.nextLocal = @ + 2]
  OBVIOUS
<1>6. /\ DOMAIN m = Fields /\ m.nextLocal = id + 2 /\ m.chans = k.chans /\ m.reason = k.reason
      /\ m.out = k.out /\ m.asm = k.asm /\ m.rx = k.rx
      /\ m.send = k.send /\ m.recv = k.recv /\ m.todo = k.todo /\ m.held = k.held
  BY <1>1, <1>2, <1>5 DEF Fields
<1>7. \/ Becomes(e, m)
      \/ Becomes(e, [InsertChannel(m, id) EXCEPT !.out[id] = Append(@, OpenSeg(id))])
  BY <1>1, <1>5 DEF OpenBi
<1>8. ASSUME NEW n, Becomes(e, n), OpensUp(k, n, id)
      PROVE  SInv'
  BY <1>0, <1>1, <1>2, <1>8, OpensUpTells
<1>9. CASE Becomes(e, m)
  <2>1. \A c \in Ch : SameSender(k, m, c) /\ SameReceiver(k, m, c)
    BY <1>6 DEF SameSender, SameReceiver
  <2>2. OpensUp(k, m, id)
    BY <1>1, <1>2, <1>4, <1>6, <2>1 DEF OpensUp, Idle, Silent
  <2> QED
    BY <1>8, <1>9, <2>2
<1>10. ASSUME NEW n, Becomes(e, n),
              n = [InsertChannel(m, id) EXCEPT !.out[id] = Append(@, OpenSeg(id))]
       PROVE  SInv'
  <2>1. PICK o : o = InsertChannel(m, id)
    OBVIOUS
  <2>2. /\ DOMAIN o = Fields /\ o.nextLocal = m.nextLocal /\ o.reason = m.reason
        /\ o.chans = m.chans \cup {id} /\ o.out = m.out /\ o.todo = m.todo /\ o.held = m.held
        /\ o.send = m.send \cup {id} /\ o.recv = m.recv \cup {id}
        /\ o.asm = [m.asm EXCEPT ![id] = <<>>] /\ o.rx = [m.rx EXCEPT ![id] = <<>>]
    BY <1>6, <2>1 DEF InsertChannel, Fields
  <2>3. /\ n.nextLocal = o.nextLocal /\ n.reason = o.reason /\ n.chans = o.chans
        /\ n.todo = o.todo /\ n.held = o.held /\ n.send = o.send /\ n.recv = o.recv
        /\ n.asm = o.asm /\ n.rx = o.rx /\ n.out = [o.out EXCEPT ![id] = Append(@, OpenSeg(id))]
    BY <1>10, <2>1, <2>2 DEF Fields
  <2>4. /\ n.out[id] = Append(k.out[id], OpenSeg(id)) /\ n.rx[id] = <<>> /\ n.asm[id] = <<>>
        /\ \A c \in Ch : c # id => /\ n.out[c] = k.out[c] /\ n.rx[c] = k.rx[c]
                                   /\ n.asm[c] = k.asm[c]
    BY <1>2, <1>3, <1>6, <2>2, <2>3
  <2>5. \A c \in Ch : c # id => SameSender(k, n, c) /\ SameReceiver(k, n, c)
    BY <1>6, <2>2, <2>3, <2>4 DEF SameSender, SameReceiver
  <2>6. n.nextLocal = id + 2 /\ n.reason = k.reason /\ n.todo = k.todo /\ n.held = k.held
    BY <1>6, <2>2, <2>3
  <2>7. id \in n.chans
    BY <2>2, <2>3
  <2>8. OpensUp(k, n, id)
    BY <1>1, <2>4, <2>5, <2>6, <2>7 DEF OpensUp
  <2> QED
    BY <1>8, <1>10, <2>8
<1> QED
  BY <1>7, <1>9, <1>10
-----------------------------------------------------------------------------
(* What a segment d that is read makes of state m of an end.               *)

\* Only credit moves, or the segment is ignored.
Unmoved(m, n) ==
    /\ n.nextLocal = m.nextLocal /\ n.reason = m.reason
    /\ \A c \in Ch : SameSender(m, n, c) /\ SameReceiver(m, n, c)
Ignored(m, n, d) == Unmoved(m, n) /\ (d.kind \in {"DATA", "RESET"} => d.ch \notin m.chans)

\* Data arrives; where the receiver is gone it is given back.
SameBut(m, n, c) ==
    /\ n.nextLocal = m.nextLocal /\ n.reason = m.reason /\ n.chans = m.chans
    /\ n.send = m.send /\ n.recv = m.recv /\ n.todo = m.todo /\ n.held = m.held
    /\ n.out = m.out /\ \A x \in Ch : x # c => n.asm[x] = m.asm[x] /\ n.rx[x] = m.rx[x]
Arrives(m, n, c, body) ==
    /\ SameBut(m, n, c) /\ c \in m.chans
    /\ c \in m.recv => Delivers(m, n, body, c)
    /\ c \notin m.recv => n.rx[c] = m.rx[c]

\* The peer closed the channel.
Removes(m, n, c) ==
    /\ n.nextLocal = m.nextLocal /\ n.reason = m.reason /\ n.chans = m.chans \ {c}
    /\ n.send = m.send /\ n.recv = m.recv /\ n.todo = m.todo /\ n.held = m.held
    /\ n.asm = m.asm /\ n.rx = m.rx
    /\ n.out[c] = <<>> /\ \A x \in Ch : x # c => n.out[x] = m.out[x]

\* The peer opened it.
Admits(m, n, c) ==
    /\ n.nextLocal = m.nextLocal /\ n.reason = m.reason /\ n.chans = m.chans \cup {c}
    /\ n.send = m.send \cup {c} /\ n.recv = m.recv \cup {c}
    /\ n.todo = m.todo /\ n.held = m.held /\ n.out = m.out
    /\ n.asm[c] = <<>> /\ n.rx[c] = <<>>
    /\ \A x \in Ch : x # c => n.asm[x] = m.asm[x] /\ n.rx[x] = m.rx[x]

Takes(m, n, d) ==
    \/ Ignored(m, n, d)
    \/ Over(m, n)
    \/ d.kind = "DATA" /\ Arrives(m, n, d.ch, d.body)
    \/ d.kind = "RESET" /\ Removes(m, n, d.ch)
    \/ d.kind = "OPEN" /\ Admits(m, n, d.ch)

LEMMA UnmovedIs == \A m : Unmoved(m, m)
BY DEF Unmoved, SameSender, SameReceiver

LEMMA WindowTaken ==
    ASSUME NEW e, NEW m, IsEnd(e, m), NEW c \in Ch, NEW k, NEW n, n = PeerWindow(m, c, k)
    PROVE  Unmoved(m, n) \/ Over(m, n)
<1>1. CASE n = m
  BY <1>1, UnmovedIs
<1>2. CASE n = Shutdown(m, "FlowControlInflated")
  <2>1. "FlowControlInflated" # "none"
    OBVIOUS
  <2>2. n = m \/ Over(m, n)
    BY <1>2, <2>1, ShutdownIs
  <2> QED
    BY <2>2, UnmovedIs
<1>3. CASE n = [m EXCEPT !.credit[c] = @ + k]
  <2>1. DOMAIN m = Fields
    BY DEF IsEnd
  <2>2. /\ n.nextLocal = m.nextLocal /\ n.reason = m.reason /\ n.chans = m.chans
        /\ n.send = m.send /\ n.recv = m.recv /\ n.todo = m.todo /\ n.held = m.held
        /\ n.asm = m.asm /\ n.rx = m.rx /\ n.out = m.out
    BY <1>3, <2>1 DEF Fields
  <2> QED
    BY <2>2 DEF Unmoved, SameSender, SameReceiver
<1> QED
  BY <1>1, <1>2, <1>3 DEF PeerWindow

LEMMA ReturnLeaves ==
    ASSUME NEW m, DOMAIN m = Fields, NEW c, NEW k, NEW n, n = ReturnCredit(m, c, k)
    PROVE  /\ n.nextLocal = m.nextLocal /\ n.reason = m.reason /\ n.chans = m.chans
           /\ n.send = m.send /\ n.recv = m.recv /\ n.todo = m.todo /\ n.held = m.held
           /\ n.asm = m.asm /\ n.rx = m.rx /\ n.out = m.out
<1>1. CASE Closed(m) \/ c \notin m.chans
  BY <1>1 DEF ReturnCredit
<1>2. CASE ~(Closed(m) \/ c \notin m.chans)
  <2>1. n = [m EXCEPT !.unacked[c] = @ - k, !.urgent = Append(@, WindowSeg(c, k))]
    BY <1>2 DEF ReturnCredit
  <2> QED
    BY <2>1 DEF Fields
<1> QED
  BY <1>1, <1>2

LEMMA DataTaken ==
    ASSUME NEW e, NEW m, Local(e, m), NEW c \in Ch, NEW body, NEW n, n = PeerData(m, c, body)
    PROVE  \/ Unmoved(m, n) /\ c \notin m.chans
           \/ Over(m, n)
           \/ Arrives(m, n, c, body)
<1>1. /\ IsEnd(e, m) /\ DOMAIN m = Fields /\ DOMAIN m.asm = Ch /\ DOMAIN m.rx = Ch
  BY DEF Local, IsEnd
<1>2. CASE Closed(m) \/ c \in Range(m.retired)
  <2>1. n = m /\ c \notin m.chans
    BY <1>1, <1>2 DEF PeerData, Local, NotRetired, IsEnd, Closed
  <2> QED
    BY <2>1, UnmovedIs
<1>3. ASSUME ~Closed(m), NEW why, why # "none", n = Shutdown(m, why)
      PROVE  Over(m, n)
  <2>1. Closed(n)
    BY <1>1, <1>3 DEF Shutdown, Closed, Fields
  <2>2. n = m \/ Over(m, n)
    BY <1>1, <1>3, ShutdownIs
  <2> QED
    BY <1>3, <2>1, <2>2
<1>4. CASE /\ ~Closed(m) /\ c \notin Range(m.retired)
           /\ c \notin m.chans \/ m.unacked[c] + Len(body) > Window
  <2>1. n = Shutdown(m, "UnknownChannel") \/ n = Shutdown(m, "FlowControlExceeded")
    BY <1>4 DEF PeerData
  <2>2. "UnknownChannel" # "none" /\ "FlowControlExceeded" # "none"
    OBVIOUS
  <2> QED
    BY <1>3, <1>4, <2>1, <2>2
<1>5. CASE /\ ~Closed(m) /\ c \notin Range(m.retired)
           /\ c \in m.chans /\ ~(m.unacked[c] + Len(body) > Window)
  <2>1. PICK r : r = Reassemble(m.asm[c] \o body)
    OBVIOUS
  <2>2. PICK o : o = [m EXCEPT !.unacked[c] = @ + Len(body), !.asm[c] = r.rest]
    OBVIOUS
  <2>3. /\ DOMAIN o = Fields /\ o.nextLocal = m.nextLocal /\ o.reason = m.reason
        /\ o.chans = m.chans
        /\ o.send = m.send /\ o.recv = m.recv /\ o.todo = m.todo /\ o.held = m.held
        /\ o.rx = m.rx /\ o.out = m.out /\ o.asm = [m.asm EXCEPT ![c] = r.rest]
    BY <1>1, <2>2 DEF Fields
  <2>4. o.asm[c] = r.rest /\ \A x \in Ch : x # c => o.asm[x] = m.asm[x]
    BY <1>1, <2>3
  <2>5. n = IF c \in m.recv THEN [o EXCEPT !.rx[c] = @ \o r.frames]
            ELSE IF r.used > 0 THEN ReturnCredit(o, c, r.used) ELSE o
    BY <1>5, <2>1, <2>2 DEF PeerData
  <2>6. CASE c \in m.recv
    <3>1. n = [o EXCEPT !.rx[c] = @ \o r.frames]
      BY <2>5, <2>6
    <3>2. /\ n.nextLocal = o.nextLocal /\ n.reason = o.reason /\ n.chans = o.chans
          /\ n.send = o.send /\ n.recv = o.recv /\ n.todo = o.todo /\ n.held = o.held
          /\ n.asm = o.asm /\ n.out = o.out /\ n.rx = [o.rx EXCEPT ![c] = @ \o r.frames]
      BY <2>3, <3>1 DEF Fields
    <3>3. /\ n.rx[c] = m.rx[c] \o r.frames /\ \A x \in Ch : x # c => n.rx[x] = m.rx[x]
      BY <1>1, <2>3, <3>2
    <3>4. SameBut(m, n, c)
      BY <2>3, <2>4, <3>2, <3>3 DEF SameBut
    <3>5. Delivers(m, n, body, c)
      BY <1>5, <2>1, <2>3, <2>4, <2>6, <3>2, <3>3 DEF Delivers
    <3> QED
      BY <1>5, <2>6, <3>4, <3>5 DEF Arrives
  <2>7. CASE c \notin m.recv
    <3>1. n = ReturnCredit(o, c, r.used) \/ n = o
      BY <2>5, <2>7
    <3>2. /\ n.nextLocal = o.nextLocal /\ n.reason = o.reason /\ n.chans = o.chans
          /\ n.send = o.send /\ n.recv = o.recv /\ n.todo = o.todo /\ n.held = o.held
          /\ n.asm = o.asm /\ n.rx = o.rx /\ n.out = o.out
      BY <2>3, <3>1, ReturnLeaves
    <3>3. SameBut(m, n, c)
      BY <2>3, <2>4, <3>2 DEF SameBut
    <3> QED
      BY <1>5, <2>3, <2>7, <3>2, <3>3 DEF Arrives
  <2> QED
    BY <2>6, <2>7
<1> QED
  BY <1>2, <1>4, <1>5

LEMMA ResetTaken ==
    ASSUME NEW e, NEW m, IsEnd(e, m), NEW c \in Ch, NEW n, n = PeerReset(m, c)
    PROVE  (Unmoved(m, n) /\ c \notin m.chans) \/ Removes(m, n, c)
<1>1. CASE Closed(m)
  <2>1. n = m /\ c \notin m.chans
    BY <1>1 DEF PeerReset, Closed, IsEnd
  <2> QED
    BY <2>1, UnmovedIs
<1>2. CASE ~Closed(m)
  <2>1. DOMAIN m = Fields /\ m.retired \in Seq(Ch) /\ DOMAIN m.out = Ch
    BY DEF IsEnd
  <2>2. PICK o : o = [m EXCEPT !.chans = @ \ {c}, !.out[c] = <<>>]
    OBVIOUS
  <2>3. /\ DOMAIN o = Fields /\ o.chans = m.chans \ {c} /\ o.out = [m.out EXCEPT ![c] = <<>>]
        /\ o.retired = m.retired
        /\ o.reason = m.reason /\ o.nextLocal = m.nextLocal
        /\ o.asm = m.asm /\ o.rx = m.rx
        /\ o.send = m.send /\ o.recv = m.recv
        /\ o.todo = m.todo /\ o.held = m.held
    BY <2>1, <2>2 DEF Fields
  <2>4. n = Retire(o, c)
    BY <1>2, <2>2 DEF PeerReset
  <2>5. n = [o EXCEPT !.retired = n.retired]
    BY <2>1, <2>3, <2>4, RetireIs
  <2>6. /\ n.chans = o.chans /\ n.out = o.out /\ n.reason = o.reason
        /\ n.nextLocal = o.nextLocal /\ n.asm = o.asm /\ n.rx = o.rx
        /\ n.send = o.send /\ n.recv = o.recv /\ n.todo = o.todo /\ n.held = o.held
    BY <2>3, <2>5 DEF Fields
  <2>7. n.out[c] = <<>> /\ \A x \in Ch : x # c => n.out[x] = m.out[x]
    BY <2>1, <2>3, <2>6
  <2> QED
    BY <2>3, <2>6, <2>7 DEF Removes
<1> QED
  BY <1>1, <1>2

LEMMA OpenTaken ==
    ASSUME NEW e, NEW m, IsEnd(e, m), NEW c \in Ch, NEW n, n = PeerOpen(m, e, c)
    PROVE  Unmoved(m, n) \/ Over(m, n) \/ Admits(m, n, c)
<1>1. CASE n = m
  BY <1>1, UnmovedIs
<1>2. ASSUME NEW why, why # "none", n = Shutdown(m, why)
      PROVE  Unmoved(m, n) \/ Over(m, n)
  <2>1. n = m \/ Over(m, n)
    BY <1>2, ShutdownIs
  <2> QED
    BY <2>1, UnmovedIs
<1>3. CASE n = [InsertChannel(m, c) EXCEPT !.acceptQ = Append(@, c)]
  <2>1. PICK o : o = InsertChannel(m, c)
    OBVIOUS
  <2>2. DOMAIN m = Fields /\ DOMAIN m.asm = Ch /\ DOMAIN m.rx = Ch
    BY DEF IsEnd
  <2>3. /\ DOMAIN o = Fields /\ o.nextLocal = m.nextLocal /\ o.reason = m.reason
        /\ o.chans = m.chans \cup {c} /\ o.out = m.out /\ o.todo = m.todo /\ o.held = m.held
        /\ o.send = m.send \cup {c} /\ o.recv = m.recv \cup {c}
        /\ o.asm = [m.asm EXCEPT ![c] = <<>>] /\ o.rx = [m.rx EXCEPT ![c] = <<>>]
    BY <2>1, <2>2 DEF InsertChannel, Fields
  <2>4. /\ n.nextLocal = o.nextLocal /\ n.reason = o.reason /\ n.chans = o.chans
        /\ n.todo = o.todo /\ n.held = o.held /\ n.send = o.send /\ n.recv = o.recv
        /\ n.asm = o.asm /\ n.rx = o.rx /\ n.out = o.out
    BY <1>3, <2>1, <2>3 DEF Fields
  <2>5. /\ n.asm[c] = <<>> /\ n.rx[c] = <<>>
        /\ \A x \in Ch : x # c => n.asm[x] = m.asm[x] /\ n.rx[x] = m.rx[x]
    BY <2>2, <2>3, <2>4
  <2> QED
    BY <2>3, <2>4, <2>5 DEF Admits
<1>4. /\ "WrongChannelParity" # "none" /\ "DuplicateChannel" # "none"
      /\ "TooManyChannels" # "none"
  OBVIOUS
<1>5. \/ n = m \/ n = Shutdown(m, "WrongChannelParity") \/ n = Shutdown(m, "DuplicateChannel")
      \/ n = Shutdown(m, "TooManyChannels")
      \/ n = [InsertChannel(m, c) EXCEPT !.acceptQ = Append(@, c)]
  BY DEF PeerOpen
<1> QED
  BY <1>1, <1>2, <1>3, <1>4, <1>5

LEMMA SegmentTaken ==
    ASSUME NEW e, NEW m, Local(e, m), NEW d \in Segment, NEW n, n = HandleSegment(m, e, d)
    PROVE  Takes(m, n, d)
<1>1. d.ch \in Ch /\ d.kind \in {"OPEN", "DATA", "WINDOW", "RESET"} /\ IsEnd(e, m)
  BY DEF Segment, Local
<1>2. CASE d.kind = "OPEN"
  <2>1. n = PeerOpen(m, e, d.ch)
    BY <1>2 DEF HandleSegment
  <2>2. Unmoved(m, n) \/ Over(m, n) \/ Admits(m, n, d.ch)
    BY <1>1, <2>1, OpenTaken
  <2> QED
    BY <1>2, <2>2 DEF Takes, Ignored
<1>3. CASE d.kind = "DATA"
  <2>1. n = PeerData(m, d.ch, d.body)
    BY <1>3 DEF HandleSegment
  <2>2. (Unmoved(m, n) /\ d.ch \notin m.chans) \/ Over(m, n) \/ Arrives(m, n, d.ch, d.body)
    BY <1>1, <2>1, DataTaken
  <2> QED
    BY <1>3, <2>2 DEF Takes, Ignored
<1>4. CASE d.kind = "WINDOW"
  <2>1. n = PeerWindow(m, d.ch, d.n)
    BY <1>4 DEF HandleSegment
  <2>2. Unmoved(m, n) \/ Over(m, n)
    BY <1>1, <2>1, WindowTaken
  <2> QED
    BY <1>4, <2>2 DEF Takes, Ignored
<1>5. CASE d.kind = "RESET"
  <2>1. n = PeerReset(m, d.ch)
    BY <1>5 DEF HandleSegment
  <2>2. (Unmoved(m, n) /\ d.ch \notin m.chans) \/ Removes(m, n, d.ch)
    BY <1>1, <2>1, ResetTaken
  <2> QED
    BY <1>5, <2>2 DEF Takes, Ignored
<1> QED
  BY <1>1, <1>2, <1>3, <1>4, <1>5
-----------------------------------------------------------------------------
(* The reader task takes a segment: both directions of its channel.        *)

LEMMA NoNewTaken ==
    ASSUME NEW m, NEW n, NEW d \in Segment, Takes(m, n, d)
    PROVE  NoNewOpen(m, n)
<1>1. n.nextLocal = m.nextLocal
  BY DEF Takes, Ignored, Unmoved, Over, Arrives, SameBut, Removes, Admits
<1>2. \A c \in Ch : n.out[c] = m.out[c] \/ n.out[c] = <<>>
  BY DEF Takes, Ignored, Unmoved, SameSender, Over, Arrives, SameBut, Removes, Admits
<1> QED
  BY <1>1, <1>2 DEF NoNewOpen

\* What is said on a channel, but for its OPEN, is said to an end that knows it.
LEMMA KnownIs ==
    ASSUME SInv, NEW e \in End, NEW p, p = Peer(e), NEW d, d = Head(wire[p]), wire[p] # <<>>,
           NEW c \in Ch, Moving(d, c), d.kind # "OPEN"
    PROVE  c \notin HiddenTo(p) /\ c \notin Foreign(p)
<1>1. p \in End /\ p # e /\ Peer(p) = e
  BY PeerIs
<1>2. wire[p] \in Seq(Segment)
  BY <1>1, EndsAre DEF SInv, IInv
<1>3. 1 \in DOMAIN wire[p] /\ wire[p][1] = d
  BY <1>2, TailIs
<1>4. ~Idle(ep[p], wire[p], c)
  BY <1>3 DEF Idle
<1>5. ~Unused(p, c)
  BY <1>1, <1>4 DEF SInv, IInv, UnusedIdle
<1>6. ~Announced(ep[p], wire[p], c)
  <2>1. OpenLeads(ep[p], wire[p], c)
    BY <1>1 DEF SInv, IInv, Order
  <2>2. \A i \in DOMAIN ep[p].out[c] : ~IsOpen(ep[p].out[c][i], c)
    BY <1>3, <2>1 DEF OpenLeads
  <2>3. ASSUME NEW i \in DOMAIN wire[p], IsOpen(wire[p][i], c)
        PROVE  FALSE
    <3>1. i # 1
      BY <1>3, <2>3 DEF IsOpen
    <3>2. 1 < i
      BY <1>2, <3>1
    <3> QED
      BY <1>3, <2>1, <2>3, <3>2 DEF OpenLeads
  <2> QED
    BY <2>2, <2>3 DEF Announced
<1>7. c \notin HiddenTo(p)
  BY <1>5, <1>6 DEF HiddenTo, Hidden, Unused
<1>8. ~Hidden(e, c)
  BY <1>4 DEF SInv, IInv, HiddenIdle
<1> QED
  BY <1>1, <1>5, <1>7, <1>8 DEF Foreign

LEMMA ReadHears ==
    ASSUME NEW s, NEW m, NEW w, NEW L, NEW h, NEW r, NEW g, NEW H, NEW N, NEW c,
           NEW r2, NEW g2, NEW H2, NEW N2, Typed(m, w, h, r, g, c), Typed(m, w, h, r2, g2, c),
           w # <<>>, Stream(s, m, w, L, h, r, g, H, N, c), Hears(r, g, r2, g2, H, c),
           \/ Body(Head(w), c) = <<>> /\ ~IsReset(Head(w), c)
           \/ ~Listening(r2, H2, c),
           H2 \subseteq H, N2 \subseteq N
    PROVE  Stream(s, m, Tail(w), L, h, r2, g2, H2, N2, c)
<1>1. SameLife(s, L, L) /\ H \subseteq H /\ N \subseteq N
  BY DEF SameLife
<1>2. Stream(s, m, w, L, h, r2, g2, H, N, c)
  BY <1>1, ReceiverTells
<1> QED
  BY <1>2, ReadTells

\* The other direction: what end e sends itself.
LEMMA SendsTaken ==
    ASSUME SInv, NEW e \in End, NEW p, p = Peer(e), NEW d, d = Head(wire[p]), wire[p] # <<>>,
           NEW n, NEW b, Takes(ep[e], n, d), Noted(hist[e], b), NEW c \in Ch
    PROVE  \/ Moved(e, ep[e], wire[e], Live, hist[e], n, wire[e], Live, b, c)
           \/ StreamWith(e, n, b, c)
<1>1. PICK m, w : m = ep[e] /\ w = wire[e]
  OBVIOUS
<1>2. p \in End /\ p # e /\ Peer(p) = e /\ wire[p] \in Seq(Segment)
  BY PeerIs, EndsAre DEF SInv, IInv
<1>3. Typed(m, w, hist[e], ep[p], hist[p], c)
  BY <1>1, TypedIs DEF SInv
<1>4. Stream(e, m, w, Live, hist[e], ep[p], hist[p], HiddenTo(e), Foreign(e), c)
  BY <1>1 DEF SInv, StreamOf
<1>5. Sender(e, m, w, Live, hist[e], c)
  BY <1>4 DEF Stream
<1>6. SameBook(hist[e], b, c) /\ SameLife(e, Live, Live)
  BY DEF SameBook, SameLife, Noted
<1>7. ASSUME SameSender(m, n, c)
      PROVE  Moved(e, m, w, Live, hist[e], n, w, Live, b, c)
  BY <1>5, <1>6, <1>7, SameMoved
<1>8. CASE Ignored(m, n, d)
  BY <1>1, <1>7, <1>8 DEF Ignored, Unmoved
<1>9. CASE Over(m, n)
  <2>1. n = m \/ Over(m, n)
    BY <1>9
  <2>2. Moved(e, m, w, Live, hist[e], n, w, Live, b, c)
    BY <1>3, <1>5, <2>1, OverMoves
  <2> QED
    BY <1>1, <2>2
<1>10. CASE Arrives(m, n, d.ch, d.body)
  <2>1. SameSender(m, n, c)
    BY <1>10 DEF Arrives, SameBut, SameSender
  <2> QED
    BY <1>1, <1>7, <2>1
<1>11. CASE Removes(m, n, d.ch)
  <2>1. CASE c # d.ch
    <3>1. SameSender(m, n, c)
      BY <1>11, <2>1 DEF Removes, SameSender
    <3> QED
      BY <1>1, <1>7, <3>1
  <2>2. CASE c = d.ch
    <3>1. Cuts(e, m, n, hist[e], b, Live, Live, c)
      BY <1>6, <1>11, <2>2 DEF Cuts, Removes
    <3>2. w \in Seq(Segment) /\ <<>> \in Seq(Segment)
      BY <1>3 DEF Typed
    <3>3. w = w \o <<>>
      BY <3>2
    <3>4. Sender(e, n, w, Live, b, c)
      BY <1>3, <1>5, <3>1, <3>2, <3>3, CutMoves
    <3>5. NoneBegun(m, hist[e], n, b, c)
      BY <1>3, <1>5, <3>1, <3>2, <3>3, CutMoves
    <3>6. Carries(e, m, w, Live, hist[e], n, w, Live, b, c)
      BY <1>3, <1>5, <3>1, <3>2, <3>3, CutMoves
    <3> QED
      BY <1>1, <3>4, <3>5, <3>6 DEF Moved
  <2> QED
    BY <2>1, <2>2
<1>12. CASE d.kind = "OPEN" /\ Admits(m, n, d.ch)
  <2>1. CASE c # d.ch
    <3>1. SameSender(m, n, c)
      BY <1>12, <2>1 DEF Admits, SameSender
    <3> QED
      BY <1>1, <1>7, <3>1
  <2>2. CASE c = d.ch
    <3>1. /\ 1 \in DOMAIN wire[p] /\ wire[p][1] = d
      BY <1>2, TailIs
    <3>2. Hidden(p, c)
      <4>1. wire[p] \in Seq(Written(p))
        BY <1>2 DEF SInv, IInv, Types
      <4>2. d \in Written(p)
        BY <3>1, <4>1
      <4>3. Own(p, c)
        BY <1>12, <2>2, <4>2 DEF Written
      <4>4. Announced(ep[p], wire[p], c)
        BY <1>12, <2>2, <3>1 DEF Announced, IsOpen
      <4> QED
        BY <4>3, <4>4 DEF Hidden
    <3>3. c \in Foreign(e)
      BY <3>2 DEF Foreign
    <3>4. Idle(m, w, c)
      BY <1>1, <1>2, <3>2 DEF SInv, IInv, HiddenIdle
    <3>5. /\ hist[e].frames[c] = <<>> /\ ep[p].rx[c] = <<>> /\ hist[p].got[c] = <<>>
          /\ c \notin hist[e].givenUp
          /\ Listening(ep[p], HiddenTo(e), c) => ep[p].asm[c] = <<>>
          /\ ~WasReset(ep[p], hist[p], c) /\ ~WasTold(hist[p], c)
      BY <1>3, <1>4, <3>3, ForeignIs
    <3>6. n.todo[c] = <<>> /\ n.held[c] = <<>> /\ n.out[c] = <<>>
      BY <1>12, <3>4 DEF Admits, Idle, Silent
    <3>7. \A i \in DOMAIN w : ~Moving(w[i], c)
      BY <3>4 DEF Idle
    <3>8. b.frames[c] = <<>> /\ c \notin b.givenUp
      BY <3>5 DEF Noted
    <3>9. Fresh(n, w, b, ep[p], hist[p], HiddenTo(e), c)
      BY <3>5, <3>6, <3>7, <3>8 DEF Fresh
    <3>10. Typed(n, w, b, ep[p], hist[p], c)
      <4>1. <<>> \in Seq(Segment) /\ <<>> \in Strand
        BY DEF Strand
      <4>2. b.frames[c] \in Lengths
        BY <1>3, <3>5, <3>8 DEF Typed
      <4> QED
        BY <1>3, <3>6, <4>1, <4>2 DEF Typed
    <3>11. Stream(e, n, w, Live, b, ep[p], hist[p], HiddenTo(e), Foreign(e), c)
      BY <3>9, <3>10, FreshStream
    <3> QED
      BY <1>1, <3>11 DEF StreamWith
  <2> QED
    BY <2>1, <2>2
<1> QED
  BY <1>1, <1>8, <1>9, <1>10, <1>11, <1>12 DEF Takes

\* What end e receives.
LEMMA GetsTaken ==
    ASSUME SInv, NEW e \in End, NEW p, p = Peer(e), NEW d, d = Head(wire[p]), wire[p] # <<>>,
           NEW n, NEW b, Takes(ep[e], n, d), Noted(hist[e], b), Tale(b), IsEnd(e, n),
           NEW c \in Ch, NEW H2, NEW N2, H2 \subseteq HiddenTo(p), N2 \subseteq Foreign(p)
    PROVE  Stream(p, ep[p], Tail(wire[p]), Live, hist[p], n, b, H2, N2, c)
<1>1. PICK m, w, k, g, h, H, N :
        /\ m = ep[e] /\ w = wire[p] /\ k = ep[p] /\ g = hist[e] /\ h = hist[p]
        /\ H = HiddenTo(p) /\ N = Foreign(p)
  OBVIOUS
<1>2. p \in End /\ p # e /\ Peer(p) = e /\ w \in Seq(Segment) /\ w # <<>>
  BY <1>1, PeerIs, EndsAre DEF SInv, IInv
<1>3. Typed(k, w, h, m, g, c)
  <2>1. Typed(ep[p], wire[p], hist[p], ep[Peer(p)], hist[Peer(p)], c)
    BY <1>2, TypedIs DEF SInv
  <2> QED
    BY <1>1, <1>2, <2>1
<1>4. Typed(k, w, h, n, b, c)
  <2>1. IsEnd(p, k) /\ Tale(h)
    BY <1>1, <1>2, OwnIs
  <2> QED
    BY <1>2, <2>1, TypedOf
<1>5. Stream(p, k, w, Live, h, m, g, H, N, c)
  <2>1. StreamOf(p, c)
    BY <1>2 DEF SInv
  <2> QED
    BY <1>1, <1>2, <2>1 DEF StreamOf
<1>6. ASSUME Moving(d, c), d.kind # "OPEN"
      PROVE  c \notin H /\ c \notin N
  BY <1>1, <1>6, KnownIs
<1>7. d = Head(w) /\ d \in Segment /\ d.ch \in Ch
  <2>1. Head(w) \in Segment
    BY <1>2, TailIs
  <2> QED
    BY <1>1, <2>1 DEF Segment
<1>8. Noted(g, b) /\ SameNews(g, b, c) /\ H2 \subseteq H /\ N2 \subseteq N
  BY <1>1 DEF Noted, SameNews
<1>9. ~Moving(d, c) \/ d.kind = "OPEN" => Body(Head(w), c) = <<>> /\ ~IsReset(Head(w), c)
  BY <1>7 DEF Moving, Body, IsReset
<1>10. ASSUME Hears(m, g, n, b, H, c),
              \/ Body(Head(w), c) = <<>> /\ ~IsReset(Head(w), c)
              \/ ~Listening(n, H2, c)
       PROVE  Stream(p, k, Tail(w), Live, h, n, b, H2, N2, c)
  BY <1>2, <1>3, <1>4, <1>5, <1>8, <1>10, ReadHears
<1>11. ASSUME SameReceiver(m, n, c)
       PROVE  Hears(m, g, n, b, H, c)
  BY <1>8, <1>11, SameHears
<1> SUFFICES Stream(p, k, Tail(w), Live, h, n, b, H2, N2, c)
  BY <1>1
<1>12. CASE Ignored(m, n, d)
  <2>1. SameReceiver(m, n, c)
    BY <1>12 DEF Ignored, Unmoved
  <2>2. CASE ~Moving(d, c) \/ d.kind = "OPEN"
    BY <1>9, <1>10, <1>11, <2>1, <2>2
  <2>3. CASE Moving(d, c) /\ d.kind # "OPEN"
    <3>1. d.ch = c /\ d.kind \in {"DATA", "RESET"}
      BY <1>7, <2>3 DEF Moving, Segment
    <3>2. c \notin n.chans
      BY <1>12, <2>1, <3>1 DEF Ignored, SameReceiver
    <3>3. ~Listening(n, H2, c)
      BY <1>6, <1>8, <2>3, <3>2 DEF Listening
    <3> QED
      BY <1>10, <1>11, <2>1, <3>3
  <2> QED
    BY <2>2, <2>3
<1>13. CASE Over(m, n)
  <2>1. n = m \/ Over(m, n)
    BY <1>13
  <2>2. Hears(m, g, n, b, H, c)
    BY <1>8, <2>1, OverHears
  <2>3. CASE ~Moving(d, c) \/ d.kind = "OPEN"
    BY <1>9, <1>10, <2>2, <2>3
  <2>4. CASE Moving(d, c) /\ d.kind # "OPEN"
    <3>1. ~Listening(n, H2, c)
      BY <1>6, <1>8, <1>13, <2>4 DEF Listening, Over
    <3> QED
      BY <1>10, <2>2, <3>1
  <2> QED
    BY <2>3, <2>4
<1>14. CASE d.kind = "DATA" /\ Arrives(m, n, d.ch, d.body)
  <2>1. CASE d.ch # c
    <3>1. SameReceiver(m, n, c)
      BY <1>14, <2>1 DEF Arrives, SameBut, SameReceiver
    <3>2. ~Moving(d, c)
      BY <2>1 DEF Moving
    <3> QED
      BY <1>9, <1>10, <1>11, <3>1, <3>2
  <2>2. CASE d.ch = c /\ c \notin m.recv
    <3>1. Moving(d, c) /\ d.kind # "OPEN"
      BY <1>14, <2>2 DEF Moving
    <3>2. c \notin H
      BY <1>6, <3>1
    <3>3. /\ n.rx[c] = m.rx[c] /\ n.chans = m.chans /\ n.recv = m.recv /\ n.reason = m.reason
      BY <1>14, <2>2 DEF Arrives, SameBut
    <3>4. Hears(m, g, n, b, H, c)
      BY <1>8, <2>2, <3>2, <3>3 DEF Hears, Decoded, WasReset, WasTold, Closed, Noted
    <3>5. ~Listening(n, H2, c)
      BY <1>8, <2>2, <3>2, <3>3 DEF Listening
    <3> QED
      BY <1>10, <3>4, <3>5
  <2>3. CASE d.ch = c /\ c \in m.recv
    <3>1. Moving(d, c) /\ d.kind # "OPEN"
      BY <1>14, <2>3 DEF Moving
    <3>2. c \notin H
      BY <1>6, <3>1
    <3>3. Body(Head(w), c) = d.body /\ ~IsReset(Head(w), c)
      BY <1>7, <1>14, <2>3 DEF Body, IsReset
    <3>4. Delivers(m, n, Body(Head(w), c), c)
      BY <1>14, <2>3, <3>3 DEF Arrives
    <3>5. Stream(p, k, Tail(w), Live, h, n, g, H2, N2, c)
      BY <1>2, <1>3, <1>5, <1>8, <3>2, <3>3, <3>4, DeliverTells
    <3>6. SameSender(k, k, c) /\ SameBook(h, h, c) /\ SameReceiver(n, n, c)
      BY DEF SameSender, SameBook, SameReceiver
    <3>7. c \in H2 => c \in H2
      OBVIOUS
    <3>8. c \in N2 => c \in N2
      OBVIOUS
    <3> QED
      BY <1>8, <3>5, <3>6, <3>7, <3>8, StreamElse
  <2> QED
    BY <2>1, <2>2, <2>3
<1>15. CASE d.kind = "RESET" /\ Removes(m, n, d.ch)
  <2>1. CASE d.ch # c
    <3>1. SameReceiver(m, n, c)
      BY <1>15, <2>1 DEF Removes, SameReceiver
    <3>2. ~Moving(d, c)
      BY <2>1 DEF Moving
    <3> QED
      BY <1>9, <1>10, <1>11, <3>1, <3>2
  <2>2. CASE d.ch = c
    <3>1. Moving(d, c) /\ d.kind # "OPEN"
      BY <1>15, <2>2 DEF Moving
    <3>2. c \notin H /\ c \notin N
      BY <1>6, <3>1
    <3>3. /\ n.asm[c] = m.asm[c] /\ n.rx[c] = m.rx[c] /\ n.chans = m.chans \ {c}
          /\ n.recv = m.recv /\ n.reason = m.reason
      BY <1>15, <2>2 DEF Removes
    <3>4. CASE c \in m.chans /\ c \in m.recv
      <4>1. IsReset(Head(w), c) /\ c \notin n.chans
        BY <1>7, <1>15, <2>2, <3>3 DEF IsReset
      <4>2. c \in m.chans
        BY <3>4
      <4>3. c \in m.recv
        BY <3>4
      <4>4. n.asm[c] = m.asm[c]
        BY <3>3
      <4>5. n.rx[c] = m.rx[c]
        BY <3>3
      <4>6. Stream(p, k, Tail(w), Live, h, n, g, H2, N2, c)
        BY <1>2, <1>3, <1>5, <1>8, <3>2, <4>1, <4>2, <4>3, <4>4, <4>5, ResetTells
      <4>7. SameSender(k, k, c) /\ SameBook(h, h, c) /\ SameReceiver(n, n, c)
        BY DEF SameSender, SameBook, SameReceiver
      <4>8. c \in H2 => c \in H2
        OBVIOUS
      <4>9. c \in N2 => c \in N2
        OBVIOUS
      <4> QED
        BY <1>8, <4>6, <4>7, <4>8, <4>9, StreamElse
    <3>5. CASE ~(c \in m.chans /\ c \in m.recv)
      <4>1. Hears(m, g, n, b, H, c)
        BY <1>8, <3>3, <3>5 DEF Hears, Decoded, WasReset, WasTold, Closed, Noted
      <4>2. ~Listening(n, H2, c)
        BY <1>8, <3>2, <3>3 DEF Listening
      <4> QED
        BY <1>10, <4>1, <4>2
    <3> QED
      BY <3>4, <3>5
  <2> QED
    BY <2>1, <2>2
<1>16. CASE d.kind = "OPEN" /\ Admits(m, n, d.ch)
  <2>1. CASE d.ch # c
    <3>1. SameReceiver(m, n, c)
      BY <1>16, <2>1 DEF Admits, SameReceiver
    <3>2. ~Moving(d, c)
      BY <2>1 DEF Moving
    <3> QED
      BY <1>9, <1>10, <1>11, <3>1, <3>2
  <2>2. CASE d.ch = c
    <3>1. c \in H
      <4>1. /\ 1 \in DOMAIN w /\ w[1] = d
        BY <1>2, <1>7, TailIs
      <4>2. w \in Seq(Written(p))
        BY <1>1, <1>2 DEF SInv, IInv, Types
      <4>3. d \in Written(p)
        BY <4>1, <4>2
      <4>4. Own(p, c)
        BY <1>16, <2>2, <4>3 DEF Written
      <4>5. Announced(k, w, c)
        BY <1>16, <2>2, <4>1 DEF Announced, IsOpen
      <4> QED
        BY <1>1, <4>4, <4>5 DEF HiddenTo, Hidden
    <3>2. m.asm[c] = <<>> /\ m.rx[c] = <<>> /\ g.got[c] = <<>> /\ ~WasTold(g, c)
      BY <1>5, <3>1 DEF Stream, Complete
    <3>3. H \subseteq H /\ N \subseteq N
      OBVIOUS
    <3>4. Body(Head(w), c) = <<>> /\ ~IsReset(Head(w), c)
      BY <1>9, <1>16
    <3>5. Stream(p, k, Tail(w), Live, h, m, g, H, N, c)
      BY <1>2, <1>3, <1>5, <3>3, <3>4, ReadTells
    <3>6. /\ n.asm[c] = m.asm[c] /\ n.rx[c] = m.rx[c] /\ b.got = g.got /\ c \in n.chans
      BY <1>8, <1>16, <2>2, <3>2 DEF Admits, Noted
    <3>7. Decoded(n, b, c) = Decoded(m, g, c)
      BY <3>6 DEF Decoded
    <3>8. Lined(p, k, Tail(w), Live, h, n, b, c)
      BY <3>1, <3>5, <3>6, <3>7 DEF Stream, Lined, Listening
    <3>9. ~WasReset(n, b, c) /\ ~WasTold(b, c)
      BY <1>8, <3>2, <3>6 DEF WasReset, WasTold, Noted
    <3>10. Ordered(k, h, n, b, c) /\ Sender(p, k, Tail(w), Live, h, c)
      BY <3>5, <3>7 DEF Stream, Ordered
    <3>11. c \in N2 => h.frames[c] = <<>>
      BY <1>8, <3>5 DEF Stream
    <3>12. n.asm[c] = <<>> /\ n.rx[c] = <<>> /\ b.got[c] = <<>>
      BY <3>2, <3>6
    <3> QED
      BY <3>8, <3>9, <3>10, <3>11, <3>12 DEF Stream
  <2> QED
    BY <2>1, <2>2
<1>17. Takes(m, n, d)
  BY <1>1
<1> QED
  BY <1>12, <1>13, <1>14, <1>15, <1>16, <1>17 DEF Takes

LEMMA ReaderTakesTells ==
    ASSUME SInv, NEW e \in End, ReaderTakes(e)
    PROVE  SInv'
<1>0. IInv'
  BY ReaderTakesKeeps DEF SInv
<1>1. PICK p, m, d, n, b :
        /\ p = Peer(e) /\ m = ep[e] /\ d = Head(wire[p]) /\ n = HandleSegment(m, e, d)
        /\ b = Noting(e, n, hist[e])
  OBVIOUS
<1>2. /\ p \in End /\ p # e /\ Peer(p) = e /\ DOMAIN ep = End /\ DOMAIN wire = End
      /\ DOMAIN hist = End /\ Local(e, m) /\ Tale(hist[e]) /\ wire[p] \in Seq(Segment)
      /\ wire[e] \in Seq(Segment)
      /\ DOMAIN hist[e] = {"frames", "got", "ended", "givenUp", "closedHere", "torn"}
  BY <1>1, OwnIs, PeerIs, EndsAre DEF Types
<1>3. /\ ep'[e] = n /\ ep'[p] = ep[p] /\ hist'[e] = b /\ hist'[p] = hist[p]
      /\ wire[p] # <<>> /\ wire'[p] = Tail(wire[p]) /\ wire'[e] = wire[e] /\ Live' = Live
  BY <1>1, <1>2 DEF ReaderTakes, Live
<1>4. d \in Segment
  BY <1>1, <1>2, <1>3, TailIs
<1>5. Takes(m, n, d)
  BY <1>1, <1>2, <1>4, SegmentTaken
<1>6. Noted(hist[e], b) /\ Tale(b)
  BY <1>1, <1>2, NotedIs
<1>7. IsEnd(e, n)
  <2>1. Local(e, ep'[e])
    BY <1>0 DEF IInv, Types
  <2> QED
    BY <1>3, <2>1 DEF Local
<1>8. NoNewOpen(m, n)
  BY <1>4, <1>5, NoNewTaken
<1>9. AllQuiet
  <2>1. Shortened(wire[e], wire'[e])
    BY <1>3 DEF Shortened
  <2>2. Quiet(e)
    BY <1>1, <1>3, <1>8, <2>1, QuietIs
  <2>3. Quiet(p)
    BY <1>2, <1>3, QuietReads
  <2> QED
    BY <1>1, <2>2, <2>3, PeerIs DEF AllQuiet
<1>10. PICK H2, N2, H3, N3 :
        /\ H2 = HiddenTo(e)' /\ N2 = Foreign(e)' /\ H3 = HiddenTo(p)' /\ N3 = Foreign(p)'
  OBVIOUS
<1>11. /\ H2 \subseteq HiddenTo(e) /\ N2 \subseteq Foreign(e)
       /\ H3 \subseteq HiddenTo(p) /\ N3 \subseteq Foreign(p)
  BY <1>2, <1>9, <1>10, HiddenShrinks
<1>12. Reached(e, n, wire[e], b, Live)
  BY <1>3 DEF Reached
<1>13. ASSUME NEW c \in Ch PROVE Sends(e, c)
  <2>1. CASE Moved(e, ep[e], wire[e], Live, hist[e], n, wire[e], Live, b, c)
    BY <1>9, <1>12, <2>1, SendsIs
  <2>2. CASE StreamWith(e, n, b, c)
    <3>1. Stream(e, n, wire[e], Live, b, ep[p], hist[p], HiddenTo(e), Foreign(e), c)
      BY <1>1, <2>2 DEF StreamWith
    <3>2. SameSender(n, n, c) /\ SameBook(b, b, c) /\ SameLife(e, Live, Live)
      BY DEF SameSender, SameBook, SameLife
    <3>3. SameReceiver(ep[p], ep[p], c) /\ SameNews(hist[p], hist[p], c)
      BY DEF SameReceiver, SameNews
    <3>4. Stream(e, n, wire[e], Live, b, ep[p], hist[p], H2, N2, c)
      BY <1>11, <3>1, <3>2, <3>3, StreamStays
    <3> QED
      BY <1>1, <1>3, <1>10, <3>4 DEF Sends
  <2>3. \/ Moved(e, ep[e], wire[e], Live, hist[e], n, wire[e], Live, b, c)
        \/ StreamWith(e, n, b, c)
    <3>1. Takes(ep[e], n, d) /\ Noted(hist[e], b)
      BY <1>1, <1>5, <1>6
    <3> QED
      BY <1>1, <1>3, <3>1, SendsTaken
  <2> QED
    BY <2>1, <2>2, <2>3
<1>14. ASSUME NEW c \in Ch PROVE Gets(e, c)
  <2>1. Takes(ep[e], n, d) /\ Noted(hist[e], b) /\ Tale(b)
    BY <1>1, <1>5, <1>6
  <2>2. Stream(p, ep[p], Tail(wire[p]), Live, hist[p], n, b, H3, N3, c)
    BY <1>1, <1>3, <1>7, <1>11, <2>1, GetsTaken
  <2> QED
    BY <1>1, <1>3, <1>10, <2>2 DEF Gets
<1>15. AllTell(e)
  BY <1>13, <1>14 DEF AllTell
<1>16. Tale(hist'[e]) /\ ep'[Peer(e)] = ep[Peer(e)] /\ hist'[Peer(e)] = hist[Peer(e)]
  BY <1>1, <1>3, <1>6
<1> QED
  BY <1>0, <1>15, <1>16, StepTells
-----------------------------------------------------------------------------
(* Every step keeps the streams.                                           *)

LEMMA StayTells ==
    ASSUME SInv, IInv', ep' = ep, wire' = wire, alive' = alive, hist' = hist
    PROVE  SInv'
<1>1. Tales'
  BY DEF SInv, Tales
<1>2. Live' = Live
  BY DEF Live
<1>3. ASSUME NEW x \in End
      PROVE  HiddenTo(x)' = HiddenTo(x) /\ Foreign(x)' = Foreign(x)
  BY DEF HiddenTo, Foreign, Hidden, Unused
<1>4. ASSUME NEW x \in End, NEW c \in Ch
      PROVE  StreamOf(x, c)'
  <2>1. StreamOf(x, c)
    BY DEF SInv
  <2> QED
    BY <1>2, <1>3, <2>1 DEF StreamOf
<1> QED
  BY <1>1, <1>4 DEF SInv

LEMMA InitTells ==
    ASSUME Init
    PROVE  SInv
<1>1. IInv
  BY InitHolds
<1>2. \A e \in End :
        /\ wire[e] = <<>> /\ ep[e].out = Each(<<>>) /\ ep[e].asm = Each(<<>>)
        /\ ep[e].rx = Each(<<>>) /\ ep[e].recv = {} /\ ep[e].todo = Each(<<>>)
        /\ ep[e].held = Each(<<>>)
        /\ hist[e].frames = Each(<<>>) /\ hist[e].got = Each(<<>>)
        /\ hist[e].ended = Each("no") /\ hist[e].givenUp = {}
  BY DEF Init
<1>3. Tales
  <2>1. <<>> \in Lengths /\ <<>> \in Seq(Frame)
    BY DEF Lengths
  <2> QED
    BY ZenonT(60), <1>2, <2>1 DEF Tales, Tale, Each
<1>4. ASSUME NEW e \in End, NEW c \in Ch
      PROVE  StreamOf(e, c)
  <2>1. PICK p \in End : p = Peer(e)
    BY PeerIs
  <2>2. /\ wire[e] = <<>> /\ ep[e].out[c] = <<>> /\ ep[e].todo[c] = <<>>
        /\ ep[e].held[c] = <<>> /\ hist[e].frames[c] = <<>> /\ c \notin hist[e].givenUp
    BY <1>2 DEF Each
  <2>3. /\ ep[p].asm[c] = <<>> /\ ep[p].rx[c] = <<>> /\ c \notin ep[p].recv
        /\ hist[p].got[c] = <<>> /\ hist[p].ended[c] = "no"
    BY <1>2 DEF Each
  <2>4. \A i \in DOMAIN wire[e] : ~Moving(wire[e][i], c)
    BY <2>2
  <2>5. ~WasReset(ep[p], hist[p], c) /\ ~WasTold(hist[p], c)
    BY <2>3 DEF WasReset, WasTold
  <2>6. Fresh(ep[e], wire[e], hist[e], ep[p], hist[p], HiddenTo(e), c)
    BY <2>2, <2>3, <2>4, <2>5 DEF Fresh
  <2>7. Typed(ep[e], wire[e], hist[e], ep[p], hist[p], c)
    BY <1>1, <1>3, <2>1, TypedIs
  <2>8. Stream(e, ep[e], wire[e], Live, hist[e], ep[p], hist[p], HiddenTo(e), Foreign(e), c)
    BY <2>6, <2>7, FreshStream
  <2> QED
    BY <2>1, <2>8 DEF StreamOf
<1> QED
  BY <1>1, <1>3, <1>4 DEF SInv

LEMMA NextTells ==
    ASSUME SInv, [Next]_vars
    PROVE  SInv'
<1>0. IInv'
  BY NextKeeps DEF SInv
<1>1. CASE UNCHANGED vars
  BY <1>0, <1>1, StayTells DEF vars
<1>2. CASE Cut
  BY <1>0, <1>2, StayTells DEF Cut
<1>3. ASSUME NEW e \in End,
             \/ OpenBi(e) \/ AcceptBi(e) \/ CloseMux(e) \/ DropMux(e)
             \/ WriterTakes(e) \/ WriterExits(e) \/ WriterFails(e)
             \/ ReaderTakes(e) \/ ReaderEof(e) \/ ReaderFails(e)
      PROVE  SInv'
  <2>0. "clean" # "none" /\ "ConnectionLost" # "none"
    OBVIOUS
  <2>1. CASE OpenBi(e)
    BY <2>1, OpenBiTells
  <2>2. CASE AcceptBi(e)
    BY <2>2, AcceptTells
  <2>3. CASE CloseMux(e)
    BY <2>0, <2>3, EndsTells DEF CloseMux
  <2>4. CASE DropMux(e)
    BY <2>4, DropMuxTells
  <2>5. CASE WriterTakes(e)
    BY <2>5, WriterTakesTells
  <2>6. CASE WriterExits(e)
    BY <1>0, <2>6, StayTells DEF WriterExits
  <2>7. CASE WriterFails(e)
    BY <2>0, <2>7, EndsTells DEF WriterFails
  <2>8. CASE ReaderTakes(e)
    BY <2>8, ReaderTakesTells
  <2>9. CASE ReaderEof(e)
    BY <2>0, <2>9, EndsTells DEF ReaderEof
  <2>10. CASE ReaderFails(e)
    BY <2>0, <2>10, EndsTells DEF ReaderFails
  <2> QED
    BY <1>3, <2>1, <2>2, <2>3, <2>4, <2>5, <2>6, <2>7, <2>8, <2>9, <2>10
<1>4. ASSUME NEW e \in End, NEW c \in Ch,
             \/ \E len \in FrameLens : BeginSend(e, c, len)
             \/ AcquireCredit(e, c) \/ PushData(e, c) \/ SendFails(e, c)
             \/ RecvFrame(e, c) \/ RecvCredit(e, c) \/ RecvEnd(e, c)
             \/ Finish(e, c) \/ DropSend(e, c) \/ DropRecv(e, c)
      PROVE  SInv'
  <2>1. CASE \E len \in FrameLens : BeginSend(e, c, len)
    BY <2>1, BeginSendTells
  <2>2. CASE AcquireCredit(e, c)
    BY <2>2, AcquireTells
  <2>3. CASE PushData(e, c)
    BY <2>3, PushTells
  <2>4. CASE SendFails(e, c)
    BY <2>4, SendFailsTells
  <2>5. CASE RecvFrame(e, c)
    BY <2>5, RecvFrameTells
  <2>6. CASE RecvCredit(e, c)
    BY <2>6, RecvCreditTells
  <2>7. CASE RecvEnd(e, c)
    BY <2>7, RecvEndTells
  <2>8. CASE Finish(e, c) \/ DropSend(e, c) \/ DropRecv(e, c)
    BY <2>8, ShedsTells
  <2> QED
    BY <1>4, <2>1, <2>2, <2>3, <2>4, <2>5, <2>6, <2>7, <2>8
<1> QED
  BY <1>1, <1>2, <1>3, <1>4, NextIs

\* In every state, the bytes of each channel are one stream: what its sender
\* began to send and its receiver has not decoded yet is, in this order, in the
\* assembler, on the wire, in the queue and with the sender (MuxSend::send,
\* push_data, take_next and peer_data, mux.rs:445-457, 511-548, 620-645, 1067-1134).
THEOREM StreamsInvariance == Spec => []SInv
<1>1. Init => SInv
  BY InitTells
<1>2. SInv /\ [Next]_vars => SInv'
  BY NextTells
<1> QED
  BY <1>1, <1>2, PTL DEF Spec

\* What an application was given is what its peer sent.
LEMMA OneWay ==
    ASSUME NEW m, NEW h, NEW r, NEW g, NEW w, NEW c \in Ch, NEW S,
           Typed(m, w, h, r, g, c), Ordered(m, h, r, g, c),
           c \in h.givenUp => h.frames[c] # <<>>,
           S = IF c \in h.givenUp THEN Front(h.frames[c]) ELSE h.frames[c]
    PROVE  /\ \A i \in 1 .. Len(g.got[c]) : i <= Len(S) /\ g.got[c][i] = Bytes(i, S[i])
           /\ r.rx[c] = <<>> /\ Len(Decoded(r, g, c)) = SentLen(h, c) => Len(g.got[c]) = Len(S)
<1>1. PICK F \in Lengths, f \in Nat : F = h.frames[c] /\ f = Len(F)
  BY LengthsAre DEF Typed, Lengths
<1>2. PICK x \in Seq(Frame), y \in Seq(Frame) : x = g.got[c] /\ y = r.rx[c]
  BY DEF Typed
<1>3. PICK a \in Nat, b \in Nat : a = Len(x) /\ b = Len(y) /\ Len(x \o y) = a + b
  BY ConcatProperties
<1>4. \A i \in 1 .. a : (x \o y)[i] = x[i]
  <2>1. \A i \in 1 .. Len(x) + Len(y) : (x \o y)[i] = IF i <= Len(x) THEN x[i] ELSE y[i - Len(x)]
    BY ConcatProperties
  <2> QED
    BY <1>3, <2>1
<1>5. NextOf(x \o y, F, 0)
  BY <1>1, <1>2 DEF Ordered, Decoded
<1>6. a + b <= f /\ \A i \in 1 .. a + b : (x \o y)[i] = Bytes(0 + i, F[0 + i])
  BY <1>1, <1>3, <1>5 DEF NextOf
<1>7. \A i \in 1 .. a : x[i] = Bytes(i, F[i])
  <2>1. \A i \in 1 .. a : i \in 1 .. a + b /\ 0 + i = i
    BY <1>3
  <2> QED
    BY <1>4, <1>6, <2>1
<1>8. CASE c \notin h.givenUp
  <2>1. S = F /\ SentLen(h, c) = f - 0
    BY <1>1, <1>8 DEF SentLen
  <2>2. \A i \in 1 .. a : i <= f /\ x[i] = Bytes(i, F[i])
    BY <1>1, <1>3, <1>6, <1>7
  <2>3. y = <<>> /\ a + b = f - 0 => a = f
    <3>1. y = <<>> => b = 0
      BY <1>3
    <3> QED
      BY <1>1, <1>3, <3>1
  <2> QED
    BY <1>1, <1>2, <1>3, <2>1, <2>2, <2>3 DEF Decoded
<1>9. CASE c \in h.givenUp
  <2>1. F # <<>> /\ F \in Seq(Length)
    BY <1>1, <1>9, LengthsAre DEF Lengths, Length
  <2>2. PICK d \in Nat : f = d + 1
    <3>1. f # 0
      BY <1>1, <2>1, EmptySeq
    <3>2. f - 1 \in Nat /\ f = (f - 1) + 1
      BY <1>1, <3>1
    <3> QED
      BY <3>2
  <2>3. S = Front(F) /\ SentLen(h, c) = f - 1
    BY <1>1, <1>9 DEF SentLen
  <2>4. Len(S) = d /\ \A i \in 1 .. d : S[i] = F[i]
    BY ZenonT(60), <1>1, <2>2, <2>3, FrontIs
  <2>5. a + b < f
    BY <1>1, <1>2, <1>3, <1>9 DEF Ordered, Decoded
  <2>6. \A i \in 1 .. a : i <= d /\ x[i] = Bytes(i, S[i])
    <3>1. \A i \in 1 .. a : i <= d /\ i \in 1 .. d
      BY <1>3, <2>2, <2>5
    <3> QED
      BY <1>7, <2>4, <3>1
  <2>7. y = <<>> /\ a + b = f - 1 => a = d
    <3>1. y = <<>> => b = 0
      BY <1>3
    <3> QED
      BY <1>3, <2>2, <3>1
  <2> QED
    BY <1>2, <1>3, <2>3, <2>4, <2>6, <2>7 DEF Decoded
<1> QED
  BY <1>8, <1>9

LEMMA FramesFromStreams ==
    ASSUME SInv
    PROVE  FramesInOrder /\ FinishDelivers
<1>1. ASSUME NEW e \in End, NEW c \in Ch
      PROVE  /\ \A i \in 1 .. Len(hist[e].got[c]) :
                  /\ i <= Len(Sent(Peer(e), c))
                  /\ hist[e].got[c][i] = Bytes(i, Sent(Peer(e), c)[i])
             /\ hist[e].ended[c] = "reset" /\ c \notin hist[e].closedHere =>
                  Len(hist[e].got[c]) = Len(Sent(Peer(e), c))
  <2>1. PICK p : p = Peer(e) /\ p \in End /\ Peer(p) = e
    BY PeerIs
  <2>2. Stream(p, ep[p], wire[p], Live, hist[p], ep[e], hist[e], HiddenTo(p), Foreign(p), c)
    <3>1. StreamOf(p, c)
      BY <2>1 DEF SInv
    <3> QED
      BY <2>1, <3>1 DEF StreamOf
  <2>3. Typed(ep[p], wire[p], hist[p], ep[e], hist[e], c)
    <3>1. Typed(ep[p], wire[p], hist[p], ep[Peer(p)], hist[Peer(p)], c)
      BY <2>1, TypedIs DEF SInv
    <3> QED
      BY <2>1, <3>1
  <2>4. Ordered(ep[p], hist[p], ep[e], hist[e], c)
    BY <2>2 DEF Stream
  <2>5. c \in hist[p].givenUp => hist[p].frames[c] # <<>>
    BY <2>2 DEF Stream, Sender
  <2>6. PICK S : S = Sent(Peer(e), c)
    OBVIOUS
  <2>7. S = IF c \in hist[p].givenUp THEN Front(hist[p].frames[c]) ELSE hist[p].frames[c]
    BY <2>1, <2>6 DEF Sent
  <2>8. \A i \in 1 .. Len(hist[e].got[c]) : i <= Len(S) /\ hist[e].got[c][i] = Bytes(i, S[i])
    BY <2>3, <2>4, <2>5, <2>7, OneWay
  <2>9. ep[e].rx[c] = <<>> /\ Len(Decoded(ep[e], hist[e], c)) = SentLen(hist[p], c)
          => Len(hist[e].got[c]) = Len(S)
    BY <2>3, <2>4, <2>5, <2>7, OneWay
  <2>10. hist[e].ended[c] = "reset" /\ c \notin hist[e].closedHere =>
           ep[e].rx[c] = <<>> /\ Len(Decoded(ep[e], hist[e], c)) = SentLen(hist[p], c)
    BY <2>2 DEF Stream, WasTold, Complete
  <2> QED
    BY <2>6, <2>8, <2>9, <2>10
<1> QED
  BY <1>1 DEF FramesInOrder, FinishDelivers

\* Frames arrive whole, in order, and only once, and none that its sender gave
\* up half way, for any window, segment size and lengths of the frames
\* (peer_data and MuxRecv::recv, mux.rs:688-717, 1067-1134).
THEOREM FramesStayInOrder == Spec => []FramesInOrder
<1>1. SInv => FramesInOrder
  BY FramesFromStreams
<1> QED
  BY <1>1, StreamsInvariance, PTL

\* A receiver told that its peer closed the channel was given every frame that
\* the peer sent: close_channel queues the RESET behind the data, take_next and
\* the reader keep that order, and peer_reset leaves what the receiver holds
\* (mux.rs:486-548, 1160-1171).
THEOREM FinishComesLast == Spec => []FinishDelivers
<1>1. SInv => FinishDelivers
  BY FramesFromStreams
<1> QED
  BY <1>1, StreamsInvariance, PTL
-----------------------------------------------------------------------------
(* The writer task, by itself. *)

\* From arming to the end of its wait the writer's future is registered.
Armed == pc \in {"drain", "check", "wait", "write"} => future # "none"

\* Once the writer found the queue empty, whoever queues something after that
\* still has to notify it or has done so.
WorkNotified == pc \in {"check", "wait"} /\ queued > 0 => calling # {} \/ future = "notified"

\* And once it found the connection open, so has whoever closes it.
CloseNotified == pc = "wait" /\ closed => closing \/ future = "notified"

WriterInv == WriterTypeOK /\ Armed /\ WorkNotified /\ CloseNotified
-----------------------------------------------------------------------------
LEMMA WriterSizes == Segments \in Nat /\ Batch \in Nat /\ Batch > 0
BY WriterAssumption

\* The threads beside the writer.
LEMMA ProducerStep ==
  ASSUME WriterInv, NEW p \in Producers, Enqueue(p) \/ NotifyOne(p)
  PROVE  WriterInv'
<1> USE WriterSizes DEF WriterInv, WriterTypeOK, Armed, WorkNotified, CloseNotified, writer, notify
<1>1. CASE Enqueue(p)
  <2>1. left' \in [Producers -> 0 .. Segments]
    BY <1>1 DEF Enqueue
  <2>2. CASE closed
    BY <1>1, <2>1, <2>2 DEF Enqueue
  <2>3. CASE ~closed
    <3>1. queued' \in Nat /\ calling' \subseteq Producers /\ calling' # {}
      BY <1>1, <2>3 DEF Enqueue
    <3> QED BY <1>1, <2>1, <2>3, <3>1 DEF Enqueue
  <2> QED BY <2>2, <2>3
<1>2. CASE NotifyOne(p)
  <2>1. CASE future = "waiting"
    BY <1>2, <2>1 DEF NotifyOne
  <2>2. CASE future # "waiting"
    BY <1>2, <2>2 DEF NotifyOne
  <2> QED BY <2>1, <2>2
<1> QED BY <1>1, <1>2

LEMMA ShutdownStep ==
  ASSUME WriterInv, ShutdownBegins \/ NotifyWaiters
  PROVE  WriterInv'
<1> USE WriterSizes DEF WriterInv, WriterTypeOK, Armed, WorkNotified, CloseNotified, writer, notify
<1>1. CASE ShutdownBegins
  BY <1>1 DEF ShutdownBegins
<1>2. CASE NotifyWaiters
  BY <1>2 DEF NotifyWaiters
<1> QED BY <1>1, <1>2

\* The writer goes from the queue to the check of closed only when the batch is
\* empty because the queue is, and to the wait only when it is open.
LEMMA WriterStep ==
  ASSUME WriterInv, Arm \/ Take \/ CheckClosed \/ Await \/ Write
  PROVE  WriterInv'
<1> USE WriterSizes DEF WriterInv, WriterTypeOK, Armed, WorkNotified, CloseNotified, writer, notify
<1>1. CASE Arm
  <2>1. future' \in {"waiting", "notified"} /\ permit' \in BOOLEAN
    BY <1>1 DEF Arm
  <2>2. batch' \in 0 .. Batch /\ pc' = "drain"
    BY <1>1 DEF Arm
  <2>3. UNCHANGED <<queued, closed, left, calling, closing>>
    BY <1>1 DEF Arm
  <2> QED BY <2>1, <2>2, <2>3
<1>2. CASE Take
  <2>1. CASE queued > 0 /\ batch < Batch
    BY <1>2, <2>1 DEF Take
  <2>2. CASE ~(queued > 0 /\ batch < Batch)
    <3>1. batch = 0 => queued = 0
      BY <2>2
    <3> QED BY <1>2, <2>2, <3>1 DEF Take
  <2> QED BY <2>1, <2>2
<1>3. CASE CheckClosed
  BY <1>3 DEF CheckClosed
<1>4. CASE Await
  BY <1>4 DEF Await
<1>5. CASE Write
  BY <1>5 DEF Write
<1> QED BY <1>1, <1>2, <1>3, <1>4, <1>5

\* What every step keeps.
LEMMA WriterInductive == WriterSpec => []WriterInv
<1>1. WriterInit => WriterInv
  <2> SUFFICES ASSUME WriterInit
               PROVE  WriterInv
    OBVIOUS
  <2>1. left \in [Producers -> 0 .. Segments] /\ batch \in 0 .. Batch
    BY WriterSizes DEF WriterInit
  <2> QED BY <2>1 DEF WriterInit, WriterInv, WriterTypeOK, Armed, WorkNotified, CloseNotified
<1>2. WriterInv /\ [WriterNext]_writerVars => WriterInv'
  <2> SUFFICES ASSUME WriterInv, [WriterNext]_writerVars
               PROVE  WriterInv'
    OBVIOUS
  <2>1. CASE UNCHANGED writerVars
    BY <2>1 DEF writerVars, WriterInv, WriterTypeOK, Armed, WorkNotified, CloseNotified
  <2> QED BY <2>1, ProducerStep, ShutdownStep, WriterStep DEF WriterNext
<1> QED BY <1>1, <1>2, PTL DEF WriterSpec
-----------------------------------------------------------------------------
\* The count, the flags and the places of write_loop keep their types, and no
\* batch exceeds WRITE_BATCH_SEGMENTS (mux.rs:901-941).
THEOREM WriterTypeCorrect == WriterSpec => []WriterTypeOK
<1>1. WriterInv => WriterTypeOK
  BY DEF WriterInv
<1> QED BY <1>1, WriterInductive, PTL

\* A writer that sleeps with nobody about to wake it has nothing to write and
\* nothing to end for: enable() before the look at the queue loses no wakeup,
\* although both notifications come after the lock (mux.rs:909-930).
THEOREM NoWakeupIsLost == WriterSpec => []NoLostWakeup
<1>1. WriterInv => NoLostWakeup
  BY DEF WriterInv, WriterTypeOK, WorkNotified, CloseNotified, NoLostWakeup
<1> QED BY <1>1, WriterInductive, PTL
=============================================================================
