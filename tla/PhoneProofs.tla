----------------------------- MODULE PhoneProofs -----------------------------
(***************************************************************************)
(* What the phone's map of waiting calls guarantees, for any number of     *)
(* calls at once and any length of the stream; and what its tabs show, for *)
(* any number of terminals and whatever becomes of the connection.         *)
(***************************************************************************)
EXTENDS ControlStream, Terminals, Integers, TLAPS

ToDaemon == {Hello, Torn} \union {Request(r) : r \in Requests} \union {Cancel(r) : r \in Requests}
ToPhone == {HelloOk, Ends} \union {Response(r) : r \in Requests}

\* A message is on the stream once at most.
Once(q, m) == \A i, j \in DOMAIN q : q[i] = m /\ q[j] = m => i = j

Streams ==
    /\ toDaemon \in Seq(ToDaemon) /\ toPhone \in Seq(ToPhone)
    /\ \A r \in Requests : Once(toDaemon, Request(r)) /\ Once(toPhone, Response(r))

\* A request is sent, executed and answered in this order, each once.
Order ==
    \A r \in Requests :
        /\ req[r] \in {"idle", "registered", "failed"} =>
               Request(r) \notin Range(toDaemon) /\ executed[r] = 0
        /\ executed[r] = 1 => Request(r) \notin Range(toDaemon)
        /\ Response(r) \in Range(toPhone) \/ r \in delivered \union dropped => executed[r] = 1
        /\ r \in delivered \union dropped => Response(r) \notin Range(toPhone)

\* While the reader runs, whoever waits has a slot or the reply, never both.
Waits ==
    /\ est = "hello" => \A r \in Requests : req[r] = "idle"
    /\ reader = "running" =>
           \A r \in Requests :
               /\ req[r] = "registered" => r \in slots
               /\ req[r] = "waiting" => r \in slots \union delivered
               /\ req[r] = "ok" => r \in delivered
               /\ req[r] # "lost"
    /\ slots \intersect (delivered \union dropped) = {}

IInv == SlotsExact /\ Streams /\ Order /\ Waits
-----------------------------------------------------------------------------
\* The messages are told apart by their kinds and ids.
LEMMA Kinds ==
  ASSUME NEW r \in Requests, NEW s \in Requests
  PROVE  /\ Request(r) # Hello /\ Request(r) # Torn /\ Request(r) # Cancel(s)
         /\ Response(r) # HelloOk /\ Response(r) # Ends /\ HelloOk # Ends
         /\ Request(r) = Request(s) => r = s
         /\ Response(r) = Response(s) => r = s
<1>1. Request(r).kind = "request" /\ Hello.kind = "hello" /\ Torn.kind = "torn" /\ Cancel(s).kind = "cancel"
  BY DEF Request, Hello, Torn, Cancel
<1>2. Response(r).kind = "response" /\ HelloOk.kind = "hello_ok" /\ Ends.kind = "end"
  BY DEF Response, HelloOk, Ends
<1>3. Request(r).id = r /\ Request(s).id = s /\ Response(r).id = r /\ Response(s).id = s
  BY DEF Request, Response
<1> QED BY <1>1, <1>2, <1>3

\* A message taken off a stream.
LEMMA Take ==
  ASSUME NEW S, NEW q \in Seq(S), q # <<>>
  PROVE  /\ Head(q) \in S /\ Tail(q) \in Seq(S)
         /\ Head(q) \in Range(q) /\ Range(Tail(q)) \subseteq Range(q)
         /\ \A m : Once(q, m) => Once(Tail(q), m)
         /\ Once(q, Head(q)) => Head(q) \notin Range(Tail(q))
<1>1. /\ Head(q) = q[1] /\ 1 \in DOMAIN q /\ Head(q) \in S /\ Tail(q) \in Seq(S)
      /\ \A i \in DOMAIN Tail(q) : i \in Nat /\ i > 0 /\ i + 1 \in DOMAIN q /\ Tail(q)[i] = q[i + 1]
  OBVIOUS
<1>2. Head(q) \in Range(q) /\ Range(Tail(q)) \subseteq Range(q)
  BY <1>1 DEF Range
<1>3. \A m : Once(q, m) => Once(Tail(q), m)
  <2> SUFFICES ASSUME NEW m, Once(q, m), NEW i \in DOMAIN Tail(q), NEW j \in DOMAIN Tail(q),
                      Tail(q)[i] = m, Tail(q)[j] = m
               PROVE  i = j
    BY DEF Once
  <2>1. i + 1 = j + 1
    BY <1>1 DEF Once
  <2> QED BY <2>1, <1>1
<1>4. Once(q, Head(q)) => Head(q) \notin Range(Tail(q))
  <2> SUFFICES ASSUME Once(q, Head(q)), NEW i \in DOMAIN Tail(q), Tail(q)[i] = Head(q)
               PROVE  FALSE
    BY DEF Range
  <2>1. i + 1 = 1
    BY <1>1 DEF Once
  <2> QED BY <2>1, <1>1
<1> QED BY <1>1, <1>2, <1>3, <1>4

\* A message put on a stream.
LEMMA Put ==
  ASSUME NEW S, NEW q \in Seq(S), NEW e \in S
  PROVE  /\ Append(q, e) \in Seq(S) /\ Range(Append(q, e)) = Range(q) \union {e}
         /\ \A m : Once(q, m) /\ (m = e => m \notin Range(q)) => Once(Append(q, e), m)
<1>1. /\ Append(q, e) \in Seq(S) /\ DOMAIN Append(q, e) = DOMAIN q \union {Len(q) + 1}
      /\ \A i \in DOMAIN q : Append(q, e)[i] = q[i]
      /\ Append(q, e)[Len(q) + 1] = e
  OBVIOUS
<1>2. Range(Append(q, e)) = Range(q) \union {e}
  BY <1>1 DEF Range
<1>3. \A m : Once(q, m) /\ (m = e => m \notin Range(q)) => Once(Append(q, e), m)
  BY <1>1 DEF Once, Range
<1> QED BY <1>1, <1>2, <1>3

\* Only members of the alphabet are on a stream.
LEMMA Members ==
  ASSUME NEW S, NEW q \in Seq(S)
  PROVE  Range(q) \subseteq S
BY DEF Range
-----------------------------------------------------------------------------
\* Steps that put no request on the one stream and no response on the other.
NoNewRequest ==
    /\ toDaemon' \in Seq(ToDaemon)
    /\ \A r \in Requests : /\ Once(toDaemon', Request(r))
                           /\ Request(r) \in Range(toDaemon') => Request(r) \in Range(toDaemon)

NoNewResponse ==
    /\ toPhone' \in Seq(ToPhone)
    /\ \A r \in Requests : /\ Once(toPhone', Response(r))
                           /\ Response(r) \in Range(toPhone') => Response(r) \in Range(toPhone)

\* Such are: to leave a stream alone, to lose it, to take from it, and to put
\* something else on it.
LEMMA RequestsKept ==
  ASSUME Streams,
         \/ toDaemon' = toDaemon \/ toDaemon' = <<>>
         \/ toDaemon # <<>> /\ toDaemon' = Tail(toDaemon)
         \/ \E r \in Requests : toDaemon' = Append(toDaemon, Cancel(r))
         \/ toDaemon' = Append(toDaemon, Torn)
  PROVE  NoNewRequest
<1>1. CASE toDaemon' = toDaemon
  BY <1>1 DEF Streams, NoNewRequest
<1>2. CASE toDaemon' = <<>>
  BY <1>2 DEF NoNewRequest, Once, Range
<1>3. CASE toDaemon # <<>> /\ toDaemon' = Tail(toDaemon)
  BY <1>3, Take DEF Streams, NoNewRequest
<1>4. CASE \E r \in Requests : toDaemon' = Append(toDaemon, Cancel(r))
  <2>1. PICK r \in Requests : toDaemon' = Append(toDaemon, Cancel(r))
    BY <1>4
  <2>2. Cancel(r) \in ToDaemon /\ \A s \in Requests : Request(s) # Cancel(r)
    BY Kinds DEF ToDaemon
  <2> QED BY <2>1, <2>2, Put DEF Streams, NoNewRequest
<1>5. CASE toDaemon' = Append(toDaemon, Torn)
  <2>1. Torn \in ToDaemon /\ \A s \in Requests : Request(s) # Torn
    BY Kinds DEF ToDaemon
  <2> QED BY <1>5, <2>1, Put DEF Streams, NoNewRequest
<1> QED BY <1>1, <1>2, <1>3, <1>4, <1>5

LEMMA ResponsesKept ==
  ASSUME Streams,
         \/ toPhone' = toPhone \/ toPhone' = <<>>
         \/ toPhone # <<>> /\ toPhone' = Tail(toPhone)
         \/ toPhone' = Append(toPhone, HelloOk) \/ toPhone' = Append(toPhone, Ends)
  PROVE  NoNewResponse
<1>1. CASE toPhone' = toPhone
  BY <1>1 DEF Streams, NoNewResponse
<1>2. CASE toPhone' = <<>>
  BY <1>2 DEF NoNewResponse, Once, Range
<1>3. CASE toPhone # <<>> /\ toPhone' = Tail(toPhone)
  BY <1>3, Take DEF Streams, NoNewResponse
<1>4. CASE toPhone' = Append(toPhone, HelloOk) \/ toPhone' = Append(toPhone, Ends)
  <2>1. /\ HelloOk \in ToPhone /\ Ends \in ToPhone
        /\ \A s \in Requests : Response(s) # HelloOk /\ Response(s) # Ends
    BY Kinds DEF ToPhone
  <2>2. PICK m \in {HelloOk, Ends} : toPhone' = Append(toPhone, m)
    BY <1>4
  <2>3. /\ toPhone' \in Seq(ToPhone) /\ Range(toPhone') = Range(toPhone) \union {m}
        /\ \A n : Once(toPhone, n) /\ (n = m => n \notin Range(toPhone)) => Once(toPhone', n)
    BY <2>1, <2>2, Put DEF Streams
  <2> QED BY <2>1, <2>2, <2>3 DEF Streams, NoNewResponse
<1> QED BY <1>1, <1>2, <1>3, <1>4

\* They keep the order in which a call goes, as long as no call is forgotten,
\* executed, answered or begun in them.
LEMMA QuietStep ==
  ASSUME IInv, NoNewRequest, NoNewResponse, UNCHANGED executed,
         \A r \in Requests : req'[r] \in {"idle", "registered", "failed"} =>
                                 req[r] \in {"idle", "registered", "failed"},
         delivered' \subseteq delivered, dropped' \subseteq dropped
  PROVE  /\ Streams' /\ Order'
         /\ Range(toDaemon') \subseteq {Hello, Torn} \union {Request(r) : r \in Requests} \union {Cancel(r) : r \in Requests}
         /\ Range(toPhone') \subseteq {HelloOk, Ends} \union {Response(r) : r \in Requests}
<1>1. Streams'
  BY DEF NoNewRequest, NoNewResponse, Streams
<1>2. Order'
  BY DEF NoNewRequest, NoNewResponse, IInv, Order
<1>3. Range(toDaemon') \subseteq ToDaemon /\ Range(toPhone') \subseteq ToPhone
  BY Members DEF NoNewRequest, NoNewResponse
<1> QED BY <1>1, <1>2, <1>3 DEF ToDaemon, ToPhone
-----------------------------------------------------------------------------
\* What the daemon takes: a request is new to it, and its answer the first.
LEMMA DaemonReceivesStep ==
  ASSUME IInv, DaemonReceives
  PROVE  IInv'
<1> DEFINE m == Head(toDaemon)
<1>1. /\ m \in ToDaemon /\ Tail(toDaemon) \in Seq(ToDaemon)
      /\ m \in Range(toDaemon) /\ Range(Tail(toDaemon)) \subseteq Range(toDaemon)
      /\ \A r \in Requests : Once(Tail(toDaemon), Request(r))
      /\ \A r \in Requests : m = Request(r) => Request(r) \notin Range(Tail(toDaemon))
  BY Take DEF IInv, Streams, DaemonReceives
<1>2. /\ toDaemon # <<>> /\ toDaemon' = Tail(toDaemon) /\ Handle(m)
      /\ UNCHANGED <<est, req, slots, delivered, reader, dropped, peer, served, up>>
  BY DEF DaemonReceives, phone
<1>3. CASE \E r \in Requests : m = Request(r)
  <2>1. PICK r \in Requests : m = Request(r)
    BY <1>3
  <2>2. executed' = [executed EXCEPT ![r] = @ + 1] /\ toPhone' = Append(toPhone, Response(r))
    BY <1>2, <2>1 DEF Handle, Request
  <2>3. executed[r] = 0 /\ executed' = [executed EXCEPT ![r] = 1]
    <3>1. executed \in [Requests -> 0 .. 1]
      BY DEF IInv, SlotsExact, TypeOK
    <3>2. executed[r] # 1
      BY <1>1, <2>1 DEF IInv, Order
    <3>3. executed[r] = 0
      BY <3>1, <3>2
    <3> QED BY <2>2, <3>3
  <2>4. Response(r) \notin Range(toPhone) /\ r \notin delivered \union dropped
    BY <2>3 DEF IInv, Order
  <2>5. Response(r) \in ToPhone
    BY DEF ToPhone
  <2>6. /\ toPhone' \in Seq(ToPhone) /\ Range(toPhone') = Range(toPhone) \union {Response(r)}
        /\ \A s \in Requests : Once(toPhone', Response(s))
    <3>1. \A s \in Requests : Once(toPhone, Response(s)) /\ (Response(s) = Response(r) => Response(s) \notin Range(toPhone))
      BY <2>4 DEF IInv, Streams
    <3> QED BY <2>2, <2>5, <3>1, Put DEF IInv, Streams
  <2>7. Streams'
    BY <1>1, <1>2, <2>6 DEF Streams
  <2>8. executed' \in [Requests -> 0 .. 1]
    BY <2>3 DEF IInv, SlotsExact, TypeOK
  <2>9. Order'
    <3> SUFFICES ASSUME NEW s \in Requests
                 PROVE  /\ req[s] \in {"idle", "registered", "failed"} =>
                               Request(s) \notin Range(toDaemon') /\ executed'[s] = 0
                        /\ executed'[s] = 1 => Request(s) \notin Range(toDaemon')
                        /\ Response(s) \in Range(toPhone') \/ s \in delivered \union dropped => executed'[s] = 1
                        /\ s \in delivered \union dropped => Response(s) \notin Range(toPhone')
      BY <1>2 DEF Order
    <3>1. CASE s = r
      <4>1. executed'[s] = 1 /\ Request(s) \notin Range(toDaemon')
        BY <1>1, <1>2, <2>1, <2>3, <3>1 DEF IInv, SlotsExact, TypeOK
      <4>2. req[s] \notin {"idle", "registered", "failed"}
        BY <1>1, <2>1, <3>1 DEF IInv, Order
      <4> QED BY <4>1, <4>2, <2>4, <3>1
    <3>2. CASE s # r
      <4>1. Response(s) # Response(r)
        BY <3>2, Kinds
      <4>2. executed'[s] = executed[s]
        BY <2>3, <3>2 DEF IInv, SlotsExact, TypeOK
      <4>3. Request(s) \in Range(toDaemon') => Request(s) \in Range(toDaemon)
        BY <1>1, <1>2
      <4>4. Response(s) \in Range(toPhone') => Response(s) \in Range(toPhone)
        BY <2>6, <4>1
      <4> QED BY <4>2, <4>3, <4>4 DEF IInv, Order
    <3> QED BY <3>1, <3>2
  <2>10. Range(toDaemon') \subseteq ToDaemon /\ Range(toPhone') \subseteq ToPhone
    BY <2>7, Members DEF Streams
  <2> QED BY <1>2, <2>7, <2>8, <2>9, <2>10
      DEF IInv, SlotsExact, TypeOK, NoReplyDropped, NoSlotLeaks, Waits, ToDaemon, ToPhone
<1>4. CASE \A r \in Requests : m # Request(r)
  <2>1. m.kind # "request"
    BY <1>1, <1>4 DEF ToDaemon, Hello, Torn, Cancel
  <2>2. UNCHANGED executed /\ (toPhone' = toPhone \/ toPhone' = Append(toPhone, HelloOk))
    BY <1>2, <2>1 DEF Handle
  <2>3. NoNewRequest /\ NoNewResponse
    BY <1>2, <2>2, RequestsKept, ResponsesKept DEF IInv
  <2> QED BY <1>2, <2>2, <2>3, QuietStep DEF IInv, SlotsExact, TypeOK, NoReplyDropped, NoSlotLeaks, Waits
<1> QED BY <1>3, <1>4

\* The two tasks beside the calls, and the network.
LEMMA LinkStep ==
  ASSUME IInv, DaemonFindsTorn \/ DaemonEnds \/ Lost \/ HelloArrives \/ HelloFails \/ HelloTimesOut
  PROVE  IInv'
<1> USE DEF IInv, SlotsExact, TypeOK, NoReplyDropped, NoSlotLeaks, Waits
<1>1. CASE DaemonEnds
  <2>1. NoNewRequest /\ NoNewResponse
    BY <1>1, RequestsKept, ResponsesKept DEF DaemonEnds
  <2> QED BY <1>1, <2>1, QuietStep DEF DaemonEnds, phone
<1>2. CASE Lost
  <2>1. NoNewRequest /\ NoNewResponse
    BY <1>2, RequestsKept, ResponsesKept DEF Lost
  <2> QED BY <1>2, <2>1, QuietStep DEF Lost, phone, daemon
<1>3. CASE HelloArrives
  <2>1. NoNewRequest /\ NoNewResponse
    BY <1>3, RequestsKept, ResponsesKept DEF HelloArrives
  <2>2. /\ est' \in {"hello", "live", "failed"} /\ est = "hello"
        /\ reader' \in {"running", reader} /\ up' \in BOOLEAN
        /\ UNCHANGED <<req, slots, delivered, peer, served, executed, dropped>>
    BY <1>3 DEF HelloArrives
  <2>3. Streams' /\ Order' /\ TypeOK'
    BY <2>1, <2>2, QuietStep
  <2>4. Waits'
    BY <2>2
  <2> QED BY <2>2, <2>3, <2>4
<1>4. CASE HelloFails
  <2>1. NoNewRequest /\ NoNewResponse
    BY <1>4, RequestsKept, ResponsesKept DEF HelloFails
  <2> QED BY <1>4, <2>1, QuietStep DEF HelloFails
<1>5. CASE HelloTimesOut
  <2>1. NoNewRequest /\ NoNewResponse
    BY <1>5, RequestsKept, ResponsesKept DEF HelloTimesOut
  <2> QED BY <1>5, <2>1, QuietStep DEF HelloTimesOut
<1>6. CASE DaemonFindsTorn
  <2>1. NoNewRequest /\ NoNewResponse
    BY <1>6, RequestsKept, ResponsesKept DEF DaemonFindsTorn
  <2> QED BY <1>6, <2>1, QuietStep DEF DaemonFindsTorn, phone
<1> QED BY <1>1, <1>2, <1>3, <1>4, <1>5, <1>6

\* A call is sent with its slot in place, and once.
LEMMA SendStep ==
  ASSUME IInv, NEW r \in Requests, Send(r)
  PROVE  IInv'
<1>1. /\ req[r] = "registered"
      /\ UNCHANGED <<est, delivered, reader, peer, served, executed, up, toPhone, dropped>>
  BY DEF Send, daemon
<1>2. CASE up
  <2>1. req' = [req EXCEPT ![r] = "waiting"] /\ toDaemon' = Append(toDaemon, Request(r)) /\ UNCHANGED slots
    BY <1>2 DEF Send
  <2>2. /\ Request(r) \notin Range(toDaemon) /\ executed[r] = 0 /\ Request(r) \in ToDaemon
        /\ \A s \in Requests : Once(toDaemon, Request(s))
    BY <1>1 DEF IInv, Order, Streams, ToDaemon
  <2>3. /\ toDaemon' \in Seq(ToDaemon) /\ Range(toDaemon') = Range(toDaemon) \union {Request(r)}
        /\ \A n : Once(toDaemon, n) /\ (n = Request(r) => n \notin Range(toDaemon)) => Once(toDaemon', n)
    BY <2>1, <2>2, Put DEF IInv, Streams
  <2>4. Streams'
    BY <1>1, <2>2, <2>3 DEF IInv, Streams
  <2>5. req' \in [Requests -> {"idle", "registered", "waiting", "cancelling"} \union Settled]
    BY <2>1 DEF IInv, SlotsExact, TypeOK
  <2>6. \A s \in Requests : s # r => req'[s] = req[s] /\ Request(s) # Request(r)
    BY <2>1, Kinds DEF IInv, SlotsExact, TypeOK
  <2>7. req'[r] = "waiting"
    BY <2>1 DEF IInv, SlotsExact, TypeOK
  <2>8. Order'
    BY <1>1, <2>2, <2>3, <2>6, <2>7 DEF IInv, Order
  <2>9. Waits'
    BY <1>1, <2>1, <2>6, <2>7 DEF IInv, Waits
  <2>10. Range(toDaemon') \subseteq ToDaemon
    BY <2>3, Members
  <2>11. NoReplyDropped' /\ NoSlotLeaks'
    BY <1>1, <2>1, <2>6, <2>7 DEF IInv, SlotsExact, NoReplyDropped, NoSlotLeaks, TypeOK
  <2> QED BY <1>1, <2>1, <2>4, <2>5, <2>8, <2>9, <2>10, <2>11 DEF IInv, SlotsExact, TypeOK, ToDaemon
<1>3. CASE ~up
  <2>1. req' = [req EXCEPT ![r] = "failed"] /\ slots' = slots \ {r} /\ UNCHANGED toDaemon
    BY <1>3 DEF Send
  <2>2. NoNewRequest /\ NoNewResponse
    BY <1>1, <2>1, RequestsKept, ResponsesKept DEF IInv
  <2>3. /\ req' \in [Requests -> {"idle", "registered", "waiting", "cancelling"} \union Settled]
        /\ req'[r] = "failed" /\ \A s \in Requests : s # r => req'[s] = req[s]
    BY <2>1 DEF IInv, SlotsExact, TypeOK, Settled
  <2>4. Streams' /\ Order' /\ TypeOK'
    BY <1>1, <2>1, <2>2, <2>3, QuietStep DEF IInv, SlotsExact, TypeOK
  <2> QED BY <1>1, <2>1, <2>3, <2>4 DEF IInv, SlotsExact, TypeOK, NoReplyDropped, NoSlotLeaks, Waits
<1> QED BY <1>2, <1>3

\* What else a call does changes its own place and its slot.
LEMMA CallStep ==
  ASSUME IInv, NEW r \in Requests, Register(r) \/ Returns(r) \/ TimesOut(r) \/ Cancels(r) \/ Aborts(r)
  PROVE  IInv'
<1> USE DEF IInv, SlotsExact, TypeOK
<1>1. /\ UNCHANGED <<est, delivered, reader, peer, served, executed, up, toPhone, dropped>>
      /\ toDaemon' = toDaemon \/ toDaemon' = Append(toDaemon, Cancel(r)) \/ toDaemon' = Append(toDaemon, Torn)
  BY DEF Register, Returns, TimesOut, Cancels, Aborts, daemon
<1>2. NoNewRequest /\ NoNewResponse
  BY <1>1, RequestsKept, ResponsesKept
<1>3. CASE Register(r)
  <2>1. /\ req[r] = "idle" /\ req'[r] = "registered" /\ slots' = slots \union {r} /\ est = "live"
        /\ req' \in [Requests -> {"idle", "registered", "waiting", "cancelling"} \union Settled]
        /\ \A s \in Requests : s # r => req'[s] = req[s]
    BY <1>3 DEF Register
  <2>2. Streams' /\ Order' /\ TypeOK'
    BY <1>1, <1>2, <2>1, QuietStep
  <2>3. r \notin delivered \union dropped
    BY <2>1 DEF Order
  <2> QED BY <1>1, <2>1, <2>2, <2>3 DEF NoReplyDropped, NoSlotLeaks, Waits
<1>4. CASE Returns(r)
  <2>1. /\ req[r] = "waiting" /\ UNCHANGED slots
        /\ \/ r \in delivered /\ req'[r] = "ok"
           \/ r \notin delivered \union slots /\ req'[r] = "lost"
        /\ req' \in [Requests -> {"idle", "registered", "waiting", "cancelling"} \union Settled]
        /\ \A s \in Requests : s # r => req'[s] = req[s]
    BY <1>4 DEF Returns, Settled
  <2>2. Streams' /\ Order' /\ TypeOK'
    BY <1>1, <1>2, <2>1, QuietStep
  <2>3. r \notin slots
    BY <2>1 DEF Waits
  <2> QED BY <1>1, <2>1, <2>2, <2>3 DEF NoReplyDropped, NoSlotLeaks, Waits
<1>5. CASE TimesOut(r)
  <2>1. /\ req[r] = "waiting" /\ req'[r] = "cancelling" /\ slots' = slots \ {r}
        /\ req' \in [Requests -> {"idle", "registered", "waiting", "cancelling"} \union Settled]
        /\ \A s \in Requests : s # r => req'[s] = req[s]
    BY <1>5 DEF TimesOut
  <2>2. Streams' /\ Order' /\ TypeOK'
    BY <1>1, <1>2, <2>1, QuietStep
  <2> QED BY <1>1, <2>1, <2>2 DEF NoReplyDropped, NoSlotLeaks, Waits
<1>6. CASE Cancels(r)
  <2>1. /\ req[r] = "cancelling" /\ req'[r] = "timeout" /\ UNCHANGED slots
        /\ req' \in [Requests -> {"idle", "registered", "waiting", "cancelling"} \union Settled]
        /\ \A s \in Requests : s # r => req'[s] = req[s]
    BY <1>6 DEF Cancels, Settled
  <2>2. Streams' /\ Order' /\ TypeOK'
    BY <1>1, <1>2, <2>1, QuietStep
  <2> QED BY <1>1, <2>1, <2>2 DEF NoReplyDropped, NoSlotLeaks, Waits
<1>7. CASE Aborts(r)
  <2>1. /\ req[r] \in {"registered", "waiting", "cancelling"} /\ req'[r] = "aborted" /\ UNCHANGED slots
        /\ req' \in [Requests -> {"idle", "registered", "waiting", "cancelling"} \union Settled]
        /\ \A s \in Requests : s # r => req'[s] = req[s]
    BY <1>7 DEF Aborts, Settled
  <2>2. Streams' /\ Order' /\ TypeOK'
    BY <1>1, <1>2, <2>1, QuietStep
  <2> QED BY <1>1, <2>1, <2>2 DEF NoReplyDropped, NoSlotLeaks, Waits
<1> QED BY <1>3, <1>4, <1>5, <1>6, <1>7

\* A response finds its slot, unless its caller is gone.
LEMMA DeliverStep ==
  ASSUME IInv, reader = "running", toPhone # <<>>, toPhone' = Tail(toPhone),
         NEW r \in Requests, Head(toPhone) = Response(r), Deliver(r),
         UNCHANGED <<est, req, peer, served, executed, up, toDaemon, reader>>
  PROVE  IInv'
<1>1. /\ toPhone' \in Seq(ToPhone)
      /\ Response(r) \in Range(toPhone) /\ Range(toPhone') \subseteq Range(toPhone)
      /\ Response(r) \notin Range(toPhone')
      /\ \A s \in Requests : Once(toPhone', Response(s))
  BY Take DEF IInv, Streams
<1>2. executed[r] = 1 /\ r \notin delivered \union dropped
  BY <1>1 DEF IInv, Order
<1>3. req[r] \notin {"idle", "registered", "failed"}
  BY <1>2 DEF IInv, Order
<1>4. Streams'
  BY <1>1 DEF IInv, Streams
<1>5. delivered' \subseteq delivered \union {r} /\ dropped' \subseteq dropped \union {r}
  BY DEF Deliver
<1>6. Order'
  BY <1>1, <1>2, <1>5 DEF IInv, Order
<1>7. /\ slots' = slots \ {r}
      /\ r \in slots /\ req[r] # "aborted" => r \in delivered'
      /\ delivered \subseteq delivered' /\ slots' \intersect (delivered' \union dropped') = {}
  BY <1>2 DEF Deliver, IInv, Waits
<1>8. Waits'
  BY <1>3, <1>7 DEF IInv, Waits
<1>9. r \notin slots => req[r] \in {"cancelling", "timeout", "aborted"}
  BY <1>2, <1>3 DEF IInv, Waits, SlotsExact, TypeOK, Settled
<1>10. NoReplyDropped' /\ NoSlotLeaks'
  BY <1>7, <1>9 DEF IInv, SlotsExact, NoReplyDropped, NoSlotLeaks, Deliver
<1>11. Range(toPhone') \subseteq ToPhone
  BY <1>1, Members
<1> QED BY <1>4, <1>5, <1>6, <1>7, <1>8, <1>10, <1>11 DEF IInv, SlotsExact, TypeOK, ToPhone

LEMMA RouteStep ==
  ASSUME IInv, Route
  PROVE  IInv'
<1>1. reader = "running" /\ UNCHANGED <<est, req, peer, served, executed, up, toDaemon>>
  BY DEF Route, daemon
<1>2. CASE /\ toPhone # <<>> /\ Head(toPhone).kind = "response" /\ toPhone' = Tail(toPhone)
           /\ Deliver(Head(toPhone).id) /\ UNCHANGED reader
  <2>1. PICK r \in Requests : Head(toPhone) = Response(r)
    <3>1. Head(toPhone) \in ToPhone
      BY <1>2, Take DEF IInv, Streams
    <3> QED BY <1>2, <3>1 DEF ToPhone, HelloOk, Ends
  <2>2. Head(toPhone).id = r
    BY <2>1 DEF Response
  <2> QED BY <1>1, <1>2, <2>1, <2>2, DeliverStep
<1>3. CASE /\ reader' = "ended" /\ slots' = {} /\ UNCHANGED <<delivered, dropped>>
           /\ (toPhone # <<>> /\ toPhone' = Tail(toPhone)) \/ toPhone' = toPhone
  <2>1. NoNewRequest /\ NoNewResponse
    BY <1>1, <1>3, RequestsKept, ResponsesKept DEF IInv
  <2> QED BY <1>1, <1>3, <2>1, QuietStep DEF IInv, SlotsExact, TypeOK, NoReplyDropped, NoSlotLeaks, Waits
<1> QED BY <1>2, <1>3 DEF Route, ReaderEnds

\* What every step keeps.
LEMMA Inductive == Spec => []IInv
<1>1. Init => IInv
  <2> SUFFICES ASSUME Init
               PROVE  IInv
    OBVIOUS
  <2>1. /\ toDaemon \in Seq(ToDaemon) /\ Range(toDaemon) = {Hello}
        /\ toPhone \in Seq(ToPhone) /\ Range(toPhone) = {}
    BY DEF Init, ToDaemon, ToPhone, Range
  <2>2. Streams
    BY <2>1, Kinds DEF Init, Streams, Once
  <2>3. \A r \in Requests : Request(r) # Hello
    BY Kinds
  <2>4. Order /\ Waits
    BY <2>1, <2>3 DEF Init, Order, Waits
  <2> QED BY <2>1, <2>2, <2>4 DEF Init, IInv, SlotsExact, TypeOK, NoReplyDropped, NoSlotLeaks
<1>2. IInv /\ [Next]_vars => IInv'
  <2> SUFFICES ASSUME IInv, [Next]_vars
               PROVE  IInv'
    OBVIOUS
  <2>1. CASE UNCHANGED vars
    BY <2>1 DEF vars, IInv, SlotsExact, TypeOK, NoReplyDropped, NoSlotLeaks, Streams, Order, Waits
  <2> QED BY <2>1, DaemonReceivesStep, LinkStep, SendStep, CallStep, RouteStep DEF Next
<1> QED BY <1>1, <1>2, PTL DEF Spec
-----------------------------------------------------------------------------
\* No reply is dropped while its caller waits, no slot stays of a call that
\* returned or of an aborted one that was answered, and no request is executed
\* twice, however calls, timeouts, cancels, aborted pollers, replies and the end
\* of the connection interleave (client.rs:300-343, 400-454, 846-849, 890-891).
THEOREM SlotsStayExact == Spec => []SlotsExact
<1>1. IInv => SlotsExact
  BY DEF IInv
<1> QED BY <1>1, Inductive, PTL
-----------------------------------------------------------------------------
(* The tabs. *)

Shown == IF Open = {} THEN active = None ELSE active \in Open

\* Ids are given out in order, and a close that was executed has left nothing.
IdsGiven ==
    /\ \A id \in Listed : id < nextId
    /\ op.kind = "close" /\ op.at \in {"executing", "done", "not found"} => op.id \notin Listed

\* Neither the user's operation nor the reattach waits for an answer without a
\* connection, and a reattach runs only when the collector was given one.
Turns ==
    /\ restore # NoRestore => seen
    /\ restore.at = "issued" => online
    /\ restore.at = "idle" => restore = NoRestore
    /\ op.at \in {"issued", "executing"} => online
    /\ op.at = "executing" => op.kind \in {"close", "input"}
    /\ op.at = "idle" => op = NoOp
    /\ op.kind \in {"close", "input"} => op.id \in Ids
    /\ op.kind = "open" /\ op.at = "done" => op.id \in Ids

\* What the list said is still so, but for what has crossed it.
ListHolds ==
    /\ restore.todo \subseteq restore.live
    /\ restore.id # 0 => restore.id \in restore.live
    /\ restore.id = 0 => restore.todo = IF restore.at = "done" THEN restore.live ELSE {}
    /\ HasList => \A id \in Ids \ crossed : id \in restore.live <=> id \in Listed
    /\ HasList /\ op.kind = "close" => op.id \in crossed

\* The terminals that the operation in flight, or the reattach, will see to.
Opened == IF op.kind = "open" /\ op.at = "done" THEN {op.id} ELSE {}
Closing == IF op.kind = "close" THEN {op.id} ELSE {}
ToAttach == restore.todo \cup (IF restore.id = 0 THEN {} ELSE {restore.id})
Pending == Opened \cup ToAttach
Vouched(id) == id \notin excused /\ id \notin crossed

\* Up to those, every terminal has its tab, at any time,
TabsThere == \A id \in Listed : Vouched(id) => id \in Open \cup Pending

\* no running tab is without a terminal, but before a new list is applied,
TabsReal ==
    restore.id # 0 \/ restore.at # "done" =>
        \A id \in Open : Vouched(id) /\ tabs[id] = "running" => id \in Listed \cup Closing

\* and its screen is asked for, but before a reattach that will see to it.
Polling == online /\ seen /\ (restore.id # 0 \/ restore.at \in {"idle", "failed"})
TabsPolled ==
    Polling =>
        \A id \in Open \cap Listed :
            Vouched(id) /\ id \notin unpolled /\ tabs[id] = "running" /\ ~sessions[id].exited =>
                id \in pollers \cup Closing \cup Pending

\* A terminal that was opened is there, unless the daemon restarted.
OpenHolds == \A id \in Opened : id \in Listed \/ id \in crossed

ViewFits == TabsThere /\ TabsReal /\ TabsPolled /\ OpenHolds

\* The tab shown is a tab; while the reattach drops and adds some, unless it
\* is one that the list has no terminal for.
ShownFits ==
    /\ restore.id = 0 => Shown
    /\ restore.id # 0 => (active \in restore.live => active \in Open)

TInv == TabsTypeOK /\ IdsGiven /\ Turns /\ ListHolds /\ ViewFits /\ ShownFits
-----------------------------------------------------------------------------
\* What is idle, field by field.
LEMMA IdleFields ==
  /\ NoOp.kind = "none" /\ NoOp.id = 0 /\ NoOp.at = "idle" /\ NoOp \in Ops
  /\ NoRestore.at = "idle" /\ NoRestore.live = {} /\ NoRestore.todo = {}
  /\ NoRestore.id = 0 /\ NoRestore \in Restores
BY PtyAssumption DEF NoOp, NoRestore, Ops, Restores, Ids

\* Most steps of the daemon leave its list as it is.
PtyKept ==
    /\ PtyTypeOK' /\ Listed' = Listed /\ nextId' = nextId
    /\ \A i \in Listed : sessions[i].exited => sessions'[i].exited

\* Nor does what leaves the manager alone.
LEMMA PtyStands == PtyTypeOK /\ UNCHANGED ptyVars => PtyKept
BY DEF PtyTypeOK, ptyVars, PtyKept, Listed

\* A step that changes one session of the map and keeps what was seen of it.
LEMMA OneSession ==
  ASSUME PtyTypeOK, NEW id \in Listed, NEW s \in Session, sessions[id].exited => s.exited,
         sessions' = [sessions EXCEPT ![id] = s],
         nextId' = nextId, holder' = holder \/ holder' = None, orphans' = orphans
  PROVE  PtyKept
BY DEF PtyTypeOK, PtyKept, Listed

\* A child reads or ends, or the watcher sees it ended.
LEMMA ChildActs ==
  ASSUME PtyTypeOK, NEW id \in Ids, ChildReads(id) \/ ChildExits(id) \/ Watch(id)
  PROVE  PtyKept
<1>0. id \in Listed => sessions[id] \in Session
  BY DEF PtyTypeOK, Listed
<1>1. CASE ChildReads(id)
  <2>0. id \in Listed
    BY <1>1 DEF ChildReads, Running
  <2>1. PICK s \in Session : s = sessions[id]
    BY <1>0, <2>0
  <2>2. sessions' = [sessions EXCEPT ![id] = [s EXCEPT !.input = s.input - 1]]
    BY <1>1, <2>1, Zenon DEF ChildReads
  <2>3. s.input > 0
    BY <1>1, <2>1 DEF ChildReads
  <2>4. [s EXCEPT !.input = s.input - 1] \in Session /\ [s EXCEPT !.input = s.input - 1].exited = s.exited
    BY <2>3, PtyAssumption DEF Session
  <2> QED BY <1>1, <2>0, <2>1, <2>2, <2>4, OneSession DEF ChildReads
<1>2. CASE ChildExits(id)
  <2>0. id \in Listed
    BY <1>2 DEF ChildExits, Running
  <2>1. PICK s \in Session : s = sessions[id]
    BY <1>0, <2>0
  <2>2. sessions' = [sessions EXCEPT ![id] = [s EXCEPT !.alive = FALSE]]
    BY <1>2, <2>1, Zenon DEF ChildExits
  <2>3. [s EXCEPT !.alive = FALSE] \in Session /\ [s EXCEPT !.alive = FALSE].exited = s.exited
    BY DEF Session
  <2> QED BY <1>2, <2>0, <2>1, <2>2, <2>3, OneSession DEF ChildExits
<1>3. CASE Watch(id)
  <2>0. id \in Listed
    BY <1>3 DEF Watch
  <2>1. PICK s \in Session : s = sessions[id]
    BY <1>0, <2>0
  <2>2. sessions' = [sessions EXCEPT ![id] = [s EXCEPT !.exited = TRUE]]
    BY <1>3, <2>1, Zenon DEF Watch
  <2>3. [s EXCEPT !.exited = TRUE] \in Session /\ [s EXCEPT !.exited = TRUE].exited
    BY DEF Session
  <2> QED BY <1>3, <2>0, <2>1, <2>2, <2>3, OneSession DEF Watch
<1> QED BY <1>1, <1>2, <1>3

\* Input taken, at once or after the wait, is one more that lies unread.
LEMMA InputTaken ==
  ASSUME PtyTypeOK, NEW id \in Running, sessions[id].input < Buffer,
         sessions' = [sessions EXCEPT ![id].input = @ + 1],
         nextId' = nextId, holder' = holder \/ holder' = None, orphans' = orphans
  PROVE  PtyKept
<1>1. PICK s \in Session : s = sessions[id]
  BY DEF PtyTypeOK, Listed, Running
<1>2. id \in Listed /\ s.input < Buffer
  BY <1>1 DEF Running
<1>3. sessions' = [sessions EXCEPT ![id] = [s EXCEPT !.input = s.input + 1]]
  BY <1>1, Zenon
<1>4. [s EXCEPT !.input = s.input + 1] \in Session /\ [s EXCEPT !.input = s.input + 1].exited = s.exited
  BY <1>2, PtyAssumption DEF Session
<1> QED BY <1>1, <1>2, <1>3, <1>4, OneSession

\* What the calls do that neither add a session nor take one out.
LEMMA CallActs ==
  ASSUME PtyTypeOK, NEW id \in Ids,
         WriteTaken(id) \/ WriteRefused(id) \/ WriteBlocks(id) \/ WriteResumes(id)
           \/ KillRefused(id) \/ KillReturns(id)
  PROVE  PtyKept
<1>1. CASE WriteTaken(id)
  BY <1>1, InputTaken DEF WriteTaken
<1>2. CASE WriteRefused(id) \/ KillRefused(id)
  BY <1>2, PtyStands DEF WriteRefused, KillRefused
<1>3. CASE WriteBlocks(id)
  BY <1>3 DEF WriteBlocks, PtyTypeOK, PtyKept, Listed
<1>4. CASE KillReturns(id)
  BY <1>4 DEF KillReturns, PtyTypeOK, PtyKept, Listed
<1>5. CASE WriteResumes(id) /\ id \in Running
  BY <1>5, InputTaken DEF WriteResumes
<1>6. CASE WriteResumes(id) /\ id \notin Running
  BY <1>6 DEF WriteResumes, PtyTypeOK, PtyKept, Listed
<1> QED BY <1>1, <1>2, <1>3, <1>4, <1>5, <1>6

\* A spawn adds a terminal under an id that none has.
LEMMA SpawnActs ==
  ASSUME PtyTypeOK, IdsGiven, Spawn
  PROVE  /\ PtyTypeOK' /\ Listed' = Listed \cup {nextId} /\ nextId' = nextId + 1
         /\ nextId \in Ids \ Listed /\ \A i \in Listed : sessions'[i] = sessions[i]
<1>0. nextId \in Ids /\ Listed \subseteq Ids
  BY PtyAssumption DEF PtyTypeOK, Spawn, Ids
<1>1. nextId \notin Listed
  <2>1. nextId \in Listed => nextId < nextId
    BY DEF IdsGiven
  <2> QED BY <1>0, <2>1, PtyAssumption DEF Ids
<1>2. Fresh \in Session
  BY PtyAssumption DEF Session, Fresh
<1>3. /\ Listed' = Listed \cup {nextId} /\ sessions' \in [Listed' -> Session]
      /\ \A i \in Listed : sessions'[i] = sessions[i]
  BY <1>0, <1>1, <1>2 DEF PtyTypeOK, Spawn, Listed
<1>4. nextId' = nextId + 1 /\ nextId' \in 1..MaxId + 1
  BY <1>0, PtyAssumption DEF Spawn, Ids
<1> QED BY <1>0, <1>1, <1>3, <1>4 DEF PtyTypeOK, Spawn

\* A kill takes its session out of the map before it waits.
LEMMA KillActs ==
  ASSUME PtyTypeOK, NEW id \in Ids, Kill(id)
  PROVE  /\ PtyTypeOK' /\ Listed' = Listed \ {id} /\ nextId' = nextId
         /\ \A i \in Listed' : sessions'[i] = sessions[i]
BY DEF PtyTypeOK, Kill, Listed

\* A restart leaves no session.
LEMMA RestartActs ==
  ASSUME PtyTypeOK, DaemonRestarts
  PROVE  PtyTypeOK' /\ Listed' = {}
<1>1. DOMAIN sessions' = {} /\ sessions' \in [{} -> Session]
  BY DEF DaemonRestarts
<1> QED BY <1>1, PtyAssumption DEF PtyTypeOK, DaemonRestarts, Listed

\* A tab set, and a tab dropped.
LEMMA TabSet ==
  ASSUME TabsTypeOK, NEW id \in Ids, NEW state \in RunState, tabs' = SetTab(id, state)
  PROVE  /\ Open' = Open \cup {id} /\ Open' \subseteq Ids /\ tabs' \in [Open' -> RunState]
         /\ tabs'[id] = state /\ \A i \in Open \ {id} : tabs'[i] = tabs[i]
BY DEF TabsTypeOK, SetTab, Open

LEMMA TabDropped ==
  ASSUME TabsTypeOK, NEW id, tabs' = Without(id)
  PROVE  /\ Open' = Open \ {id} /\ Open' \subseteq Ids /\ tabs' \in [Open' -> RunState]
         /\ \A i \in Open' : tabs'[i] = tabs[i]
BY DEF TabsTypeOK, Without, Open

\* The reattach goes on to a terminal of the list, or is over.
GoesTo(todo, live) ==
    /\ todo # {} /\ restore' \in Restores /\ restore' # NoRestore /\ active' = active
    /\ restore'.id \in todo /\ restore'.todo = todo \ {restore'.id}
    /\ restore'.live = live /\ restore'.at \in {"issued", "failed"}
    /\ restore'.at = "issued" <=> online
IsOver(todo, live, shown) ==
    /\ todo = {} /\ restore' = NoRestore
    /\ active \in live => active' = active
    /\ active \notin live => active' \in AnyOf(shown)

LEMMA GoesOn ==
  ASSUME NEW todo \in SUBSET Ids, NEW live \in SUBSET Ids, NEW now, online \in BOOLEAN,
         Continue(todo, live, now)
  PROVE  GoesTo(todo, live) \/ IsOver(todo, live, DOMAIN now)
<1>1. CASE todo # {}
  <2>1. PICK id \in todo :
            restore' = [at |-> IF online THEN "issued" ELSE "failed",
                        live |-> live, todo |-> todo \ {id}, id |-> id]
    BY <1>1 DEF Continue
  <2>2. /\ restore'.id = id /\ restore'.todo = todo \ {id} /\ restore'.live = live
        /\ restore'.at = IF online THEN "issued" ELSE "failed"
    BY <2>1
  <2>3. restore' \in Restores
    BY <2>1, PtyAssumption DEF Restores, Ids
  <2> QED BY <1>1, <2>2, <2>3, IdleFields DEF Continue, GoesTo
<1>2. CASE todo = {}
  BY <1>2 DEF Continue, IsOver
<1> QED BY <1>1, <1>2

\* A step that only moves the user's operation on.
LEMMA OpMoves ==
  ASSUME TInv, PtyKept,
         UNCHANGED <<online, pollers, tabs, active, seen, restore, histories>>,
         op' \in Ops, op'.kind = op.kind, op'.id = op.id,
         op = NoOp => op' = NoOp, op'.at = "idle" => op' = NoOp,
         op'.at \in {"issued", "executing"} => online,
         op'.at = "executing" => op.kind \in {"close", "input"},
         op.kind = "close" /\ op'.at \in {"executing", "done", "not found"} => op.id \notin Listed,
         op.kind = "open" => (op'.at = "done" <=> op.at = "done")
  PROVE  TInv'
<1>0. UNCHANGED <<excused, crossed, unpolled>> /\ Open' = Open /\ HasList' = HasList
  BY DEF histories, Open, HasList
<1>1. TabsTypeOK'
  BY <1>0 DEF TInv, TabsTypeOK, PtyKept
<1>2. IdsGiven'
  BY DEF TInv, IdsGiven, PtyKept
<1>3. Turns'
  BY DEF TInv, Turns
<1>4. ListHolds'
  BY <1>0 DEF TInv, ListHolds, PtyKept
<1>5. ViewFits'
  <2>1. Pending' = Pending /\ Closing' = Closing /\ Opened' = Opened /\ Polling' = Polling
        /\ \A id \in Ids : Vouched(id)' = Vouched(id)
    BY <1>0 DEF Pending, Opened, ToAttach, Closing, Polling, Vouched
  <2>2. Listed \subseteq Ids /\ Open \subseteq Ids
    BY DEF TInv, TabsTypeOK, PtyTypeOK
  <2> QED BY <1>0, <2>1, <2>2 DEF TInv, ViewFits, TabsThere, TabsReal, TabsPolled, OpenHolds, PtyKept
<1>6. ShownFits'
  BY <1>0 DEF TInv, ShownFits, Shown
<1> QED BY <1>1, <1>2, <1>3, <1>4, <1>5, <1>6 DEF TInv

\* What the children do and the watcher sees is no matter of the tabs.
LEMMA MachineTabs ==
  ASSUME TInv, MachineActs
  PROVE  TInv'
<1>1. PtyKept
  BY ChildActs DEF TInv, TabsTypeOK, MachineActs
<1> QED
  BY <1>1, OpMoves, IdleFields DEF TInv, TabsTypeOK, MachineActs, phoneVars, Turns, IdsGiven

\* A reply that changes nothing in the daemon's list.
LEMMA AnswerTabs ==
  ASSUME TInv, PtyKept, NEW kind \in {"open", "close", "input"},
         NEW at \in {"executing", "done", "not found", "failed"}, Answer(kind, at),
         kind = "open" => at = "failed",
         kind = "close" => at \in {"failed", "not found"} /\ op.id \notin Listed
  PROVE  TInv'
<1>1. op \in Ops /\ op' = [op EXCEPT !.at = at] /\ op.kind = kind /\ op.at = "issued" /\ online
  BY DEF TInv, TabsTypeOK, Answer
<1>2. op' \in Ops /\ op'.kind = op.kind /\ op'.id = op.id /\ op'.at = at
  BY <1>1 DEF Ops
<1> QED BY <1>1, <1>2, OpMoves, IdleFields DEF Answer

\* A write that is executed.
LEMMA InputTabs ==
  ASSUME TInv, ExecuteInput
  PROVE  TInv'
<1>1. op.kind = "input" /\ op.id \in Ids /\ PtyTypeOK
  BY DEF ExecuteInput, Answer, TInv, TabsTypeOK, Turns
<1>2. PtyKept
  BY <1>1, CallActs DEF ExecuteInput
<1> QED BY <1>2, AnswerTabs DEF ExecuteInput

\* A blocking call that returns.
LEMMA ReturnTabs ==
  ASSUME TInv, CallReturns
  PROVE  TInv'
<1>1. PtyKept
  BY CallActs DEF CallReturns, TInv, TabsTypeOK
<1>2. op \in Ops
  BY DEF TInv, TabsTypeOK
<1>3. CASE op.at = "executing"
  <2>1. PICK at \in {"done", "not found"} : op' = [op EXCEPT !.at = at]
    BY <1>3 DEF CallReturns
  <2>2. op' \in Ops /\ op'.kind = op.kind /\ op'.id = op.id /\ op'.at = at
    BY <1>2, <2>1 DEF Ops
  <2>3. op.kind \in {"close", "input"} /\ (op.kind = "close" => op.id \notin Listed)
    BY <1>3 DEF TInv, Turns, IdsGiven
  <2> QED BY <1>1, <1>3, <2>2, <2>3, OpMoves, IdleFields DEF CallReturns
<1>4. CASE op.at # "executing"
  BY <1>1, <1>2, <1>4, OpMoves DEF CallReturns, TInv, Turns, IdsGiven
<1> QED BY <1>3, <1>4

\* A request of the user that is not answered in time.
LEMMA OpTimeoutTabs ==
  ASSUME TInv, OpTimesOut
  PROVE  TInv'
<1>1. op \in Ops /\ op' = [op EXCEPT !.at = "failed"] /\ op.at \in {"issued", "executing"}
  BY DEF TInv, TabsTypeOK, OpTimesOut
<1>2. op' \in Ops /\ op'.kind = op.kind /\ op'.id = op.id /\ op'.at = "failed"
  BY <1>1 DEF Ops
<1>3. PtyKept
  BY PtyStands DEF TInv, TabsTypeOK, OpTimesOut
<1> QED BY <1>1, <1>2, <1>3, OpMoves, IdleFields DEF OpTimesOut

\* What the view rests on, in one piece.
LEMMA ViewKept ==
  ASSUME TInv
  PROVE  /\ Listed \subseteq Ids /\ Open \subseteq Ids /\ restore.live \subseteq Ids
         /\ restore.todo \subseteq Ids /\ (restore.id # 0 => restore.id \in Ids)
         /\ op \in Ops /\ restore \in Restores /\ online \in BOOLEAN /\ seen \in BOOLEAN
         /\ excused \subseteq Ids /\ crossed \subseteq Ids /\ unpolled \subseteq Ids
<1>1. restore \in Restores /\ PtyTypeOK
  BY DEF TInv, TabsTypeOK
<1>2. restore.live \subseteq Ids
  BY <1>1 DEF Restores
<1> QED BY <1>1, <1>2 DEF TInv, TabsTypeOK, PtyTypeOK, ListHolds

\* An operation issued, or failed at once for want of a connection.
LEMMA IssueTabs ==
  ASSUME TInv, NEW kind \in {"open", "close", "input"}, NEW id \in 0..MaxId,
         kind # "open" => id \in Ids, Issue(kind, id), UNCHANGED <<excused, unpolled>>,
         IF kind = "close"
         THEN pollers' = pollers \ {id} /\ crossed' = IF HasList THEN crossed \cup {id} ELSE crossed
         ELSE UNCHANGED <<pollers, crossed>>
  PROVE  TInv'
<1>0. PtyKept /\ UNCHANGED <<online, tabs, active, seen, restore>>
  BY PtyStands DEF TInv, TabsTypeOK, Issue
<1>1. op = NoOp /\ op.kind = "none" /\ op.at = "idle"
  BY IdleFields DEF Issue, UserMayAct, Idle
<1>2. PICK at \in {"issued", "failed"} :
          op' = [kind |-> kind, id |-> id, at |-> at] /\ (at = "issued" <=> online)
  BY DEF Issue
<1>3. op' \in Ops /\ op'.kind = kind /\ op'.id = id /\ op'.at = at
  BY <1>2 DEF Ops
<1>4. crossed \subseteq crossed' /\ crossed' \subseteq Ids /\ pollers' \subseteq Ids
      /\ pollers \subseteq pollers' \cup Closing' /\ (HasList /\ kind = "close" => id \in crossed')
  BY <1>3, ViewKept DEF TInv, TabsTypeOK, Closing
<1>5. TabsTypeOK'
  BY <1>0, <1>3, <1>4 DEF TInv, TabsTypeOK, PtyKept, Open
<1>6. IdsGiven'
  BY <1>0, <1>3 DEF TInv, IdsGiven, PtyKept
<1>7. Turns'
  BY <1>0, <1>1, <1>2, <1>3 DEF TInv, Turns
<1>8. ListHolds'
  BY <1>0, <1>3, <1>4 DEF TInv, ListHolds, PtyKept, HasList
<1>9. ViewFits'
  <2>1. Opened = {} /\ Opened' = {} /\ Closing = {} /\ ToAttach' = ToAttach /\ Open' = Open
    BY <1>0, <1>1, <1>3 DEF Opened, Closing, ToAttach, Open
  <2> QED
    BY <1>0, <1>4, <2>1 DEF TInv, ViewFits, TabsThere, TabsReal, TabsPolled, OpenHolds, Polling,
       Pending, Vouched, PtyKept
<1>10. ShownFits'
  BY <1>0 DEF TInv, ShownFits, Shown, Open
<1> QED BY <1>5, <1>6, <1>7, <1>8, <1>9, <1>10 DEF TInv

\* The three operations that are issued so.
LEMMA IssuesTabs ==
  ASSUME TInv, IssueOpen \/ \E id \in Ids : IssueInput(id) \/ IssueClose(id)
  PROVE  TInv'
<1>1. CASE IssueOpen
  BY <1>1, IssueTabs, PtyAssumption DEF IssueOpen, histories
<1>2. CASE \E id \in Ids : IssueInput(id)
  BY <1>2, IssueTabs, PtyAssumption DEF IssueInput, histories, Ids
<1>3. CASE \E id \in Ids : IssueClose(id)
  BY <1>3, IssueTabs, PtyAssumption DEF IssueClose, Ids
<1> QED BY <1>1, <1>2, <1>3

\* Another tab shown.
LEMMA SelectTabs ==
  ASSUME TInv, NEW id \in Ids, Select(id)
  PROVE  TInv'
<1>0. PtyKept /\ UNCHANGED <<online, pollers, tabs, op, seen, restore, histories>>
      /\ active' = id /\ id \in Open
  BY PtyStands DEF TInv, TabsTypeOK, Select
<1>1. UNCHANGED <<excused, crossed, unpolled>> /\ Open' = Open
  BY <1>0 DEF histories, Open
<1>2. TabsTypeOK'
  BY <1>0, <1>1 DEF TInv, TabsTypeOK, PtyKept
<1>3. IdsGiven' /\ Turns' /\ ListHolds'
  BY <1>0, <1>1 DEF TInv, IdsGiven, Turns, ListHolds, PtyKept, HasList
<1>4. ViewFits'
  BY <1>0, <1>1 DEF TInv, ViewFits, TabsThere, TabsReal, TabsPolled, OpenHolds, Polling,
     Pending, Opened, ToAttach, Closing, Vouched, PtyKept
<1>5. ShownFits'
  BY <1>0, <1>1 DEF ShownFits, Shown
<1> QED BY <1>2, <1>3, <1>4, <1>5 DEF TInv

\* A spawn that is executed: the operation will see to the new terminal.
LEMMA OpenTabs ==
  ASSUME TInv, ExecuteOpen
  PROVE  TInv'
<1>0. op.kind = "open" /\ op.at = "issued" /\ online /\ op \in Ops
  BY DEF ExecuteOpen, Answer, TInv, TabsTypeOK
<1>1. CASE /\ Spawn
           /\ op' = [kind |-> "open", id |-> nextId, at |-> "done"]
           /\ crossed' = IF HasList THEN crossed \cup {nextId} ELSE crossed \ {nextId}
           /\ UNCHANGED <<online, pollers, tabs, active, seen, restore, excused, unpolled>>
  <2>1. /\ PtyTypeOK' /\ Listed' = Listed \cup {nextId} /\ nextId' = nextId + 1
        /\ nextId \in Ids \ Listed /\ \A i \in Listed : sessions'[i] = sessions[i]
    BY <1>1, SpawnActs DEF TInv, TabsTypeOK
  <2>2. op' \in Ops /\ op'.kind = "open" /\ op'.id = nextId /\ op'.at = "done"
    BY <1>1, <2>1, PtyAssumption DEF Ops, Ids
  <2>3. crossed' \subseteq Ids /\ \A i \in Ids : i # nextId => (i \in crossed' <=> i \in crossed)
    BY <1>1, <2>1, ViewKept
  <2>4. Opened = {} /\ Opened' = {nextId} /\ Closing = {} /\ Closing' = {} /\ ToAttach' = ToAttach
        /\ Open' = Open /\ HasList' = HasList
    BY <1>0, <1>1, <2>2 DEF Opened, Closing, ToAttach, Open, HasList
  <2>5. TabsTypeOK'
    BY <1>1, <2>1, <2>2, <2>3 DEF TInv, TabsTypeOK, Open
  <2>6. IdsGiven'
    <3>1. \A i \in Listed : i \in Ids /\ i < nextId
      BY DEF TInv, TabsTypeOK, PtyTypeOK, IdsGiven
    <3>2. \A i \in Listed' : i < nextId'
      BY <2>1, <3>1, PtyAssumption DEF Ids
    <3> QED BY <2>2, <3>2 DEF IdsGiven
  <2>7. Turns'
    BY <1>0, <1>1, <2>1, <2>2, IdleFields DEF TInv, Turns
  <2>8. ListHolds'
    BY <1>1, <2>1, <2>2, <2>3, <2>4 DEF TInv, ListHolds
  <2>9. ViewFits'
    <3>1. TabsThere' /\ TabsReal' /\ OpenHolds'
      BY <1>1, <2>1, <2>3, <2>4, ViewKept
      DEF TInv, ViewFits, TabsThere, TabsReal, OpenHolds, Pending, Vouched
    <3>2. TabsPolled'
      BY <1>1, <2>1, <2>3, <2>4, ViewKept
      DEF TInv, ViewFits, TabsPolled, Polling, Pending, Vouched
    <3> QED BY <3>1, <3>2 DEF ViewFits
  <2>10. ShownFits'
    BY <1>1 DEF TInv, ShownFits, Shown, Open
  <2> QED BY <2>5, <2>6, <2>7, <2>8, <2>9, <2>10 DEF TInv
<1>2. CASE (SpawnRefused \/ SpawnHalfway) /\ Answer("open", "failed")
  <2>1. PtyKept
    BY <1>2, PtyStands DEF SpawnRefused, SpawnHalfway, PtyKept, PtyTypeOK, Listed, TInv, TabsTypeOK
  <2> QED BY <1>2, <2>1, AnswerTabs
<1> QED BY <1>0, <1>1, <1>2 DEF ExecuteOpen

\* A kill that is executed: its tab goes with the reply, and if there is a
\* list, it has crossed it.
LEMMA CloseTabs ==
  ASSUME TInv, ExecuteClose
  PROVE  TInv'
<1>0. op.kind = "close" /\ op.at = "issued" /\ online /\ op \in Ops /\ op.id \in Ids
  BY DEF ExecuteClose, Answer, TInv, TabsTypeOK, Turns
<1>1. CASE Kill(op.id) /\ Answer("close", "executing")
  <2>0. UNCHANGED <<online, pollers, tabs, active, seen, restore, excused, crossed, unpolled>>
    BY <1>1 DEF Answer, histories
  <2>1. /\ PtyTypeOK' /\ Listed' = Listed \ {op.id} /\ nextId' = nextId
        /\ \A i \in Listed' : sessions'[i] = sessions[i]
    BY <1>0, <1>1, KillActs DEF TInv, TabsTypeOK
  <2>2. op' \in Ops /\ op'.kind = "close" /\ op'.id = op.id /\ op'.at = "executing"
    BY <1>0, <1>1 DEF Ops, Answer
  <2>3. Opened = {} /\ Opened' = {} /\ Closing = {op.id} /\ Closing' = {op.id}
        /\ ToAttach' = ToAttach /\ Open' = Open /\ HasList' = HasList
    BY <1>0, <2>0, <2>2 DEF Opened, Closing, ToAttach, Open, HasList
  <2>4. TabsTypeOK'
    BY <2>0, <2>1, <2>2, <2>3 DEF TInv, TabsTypeOK
  <2>5. IdsGiven'
    BY <2>1, <2>2 DEF TInv, IdsGiven
  <2>6. Turns'
    BY <1>0, <2>0, <2>2, IdleFields DEF TInv, Turns
  <2>7. ListHolds'
    BY <1>0, <2>0, <2>1, <2>2, <2>3 DEF TInv, ListHolds
  <2>8. ViewFits'
    BY <2>0, <2>1, <2>3
    DEF TInv, ViewFits, TabsThere, TabsReal, TabsPolled, OpenHolds, Polling, Pending, Vouched
  <2>9. ShownFits'
    BY <2>0 DEF TInv, ShownFits, Shown, Open
  <2> QED BY <2>4, <2>5, <2>6, <2>7, <2>8, <2>9 DEF TInv
<1>2. CASE KillRefused(op.id) /\ Answer("close", "not found")
  <2>1. PtyKept /\ op.id \notin Listed
    BY <1>0, <1>2, CallActs DEF KillRefused, TInv, TabsTypeOK
  <2> QED BY <1>2, <2>1, AnswerTabs
<1> QED BY <1>1, <1>2 DEF ExecuteClose

\* The reply of an open makes a tab, polled and shown.
LEMMA FinishOpenTabs ==
  ASSUME TInv, FinishOpen
  PROVE  TInv'
<1>0. op.kind = "open" /\ op.at = "done" /\ op.id \in Ids /\ op' = NoOp
  BY DEF FinishOpen, TInv, Turns
<1>1. PtyKept /\ UNCHANGED <<online, seen, restore, crossed>>
  BY PtyStands DEF FinishOpen, TInv, TabsTypeOK
<1>2. /\ pollers' = pollers \cup {op.id} /\ active' = op.id
      /\ excused' = excused \ {op.id} /\ unpolled' = unpolled \ {op.id}
  BY DEF FinishOpen
<1>3. /\ Open' = Open \cup {op.id} /\ Open' \subseteq Ids /\ tabs' \in [Open' -> RunState]
      /\ tabs'[op.id] = "running" /\ \A i \in Open \ {op.id} : tabs'[i] = tabs[i]
  BY <1>0, TabSet DEF FinishOpen, RunState, TInv
<1>4. Opened = {op.id} /\ Opened' = {} /\ Closing = {} /\ Closing' = {} /\ ToAttach' = ToAttach
      /\ HasList' = HasList
  BY <1>0, <1>1, IdleFields DEF Opened, Closing, ToAttach, HasList
<1>5. TabsTypeOK'
  BY <1>0, <1>1, <1>2, <1>3, IdleFields DEF TInv, TabsTypeOK, PtyKept
<1>6. IdsGiven' /\ Turns'
  BY <1>0, <1>1, IdleFields DEF TInv, IdsGiven, Turns, PtyKept
<1>7. ListHolds'
  BY <1>0, <1>1, <1>4, IdleFields DEF TInv, ListHolds, PtyKept
<1>8. ViewFits'
  <2>1. op.id \in Listed \/ op.id \in crossed
    BY <1>4 DEF TInv, ViewFits, OpenHolds
  <2>2. TabsThere' /\ TabsReal' /\ OpenHolds'
    BY <1>1, <1>2, <1>3, <1>4, <2>1
    DEF TInv, ViewFits, TabsThere, TabsReal, OpenHolds, Pending, Vouched, PtyKept
  <2>3. TabsPolled'
    BY <1>1, <1>2, <1>3, <1>4 DEF TInv, ViewFits, TabsPolled, Polling, Pending, Vouched, PtyKept
  <2> QED BY <2>2, <2>3 DEF ViewFits
<1>9. ShownFits'
  BY <1>1, <1>2, <1>3 DEF ShownFits, Shown
<1> QED BY <1>5, <1>6, <1>7, <1>8, <1>9 DEF TInv

\* A close drops its tab, whatever came of it.
LEMMA FinishCloseTabs ==
  ASSUME TInv, FinishClose
  PROVE  TInv'
<1>0. op.kind = "close" /\ op.at \in {"done", "not found", "failed"} /\ op.id \in Ids /\ op' = NoOp
  BY DEF FinishClose, TInv, Turns
<1>1. PtyKept /\ UNCHANGED <<online, pollers, seen, restore, crossed, unpolled>>
  BY PtyStands DEF FinishClose, TInv, TabsTypeOK
<1>2. excused' \subseteq Ids /\ excused \subseteq excused' /\ (op.at = "failed" => op.id \in excused')
  BY <1>0, ViewKept DEF FinishClose
<1>3. /\ Open' = Open \ {op.id} /\ Open' \subseteq Ids /\ tabs' \in [Open' -> RunState]
      /\ \A i \in Open' : tabs'[i] = tabs[i]
  BY <1>0, TabDropped DEF FinishClose, TInv
<1>4. IF active = op.id THEN active' \in AnyOf(Open') ELSE active' = active
  BY <1>3 DEF FinishClose
<1>5. Opened = {} /\ Opened' = {} /\ Closing = {op.id} /\ Closing' = {} /\ ToAttach' = ToAttach
      /\ HasList' = HasList
  BY <1>0, <1>1, IdleFields DEF Opened, Closing, ToAttach, HasList
<1>6. TabsTypeOK'
  <2>1. active' \in Ids \cup {None}
    BY <1>3, <1>4 DEF AnyOf, TInv, TabsTypeOK
  <2> QED BY <1>0, <1>1, <1>2, <1>3, <2>1, IdleFields DEF TInv, TabsTypeOK, PtyKept
<1>7. IdsGiven' /\ Turns'
  BY <1>0, <1>1, IdleFields DEF TInv, IdsGiven, Turns, PtyKept
<1>8. ListHolds'
  BY <1>0, <1>1, <1>5, IdleFields DEF TInv, ListHolds, PtyKept
<1>9. ViewFits'
  <2>1. op.at # "failed" => op.id \notin Listed
    BY <1>0 DEF TInv, IdsGiven
  <2> QED
    BY <1>1, <1>2, <1>3, <1>5, <2>1
    DEF TInv, ViewFits, TabsThere, TabsReal, TabsPolled, OpenHolds, Polling, Pending, Vouched, PtyKept
<1>10. ShownFits'
  <2>1. None \notin restore.live
    BY ViewKept, PtyAssumption DEF Ids
  <2> QED BY <1>1, <1>3, <1>4, <2>1 DEF TInv, ShownFits, Shown, AnyOf
<1> QED BY <1>6, <1>7, <1>8, <1>9, <1>10 DEF TInv

\* Input that found no terminal marks its tab; a failed open makes none.
LEMMA FinishInputTabs ==
  ASSUME TInv, FinishInput \/ FinishFailedOpen
  PROVE  TInv'
<1>0. op.at \in {"done", "not found", "failed"} /\ op.id \in 0..MaxId /\ op' = NoOp
      /\ (op.kind = "input" \/ (op.kind = "open" /\ op.at = "failed"))
  BY DEF FinishInput, FinishFailedOpen, TInv, TabsTypeOK, Ops
<1>1. PtyKept /\ UNCHANGED <<online, pollers, active, seen, restore, excused, crossed, unpolled>>
  BY PtyStands DEF FinishInput, FinishFailedOpen, TInv, TabsTypeOK, histories
<1>2. /\ Open' = Open /\ Open' \subseteq Ids /\ tabs' \in [Open' -> RunState]
      /\ \A i \in Open : tabs'[i] = "running" => tabs[i] = "running"
  <2>1. CASE tabs' = tabs
    BY <2>1 DEF TInv, TabsTypeOK, Open
  <2>2. CASE op.id \in Open /\ tabs' = SetTab(op.id, "exited")
    BY <2>2, TabSet DEF TInv, TabsTypeOK, RunState
  <2> QED BY <2>1, <2>2 DEF FinishInput, FinishFailedOpen
<1>3. Opened = {} /\ Opened' = {} /\ Closing = {} /\ Closing' = {} /\ ToAttach' = ToAttach
      /\ HasList' = HasList
  BY <1>0, <1>1, IdleFields DEF Opened, Closing, ToAttach, HasList
<1>4. TabsTypeOK'
  BY <1>0, <1>1, <1>2, IdleFields DEF TInv, TabsTypeOK, PtyKept
<1>5. IdsGiven' /\ Turns'
  BY <1>0, <1>1, IdleFields DEF TInv, IdsGiven, Turns, PtyKept
<1>6. ListHolds'
  BY <1>0, <1>1, <1>3, IdleFields DEF TInv, ListHolds, PtyKept
<1>7. ViewFits'
  BY <1>1, <1>2, <1>3
  DEF TInv, ViewFits, TabsThere, TabsReal, TabsPolled, OpenHolds, Polling, Pending, Vouched, PtyKept
<1>8. ShownFits'
  BY <1>1, <1>2 DEF TInv, ShownFits, Shown
<1> QED BY <1>4, <1>5, <1>6, <1>7, <1>8 DEF TInv

\* The collector is given the new status, and starts a reattach.
LEMMA CollectTabs ==
  ASSUME TInv, Collect
  PROVE  TInv'
<1>0. PtyKept /\ UNCHANGED <<online, pollers, tabs, active, op, excused, crossed, unpolled>>
  BY PtyStands DEF Collect, TInv, TabsTypeOK, histories
<1>1. restore = NoRestore /\ seen' = online /\ online \in BOOLEAN
  BY DEF Collect, TInv, TabsTypeOK
<1>2. /\ restore' \in Restores /\ restore'.live = {} /\ restore'.todo = {} /\ restore'.id = 0
      /\ (~online => restore' = NoRestore)
      /\ (online => restore' # NoRestore /\ restore'.at = "issued")
  BY IdleFields, PtyAssumption DEF Collect, Restores, Ids
<1>3. restore'.at # "done" /\ restore'.at # "failed" /\ ~HasList'
  BY <1>1, <1>2, IdleFields DEF HasList
<1>4. Pending' = Pending /\ Closing' = Closing /\ Opened' = Opened /\ Open' = Open
  BY <1>0, <1>1, <1>2, IdleFields DEF Pending, Opened, ToAttach, Closing, Open
<1>5. TabsTypeOK'
  BY <1>0, <1>1, <1>2, <1>4 DEF TInv, TabsTypeOK, PtyKept
<1>6. IdsGiven'
  BY <1>0 DEF TInv, IdsGiven, PtyKept
<1>7. Turns'
  BY <1>0, <1>1, <1>2, IdleFields DEF TInv, Turns
<1>8. ListHolds'
  BY <1>2, <1>3 DEF ListHolds
<1>9. ViewFits'
  BY <1>0, <1>1, <1>2, <1>3, <1>4, IdleFields
  DEF TInv, ViewFits, TabsThere, TabsReal, TabsPolled, OpenHolds, Polling, Vouched, PtyKept
<1>10. ShownFits'
  BY <1>0, <1>1, <1>2, <1>4, IdleFields DEF TInv, ShownFits, Shown
<1> QED BY <1>5, <1>6, <1>7, <1>8, <1>9, <1>10 DEF TInv

\* The list of terminals is taken; what is in flight crosses it.
LEMMA ListTabs ==
  ASSUME TInv, ExecuteList
  PROVE  TInv'
<1>0. PtyKept /\ UNCHANGED <<online, pollers, tabs, active, op, seen, excused>> /\ unpolled' = {}
  BY PtyStands DEF ExecuteList, TInv, TabsTypeOK
<1>1. restore.at = "issued" /\ restore.id = 0 /\ Listed \subseteq Ids
  BY DEF ExecuteList, TInv, TabsTypeOK, PtyTypeOK
<1>2. /\ restore' \in Restores /\ restore'.live = Listed /\ restore'.todo = Listed
      /\ restore'.id = 0 /\ restore'.at = "done" /\ restore' # NoRestore
  BY <1>1, IdleFields, PtyAssumption DEF ExecuteList, Restores
<1>3. restore # NoRestore
  BY <1>1, IdleFields
<1>4. crossed' = {id \in Ids : op.kind \in {"open", "close"} /\ op.id = id}
  BY DEF ExecuteList
<1>5. Opened' = Opened /\ Open' = Open /\ (\A id \in Opened : id \in crossed')
      /\ (op.kind = "close" => op.id \in crossed')
  BY <1>0, <1>4 DEF Opened, Open, TInv, Turns
<1>6. TabsTypeOK'
  BY <1>0, <1>2, <1>4, <1>5 DEF TInv, TabsTypeOK, PtyKept
<1>7. IdsGiven'
  BY <1>0 DEF TInv, IdsGiven, PtyKept
<1>8. Turns'
  BY <1>0, <1>2, <1>3 DEF TInv, Turns
<1>9. ListHolds'
  BY <1>0, <1>2, <1>5 DEF ListHolds, PtyKept
<1>10. ViewFits'
  BY <1>0, <1>2, <1>5
  DEF ViewFits, TabsThere, TabsReal, TabsPolled, OpenHolds, Polling, Pending, ToAttach, PtyKept
<1>11. ShownFits'
  BY <1>0, <1>1, <1>2, <1>5 DEF TInv, ShownFits, Shown
<1> QED BY <1>6, <1>7, <1>8, <1>9, <1>10, <1>11 DEF TInv

\* A terminal of the list is attached, or is found gone.
LEMMA AttachTabs ==
  ASSUME TInv, ExecuteAttach
  PROVE  TInv'
<1>0. PtyKept /\ UNCHANGED <<online, pollers, tabs, active, op, seen, excused, crossed, unpolled>>
  BY PtyStands DEF ExecuteAttach, TInv, TabsTypeOK, histories
<1>1. restore.at = "issued" /\ restore.id # 0 /\ restore \in Restores
  BY DEF ExecuteAttach, TInv, TabsTypeOK
<1>2. PICK at \in {"done", "failed"} : restore' = [restore EXCEPT !.at = at]
  BY DEF ExecuteAttach
<1>3. /\ restore' \in Restores /\ restore'.live = restore.live /\ restore'.todo = restore.todo
      /\ restore'.id = restore.id /\ restore'.at \in {"done", "failed"}
  BY <1>1, <1>2 DEF Restores
<1>4. restore # NoRestore
  BY <1>1, IdleFields
<1>5. Opened' = Opened /\ Closing' = Closing /\ ToAttach' = ToAttach /\ Open' = Open
      /\ HasList' = HasList /\ Polling' = Polling
  BY <1>0, <1>1, <1>3 DEF Opened, Closing, ToAttach, Open, HasList, Polling
<1>6. TabsTypeOK'
  BY <1>0, <1>3, <1>5 DEF TInv, TabsTypeOK, PtyKept
<1>7. IdsGiven'
  BY <1>0 DEF TInv, IdsGiven, PtyKept
<1>8. Turns'
  BY <1>0, <1>3, <1>4 DEF TInv, Turns
<1>9. ListHolds'
  BY <1>0, <1>1, <1>3, <1>5 DEF TInv, ListHolds, PtyKept
<1>10. ViewFits'
  BY <1>0, <1>1, <1>3, <1>5
  DEF TInv, ViewFits, TabsThere, TabsReal, TabsPolled, OpenHolds, Pending, Vouched, PtyKept
<1>11. ShownFits'
  BY <1>0, <1>3, <1>5 DEF TInv, ShownFits, Shown
<1> QED BY <1>6, <1>7, <1>8, <1>9, <1>10, <1>11 DEF TInv

\* A request of the reattach that is not answered in time.
LEMMA TimeoutTabs ==
  ASSUME TInv, RestoreTimesOut
  PROVE  TInv'
<1>0. PtyKept /\ UNCHANGED <<online, pollers, tabs, active, op, seen, crossed, unpolled>>
  BY PtyStands DEF RestoreTimesOut, TInv, TabsTypeOK
<1>1. restore.at = "issued" /\ online /\ restore \in Restores
  BY DEF RestoreTimesOut, TInv, TabsTypeOK
<1>2. /\ restore' \in Restores /\ restore'.live = restore.live /\ restore'.todo = restore.todo
      /\ restore'.id = restore.id /\ restore'.at = "failed"
  BY <1>1 DEF RestoreTimesOut, Restores
<1>3. restore # NoRestore
  BY <1>1, IdleFields
<1>4. excused' \subseteq Ids /\ excused \subseteq excused' /\ (restore.id = 0 => excused' = Ids)
  BY ViewKept DEF RestoreTimesOut
<1>5. Opened' = Opened /\ Closing' = Closing /\ ToAttach' = ToAttach /\ Open' = Open
      /\ HasList' = HasList
  BY <1>0, <1>1, <1>2 DEF Opened, Closing, ToAttach, Open, HasList
<1>6. TabsTypeOK'
  BY <1>0, <1>2, <1>4, <1>5 DEF TInv, TabsTypeOK, PtyKept
<1>7. IdsGiven'
  BY <1>0 DEF TInv, IdsGiven, PtyKept
<1>8. Turns'
  BY <1>0, <1>2, <1>3 DEF TInv, Turns
<1>9. ListHolds'
  BY <1>0, <1>1, <1>2, <1>5 DEF TInv, ListHolds, PtyKept
<1>10. ViewFits'
  BY <1>0, <1>1, <1>2, <1>4, <1>5, ViewKept
  DEF TInv, ViewFits, TabsThere, TabsReal, TabsPolled, OpenHolds, Polling, Pending, Vouched, PtyKept
<1>11. ShownFits'
  BY <1>0, <1>2, <1>5 DEF TInv, ShownFits, Shown
<1> QED BY <1>6, <1>7, <1>8, <1>9, <1>10, <1>11 DEF TInv

\* Without a list the tabs stay as they are.
LEMMA ListFailsTabs ==
  ASSUME TInv, ListFails
  PROVE  TInv'
<1>0. /\ PtyKept /\ restore' = NoRestore
      /\ UNCHANGED <<online, pollers, tabs, active, op, seen, excused, crossed, unpolled>>
  BY PtyStands DEF ListFails, TInv, TabsTypeOK, histories
<1>1. restore.at = "failed" /\ restore.id = 0 /\ restore.todo = {} /\ ~HasList /\ ~HasList'
  BY <1>0, IdleFields DEF ListFails, TInv, ListHolds, HasList
<1>2. Opened' = Opened /\ Closing' = Closing /\ ToAttach' = ToAttach /\ Open' = Open
      /\ Polling' = Polling
  BY <1>0, <1>1, IdleFields DEF Opened, Closing, ToAttach, Open, Polling
<1>3. TabsTypeOK'
  BY <1>0, <1>2, IdleFields DEF TInv, TabsTypeOK, PtyKept
<1>4. IdsGiven' /\ Turns'
  BY <1>0, IdleFields DEF TInv, IdsGiven, Turns, PtyKept
<1>5. ListHolds'
  BY <1>0, <1>1, IdleFields DEF ListHolds
<1>6. ViewFits'
  BY <1>0, <1>1, <1>2
  DEF TInv, ViewFits, TabsThere, TabsReal, TabsPolled, OpenHolds, Pending, Vouched, PtyKept
<1>7. ShownFits'
  BY <1>0, <1>1, <1>2, IdleFields DEF TInv, ShownFits, Shown
<1> QED BY <1>3, <1>4, <1>5, <1>6, <1>7 DEF TInv

\* What there is to be said of the tabs of a list, while some are to attach.
AttachesOn(tabsNow, polled, todo) ==
    /\ \A id \in Listed : Vouched(id)' => id \in DOMAIN tabsNow \cup Opened \cup todo
    /\ \A id \in DOMAIN tabsNow : Vouched(id)' /\ tabsNow[id] = "running" => id \in Listed \cup Closing
    /\ Polling' =>
         \A id \in DOMAIN tabsNow \cap Listed :
           Vouched(id)' /\ id \notin unpolled' /\ tabsNow[id] = "running" /\ ~sessions[id].exited =>
               id \in polled \cup Closing \cup Opened \cup todo

\* A list applied, or a terminal of it seen to: the next one or the end.
LEMMA AttachGoesOn ==
  ASSUME TInv, HasList, NEW todo \in SUBSET restore.live, NEW now,
         UNCHANGED <<ptyVars, online, op, seen, crossed>>, excused' \subseteq Ids, unpolled' \subseteq Ids,
         tabs' = now, Open' \subseteq Ids, tabs' \in [Open' -> RunState], pollers' \subseteq Ids,
         Continue(todo, restore.live, now),
         active \in restore.live => active \in Open',
         AttachesOn(tabs', pollers', todo)
  PROVE  TInv'
<1>0. PtyKept
  BY PtyStands DEF TInv, TabsTypeOK
<1>1. restore.live \subseteq Ids /\ online \in BOOLEAN /\ DOMAIN now = Open'
  BY ViewKept DEF Open
<1>2. seen
  BY IdleFields DEF TInv, Turns, HasList
<1>3. Opened' = Opened /\ Closing' = Closing
  BY DEF Opened, Closing
<1>4. GoesTo(todo, restore.live) \/ IsOver(todo, restore.live, Open')
  <2>1. todo \in SUBSET Ids
    BY <1>1
  <2> QED BY <1>1, <2>1, GoesOn
<1>5. IdsGiven'
  BY <1>0 DEF TInv, IdsGiven, PtyKept
<1>6. CASE GoesTo(todo, restore.live)
  <2>1. restore'.id # 0 /\ HasList'
    BY <1>1, <1>6, PtyAssumption DEF Ids, GoesTo, HasList
  <2>2. ToAttach' = todo
    BY <1>6, <2>1 DEF ToAttach, GoesTo
  <2>3. TabsTypeOK'
    BY <1>0, <1>6 DEF TInv, TabsTypeOK, PtyKept, GoesTo
  <2>4. Turns'
    BY <1>2, <1>6, IdleFields DEF TInv, Turns, GoesTo
  <2>5. ListHolds'
    BY <1>0, <1>6, <2>1 DEF TInv, ListHolds, PtyKept, GoesTo
  <2>6. ViewFits'
    BY <1>0, <1>3, <2>2
    DEF TInv, ViewFits, TabsThere, TabsReal, TabsPolled, OpenHolds, Pending, PtyKept, AttachesOn, Open
  <2>7. ShownFits'
    BY <1>6, <2>1 DEF ShownFits, GoesTo
  <2> QED BY <1>5, <2>3, <2>4, <2>5, <2>6, <2>7 DEF TInv
<1>7. CASE IsOver(todo, restore.live, Open')
  <2>1. ~HasList' /\ ToAttach' = {} /\ todo = {}
    BY <1>7, IdleFields DEF HasList, ToAttach, IsOver
  <2>2. Shown' /\ active' \in Ids \cup {None}
    BY <1>7 DEF Shown, AnyOf, IsOver
  <2>3. TabsTypeOK'
    BY <1>0, <1>7, <2>2, IdleFields DEF TInv, TabsTypeOK, PtyKept, IsOver
  <2>4. Turns'
    BY <1>2, <1>7, IdleFields DEF TInv, Turns, IsOver
  <2>5. ListHolds'
    BY <1>7, <2>1, IdleFields DEF ListHolds, IsOver
  <2>6. ViewFits'
    BY <1>0, <1>3, <2>1
    DEF TInv, ViewFits, TabsThere, TabsReal, TabsPolled, OpenHolds, Pending, PtyKept, AttachesOn, Open
  <2>7. ShownFits'
    BY <1>7, <2>2, IdleFields DEF ShownFits, IsOver
  <2> QED BY <1>5, <2>3, <2>4, <2>5, <2>6, <2>7 DEF TInv
<1> QED BY <1>4, <1>6, <1>7

\* The list drops the tabs it has no terminal for.
LEMMA FinishListTabs ==
  ASSUME TInv, FinishList
  PROVE  TInv'
<1> DEFINE kept == [id \in Open \cap restore.live |-> tabs[id]]
<1>0. /\ UNCHANGED <<ptyVars, online, pollers, op, seen, crossed, unpolled>> /\ excused' = {}
      /\ HasList /\ restore.id = 0
  BY DEF FinishList, HasList
<1>1. restore.todo = restore.live /\ \A id \in Ids \ crossed : id \in restore.live <=> id \in Listed
  BY <1>0 DEF FinishList, TInv, ListHolds
<1>2. tabs' = kept /\ Continue(restore.todo, restore.live, kept)
  BY DEF FinishList
<1>3. DOMAIN kept = Open \cap restore.live /\ Open' = Open \cap restore.live
  BY <1>2 DEF Open
<1>4. Open' \subseteq Ids /\ tabs' \in [Open' -> RunState] /\ pollers' \subseteq Ids
      /\ excused' \subseteq Ids /\ unpolled' \subseteq Ids
  BY <1>0, <1>2, <1>3 DEF TInv, TabsTypeOK
<1>5. active \in restore.live => active \in Open'
  <2>1. None \notin restore.live
    BY ViewKept, PtyAssumption DEF Ids
  <2> QED BY <1>0, <1>3, <2>1 DEF TInv, ShownFits, Shown
<1>6. AttachesOn(tabs', pollers', restore.todo)
  <2>1. \A id \in Ids : Vouched(id)' => id \notin crossed
    BY <1>0 DEF Vouched
  <2>2. DOMAIN tabs' = Open \cap restore.live
    BY <1>3 DEF Open
  <2> QED BY <1>1, <2>1, <2>2, ViewKept DEF AttachesOn
<1> HIDE DEF kept
<1> QED BY <1>0, <1>1, <1>2, <1>4, <1>5, <1>6, AttachGoesOn

\* A terminal attached has its tab and its poller.
LEMMA FinishAttachTabs ==
  ASSUME TInv, FinishAttach
  PROVE  TInv'
<1>0. /\ UNCHANGED <<ptyVars, online, op, seen, excused, crossed>> /\ HasList
      /\ pollers' = pollers \cup {restore.id} /\ unpolled' = unpolled \ {restore.id}
      /\ restore.id # 0 /\ restore.id \in Ids /\ restore.id \in restore.live
  BY ViewKept DEF FinishAttach, HasList, TInv, ListHolds
<1>1. \A id \in Ids \ crossed : id \in restore.live <=> id \in Listed
  BY <1>0 DEF TInv, ListHolds
<1>2. /\ Open' = Open \cup {restore.id} /\ Open' \subseteq Ids /\ tabs' \in [Open' -> RunState]
      /\ \A i \in Open \ {restore.id} : tabs'[i] = tabs[i]
  BY <1>0, TabSet DEF FinishAttach, TInv, RunState
<1>3. tabs' = SetTab(restore.id, "running") /\ Continue(restore.todo, restore.live, SetTab(restore.id, "running"))
  BY DEF FinishAttach
<1>4. pollers' \subseteq Ids /\ excused' \subseteq Ids /\ unpolled' \subseteq Ids
      /\ restore.todo \in SUBSET restore.live
  BY <1>0 DEF TInv, TabsTypeOK, ListHolds
<1>5. active \in restore.live => active \in Open'
  BY <1>0, <1>2 DEF TInv, ShownFits
<1>6. AttachesOn(tabs', pollers', restore.todo)
  <2>1. ToAttach = restore.todo \cup {restore.id} /\ DOMAIN tabs' = Open' /\ (Polling' => Polling)
        /\ \A id \in Ids : Vouched(id)' <=> Vouched(id)
    BY <1>0 DEF ToAttach, Open, Polling, Vouched
  <2>2. Vouched(restore.id) => restore.id \in Listed
    BY <1>0, <1>1 DEF Vouched
  <2>3. TabsThere /\ TabsReal /\ TabsPolled
    BY DEF TInv, ViewFits
  <2>4. \A id \in Listed : Vouched(id)' => id \in Open' \cup Opened \cup restore.todo
    BY <1>2, <2>1, <2>3, ViewKept DEF TabsThere, Pending
  <2>5. \A id \in Open' : Vouched(id)' /\ tabs'[id] = "running" => id \in Listed \cup Closing
    BY <1>0, <1>2, <2>1, <2>2, <2>3 DEF TabsReal
  <2>6. Polling' =>
          \A id \in Open' \cap Listed :
           Vouched(id)' /\ id \notin unpolled' /\ tabs'[id] = "running" /\ ~sessions[id].exited =>
               id \in pollers' \cup Closing \cup Opened \cup restore.todo
    BY <1>0, <1>2, <2>1, <2>3 DEF TabsPolled, Pending
  <2> QED BY <2>1, <2>4, <2>5, <2>6 DEF AttachesOn
<1>7. PICK now : now = tabs'
  OBVIOUS
<1>8. Continue(restore.todo, restore.live, now)
  BY <1>3, <1>7
<1> QED BY <1>0, <1>2, <1>4, <1>5, <1>6, <1>7, <1>8, AttachGoesOn

\* One that was not is excused, and the rest are seen to.
LEMMA AttachFailsTabs ==
  ASSUME TInv, AttachFails
  PROVE  TInv'
<1>0. /\ UNCHANGED <<ptyVars, online, pollers, tabs, op, seen, crossed, unpolled>> /\ HasList
      /\ excused' = excused \cup {restore.id}
      /\ restore.id # 0 /\ restore.id \in Ids
  BY ViewKept DEF AttachFails, HasList
<1>1. Continue(restore.todo, restore.live, tabs)
  BY DEF AttachFails
<1>2. pollers' \subseteq Ids /\ excused' \subseteq Ids /\ unpolled' \subseteq Ids
      /\ restore.todo \in SUBSET restore.live
  BY <1>0 DEF TInv, TabsTypeOK, ListHolds
<1>3. Open' = Open /\ Open' \subseteq Ids /\ tabs' \in [Open' -> RunState]
  BY <1>0 DEF Open, TInv, TabsTypeOK
<1>4. active \in restore.live => active \in Open'
  BY <1>0, <1>3 DEF TInv, ShownFits
<1>5. AttachesOn(tabs', pollers', restore.todo)
  <2>1. ToAttach = restore.todo \cup {restore.id} /\ DOMAIN tabs' = Open /\ (Polling' => Polling)
        /\ \A id \in Ids : Vouched(id)' => Vouched(id) /\ id # restore.id
    BY <1>0 DEF ToAttach, Open, Polling, Vouched
  <2> QED
    BY <1>0, <2>1, ViewKept
    DEF AttachesOn, TInv, ViewFits, TabsThere, TabsReal, TabsPolled, Pending
<1> QED BY <1>0, <1>1, <1>2, <1>3, <1>4, <1>5, AttachGoesOn

\* A poller that ends leaves its terminal over, or excused.
LEMMA PollTabs ==
  ASSUME TInv, NEW id \in Ids, PollEnds(id) \/ PollTimesOut(id)
  PROVE  TInv'
<1>0. /\ PtyKept /\ UNCHANGED <<ptyVars, online, tabs, active, op, seen, restore, crossed, unpolled>>
      /\ pollers' = pollers \ {id} /\ excused \subseteq excused' /\ excused' \subseteq excused \cup {id}
  BY PtyStands DEF PollEnds, PollTimesOut, TInv, TabsTypeOK, histories
<1>1. id \in excused' \/ (online /\ id \in Listed => sessions[id].exited)
  BY DEF PollEnds, PollTimesOut
<1>2. TabsTypeOK'
  BY <1>0 DEF TInv, TabsTypeOK, PtyKept, Open
<1>3. IdsGiven' /\ Turns'
  BY <1>0 DEF TInv, IdsGiven, Turns, PtyKept
<1>4. ListHolds'
  BY <1>0 DEF TInv, ListHolds, PtyKept, HasList
<1>5. ViewFits'
  <2>1. Pending' = Pending /\ Closing' = Closing /\ Opened' = Opened /\ Polling' = Polling
        /\ Open' = Open /\ UNCHANGED sessions
        /\ \A i \in Ids : Vouched(i)' => Vouched(i)
    BY <1>0 DEF Pending, Opened, ToAttach, Closing, Polling, Open, Vouched, ptyVars
  <2>2. Vouched(id)' => id \notin excused'
    BY DEF Vouched
  <2>3. TabsThere' /\ TabsReal' /\ OpenHolds'
    BY <1>0, <2>1, ViewKept DEF TInv, ViewFits, TabsThere, TabsReal, OpenHolds, PtyKept
  <2>4. TabsPolled'
    BY <1>0, <1>1, <2>1, <2>2, ViewKept DEF TInv, ViewFits, TabsPolled, PtyKept, Polling
  <2> QED BY <2>3, <2>4 DEF ViewFits
<1>6. ShownFits'
  BY <1>0 DEF TInv, ShownFits, Shown, Open
<1> QED BY <1>2, <1>3, <1>4, <1>5, <1>6 DEF TInv

\* The reply of a spawn that was executed is lost.
LEMMA ReplyTimeoutTabs ==
  ASSUME TInv, SpawnReplyTimesOut
  PROVE  TInv'
<1>0. /\ PtyKept /\ UNCHANGED <<online, pollers, tabs, active, seen, restore, crossed, unpolled>>
      /\ excused' = excused \cup {op.id}
  BY PtyStands DEF SpawnReplyTimesOut, TInv, TabsTypeOK
<1>1. op.kind = "open" /\ op.at = "done" /\ op.id \in Ids /\ op \in Ops
  BY DEF SpawnReplyTimesOut, TInv, TabsTypeOK, Turns
<1>2. op' \in Ops /\ op'.kind = "open" /\ op'.id = op.id /\ op'.at = "failed"
  BY <1>1 DEF SpawnReplyTimesOut, Ops
<1>3. Opened = {op.id} /\ Opened' = {} /\ Closing' = Closing /\ ToAttach' = ToAttach
      /\ Open' = Open /\ HasList' = HasList /\ Polling' = Polling
  BY <1>0, <1>1, <1>2 DEF Opened, Closing, ToAttach, Open, HasList, Polling
<1>4. TabsTypeOK'
  BY <1>0, <1>1, <1>2, <1>3 DEF TInv, TabsTypeOK, PtyKept
<1>5. IdsGiven' /\ Turns'
  BY <1>0, <1>1, <1>2, IdleFields DEF TInv, IdsGiven, Turns, PtyKept
<1>6. ListHolds'
  BY <1>0, <1>2, <1>3 DEF TInv, ListHolds, PtyKept
<1>7. ViewFits'
  BY <1>0, <1>3
  DEF TInv, ViewFits, TabsThere, TabsReal, TabsPolled, OpenHolds, Pending, Vouched, PtyKept
<1>8. ShownFits'
  BY <1>0 DEF TInv, ShownFits, Shown, Open
<1> QED BY <1>4, <1>5, <1>6, <1>7, <1>8 DEF TInv

\* A connection that ends: what was in flight fails, and the tabs stay, with
\* an open whose reply is lost excused; or the daemon itself has ended.
LEMMA Offline ==
  ASSUME TInv, online' = FALSE, pollers' = {}, UNCHANGED <<tabs, active, seen, unpolled>>,
         excused' \subseteq Ids, crossed' \subseteq Ids,
         crossed' = Ids \/ (crossed' = crossed /\ excused \subseteq excused'),
         PtyTypeOK', \A i \in Listed' : i < nextId', Listed' \subseteq Listed,
         crossed' = Ids \/ Listed' = Listed,
         \/ op' = [op EXCEPT !.at = Failed(@)]
         \/ /\ op.at = "done" /\ op.kind = "open" /\ op' = [op EXCEPT !.at = "failed"]
            /\ op.id \in excused',
         restore' = [restore EXCEPT !.at = Failed(@)]
  PROVE  TInv'
<1>1. op \in Ops /\ restore \in Restores
  BY DEF TInv, TabsTypeOK
<1>2. /\ op' \in Ops /\ op'.kind = op.kind /\ op'.id = op.id
      /\ op'.at \notin {"issued", "executing"} /\ op'.at \in {op.at, "failed"}
      /\ (op.at = "idle" => op'.at = "idle" /\ op' = op) /\ (op.at # "idle" => op'.at # "idle")
      /\ (op.kind = "open" /\ op.at = "done" => op'.at = "done" \/ op.id \in excused')
      /\ (op'.at = "done" => op.at = "done")
  BY <1>1 DEF Ops, Failed
<1>3. /\ restore' \in Restores /\ restore'.live = restore.live /\ restore'.todo = restore.todo
      /\ restore'.id = restore.id /\ restore'.at # "issued" /\ restore'.at \in {restore.at, "failed"}
      /\ (restore.at = "idle" => restore'.at = "idle" /\ restore' = restore)
      /\ (restore.at # "idle" => restore'.at # "idle")
      /\ (restore'.at = "done" <=> restore.at = "done")
  BY <1>1 DEF Restores, Failed
<1>4. Open' = Open /\ ToAttach' = ToAttach /\ Closing' = Closing /\ HasList' = HasList /\ ~Polling'
      /\ Opened' \subseteq Opened /\ \A id \in Opened : id \in Opened' \/ id \in excused'
  BY <1>2, <1>3 DEF Open, ToAttach, Closing, HasList, Polling, Opened
<1>5. TabsTypeOK'
  BY <1>2, <1>3, <1>4 DEF TInv, TabsTypeOK
<1>6. IdsGiven'
  BY <1>2 DEF TInv, IdsGiven
<1>7. Turns'
  BY <1>2, <1>3, IdleFields DEF TInv, Turns
<1>8. ListHolds'
  <2>1. HasList => \A id \in Ids \ crossed' : id \in restore.live <=> id \in Listed'
    BY <1>4 DEF TInv, ListHolds
  <2>2. HasList /\ op.kind = "close" => op.id \in crossed'
    BY DEF TInv, ListHolds, Turns
  <2> QED BY <1>2, <1>3, <1>4, <2>1, <2>2 DEF TInv, ListHolds
<1>9. ViewFits'
  <2>1. Listed \subseteq Ids /\ Open \subseteq Ids /\ \A id \in Opened : id \in Ids
    BY ViewKept DEF Opened, TInv, Turns
  <2>2. \A id \in Ids : Vouched(id)' => Vouched(id) /\ Listed' = Listed
    BY DEF Vouched
  <2> QED
    BY <1>3, <1>4, <2>1, <2>2
    DEF TInv, ViewFits, TabsThere, TabsReal, TabsPolled, OpenHolds, Pending, Vouched
<1>10. ShownFits'
  BY <1>3, <1>4 DEF TInv, ShownFits, Shown
<1> QED BY <1>5, <1>6, <1>7, <1>8, <1>9, <1>10 DEF TInv

\* The connection ends.
LEMMA DisconnectTabs ==
  ASSUME TInv, Disconnect \/ DisconnectBeforeReply
  PROVE  TInv'
<1>1. PtyKept /\ UNCHANGED <<crossed, unpolled>>
  BY PtyStands DEF Disconnect, DisconnectBeforeReply, TInv, TabsTypeOK, histories
<1>2. excused' \subseteq Ids /\ excused \subseteq excused' /\ crossed' \subseteq Ids
  BY <1>1 DEF Disconnect, DisconnectBeforeReply, TInv, TabsTypeOK, Turns, histories
<1>3. \A i \in Listed' : i < nextId'
  BY <1>1 DEF PtyKept, TInv, IdsGiven
<1>4. CASE Disconnect
  BY <1>1, <1>2, <1>3, <1>4, Offline DEF Disconnect, LoseConnection, PtyKept
<1>5. CASE DisconnectBeforeReply
  BY <1>1, <1>2, <1>3, <1>5, Offline DEF DisconnectBeforeReply, PtyKept
<1> QED BY <1>4, <1>5

\* The daemon stops and starts again.
LEMMA RestartTabs ==
  ASSUME TInv, Restart
  PROVE  TInv'
<1>1. PtyTypeOK' /\ Listed' = {}
  BY RestartActs DEF Restart, TInv, TabsTypeOK
<1> QED BY <1>1, Offline DEF Restart, LoseConnection

\* A connection comes: its reattach is still to run, or the tabs of the last
\* one are left without a poller.
LEMMA ConnectTabs ==
  ASSUME TInv, Connect
  PROVE  TInv'
<1>0. PtyKept /\ UNCHANGED <<pollers, tabs, active, op, seen, restore, excused, crossed>>
  BY PtyStands DEF Connect, TInv, TabsTypeOK
<1>1. ~online /\ online' = TRUE /\ unpolled' = IF seen THEN Open ELSE unpolled
  BY DEF Connect
<1>2. Open' = Open /\ HasList' = HasList /\ Pending' = Pending /\ Closing' = Closing /\ Opened' = Opened
  BY <1>0 DEF Open, HasList, Pending, Opened, ToAttach, Closing
<1>3. TabsTypeOK'
  BY <1>0, <1>1, <1>2 DEF TInv, TabsTypeOK, PtyKept
<1>4. IdsGiven' /\ Turns'
  BY <1>0, <1>1 DEF TInv, IdsGiven, Turns, PtyKept
<1>5. ListHolds'
  BY <1>0, <1>2 DEF TInv, ListHolds, PtyKept
<1>6. ViewFits'
  BY <1>0, <1>1, <1>2
  DEF TInv, ViewFits, TabsThere, TabsReal, TabsPolled, OpenHolds, Polling, Vouched, PtyKept
<1>7. ShownFits'
  BY <1>0, <1>2 DEF TInv, ShownFits, Shown
<1> QED BY <1>3, <1>4, <1>5, <1>6, <1>7 DEF TInv

\* The tabs of a machine that was unpaired are forgotten.
LEMMA ForgetTabs ==
  ASSUME TInv, ForgetAll
  PROVE  TInv'
<1>0. PtyKept /\ UNCHANGED <<online, pollers, op, seen, restore, excused, unpolled>> /\ crossed' = Ids
  BY PtyStands DEF ForgetAll, TInv, TabsTypeOK
<1>1. Open' = {} /\ tabs' \in [{} -> RunState] /\ active' = None /\ None \notin restore.live
  BY ViewKept, PtyAssumption DEF ForgetAll, Open, Ids
<1>2. TabsTypeOK'
  BY <1>0, <1>1 DEF TInv, TabsTypeOK, PtyKept
<1>3. IdsGiven' /\ Turns'
  BY <1>0 DEF TInv, IdsGiven, Turns, PtyKept
<1>4. ListHolds'
  BY <1>0 DEF TInv, ListHolds, Turns, PtyKept, HasList
<1>5. ViewFits'
  <2>1. Opened' = Opened /\ \A id \in Opened : id \in Ids
    BY <1>0 DEF Opened, TInv, Turns
  <2> QED
    BY <1>0, <1>1, <2>1, ViewKept
    DEF ViewFits, TabsThere, TabsReal, TabsPolled, OpenHolds, Vouched, PtyKept
<1>6. ShownFits'
  BY <1>0, <1>1 DEF ShownFits, Shown
<1> QED BY <1>2, <1>3, <1>4, <1>5, <1>6 DEF TInv

\* No terminal, no tab.
LEMMA TabsStart == TabsInit => TInv
<1> SUFFICES ASSUME TabsInit PROVE TInv
  OBVIOUS
<1>1. Listed = {} /\ Open = {} /\ sessions \in [{} -> Session] /\ tabs \in [{} -> RunState]
  BY DEF TabsInit, PtyInit, Listed, Open
<1>2. op = NoOp /\ restore = NoRestore /\ op.kind = "none" /\ op.at = "idle" /\ restore.at = "idle"
      /\ restore.id = 0 /\ restore.live = {} /\ restore.todo = {}
  BY IdleFields DEF TabsInit
<1>3. PtyTypeOK
  BY <1>1, PtyAssumption DEF PtyTypeOK, TabsInit, PtyInit
<1>4. TabsTypeOK
  BY <1>1, <1>2, <1>3, IdleFields DEF TabsTypeOK, TabsInit
<1>5. Opened = {} /\ ~HasList
  BY <1>2 DEF Opened, HasList
<1> QED
  BY <1>1, <1>2, <1>4, <1>5
  DEF TInv, IdsGiven, Turns, ListHolds, ViewFits, TabsThere, TabsReal, TabsPolled, OpenHolds,
      ShownFits, Shown, TabsInit

\* The tabs follow the machine through every step: what the daemon does, what
\* the user does, the reattach, and the connection's coming and going
\* (session.rs:245-445, TerminalsRepository.kt:85-290).
THEOREM TabsInvariance == TabsSpec => []TInv
<1>1. TabsInit => TInv
  BY TabsStart
<1>2. TInv /\ [TabsNext]_tabsVars => TInv'
  <2> SUFFICES ASSUME TInv, [TabsNext]_tabsVars PROVE TInv'
    OBVIOUS
  <2>1. CASE UNCHANGED tabsVars
    <3>1. UNCHANGED <<ptyVars, phoneVars>>
      BY <2>1 DEF tabsVars
    <3>2. PtyKept /\ op \in Ops
      BY <3>1, PtyStands DEF TInv, TabsTypeOK
    <3> QED BY <3>1, <3>2, OpMoves DEF phoneVars, TInv, Turns, IdsGiven
  <2>2. CASE MachineActs
    BY <2>2, MachineTabs
  <2>3. CASE IssueOpen \/ \E id \in Ids : IssueInput(id) \/ IssueClose(id)
    BY <2>3, IssuesTabs
  <2>4. CASE \E id \in Ids : Select(id)
    BY <2>4, SelectTabs
  <2>5. CASE ExecuteOpen \/ ExecuteInput \/ ExecuteClose \/ CallReturns
    BY <2>5, OpenTabs, InputTabs, CloseTabs, ReturnTabs
  <2>6. CASE FinishOpen \/ FinishClose \/ FinishInput \/ FinishFailedOpen
    BY <2>6, FinishOpenTabs, FinishCloseTabs, FinishInputTabs
  <2>7. CASE Collect \/ ExecuteList \/ FinishList \/ ListFails
    BY <2>7, CollectTabs, ListTabs, FinishListTabs, ListFailsTabs
  <2>8. CASE ExecuteAttach \/ FinishAttach \/ AttachFails
    BY <2>8, AttachTabs, FinishAttachTabs, AttachFailsTabs
  <2>9. CASE \E id \in Ids : PollEnds(id) \/ PollTimesOut(id)
    BY <2>9, PollTabs
  <2>10. CASE RestoreTimesOut \/ OpTimesOut \/ SpawnReplyTimesOut
    BY <2>10, TimeoutTabs, OpTimeoutTabs, ReplyTimeoutTabs
  <2>11. CASE Disconnect \/ DisconnectBeforeReply \/ Connect \/ Restart \/ ForgetAll
    BY <2>11, DisconnectTabs, ConnectTabs, RestartTabs, ForgetTabs
  <2> QED
    BY <2>1, <2>2, <2>3, <2>4, <2>5, <2>6, <2>7, <2>8, <2>9, <2>10, <2>11 DEF TabsNext
<1> QED BY <1>1, <1>2, PTL DEF TabsSpec

\* Once the reattach is over and nothing is in flight, the tabs are the
\* machine's terminals, but for those a request failed for and those that
\* crossed a list or the daemon's end, and the tab shown is one of them
\* (TerminalsRepository.kt:138-191).
THEOREM TabsFollow == TabsSpec => []TabsMatch
<1>1. TInv => TabsMatch
  <2> SUFFICES ASSUME TInv PROVE TabsMatch
    OBVIOUS
  <2>1. TabsTypeOK
    BY DEF TInv
  <2>2. ViewMatches
    <3>1. Idle /\ Restored => Opened = {} /\ Closing = {} /\ ToAttach = {}
      BY IdleFields DEF Opened, Closing, ToAttach, Idle, Restored
    <3> QED
      BY <3>1, IdleFields DEF TInv, ViewFits, TabsThere, TabsReal, Pending, Vouched, ViewMatches, MatchesBut, Restored
  <2>3. ActiveIsTab
    BY IdleFields DEF TInv, ShownFits, Shown, ActiveIsTab
  <2> QED BY <2>1, <2>2, <2>3 DEF TabsMatch
<1> QED BY <1>1, TabsInvariance, PTL

\* No running tab stands still, but for those and the tabs of a connection
\* whose end the collector missed: what its terminal prints is asked for
\* (TerminalsRepository.kt:117-191, ClientProvider.kt:80, client.rs:833-895,
\* 1044-1070).
THEOREM TabsArePolled == TabsSpec => []NoFrozenTab
<1>1. TInv => NoFrozenTab
  <2>1. Idle /\ Restored => Opened = {} /\ Closing = {} /\ ToAttach = {}
    BY IdleFields DEF Opened, Closing, ToAttach, Idle, Restored
  <2> QED
    BY <2>1, IdleFields DEF TInv, ViewFits, TabsPolled, Polling, Pending, Vouched, NoFrozenTab, PolledBut, Restored
<1> QED BY <1>1, TabsInvariance, PTL
=============================================================================
