--------------------------- MODULE ControlStream ---------------------------
(***************************************************************************)
(* The control stream between a phone and the daemon: the hello of         *)
(* establish, the requests of Live with their correlation ids, slots and   *)
(* timeouts, the phone's reader task, and serve_connection at the other    *)
(* end.                                                                    *)
(*                                                                         *)
(* The stream delivers in order; either side may end it, and the           *)
(* connection under it may be lost.  peer says who answers: "serve" is     *)
(* serve_connection as it is, "stub" the daemon of the client's own tests, *)
(* which differs in answering Hello.                                       *)
(***************************************************************************)
EXTENDS Sequences, SequencesExt

CONSTANTS
    Requests,  \* bound: the requests that are ever made, by correlation id
    Pollers,   \* those made by a terminal's poller, a task that is aborted
    Peers      \* who may answer, of "serve" and "stub"

ASSUME PeersAssumption == Peers \subseteq {"serve", "stub"}
ASSUME PollersAssumption == Pollers \subseteq Requests

VARIABLES
    peer,       \* who does
    est,        \* establish: "hello", then "live", "timeout" or "failed"
    req,        \* where each call of Live::request is
    slots,      \* PendingMap: correlation ids with a sender
    delivered,  \* calls whose oneshot holds a reply
    reader,     \* route_control: "none", "running" or "ended"
    served,     \* serve_connection is running
    up,         \* the connection
    toDaemon, toPhone,  \* the two directions of the stream
    \* What happened, for the properties:
    executed,   \* how often the daemon handled each request
    dropped     \* replies that reached no caller

vars == <<peer, est, req, slots, delivered, reader, served, up, toDaemon, toPhone, executed, dropped>>
phone == <<est, req, slots, delivered, reader, dropped>>
daemon == <<peer, served, executed>>

Hello == [kind |-> "hello"]
HelloOk == [kind |-> "hello_ok"]
Ends == [kind |-> "end"]
Request(r) == [kind |-> "request", id |-> r]
Response(r) == [kind |-> "response", id |-> r]
Cancel(r) == [kind |-> "cancel", id |-> r]
Torn == [kind |-> "torn"]   \* the first half of a frame whose writer was aborted

\* The connection and the stream are open and Hello has been sent.
Init ==
    /\ peer \in Peers
    /\ est = "hello" /\ reader = "none" /\ served = TRUE /\ up = TRUE
    /\ req = [r \in Requests |-> "idle"]
    /\ slots = {} /\ delivered = {}
    /\ toDaemon = <<Hello>> /\ toPhone = <<>>
    /\ executed = [r \in Requests |-> 0] /\ dropped = {}
-----------------------------------------------------------------------------
\* The daemon.

Handle(m) ==
    CASE m.kind = "request" ->
           /\ executed' = [executed EXCEPT ![m.id] = @ + 1]
           /\ toPhone' = Append(toPhone, Response(m.id))
      [] m.kind = "hello" /\ peer = "stub" ->
           /\ toPhone' = Append(toPhone, HelloOk)
           /\ UNCHANGED executed
      [] OTHER -> UNCHANGED <<toPhone, executed>>   \* "ignoring client message"

DaemonReceives ==
    /\ served /\ up /\ toDaemon # <<>> /\ Head(toDaemon) # Torn
    /\ Handle(Head(toDaemon))
    /\ toDaemon' = Tail(toDaemon)
    /\ UNCHANGED <<phone, peer, served, up>>

\* What follows half a frame is read as its rest and fails to open, which ends
\* serve_connection.
DaemonFindsTorn ==
    /\ served /\ up /\ Len(toDaemon) > 1 /\ Head(toDaemon) = Torn
    /\ served' = FALSE
    /\ toPhone' = Append(toPhone, Ends)
    /\ UNCHANGED <<phone, peer, up, toDaemon, executed>>

\* serve_connection returns: its half of the stream ends after what it sent.
DaemonEnds ==
    /\ served
    /\ served' = FALSE
    /\ toPhone' = IF up THEN Append(toPhone, Ends) ELSE toPhone
    /\ UNCHANGED <<phone, peer, up, toDaemon, executed>>

\* The connection goes, and with it what is in flight.
Lost ==
    /\ up
    /\ up' = FALSE
    /\ toDaemon' = <<>> /\ toPhone' = <<>>
    /\ UNCHANGED <<phone, daemon>>
-----------------------------------------------------------------------------
\* establish.

\* read_hello takes HelloOk and passes over anything else; the stream's end is
\* an error, which drops the connection.
HelloArrives ==
    /\ est = "hello" /\ toPhone # <<>>
    /\ LET m == Head(toPhone)
       IN  /\ est' = CASE m = HelloOk -> "live" [] m = Ends -> "failed" [] OTHER -> est
           /\ reader' = IF m = HelloOk THEN "running" ELSE reader
           /\ up' = (m # Ends)
           /\ toPhone' = Tail(toPhone)
    /\ UNCHANGED <<req, slots, delivered, peer, served, toDaemon, executed, dropped>>

HelloFails ==
    /\ est = "hello" /\ ~up
    /\ est' = "failed"
    /\ UNCHANGED <<req, slots, delivered, reader, peer, served, up, toDaemon, toPhone, executed, dropped>>

\* HELLO_TIMEOUT, taken to be longer than any answer takes.
HelloTimesOut ==
    /\ est = "hello" /\ up
    /\ toDaemon = <<>> /\ toPhone = <<>>
    /\ est' = "timeout" /\ up' = FALSE
    /\ UNCHANGED <<req, slots, delivered, reader, peer, served, toDaemon, toPhone, executed, dropped>>
-----------------------------------------------------------------------------
\* Live::request.

\* A mutant that registers only once the request has been sent.
Register_Late(r) ==
    /\ est = "live"
    /\ \/ req[r] = "idle" /\ req' = [req EXCEPT ![r] = "registered"] /\ UNCHANGED slots
       \/ req[r] = "waiting" /\ r \notin slots /\ slots' = slots \union {r} /\ UNCHANGED req
    /\ UNCHANGED <<est, delivered, reader, daemon, up, toDaemon, toPhone, dropped>>

\* The slot before the send, "so a response that arrives while we are still
\* inside send has a slot to land in".
Register(r) ==
    /\ est = "live" /\ req[r] = "idle"
    /\ req' = [req EXCEPT ![r] = "registered"]
    /\ slots' = slots \union {r}
    /\ UNCHANGED <<est, delivered, reader, daemon, up, toDaemon, toPhone, dropped>>

Send(r) ==
    /\ req[r] = "registered"
    /\ IF up
       THEN /\ req' = [req EXCEPT ![r] = "waiting"]
            /\ toDaemon' = Append(toDaemon, Request(r))
            /\ UNCHANGED slots
       ELSE /\ req' = [req EXCEPT ![r] = "failed"]
            /\ slots' = slots \ {r}
            /\ UNCHANGED toDaemon
    /\ UNCHANGED <<est, delivered, reader, daemon, up, toPhone, dropped>>

\* The oneshot resolves: with the reply, or because its sender was dropped.
Returns(r) ==
    /\ req[r] = "waiting"
    /\ \/ r \in delivered /\ req' = [req EXCEPT ![r] = "ok"]
       \/ r \notin delivered \union slots /\ req' = [req EXCEPT ![r] = "lost"]
    /\ UNCHANGED <<est, slots, delivered, reader, daemon, up, toDaemon, toPhone, dropped>>

\* A mutant that leaves the slot of a call that gave up.
TimesOut_KeepsSlot(r) ==
    /\ req[r] = "waiting" /\ r \in slots
    /\ req' = [req EXCEPT ![r] = "cancelling"]
    /\ UNCHANGED <<est, slots, delivered, reader, daemon, up, toDaemon, toPhone, dropped>>

\* The timer looks at the oneshot first.
TimesOut(r) ==
    /\ req[r] = "waiting" /\ r \in slots
    /\ req' = [req EXCEPT ![r] = "cancelling"]
    /\ slots' = slots \ {r}
    /\ UNCHANGED <<est, delivered, reader, daemon, up, toDaemon, toPhone, dropped>>

\* A mutant that tries the request again instead of cancelling it.
Cancels_Resends(r) ==
    /\ req[r] = "cancelling"
    /\ req' = [req EXCEPT ![r] = "timeout"]
    /\ toDaemon' = IF up THEN Append(toDaemon, Request(r)) ELSE toDaemon
    /\ UNCHANGED <<est, slots, delivered, reader, daemon, up, toPhone, dropped>>

\* cancel, whose failure is only logged.
Cancels(r) ==
    /\ req[r] = "cancelling"
    /\ req' = [req EXCEPT ![r] = "timeout"]
    /\ toDaemon' = IF up THEN Append(toDaemon, Cancel(r)) ELSE toDaemon
    /\ UNCHANGED <<est, slots, delivered, reader, daemon, up, toPhone, dropped>>

\* The poller of a terminal that is attached again, closed or torn down is
\* aborted wherever it waits: its future goes without taking the slot. In the
\* middle of a write to a QUIC stream it leaves half a frame there.
Aborts(r) ==
    /\ r \in Pollers /\ req[r] \in {"registered", "waiting", "cancelling"}
    /\ req' = [req EXCEPT ![r] = "aborted"]
    /\ \/ UNCHANGED toDaemon
       \/ req[r] # "waiting" /\ up /\ toDaemon' = Append(toDaemon, Torn)
    /\ UNCHANGED <<est, slots, delivered, reader, daemon, up, toPhone, dropped>>
-----------------------------------------------------------------------------
\* route_control.

\* A mutant that leaves the waiting calls to their timeouts.
ReaderEnds_Silently == /\ reader' = "ended" /\ UNCHANGED slots

\* abandon_all drops every sender.
ReaderEnds == /\ reader' = "ended" /\ slots' = {}

\* A mutant that looks whether the caller is still there before it takes the slot.
Deliver_Looks(r) ==
    IF r \in slots /\ req[r] # "aborted"
    THEN delivered' = delivered \union {r} /\ slots' = slots \ {r} /\ UNCHANGED dropped
    ELSE dropped' = dropped \union {r} /\ UNCHANGED <<delivered, slots>>

\* A response takes its slot, if that is still there; nobody gets it when the
\* caller has given up or was aborted.
Deliver(r) ==
    /\ slots' = slots \ {r}
    /\ IF r \in slots /\ req[r] # "aborted"
       THEN delivered' = delivered \union {r} /\ UNCHANGED dropped
       ELSE dropped' = dropped \union {r} /\ UNCHANGED delivered

Route ==
    /\ reader = "running"
    /\ \/ /\ toPhone # <<>>
          /\ LET m == Head(toPhone)
             IN  \/ m.kind = "response" /\ Deliver(m.id) /\ UNCHANGED reader
                 \/ m.kind = "end" /\ ReaderEnds /\ UNCHANGED <<delivered, dropped>>
          /\ toPhone' = Tail(toPhone)
       \/ /\ ~up
          /\ ReaderEnds
          /\ UNCHANGED <<delivered, dropped, toPhone>>
    /\ UNCHANGED <<est, req, daemon, up, toDaemon>>
-----------------------------------------------------------------------------
Next ==
    \/ DaemonReceives \/ DaemonFindsTorn \/ DaemonEnds \/ Lost
    \/ HelloArrives \/ HelloFails \/ HelloTimesOut
    \/ \E r \in Requests : Register(r) \/ Send(r) \/ Returns(r) \/ TimesOut(r) \/ Cancels(r) \/ Aborts(r)
    \/ Route

Spec == Init /\ [][Next]_vars

\* Tasks that can run do, on both sides; timers are not relied on.
LiveSpec ==
    /\ Spec
    /\ WF_vars(DaemonReceives) /\ WF_vars(DaemonFindsTorn) /\ WF_vars(HelloArrives) /\ WF_vars(HelloFails) /\ WF_vars(Route)
    /\ \A r \in Requests : WF_vars(Send(r)) /\ WF_vars(Returns(r)) /\ WF_vars(Cancels(r))
-----------------------------------------------------------------------------
Settled == {"ok", "lost", "timeout", "failed", "aborted"}

\* What each task and each direction of the stream may hold, and that no
\* request is handled twice (client.rs:400-440).
TypeOK ==
    /\ peer \in Peers
    /\ est \in {"hello", "live", "timeout", "failed"}
    /\ req \in [Requests -> {"idle", "registered", "waiting", "cancelling"} \union Settled]
    /\ slots \subseteq Requests /\ delivered \subseteq Requests /\ dropped \subseteq Requests
    /\ reader \in {"none", "running", "ended"} /\ served \in BOOLEAN /\ up \in BOOLEAN
    /\ Range(toDaemon) \subseteq {Hello, Torn} \union {Request(r) : r \in Requests} \union {Cancel(r) : r \in Requests}
    /\ Range(toPhone) \subseteq {HelloOk, Ends} \union {Response(r) : r \in Requests}
    /\ executed \in [Requests -> 0 .. 1]   \* a call is executed at most once

\* A reply is discarded only when its caller has given up or was aborted: there
\* is no moment between the send and the wait at which it falls on the floor
\* (client.rs:318-321, 418-420).
NoReplyDropped == \A r \in dropped : req[r] \in {"cancelling", "timeout", "aborted"}

\* A slot is there for a call under way, or for one whose poller was aborted and
\* that no reply has reached: a call that returns leaves none, whether it timed
\* out or failed, and a reply takes the slot it finds (client.rs:315, 421-423,
\* 432-434).
NoSlotLeaks ==
    \A r \in slots : \/ req[r] \in {"registered", "waiting"}
                     \/ req[r] = "aborted" /\ r \notin dropped

\* The map of waiting calls is exact on both counts: no reply finds its slot
\* missing while somebody waits, and the only slots nobody waits for are those
\* of aborted pollers whose reply has not come (client.rs:300-325, 418-434).
SlotsExact == TypeOK /\ NoReplyDropped /\ NoSlotLeaks

\* An aborted poller does not take its slot along, but the reply to its request
\* or the end of the stream does, if the request was sent: the map does not keep
\* growing with every terminal that is attached again or closed
\* (client.rs:315, 846-849, 890-891, 1035).
AbortedSlotsGo ==
    \A r \in Pollers :
        (/\ req[r] = "aborted" /\ reader = "running"
         /\ Request(r) \in Range(toDaemon) \/ executed[r] = 1) ~> r \notin slots

\* The same of a poller aborted inside send, to whose request nobody answers
\* (client.rs:420-424).
UnsentSlotsGo == \A r \in Pollers : (req[r] = "aborted" /\ reader = "running") ~> r \notin slots

\* A call that is in flight when the connection is lost returns, whatever its
\* timeout (client.rs:328-333, 1033-1035).
LossWakesCallers ==
    \A r \in Requests : (req[r] = "waiting" /\ reader = "running" /\ ~up) ~> (req[r] \in Settled)

\* No call waits for its own deadline once the reader is gone and the
\* connection with it (client.rs:1033-1035).
NoneWaitsForAnEndedReader ==
    \A r \in Requests : (req[r] = "waiting" /\ reader = "ended" /\ ~up) => r \notin slots

\* A phone that reaches a daemon gets a session: its hello does not run into
\* the timeout while the daemon is there (README.md:63).
HelloIsAnswered == served => est # "timeout"
=============================================================================
