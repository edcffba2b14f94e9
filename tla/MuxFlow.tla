------------------------------ MODULE MuxFlow ------------------------------
(***************************************************************************)
(* Each direction of each channel of Mux implements CreditFlow.            *)
(*                                                                         *)
(* The totals of CreditFlow are read off the queues, the wire and the      *)
(* counters of the two ends, starting from the bytes of the frames the     *)
(* sender began.  The sender's semaphore is not part of the mapping: that  *)
(* it agrees with the totals is CreditBalances.                            *)
(***************************************************************************)
EXTENDS Mux

SumOf(seq, c, kind) ==
    Amount([i \in DOMAIN seq |->
              IF seq[i].ch = c /\ seq[i].kind = kind THEN seq[i].n ELSE 0])

\* The OPEN of c has not arrived yet.
Opening(e, c) ==
    \E s \in Range(ep[e].out[c]) \union Range(wire[e]) : s.kind = "OPEN" /\ s.ch = c

\* Both ends count this direction: from the sender's channel being created
\* until one of them lets go of it.  What is sent before the peer has heard of
\* the channel follows its OPEN.
Linked(e, c) ==
    LET p == Peer(e)
    IN  /\ c \in ep[e].chans /\ c \in ep[e].send
        /\ alive[e] /\ alive[p] /\ ~Closed(ep[p])
        /\ c \in ep[p].chans \/ Opening(e, c)

Begun(e, c) == Amount(hist[e].frames[c])
Ends_(e, c) ==
    {Amount(SubSeq(hist[e].frames[c], 1, i)) : i \in 1 .. Len(hist[e].frames[c])}

Acquired(e, c) == Begun(e, c) - Len(ep[e].todo[c])
Pushed(e, c) == Acquired(e, c) - Len(ep[e].held[c])
Received(e, c) ==
    Pushed(e, c) - SumOf(ep[e].out[c], c, "DATA") - SumOf(wire[e], c, "DATA")
Returned(e, c) == Received(e, c) - ep[Peer(e)].unacked[c]
Granted(e, c) ==
    SumOf(ep[Peer(e)].urgent, c, "WINDOW") + SumOf(wire[Peer(e)], c, "WINDOW")

Mapped(e, c, total) == IF Linked(e, c) THEN total ELSE 0

Flow(e, c) ==
    INSTANCE CreditFlow WITH
      MaxBytes   <- MaxFrames * MaxFrame,
      open       <- Linked(e, c),
      frameStart <- Mapped(e, c, Begun(e, c) -
                      IF hist[e].frames[c] = <<>> THEN 0 ELSE Last(hist[e].frames[c])),
      frameEnd   <- Mapped(e, c, Begun(e, c)),
      ends       <- IF Linked(e, c) THEN Ends_(e, c) ELSE {},
      acquired   <- Mapped(e, c, Acquired(e, c)),
      pushed     <- Mapped(e, c, Pushed(e, c)),
      received   <- Mapped(e, c, Received(e, c)),
      decoded    <- Mapped(e, c, Received(e, c) - Len(ep[Peer(e)].asm[c])),
      returned   <- Mapped(e, c, Returned(e, c)),
      credited   <- Mapped(e, c, Returned(e, c) - Granted(e, c))

\* Every step of the multiplexer is a step of the flow control it promises on
\* each channel and in each direction, or does not touch it.
ImplementsFlow ==
    /\ \A e \in End, c \in Ch : Flow(e, c)!Init
    /\ [][\A e \in End, c \in Ch : [Flow(e, c)!Next]_(Flow(e, c)!vars)]_vars

\* The semaphore of a live channel holds exactly the window less what is on
\* its way: no step loses credit or makes it up.
CreditBalances ==
    \A e \in End, c \in Ch : Linked(e, c) => ep[e].credit[c] = Flow(e, c)!credit

\* Both ends' books agree at every step: the receiver buffers no more than a
\* window, and the semaphore holds what the totals say (mux.rs:294-325,
\* 1082-1098).
BooksAgree == TypeOK /\ BufferWithinWindow /\ CreditBalances
=============================================================================
