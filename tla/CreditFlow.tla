----------------------------- MODULE CreditFlow -----------------------------
(***************************************************************************)
(* One direction of one multiplexed channel, seen only through the bytes   *)
(* that its flow control counts: what gonomad-transport's mux promises to  *)
(* a sender and to the receiver whose memory the sender may pin.           *)
(*                                                                         *)
(* Every variable but the flags is a running total of bytes.  The sender   *)
(* spends credit (acquired), queues what it paid for (pushed); the peer's  *)
(* reader receives it (received), reassembles whole frames (decoded) and   *)
(* hands their credit back (returned), which reaches the sender's          *)
(* semaphore later (credited).  Queues, wire and segments are the          *)
(* differences between two totals; Mux.tla has them in full and implements *)
(* this specification.                                                     *)
(***************************************************************************)
EXTENDS Integers

CONSTANTS
    Window,    \* MuxConfig::initial_window, in bytes
    MaxFrame,  \* the largest encoded frame: max_frame_len + HEADER_LEN
    MaxSeg,    \* MAX_SEGMENT_BODY, the most one DATA segment carries
    MaxBytes   \* bound for model checking: the length of the byte stream

\* MuxConfig::validate: a window holds one whole frame.
ASSUME WindowAssumption ==
    /\ MaxFrame \in Nat \ {0}
    /\ Window \in Nat
    /\ MaxFrame <= Window

ASSUME SegmentAssumption == MaxSeg \in Nat \ {0}

ASSUME BoundAssumption == MaxBytes \in Nat

VARIABLES
    open,        \* both ends hold the channel
    frameStart,  \* where the frame being sent (or last sent) begins
    frameEnd,    \* where it ends
    ends,        \* where every frame begun so far ends
    acquired,    \* bytes the sender took credit for
    pushed,      \* bytes the sender queued
    received,    \* bytes the peer's reader was given
    decoded,     \* bytes of the frames reassembled from them
    returned,    \* bytes whose credit the receiver gave back
    credited     \* bytes whose credit reached the sender again

totals == <<frameStart, frameEnd, acquired, pushed, received, decoded,
            returned, credited>>
vars == <<open, ends, totals>>

\* Semaphore::available_permits of the sender's ChannelState::credit.
credit == Window - (acquired - credited)

\* ChannelState::unacked at the receiver.
unacked == received - returned

Fresh ==
    /\ frameStart = 0 /\ frameEnd = 0 /\ ends = {}
    /\ acquired = 0 /\ pushed = 0 /\ received = 0
    /\ decoded = 0 /\ returned = 0 /\ credited = 0

Init == open = FALSE /\ Fresh

Open ==
    /\ ~open
    /\ open' = TRUE
    /\ UNCHANGED <<ends, totals>>

\* MuxSend::send is called with a frame the configuration allows.
BeginFrame(len) ==
    /\ open
    /\ pushed = frameEnd
    /\ len \in 1 .. MaxFrame
    /\ frameStart' = frameEnd
    /\ frameEnd' = frameEnd + len
    /\ ends' = ends \union {frameEnd'}
    /\ UNCHANGED <<open, acquired, pushed, received, decoded, returned, credited>>

\* The next chunk of the frame.
chunk == IF frameEnd - acquired < MaxSeg THEN frameEnd - acquired ELSE MaxSeg

\* A mutant of send that does not wait for credit.
Acquire_NoWait ==
    /\ open
    /\ acquired = pushed
    /\ acquired < frameEnd
    /\ acquired' = acquired + chunk
    /\ UNCHANGED <<open, ends, frameStart, frameEnd, pushed, received, decoded, returned, credited>>

Acquire ==
    /\ open
    /\ acquired = pushed
    /\ acquired < frameEnd
    /\ chunk <= credit
    /\ acquired' = acquired + chunk
    /\ UNCHANGED <<open, ends, frameStart, frameEnd, pushed, received, decoded, returned, credited>>

Push ==
    /\ open
    /\ pushed < acquired
    /\ pushed' = acquired
    /\ UNCHANGED <<open, ends, frameStart, frameEnd, acquired, received, decoded, returned, credited>>

\* A mutant of peer_data that decodes a frame only once a later byte arrived.
Receive_OneShort(n, refund) ==
    /\ open
    /\ n \in 1 .. (pushed - received)
    /\ received' = received + n
    /\ \E d \in {e \in ends : e < received'} \union {0} :
         /\ \A e \in ends : e < received' => e <= d
         /\ decoded' = d
    /\ refund \in 0 .. (decoded' - decoded)
    /\ returned' = returned + refund
    /\ UNCHANGED <<open, ends, frameStart, frameEnd, acquired, pushed, credited>>

\* Bytes arrive; every frame they complete is decoded.  The credit of a
\* frame nobody will read goes straight back (the refund of peer_data).
Receive(n, refund) ==
    /\ open
    /\ n \in 1 .. (pushed - received)
    /\ received' = received + n
    /\ \E d \in {e \in ends : e <= received'} \union {0} :
         /\ \A e \in ends : e <= received' => e <= d
         /\ decoded' = d
    /\ refund \in 0 .. (decoded' - decoded)
    /\ returned' = returned + refund
    /\ UNCHANGED <<open, ends, frameStart, frameEnd, acquired, pushed, credited>>

\* Mutants of return_credit: credit counted twice, and with the wrong sign.
Return_Twice(n) ==
    /\ open
    /\ n \in 1 .. (decoded - returned)
    /\ returned' = returned + 2 * n
    /\ UNCHANGED <<open, ends, frameStart, frameEnd, acquired, pushed, received, decoded, credited>>
Return_Negated(n) ==
    /\ open
    /\ n \in 1 .. (decoded - returned)
    /\ returned' = returned - n
    /\ UNCHANGED <<open, ends, frameStart, frameEnd, acquired, pushed, received, decoded, credited>>

\* The application consumes; return_credit.
Return(n) ==
    /\ open
    /\ n \in 1 .. (decoded - returned)
    /\ returned' = returned + n
    /\ UNCHANGED <<open, ends, frameStart, frameEnd, acquired, pushed, received, decoded, credited>>

\* A mutant of peer_window that loses a byte of every update.
Credit_Lossy(n) ==
    /\ open
    /\ n \in 1 .. (returned - credited)
    /\ credited' = credited + n - 1
    /\ UNCHANGED <<open, ends, frameStart, frameEnd, acquired, pushed, received, decoded, returned>>

\* A WINDOW update arrives; peer_window.
Credit(n) ==
    /\ open
    /\ n \in 1 .. (returned - credited)
    /\ credited' = credited + n
    /\ UNCHANGED <<open, ends, frameStart, frameEnd, acquired, pushed, received, decoded, returned>>

\* Either end tears the channel down, or the connection ends.
Close ==
    /\ open
    /\ open' = FALSE
    /\ frameStart' = 0 /\ frameEnd' = 0 /\ ends' = {}
    /\ acquired' = 0 /\ pushed' = 0 /\ received' = 0
    /\ decoded' = 0 /\ returned' = 0 /\ credited' = 0

Next ==
    \/ Open
    \/ \E len \in 1 .. MaxFrame : frameEnd + len <= MaxBytes /\ BeginFrame(len)
    \/ Acquire
    \/ Push
    \/ \E n \in 1 .. (pushed - received) :
         \E refund \in 0 .. MaxBytes : Receive(n, refund)
    \/ \E n \in 1 .. (decoded - returned) : Return(n)
    \/ \E n \in 1 .. (returned - credited) : Credit(n)
    \/ Close

Spec == Init /\ [][Next]_vars

\* The sending task, the two reader and writer tasks, and an application
\* that keeps calling recv.
Fairness ==
    /\ WF_vars(Acquire)
    /\ WF_vars(Push)
    /\ WF_vars(\E n \in 1 .. (pushed - received) :
                 \E refund \in 0 .. MaxBytes : Receive(n, refund))
    /\ WF_vars(\E n \in 1 .. (decoded - returned) : Return(n))
    /\ WF_vars(\E n \in 1 .. (returned - credited) : Credit(n))

LiveSpec == Spec /\ Fairness
-----------------------------------------------------------------------------
\* The totals, all bounded by what was ever sent, and the flag
\* (ChannelState, mux.rs:294-325).
TypeOK ==
    /\ open \in BOOLEAN
    /\ frameStart \in Nat /\ frameEnd \in Nat /\ ends \subseteq Nat
    /\ acquired \in Nat /\ pushed \in Nat /\ received \in Nat
    /\ decoded \in Nat /\ returned \in Nat /\ credited \in Nat

\* The receiver never holds more than one window of bytes it has not
\* credited back: peer_data's FlowControlExceeded cannot be raised against a
\* sender that runs this code, whatever is queued, on the wire or unread.
NeverExceeded == unacked <= Window

\* Credit never goes negative or beyond a window, even with every update
\* still in flight applied: peer_window's FlowControlInflated cannot be raised.
NeverInflated == /\ 0 <= credit
                 /\ credit + (returned - credited) <= Window

\* Nothing is in flight in either direction and every whole frame was
\* consumed: no step but the sender's own can change the channel any more.
Drained ==
    /\ pushed = acquired /\ received = pushed
    /\ returned = decoded /\ credited = returned

\* The deadlock MuxConfig::validate makes "unrepresentable": a channel with
\* nothing left in flight always has the credit its sender is parked for.
NoCreditDeadlock == (open /\ Drained) => frameEnd - acquired <= credit

\* What the two counters of a channel keep at every moment, whatever is queued,
\* in flight or unread on either machine (mux.rs:294-325, 1082-1083).
CreditSound == TypeOK /\ NeverExceeded /\ NeverInflated /\ NoCreditDeadlock

\* A frame once begun is eventually wholly queued, or the channel is gone.
FrameEventuallySent == (pushed < frameEnd) ~> (pushed = frameEnd)
=============================================================================
