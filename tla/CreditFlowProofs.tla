-------------------------- MODULE CreditFlowProofs --------------------------
(***************************************************************************)
(* Proofs about CreditFlow for every window, frame size and segment size   *)
(* the configuration allows.                                               *)
(***************************************************************************)
EXTENDS CreditFlow, TLAPS

\* The totals are ordered the way the bytes travel, and the sender has never
\* taken more than a window beyond what came back.
Ordered ==
    /\ credited <= returned /\ returned <= decoded /\ decoded <= received
    /\ received <= pushed /\ pushed <= acquired /\ acquired <= frameEnd
    /\ acquired - credited <= Window

\* Where frames begin and end: the frame being sent is the last one, fits the
\* window, and the receiver has decoded every frame that arrived whole.
Framed ==
    /\ frameStart <= acquired
    /\ frameEnd - frameStart <= MaxFrame
    /\ frameStart \in ends \union {0} /\ frameEnd \in ends \union {0}
    /\ \A e \in ends : e <= frameStart \/ e = frameEnd
    /\ \A e \in ends : e <= received => e <= decoded

IInv == TypeOK /\ Ordered /\ Framed

-----------------------------------------------------------------------------
\* Nothing has been sent, and every total is zero.
LEMMA InitIInv == Init => IInv
<1> SUFFICES ASSUME Init PROVE IInv
  OBVIOUS
<1>1. open \in BOOLEAN
  BY DEF Init
<1>2. TypeOK
  BY <1>1 DEF Init, Fresh, TypeOK
<1>3. Ordered /\ Framed
  BY WindowAssumption DEF Init, Fresh, Ordered, Framed
<1> QED BY <1>2, <1>3 DEF IInv

\* What one chunk is: never more than the frame still needs.
LEMMA ChunkBound ==
  ASSUME TypeOK, acquired < frameEnd
  PROVE  chunk \in Nat \ {0} /\ acquired + chunk <= frameEnd
  BY SegmentAssumption DEF TypeOK, chunk

\* A new frame begins where the last one ended, beyond everything received.
LEMMA BeginFrameStep ==
  ASSUME IInv, NEW len \in 1 .. MaxFrame, BeginFrame(len)
  PROVE  IInv'
<1> USE WindowAssumption DEF IInv, BeginFrame
<1>1. TypeOK'
  BY DEF TypeOK
<1>2. Ordered'
  BY DEF TypeOK, Ordered
<1>3. frameStart' <= acquired' /\ frameEnd' - frameStart' <= MaxFrame
  BY DEF TypeOK, Ordered
<1>4. frameStart' \in ends' \union {0} /\ frameEnd' \in ends' \union {0}
  BY DEF Framed
<1>5. \A e \in ends' : e <= frameStart' \/ e = frameEnd'
  BY DEF TypeOK, Ordered, Framed
<1>6. \A e \in ends' : e <= received' => e <= decoded'
  BY DEF TypeOK, Ordered, Framed
<1> QED BY <1>1, <1>2, <1>3, <1>4, <1>5, <1>6 DEF Framed

\* Credit is spent within the window and within the frame.
LEMMA AcquireStep ==
  ASSUME IInv, Acquire
  PROVE  IInv'
<1>1. chunk \in Nat \ {0} /\ acquired + chunk <= frameEnd
  BY ChunkBound DEF IInv, Acquire
<1>2. acquired' = acquired + chunk /\ chunk <= Window - (acquired - credited)
  BY DEF Acquire, credit
<1>3. UNCHANGED <<open, ends, frameStart, frameEnd, pushed, received, decoded, returned, credited>>
  BY DEF Acquire
<1>4. TypeOK'
  BY <1>1, <1>2, <1>3 DEF IInv, TypeOK
<1>5. Ordered'
  BY <1>1, <1>2, <1>3, WindowAssumption DEF IInv, TypeOK, Ordered
<1>6. Framed'
  BY <1>1, <1>2, <1>3 DEF IInv, TypeOK, Ordered, Framed
<1> QED BY <1>4, <1>5, <1>6 DEF IInv

\* push_data queues what was acquired, no more.
LEMMA PushStep ==
  ASSUME IInv, Push
  PROVE  IInv'
<1> USE DEF IInv, Push
<1>1. TypeOK'
  BY DEF TypeOK
<1>2. Ordered'
  BY DEF TypeOK, Ordered
<1>3. Framed'
  BY DEF Framed
<1> QED BY <1>1, <1>2, <1>3

\* The boundary the reassembler reaches is a frame end within what arrived,
\* and no earlier than the one it had reached.
LEMMA ReceiveStep ==
  ASSUME IInv, NEW n \in 1 .. (pushed - received), NEW refund \in Int, Receive(n, refund)
  PROVE  IInv'
<1>1. /\ received' = received + n /\ received' <= pushed /\ received' \in Nat
  BY DEF IInv, TypeOK, Receive
<1>2. UNCHANGED <<open, ends, frameStart, frameEnd, acquired, pushed, credited>>
  BY DEF Receive
<1>3. decoded' \in Nat /\ decoded' <= received'
  BY <1>1 DEF IInv, TypeOK, Receive
<1>4. \A e \in ends : e <= received' => e <= decoded'
  BY DEF Receive
<1>5. returned <= returned' /\ returned' <= decoded' /\ returned' \in Nat
  <2>1. returned \in Nat /\ decoded \in Nat /\ returned <= decoded
    BY DEF IInv, TypeOK, Ordered
  <2>2. PICK d \in Nat : d = decoded'
    BY <1>3
  <2>3. refund \in 0 .. (d - decoded) /\ returned' = returned + refund
    BY <2>2 DEF Receive
  <2>4. returned + refund \in Nat /\ returned <= returned + refund /\ returned + refund <= d
    BY <2>1, <2>3
  <2> QED BY <2>2, <2>3, <2>4
<1>6. TypeOK'
  BY <1>1, <1>2, <1>3, <1>5 DEF IInv, TypeOK
<1>7. Ordered'
  <2>1. credited' <= returned' /\ received' <= pushed' /\ pushed' <= acquired'
    BY <1>1, <1>2, <1>5 DEF IInv, TypeOK, Ordered
  <2>2. acquired' <= frameEnd' /\ acquired' - credited' <= Window
    BY <1>2 DEF IInv, Ordered
  <2> QED BY <2>1, <2>2, <1>3, <1>5 DEF Ordered
<1>8. Framed'
  BY <1>2, <1>4 DEF IInv, Framed
<1> QED BY <1>6, <1>7, <1>8 DEF IInv

\* return_credit gives back only what was decoded.
LEMMA ReturnStep ==
  ASSUME IInv, NEW n \in 1 .. (decoded - returned), Return(n)
  PROVE  IInv'
<1> USE DEF IInv, Return
<1>1. TypeOK'
  BY DEF TypeOK
<1>2. Ordered'
  BY DEF TypeOK, Ordered
<1>3. Framed'
  BY DEF Framed
<1> QED BY <1>1, <1>2, <1>3

\* peer_window adds only what was given back.
LEMMA CreditStep ==
  ASSUME IInv, NEW n \in 1 .. (returned - credited), Credit(n)
  PROVE  IInv'
<1> USE DEF IInv, Credit
<1>1. TypeOK'
  BY DEF TypeOK
<1>2. Ordered'
  BY WindowAssumption DEF TypeOK, Ordered
<1>3. Framed'
  BY DEF Framed
<1> QED BY <1>1, <1>2, <1>3

LEMMA CloseStep ==
  ASSUME IInv, Close
  PROVE  IInv'
<1>1. open' \in BOOLEAN
  BY DEF Close
<1>2. TypeOK'
  BY <1>1 DEF Close, TypeOK
<1>3. Ordered' /\ Framed'
  BY WindowAssumption DEF Close, Ordered, Framed
<1> QED BY <1>2, <1>3 DEF IInv

\* Every step, or a stutter, preserves the inductive invariant.
LEMMA StepIInv == IInv /\ [Next]_vars => IInv'
<1> SUFFICES ASSUME IInv, [Next]_vars PROVE IInv'
  OBVIOUS
<1>1. CASE Open
  BY <1>1 DEF Open, totals, IInv, TypeOK, Ordered, Framed
<1>2. ASSUME NEW len \in 1 .. MaxFrame, BeginFrame(len) PROVE IInv'
  BY <1>2, BeginFrameStep
<1>3. CASE Acquire
  BY <1>3, AcquireStep
<1>4. CASE Push
  BY <1>4, PushStep
<1>5. ASSUME NEW n \in 1 .. (pushed - received), NEW refund \in 0 .. MaxBytes,
             Receive(n, refund)
      PROVE  IInv'
  BY <1>5, ReceiveStep
<1>6. ASSUME NEW n \in 1 .. (decoded - returned), Return(n) PROVE IInv'
  BY <1>6, ReturnStep
<1>7. ASSUME NEW n \in 1 .. (returned - credited), Credit(n) PROVE IInv'
  BY <1>7, CreditStep
<1>8. CASE Close
  BY <1>8, CloseStep
<1>9. CASE UNCHANGED vars
  BY <1>9 DEF vars, totals, IInv, TypeOK, Ordered, Framed
<1> QED BY <1>1, <1>2, <1>3, <1>4, <1>5, <1>6, <1>7, <1>8, <1>9 DEF Next

\* The induction.
LEMMA Invariance == Spec => []IInv
  BY InitIInv, StepIInv, PTL DEF Spec

-----------------------------------------------------------------------------
\* The totals keep their types: no total is ever negative, so no counter of
\* mux.rs that is a difference of two of them saturates (saturating_sub).
THEOREM TypeCorrect == Spec => []TypeOK
  BY Invariance, PTL DEF IInv

\* For every window, the bytes a receiver holds un-credited never exceed it:
\* an honest sender is never dropped for FlowControlExceeded.
THEOREM WindowHolds == Spec => []NeverExceeded
<1>1. IInv => NeverExceeded
  BY WindowAssumption DEF IInv, TypeOK, Ordered, NeverExceeded, unacked
<1> QED BY <1>1, Invariance, PTL

\* For every window, credit with all updates in flight stays within it: an
\* honest receiver is never dropped for FlowControlInflated.
THEOREM CreditHolds == Spec => []NeverInflated
<1>1. IInv => NeverInflated
  BY WindowAssumption DEF IInv, TypeOK, Ordered, NeverInflated, credit
<1> QED BY <1>1, Invariance, PTL

\* The guard of MuxConfig::validate is enough: with nothing left in flight a
\* parked sender always has the credit for the rest of its frame.
THEOREM ValidatedConfigNeverDeadlocks == Spec => []NoCreditDeadlock
<1>1. IInv => NoCreditDeadlock
  <2> SUFFICES ASSUME IInv, Drained PROVE frameEnd - acquired <= credit
    BY DEF NoCreditDeadlock
  <2>1. frameStart <= decoded
    BY DEF IInv, TypeOK, Ordered, Framed, Drained
  <2>2. credited = decoded
    BY DEF Drained
  <2> QED
    BY <2>1, <2>2, WindowAssumption
    DEF IInv, TypeOK, Ordered, Framed, credit
<1> QED BY <1>1, Invariance, PTL

\* All of it together: for every window, frame size and segmentation, the two
\* counters of a channel never run out of step with what the peer holds
\* (mux.rs:294-325, 1082-1083).
THEOREM CreditStaysSound == Spec => []CreditSound
  BY TypeCorrect, WindowHolds, CreditHolds, ValidatedConfigNeverDeadlocks, PTL
  DEF CreditSound
=============================================================================
