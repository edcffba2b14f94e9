----------------------------- MODULE MuxWriter -----------------------------
(***************************************************************************)
(* How the writer task of one mux endpoint sleeps and is woken: write_loop *)
(* against the threads that queue segments and the one that shuts down.    *)
(*                                                                         *)
(* Mux.tla takes a writer that sees queued work for granted.  Here the     *)
(* queue is only a count, and the steps are those between which a wakeup   *)
(* can be lost: a producer releases the lock before it calls notify_one,   *)
(* shutdown calls notify_waiters, which leaves no permit behind, and the   *)
(* writer inspects the queue some time before it waits.                    *)
(***************************************************************************)
EXTENDS Integers

CONSTANTS
    Producers,  \* threads and tasks that queue segments
    Segments,   \* bound: segments each of them queues
    Batch       \* WRITE_BATCH_SEGMENTS

ASSUME WriterAssumption == {Segments, Batch} \subseteq Nat \ {0}

VARIABLES
    queued,   \* segments in urgent and out
    closed,   \* Inner::closed
    left,     \* segments each producer still has to queue
    calling,  \* producers between releasing the lock and notify_one
    closing,  \* shutdown is between releasing the lock and notify_waiters
    permit,   \* Notify: a stored notification
    future,   \* the writer's Notified: "none", "waiting" or "notified"
    batch,    \* segments encoded since the loop began
    pc        \* where write_loop is

writerVars == <<queued, closed, left, calling, closing, permit, future, batch, pc>>
writer == <<batch, pc>>
notify == <<permit, future>>

WriterInit ==
    /\ queued = 0 /\ closed = FALSE
    /\ left = [p \in Producers |-> Segments]
    /\ calling = {} /\ closing = FALSE
    /\ permit = FALSE /\ future = "none"
    /\ batch = 0 /\ pc = "arm"
-----------------------------------------------------------------------------
\* A mutant that queues without notifying.
Enqueue_Silent(p) ==
    /\ p \notin calling /\ left[p] > 0
    /\ left' = [left EXCEPT ![p] = @ - 1]
    /\ queued' = IF closed THEN queued ELSE queued + 1
    /\ UNCHANGED <<closed, calling, closing, notify, writer>>

\* push_data, return_credit, close_channel or open_local under the lock; once
\* closed they return early and notify nobody.
Enqueue(p) ==
    /\ p \notin calling /\ left[p] > 0
    /\ left' = [left EXCEPT ![p] = @ - 1]
    /\ IF closed THEN UNCHANGED <<queued, calling>>
       ELSE queued' = queued + 1 /\ calling' = calling \union {p}
    /\ UNCHANGED <<closed, closing, notify, writer>>

\* Notify::notify_one wakes the waiter or stores a permit.
NotifyOne(p) ==
    /\ p \in calling
    /\ calling' = calling \ {p}
    /\ IF future = "waiting" THEN future' = "notified" /\ UNCHANGED permit
       ELSE permit' = TRUE /\ UNCHANGED future
    /\ UNCHANGED <<queued, closed, left, closing, writer>>

\* A mutant that wakes nobody.
ShutdownBegins_Silent ==
    /\ ~closed
    /\ closed' = TRUE /\ queued' = 0
    /\ UNCHANGED <<left, calling, closing, notify, writer>>

\* shutdown: closed and cleared under the lock ...
ShutdownBegins ==
    /\ ~closed
    /\ closed' = TRUE /\ queued' = 0 /\ closing' = TRUE
    /\ UNCHANGED <<left, calling, notify, writer>>

\* ... then Notify::notify_waiters, for those already waiting only.
NotifyWaiters ==
    /\ closing
    /\ closing' = FALSE
    /\ future' = IF future = "waiting" THEN "notified" ELSE future
    /\ UNCHANGED <<queued, closed, left, calling, permit, writer>>
-----------------------------------------------------------------------------
\* A mutant without enable(): the future is not registered until awaited.
Arm_NotEnabled ==
    /\ pc = "arm"
    /\ future' = "none"
    /\ batch' = 0 /\ pc' = "drain"
    /\ UNCHANGED <<queued, closed, left, calling, closing, permit>>

\* notified() and enable(): registered, or a stored permit is used up.
Arm ==
    /\ pc = "arm"
    /\ IF permit THEN permit' = FALSE /\ future' = "notified"
       ELSE future' = "waiting" /\ UNCHANGED permit
    /\ batch' = 0 /\ pc' = "drain"
    /\ UNCHANGED <<queued, closed, left, calling, closing>>

\* A mutant whose batch holds one segment too many.
Take_OneMore ==
    /\ pc = "drain"
    /\ IF queued > 0 /\ batch <= Batch
       THEN queued' = queued - 1 /\ batch' = batch + 1 /\ UNCHANGED pc
       ELSE /\ pc' = IF batch = 0 THEN "check" ELSE "write"
            /\ UNCHANGED <<queued, batch>>
    /\ UNCHANGED <<closed, left, calling, closing, notify>>

\* take_next, up to Batch times.
Take ==
    /\ pc = "drain"
    /\ IF queued > 0 /\ batch < Batch
       THEN queued' = queued - 1 /\ batch' = batch + 1 /\ UNCHANGED pc
       ELSE /\ pc' = IF batch = 0 THEN "check" ELSE "write"
            /\ UNCHANGED <<queued, batch>>
    /\ UNCHANGED <<closed, left, calling, closing, notify>>

CheckClosed ==
    /\ pc = "check"
    /\ pc' = IF closed THEN "done" ELSE "wait"
    /\ UNCHANGED <<queued, closed, left, calling, closing, notify, batch>>

\* notified.await: a future that was never enabled registers now.
Await ==
    /\ pc = "wait"
    /\ \/ /\ future = "notified"
          /\ future' = "none" /\ pc' = "arm" /\ UNCHANGED permit
       \/ /\ future = "none"
          /\ IF permit THEN permit' = FALSE /\ future' = "none" /\ pc' = "arm"
             ELSE future' = "waiting" /\ UNCHANGED <<permit, pc>>
    /\ UNCHANGED <<queued, closed, left, calling, closing, batch>>

\* write_all and flush.  The loop drops its future: a notification it was
\* given while waiting is passed on, one it took from the permit is not, and
\* the model forgets which it was, so it allows both.
Write ==
    /\ pc = "write"
    /\ pc' = "arm" /\ future' = "none"
    /\ \/ UNCHANGED permit
       \/ future = "notified" /\ permit' = TRUE
    /\ UNCHANGED <<queued, closed, left, calling, closing, batch>>

WriterNext ==
    \/ \E p \in Producers : Enqueue(p) \/ NotifyOne(p)
    \/ ShutdownBegins \/ NotifyWaiters
    \/ Arm \/ Take \/ CheckClosed \/ Await \/ Write

\* The writer is polled once it is woken, and a call in progress returns.
WriterFairness ==
    /\ WF_writerVars(Arm) /\ WF_writerVars(Take) /\ WF_writerVars(CheckClosed)
    /\ WF_writerVars(Await) /\ WF_writerVars(Write)
    /\ WF_writerVars(NotifyWaiters)
    /\ \A p \in Producers : WF_writerVars(NotifyOne(p))

WriterSpec == WriterInit /\ [][WriterNext]_writerVars /\ WriterFairness
-----------------------------------------------------------------------------
\* The count, the flags and the places of write_loop (mux.rs:901-941); no
\* batch exceeds WRITE_BATCH_SEGMENTS.
WriterTypeOK ==
    /\ queued \in Nat /\ closed \in BOOLEAN /\ closing \in BOOLEAN
    /\ left \in [Producers -> 0 .. Segments] /\ calling \subseteq Producers
    /\ permit \in BOOLEAN /\ future \in {"none", "waiting", "notified"}
    /\ batch \in 0 .. Batch
    /\ pc \in {"arm", "drain", "check", "wait", "write", "done"}

\* A writer that sleeps with nobody about to wake it has nothing to do: the
\* comment on the armed future promises no lost wakeup.
NoLostWakeup ==
    (pc = "wait" /\ future = "waiting" /\ calling = {} /\ ~closing) =>
        queued = 0 /\ ~closed
=============================================================================
