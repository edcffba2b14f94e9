-------------------------------- MODULE Mux --------------------------------
(***************************************************************************)
(* The credit-based multiplexer of gonomad-transport (mux.rs): two         *)
(* endpoints that run the same code over one ordered byte stream, the      *)
(* tasks that read and write it, and the applications that hold the        *)
(* halves of each channel.                                                 *)
(*                                                                         *)
(* A byte is a record naming the frame it belongs to, so that what is      *)
(* reassembled can be compared with what was sent; a DATA segment carries  *)
(* a sequence of them.  Encryption and record framing are an ordered       *)
(* channel of whole segments, wire[e], which also holds the batch of the   *)
(* writer task.  Every critical section of Shared::inner is one step, and  *)
(* what a task does between two of them can be interleaved with the rest.  *)
(***************************************************************************)
EXTENDS Integers, FiniteSets, Sequences, SequencesExt

CONSTANTS
    Window,         \* MuxConfig::initial_window
    MaxFrame,       \* max_frame_len + HEADER_LEN
    MaxSeg,         \* MAX_SEGMENT_BODY
    MaxChannels,    \* MuxConfig::max_channels
    RetiredMemory,  \* RETIRED_MEMORY
    FrameLens,      \* the encoded frame lengths an application sends
    MaxOpen,        \* bound: channel ids each end may use up
    MaxFrames,      \* bound: frames one application sends on one channel
    Openers,        \* the ends whose application opens channels
    Senders,        \* the ends whose application sends frames
    Moves           \* what else may happen; a subset of AllMoves

AllMoves == {"finish", "dropsend", "droprecv", "close", "cut", "dropmux"}

ASSUME MuxAssumption ==
    /\ {Window, MaxFrame, MaxSeg, MaxChannels, RetiredMemory, MaxOpen, MaxFrames}
         \subseteq Nat \ {0}
    /\ MaxFrame <= Window                      \* MuxConfig::validate
    /\ FrameLens \subseteq 1 .. MaxFrame       \* FrameTooLarge is refused
    /\ Openers \subseteq {"I", "R"} /\ Senders \subseteq {"I", "R"}
    /\ Moves \subseteq AllMoves

End == {"I", "R"}                              \* Role
Peer(e) == IF e = "I" THEN "R" ELSE "I"
FirstChannel(e) == IF e = "I" THEN 0 ELSE 1
Ch == {FirstChannel(e) + 2 * i : e \in End, i \in 0 .. MaxOpen - 1}
Control == 0

VARIABLES
    ep,     \* one record per end: Shared, its Inner, and the handles
    wire,   \* segments written by an end and not yet read by its peer
    fin,    \* how that byte stream ends: "up", "eof", "cut"
    alive,  \* the Mux itself has not been dropped
    hist    \* history: what each application sent, got and was told

vars == <<ep, wire, fin, alive, hist>>

\* Byte i of the n-th frame of a channel, which is len bytes long.
Bytes(n, len) == [i \in 1 .. len |-> [frame |-> n, at |-> i, of |-> len]]

OpenSeg(c) == [kind |-> "OPEN", ch |-> c, body |-> <<>>, n |-> 0]
DataSeg(c, body) == [kind |-> "DATA", ch |-> c, body |-> body, n |-> Len(body)]
WindowSeg(c, n) == [kind |-> "WINDOW", ch |-> c, body |-> <<>>, n |-> n]
ResetSeg(c) == [kind |-> "RESET", ch |-> c, body |-> <<>>, n |-> 0]

Each(v) == [c \in Ch |-> v]

\* The sum of a sequence of numbers: how many units its elements have together.
Units(f) == UNION {{i} \X (1 .. f[i]) : i \in DOMAIN f}
Amount(f) == Cardinality(Units(f))
Total(frames) == Amount([i \in DOMAIN frames |-> Len(frames[i])])

Init ==
    /\ ep = [e \in End |->
              [reason |-> "none", nextLocal |-> FirstChannel(e),
               chans |-> {}, retired |-> <<>>, acceptQ |-> <<>>,
               urgent |-> <<>>, out |-> Each(<<>>), cursor |-> 0,
               credit |-> Each(0), asm |-> Each(<<>>), unacked |-> Each(0),
               rx |-> Each(<<>>), send |-> {}, recv |-> {},
               todo |-> Each(<<>>), held |-> Each(<<>>), taken |-> Each(0)]]
    /\ wire = [e \in End |-> <<>>]
    /\ fin = [e \in End |-> "up"]
    /\ alive = [e \in End |-> TRUE]
    /\ hist = [e \in End |->
                [frames |-> Each(<<>>), got |-> Each(<<>>), ended |-> Each("no"),
                 givenUp |-> {}, closedHere |-> {}, torn |-> {}]]
-----------------------------------------------------------------------------
(* Operations on the state m of one endpoint, each under its lock.         *)

Closed(m) == m.reason # "none"

Retire(m, c) ==
    LET order == IF c \in Range(m.retired) THEN m.retired ELSE Append(m.retired, c)
    IN  [m EXCEPT !.retired = IF Len(order) > RetiredMemory THEN Tail(order) ELSE order]

InsertChannel(m, c) ==
    [m EXCEPT !.chans = @ \union {c}, !.credit[c] = Window, !.asm[c] = <<>>,
              !.unacked[c] = 0, !.rx[c] = <<>>,
              !.send = @ \union {c}, !.recv = @ \union {c}]

\* Mutants of close_channel: the RESET overtakes data; the id is forgotten.
CloseChannel_ResetUrgent(m, c) ==
    IF Closed(m) \/ c \notin m.chans THEN m
    ELSE Retire([m EXCEPT !.chans = @ \ {c}, !.urgent = Append(@, ResetSeg(c))], c)
CloseChannel_NotRetired(m, c) ==
    IF Closed(m) \/ c \notin m.chans THEN m
    ELSE [m EXCEPT !.chans = @ \ {c}, !.out[c] = Append(@, ResetSeg(c))]
CloseChannel(m, c) ==
    IF Closed(m) \/ c \notin m.chans THEN m
    ELSE Retire([m EXCEPT !.chans = @ \ {c}, !.out[c] = Append(@, ResetSeg(c))], c)

\* ... for each pair nobody accepted, when the accept queue is dropped.
CloseUnaccepted(m) ==
    LET after[i \in 0 .. Len(m.acceptQ)] ==
          IF i = 0 THEN m ELSE CloseChannel(after[i - 1], m.acceptQ[i])
    IN  after[Len(m.acceptQ)]

Shutdown(m, why) ==
    IF Closed(m) THEN m
    ELSE [m EXCEPT !.reason = why, !.urgent = <<>>, !.out = Each(<<>>), !.chans = {}]

\* Mutants of return_credit: the header is not credited; nothing is sent.
ReturnCredit_PayloadOnly(m, c, n) ==
    IF Closed(m) \/ c \notin m.chans THEN m
    ELSE [m EXCEPT !.unacked[c] = @ - n, !.urgent = Append(@, WindowSeg(c, n - 1))]
ReturnCredit_Silent(m, c, n) ==
    IF Closed(m) \/ c \notin m.chans THEN m ELSE [m EXCEPT !.unacked[c] = @ - n]
ReturnCredit(m, c, n) ==
    IF Closed(m) \/ c \notin m.chans THEN m
    ELSE [m EXCEPT !.unacked[c] = @ - n, !.urgent = Append(@, WindowSeg(c, n))]

PeerOpen(m, e, c) ==
    IF c % 2 # FirstChannel(Peer(e)) THEN Shutdown(m, "WrongChannelParity")
    ELSE IF Closed(m) \/ c \in Range(m.retired) THEN m
    ELSE IF c \in m.chans THEN Shutdown(m, "DuplicateChannel")
    ELSE IF Cardinality(m.chans) >= MaxChannels THEN Shutdown(m, "TooManyChannels")
    ELSE [InsertChannel(m, c) EXCEPT !.acceptQ = Append(@, c)]

\* Frame::decode until the assembler holds no whole frame.  The first byte of
\* a frame declares its length; from[i] is what can be decoded after i bytes.
WholeFrames(asm) ==
    LET from[i \in 0 .. Len(asm)] ==
          IF i = Len(asm) \/ i + asm[i + 1].of > Len(asm) THEN <<>>
          ELSE <<SubSeq(asm, i + 1, i + asm[i + 1].of)>> \o from[i + asm[i + 1].of]
    IN  from[0]

Reassemble(asm) ==
    LET frames == WholeFrames(asm)
        used == Total(frames)
    IN  [frames |-> frames, rest |-> SubSeq(asm, used + 1, Len(asm)), used |-> used]

\* A mutant of peer_data that credits on arrival instead of on consumption.
PeerData_CreditOnArrival(m, c, body) ==
    IF Closed(m) \/ c \in Range(m.retired) THEN m
    ELSE IF c \notin m.chans THEN Shutdown(m, "UnknownChannel")
    ELSE LET r == Reassemble(m.asm[c] \o body)
             stored == [m EXCEPT !.unacked[c] = @ + Len(body), !.asm[c] = r.rest,
                                 !.rx[c] = @ \o r.frames]
         IN  IF r.used > 0 THEN ReturnCredit(stored, c, r.used) ELSE stored

\* Frames whose receiver is gone are refunded instead of delivered.
PeerData(m, c, body) ==
    IF Closed(m) \/ c \in Range(m.retired) THEN m
    ELSE IF c \notin m.chans THEN Shutdown(m, "UnknownChannel")
    ELSE IF m.unacked[c] + Len(body) > Window THEN Shutdown(m, "FlowControlExceeded")
    ELSE LET r == Reassemble(m.asm[c] \o body)
             stored == [m EXCEPT !.unacked[c] = @ + Len(body), !.asm[c] = r.rest]
         IN  IF c \in m.recv THEN [stored EXCEPT !.rx[c] = @ \o r.frames]
             ELSE IF r.used > 0 THEN ReturnCredit(stored, c, r.used)
             ELSE stored

PeerWindow(m, c, n) ==
    IF Closed(m) \/ c \in Range(m.retired) \/ c \notin m.chans THEN m
    ELSE IF m.credit[c] + n > Window THEN Shutdown(m, "FlowControlInflated")
    ELSE [m EXCEPT !.credit[c] = @ + n]

\* A mutant of peer_reset that leaves the channel and its receiver in place.
PeerReset_KeepsChannel(m, c) ==
    IF Closed(m) THEN m ELSE Retire([m EXCEPT !.out[c] = <<>>], c)
PeerReset(m, c) ==
    IF Closed(m) THEN m
    ELSE Retire([m EXCEPT !.chans = @ \ {c}, !.out[c] = <<>>], c)

HandleSegment(m, e, s) ==
    IF s.kind = "OPEN" THEN PeerOpen(m, e, s.ch)
    ELSE IF s.kind = "DATA" THEN PeerData(m, s.ch, s.body)
    ELSE IF s.kind = "WINDOW" THEN PeerWindow(m, s.ch, s.n)
    ELSE PeerReset(m, s.ch)

\* take_next: updates first, then the control channel, then round robin.
Queued(m) == {c \in Ch : m.out[c] # <<>>}
MinOf(S) == CHOOSE x \in S : \A y \in S : x <= y
Pick(m) ==
    LET later == {c \in Queued(m) : c >= m.cursor}
    IN  IF Control \in Queued(m) THEN Control
        ELSE MinOf(IF later # {} THEN later ELSE Queued(m))
NothingToTake(m) == m.urgent = <<>> /\ Queued(m) = {}

\* A mutant of take_next that takes the newest segment of a queue.
TakeNext_Newest(m) ==
    IF m.urgent # <<>>
    THEN [seg |-> Head(m.urgent), m |-> [m EXCEPT !.urgent = Tail(@)]]
    ELSE LET c == Pick(m)
         IN  [seg |-> Last(m.out[c]),
              m |-> [m EXCEPT !.out[c] = Front(@),
                              !.cursor = IF c = Control THEN @ ELSE c + 1]]
\* The next segment to write, with the state it leaves.
TakeNext(m) ==
    IF m.urgent # <<>>
    THEN [seg |-> Head(m.urgent), m |-> [m EXCEPT !.urgent = Tail(@)]]
    ELSE LET c == Pick(m)
         IN  [seg |-> Head(m.out[c]),
              m |-> [m EXCEPT !.out[c] = Tail(@),
                              !.cursor = IF c = Control THEN @ ELSE c + 1]]
-----------------------------------------------------------------------------
(* The application of end e.                                               *)

\* The handles of a channel the peer opened are usable once accepted.
Usable(e, c) == c \notin Range(ep[e].acceptQ)

\* MuxSend::send is under way.
Sending(m, c) == m.todo[c] # <<>> \/ m.held[c] # <<>>

\* An end changes alone.
Becomes(e, m) ==
    /\ ep' = [ep EXCEPT ![e] = m]
    /\ UNCHANGED <<wire, fin, alive>>

\* ... and if a channel leaves it, history notes who closed it and whether a
\* frame was left half assembled.
Noting(e, m, h) ==
    [h EXCEPT !.torn = @ \union {c \in ep[e].chans \ m.chans : ep[e].asm[c] # <<>>}]

\* Mux::open_bi: the id is used up even when the channel is refused.
OpenBi(e) ==
    LET id == ep[e].nextLocal
        m == [ep[e] EXCEPT !.nextLocal = @ + 2]
        refused == \/ Closed(m) \/ Cardinality(m.chans) >= MaxChannels
                   \/ id \in m.chans \union Range(m.retired)
    IN  /\ alive[e] /\ e \in Openers
        /\ id \in Ch
        /\ Becomes(e, IF refused THEN m
                      ELSE [InsertChannel(m, id) EXCEPT !.out[id] = Append(@, OpenSeg(id))])
        /\ UNCHANGED hist

AcceptBi(e) ==
    /\ alive[e]
    /\ ep[e].acceptQ # <<>>
    /\ Becomes(e, [ep[e] EXCEPT !.acceptQ = Tail(@)])
    /\ UNCHANGED hist

BeginSend(e, c, len) ==
    /\ e \in Senders
    /\ c \in ep[e].send /\ Usable(e, c)
    /\ ~Sending(ep[e], c)
    /\ Len(hist[e].frames[c]) < MaxFrames
    /\ Becomes(e, [ep[e] EXCEPT !.todo[c] = Bytes(Len(hist[e].frames[c]) + 1, len)])
    /\ hist' = [hist EXCEPT ![e].frames[c] = Append(@, len)]

\* A mutant that does not wait for credit.
AcquireCredit_NoWait(e, c) ==
    LET m == ep[e]
        n == IF Len(m.todo[c]) < MaxSeg THEN Len(m.todo[c]) ELSE MaxSeg
    IN  /\ m.todo[c] # <<>> /\ m.held[c] = <<>>
        /\ c \in m.chans
        /\ Becomes(e, [m EXCEPT !.credit[c] = @ - n,
                                !.held[c] = SubSeq(m.todo[c], 1, n),
                                !.todo[c] = SubSeq(m.todo[c], n + 1, Len(m.todo[c]))])
        /\ UNCHANGED hist

\* Semaphore::acquire_many for the next chunk, once there is enough credit.
AcquireCredit(e, c) ==
    LET m == ep[e]
        n == IF Len(m.todo[c]) < MaxSeg THEN Len(m.todo[c]) ELSE MaxSeg
    IN  /\ m.todo[c] # <<>> /\ m.held[c] = <<>>
        /\ c \in m.chans
        /\ n <= m.credit[c]
        /\ Becomes(e, [m EXCEPT !.credit[c] = @ - n,
                                !.held[c] = SubSeq(m.todo[c], 1, n),
                                !.todo[c] = SubSeq(m.todo[c], n + 1, Len(m.todo[c]))])
        /\ UNCHANGED hist

PushData(e, c) ==
    LET m == ep[e]
    IN  /\ m.held[c] # <<>>
        /\ c \in m.chans
        /\ Becomes(e, [m EXCEPT !.out[c] = Append(@, DataSeg(c, m.held[c])), !.held[c] = <<>>])
        /\ UNCHANGED hist

\* A mutant whose semaphore only a connection shutdown closes.
SendFails_OnlyShutdown(e, c) ==
    /\ Sending(ep[e], c)
    /\ Closed(ep[e])
    /\ Becomes(e, [ep[e] EXCEPT !.todo[c] = <<>>, !.held[c] = <<>>])
    /\ UNCHANGED hist

\* The semaphore was closed, or push_data found the channel gone.
SendFails(e, c) ==
    /\ Sending(ep[e], c)
    /\ c \notin ep[e].chans
    /\ Becomes(e, [ep[e] EXCEPT !.todo[c] = <<>>, !.held[c] = <<>>])
    /\ UNCHANGED hist

RecvFrame(e, c) ==
    /\ c \in ep[e].recv /\ Usable(e, c)
    /\ ep[e].taken[c] = 0
    /\ ep[e].rx[c] # <<>>
    /\ Becomes(e, [ep[e] EXCEPT !.rx[c] = Tail(@), !.taken[c] = Len(Head(ep[e].rx[c]))])
    /\ hist' = [hist EXCEPT ![e].got[c] = Append(@, Head(ep[e].rx[c]))]

\* The rest of recv: return_credit takes the lock on its own.
RecvCredit(e, c) ==
    /\ ep[e].taken[c] > 0
    /\ Becomes(e, [ReturnCredit(ep[e], c, ep[e].taken[c]) EXCEPT !.taken[c] = 0])
    /\ UNCHANGED hist

\* recv finds the queue empty and its sender dropped.
RecvEnd(e, c) ==
    LET m == ep[e]
    IN  /\ c \in m.recv /\ Usable(e, c)
        /\ m.taken[c] = 0 /\ m.rx[c] = <<>>
        /\ c \notin m.chans
        /\ hist[e].ended[c] = "no"
        /\ hist' = [hist EXCEPT ![e].ended[c] =
                      IF m.reason = "none" THEN "reset"
                      ELSE IF m.reason = "clean" THEN "clean" ELSE "error"]
        /\ UNCHANGED <<ep, wire, fin, alive>>

\* The handles become those of m; the channel closes if that was the last, and
\* history notes whether a frame was given up half way.
Drops(e, m, c, last, givenUp) ==
    LET after == IF last THEN CloseChannel(m, c) ELSE m
        h == Noting(e, after, hist[e])
    IN  /\ Becomes(e, after)
        /\ hist' = [hist EXCEPT ![e] =
                      [h EXCEPT !.closedHere = @ \union (ep[e].chans \ after.chans),
                                !.givenUp = @ \union (IF givenUp THEN {c} ELSE {})]]

\* SendStream::finish consumes the send half and closes the channel at once.
Finish(e, c) ==
    /\ "finish" \in Moves
    /\ c \in ep[e].send /\ Usable(e, c)
    /\ ~Sending(ep[e], c)
    /\ Drops(e, [ep[e] EXCEPT !.send = @ \ {c}], c, TRUE, FALSE)

\* A half is dropped, with the send or recv future it may be parked in; the
\* ChannelGuard closes the channel when it was the last.
DropSend(e, c) ==
    LET m == [ep[e] EXCEPT !.send = @ \ {c}, !.todo[c] = <<>>]
    IN  /\ "dropsend" \in Moves
        /\ c \in ep[e].send /\ Usable(e, c)
        /\ ep[e].held[c] = <<>>
        /\ Drops(e, m, c, c \notin m.recv, Sending(ep[e], c))

DropRecv(e, c) ==
    LET m == [ep[e] EXCEPT !.recv = @ \ {c}, !.rx[c] = <<>>]
    IN  /\ "droprecv" \in Moves
        /\ c \in ep[e].recv /\ Usable(e, c)
        /\ ep[e].taken[c] = 0
        /\ Drops(e, m, c, c \notin m.send, FALSE)

\* A task of e ends, or its application closes the connection.
Ends(e, why) ==
    /\ Becomes(e, Shutdown(ep[e], why))
    /\ hist' = [hist EXCEPT ![e] = Noting(e, Shutdown(ep[e], why), @)]

CloseMux(e) ==
    /\ "close" \in Moves
    /\ alive[e] /\ ~Closed(ep[e])
    /\ Ends(e, "clean")

\* The Mux is dropped: TaskGuard aborts both tasks and the socket closes,
\* with some of the batch unsent.  Pairs nobody accepted are dropped.
DropMux(e) ==
    LET m == ep[e]
        gone == Range(m.acceptQ)
    IN  /\ "dropmux" \in Moves
        /\ alive[e]
        /\ alive' = [alive EXCEPT ![e] = FALSE]
        /\ ep' = [ep EXCEPT ![e] = [CloseUnaccepted(m) EXCEPT
                                      !.acceptQ = <<>>, !.send = @ \ gone, !.recv = @ \ gone]]
        /\ IF fin[e] = "up"
           THEN /\ \E n \in 0 .. Len(wire[e]) : wire' = [wire EXCEPT ![e] = SubSeq(@, 1, n)]
                /\ \E how \in {"eof", "cut"} : fin' = [fin EXCEPT ![e] = how]
           ELSE UNCHANGED <<wire, fin>>
        /\ UNCHANGED hist
-----------------------------------------------------------------------------
(* The tasks of end e, and the link.                                       *)

WriterTakes(e) ==
    LET t == TakeNext(ep[e])
    IN  /\ alive[e] /\ fin[e] = "up"
        /\ ~NothingToTake(ep[e])
        /\ ep' = [ep EXCEPT ![e] = t.m]
        /\ wire' = [wire EXCEPT ![e] = Append(@, t.seg)]
        /\ UNCHANGED <<fin, alive, hist>>

\* A mutant of write_loop that waits for work without looking at closed.
WriterExits_Never(e) == FALSE

\* write_loop returns once the connection is closed and its queues are empty.
WriterExits(e) ==
    /\ alive[e] /\ fin[e] = "up"
    /\ Closed(ep[e]) /\ NothingToTake(ep[e])
    /\ fin' = [fin EXCEPT ![e] = "eof"]
    /\ UNCHANGED <<ep, wire, alive, hist>>

WriterFails(e) ==
    /\ alive[e]
    /\ fin[e] = "cut" \/ (fin[e] = "up" /\ ~alive[Peer(e)])
    /\ ~NothingToTake(ep[e])
    /\ Ends(e, "ConnectionLost")

ReaderTakes(e) ==
    LET p == Peer(e)
        m == HandleSegment(ep[e], e, Head(wire[p]))
    IN  /\ alive[e]
        /\ wire[p] # <<>>
        /\ ep' = [ep EXCEPT ![e] = m]
        /\ wire' = [wire EXCEPT ![p] = Tail(@)]
        /\ hist' = [hist EXCEPT ![e] = Noting(e, m, @)]
        /\ UNCHANGED <<fin, alive>>

\* End of file with no partial record pending.
ReaderEof(e) ==
    /\ alive[e] /\ ~Closed(ep[e])
    /\ wire[Peer(e)] = <<>> /\ fin[Peer(e)] = "eof"
    /\ Ends(e, "clean")

\* A read error, or end of file inside a record.
ReaderFails(e) ==
    /\ alive[e] /\ ~Closed(ep[e])
    /\ fin[Peer(e)] = "cut"
    /\ Ends(e, "ConnectionLost")

\* The network fails: what was on its way may or may not arrive.
Cut ==
    /\ "cut" \in Moves
    /\ \E e \in End : fin[e] = "up"
    /\ fin' = [e \in End |-> "cut"]
    /\ UNCHANGED <<ep, wire, alive, hist>>

Next ==
    \/ \E e \in End :
         \/ OpenBi(e) \/ AcceptBi(e) \/ CloseMux(e) \/ DropMux(e)
         \/ WriterTakes(e) \/ WriterExits(e) \/ WriterFails(e)
         \/ ReaderTakes(e) \/ ReaderEof(e) \/ ReaderFails(e)
         \/ \E c \in Ch :
              \/ \E len \in FrameLens : BeginSend(e, c, len)
              \/ AcquireCredit(e, c) \/ PushData(e, c) \/ SendFails(e, c)
              \/ RecvFrame(e, c) \/ RecvCredit(e, c) \/ RecvEnd(e, c)
              \/ Finish(e, c) \/ DropSend(e, c) \/ DropRecv(e, c)
    \/ Cut

Spec == Init /\ [][Next]_vars

\* The runtime polls both tasks, and applications accept, send and receive.
\* Nothing makes an application open, finish, drop or close anything.
Fairness ==
    \A e \in End :
      /\ WF_vars(WriterTakes(e)) /\ WF_vars(WriterExits(e)) /\ WF_vars(WriterFails(e))
      /\ WF_vars(ReaderTakes(e)) /\ WF_vars(ReaderEof(e)) /\ WF_vars(ReaderFails(e))
      /\ WF_vars(AcceptBi(e))
      /\ \A c \in Ch :
           /\ WF_vars(AcquireCredit(e, c)) /\ WF_vars(PushData(e, c)) /\ WF_vars(SendFails(e, c))
           /\ WF_vars(RecvFrame(e, c)) /\ WF_vars(RecvCredit(e, c)) /\ WF_vars(RecvEnd(e, c))

LiveSpec == Spec /\ Fairness
-----------------------------------------------------------------------------
\* The fields of Inner (mux.rs:325-353) that properties rely on: no credit
\* beyond a window, no id outside those given out.
TypeOK ==
    /\ \A e \in End :
         /\ ep[e].chans \subseteq Ch /\ ep[e].send \subseteq Ch /\ ep[e].recv \subseteq Ch
         /\ Range(ep[e].retired) \subseteq Ch /\ Range(ep[e].acceptQ) \subseteq Ch
         /\ ep[e].credit \in [Ch -> 0 .. Window]
         /\ ep[e].unacked \in [Ch -> 0 .. Window]
         /\ ep[e].taken \in [Ch -> 0 .. MaxFrame]
    /\ fin \in [End -> {"up", "eof", "cut"}]
    /\ alive \in [End -> BOOLEAN]

\* Two ends that run this code never accuse each other of a violation: no
\* overtaking, teardown or credit in flight makes handle_segment fail.
NoViolation == \A e \in End : ep[e].reason \in {"none", "clean", "ConnectionLost"}

\* The frames an application sent, without one it gave up half way.
Sent(e, c) ==
    LET frames == hist[e].frames[c]
    IN  IF c \in hist[e].givenUp THEN Front(frames) ELSE frames

\* Frames arrive whole, in order, and only once, however they were chunked and
\* interleaved with other channels; one that was given up does not arrive.
FramesInOrder ==
    \A e \in End, c \in Ch : \A i \in 1 .. Len(hist[e].got[c]) :
      /\ i <= Len(Sent(Peer(e), c))
      /\ hist[e].got[c][i] = Bytes(i, Sent(Peer(e), c)[i])

\* "The peer sees every frame already queued before it sees the close": a
\* receiver told that the peer closed the channel was given every frame.
FinishDelivers ==
    \A e \in End, c \in Ch :
      (hist[e].ended[c] = "reset" /\ c \notin hist[e].closedHere) =>
        Len(hist[e].got[c]) = Len(Sent(Peer(e), c))

\* The memory one channel can pin: frames nobody read yet and the partial
\* frame never exceed a window, even after the channel was torn down.
BufferWithinWindow ==
    \A e \in End, c \in Ch : Len(ep[e].asm[c]) + Total(ep[e].rx[c]) <= Window

\* Every frame whose sending began is received, or one of the ends let go of
\* the channel: credit, queues and the writer's priorities starve nobody.
LetGo(e, c) == \/ Closed(ep[e]) \/ ~alive[e]
               \/ c \in Range(ep[e].retired) \/ c \notin ep[e].send
FramesArrive ==
    \A e \in End, c \in Ch, n \in 1 .. MaxFrames :
      (Len(hist[e].frames[c]) >= n) ~>
        \/ Len(hist[Peer(e)].got[c]) >= n
        \/ LetGo(e, c) \/ LetGo(Peer(e), c)

\* A sender parked for credit does not stay parked.
SendersReleased == \A e \in End, c \in Ch : Sending(ep[e], c) ~> ~Sending(ep[e], c)

\* A receiver learns that the channel or the connection ended.
ReceiversReleased ==
    \A e \in End, c \in Ch :
      (c \in hist[Peer(e)].closedHere \/ Closed(ep[Peer(e)])) /\ c \in ep[e].recv
        ~> hist[e].ended[c] # "no" \/ c \notin ep[e].recv

\* Nobody waits in send or recv for what can no longer come
\* (mux.rs:632-643, 688-690).
WaitersReleased == SendersReleased /\ ReceiversReleased

\* A closed connection closes at the other end too.
CloseReachesPeer ==
    \A e \in End : Closed(ep[e]) ~> Closed(ep[Peer(e)]) \/ ~alive[Peer(e)]

\* recv says Ok(None), a finished transfer, only if no frame was cut short.
CleanEndIsWhole ==
    \A e \in End, c \in Ch : hist[e].ended[c] = "clean" => c \notin hist[e].torn
=============================================================================
