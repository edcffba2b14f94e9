------------------------------- MODULE Serve -------------------------------
(***************************************************************************)
(* The daemon serving paired devices: the acceptor and its handshakes,     *)
(* which ask the device table whether to go on, the queue they fill, the   *)
(* loop that empties it, one task per connection, the registry of live     *)
(* connections and the sweep that closes those of revoked devices, while   *)
(* other processes (`gonomad pair`, whatever revokes) edit the table.      *)
(*                                                                         *)
(* serve_iroh and serve, its TCP counterpart, differ in what the model     *)
(* calls the binding: the TCP one asks a snapshot taken at startup, has    *)
(* neither registry nor sweep, and lets a fixed number of handshakes run   *)
(* at once.                                                                *)
(***************************************************************************)
EXTENDS Devices, Naturals, Sequences, FiniteSets

CONSTANTS
    Conns,     \* bound: the connections that are ever dialled
    Bindings,  \* the bindings the daemon may be started on
    Slots,     \* max_pending_handshakes, of the TCP binding
    Queue      \* accept_queue

ASSUME ServeAssumption ==
    /\ Bindings \subseteq {"iroh", "tcp"}
    /\ Slots \in Nat \ {0} /\ Queue \in Nat \ {0}
    /\ IsFiniteSet(Conns)

VARIABLES
    binding,   \* what this daemon was started on
    db,        \* the device table, in SQLite
    snapshot,  \* serve: the keys its Allowlist was built from
    pc,        \* where each connection is in the daemon
    owner,     \* the authenticated key of a connection
    queue,     \* connections that finished their handshake, for the loop
    grant,     \* the grant its Router holds
    open,      \* connections whose link is up
    live,      \* LiveConnections
    sweep,     \* sweep_revoked: "asleep" or "listed"
    active,    \* sweep_once: the list it read
    \* What happened, for the properties:
    outdated,  \* connections dialled before their device's row last changed
    due        \* served connections of devices revoked when the sweep listed

started == <<binding, snapshot, owner>>     \* fixed when the daemon starts
sweeper == <<sweep, active, due>>
vars == <<started, db, pc, queue, grant, open, live, sweeper, outdated>>

Places == {"free", "dialled", "greeting", "greeted", "queued",
           "accepted", "granted", "serving", "ended"}

\* A table that pairing, revoking and editing can have left.
Init ==
    /\ db \in [Phones -> {Unpaired} \union [status : {"active", "revoked"}, caps : {DefaultGrant}]]
    /\ Active(db) # {} /\ binding \in Bindings
    /\ snapshot = Active(db)
    /\ pc = [c \in Conns |-> "free"]
    /\ owner \in [Conns -> Phones]
    /\ grant = [c \in Conns |-> {}] /\ queue = <<>>
    /\ open = {} /\ live = {}
    /\ sweep = "asleep" /\ active = {}
    /\ outdated = {} /\ due = {}
-----------------------------------------------------------------------------
\* The acceptor and the handshakes.

Dial(c) ==
    /\ pc[c] = "free"
    /\ pc' = [pc EXCEPT ![c] = "dialled"]
    /\ open' = open \union {c}
    /\ UNCHANGED <<started, db, queue, grant, live, sweeper, outdated>>

\* The handshakes that hold a slot, until their connection is in the queue.
Pending == {c \in Conns : pc[c] \in {"greeting", "greeted"}}

\* A mutant that lets one more in.
HasSlot_Late == binding = "tcp" => Cardinality(Pending) <= Slots

HasSlot == binding = "tcp" => Cardinality(Pending) < Slots

\* accept_loop: the next connection, when there is a slot for it.
StartHandshake(c) ==
    /\ pc[c] = "dialled" /\ HasSlot
    /\ pc' = [pc EXCEPT ![c] = "greeting"]
    /\ UNCHANGED <<started, db, queue, grant, open, live, sweeper, outdated>>

\* A mutant that keeps the list read at startup.
Authorized_Snapshot(p) == p \in snapshot

\* LiveAllowlist reads the table anew; Allowlist is what serve was started on.
Authorized(p) == IF binding = "iroh" THEN p \in Active(db) ELSE p \in snapshot

\* respond: a refused peer hears nothing; an accepted one has its answer.
Greet(c) ==
    /\ pc[c] = "greeting"
    /\ IF Authorized(owner[c]) /\ c \in open
       THEN pc' = [pc EXCEPT ![c] = "greeted"] /\ UNCHANGED open
       ELSE pc' = [pc EXCEPT ![c] = "ended"] /\ open' = open \ {c}
    /\ UNCHANGED <<started, db, queue, grant, live, sweeper, outdated>>

\* A mutant that waits for a silent peer until it goes.
HandshakeTimesOut_IfGone(c) ==
    /\ pc[c] = "greeting" /\ c \notin open
    /\ pc' = [pc EXCEPT ![c] = "ended"]
    /\ UNCHANGED <<started, db, queue, grant, open, live, sweeper, outdated>>

\* The peer says nothing within handshake_timeout.
HandshakeTimesOut(c) ==
    /\ pc[c] = "greeting"
    /\ pc' = [pc EXCEPT ![c] = "ended"]
    /\ open' = open \ {c}
    /\ UNCHANGED <<started, db, queue, grant, live, sweeper, outdated>>

\* tx.send waits for room, outside the timeout.
Enqueue(c) ==
    /\ pc[c] = "greeted" /\ Len(queue) < Queue
    /\ pc' = [pc EXCEPT ![c] = "queued"]
    /\ queue' = Append(queue, c)
    /\ UNCHANGED <<started, db, grant, open, live, sweeper, outdated>>
-----------------------------------------------------------------------------
\* The loop: one connection at a time between accept and spawn.

\* A mutant that takes the connection and leaves it in the queue.
Accept_Leaves(c) ==
    /\ queue # <<>> /\ c = Head(queue)
    /\ \A d \in Conns : pc[d] \notin {"accepted", "granted"}
    /\ pc' = [pc EXCEPT ![c] = "accepted"]
    /\ UNCHANGED <<started, db, queue, grant, open, live, sweeper, outdated>>

Accept(c) ==
    /\ queue # <<>> /\ c = Head(queue)
    /\ \A d \in Conns : pc[d] \notin {"accepted", "granted"}
    /\ pc' = [pc EXCEPT ![c] = "accepted"]
    /\ queue' = Tail(queue)
    /\ UNCHANGED <<started, db, grant, open, live, sweeper, outdated>>

\* A mutant that gives every device the capabilities it was paired with.
ReadGrant_AsPaired(c) ==
    /\ pc[c] = "accepted"
    /\ pc' = [pc EXCEPT ![c] = "granted"]
    /\ grant' = [grant EXCEPT ![c] = DefaultGrant]
    /\ UNCHANGED <<started, db, queue, open, live, sweeper, outdated>>

ReadGrant(c) ==
    /\ pc[c] = "accepted"
    /\ pc' = [pc EXCEPT ![c] = "granted"]
    /\ grant' = [grant EXCEPT ![c] = Grants(db, owner[c])]
    /\ UNCHANGED <<started, db, queue, open, live, sweeper, outdated>>

\* A mutant that spawns the task first and registers the connection later.
Register_AfterSpawn(c) ==
    /\ \/ pc[c] = "granted" /\ UNCHANGED live
       \/ pc[c] = "serving" /\ live' = live \union {c}
    /\ pc' = [pc EXCEPT ![c] = "serving"]
    /\ UNCHANGED <<started, db, queue, grant, open, sweeper, outdated>>

\* A mutant that registers the device instead of its connection.
Register_ByDevice(c) ==
    /\ pc[c] = "granted"
    /\ pc' = [pc EXCEPT ![c] = "serving"]
    /\ live' = live \union {owner[c]}
    /\ UNCHANGED <<started, db, queue, grant, open, sweeper, outdated>>

\* The registry first, then the task.
Register(c) ==
    /\ pc[c] = "granted"
    /\ pc' = [pc EXCEPT ![c] = "serving"]
    /\ live' = IF binding = "iroh" THEN live \union {c} ELSE live
    /\ UNCHANGED <<started, db, queue, grant, open, sweeper, outdated>>

\* serve_connection returned: the stream ended, failed or was malformed, or
\* the link is down.  The task takes its entry out and drops the connection.
TaskEnds(c) ==
    /\ pc[c] = "serving"
    /\ pc' = [pc EXCEPT ![c] = "ended"]
    /\ open' = open \ {c}
    /\ live' = live \ {c}
    /\ UNCHANGED <<started, db, queue, grant, sweeper, outdated>>

\* The phone closes, or the link is lost.
PeerCloses(c) ==
    /\ c \in open
    /\ open' = open \ {c}
    /\ UNCHANGED <<started, db, pc, queue, grant, live, sweeper, outdated>>
-----------------------------------------------------------------------------
\* The sweep.  The table is read under its lock, which is released before the
\* registry's is taken.

SweepLists ==
    /\ binding = "iroh" /\ sweep = "asleep"
    /\ sweep' = "listed"
    /\ active' = Active(db)
    /\ due' = {c \in open : pc[c] = "serving" /\ owner[c] \notin Active(db)}
    /\ UNCHANGED <<started, db, pc, queue, grant, open, live, outdated>>

\* A mutant that forgets the connections of revoked devices instead of closing.
SweepCloses_Forgets ==
    /\ sweep = "listed"
    /\ sweep' = "asleep"
    /\ live' = {c \in live \intersect open : owner[c] \in active}
    /\ active' = {} /\ due' = {}
    /\ UNCHANGED <<started, db, pc, queue, grant, open, outdated>>

SweepCloses ==
    /\ sweep = "listed"
    /\ sweep' = "asleep"
    /\ live' = {c \in live \intersect open : owner[c] \in active}
    /\ open' = open \ {c \in live : owner[c] \notin active}
    /\ active' = {} /\ due' = {}
    /\ UNCHANGED <<started, db, pc, queue, grant, outdated>>
-----------------------------------------------------------------------------
\* Other processes, each in one transaction on the table.

Edit(p) ==
    /\ outdated' = outdated \union {c \in Conns : owner[c] = p /\ pc[c] # "free"}
    /\ UNCHANGED <<started, pc, queue, grant, open, live, sweeper>>

PairDevice(p) == db' = Pair(db, p) /\ db' # db /\ Edit(p)
RevokeDevice(p) == db' = Revoke(db, p) /\ db' # db /\ Edit(p)
EditGrant(p, caps) == db' = SetGrants(db, p, caps) /\ db' # db /\ Edit(p)

Next ==
    \/ \E c \in Conns : \/ Dial(c) \/ StartHandshake(c) \/ Greet(c) \/ HandshakeTimesOut(c)
                        \/ Enqueue(c) \/ Accept(c) \/ ReadGrant(c) \/ Register(c)
                        \/ TaskEnds(c) \/ PeerCloses(c)
    \/ SweepLists \/ SweepCloses
    \/ \E p \in Phones : \/ PairDevice(p) \/ RevokeDevice(p)
                         \/ \E caps \in SUBSET Capabilities : EditGrant(p, caps)

Spec == Init /\ [][Next]_vars

\* The sweep's timer fires and its task is polled; so are the acceptor, the
\* handshakes' timers and tasks, and the loop.  No task of a connection has to
\* end, and no peer has to speak.
Fairness ==
    /\ WF_vars(SweepLists \/ SweepCloses)
    /\ WF_vars(\E c \in Conns : \/ StartHandshake(c) \/ HandshakeTimesOut(c) \/ Enqueue(c)
                                \/ Accept(c) \/ ReadGrant(c) \/ Register(c))

LiveSpec == Spec /\ Fairness
-----------------------------------------------------------------------------
\* The table, the places of each connection, the registry and the sweep's
\* copies (serve.rs:119-160, 317-412).
TypeOK ==
    /\ db \in [Phones -> Row] /\ snapshot \subseteq Phones /\ binding \in Bindings
    /\ pc \in [Conns -> Places] /\ owner \in [Conns -> Phones] /\ queue \in Seq(Conns)
    /\ grant \in [Conns -> SUBSET Capabilities]
    /\ open \subseteq Conns /\ live \subseteq Conns
    /\ sweep \in {"asleep", "listed"} /\ active \subseteq Phones
    /\ outdated \subseteq Conns /\ due \subseteq Conns

\* A device that was revoked when it dialled is not served.  The TCP daemon
\* breaks it: it asks a list as old as itself (serve.rs:535).
StaysOut == \A c \in Conns \ outdated : pc[c] = "serving" => owner[c] \in Active(db)

\* The iroh daemon keeps revoked devices out: authorisation is asked of the
\* table as it is, not as it was when the daemon started (serve.rs:29-32).
RevokedNeverServed == binding = "iroh" => StaysOut

\* A connection dialled after the last change of its device's row is served
\* with that row's capabilities (serve.rs:371-372).
GrantIsCurrent ==
    \A c \in Conns \ outdated : pc[c] = "serving" => grant[c] = Grants(db, owner[c])

\* A grant edited on the machine holds from the next request on.  The daemon
\* breaks it: a connection keeps the grant it was accepted with (serve.rs:375).
GrantNeverStale == \A c \in Conns : pc[c] = "serving" => grant[c] = Grants(db, owner[c])

\* Whatever is served while its device is revoked when a pass of the sweep
\* lists the active ones is closed when that pass ends: no connection is served
\* and invisible to the sweep (serve.rs:386-387).
PassReachesAll == [][sweep = "listed" /\ sweep' = "asleep" => due \intersect open' = {}]_vars

\* The sweep closes nobody whose device is active (serve.rs:101).
SweepSparesActive ==
    [][sweep = "listed" /\ sweep' = "asleep" =>
           \A c \in open \ open' : owner[c] \notin Active(db)]_vars

\* A revoked device is not served for ever on a connection it already had
\* (serve.rs:103-106).
RevocationReaches ==
    \A c \in Conns :
        (binding = "iroh" /\ pc[c] = "serving" /\ owner[c] \notin Active(db))
            ~> (c \notin open)

\* The TCP acceptor has no more handshakes under way than max_pending_handshakes,
\* those waiting for room in the queue included, and the queue is bounded
\* (tcp.rs:546-566).
HandshakesBounded ==
    /\ binding = "tcp" => Cardinality(Pending) <= Slots
    /\ Len(queue) <= Queue

\* The queue holds the connections that wait in it, each once, however
\* handshakes, timeouts and the loop interleave: none is lost between the two
\* tasks and none is served twice (tcp.rs:563-566, iroh.rs:657-661).
QueuedOnce ==
    /\ \A i \in DOMAIN queue : pc[queue[i]] = "queued"
    /\ \A c \in Conns : pc[c] = "queued" => \E i \in DOMAIN queue : queue[i] = c
    /\ \A i, j \in DOMAIN queue : queue[i] = queue[j] => i = j

\* The acceptor and the loop keep their books: no slot, queue place or grant is
\* lost, shared or out of step with the table (serve.rs:356-377, tcp.rs:541-566).
AcceptorSound == TypeOK /\ HandshakesBounded /\ QueuedOnce /\ GrantIsCurrent

\* A silent peer stalls nobody else: whoever dials is served or turned away,
\* whether or not the connections before it ever speak or end
\* (tcp.rs:403-406, iroh.rs:623-625).
NobodyStalls ==
    \A c \in Conns : (pc[c] = "dialled") ~> (pc[c] \in {"serving", "ended"})
=============================================================================
