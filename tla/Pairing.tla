------------------------------ MODULE Pairing ------------------------------
(***************************************************************************)
(* One pairing window: the loop of run_pairing and run_pairing_iroh, the   *)
(* connection it serves (serve_connection over a Router that begins in the *)
(* pairing state), the device table, and the phones that try to register.  *)
(*                                                                         *)
(* Connections are served one at a time; a phone is on one at a time, and  *)
(* may come back after it was dropped.                                     *)
(***************************************************************************)
EXTENDS Devices, Integers, FiniteSets

CONSTANT Tries  \* bound: connections of each phone

ASSUME TriesAssumption == Tries \in Nat

VARIABLES
    db,           \* the device table
    loop,         \* run_pairing: "top", "accept", "serving", or how it ended
    late,         \* the deadline has passed
    conn,         \* where each phone's connection is
    tries,
    up,           \* phones whose link is up
    established,  \* connections whose Router is PairingState::Established
    registered,   \* serve_connection's local: this connection registered
    answered,     \* phones with an Ok to sys.register on its way
    \* What happened, for the properties:
    told,         \* phones that received that Ok
    recorded,     \* devices this window wrote to the table
    executed      \* phones that had a request other than sys.register executed

vars == <<db, loop, late, conn, tries, up, established, registered, answered,
          told, recorded, executed>>
history == <<told, recorded, executed>>

Ended == {"paired", "expired", "killed"}

Init ==
    /\ db \in [Phones -> {Unpaired} \union [status : {"active", "revoked"}, caps : {DefaultGrant}]]
    /\ loop = "top" /\ late = FALSE
    /\ conn = [p \in Phones |-> "away"] /\ tries = [p \in Phones |-> 0]
    /\ up = {} /\ established = {} /\ registered = {} /\ answered = {}
    /\ told = {} /\ recorded = {} /\ executed = {}
-----------------------------------------------------------------------------
\* Phones and links.

\* The handshake under the QR's key; it needs no row in the table.
Dial(p) ==
    /\ loop \notin Ended /\ conn[p] = "away" /\ tries[p] < Tries
    /\ conn' = [conn EXCEPT ![p] = "queued"]
    /\ tries' = [tries EXCEPT ![p] = @ + 1]
    /\ up' = up \union {p}
    /\ UNCHANGED <<db, loop, late, established, registered, answered, history>>

LinkDown(p) ==
    /\ p \in up
    /\ up' = up \ {p}
    /\ answered' = answered \ {p}
    /\ UNCHANGED <<db, loop, late, conn, tries, established, registered, history>>

\* The phone takes the answer and keeps the pairing.
Receive(p) ==
    /\ p \in answered
    /\ answered' = answered \ {p}
    /\ told' = told \union {p}
    /\ UNCHANGED <<db, loop, late, conn, tries, up, established, registered, recorded, executed>>
-----------------------------------------------------------------------------
\* The loop.

Deadline ==
    /\ ~late /\ late' = TRUE
    /\ UNCHANGED <<db, loop, conn, tries, up, established, registered, answered, history>>

\* The function returns and the endpoint goes with it.
Return(result) ==
    /\ loop' = result
    /\ up' = {} /\ answered' = {}
    /\ UNCHANGED <<db, late, conn, tries, established, registered, history>>

Top ==
    /\ loop = "top"
    /\ IF late THEN Return("expired")
       ELSE /\ loop' = "accept"
            /\ UNCHANGED <<db, late, conn, tries, up, established, registered, answered, history>>

Expire == loop = "accept" /\ late /\ Return("expired")

\* A connection that is ready wins over the timeout.
Accept(p) ==
    /\ loop = "accept" /\ conn[p] = "queued"
    /\ loop' = "serving"
    /\ conn' = [conn EXCEPT ![p] = "recv"]
    /\ established' = established \ {p} /\ registered' = registered \ {p}
    /\ UNCHANGED <<db, late, tries, up, answered, history>>

\* serve_connection returned an error: logged, and the loop goes on.
Fails(p) ==
    /\ loop' = "top"
    /\ conn' = [conn EXCEPT ![p] = "away"]
    /\ up' = up \ {p} /\ answered' = answered \ {p}
    /\ UNCHANGED <<db, late, tries, established, registered, history>>

\* Ctrl-C, or the process dies: only the table is left.
Killed == loop \notin Ended /\ Return("killed")
-----------------------------------------------------------------------------
\* serve_connection.

\* sys.register with the right digits moves the router on before anything is
\* written; outside PairingState::Pairing it is Unsupported.
Register(p) ==
    /\ conn[p] = "recv" /\ p \in up
    /\ IF p \in established
       THEN conn' = [conn EXCEPT ![p] = "refuse"] /\ UNCHANGED established
       ELSE conn' = [conn EXCEPT ![p] = "persist"] /\ established' = established \union {p}
    /\ UNCHANGED <<db, loop, late, tries, up, registered, answered, history>>

\* Digits that do not match: the router stays where it is.
WrongCode(p) ==
    /\ conn[p] = "recv" /\ p \in up
    /\ conn' = [conn EXCEPT ![p] = "refuse"]
    /\ UNCHANGED <<db, loop, late, tries, up, established, registered, answered, history>>

\* A mutant without the gate on the pairing state.
Request_Ungated(p) ==
    /\ conn[p] = "recv" /\ p \in up
    /\ conn' = [conn EXCEPT ![p] = "refuse"]
    /\ executed' = executed \union {p}
    /\ UNCHANGED <<db, loop, late, tries, up, established, registered, answered, told, recorded>>

\* Any other method: refused while pairing.
Request(p) ==
    /\ conn[p] = "recv" /\ p \in up
    /\ conn' = [conn EXCEPT ![p] = "refuse"]
    /\ executed' = IF p \in established THEN executed \union {p} ELSE executed
    /\ UNCHANGED <<db, loop, late, tries, up, established, registered, answered, told, recorded>>

\* A mutant that logs a failure to persist and replies all the same.
Persist_Lenient(p) ==
    /\ conn[p] = "persist"
    /\ \/ db' = Pair(db, p)
       \/ UNCHANGED db
    /\ conn' = [conn EXCEPT ![p] = "reply"]
    /\ registered' = registered \union {p} /\ recorded' = recorded \union {p}
    /\ UNCHANGED <<loop, late, tries, up, established, answered, told, executed>>

\* on_register, before the reply: AlreadyPaired or a database error ends the
\* connection.
Persist(p) ==
    /\ conn[p] = "persist"
    /\ \/ /\ Pairable(db, p)
          /\ db' = Pair(db, p)
          /\ conn' = [conn EXCEPT ![p] = "reply"]
          /\ registered' = registered \union {p} /\ recorded' = recorded \union {p}
          /\ UNCHANGED <<loop, late, tries, up, established, answered, told, executed>>
       \/ Fails(p)

\* The answer to a registration is queued, or the link is found to be gone.
Reply(p) ==
    /\ conn[p] = "reply"
    /\ \/ /\ p \in up
          /\ conn' = [conn EXCEPT ![p] = "recv"]
          /\ answered' = answered \union {p}
          /\ UNCHANGED <<db, loop, late, tries, up, established, registered, history>>
       \/ p \notin up /\ Fails(p)

\* Any other answer.
Refuse(p) ==
    /\ conn[p] = "refuse"
    /\ \/ /\ p \in up
          /\ conn' = [conn EXCEPT ![p] = "recv"]
          /\ UNCHANGED <<db, loop, late, tries, up, established, registered, answered, history>>
       \/ p \notin up /\ Fails(p)

\* The control stream failed, or carried something malformed.
StreamFails(p) == conn[p] = "recv" /\ Fails(p)

\* The stream ended: the window closes if this connection registered.
StreamEnds(p) ==
    /\ conn[p] = "recv"
    /\ IF p \in registered THEN Return("paired") ELSE Fails(p)
-----------------------------------------------------------------------------
\* `gonomad pair` may run beside another process that revokes.
RevokeDevice(p) ==
    /\ db' = Revoke(db, p) /\ db' # db
    /\ UNCHANGED <<loop, late, conn, tries, up, established, registered, answered, history>>

\* serve_connection is polled only while run_pairing is.
Serving(p) ==
    /\ loop = "serving"
    /\ \/ Register(p) \/ WrongCode(p) \/ Request(p) \/ Persist(p) \/ Reply(p)
       \/ Refuse(p) \/ StreamFails(p) \/ StreamEnds(p)

Next ==
    \/ \E p \in Phones : \/ Dial(p) \/ LinkDown(p) \/ Receive(p) \/ Accept(p)
                         \/ Serving(p) \/ RevokeDevice(p)
    \/ Deadline \/ Top \/ Expire \/ Killed

\* The daemon's own steps are taken; what a phone sends, and when it leaves, is
\* the phone's affair, except that a lost link ends what is served on it.
Fairness ==
    /\ WF_vars(Deadline) /\ WF_vars(Top) /\ WF_vars(Expire)
    /\ \A p \in Phones :
          /\ WF_vars(Serving(p) /\ (Persist(p) \/ Reply(p) \/ Refuse(p)))
          /\ WF_vars(loop = "serving" /\ p \notin up /\ (StreamFails(p) \/ StreamEnds(p)))

Spec == Init /\ [][Next]_vars
LiveSpec == Spec /\ Fairness
-----------------------------------------------------------------------------
\* The table, the places of the loop and of each connection
\* (serve.rs:250-310).
TypeOK ==
    /\ db \in [Phones -> Row]
    /\ loop \in {"top", "accept", "serving"} \union Ended /\ late \in BOOLEAN
    /\ conn \in [Phones -> {"away", "queued", "recv", "persist", "reply", "refuse"}]
    /\ tries \in [Phones -> 0 .. Tries]
    /\ up \subseteq Phones /\ established \subseteq Phones /\ registered \subseteq Phones
    /\ answered \subseteq Phones /\ told \subseteq Phones
    /\ recorded \subseteq Phones /\ executed \subseteq Phones

Known(p) == db[p].status # "unknown"

\* A phone is never told it is paired when the daemon failed to record it,
\* whatever fails or dies in between (serve.rs:637-638).
ToldIsRecorded == \A p \in told : Known(p)

\* Nothing but sys.register is executed in a window for a phone that is not in
\* the table, although the router opens up before the row is written
\* (router.rs:168-175, 236-239).
ExecutedIsRecorded == \A p \in executed : Known(p)

\* No window brings a revoked device back (devices.rs:74-76).
RevocationIsFinal ==
    [][\A p \in Phones : db[p].status = "revoked" => db'[p].status = "revoked"]_vars

\* A window registers one device (router.rs:85-86, main.rs:204).
SingleUse == Cardinality(recorded) <= 1

\* A window that is over at its deadline ends (serve.rs:171-172).
WindowExpires == late ~> (loop \in Ended)
=============================================================================
