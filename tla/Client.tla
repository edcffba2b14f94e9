------------------------------- MODULE Client -------------------------------
(***************************************************************************)
(* The phone's GonomadClient: one Inner whose mutexes are taken one at a   *)
(* time by calls that run side by side (connect, disconnect, the pairing   *)
(* calls, unpair, requests), the files of Storage, and an app that may be  *)
(* killed and started again.                                               *)
(*                                                                         *)
(* Every lock of Inner and every file operation is a step, so that a save  *)
(* of the record is three: the temporary file is opened, which truncates   *)
(* it, written, and renamed.  What a call read before a step is kept in    *)
(* its frame.  A PairedDaemon is the machine    *)
(* and the device key it was registered under, and Option<PairedDaemon> a  *)
(* set of at most one; the machines are the keys they have registered, and *)
(* answer the hello of a key they know.                                    *)
(***************************************************************************)
EXTENDS Integers, Sequences, TLC

CONSTANTS
    Calls,     \* calls that may be under way at once
    Machines,  \* the daemons whose QR codes may be scanned
    MaxConns,  \* bound: connections that are ever established
    MaxKeys    \* bound: device keys; a start without one generates the next

ASSUME ClientAssumption == MaxConns \in Nat /\ MaxKeys \in Nat \ {0}

None == 0        \* no connection
Torn == {<<>>}   \* the content of a file that is not a whole record

VARIABLES
    key,       \* Inner::identity
    daemon,    \* Inner::daemon
    live,      \* Inner::live
    pairing,   \* Inner::pairing
    phase,     \* Inner::status
    call,      \* the frame of each call
    seedFile, daemonFile,   \* Storage
    temp,      \* the temporary file of save_daemon, one for all calls; {} if there is none
    up,        \* connections whose link is up
    peers,     \* the machine of each connection established so far
    keys,      \* keys generated so far
    registered,  \* the machines' device tables: which has registered which key
    \* What happened, for the properties:
    lost,      \* connections on which a call returned ConnectionLost
    clear,     \* calls of confirm_pairing that no unpair has overlapped
    told,      \* such a call succeeded, and unpair was not called since
    cut        \* a write failed under another save, and no save replaced it since

disk == <<seedFile, daemonFile, temp>>
memory == <<key, daemon, live, pairing, phase>>
world == <<up, peers, keys, registered>>
history == <<lost, clear, told, cut>>
vars == <<memory, call, disk, world, history>>

\* file is where what this call writes arrives: nowhere, in the temporary file, in
\* the record, which another call renamed it to, or in a file that is "gone".
Idle == [pc |-> "idle", conn |-> None, rec |-> {}, file |-> "none"]
Goto(t, pc) == call' = [call EXCEPT ![t].pc = pc]
Return(t) == call' = [call EXCEPT ![t] = Idle]

Unpairing == {"unpair_tear", "unpair_torn", "forget", "unpaired", "wipe_daemon", "wipe_seed"}
UnderWay(pcs) == \E t \in Calls : call[t].pc \in pcs

Idling(record) == IF record = {} THEN "unpaired" ELSE "disconnected"

IsOption(record) == \A r1, r2 \in record : r1 = r2

\* First start, or a pairing from an earlier one.
Init ==
    /\ key = 1 /\ keys = 1 /\ seedFile = 1
    /\ registered \in SUBSET (Machines \X {1})
    /\ \E record \in SUBSET registered : IsOption(record) /\ daemonFile = record
    /\ daemon = daemonFile /\ phase = Idling(daemonFile)
    /\ live = None /\ pairing = None
    /\ call = [t \in Calls |-> Idle]
    /\ up = {} /\ peers = <<>>
    /\ temp = {} /\ lost = {} /\ clear = {} /\ told = (daemonFile # {}) /\ cut = FALSE

Establishes(c, m) ==
    /\ Len(peers) < MaxConns
    /\ peers' = Append(peers, m)
    /\ c = Len(peers') /\ up' = up \union {c}
-----------------------------------------------------------------------------
\* tear_down, on behalf of a request, connect, disconnect or unpair.

Tearing == {"tear", "connect_tear", "unpair_tear"}

TearDown(t) ==
    /\ call[t].pc \in Tearing
    /\ live' = None
    /\ Goto(t, CASE call[t].pc = "tear" -> "torn"
                 [] call[t].pc = "connect_tear" -> "connect_torn"
                 [] call[t].pc = "unpair_tear" -> "unpair_torn")
    /\ UNCHANGED <<key, daemon, pairing, phase, disk, world, history>>

ShowTornDown(t) ==
    /\ \/ /\ call[t].pc = "torn" /\ Return(t)
          /\ lost' = lost \union ({call[t].conn} \ {None})
       \/ call[t].pc = "connect_torn" /\ Goto(t, "announce") /\ UNCHANGED lost
       \/ call[t].pc = "unpair_torn" /\ Goto(t, "forget") /\ UNCHANGED lost
    /\ phase' = IF phase \in {"connected", "connecting"} THEN "disconnected" ELSE phase
    /\ UNCHANGED <<key, daemon, live, pairing, disk, world, clear, told, cut>>

Disconnect(t) ==
    /\ call[t].pc = "idle"
    /\ Goto(t, "tear")
    /\ UNCHANGED <<memory, disk, world, history>>
-----------------------------------------------------------------------------
\* connect.

Connect(t) ==
    /\ call[t].pc = "idle"
    /\ call' = [call EXCEPT ![t] = IF daemon = {} THEN [Idle EXCEPT !.pc = "not_paired"]
                                   ELSE [Idle EXCEPT !.pc = "check", !.rec = daemon]]
    /\ UNCHANGED <<memory, disk, world, history>>

NotPaired(t) ==
    /\ call[t].pc = "not_paired"
    /\ phase' = "unpaired"
    /\ Return(t)
    /\ UNCHANGED <<key, daemon, live, pairing, disk, world, history>>

\* healthy_live.
CheckLive(t) ==
    /\ call[t].pc = "check"
    /\ IF live = None THEN Goto(t, "announce")
       ELSE IF live \in up THEN Return(t) ELSE Goto(t, "connect_tear")
    /\ UNCHANGED <<memory, disk, world, history>>

Announce(t) ==
    /\ call[t].pc \in {"announce", "begin_announce"}
    /\ phase' = "connecting"
    /\ Goto(t, IF call[t].pc = "announce" THEN "dial" ELSE "begin_dial")
    /\ UNCHANGED <<key, daemon, live, pairing, disk, world, history>>

\* establish succeeds, and adopt installs the connection.
Dial(t) ==
    /\ call[t].pc = "dial"
    /\ \E c \in 1 .. MaxConns, r \in call[t].rec :
         <<r[1], key>> \in registered /\ Establishes(c, r[1]) /\ live' = c
    /\ Goto(t, "adopt")
    /\ UNCHANGED <<key, daemon, pairing, phase, disk, keys, registered, history>>

DialFails(t) ==
    /\ call[t].pc = "dial"
    /\ phase' = "disconnected"
    /\ Return(t)
    /\ UNCHANGED <<key, daemon, live, pairing, disk, world, history>>

ShowConnected(t) ==
    /\ call[t].pc = "adopt"
    /\ phase' = "connected"
    /\ Goto(t, "touch")
    /\ UNCHANGED <<key, daemon, live, pairing, disk, world, history>>

\* touch_last_seen has saved the record read at the start of connect.
Touched(t) ==
    /\ call[t].pc = "touched"
    /\ daemon' = call[t].rec
    /\ Return(t)
    /\ UNCHANGED <<key, live, pairing, phase, disk, world, history>>
-----------------------------------------------------------------------------
\* save_daemon, on behalf of touch_last_seen or confirm_pairing: the file, the
\* write and the rename may each fail, which returns from the call.

Saving == {"touch_write", "touch_rename", "save_write", "save_rename"}

After(pc) ==
    CASE pc = "touch" -> "touch_write" [] pc = "touch_write" -> "touch_rename" [] pc = "touch_rename" -> "touched"
      [] pc = "save" -> "save_write" [] pc = "save_write" -> "save_rename" [] pc = "save_rename" -> "cache"

\* A mutant that writes the record in place.
SaveOpens_InPlace(t) ==
    /\ call[t].pc \in {"touch", "save"}
    /\ daemonFile' = Torn
    /\ call' = [call EXCEPT ![t].pc = After(@), ![t].file = "temp"]
    /\ UNCHANGED <<memory, seedFile, temp, world, history>>

\* The file is created, or truncated under whoever else uses it.
SaveOpens(t) ==
    /\ call[t].pc \in {"touch", "save"}
    /\ \/ temp' = Torn /\ call' = [call EXCEPT ![t].pc = After(@), ![t].file = "temp"]
       \/ Return(t) /\ UNCHANGED temp
    /\ UNCHANGED <<memory, seedFile, daemonFile, world, history>>

Fills(file, content) ==
    /\ temp' = IF file = "temp" THEN content ELSE temp
    /\ daemonFile' = IF file = "record" THEN content ELSE daemonFile

\* A record is short enough to be one write.
SaveWrites(t) ==
    /\ call[t].pc \in {"touch_write", "save_write"}
    /\ \/ /\ Fills(call[t].file, call[t].rec)
          /\ call' = [call EXCEPT ![t].pc = After(@), ![t].file = "none"]
          /\ UNCHANGED cut
       \/ /\ Fills(call[t].file, Torn) \/ UNCHANGED <<temp, daemonFile>>
          /\ Return(t)
          /\ cut' = (cut \/ call[t].file = "record" \/ \E u \in Calls \ {t} : call[u].pc \in Saving)
    /\ UNCHANGED <<memory, seedFile, world, lost, clear, told>>

\* The files of the other calls once the record's name is given to another file
\* or to none, and once the temporary file has been given the record's name.
Displaced ==
    [u \in Calls |-> [call[u] EXCEPT !.file = IF @ = "record" THEN "gone" ELSE @]]
Renamed ==
    [u \in Calls |-> [Displaced[u] EXCEPT !.file = IF @ = "temp" THEN "record" ELSE @]]

\* Whatever the file holds by now becomes the record; the second of two calls
\* that opened the same file finds none.
SaveRenames(t) ==
    /\ call[t].pc \in {"touch_rename", "save_rename"}
    /\ \/ /\ temp # {}
          /\ daemonFile' = temp /\ temp' = {}
          /\ call' = [Renamed EXCEPT ![t].pc = After(@)]
          /\ cut' = (cut /\ (temp = Torn \/ \E u \in Calls \ {t} : call[u].pc \in Saving))
       \/ Return(t) /\ UNCHANGED <<daemonFile, temp, cut>>
    /\ UNCHANGED <<memory, seedFile, world, lost, clear, told>>
-----------------------------------------------------------------------------
\* call: one request over the live connection.

Call(t) ==
    /\ call[t].pc = "idle" /\ live # None
    /\ call' = [call EXCEPT ![t] = IF live \in up THEN [Idle EXCEPT !.pc = "request", !.conn = live]
                                   ELSE [Idle EXCEPT !.pc = "tear"]]
    /\ UNCHANGED <<memory, disk, world, history>>

Answered(t) ==
    /\ call[t].pc = "request"
    /\ Return(t)
    /\ UNCHANGED <<memory, disk, world, history>>

\* A mutant that leaves the connection it failed on in place.
Fails_LeavesLive(t) ==
    /\ call[t].pc = "request" /\ call[t].conn \notin up
    /\ Goto(t, "torn")
    /\ UNCHANGED <<memory, disk, world, history>>

Fails(t) ==
    /\ call[t].pc = "request" /\ call[t].conn \notin up
    /\ Goto(t, "tear")
    /\ UNCHANGED <<memory, disk, world, history>>

LinkLost(c) ==
    /\ c \in up
    /\ up' = up \ {c}
    /\ UNCHANGED <<memory, call, disk, peers, keys, registered, history>>
-----------------------------------------------------------------------------
\* begin_pairing, cancel_pairing, confirm_pairing.

BeginPairing(t, m) ==
    /\ call[t].pc = "idle"
    /\ pairing' = None
    /\ call' = [call EXCEPT ![t] = [Idle EXCEPT !.pc = "begin_announce", !.rec = {<<m, key>>}]]
    /\ UNCHANGED <<key, daemon, live, phase, disk, world, history>>

DialPairing(t) ==
    /\ call[t].pc = "begin_dial"
    /\ \/ /\ \E c \in 1 .. MaxConns, r \in call[t].rec : Establishes(c, r[1]) /\ pairing' = c
          /\ UNCHANGED phase
       \/ /\ phase' = Idling(daemon)
          /\ UNCHANGED <<pairing, up, peers>>
    /\ Return(t)
    /\ UNCHANGED <<key, daemon, live, disk, keys, registered, history>>

CancelPairing(t) ==
    /\ call[t].pc = "idle" /\ pairing # None
    /\ pairing' = None
    /\ UNCHANGED <<key, daemon, live, phase, call, disk, world, history>>

\* A mutant that saves before the round trip has succeeded.
Confirm_SavesFirst(t) ==
    /\ call[t].pc = "idle" /\ pairing # None
    /\ call' = [call EXCEPT ![t] = [Idle EXCEPT !.pc = "save", !.conn = pairing, !.rec = {<<peers[pairing], key>>}]]
    /\ clear' = IF UnderWay(Unpairing) THEN clear \ {t} ELSE clear \union {t}
    /\ UNCHANGED <<memory, disk, world, lost, told, cut>>

Confirm(t) ==
    /\ call[t].pc = "idle" /\ pairing # None
    /\ call' = [call EXCEPT ![t] = [Idle EXCEPT !.pc = "register", !.conn = pairing, !.rec = {<<peers[pairing], key>>}]]
    /\ clear' = IF UnderWay(Unpairing) THEN clear \ {t} ELSE clear \union {t}
    /\ UNCHANGED <<memory, disk, world, lost, told, cut>>

\* sys.register: the daemon records a key it does not have, and the answer may
\* still not arrive.
Registers(t) ==
    /\ call[t].pc = "register" /\ call[t].conn \in up
    /\ call[t].rec \cap registered = {}
    /\ registered' = registered \union call[t].rec
    /\ \/ Goto(t, "save")
       \/ Goto(t, "refused")
    /\ UNCHANGED <<memory, disk, up, peers, keys, history>>

Refuses(t) ==
    /\ call[t].pc = "register"
    /\ Goto(t, "refused")
    /\ UNCHANGED <<memory, disk, world, history>>

Refused(t) ==
    /\ call[t].pc = "refused"
    /\ pairing' = None
    /\ Return(t)
    /\ UNCHANGED <<key, daemon, live, phase, disk, world, history>>

\* A mutant that adds the new daemon to the one of an earlier pairing.
CachePairing_Keeps(t) ==
    /\ call[t].pc = "cache"
    /\ daemon' = daemon \union call[t].rec
    /\ Goto(t, "spent")
    /\ UNCHANGED <<key, live, pairing, phase, disk, world, history>>

CachePairing(t) ==
    /\ call[t].pc = "cache"
    /\ daemon' = call[t].rec
    /\ Goto(t, "spent")
    /\ UNCHANGED <<key, live, pairing, phase, disk, world, history>>

Spent(t) ==
    /\ call[t].pc = "spent"
    /\ pairing' = None
    /\ Goto(t, "paired")
    /\ UNCHANGED <<key, daemon, live, phase, disk, world, history>>

Paired(t) ==
    /\ call[t].pc = "paired"
    /\ phase' = "disconnected"
    /\ Return(t)
    /\ told' = (told \/ t \in clear)
    /\ UNCHANGED <<key, daemon, live, pairing, disk, world, lost, clear, cut>>
-----------------------------------------------------------------------------
\* unpair.

Unpair(t) ==
    /\ call[t].pc = "idle"
    /\ pairing' = None
    /\ clear' = {} /\ told' = FALSE
    /\ Goto(t, "unpair_tear")
    /\ UNCHANGED <<key, daemon, live, phase, disk, world, lost, cut>>

Forget(t) ==
    /\ call[t].pc = "forget"
    /\ daemon' = {}
    /\ Goto(t, "unpaired")
    /\ UNCHANGED <<key, live, pairing, phase, disk, world, history>>

ShowUnpaired(t) ==
    /\ call[t].pc = "unpaired"
    /\ phase' = "unpaired"
    /\ Goto(t, "wipe_daemon")
    /\ UNCHANGED <<key, daemon, live, pairing, disk, world, history>>

\* wipe attempts both files, whether or not the first can be removed.
WipeDaemon(t) ==
    /\ call[t].pc = "wipe_daemon"
    /\ \/ Goto(t, "wipe_seed") /\ UNCHANGED daemonFile
       \/ /\ daemonFile' = {}
          /\ call' = [Displaced EXCEPT ![t].pc = "wipe_seed"]
    /\ UNCHANGED <<memory, seedFile, temp, world, history>>

WipeSeed(t) ==
    /\ call[t].pc = "wipe_seed"
    /\ seedFile' \in {seedFile, None}
    /\ Return(t)
    /\ UNCHANGED <<memory, daemonFile, temp, world, history>>
-----------------------------------------------------------------------------
\* The app is killed, and create loads the files or generates a key. It fails
\* on a torn record, and the app does not start.
Restart ==
    /\ daemonFile # Torn
    /\ seedFile # None \/ keys < MaxKeys
    /\ keys' = IF seedFile = None THEN keys + 1 ELSE keys
    /\ key' = IF seedFile = None THEN keys + 1 ELSE seedFile
    /\ seedFile' = key'
    /\ daemon' = daemonFile /\ phase' = Idling(daemonFile)
    /\ live' = None /\ pairing' = None /\ up' = {}
    /\ call' = [t \in Calls |-> Idle]
    /\ UNCHANGED <<daemonFile, temp, peers, registered, history>>

Next ==
    \/ \E t \in Calls :
         \/ TearDown(t) \/ ShowTornDown(t) \/ Disconnect(t)
         \/ Connect(t) \/ NotPaired(t) \/ CheckLive(t) \/ Announce(t)
         \/ Dial(t) \/ DialFails(t) \/ ShowConnected(t) \/ Touched(t)
         \/ Call(t) \/ Answered(t) \/ Fails(t)
         \/ (\E m \in Machines : BeginPairing(t, m)) \/ DialPairing(t) \/ CancelPairing(t)
         \/ Confirm(t) \/ Registers(t) \/ Refuses(t) \/ Refused(t)
         \/ SaveOpens(t) \/ SaveWrites(t) \/ SaveRenames(t) \/ CachePairing(t) \/ Spent(t) \/ Paired(t)
         \/ Unpair(t) \/ Forget(t) \/ ShowUnpaired(t) \/ WipeDaemon(t) \/ WipeSeed(t)
    \/ \E c \in 1 .. MaxConns : LinkLost(c)
    \/ Restart

Spec == Init /\ [][Next]_vars

Symmetry == Permutations(Calls)
-----------------------------------------------------------------------------
Places ==
    {"idle", "tear", "torn", "not_paired", "check", "connect_tear", "connect_torn",
     "announce", "dial", "adopt", "touch", "touch_write", "touch_rename", "touched", "request",
     "begin_announce", "begin_dial", "register", "refused", "save", "save_write", "save_rename", "cache",
     "spent", "paired"} \union Unpairing

Keys == 1 .. MaxKeys
Conns == 1 .. MaxConns
Option == {record \in SUBSET (Machines \X Keys) : IsOption(record)}

\* The files, the memory behind the mutexes and the frames of the calls
\* (client.rs:490-505): at most one daemon is remembered in each place.
TypeOK ==
    /\ key \in Keys /\ keys \in Keys
    /\ daemon \in Option /\ daemonFile \in Option \union {Torn} /\ temp \in Option \union {Torn}
    /\ seedFile \in Keys \union {None}
    /\ live \in Conns \union {None} /\ pairing \in Conns \union {None}
    /\ phase \in {"unpaired", "disconnected", "connecting", "connected"}
    /\ call \in [Calls -> [pc : Places, conn : Conns \union {None}, rec : Option,
                       file : {"none", "temp", "record", "gone"}]]
    /\ up \subseteq Conns /\ peers \in Seq(Machines) /\ Len(peers) <= MaxConns
    /\ registered \subseteq Machines \X Keys /\ lost \subseteq Conns
    /\ clear \subseteq Calls /\ told \in BOOLEAN /\ cut \in BOOLEAN

\* A daemon is remembered, in memory or in the file, only under a key that it
\* has registered, whatever calls overlap and wherever the app was killed
\* (client.rs:747-754).
RememberedIsRegistered == daemon \union (daemonFile \ Torn) \subseteq registered

\* A connection on which a call reported its loss is not the live one any more:
\* the next call does not fail against it (client.rs:591-592).
NoCorpse == live \notin lost

\* A phone told that it is paired has its record until unpair is called, and the
\* record is whole: a save that fails or is killed leaves the old one. Only a
\* call that opened the temporary file before another one renamed it tears the
\* record, until it has written, or until the next save if that fails
\* (storage.rs:258-260, 273-276; client.rs:1307-1312).
PairingSurvives ==
    told => /\ daemonFile # {}
            /\ daemonFile = Torn => cut \/ \E t \in Calls : call[t].file = "record"

\* A crash in the middle of a save leaves a whole record (storage.rs:258-260).
RecordNeverTorn == daemonFile # Torn

\* A pairing that the user was told of is not orphaned by a new key: the key
\* the phone comes back with is one the daemon knows (storage.rs:180-182).
KeyStaysWithPairing == told => \A r \in daemon : <<r[1], key>> \in registered
=============================================================================
