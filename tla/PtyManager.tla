----------------------------- MODULE PtyManager -----------------------------
(***************************************************************************)
(* The daemon's terminals (gonomad-pty, session.rs), and the router's      *)
(* handlers that drive them.  One mutex guards the manager, and an         *)
(* operation holds it from end to end: an operation that does not block is *)
(* one action, enabled while nobody holds the mutex.  Two block inside it. *)
(* A write waits while the child does not read what was written before,    *)
(* and a kill waits for the child it has just killed.                      *)
(*                                                                         *)
(* The child is a program of the user's: it reads its input when it likes, *)
(* and exits when it likes.  What it prints is left out.                   *)
(***************************************************************************)
EXTENDS Integers, FiniteSets

CONSTANTS
    MaxId,          \* bound: the last terminal id given out before a restart
    Limit,          \* max_sessions
    Buffer,         \* what a terminal holds of input its child has not read
    None            \* nobody

ASSUME PtyAssumption ==
    MaxId \in Nat /\ Limit \in Nat /\ Buffer \in Nat /\ None \notin 1..MaxId

VARIABLES
    sessions,       \* the map: ids -> session
    nextId,
    holder,         \* who sits in a blocking call with the mutex held, or None
    orphans         \* children running that no session knows

ptyVars == <<sessions, nextId, holder, orphans>>

Ids == 1..MaxId

(* A session: is the child running, did the watcher see it end, and how     *)
(* much input lies unread.                                                  *)
Session == [alive : BOOLEAN, exited : BOOLEAN, input : 0..Buffer]
Fresh == [alive |-> TRUE, exited |-> FALSE, input |-> 0]

Free == holder = None
Listed == DOMAIN sessions
Running == {id \in Listed : sessions[id].alive}

PtyTypeOK ==
    /\ Listed \subseteq Ids /\ sessions \in [Listed -> Session]
    /\ nextId \in 1..MaxId + 1
    /\ holder = None \/ holder \in [call : {"write", "kill"}, id : Ids]
    /\ orphans \in Nat

PtyInit == sessions = <<>> /\ nextId = 1 /\ holder = None /\ orphans = 0

-----------------------------------------------------------------------------
(* The operations, each with the manager locked.                            *)

CanSpawn == Free /\ Cardinality(Listed) < Limit

Spawn ==
    /\ CanSpawn /\ nextId <= MaxId
    /\ sessions' = [id \in Listed \cup {nextId} |->
                        IF id = nextId THEN Fresh ELSE sessions[id]]
    /\ nextId' = nextId + 1
    /\ UNCHANGED <<holder, orphans>>

(* A step after spawn_command fails: the handle is dropped, the child runs. *)
SpawnHalfway ==
    /\ CanSpawn /\ orphans = 0
    /\ orphans' = orphans + 1
    /\ UNCHANGED <<sessions, nextId, holder>>

SpawnRefused == Free /\ Cardinality(Listed) >= Limit /\ UNCHANGED ptyVars

(* write: the id is unknown, or the child is gone (pty_error makes both     *)
(* NotFound); or the input is taken; or the call blocks.                    *)
WriteRefused(id) == Free /\ id \notin Running /\ UNCHANGED ptyVars

WriteTaken(id) ==
    /\ Free /\ id \in Running /\ sessions[id].input < Buffer
    /\ sessions' = [sessions EXCEPT ![id].input = @ + 1]
    /\ UNCHANGED <<nextId, holder, orphans>>

WriteBlocks(id) ==
    /\ Free /\ id \in Running /\ sessions[id].input = Buffer
    /\ holder' = [call |-> "write", id |-> id]
    /\ UNCHANGED <<sessions, nextId, orphans>>

WriteResumes(id) ==
    /\ holder = [call |-> "write", id |-> id]
    /\ id \in Running => sessions[id].input < Buffer
    /\ holder' = None
    /\ sessions' = IF id \in Running THEN [sessions EXCEPT ![id].input = @ + 1] ELSE sessions
    /\ UNCHANGED <<nextId, orphans>>

(* kill: the session leaves the map first; then the child is killed and     *)
(* waited for, the mutex still held.                                        *)
KillRefused(id) == Free /\ id \notin Listed /\ UNCHANGED ptyVars

Kill(id) ==
    /\ Free /\ id \in Listed
    /\ sessions' = [i \in Listed \ {id} |-> sessions[i]]
    /\ holder' = [call |-> "kill", id |-> id]
    /\ UNCHANGED <<nextId, orphans>>

\* A mutant that waits for the watcher to see the child end.
KillReturns_Watched(id) ==
    /\ holder = [call |-> "kill", id |-> id]
    /\ id \in Listed /\ sessions[id].exited
    /\ holder' = None
    /\ UNCHANGED <<sessions, nextId, orphans>>

KillReturns(id) ==
    /\ holder = [call |-> "kill", id |-> id]
    /\ holder' = None
    /\ UNCHANGED <<sessions, nextId, orphans>>

-----------------------------------------------------------------------------
(* The child, and the thread that watches it every 50 ms.                   *)

ChildReads(id) ==
    /\ id \in Running /\ sessions[id].input > 0
    /\ sessions' = [sessions EXCEPT ![id].input = @ - 1]
    /\ UNCHANGED <<nextId, holder, orphans>>

ChildExits(id) ==
    /\ id \in Running
    /\ sessions' = [sessions EXCEPT ![id].alive = FALSE]
    /\ UNCHANGED <<nextId, holder, orphans>>

Watch(id) ==
    /\ id \in Listed \ Running /\ ~sessions[id].exited
    /\ sessions' = [sessions EXCEPT ![id].exited = TRUE]
    /\ UNCHANGED <<nextId, holder, orphans>>

(* The daemon stops and starts again: Drop kills the children it knows, and *)
(* the new manager counts from one.                                         *)
DaemonRestarts ==
    /\ sessions' = <<>> /\ nextId' = 1 /\ holder' = None
    /\ UNCHANGED orphans

Machine ==
    \/ \E id \in Ids : ChildReads(id) \/ ChildExits(id) \/ Watch(id)
    \/ \E id \in Ids : WriteResumes(id) \/ KillReturns(id)
=============================================================================
