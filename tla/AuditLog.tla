------------------------------ MODULE AuditLog ------------------------------
(***************************************************************************)
(* The hash-chained audit log of gonomad-store (audit.rs).  Every entry    *)
(* carries the hash of the one before it; rotation archives a prefix and   *)
(* leaves a signed checkpoint from which the chain goes on; verify walks   *)
(* the chain from the newest checkpoint, or from genesis, and names the    *)
(* sequence number at which it stops adding up.                            *)
(*                                                                         *)
(* BLAKE3 over the canonical encoding is injective here: the hash of an    *)
(* entry IS the tuple of the fields it covers, its predecessor's hash      *)
(* among them.  A signature is the content that was signed.  Every write   *)
(* is one IMMEDIATE transaction, so it is one action; a crash before the   *)
(* commit leaves no trace and is the action not taken.  A reader with a    *)
(* connection of its own runs verify's two SELECTs outside a transaction,  *)
(* in two actions.                                                         *)
(*                                                                         *)
(* The database is also damaged, once, in the ways the module's            *)
(* documentation lists: that is a fault of the storage, no operation of    *)
(* the log.                                                                *)
(***************************************************************************)
EXTENDS Integers, FiniteSets, FiniteSetsExt

CONSTANTS
    Bodies,     \* what an entry records: time, device, operation, digest, result
    Clock,      \* the monotonic readings an append may be given
    Caps,       \* the caps rotate may be asked for
    MaxSeq,     \* bound: the last sequence number appended
    Readers,    \* processes that verify over a connection of their own
    None        \* no walk, no status, no head

ASSUME AuditAssumption ==
    /\ Clock \subseteq Nat
    /\ Caps \subseteq Nat
    /\ MaxSeq \in Nat

VARIABLES
    audit,          \* the table: the sequence numbers present -> row
    checkpoints,    \* the other table: the last number archived -> checkpoint
    walk,           \* per reader: where its verify starts from, or None
    report,         \* per reader: the last status its verify returned
    crossed,        \* history, per reader: a rotation fell inside its walk
    genuine,        \* history: the entries appended before any damage
    damage          \* what happened to the tables behind the log's back

vars == <<audit, checkpoints, walk, report, crossed, genuine, damage>>

-----------------------------------------------------------------------------
(* Entries and their hashes. *)

Genesis == <<>>
FirstSeq == 1
Garbled == [garbled |-> TRUE]   \* a row that does not decode

Hash(seq, e) == <<seq, e.mono, e.body, e.prev>>

IsSelfConsistent(seq, e) == e.hash = Hash(seq, e)

Entry(seq, mono, body, prev) ==
    [mono |-> mono, body |-> body, prev |-> prev, hash |-> <<seq, mono, body, prev>>]

\* A mutant that takes the oldest checkpoint for the newest.
LatestCheckpoint_Oldest == Min(DOMAIN checkpoints)

\* The checkpoint to go on from: where the chain starts, and from which hash.
LatestCheckpoint == Max(DOMAIN checkpoints)

Start ==
    IF checkpoints = <<>>
    THEN [seq |-> FirstSeq, prev |-> Genesis]
    ELSE [seq |-> LatestCheckpoint + 1, prev |-> checkpoints[LatestCheckpoint].hash]

-----------------------------------------------------------------------------
(* verify_within: the walk over the rows in order of their numbers. *)

Intact(rows) ==
    [entries |-> Cardinality(DOMAIN rows),
     head |-> IF rows = <<>> THEN None ELSE Max(DOMAIN rows)]

Broken(seq, cause) == [seq |-> seq, cause |-> cause]

\* A mutant that trusts the hash a row stores.
Follows_Trusting(rows, start, s) ==
    /\ s >= start.seq
    /\ rows[s] # Garbled
    /\ IF s = start.seq
       THEN rows[s].prev = start.prev
       ELSE /\ s - 1 \in DOMAIN rows
            /\ rows[s - 1] # Garbled
            /\ rows[s].prev = rows[s - 1].hash

\* The row is where the walk expects one, decodes, hashes to what it stores
\* and names the hash of the row before it.
Follows(rows, start, s) ==
    /\ s >= start.seq
    /\ rows[s] # Garbled
    /\ IsSelfConsistent(s, rows[s])
    /\ IF s = start.seq
       THEN rows[s].prev = start.prev
       ELSE /\ s - 1 \in DOMAIN rows
            /\ rows[s - 1] # Garbled
            /\ rows[s].prev = rows[s - 1].hash

Strays(rows, start) == {s \in DOMAIN rows : ~Follows(rows, start, s)}

\* The first row that does not follow is the row the walk stops at.
Verify(rows, start) ==
    LET s == Min(Strays(rows, start))
        expected == start.seq + Cardinality({r \in DOMAIN rows : r < s})
    IN  IF Strays(rows, start) = {}
        THEN Intact(rows)
        ELSE IF rows[s] = Garbled THEN Broken(s, "UndecodableRow")
        ELSE IF s # expected THEN Broken(expected, "MissingEntry")
        ELSE IF ~IsSelfConsistent(s, rows[s]) THEN Broken(s, "ContentTampered")
        ELSE Broken(s, "BrokenLink")

IsIntact(status) == "entries" \in DOMAIN status

Status == Verify(audit, Start)

\* Of a log with no entry there is no head.
HeadHash == audit[Max(DOMAIN audit)].hash

\* A mutant that compares the head and does not walk.
IntactWithAnchor_HeadOnly(anchor) == audit # <<>> /\ HeadHash = anchor

\* verify_with_anchor: intact, and the head is the one the caller remembers.
IntactWithAnchor(anchor) == IsIntact(Status) /\ audit # <<>> /\ HeadHash = anchor

\* verify_checkpoints: the first checkpoint that is not what was signed.
Forged == {c \in DOMAIN checkpoints :
              checkpoints[c].signed # <<c, checkpoints[c].hash, checkpoints[c].removed>>}
FirstForged == IF Forged = {} THEN None ELSE Min(Forged)

-----------------------------------------------------------------------------
Init ==
    /\ audit = <<>> /\ checkpoints = <<>> /\ genuine = <<>>
    /\ walk = [r \in Readers |-> None]
    /\ report = [r \in Readers |-> None]
    /\ crossed = [r \in Readers |-> FALSE]
    /\ damage = [kind |-> "none", seq |-> 0]

Extend(f, s, v) == [x \in DOMAIN f \cup {s} |-> IF x = s THEN v ELSE f[x]]
Restricted(f, S) == [x \in S |-> f[x]]
Undamaged == damage.kind = "none"

\* A mutant that stores the reading as it is given.
Append_AsRead(reading, body) ==
    LET tail == Max(DOMAIN audit)
        seq == IF audit = <<>> THEN Start.seq ELSE tail + 1
        prev == IF audit = <<>> THEN Start.prev ELSE audit[tail].hash
        entry == Entry(seq, reading, body, prev)
    IN  /\ audit # <<>> => audit[tail] # Garbled /\ IsSelfConsistent(tail, audit[tail])
        /\ seq <= MaxSeq
        /\ audit' = Extend(audit, seq, entry)
        /\ genuine' = IF Undamaged THEN Extend(genuine, seq, entry) ELSE genuine
        /\ UNCHANGED <<checkpoints, walk, report, crossed, damage>>

\* A mutant that goes on from the checkpoint's number, and from no hash.
Append_Unlinked(reading, body) ==
    LET tail == Max(DOMAIN audit)
        floor == IF audit = <<>> THEN 0 ELSE audit[tail].mono + 1
        seq == IF audit = <<>> THEN Start.seq ELSE tail + 1
        prev == IF audit = <<>> THEN Genesis ELSE audit[tail].hash
        entry == Entry(seq, IF reading >= floor THEN reading ELSE floor, body, prev)
    IN  /\ audit # <<>> => audit[tail] # Garbled /\ IsSelfConsistent(tail, audit[tail])
        /\ seq <= MaxSeq
        /\ audit' = Extend(audit, seq, entry)
        /\ genuine' = IF Undamaged THEN Extend(genuine, seq, entry) ELSE genuine
        /\ UNCHANGED <<checkpoints, walk, report, crossed, damage>>

(* append_at: the successor of the tail, if the tail is what it says; of    *)
(* the newest checkpoint, or of nothing, when the table is empty.           *)
Append(reading, body) ==
    LET tail == Max(DOMAIN audit)
        floor == IF audit = <<>> THEN 0 ELSE audit[tail].mono + 1
        seq == IF audit = <<>> THEN Start.seq ELSE tail + 1
        prev == IF audit = <<>> THEN Start.prev ELSE audit[tail].hash
        entry == Entry(seq, IF reading >= floor THEN reading ELSE floor, body, prev)
    IN  /\ audit # <<>> => audit[tail] # Garbled /\ IsSelfConsistent(tail, audit[tail])
        /\ seq <= MaxSeq
        /\ audit' = Extend(audit, seq, entry)
        /\ genuine' = IF Undamaged THEN Extend(genuine, seq, entry) ELSE genuine
        /\ UNCHANGED <<checkpoints, walk, report, crossed, damage>>

\* A mutant that rotates whatever decodes.
Rotate_Unverified(max) ==
    LET through == Max(DOMAIN audit) - max
        gone == {s \in DOMAIN audit : s <= through}
        removed == through - Min(DOMAIN audit) + 1
    IN  /\ \A s \in DOMAIN audit : audit[s] # Garbled
        /\ Cardinality(DOMAIN audit) > max
        /\ through \in DOMAIN audit /\ through \notin DOMAIN checkpoints
        /\ checkpoints' = Extend(checkpoints, through,
                [hash |-> audit[through].hash, removed |-> removed,
                 signed |-> <<through, audit[through].hash, removed>>])
        /\ audit' = Restricted(audit, DOMAIN audit \ gone)
        /\ crossed' = [r \in Readers |-> crossed[r] \/ walk[r] # None]
        /\ UNCHANGED <<walk, report, genuine, damage>>

\* A mutant that counts the rows it archives one short.
Rotate_OneShort(max) ==
    LET through == Max(DOMAIN audit) - max
        gone == {s \in DOMAIN audit : s <= through}
        removed == through - Min(DOMAIN audit)
    IN  /\ IsIntact(Status)
        /\ Cardinality(DOMAIN audit) > max
        /\ through \in DOMAIN audit /\ through \notin DOMAIN checkpoints
        /\ checkpoints' = Extend(checkpoints, through,
                [hash |-> audit[through].hash, removed |-> removed,
                 signed |-> <<through, audit[through].hash, removed>>])
        /\ audit' = Restricted(audit, DOMAIN audit \ gone)
        /\ crossed' = [r \in Readers |-> crossed[r] \/ walk[r] # None]
        /\ UNCHANGED <<walk, report, genuine, damage>>

\* A mutant that subtracts the wrong way round.
Rotate_Backwards(max) ==
    LET through == Max(DOMAIN audit) - max
        gone == {s \in DOMAIN audit : s <= through}
        removed == Min(DOMAIN audit) - through - 1
    IN  /\ IsIntact(Status)
        /\ Cardinality(DOMAIN audit) > max
        /\ through \in DOMAIN audit /\ through \notin DOMAIN checkpoints
        /\ checkpoints' = Extend(checkpoints, through,
                [hash |-> audit[through].hash, removed |-> removed,
                 signed |-> <<through, audit[through].hash, removed>>])
        /\ audit' = Restricted(audit, DOMAIN audit \ gone)
        /\ crossed' = [r \in Readers |-> crossed[r] \/ walk[r] # None]
        /\ UNCHANGED <<walk, report, genuine, damage>>

(* rotate_at: refused on a chain that does not verify, and by a signer that *)
(* does not sign; otherwise everything but the newest max entries goes.     *)
Rotate(max) ==
    LET through == Max(DOMAIN audit) - max
        gone == {s \in DOMAIN audit : s <= through}
        removed == through - Min(DOMAIN audit) + 1
    IN  /\ IsIntact(Status)
        /\ Cardinality(DOMAIN audit) > max
        /\ through \in DOMAIN audit /\ through \notin DOMAIN checkpoints
        /\ checkpoints' = Extend(checkpoints, through,
                [hash |-> audit[through].hash, removed |-> removed,
                 signed |-> <<through, audit[through].hash, removed>>])
        /\ audit' = Restricted(audit, DOMAIN audit \ gone)
        /\ crossed' = [r \in Readers |-> crossed[r] \/ walk[r] # None]
        /\ UNCHANGED <<walk, report, genuine, damage>>

(* verify, by a process with its own connection: one SELECT for the newest  *)
(* checkpoint, another for the rows, each on the snapshot of its moment.    *)
ReadCheckpoint(r) ==
    /\ walk[r] = None
    /\ walk' = [walk EXCEPT ![r] = Start]
    /\ report' = [report EXCEPT ![r] = None]
    /\ crossed' = [crossed EXCEPT ![r] = FALSE]
    /\ UNCHANGED <<audit, checkpoints, genuine, damage>>

ReadRows(r) ==
    /\ walk[r] # None
    /\ report' = [report EXCEPT ![r] = Verify(audit, walk[r])]
    /\ walk' = [walk EXCEPT ![r] = None]
    /\ UNCHANGED <<audit, checkpoints, crossed, genuine, damage>>

-----------------------------------------------------------------------------
(* Damage to the tables, at most once.  The first seven are the rows of     *)
(* the module's table of what verify detects, and a row that no longer      *)
(* decodes; the last three are what it says verify alone cannot see.        *)

Record(kind, seq) ==
    /\ damage' = [kind |-> kind, seq |-> seq]
    /\ UNCHANGED <<walk, report, crossed, genuine>>

Interior == {s \in DOMAIN audit : s < Max(DOMAIN audit)}

EditRow(s, body) ==
    /\ body # audit[s].body
    /\ audit' = [audit EXCEPT ![s].body = body]
    /\ Record("edited", s) /\ UNCHANGED checkpoints

RehashRow(s, body) ==
    /\ body # audit[s].body
    /\ audit' = [audit EXCEPT ![s] = Entry(s, @.mono, body, @.prev)]
    /\ Record(IF s \in Interior THEN "rehashed" ELSE "rehashed_tail", s)
    /\ UNCHANGED checkpoints

GarbleRow(s) ==
    /\ audit' = [audit EXCEPT ![s] = Garbled]
    /\ Record("garbled", s) /\ UNCHANGED checkpoints

SpliceRow(s) ==
    /\ audit' = [audit EXCEPT ![s] = Entry(s, @.mono, @.body, <<"elsewhere">>)]
    /\ Record("spliced", s) /\ UNCHANGED checkpoints

LoseRows(s, t) ==
    /\ s <= t /\ t \in Interior
    /\ audit' = Restricted(audit, DOMAIN audit \ (s..t))
    /\ Record("lost", s) /\ UNCHANGED checkpoints

SwapRows(s, t) ==
    /\ s < t
    /\ audit' = [audit EXCEPT ![s] = audit[t], ![t] = audit[s]]
    /\ Record("swapped", s) /\ UNCHANGED checkpoints

ForgeCheckpoint(c) ==
    /\ checkpoints' = [checkpoints EXCEPT ![c].removed = @ + 1]
    /\ Record("forged", c) /\ UNCHANGED audit

LoseTail(s) ==
    /\ audit' = Restricted(audit, {r \in DOMAIN audit : r < s})
    /\ Record("lost_tail", s) /\ UNCHANGED checkpoints

LoseCheckpoint(c) ==
    /\ checkpoints' = Restricted(checkpoints, DOMAIN checkpoints \ {c})
    /\ Record("lost_checkpoint", c) /\ UNCHANGED audit

Damage ==
    /\ Undamaged
    /\ \/ \E s \in DOMAIN audit, body \in Bodies : EditRow(s, body) \/ RehashRow(s, body)
       \/ \E s \in DOMAIN audit : GarbleRow(s) \/ SpliceRow(s) \/ LoseTail(s)
       \/ \E s, t \in DOMAIN audit : SwapRows(s, t) \/ LoseRows(s, t)
       \/ \E c \in DOMAIN checkpoints : ForgeCheckpoint(c) \/ LoseCheckpoint(c)

Next ==
    \/ \E reading \in Clock, body \in Bodies : Append(reading, body)
    \/ \E max \in Caps : Rotate(max)
    \/ \E r \in Readers : ReadCheckpoint(r) \/ ReadRows(r)
    \/ Damage

Spec == Init /\ [][Next]_vars

-----------------------------------------------------------------------------
(* The rows, checkpoints and reports (audit.rs:96-140, 256-272, 424-441).   *)
TypeOK ==
    /\ DOMAIN audit \subseteq 1..MaxSeq /\ DOMAIN checkpoints \subseteq 1..MaxSeq
    /\ DOMAIN genuine \subseteq 1..MaxSeq
    /\ \A s \in DOMAIN audit : audit[s] # Garbled =>
           audit[s].mono \in Nat /\ audit[s].body \in Bodies
    /\ \A c \in DOMAIN checkpoints : checkpoints[c].removed \in Nat
    /\ crossed \in [Readers -> BOOLEAN]
    /\ DOMAIN walk = Readers /\ DOMAIN report = Readers
    /\ damage.seq \in 0..MaxSeq

(* Between any two operations, before and after any rotation, a log nobody  *)
(* damaged verifies, and every entry ever appended is either in the table   *)
(* or covered by a checkpoint, whose chain hash is that entry's own.        *)
KeptOrArchived ==
    Undamaged =>
        /\ Status = Intact(audit)
        /\ DOMAIN audit = {s \in DOMAIN genuine : s >= Start.seq}
        /\ \A s \in DOMAIN audit : audit[s] = genuine[s]
        /\ \A c \in DOMAIN checkpoints : c \in DOMAIN genuine

(* The documentation's table (audit.rs:23-30): each kind of damage is       *)
(* reported at the number and with the cause it names, and stays reported   *)
(* whatever is appended or rotated afterwards.                              *)
DamageLocated ==
    /\ damage.kind \in {"edited", "swapped"} => Status = Broken(damage.seq, "ContentTampered")
    /\ damage.kind = "rehashed" => Status = Broken(damage.seq + 1, "BrokenLink")
    /\ damage.kind = "spliced"  => Status = Broken(damage.seq, "BrokenLink")
    /\ damage.kind = "lost"     => Status = Broken(damage.seq, "MissingEntry")
    /\ damage.kind = "garbled"  => Status = Broken(damage.seq, "UndecodableRow")
    /\ damage.kind = "forged"   => FirstForged = damage.seq

(* A rotation never signs over a damage that verify can see: whatever was   *)
(* appended before it and has a checkpoint has there the hash it was        *)
(* appended with (audit.rs:700-703).                                        *)
NoLaundering ==
    damage.kind \notin {"rehashed_tail", "lost_tail", "lost_checkpoint"} =>
        \A c \in DOMAIN checkpoints \cap DOMAIN genuine :
            checkpoints[c].hash = genuine[c].hash

(* What verify_with_anchor is for (audit.rs:638-645): if the head is one    *)
(* the caller knew before the damage, then no row of the table is anything  *)
(* but what was appended under its number, and none up to the head is gone. *)
AnchorProves ==
    \A s \in DOMAIN genuine : IntactWithAnchor(genuine[s].hash) =>
        /\ DOMAIN audit = Start.seq..s
        /\ \A r \in DOMAIN audit : r \in DOMAIN genuine /\ audit[r] = genuine[r]

(* The checkpoints account for every entry that is gone, once: each counts  *)
(* the entries between the checkpoint before it and itself.                 *)
RemovalsAddUp ==
    Undamaged => \A c \in DOMAIN checkpoints :
        checkpoints[c].removed = c - Max({0} \cup {d \in DOMAIN checkpoints : d < c})

(* The clamp of append: along the entries the table holds, the monotonic    *)
(* reading increases whatever readings the callers passed.                  *)
OrderVisible ==
    Undamaged => \A s, t \in DOMAIN audit : s < t => audit[s].mono < audit[t].mono

(* An honest log loses nothing and stays in order, whatever was appended    *)
(* and rotated: what was appended is there or archived and accounted for    *)
(* (audit.rs:700-803, 826-884).                                             *)
LogKept == TypeOK /\ KeptOrArchived /\ RemovalsAddUp /\ OrderVisible

(* A process that verifies beside the daemon raises an alarm about a log    *)
(* nobody damaged only if a rotation fell between its two SELECTs.          *)
AlarmOnlyAcrossRotation ==
    \A r \in Readers :
        report[r] # None /\ ~IsIntact(report[r]) => ~Undamaged \/ crossed[r]

-----------------------------------------------------------------------------
(* Beside the runs. *)

(* migrations.rs:285: monotonic_ns "never decreases, even across restarts". *)
MonotonicForever ==
    \A s, t \in DOMAIN genuine : s < t => genuine[s].mono <= genuine[t].mono

(* The newest entry's hash is an anchor that an undamaged log honours.      *)
AnchorHonoured ==
    Undamaged /\ genuine # <<>> => IntactWithAnchor(genuine[Max(DOMAIN genuine)].hash)

(* No alarm about an undamaged log.                                         *)
NoFalseAlarm ==
    \A r \in Readers : report[r] # None /\ Undamaged => IsIntact(report[r])
=============================================================================
