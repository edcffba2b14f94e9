------------------------------ MODULE Devices ------------------------------
(***************************************************************************)
(* The device table of the store: what pairing, revoking and editing a     *)
(* grant do to it, and what the readers of it see.  A device's row is its  *)
(* status and the capabilities of its grant rows; the public key is the    *)
(* identity, so a phone that pairs again is the same device.               *)
(***************************************************************************)

CONSTANTS
    Phones,        \* devices, by their Noise key
    Capabilities,
    DefaultGrant   \* CapabilitySet::default_grant

ASSUME GrantAssumption == DefaultGrant \subseteq Capabilities

Row == [status : {"unknown", "active", "revoked"}, caps : SUBSET Capabilities]

\* No row at all.
Unpaired == [status |-> "unknown", caps |-> {}]

\* A mutant that takes a key whose row is revoked for a new one.
Pairable_IfRevoked(db, p) == db[p].status # "active"

\* Devices::pair fails with AlreadyPaired for any key that has a row, a
\* revoked one included.
Pairable(db, p) == db[p].status = "unknown"

\* A mutant that writes a status no reader knows.
Pair_OtherStatus(db, p) ==
    IF Pairable(db, p)
    THEN [db EXCEPT ![p] = [status |-> "paired", caps |-> DefaultGrant]]
    ELSE db

Pair(db, p) ==
    IF Pairable(db, p)
    THEN [db EXCEPT ![p] = [status |-> "active", caps |-> DefaultGrant]]
    ELSE db

\* Devices::revoke keeps the row, and the grant rows with it.
Revoke(db, p) ==
    IF db[p].status = "active" THEN [db EXCEPT ![p].status = "revoked"] ELSE db

\* Devices::set_grants asks only that the row exists.
SetGrants(db, p, caps) ==
    IF db[p].status # "unknown" THEN [db EXCEPT ![p].caps = caps] ELSE db

\* Devices::list_active.
Active(db) == {p \in Phones : db[p].status = "active"}

\* Devices::grants: nothing for an unknown or a revoked device.
Grants(db, p) == IF p \in Active(db) THEN db[p].caps ELSE {}
=============================================================================
