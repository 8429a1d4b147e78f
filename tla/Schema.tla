------------------------------- MODULE Schema -------------------------------
(***************************************************************************)
(* What docs/schema.md promises of a database under migration: its version *)
(* becomes 2 in one step together with everything that version requires,   *)
(* the platform's rows stay as they are, and the proxy's permissions are   *)
(* seeded with the proxy schema and never again.                           *)
(***************************************************************************)
EXTENDS Identifiers

VARIABLES
    version,      \* the newest migration in the ledger
    complete,     \* everything version 2 requires is there and intact
    proxy,        \* the auth_proxy schema exists
    acl,          \* the seeded permission is there
    rows          \* the platform's users and domains

schemaVars == <<version, complete, proxy, acl, rows>>

SchemaInit ==
    /\ version \in 0 .. 3
    /\ complete \in BOOLEAN /\ proxy \in BOOLEAN /\ acl \in BOOLEAN
    /\ complete => version = 2 /\ Unambiguous(rows)
    /\ acl => proxy

(* `scitrera-auth-proxy migrate' succeeds, the first time or again.         *)
Install ==
    /\ (version < 2 \/ (version = 2 /\ complete))
    /\ Unambiguous(rows)
    /\ version' = 2
    /\ complete' = TRUE
    /\ proxy' = TRUE
    /\ acl' = (acl \/ ~proxy)
    /\ rows' = rows

(* Rows are written; the indexes of version 2 bind every writer.            *)
WriteRows ==
    /\ rows' # rows
    /\ complete => Unambiguous(rows')
    /\ UNCHANGED <<version, complete, proxy, acl>>

(* The owner withdraws the permission; breaks an object or restores it.     *)
RemoveACL == acl /\ acl' = FALSE /\ UNCHANGED <<version, complete, proxy, rows>>

Tamper ==
    /\ version = 2 /\ complete' # complete
    /\ complete' => Unambiguous(rows)
    /\ UNCHANGED <<version, proxy, acl, rows>>

SchemaNext == Install \/ WriteRows \/ RemoveACL \/ Tamper

SchemaSpec == SchemaInit /\ [][SchemaNext]_schemaVars

=============================================================================
