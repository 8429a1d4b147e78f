------------------------------- MODULE Ledger -------------------------------
(***************************************************************************)
(* What the auth registry promises: tenants, domains, users, memberships   *)
(* and admission policies change by whole operations, each valid in the    *)
(* very state it changes, and every change moves the revision.  The        *)
(* operations are those of internal/admin/store.go and membership_auth.go, *)
(* the enrollment of internal/mtdb/enrollment.go and the cascading deletes *)
(* that migrations/001_auth.sql leaves to the platform.                    *)
(*                                                                         *)
(* Names, logos and metadata are left out.  A tenant's providers and       *)
(* claim checks are reduced to what autoAddAllowed says of them.           *)
(***************************************************************************)
EXTENDS Naturals, FiniteSets

CONSTANTS
    Tenants, Domains, Ids, Emails,
    DomainOf,     \* the domain of each email
    Nil,          \* SQL NULL; a row that is not there
    Keep,         \* an optional input field that is not given
    Initial,      \* the registry the migration found
    MaxRev        \* bound on the revision

VARIABLES
    db,           \* the five tables, as last committed
    rev           \* auth_admin_state.revision, as last committed

ledgerVars == <<db, rev>>

Db == [tenant  : [Tenants -> {"none", "disabled", "enabled"}],
       autoAdd : [Tenants -> BOOLEAN],               \* auth:auto_add
       admits  : [Tenants -> BOOLEAN],               \* auth:providers, auth:checks
       domain  : [Domains -> Tenants \cup {Nil}],
       email   : [Ids -> Emails \cup {Nil}],         \* Nil: no such user
       enabled : [Ids -> BOOLEAN],
       default : [Ids -> Tenants \cup {Nil}],
       member  : [Ids -> [Tenants -> {"no", "inherit", "override"}]]]

TenantExists(d, t) == d.tenant[t] # "none"
UserExists(d, i) == d.email[i] # Nil
EmailFree(d, e, i) == \A j \in Ids \ {i} : d.email[j] # e

----------------------------------------------------------------------------
(* Operations: the requests that reach a transaction.                       *)

TenantSaves == [kind : {"createTenant", "updateTenant"}, t : Tenants, on : BOOLEAN]
DomainSaves == [kind : {"addDomain", "deleteDomain"}, t : Tenants, d : Domains]
PolicySaves == [kind : {"savePolicy"}, t : Tenants,
                autoAdd : BOOLEAN \cup {Keep}, admits : BOOLEAN \cup {Keep}]
UserCreates == [kind : {"createUser"}, i : Ids, e : Emails, on : BOOLEAN]
UserUpdates == [kind : {"updateUser"}, i : Ids, e : Emails, on : BOOLEAN,
                default : Tenants \cup {Nil, Keep}]
MemberSaves == [kind : {"addMember", "removeMember"}, i : Ids, t : Tenants]
MemberAuths == [kind : {"saveMembershipAuth"}, i : Ids, t : Tenants,
                as : {"inherit", "override"}]

OperatorOps == TenantSaves \cup DomainSaves \cup PolicySaves \cup UserCreates
                  \cup UserUpdates \cup MemberSaves \cup MemberAuths

(* i is the row the insert creates when the email has no user yet.          *)
Enrollments == [kind : {"enroll"}, e : Emails, t : Tenants, i : Ids]

PlatformOps == [kind : {"deleteTenant"}, t : Tenants] \cup [kind : {"deleteUser"}, i : Ids]

Ops == OperatorOps \cup Enrollments \cup PlatformOps

(* "Default tenant must be an enabled membership."                          *)
ValidDefault(d, i, t) ==
    t \in Tenants => d.member[i][t] # "no" /\ d.tenant[t] = "enabled"

(* The row of AutoAddUser's user: the one that has the email, or a new one. *)
EnrolledRow(o, d) ==
    \/ d.email[o.i] = o.e
    \/ d.email[o.i] = Nil /\ EmailFree(d, o.e, o.i)

(* What AutoAddUser rereads under the lock before it enrolls.               *)
TenantAdmits(o, d) == d.domain[DomainOf[o.e]] = o.t /\ d.tenant[o.t] = "enabled"
UserAdmissible(o, d) == \A i \in Ids : d.email[i] = o.e => d.enabled[i]
PolicyAdmits(o, d) == d.autoAdd[o.t] /\ d.admits[o.t]
AlreadyMember(o, d) == \E i \in Ids : d.email[i] = o.e /\ d.member[i][o.t] # "no"

Admissible(o, d) ==
    TenantAdmits(o, d) /\ UserAdmissible(o, d) /\ PolicyAdmits(o, d) /\ ~AlreadyMember(o, d)

(* The operation's own checks, unique keys and RowsAffected tests.          *)
Valid(o, d) ==
    CASE o.kind = "createTenant" -> ~TenantExists(d, o.t)
      [] o.kind = "updateTenant" -> TenantExists(d, o.t)
      [] o.kind = "addDomain" -> TenantExists(d, o.t) /\ d.domain[o.d] = Nil
      [] o.kind = "deleteDomain" -> d.domain[o.d] = o.t
      [] o.kind = "savePolicy" -> TenantExists(d, o.t)
      [] o.kind = "createUser" -> ~UserExists(d, o.i) /\ EmailFree(d, o.e, o.i)
      [] o.kind = "updateUser" -> /\ UserExists(d, o.i)
                                  /\ ValidDefault(d, o.i, o.default)
                                  /\ EmailFree(d, o.e, o.i)
      [] o.kind = "addMember" -> /\ UserExists(d, o.i) /\ TenantExists(d, o.t)
                                 /\ d.member[o.i][o.t] = "no"
      [] o.kind = "removeMember" -> /\ UserExists(d, o.i) /\ TenantExists(d, o.t)
                                    /\ d.member[o.i][o.t] # "no"
      [] o.kind = "saveMembershipAuth" -> d.member[o.i][o.t] # "no"
      [] o.kind = "enroll" -> Admissible(o, d) /\ EnrolledRow(o, d)
      [] o.kind = "deleteTenant" -> TenantExists(d, o.t)
      [] o.kind = "deleteUser" -> UserExists(d, o.i)

(* default_tenant_slug of the rows that point to t becomes NULL.            *)
WithoutDefault(d, t) == [i \in Ids |-> IF d.default[i] = t THEN Nil ELSE d.default[i]]

(* Mutant: disabling a tenant leaves the defaults that point to it.         *)
SavedTenantOnly(o, d) ==
    [d EXCEPT !.tenant[o.t] = IF o.on THEN "enabled" ELSE "disabled"]

SavedTenant(o, d) ==
    [d EXCEPT !.tenant[o.t] = IF o.on THEN "enabled" ELSE "disabled",
              !.default = IF o.on THEN @ ELSE WithoutDefault(d, o.t)]

SavedPolicy(o, d) ==
    [d EXCEPT !.autoAdd[o.t] = IF o.autoAdd = Keep THEN @ ELSE o.autoAdd,
              !.admits[o.t] = IF o.admits = Keep THEN @ ELSE o.admits]

SavedUser(o, d) ==
    [d EXCEPT !.email[o.i] = o.e, !.enabled[o.i] = o.on,
              !.default[o.i] = IF o.default = Keep THEN @ ELSE o.default]

(* The override goes with the membership row.                               *)
RemovedMember(o, d) ==
    [d EXCEPT !.member[o.i][o.t] = "no", !.default[o.i] = IF @ = o.t THEN Nil ELSE @]

(* An existing user keeps its default; a new one gets the tenant.           *)
Enrolled(o, d) ==
    [d EXCEPT !.member[o.i][o.t] = "inherit",
              !.email[o.i] = o.e,
              !.enabled[o.i] = TRUE,
              !.default[o.i] = IF d.email[o.i] = Nil THEN o.t ELSE @]

(* The foreign keys' ON DELETE clauses.                                     *)
DeletedTenant(o, d) ==
    [d EXCEPT !.tenant[o.t] = "none", !.autoAdd[o.t] = FALSE, !.admits[o.t] = FALSE,
              !.domain = [x \in Domains |-> IF d.domain[x] = o.t THEN Nil ELSE d.domain[x]],
              !.default = WithoutDefault(d, o.t),
              !.member = [i \in Ids |-> [d.member[i] EXCEPT ![o.t] = "no"]]]

DeletedUser(o, d) ==
    [d EXCEPT !.email[o.i] = Nil, !.enabled[o.i] = FALSE, !.default[o.i] = Nil,
              !.member[o.i] = [t \in Tenants |-> "no"]]

Apply(o, d) ==
    CASE o.kind \in {"createTenant", "updateTenant"} -> SavedTenant(o, d)
      [] o.kind = "addDomain" -> [d EXCEPT !.domain[o.d] = o.t]
      [] o.kind = "deleteDomain" -> [d EXCEPT !.domain[o.d] = Nil]
      [] o.kind = "savePolicy" -> SavedPolicy(o, d)
      [] o.kind = "createUser" -> [d EXCEPT !.email[o.i] = o.e, !.enabled[o.i] = o.on]
      [] o.kind = "updateUser" -> SavedUser(o, d)
      [] o.kind = "addMember" -> [d EXCEPT !.member[o.i][o.t] = "inherit"]
      [] o.kind = "removeMember" -> RemovedMember(o, d)
      [] o.kind = "saveMembershipAuth" -> [d EXCEPT !.member[o.i][o.t] = o.as]
      [] o.kind = "enroll" -> Enrolled(o, d)
      [] o.kind = "deleteTenant" -> DeletedTenant(o, d)
      [] o.kind = "deleteUser" -> DeletedUser(o, d)

(* How many statements on the five tables it executes: each one's trigger   *)
(* adds one, whether it changes a row or not.  (A policy save's rows for    *)
(* providers and checks count as one.)  A cascading delete executes a       *)
(* statement on every table that refers to the row.                         *)
Statements(o, d) ==
    CASE o.kind \in {"createTenant", "updateTenant"} -> IF o.on THEN 1 ELSE 2
      [] o.kind = "savePolicy" -> (IF o.autoAdd = Keep THEN 0 ELSE 1)
                                     + (IF o.admits = Keep THEN 0 ELSE 1)
      [] o.kind \in {"removeMember", "deleteUser"} -> 2
      [] o.kind = "enroll" -> IF d.email[o.i] = Nil THEN 2 ELSE 1
      [] o.kind = "deleteTenant" -> 5
      [] OTHER -> 1

----------------------------------------------------------------------------
ASSUME LedgerAssumption ==
    /\ MaxRev \in Nat
    /\ DomainOf \in [Emails -> Domains]
    /\ Nil \notin Tenants \cup Emails
    /\ Keep \notin Tenants \cup BOOLEAN \cup {Nil}
    /\ Initial \in Db

Do(o) ==
    /\ Valid(o, db)
    /\ rev + Statements(o, db) <= MaxRev
    /\ db' = Apply(o, db)
    /\ rev' = rev + Statements(o, db)

LedgerInit == db = Initial /\ rev = 0

LedgerNext == \E o \in Ops : Do(o)

LedgerSpec == LedgerInit /\ [][LedgerNext]_ledgerVars

----------------------------------------------------------------------------
(* Properties.                                                              *)

LedgerTypeOK == db \in Db /\ rev \in Nat

(* Rows refer to rows that exist, and a user's default tenant is one of its *)
(* memberships and enabled, whatever operations tenants, users, members,    *)
(* enrollments and cascading deletes follow each other.  (store.go checks   *)
(* or clears it in saveUser, saveTenant and membership.)                    *)
Consistent(d) ==
    /\ \A x \in Domains : d.domain[x] # Nil => TenantExists(d, d.domain[x])
    /\ \A i \in Ids, t \in Tenants :
          d.member[i][t] # "no" => UserExists(d, i) /\ TenantExists(d, t)
    /\ \A i, j \in Ids : i # j /\ UserExists(d, i) => d.email[i] # d.email[j]
    /\ \A i \in Ids : d.default[i] # Nil => ValidDefault(d, i, d.default[i])

RegistryConsistent == Consistent(db)

ASSUME InitialAssumption == Consistent(Initial)

=============================================================================
