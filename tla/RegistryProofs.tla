--------------------------- MODULE RegistryProofs ---------------------------
(* The registry stays consistent under every sequence of operations of      *)
(* Ledger, and the transactions of Registry implement those operations.     *)
EXTENDS Registry, TLAPS

-----------------------------------------------------------------------------
(* The operations.                                                         *)

(* Consistent, as named parts.                                              *)
DomainsRefer(d) == \A x \in Domains : d.domain[x] # Nil => TenantExists(d, d.domain[x])
MembersRefer(d) ==
    \A i \in Ids, t \in Tenants :
        d.member[i][t] # "no" => UserExists(d, i) /\ TenantExists(d, t)
EmailsUnique(d) == \A i, j \in Ids : i # j /\ UserExists(d, i) => d.email[i] # d.email[j]
DefaultsHold(d) == \A i \in Ids : d.default[i] # Nil => ValidDefault(d, i, d.default[i])

LEMMA ConsistentParts ==
    ASSUME NEW d
    PROVE  Consistent(d) <=> /\ DomainsRefer(d) /\ MembersRefer(d)
                             /\ EmailsUnique(d) /\ DefaultsHold(d)
  BY DEF Consistent, DomainsRefer, MembersRefer, EmailsUnique, DefaultsHold

(* Saving a tenant, disabled or enabled, new or not.                        *)
LEMMA TenantSaveKeeps ==
    ASSUME NEW d \in Db, Consistent(d), NEW o \in TenantSaves, Valid(o, d)
    PROVE  Apply(o, d) \in Db /\ Consistent(Apply(o, d))
  <1> DEFINE e == SavedTenant(o, d)
             s == IF o.on THEN "enabled" ELSE "disabled"
             f == IF o.on THEN d.default ELSE WithoutDefault(d, o.t)
  <1> USE LedgerAssumption
  <1>1. Apply(o, d) = e /\ o.t \in Tenants /\ o.on \in BOOLEAN
    BY DEF Apply, TenantSaves
  <1>2. f \in [Ids -> Tenants \cup {Nil}] /\ s \in {"disabled", "enabled"}
    BY <1>1 DEF Db, WithoutDefault
  <1>3. /\ e = [d EXCEPT !.tenant = [d.tenant EXCEPT ![o.t] = s], !.default = f]
        /\ e \in Db
    BY <1>1, <1>2 DEF Db, SavedTenant
  <1>4. /\ e.tenant = [d.tenant EXCEPT ![o.t] = s] /\ e.default = f
        /\ e.domain = d.domain /\ e.email = d.email /\ e.member = d.member
    BY <1>3 DEF Db
  <1>5. \A i \in Ids : f[i] # Nil => f[i] = d.default[i] /\ (f[i] = o.t => o.on)
    BY <1>1 DEF Db, WithoutDefault
  <1> HIDE DEF e, f
  <1>6. DomainsRefer(d) /\ MembersRefer(d) /\ EmailsUnique(d) /\ DefaultsHold(d)
    BY ConsistentParts
  <1>7. \A t \in Tenants : e.tenant[t] = IF t = o.t THEN s ELSE d.tenant[t]
    BY <1>1, <1>4 DEF Db
  <1>8. DomainsRefer(e)
    BY <1>2, <1>4, <1>6, <1>7 DEF DomainsRefer, TenantExists, Db
  <1>9. MembersRefer(e)
    BY <1>2, <1>4, <1>6, <1>7 DEF MembersRefer, TenantExists, UserExists
  <1>10. EmailsUnique(e)
    BY <1>4, <1>6 DEF EmailsUnique, UserExists
  <1>11. DefaultsHold(e)
    BY <1>1, <1>2, <1>4, <1>5, <1>6, <1>7 DEF DefaultsHold, ValidDefault, Db
  <1> QED
    BY <1>1, <1>3, <1>8, <1>9, <1>10, <1>11, ConsistentParts

(* Giving a domain to a tenant that exists, or taking it away.              *)
LEMMA DomainSaveKeeps ==
    ASSUME NEW d \in Db, Consistent(d), NEW o \in DomainSaves, Valid(o, d)
    PROVE  Apply(o, d) \in Db /\ Consistent(Apply(o, d))
  <1> DEFINE v == IF o.kind = "addDomain" THEN o.t ELSE Nil
             e == [d EXCEPT !.domain = [d.domain EXCEPT ![o.d] = v]]
  <1> USE LedgerAssumption
  <1>1. /\ o.kind \in {"addDomain", "deleteDomain"}
        /\ o.t \in Tenants /\ o.d \in Domains
    BY DEF DomainSaves
  <1>2. Apply(o, d) = e
    BY <1>1 DEF Apply
  <1>3. v = Nil \/ (v = o.t /\ TenantExists(d, o.t))
    BY <1>1 DEF Valid
  <1>4. e \in Db
    BY <1>1 DEF Db
  <1>5. /\ \A x \in Domains : e.domain[x] = IF x = o.d THEN v ELSE d.domain[x]
        /\ e.tenant = d.tenant /\ e.default = d.default
        /\ e.email = d.email /\ e.member = d.member
    BY <1>1 DEF Db
  <1> HIDE DEF e, v
  <1>6. DomainsRefer(d) /\ MembersRefer(d) /\ EmailsUnique(d) /\ DefaultsHold(d)
    BY ConsistentParts
  <1>7. DomainsRefer(e)
    BY <1>1, <1>3, <1>5, <1>6 DEF DomainsRefer, TenantExists
  <1>8. MembersRefer(e) /\ EmailsUnique(e) /\ DefaultsHold(e)
    BY <1>5, <1>6
       DEF MembersRefer, EmailsUnique, DefaultsHold, ValidDefault, TenantExists, UserExists
  <1> QED
    BY <1>2, <1>4, <1>7, <1>8, ConsistentParts

(* A policy save touches nothing that another row refers to.                *)
LEMMA PolicySaveKeeps ==
    ASSUME NEW d \in Db, Consistent(d), NEW o \in PolicySaves, Valid(o, d)
    PROVE  Apply(o, d) \in Db /\ Consistent(Apply(o, d))
  <1> DEFINE a == IF o.autoAdd = Keep THEN d.autoAdd[o.t] ELSE o.autoAdd
             b == IF o.admits = Keep THEN d.admits[o.t] ELSE o.admits
             e == [d EXCEPT !.autoAdd = [d.autoAdd EXCEPT ![o.t] = a],
                            !.admits = [d.admits EXCEPT ![o.t] = b]]
  <1> USE LedgerAssumption
  <1>1. /\ o.kind = "savePolicy" /\ o.t \in Tenants
        /\ o.autoAdd \in BOOLEAN \cup {Keep} /\ o.admits \in BOOLEAN \cup {Keep}
    BY DEF PolicySaves
  <1>2. a \in BOOLEAN /\ b \in BOOLEAN
    BY <1>1 DEF Db
  <1>3. Apply(o, d) = e
    BY <1>1 DEF Apply, SavedPolicy
  <1>4. e \in Db
    BY <1>1, <1>2 DEF Db
  <1>5. /\ e.tenant = d.tenant /\ e.domain = d.domain /\ e.default = d.default
        /\ e.email = d.email /\ e.member = d.member
    BY DEF Db
  <1> HIDE DEF e
  <1>6. Consistent(e)
    BY <1>5 DEF Consistent, ValidDefault, TenantExists, UserExists
  <1> QED
    BY <1>3, <1>4, <1>6

(* Creating or updating a user: the email stays unique, and a default that  *)
(* is given is an enabled membership.                                       *)
LEMMA UserSaveKeeps ==
    ASSUME NEW d \in Db, Consistent(d), NEW o \in UserCreates \cup UserUpdates, Valid(o, d)
    PROVE  Apply(o, d) \in Db /\ Consistent(Apply(o, d))
  <1> DEFINE f == IF o.kind = "createUser" THEN d.default[o.i]
                  ELSE IF o.default = Keep THEN d.default[o.i] ELSE o.default
             e == [d EXCEPT !.email = [d.email EXCEPT ![o.i] = o.e],
                            !.enabled = [d.enabled EXCEPT ![o.i] = o.on],
                            !.default = [d.default EXCEPT ![o.i] = f]]
  <1> USE LedgerAssumption
  <1>1. /\ o.kind \in {"createUser", "updateUser"}
        /\ o.i \in Ids /\ o.e \in Emails /\ o.on \in BOOLEAN
        /\ o.kind = "updateUser" => o.default \in Tenants \cup {Nil, Keep}
    BY DEF UserCreates, UserUpdates
  <1>2. /\ EmailFree(d, o.e, o.i)
        /\ o.kind = "updateUser" => ValidDefault(d, o.i, o.default)
    BY <1>1 DEF Valid
  <1>3. f \in Tenants \cup {Nil}
    BY <1>1 DEF Db
  <1>4. Apply(o, d) = e
    <2>1. CASE o.kind = "updateUser"
      BY <1>1, <2>1 DEF Apply, SavedUser, Db
    <2>2. CASE o.kind = "createUser"
      <3>1. Apply(o, d) = [d EXCEPT !.email = [d.email EXCEPT ![o.i] = o.e],
                                    !.enabled = [d.enabled EXCEPT ![o.i] = o.on]]
        BY <2>2 DEF Apply
      <3>2. [d.default EXCEPT ![o.i] = f] = d.default
        BY <1>1, <2>2 DEF Db
      <3> QED
        BY <3>1, <3>2 DEF Db
    <2> QED
      BY <1>1, <2>1, <2>2
  <1>5. e \in Db
    BY <1>1, <1>3 DEF Db
  <1>6. /\ \A i \in Ids : e.email[i] = IF i = o.i THEN o.e ELSE d.email[i]
        /\ \A i \in Ids : e.default[i] = IF i = o.i THEN f ELSE d.default[i]
        /\ e.tenant = d.tenant /\ e.domain = d.domain /\ e.member = d.member
    BY <1>1, <1>3 DEF Db
  <1>7. DomainsRefer(d) /\ MembersRefer(d) /\ EmailsUnique(d) /\ DefaultsHold(d)
    BY ConsistentParts
  <1>8. f # Nil => ValidDefault(d, o.i, f)
    BY <1>1, <1>2, <1>7 DEF DefaultsHold
  <1> HIDE DEF e, f
  <1>9. DomainsRefer(e) /\ MembersRefer(e)
    BY <1>1, <1>6, <1>7 DEF DomainsRefer, MembersRefer, TenantExists, UserExists
  <1>10. EmailsUnique(e)
    BY <1>1, <1>2, <1>6, <1>7 DEF EmailsUnique, EmailFree, UserExists
  <1>11. DefaultsHold(e)
    BY <1>1, <1>3, <1>6, <1>7, <1>8 DEF DefaultsHold, ValidDefault
  <1> QED
    BY <1>4, <1>5, <1>9, <1>10, <1>11, ConsistentParts

(* Adding, changing and removing a membership; with it goes a default.      *)
LEMMA MemberSaveKeeps ==
    ASSUME NEW d \in Db, Consistent(d), NEW o \in MemberSaves \cup MemberAuths, Valid(o, d)
    PROVE  Apply(o, d) \in Db /\ Consistent(Apply(o, d))
  <1> DEFINE m == IF o.kind = "addMember" THEN "inherit"
                  ELSE IF o.kind = "removeMember" THEN "no" ELSE o.as
             f == IF o.kind = "removeMember" /\ d.default[o.i] = o.t
                  THEN Nil ELSE d.default[o.i]
             e == [d EXCEPT !.member = [d.member EXCEPT ![o.i] = [d.member[o.i] EXCEPT ![o.t] = m]],
                            !.default = [d.default EXCEPT ![o.i] = f]]
  <1> USE LedgerAssumption
  <1>1. /\ o.kind \in {"addMember", "removeMember", "saveMembershipAuth"}
        /\ o.i \in Ids /\ o.t \in Tenants
        /\ o.kind = "saveMembershipAuth" => o.as \in {"inherit", "override"}
    BY DEF MemberSaves, MemberAuths
  <1>2. DomainsRefer(d) /\ MembersRefer(d) /\ EmailsUnique(d) /\ DefaultsHold(d)
    BY ConsistentParts
  <1>3. UserExists(d, o.i) /\ TenantExists(d, o.t)
    BY <1>1, <1>2 DEF Valid, MembersRefer
  <1>4. /\ m \in {"no", "inherit", "override"} /\ (m = "no" <=> o.kind = "removeMember")
        /\ f \in Tenants \cup {Nil}
    BY <1>1 DEF Db
  <1>5. Apply(o, d) = e
    <2>1. CASE o.kind = "removeMember"
      BY <1>1, <2>1 DEF Apply, RemovedMember, Db
    <2>2. CASE o.kind \in {"addMember", "saveMembershipAuth"}
      <3>1. Apply(o, d) =
              [d EXCEPT !.member = [d.member EXCEPT ![o.i] = [d.member[o.i] EXCEPT ![o.t] = m]]]
        BY <2>2 DEF Apply
      <3>2. [d.default EXCEPT ![o.i] = f] = d.default
        BY <1>1, <2>2 DEF Db
      <3> QED
        BY <3>1, <3>2 DEF Db
    <2> QED
      BY <1>1, <2>1, <2>2
  <1>6. [d.member[o.i] EXCEPT ![o.t] = m] \in [Tenants -> {"no", "inherit", "override"}]
    BY <1>1, <1>4 DEF Db
  <1>7. e \in Db
    BY <1>1, <1>4, <1>6 DEF Db
  <1>8. /\ \A i \in Ids, t \in Tenants :
             e.member[i][t] = IF i = o.i /\ t = o.t THEN m ELSE d.member[i][t]
        /\ \A i \in Ids : e.default[i] = IF i = o.i THEN f ELSE d.default[i]
        /\ e.tenant = d.tenant /\ e.domain = d.domain /\ e.email = d.email
    BY <1>1, <1>4, <1>6 DEF Db
  <1>9. f # Nil => f = d.default[o.i] /\ (f = o.t => m # "no")
    BY <1>1, <1>4
  <1> HIDE DEF e, f, m
  <1>10. DomainsRefer(e) /\ MembersRefer(e) /\ EmailsUnique(e)
    BY <1>2, <1>3, <1>8 DEF DomainsRefer, MembersRefer, EmailsUnique, TenantExists, UserExists
  <1>11. DefaultsHold(e)
    BY <1>1, <1>2, <1>4, <1>8, <1>9 DEF DefaultsHold, ValidDefault, Db
  <1> QED
    BY <1>5, <1>7, <1>10, <1>11, ConsistentParts

(* Enrollment: the new user's default is the tenant it joins, which the     *)
(* rereads found enabled.                                                   *)
LEMMA EnrollKeeps ==
    ASSUME NEW d \in Db, Consistent(d), NEW o \in Enrollments, Valid(o, d)
    PROVE  Apply(o, d) \in Db /\ Consistent(Apply(o, d))
  <1> DEFINE f == IF d.email[o.i] = Nil THEN o.t ELSE d.default[o.i]
             e == [d EXCEPT !.member = [d.member EXCEPT ![o.i] =
                                          [d.member[o.i] EXCEPT ![o.t] = "inherit"]],
                            !.email = [d.email EXCEPT ![o.i] = o.e],
                            !.enabled = [d.enabled EXCEPT ![o.i] = TRUE],
                            !.default = [d.default EXCEPT ![o.i] = f]]
  <1> USE LedgerAssumption
  <1>1. o.kind = "enroll" /\ o.i \in Ids /\ o.t \in Tenants /\ o.e \in Emails
    BY DEF Enrollments
  <1>2. d.tenant[o.t] = "enabled" /\ EnrolledRow(o, d)
    BY <1>1 DEF Valid, Admissible, TenantAdmits
  <1>3. DomainsRefer(d) /\ MembersRefer(d) /\ EmailsUnique(d) /\ DefaultsHold(d)
    BY ConsistentParts
  <1>4. EmailFree(d, o.e, o.i)
    BY <1>1, <1>2, <1>3 DEF EnrolledRow, EmailFree, EmailsUnique, UserExists
  <1>5. Apply(o, d) = e
    BY <1>1 DEF Apply, Enrolled, Db
  <1>6. /\ f \in Tenants \cup {Nil}
        /\ [d.member[o.i] EXCEPT ![o.t] = "inherit"]
              \in [Tenants -> {"no", "inherit", "override"}]
    BY <1>1 DEF Db
  <1>7. e \in Db
    BY <1>1, <1>6 DEF Db
  <1>8. /\ \A i \in Ids, t \in Tenants :
             e.member[i][t] = IF i = o.i /\ t = o.t THEN "inherit" ELSE d.member[i][t]
        /\ \A i \in Ids : e.email[i] = IF i = o.i THEN o.e ELSE d.email[i]
        /\ \A i \in Ids : e.default[i] = IF i = o.i THEN f ELSE d.default[i]
        /\ e.tenant = d.tenant /\ e.domain = d.domain
    BY <1>1, <1>6 DEF Db
  <1>9. f = o.t \/ f = d.default[o.i]
    OBVIOUS
  <1> HIDE DEF e, f
  <1>10. DomainsRefer(e) /\ MembersRefer(e)
    BY <1>1, <1>2, <1>3, <1>8 DEF DomainsRefer, MembersRefer, TenantExists, UserExists
  <1>11. EmailsUnique(e)
    BY <1>1, <1>3, <1>4, <1>8 DEF EmailsUnique, EmailFree, UserExists
  <1>12. DefaultsHold(e)
    BY <1>1, <1>2, <1>3, <1>6, <1>8, <1>9 DEF DefaultsHold, ValidDefault
  <1> QED
    BY <1>5, <1>7, <1>10, <1>11, <1>12, ConsistentParts

(* The foreign keys' clauses leave no row behind that refers to nothing.    *)
LEMMA DeleteKeeps ==
    ASSUME NEW d \in Db, Consistent(d), NEW o \in PlatformOps, Valid(o, d)
    PROVE  Apply(o, d) \in Db /\ Consistent(Apply(o, d))
  <1> USE LedgerAssumption
  <1>1. DomainsRefer(d) /\ MembersRefer(d) /\ EmailsUnique(d) /\ DefaultsHold(d)
    BY ConsistentParts
  <1>2. CASE o.kind = "deleteTenant"
    <2> DEFINE e == DeletedTenant(o, d)
    <2>1. o.t \in Tenants
      BY <1>2 DEF PlatformOps
    <2>2. Apply(o, d) = e
      BY <1>2 DEF Apply
    <2>3. \A i \in Ids : [d.member[i] EXCEPT ![o.t] = "no"]
                           \in [Tenants -> {"no", "inherit", "override"}]
      BY <2>1 DEF Db
    <2>4. e \in Db
      BY <2>1, <2>3 DEF DeletedTenant, WithoutDefault, Db
    <2>5. /\ \A t \in Tenants : e.tenant[t] = IF t = o.t THEN "none" ELSE d.tenant[t]
          /\ \A x \in Domains : e.domain[x] = IF d.domain[x] = o.t THEN Nil ELSE d.domain[x]
          /\ \A i \in Ids : e.default[i] = IF d.default[i] = o.t THEN Nil ELSE d.default[i]
          /\ \A i \in Ids, t \in Tenants :
               e.member[i][t] = IF t = o.t THEN "no" ELSE d.member[i][t]
          /\ e.email = d.email
      BY <2>1, <2>3 DEF DeletedTenant, WithoutDefault, Db
    <2> HIDE DEF e
    <2>6. DomainsRefer(e)
      BY <1>1, <2>1, <2>5 DEF DomainsRefer, TenantExists, Db
    <2>7. MembersRefer(e) /\ EmailsUnique(e)
      BY <1>1, <2>1, <2>5 DEF MembersRefer, EmailsUnique, TenantExists, UserExists
    <2>8. DefaultsHold(e)
      BY <1>1, <2>1, <2>5 DEF DefaultsHold, ValidDefault, Db
    <2> QED
      BY <2>2, <2>4, <2>6, <2>7, <2>8, ConsistentParts
  <1>3. CASE o.kind = "deleteUser"
    <2> DEFINE e == DeletedUser(o, d)
    <2>1. o.i \in Ids
      BY <1>3 DEF PlatformOps
    <2>2. Apply(o, d) = e
      BY <1>3 DEF Apply
    <2>3. e \in Db
      BY <2>1 DEF DeletedUser, Db
    <2>4. /\ \A i \in Ids : e.email[i] = IF i = o.i THEN Nil ELSE d.email[i]
          /\ \A i \in Ids : e.default[i] = IF i = o.i THEN Nil ELSE d.default[i]
          /\ \A i \in Ids, t \in Tenants :
               e.member[i][t] = IF i = o.i THEN "no" ELSE d.member[i][t]
          /\ e.tenant = d.tenant /\ e.domain = d.domain
      BY <2>1 DEF DeletedUser, Db
    <2> HIDE DEF e
    <2>5. DomainsRefer(e) /\ MembersRefer(e)
      BY <1>1, <2>1, <2>4 DEF DomainsRefer, MembersRefer, TenantExists, UserExists
    <2>6. EmailsUnique(e)
      BY <1>1, <2>1, <2>4 DEF EmailsUnique, UserExists
    <2>7. DefaultsHold(e)
      BY <1>1, <2>1, <2>4 DEF DefaultsHold, ValidDefault, Db
    <2> QED
      BY <2>2, <2>3, <2>5, <2>6, <2>7, ConsistentParts
  <1> QED
    BY <1>2, <1>3 DEF PlatformOps

LEMMA ApplyKeeps ==
    ASSUME NEW d \in Db, Consistent(d), NEW o \in Ops, Valid(o, d)
    PROVE  Apply(o, d) \in Db /\ Consistent(Apply(o, d))
  BY TenantSaveKeeps, DomainSaveKeeps, PolicySaveKeeps, UserSaveKeeps, MemberSaveKeeps,
     EnrollKeeps, DeleteKeeps
     DEF Ops, OperatorOps

(* The revision never goes back, and it stands still only for a policy save *)
(* that gives nothing, which changes nothing.                               *)
LEMMA StatementsMove ==
    ASSUME NEW d \in Db, NEW o \in Ops
    PROVE  /\ Statements(o, d) \in Nat
           /\ Statements(o, d) = 0 => Apply(o, d) = d
  <1>1. Statements(o, d) \in Nat
    BY DEF Statements
  <1>2. ASSUME Statements(o, d) = 0
        PROVE  Apply(o, d) = d
    <2>1. o.kind = "savePolicy" /\ o.autoAdd = Keep /\ o.admits = Keep
      BY <1>2 DEF Statements
    <2>2. o \in PolicySaves
      BY <2>1 DEF Ops, OperatorOps, TenantSaves, DomainSaves, PolicySaves, UserCreates,
                  UserUpdates, MemberSaves, MemberAuths, Enrollments, PlatformOps
    <2>3. o.t \in Tenants
      BY <2>2 DEF PolicySaves
    <2>4. /\ [d.autoAdd EXCEPT ![o.t] = d.autoAdd[o.t]] = d.autoAdd
          /\ [d.admits EXCEPT ![o.t] = d.admits[o.t]] = d.admits
      BY <2>3 DEF Db
    <2>5. Apply(o, d) = [d EXCEPT !.autoAdd = [d.autoAdd EXCEPT ![o.t] = d.autoAdd[o.t]],
                                  !.admits = [d.admits EXCEPT ![o.t] = d.admits[o.t]]]
      BY <2>1 DEF Apply, SavedPolicy
    <2>6. Apply(o, d) = [d EXCEPT !.autoAdd = d.autoAdd, !.admits = d.admits]
      BY <2>4, <2>5
    <2>7. [d EXCEPT !.autoAdd = d.autoAdd, !.admits = d.admits] = d
      BY DEF Db
    <2> QED
      BY <2>6, <2>7
  <1> QED
    BY <1>1, <1>2

(* Every operation leaves the registry typed and consistent.                *)
LEMMA LedgerStep ==
    ASSUME LedgerTypeOK, RegistryConsistent, LedgerNext
    PROVE  LedgerTypeOK' /\ RegistryConsistent'
  <1>1. PICK o \in Ops : Do(o)
    BY DEF LedgerNext
  <1>2. db \in Db /\ Consistent(db) /\ Valid(o, db) /\ rev \in Nat
    BY <1>1 DEF Do, LedgerTypeOK, RegistryConsistent
  <1>3. db' \in Db /\ Consistent(db')
    BY <1>1, <1>2, ApplyKeeps DEF Do
  <1>4. rev' \in Nat
    BY <1>1, <1>2, StatementsMove DEF Do
  <1> QED
    BY <1>3, <1>4 DEF LedgerTypeOK, RegistryConsistent

(* However operations follow each other, rows refer to rows that exist,     *)
(* emails are unique and a default tenant is an enabled membership (the     *)
(* checks and clearings of saveUser, saveTenant, membership and AutoAddUser *)
(* and the foreign keys of 001_auth.sql).                                   *)
THEOREM RegistryConsistentHolds == LedgerSpec => [](LedgerTypeOK /\ RegistryConsistent)
  <1>1. LedgerInit => LedgerTypeOK /\ RegistryConsistent
    BY LedgerAssumption, InitialAssumption DEF LedgerInit, LedgerTypeOK, RegistryConsistent
  <1>2. LedgerTypeOK /\ RegistryConsistent /\ [LedgerNext]_ledgerVars
            => (LedgerTypeOK /\ RegistryConsistent)'
    <2>1. CASE UNCHANGED ledgerVars
      BY <2>1 DEF ledgerVars, LedgerTypeOK, RegistryConsistent
    <2> QED
      BY <2>1, LedgerStep
  <1> QED
    BY <1>1, <1>2, PTL DEF LedgerSpec

-----------------------------------------------------------------------------
(* The transactions.                                                       *)

RegistryOK == RegistryTypeOK /\ RegistryInv /\ RegistryConsistent

LEMMA RegistryInitOK == RegistryInit => RegistryOK
  <1> SUFFICES ASSUME RegistryInit PROVE RegistryOK
    OBVIOUS
  <1>1. LedgerTypeOK /\ RegistryConsistent
    BY LedgerAssumption, InitialAssumption
       DEF RegistryInit, LedgerInit, LedgerTypeOK, RegistryConsistent
  <1>2. RegistryTypeOK
    BY <1>1 DEF RegistryInit, RegistryTypeOK
  <1>3. LockInv /\ SeenInv /\ CheckedInv
    BY <1>1, ClientAssumption
       DEF RegistryInit, LedgerInit, LockInv, SeenInv, CheckedInv, LedgerTypeOK, Clients
  <1> QED
    BY <1>1, <1>2, <1>3 DEF RegistryOK, RegistryInv

(* A transaction that ends without a change leaves everything in order.     *)
LEMMA EndOK ==
    ASSUME RegistryOK, NEW c \in Clients, End(c), Unchanged
    PROVE  RegistryOK'
  <1> USE ClientAssumption DEF Clients
  <1>1. /\ tx' = [tx EXCEPT ![c] = "idle"]
        /\ lock' = IF lock = c THEN Free ELSE lock
        /\ op' = IF lock = c THEN NoOp ELSE op
        /\ UNCHANGED <<db, rev, seen, outdated, audit>>
    BY DEF End, Step, Unchanged
  <1>2. RegistryTypeOK' /\ RegistryConsistent'
    BY <1>1 DEF RegistryOK, RegistryTypeOK, LedgerTypeOK, RegistryConsistent
  <1>3. tx \in [Clients -> {"idle", "begun", "locked", "tenant", "user", "policy", "written"}]
    BY DEF RegistryOK, RegistryTypeOK
  <1>4. \A b \in Clients : tx'[b] = IF b = c THEN "idle" ELSE tx[b]
    BY <1>1, <1>3
  <1>5. LockInv'
    BY <1>1, <1>4 DEF RegistryOK, RegistryInv, LockInv
  <1>6. SeenInv'
    BY <1>1 DEF RegistryOK, RegistryInv, SeenInv
  <1>7. \A b \in Clients : tx'[b] \notin {"idle", "begun"} => op' = op /\ tx'[b] = tx[b]
    BY <1>1, <1>4 DEF RegistryOK, RegistryInv, LockInv
  <1>8. CheckedInv'
    BY <1>1, <1>7 DEF RegistryOK, RegistryInv, CheckedInv
  <1> QED
    BY <1>2, <1>5, <1>6, <1>8 DEF RegistryOK, RegistryInv

(* What the owner of the lock must have checked to be at step s.            *)
Checked(c, s, o) ==
    /\ o \in Ops \cup {NoOp}
    /\ s = "written" => o \in Ops /\ Valid(o, db)
    /\ c \in SignIns =>
          /\ s \in {"tenant", "user", "policy"} => o \in Enrollments /\ TenantAdmits(o, db)
          /\ s \in {"user", "policy"} => UserAdmissible(o, db)
          /\ s = "policy" => PolicyAdmits(o, db)
          /\ s = "written" => o \in Enrollments

(* The owner of the lock goes on with what it has checked.                  *)
LEMMA AdvanceOK ==
    ASSUME RegistryOK, NEW c \in Clients,
           NEW s \in {"locked", "tenant", "user", "policy", "written"},
           Step(c, s), Unchanged, lock' = c, lock \in {c, Free},
           c \in Operators => seen[c] = rev,
           Checked(c, s, op')
    PROVE  RegistryOK'
  <1> USE ClientAssumption DEF Clients
  <1>1. tx' = [tx EXCEPT ![c] = s] /\ UNCHANGED <<db, rev, seen, outdated, audit>>
    BY DEF Step, Unchanged
  <1>2. RegistryTypeOK' /\ RegistryConsistent'
    BY <1>1 DEF RegistryOK, RegistryTypeOK, LedgerTypeOK, RegistryConsistent, Checked
  <1>3. tx \in [Clients -> {"idle", "begun", "locked", "tenant", "user", "policy", "written"}]
    BY DEF RegistryOK, RegistryTypeOK
  <1>4. \A b \in Clients : tx'[b] = IF b = c THEN s ELSE tx[b]
    BY <1>1, <1>3
  <1>5. \A b \in Clients : b # c => tx[b] \in {"idle", "begun"}
    BY DEF RegistryOK, RegistryInv, LockInv
  <1>6. LockInv'
    BY <1>4, <1>5 DEF LockInv
  <1>7. SeenInv'
    BY <1>1 DEF RegistryOK, RegistryInv, SeenInv
  <1>8. CheckedInv'
    BY <1>1, <1>4, <1>5 DEF CheckedInv, Checked
  <1> QED
    BY <1>2, <1>6, <1>7, <1>8 DEF RegistryOK, RegistryInv

(* Past the lock, an operator holds the committed revision.                 *)
LEMMA OwnerOK ==
    ASSUME RegistryOK, NEW c \in Clients, tx[c] \notin {"idle", "begun"}
    PROVE  lock = c /\ (c \in Operators => seen[c] = rev)
  BY DEF RegistryOK, RegistryInv, LockInv, SeenInv

(* The steps that leave the committed registry alone.                       *)
LEMMA ReadOK ==
    ASSUME RegistryOK, NEW o \in Operators, Read(o)
    PROVE  RegistryOK'
  <1> USE ClientAssumption DEF Clients
  <1>1. rev \in Nat /\ seen \in [Operators -> Nat] /\ outdated \in [Operators -> BOOLEAN]
    BY DEF RegistryOK, RegistryTypeOK, LedgerTypeOK
  <1>2. /\ \A b \in Operators : seen'[b] = IF b = o THEN rev ELSE seen[b]
        /\ \A b \in Operators : outdated'[b] = IF b = o THEN FALSE ELSE outdated[b]
        /\ UNCHANGED <<db, rev, lock, tx, op, audit>>
    BY <1>1 DEF Read
  <1>3. RegistryTypeOK' /\ RegistryConsistent'
    BY <1>1 DEF Read, RegistryOK, RegistryTypeOK, LedgerTypeOK, RegistryConsistent
  <1>4. LockInv' /\ CheckedInv'
    BY <1>2 DEF RegistryOK, RegistryInv, LockInv, CheckedInv
  <1>5. SeenInv'
    <2>1. SeenInv
      BY DEF RegistryOK, RegistryInv
    <2>2. tx[o] = "idle" /\ lock # o
      BY DEF Read, RegistryOK, RegistryInv, LockInv
    <2>3. ASSUME NEW b \in Operators
          PROVE  seen'[b] <= rev' /\ (seen'[b] = rev' => ~outdated'[b])
      <3>1. CASE b = o
        <4>1. seen'[b] = rev /\ rev' = rev /\ ~outdated'[b]
          BY <1>2, <3>1
        <4> QED
          BY <1>1, <4>1
      <3>2. CASE b # o
        BY <1>2, <2>1, <3>2 DEF SeenInv
      <3> QED
        BY <3>1, <3>2
    <2>4. \A b \in Operators : lock' = b => seen'[b] = rev'
      BY <1>2, <2>1, <2>2 DEF SeenInv
    <2> QED
      BY <2>3, <2>4 DEF SeenInv
  <1> QED
    BY <1>3, <1>4, <1>5 DEF RegistryOK, RegistryInv

LEMMA BeginOK ==
    ASSUME RegistryOK, NEW c \in Clients, Begin(c)
    PROVE  RegistryOK'
  <1>1. /\ tx' = [tx EXCEPT ![c] = "begun"] /\ tx[c] = "idle"
        /\ UNCHANGED <<db, rev, lock, op, seen, outdated, audit>>
    BY DEF Begin, Step, Unchanged
  <1>2. RegistryTypeOK' /\ RegistryConsistent'
    BY <1>1 DEF RegistryOK, RegistryTypeOK, LedgerTypeOK, RegistryConsistent
  <1>3. tx \in [Clients -> {"idle", "begun", "locked", "tenant", "user", "policy", "written"}]
    BY DEF RegistryOK, RegistryTypeOK
  <1>4. \A b \in Clients : tx'[b] = IF b = c THEN "begun" ELSE tx[b]
    BY <1>1, <1>3
  <1>5. LockInv'
    BY <1>1, <1>4 DEF RegistryOK, RegistryInv, LockInv
  <1>6. SeenInv'
    BY <1>1 DEF RegistryOK, RegistryInv, SeenInv
  <1>7. CheckedInv'
    BY <1>1, <1>4 DEF RegistryOK, RegistryInv, CheckedInv, Clients
  <1> QED
    BY <1>2, <1>5, <1>6, <1>7 DEF RegistryOK, RegistryInv

LEMMA LockOK ==
    ASSUME RegistryOK, NEW c \in Clients, Lock(c)
    PROVE  RegistryOK'
  <1>1. CASE c \in Operators /\ seen[c] # rev
    BY <1>1, EndOK DEF Lock
  <1>2. CASE ~(c \in Operators /\ seen[c] # rev)
    <2>1. /\ Step(c, "locked") /\ Unchanged /\ lock' = c /\ lock = Free /\ op' = op
          /\ c \in Operators => seen[c] = rev
      BY <1>2 DEF Lock
    <2>2. Checked(c, "locked", op')
      BY <2>1 DEF Checked, RegistryOK, RegistryTypeOK
    <2> QED
      BY <2>1, <2>2, AdvanceOK
  <1> QED
    BY <1>1, <1>2

LEMMA MutateOK ==
    ASSUME RegistryOK, NEW c \in Clients, NEW o \in OperatorOps, Mutate(c, o)
    PROVE  RegistryOK'
  <1>1. CASE ~Valid(o, db)
    BY <1>1, EndOK DEF Mutate
  <1>2. CASE Valid(o, db)
    <2>1. /\ tx[c] = "locked" /\ c \in Operators /\ Step(c, "written") /\ Unchanged
          /\ op' = o /\ lock' = lock
      BY <1>2 DEF Mutate
    <2>2. lock = c /\ seen[c] = rev
      BY <2>1, OwnerOK
    <2>3. Checked(c, "written", op')
      BY <1>2, <2>1, ClientAssumption DEF Checked, Ops
    <2> QED
      BY <2>1, <2>2, <2>3, AdvanceOK
  <1> QED
    BY <1>1, <1>2

LEMMA RereadsOK ==
    ASSUME RegistryOK, NEW c \in Clients,
           (\E o \in Enrollments : RereadTenant(c, o)) \/ RereadUser(c) \/ RereadPolicy(c)
    PROVE  RegistryOK'
  <1> USE ClientAssumption
  <1>1. CASE End(c) /\ Unchanged
    BY <1>1, EndOK
  <1>2. ASSUME NEW o \in Enrollments, RereadTenant(c, o), ~(End(c) /\ Unchanged)
        PROVE  RegistryOK'
    <2>1. /\ c \in SignIns /\ tx[c] = "locked" /\ TenantAdmits(o, db)
          /\ Step(c, "tenant") /\ op' = o /\ lock' = lock /\ Unchanged
      BY <1>2 DEF RereadTenant, Reread
    <2>2. Checked(c, "tenant", op')
      BY <2>1 DEF Checked, Ops
    <2> QED
      BY <2>1, <2>2, OwnerOK, AdvanceOK
  <1>3. ASSUME RereadUser(c), ~(End(c) /\ Unchanged)
        PROVE  RegistryOK'
    <2>1. /\ c \in SignIns /\ tx[c] = "tenant" /\ UserAdmissible(op, db)
          /\ Step(c, "user") /\ op' = op /\ lock' = lock /\ Unchanged
      BY <1>3 DEF RereadUser, Reread
    <2>2. op \in Enrollments /\ TenantAdmits(op, db)
      BY <2>1 DEF RegistryOK, RegistryInv, CheckedInv
    <2>3. Checked(c, "user", op')
      BY <2>1, <2>2 DEF Checked, Ops
    <2> QED
      BY <2>1, <2>3, OwnerOK, AdvanceOK
  <1>4. ASSUME RereadPolicy(c), ~(End(c) /\ Unchanged)
        PROVE  RegistryOK'
    <2>1. /\ c \in SignIns /\ tx[c] = "user" /\ PolicyAdmits(op, db)
          /\ Step(c, "policy") /\ op' = op /\ lock' = lock /\ Unchanged
      BY <1>4 DEF RereadPolicy, Reread
    <2>2. op \in Enrollments /\ TenantAdmits(op, db) /\ UserAdmissible(op, db)
      BY <2>1 DEF RegistryOK, RegistryInv, CheckedInv
    <2>3. Checked(c, "policy", op')
      BY <2>1, <2>2 DEF Checked, Ops
    <2> QED
      BY <2>1, <2>3, OwnerOK, AdvanceOK
  <1> QED
    BY <1>1, <1>2, <1>3, <1>4

(* The insert's row is new to the operation, its email and tenant are not:  *)
(* the rereads speak of these two.                                          *)
LEMMA InsertOK ==
    ASSUME RegistryOK, NEW c \in Clients, Insert(c)
    PROVE  RegistryOK'
  <1> USE ClientAssumption
  <1>1. CASE AlreadyMember(op, db)
    BY <1>1, EndOK DEF Insert
  <1>2. CASE ~AlreadyMember(op, db)
    <2>1. /\ c \in SignIns /\ tx[c] = "policy" /\ Step(c, "written") /\ lock' = lock /\ Unchanged
          /\ \E i \in Ids : /\ EnrolledRow([op EXCEPT !.i = i], db)
                            /\ op' = [op EXCEPT !.i = i]
      BY <1>2 DEF Insert
    <2>2. PICK i \in Ids : EnrolledRow([op EXCEPT !.i = i], db) /\ op' = [op EXCEPT !.i = i]
      BY <2>1
    <2>3. /\ op \in Enrollments /\ TenantAdmits(op, db)
          /\ UserAdmissible(op, db) /\ PolicyAdmits(op, db)
      BY <2>1 DEF RegistryOK, RegistryInv, CheckedInv
    <2>4. op' \in Enrollments /\ op'.e = op.e /\ op'.t = op.t /\ op'.kind = "enroll"
      BY <2>2, <2>3 DEF Enrollments
    <2>5. Admissible(op', db)
      BY <1>2, <2>3, <2>4
         DEF Admissible, TenantAdmits, UserAdmissible, PolicyAdmits, AlreadyMember
    <2>6. EnrolledRow(op', db)
      BY <2>2
    <2>7. Valid(op', db)
      BY <2>4, <2>5, <2>6 DEF Valid
    <2>8. Checked(c, "written", op')
      BY <2>4, <2>7 DEF Checked, Ops
    <2> QED
      BY <2>1, <2>8, OwnerOK, AdvanceOK
  <1> QED
    BY <1>1, <1>2

(* A commit is the ledger's operation: what was checked still holds.        *)
LEMMA CommitIsDo ==
    ASSUME RegistryOK, NEW c \in Clients, Commit(c)
    PROVE  op \in Ops /\ Do(op)
  <1>1. op \in Ops /\ Valid(op, db)
    BY DEF RegistryOK, RegistryInv, CheckedInv, Commit
  <1> QED
    BY <1>1 DEF Commit, Do

(* How a change of the registry reaches the operators' envelopes.           *)
LEMMA ChangeSeen ==
    ASSUME RegistryOK, NEW o \in Ops, Do(o)
    PROVE  /\ rev \in Nat /\ rev' \in Nat
           /\ \A b \in Operators : /\ seen[b] <= rev'
                                   /\ seen[b] = rev' => ~(outdated[b] \/ db' # db)
  <1>1. /\ db \in Db /\ rev \in Nat /\ seen \in [Operators -> Nat]
        /\ outdated \in [Operators -> BOOLEAN]
    BY DEF RegistryOK, RegistryTypeOK, LedgerTypeOK
  <1>2. /\ rev' = rev + Statements(o, db) /\ Statements(o, db) \in Nat
        /\ Statements(o, db) = 0 => db' = db
    BY <1>1, StatementsMove DEF Do
  <1>3. \A b \in Operators : seen[b] <= rev /\ (seen[b] = rev => ~outdated[b])
    BY DEF RegistryOK, RegistryInv, SeenInv
  <1>4. rev' \in Nat /\ rev <= rev' /\ (rev' = rev => db' = db)
    BY <1>1, <1>2
  <1>5. ASSUME NEW b \in Operators
        PROVE  seen[b] <= rev' /\ (seen[b] = rev' => ~(outdated[b] \/ db' # db))
    <2>1. seen[b] \in Nat /\ seen[b] <= rev
      BY <1>1, <1>3
    <2>2. seen[b] = rev' => rev' = rev
      BY <1>1, <1>4, <2>1
    <2>3. seen[b] = rev' => ~outdated[b] /\ db' = db
      BY <1>3, <1>4, <2>2
    <2> QED
      BY <1>1, <1>4, <2>1, <2>3
  <1> QED
    BY <1>1, <1>4, <1>5

LEMMA CommitOK ==
    ASSUME RegistryOK, NEW c \in Clients, Commit(c)
    PROVE  RegistryOK'
  <1> USE ClientAssumption DEF Clients
  <1>1. LedgerTypeOK' /\ RegistryConsistent'
    BY CommitIsDo, LedgerStep DEF LedgerNext, RegistryOK, RegistryTypeOK
  <1>2. PICK heard \in BOOLEAN :
           /\ seen' = [o \in Operators |-> IF o = c /\ heard THEN rev' ELSE seen[o]]
           /\ outdated' = [o \in Operators |->
                             IF o = c /\ heard THEN FALSE ELSE outdated[o] \/ db' # db]
    BY DEF Commit
  <1>3. /\ rev \in Nat /\ rev' \in Nat
        /\ \A b \in Operators : /\ seen[b] <= rev'
                                /\ seen[b] = rev' => ~(outdated[b] \/ db' # db)
    BY CommitIsDo, ChangeSeen
  <1>4. lock = c
    BY OwnerOK DEF Commit
  <1>5. tx' = [tx EXCEPT ![c] = "idle"] /\ lock' = Free /\ op' = NoOp /\ audit' = audit \cup {rev'}
    BY <1>4 DEF Commit, End, Step
  <1>6. RegistryTypeOK'
    <2>1. seen' \in [Operators -> Nat]
      BY <1>2, <1>3 DEF RegistryOK, RegistryTypeOK
    <2>2. outdated' \in [Operators -> BOOLEAN]
      BY <1>2 DEF RegistryOK, RegistryTypeOK
    <2> QED
      BY <1>1, <1>3, <1>5, <2>1, <2>2 DEF RegistryOK, RegistryTypeOK
  <1>7. \A b \in Clients : tx'[b] \in {"idle", "begun"}
    BY <1>4, <1>5 DEF RegistryOK, RegistryTypeOK, RegistryInv, LockInv
  <1>8. LockInv' /\ CheckedInv'
    BY <1>5, <1>7 DEF LockInv, CheckedInv
  <1>9. ASSUME NEW b \in Operators
        PROVE  seen'[b] <= rev' /\ (seen'[b] = rev' => ~outdated'[b])
    <2>1. CASE b = c /\ heard
      <3>1. seen'[b] = rev' /\ ~outdated'[b]
        BY <1>2, <2>1
      <3> QED
        BY <1>3, <3>1
    <2>2. CASE ~(b = c /\ heard)
      <3>1. seen'[b] = seen[b] /\ (outdated'[b] <=> (outdated[b] \/ db' # db))
        BY <1>2, <2>2
      <3> QED
        BY <1>3, <3>1
    <2> QED
      BY <2>1, <2>2
  <1>10. SeenInv'
    BY <1>5, <1>9 DEF SeenInv
  <1> QED
    BY <1>1, <1>6, <1>8, <1>10 DEF RegistryOK, RegistryInv

LEMMA PlatformOK ==
    ASSUME RegistryOK, NEW o \in PlatformOps, Platform(o)
    PROVE  RegistryOK'
  <1> USE ClientAssumption DEF Clients
  <1>1. o \in Ops /\ Do(o)
    BY DEF Platform, Ops
  <1>2. LedgerTypeOK' /\ RegistryConsistent'
    BY <1>1, LedgerStep DEF LedgerNext, RegistryOK, RegistryTypeOK
  <1>3. /\ lock = Free /\ UNCHANGED <<lock, tx, op, seen, audit>>
        /\ outdated' = [b \in Operators |-> outdated[b] \/ db' # db]
    BY DEF Platform
  <1>4. RegistryTypeOK'
    BY <1>2, <1>3 DEF RegistryOK, RegistryTypeOK
  <1>5. \A b \in Clients : tx'[b] \in {"idle", "begun"}
    BY <1>3 DEF RegistryOK, RegistryTypeOK, RegistryInv, LockInv
  <1>6. LockInv' /\ CheckedInv'
    BY <1>3, <1>5 DEF LockInv, CheckedInv
  <1>7. ASSUME NEW b \in Operators
        PROVE  seen'[b] <= rev' /\ (seen'[b] = rev' => ~outdated'[b])
    <2>1. seen'[b] = seen[b] /\ (outdated'[b] <=> (outdated[b] \/ db' # db))
      BY <1>3
    <2> QED
      BY <1>1, <2>1, ChangeSeen
  <1>8. SeenInv'
    BY <1>3, <1>7 DEF SeenInv
  <1> QED
    BY <1>2, <1>4, <1>6, <1>8 DEF RegistryOK, RegistryInv

LEMMA RegistryStepOK ==
    ASSUME RegistryOK, [RegistryNext]_registryVars
    PROVE  RegistryOK'
  <1>1. CASE UNCHANGED registryVars
    BY <1>1 DEF registryVars, RegistryOK, RegistryTypeOK, RegistryInv, RegistryConsistent,
                LedgerTypeOK, LockInv, SeenInv, CheckedInv
  <1>2. ASSUME NEW o \in Operators, Read(o) PROVE RegistryOK'
    BY <1>2, ReadOK
  <1>3. ASSUME NEW c \in Clients, Begin(c) \/ Lock(c) \/ TxStep(c) \/ Abort(c)
        PROVE  RegistryOK'
    <2>1. CASE Begin(c) \/ Lock(c)
      BY <2>1, BeginOK, LockOK
    <2>2. CASE TxStep(c)
      BY <2>2, MutateOK, RereadsOK, InsertOK, CommitOK DEF TxStep
    <2>3. CASE Abort(c)
      BY <2>3, EndOK DEF Abort
    <2> QED
      BY <1>3, <2>1, <2>2, <2>3
  <1>4. ASSUME NEW o \in PlatformOps, Platform(o) PROVE RegistryOK'
    BY <1>4, PlatformOK
  <1> QED
    BY <1>1, <1>2, <1>3, <1>4 DEF RegistryNext

(* Only commits and the platform change the registry, by operations that    *)
(* are valid in the state they change.                                      *)
LEMMA StepIsLedger ==
    ASSUME RegistryOK, [RegistryNext]_registryVars
    PROVE  [LedgerNext]_ledgerVars
  <1>1. CASE UNCHANGED registryVars
    BY <1>1 DEF registryVars, ledgerVars
  <1>2. ASSUME NEW o \in Operators, Read(o) PROVE UNCHANGED ledgerVars
    BY <1>2 DEF Read, ledgerVars
  <1>3. ASSUME NEW c \in Clients, Begin(c) \/ Lock(c) \/ TxStep(c) \/ Abort(c)
        PROVE  [LedgerNext]_ledgerVars
    <2>1. CASE Commit(c)
      BY <2>1, CommitIsDo DEF LedgerNext
    <2>2. CASE ~Commit(c)
      BY <1>3, <2>2 DEF Begin, Lock, TxStep, Mutate, RereadTenant, RereadUser, RereadPolicy,
                        Reread, Insert, Abort, Unchanged, ledgerVars
    <2> QED
      BY <2>1, <2>2
  <1>4. ASSUME NEW o \in PlatformOps, Platform(o) PROVE LedgerNext
    BY <1>4 DEF Platform, LedgerNext, Ops
  <1> QED
    BY <1>1, <1>2, <1>3, <1>4 DEF RegistryNext

(* The transactions of Store.write and AutoAddUser, cut into statements and *)
(* aborted anywhere, implement the registry of whole operations.            *)
THEOREM RegistryImplementsLedger == RegistrySpec => LedgerSpec
  <1>1. RegistryInit => RegistryOK /\ LedgerInit
    BY RegistryInitOK DEF RegistryInit
  <1>2. RegistryOK /\ [RegistryNext]_registryVars => RegistryOK' /\ [LedgerNext]_ledgerVars
    BY RegistryStepOK, StepIsLedger
  <1> QED
    BY <1>1, <1>2, PTL DEF RegistrySpec, LedgerSpec

(* No operator commits over a registry it has not seen, and no sign-in      *)
(* enrolls against committed policy: the revision lock of Store.write and   *)
(* AutoAddUser keeps what was compared and reread true to the commit.       *)
THEOREM NoLostUpdateHolds == RegistrySpec => [](NoLostUpdate /\ EnrollmentAdmitted)
  <1>1. RegistryInit => RegistryOK
    BY RegistryInitOK
  <1>2. RegistryOK /\ [RegistryNext]_registryVars => RegistryOK'
    BY RegistryStepOK
  <1>3. RegistryOK => NoLostUpdate /\ EnrollmentAdmitted
    <2> SUFFICES ASSUME RegistryOK PROVE NoLostUpdate /\ EnrollmentAdmitted
      OBVIOUS
    <2>1. NoLostUpdate
      BY OwnerOK DEF NoLostUpdate, RegistryOK, RegistryInv, SeenInv, Clients
    <2>2. EnrollmentAdmitted
      BY DEF EnrollmentAdmitted, RegistryOK, RegistryInv, CheckedInv, Clients
    <2> QED
      BY <2>1, <2>2
  <1> QED
    BY <1>1, <1>2, <1>3, PTL DEF RegistrySpec

(* No audit row names a revision that is still to come.                     *)
AuditInv == \A r \in audit : r <= rev

LEMMA AuditStep ==
    ASSUME RegistryOK, AuditInv, [RegistryNext]_registryVars
    PROVE  AuditInv'
  <1>1. rev \in Nat /\ db \in Db /\ audit \subseteq Nat
    BY DEF RegistryOK, RegistryTypeOK, LedgerTypeOK
  <1>2. rev' \in Nat /\ rev <= rev'
    <2>1. CASE UNCHANGED ledgerVars
      BY <1>1, <2>1 DEF ledgerVars
    <2>2. ASSUME NEW o \in Ops, Do(o) PROVE rev' \in Nat /\ rev <= rev'
      BY <1>1, <2>2, StatementsMove DEF Do
    <2> QED
      BY <2>1, <2>2, StepIsLedger DEF LedgerNext
  <1>3. audit' = audit \/ audit' = audit \cup {rev'}
    BY DEF RegistryNext, registryVars, Read, Begin, Lock, TxStep, Mutate, RereadTenant,
           RereadUser, RereadPolicy, Reread, Insert, Commit, Abort, Platform, Unchanged
  <1>4. \A r \in audit : r \in Nat /\ r <= rev
    BY <1>1 DEF AuditInv
  <1>5. \A r \in audit : r <= rev'
    BY <1>1, <1>2, <1>4
  <1>6. \A r \in audit' : r <= rev'
    BY <1>2, <1>3, <1>5
  <1> QED
    BY <1>6 DEF AuditInv

(* An enrollment is valid only where it changes something: the user has no  *)
(* row yet, or no membership.                                               *)
LEMMA EnrollChanges ==
    ASSUME NEW d \in Db, NEW o \in Enrollments, Valid(o, d)
    PROVE  Apply(o, d) # d
  <1>1. o.kind = "enroll" /\ o.i \in Ids /\ o.t \in Tenants /\ o.e \in Emails
    BY DEF Enrollments
  <1>2. Admissible(o, d) /\ EnrolledRow(o, d)
    BY <1>1 DEF Valid
  <1>3. PICK r : r = Enrolled(o, d)
    OBVIOUS
  <1>4. r.email[o.i] = o.e /\ r.member[o.i][o.t] = "inherit"
    BY <1>1, <1>3 DEF Enrolled, Db
  <1>5. CASE d.email[o.i] = o.e
    <2>1. d.member[o.i][o.t] = "no"
      BY <1>1, <1>2, <1>5 DEF Admissible, AlreadyMember
    <2>2. r # d
      BY <1>4, <2>1
    <2> QED
      BY <1>1, <1>3, <2>2 DEF Apply
  <1>6. CASE d.email[o.i] # o.e
    <2>1. r # d
      BY <1>4, <1>6
    <2> QED
      BY <1>1, <1>3, <2>1 DEF Apply
  <1> QED
    BY <1>5, <1>6

(* Every change a client commits is named by an audit row of its own: the   *)
(* revision is reread after the statements, and every change moves it.  And *)
(* a sign-in that finds itself enrolled already leaves neither.             *)
THEOREM AuditNamesChangeHolds == RegistrySpec => AuditNamesChange
  <1>1. RegistryInit => RegistryOK /\ AuditInv
    BY RegistryInitOK DEF RegistryInit, AuditInv
  <1>2. RegistryOK /\ AuditInv /\ [RegistryNext]_registryVars => (RegistryOK /\ AuditInv)'
    BY RegistryStepOK, AuditStep
  <1>3. RegistryOK /\ AuditInv /\ [RegistryNext]_registryVars
          => [\A c \in Clients :
                tx[c] = "written" /\ tx'[c] = "idle" =>
                    /\ db' # db => rev' \in audit' \ audit
                    /\ c \in SignIns /\ <<rev, audit>>' # <<rev, audit>>
                         => db' # db]_registryVars
    <2> SUFFICES ASSUME RegistryOK, AuditInv, RegistryNext, NEW c \in Clients,
                        tx[c] = "written", tx'[c] = "idle"
                 PROVE  /\ db' # db => rev' \in audit' \ audit
                        /\ c \in SignIns /\ <<rev, audit>>' # <<rev, audit>> => db' # db
      OBVIOUS
    <2>1. rev \in Nat /\ db \in Db /\ audit \subseteq Nat
      BY DEF RegistryOK, RegistryTypeOK, LedgerTypeOK
    <2>2. lock = c
      BY OwnerOK
    <2>3. (\E b \in Clients : Commit(b)) \/ UNCHANGED <<db, rev, audit>>
      BY <2>2, ClientAssumption
         DEF RegistryNext, Read, Begin, Lock, TxStep, Mutate, RereadTenant, RereadUser,
             RereadPolicy, Reread, Insert, Abort, Platform, Unchanged
    <2>4. CASE UNCHANGED <<db, rev, audit>>
      BY <2>4
    <2>5. ASSUME NEW b \in Clients, Commit(b)
          PROVE  /\ db' # db => rev' \in audit' \ audit
                 /\ c \in SignIns => db' # db
      <3>1. op \in Ops /\ Do(op) /\ audit' = audit \cup {rev'}
        BY <2>5, CommitIsDo DEF Commit
      <3>2. ASSUME db' # db PROVE rev' \in audit' \ audit
        <4>1. rev' \in Nat /\ rev < rev'
          BY <2>1, <3>1, <3>2, StatementsMove DEF Do
        <4> QED
          BY <2>1, <3>1, <4>1 DEF AuditInv
      <3>3. ASSUME c \in SignIns PROVE db' # db
        <4>1. op \in Enrollments
          BY <3>3 DEF RegistryOK, RegistryInv, CheckedInv
        <4> QED
          BY <2>1, <3>1, <4>1, EnrollChanges DEF Do
      <3> QED
        BY <3>2, <3>3
    <2> QED
      BY <2>3, <2>4, <2>5
  <1> QED
    BY <1>1, <1>2, <1>3, PTL DEF RegistrySpec, AuditNamesChange

=============================================================================
