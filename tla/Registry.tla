------------------------------ MODULE Registry ------------------------------
(***************************************************************************)
(* The transactions that change the registry, statement by statement:      *)
(* Store.write of internal/admin/store.go for operators, AutoAddUser of    *)
(* internal/mtdb/enrollment.go for sign-ins, and the platform's own        *)
(* writes.  All of them take the row lock of auth_admin_state first        *)
(* (SELECT ... FOR UPDATE, or the BEFORE STATEMENT trigger) and keep it to *)
(* the end of the transaction.  PostgreSQL runs at READ COMMITTED: each    *)
(* statement sees what is committed when it starts.                        *)
(*                                                                         *)
(* A transaction's checks and its writes are separate steps, and it may    *)
(* end between any two of them: the client goes, the connection breaks,    *)
(* the process dies.  A commit may succeed and its answer be lost.         *)
(***************************************************************************)
EXTENDS Ledger

CONSTANTS
    Operators,    \* consoles, each with one request at a time
    SignIns,      \* sign-ins that reached autoAdd's transaction
    Free          \* the owner of a free row lock

Clients == Operators \cup SignIns

ASSUME ClientAssumption == Operators \cap SignIns = {} /\ Free \notin Clients

VARIABLES
    lock,         \* who holds the row lock of auth_admin_state
    tx,           \* tx[c]: where client c's transaction is
    op,           \* what the lock's owner does, once it has looked at it
    seen,         \* seen[o]: the revision of the envelope operator o holds
    outdated,     \* history: the registry changed since o's envelope
    audit         \* auth_admin_audit: the revisions its rows name

registryVars == <<db, rev, lock, tx, op, seen, outdated, audit>>

NoOp == [kind |-> "none"]

RegistryTypeOK ==
    /\ LedgerTypeOK
    /\ lock \in Clients \cup {Free}
    /\ tx \in [Clients -> {"idle", "begun", "locked", "tenant", "user", "policy", "written"}]
    /\ op \in Ops \cup {NoOp}
    /\ seen \in [Operators -> Nat]
    /\ outdated \in [Operators -> BOOLEAN]
    /\ audit \subseteq Nat

RegistryInit ==
    /\ LedgerInit
    /\ lock = Free
    /\ tx = [c \in Clients |-> "idle"]
    /\ op = NoOp
    /\ seen = [o \in Operators |-> 0]
    /\ outdated = [o \in Operators |-> FALSE]
    /\ audit = {}

Step(c, s) == tx' = [tx EXCEPT ![c] = s]

(* The transaction is over, committed or rolled back.                       *)
End(c) ==
    /\ Step(c, "idle")
    /\ lock' = IF lock = c THEN Free ELSE lock
    /\ op' = IF lock = c THEN NoOp ELSE op

Unchanged == UNCHANGED <<db, rev, seen, outdated, audit>>

----------------------------------------------------------------------------
(* Store.read: revision and rows of one REPEATABLE READ snapshot.           *)
Read(o) ==
    /\ tx[o] = "idle"
    /\ seen' = [seen EXCEPT ![o] = rev]
    /\ outdated' = [outdated EXCEPT ![o] = FALSE]
    /\ UNCHANGED <<db, rev, lock, tx, op, audit>>

(* A request that passed expectedRevision, decode and validate; or a        *)
(* sign-in whose caches, of any age, told autoAdd to enroll.                *)
Begin(c) ==
    /\ tx[c] = "idle"
    /\ Step(c, "begun")
    /\ UNCHANGED <<op, lock>>
    /\ Unchanged

(* Mutant: If-Match is not compared with the locked revision.               *)
LockUnmatched(c) ==
    /\ tx[c] = "begun"
    /\ lock = Free
    /\ Step(c, "locked") /\ lock' = c /\ op' = op
    /\ Unchanged

(* SELECT revision ... FOR UPDATE; an operator's If-Match must equal it.    *)
Lock(c) ==
    /\ tx[c] = "begun"
    /\ lock = Free
    /\ IF c \in Operators /\ seen[c] # rev
       THEN End(c)
       ELSE Step(c, "locked") /\ lock' = c /\ op' = op
    /\ Unchanged

(* Mutant: the rejected transaction is not rolled back.                     *)
MutateHolds(c, o) ==
    /\ c \in Operators
    /\ tx[c] = "locked"
    /\ IF Valid(o, db)
       THEN Step(c, "written") /\ op' = o
       ELSE Step(c, "idle") /\ op' = op
    /\ lock' = lock
    /\ Unchanged

(* fn(tx): the checks and statements of the operator's request o.           *)
Mutate(c, o) ==
    /\ c \in Operators
    /\ tx[c] = "locked"
    /\ IF Valid(o, db)
       THEN Step(c, "written") /\ op' = o /\ lock' = lock
       ELSE End(c)
    /\ Unchanged

(* AutoAddUser's rereads for the enrollment o, one query after the other;   *)
(* any of them denies.                                                      *)
Reread(c, o, from, admitted, to) ==
    /\ c \in SignIns
    /\ tx[c] = from
    /\ IF admitted
       THEN Step(c, to) /\ op' = o /\ lock' = lock
       ELSE End(c)
    /\ Unchanged

RereadTenant(c, o) == Reread(c, o, "locked", TenantAdmits(o, db), "tenant")
RereadUser(c) == Reread(c, op, "tenant", UserAdmissible(op, db), "user")

(* Mutant: the cached policy is taken for the committed one.                *)
RereadPolicyCached(c) == Reread(c, op, "user", TRUE, "policy")

RereadPolicy(c) == Reread(c, op, "user", PolicyAdmits(op, db), "policy")

(* Another sign-in enrolled first: commit without a statement.  Otherwise   *)
(* the inserts, on the user's row or on a new one.                          *)
Insert(c) ==
    /\ c \in SignIns
    /\ tx[c] = "policy"
    /\ IF AlreadyMember(op, db)
       THEN End(c)
       ELSE /\ Step(c, "written")
            /\ \E i \in Ids : /\ EnrolledRow([op EXCEPT !.i = i], db)
                              /\ op' = [op EXCEPT !.i = i]
            /\ lock' = lock
    /\ Unchanged

(* Mutant: the revision is not reread before the audit row.                 *)
CommitAuditsFirst(c) ==
    /\ tx[c] = "written"
    /\ rev + Statements(op, db) <= MaxRev
    /\ rev' = rev + Statements(op, db)
    /\ db' = Apply(op, db)
    /\ audit' = audit \cup {rev}
    /\ UNCHANGED <<seen, outdated>>
    /\ End(c)

(* The audit row names the revision reread after the statements.  The       *)
(* operator who hears of the commit holds its revision from now on.         *)
Commit(c) ==
    /\ tx[c] = "written"
    /\ rev + Statements(op, db) <= MaxRev
    /\ rev' = rev + Statements(op, db)
    /\ db' = Apply(op, db)
    /\ audit' = audit \cup {rev'}
    /\ \E heard \in BOOLEAN :
         /\ seen' = [o \in Operators |-> IF o = c /\ heard THEN rev' ELSE seen[o]]
         /\ outdated' = [o \in Operators |->
                           IF o = c /\ heard THEN FALSE ELSE outdated[o] \/ db' # db]
    /\ End(c)

(* The transaction ends before its commit: nothing happened.                *)
Abort(c) ==
    /\ tx[c] # "idle"
    /\ End(c)
    /\ Unchanged

(* The platform deletes a tenant or a user: its trigger waits for the lock  *)
(* and its one statement commits.                                           *)
Platform(o) ==
    /\ lock = Free
    /\ Do(o)
    /\ outdated' = [c \in Operators |-> outdated[c] \/ db' # db]
    /\ UNCHANGED <<lock, tx, op, seen, audit>>

TxStep(c) ==
    \/ \E o \in OperatorOps : Mutate(c, o)
    \/ \E o \in Enrollments : RereadTenant(c, o)
    \/ RereadUser(c) \/ RereadPolicy(c) \/ Insert(c) \/ Commit(c)

RegistryNext ==
    \/ \E o \in Operators : Read(o)
    \/ \E c \in Clients : Begin(c) \/ Lock(c) \/ TxStep(c) \/ Abort(c)
    \/ \E o \in PlatformOps : Platform(o)

(* A transaction that has the lock goes on or is rolled back; PostgreSQL    *)
(* queues the waiters of a row lock.                                        *)
RegistryFairness ==
    \A c \in Clients :
        /\ WF_registryVars(TxStep(c) \/ (lock = c /\ Abort(c)))
        /\ SF_registryVars(Lock(c))

RegistrySpec == RegistryInit /\ [][RegistryNext]_registryVars /\ RegistryFairness

----------------------------------------------------------------------------
(* Properties.                                                              *)

(* No lost update: an operator's statements reach the commit only while the *)
(* registry is the one the operator looked at, however reads, saves, lost   *)
(* answers, retries, enrollments and platform writes interleave ("favors    *)
(* conservative conflicts over lost writes", store.go).                     *)
NoLostUpdate == \A o \in Operators : tx[o] = "written" => ~outdated[o]

(* "Cached policy cannot enroll against a committed disable or domain       *)
(* change" (enrollment.go): at the commit of an enrollment, every admission *)
(* input is still what the rereads found.                                   *)
EnrollmentAdmitted ==
    \A s \in SignIns : tx[s] = "written" => Valid(op, db)

(* Every change a client commits leaves an audit row that names the change: *)
(* its revision is the row's, and no earlier row names it (an operator's    *)
(* empty policy save is audited under the revision it found).  And of two   *)
(* sign-ins that enroll the same user at once, the second leaves no audit   *)
(* row and no revision of its own: a sign-in that moves them has changed    *)
(* the registry.                                                            *)
AuditNamesChange ==
    [][\A c \in Clients :
         tx[c] = "written" /\ tx'[c] = "idle" =>
             /\ db' # db => rev' \in audit' \ audit
             /\ c \in SignIns /\ <<rev, audit>>' # <<rev, audit>> => db' # db]_registryVars

(* Every transaction ends: nobody keeps the lock, everybody gets it.        *)
TxEnds == \A c \in Clients : tx[c] # "idle" ~> tx[c] = "idle"

(* The inductive strengthening: past the lock a client owns it, and what it *)
(* has checked is still true.                                               *)
LockInv == \A c \in Clients : tx[c] \notin {"idle", "begun"} <=> lock = c

SeenInv ==
    /\ \A o \in Operators : seen[o] <= rev /\ (seen[o] = rev => ~outdated[o])
    /\ \A o \in Operators : lock = o => seen[o] = rev

CheckedInv ==
    /\ \A c \in Clients : tx[c] = "written" => op \in Ops /\ Valid(op, db)
    /\ \A s \in SignIns :
          /\ tx[s] \in {"tenant", "user", "policy"} => op \in Enrollments /\ TenantAdmits(op, db)
          /\ tx[s] \in {"user", "policy"} => UserAdmissible(op, db)
          /\ tx[s] = "policy" => PolicyAdmits(op, db)
          /\ tx[s] = "written" => op \in Enrollments

RegistryInv == LockInv /\ SeenInv /\ CheckedInv

=============================================================================
