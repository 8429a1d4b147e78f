----------------------------- MODULE Migration -----------------------------
(***************************************************************************)
(* `scitrera-auth-proxy migrate' (internal/mtdb/schema.go, migrations/*.sql)*)
(* run by several operators or deployment jobs at once, each in one        *)
(* transaction, statement by statement; replicas that verify the schema at *)
(* start, outside any transaction; and the platform, the operator API and  *)
(* enrollment writing rows meanwhile.                                      *)
(*                                                                         *)
(* db is what is committed.  A migration's own uncommitted objects are     *)
(* made[m]: a statement of m sees them laid over what others committed     *)
(* (READ COMMITTED), nobody else sees them, and a rollback drops them.     *)
(***************************************************************************)
EXTENDS Identifiers

CONSTANTS
    Migrators,     \* runs of `migrate'
    Replicas,      \* processes that start and verify
    Texts,         \* the spellings that writers use
    MaxRows,       \* bound: rows kept at once
    None

ASSUME MigrationConstants ==
    Texts \subseteq Spellings /\ MaxRows \in Nat /\ None \notin Migrators

(* Two of the five MT tables stand for all of them: some, but not all, may  *)
(* be there.  "admin" is auth_admin_state with its row, _sessions, _audit   *)
(* and the functions; "column" is user_tenants.auth_checks; "v1".."v3" are  *)
(* the rows of auth_admin_migrations; "proxy" is the auth_proxy schema with *)
(* its ledger and "acl" the permission seeded in it.                        *)
Tables == {"tenants", "users"}
Made001 == {"index", "admin", "triggers"}
Versions == {"v1", "v2", "v3"}
Objects == Tables \union Made001 \union Versions \union {"column", "proxy", "acl"}
Statuses == {"absent", "ok", "bad"}

VARIABLES
    db,          \* committed: the status of every object
    rows,        \* committed: users and domains
    lock,        \* pg_advisory_xact_lock(731954231)
    pc,          \* pc[m]: the next statement of migration m
    made,        \* made[m]: what m has created and not committed
    check,       \* check[r]: the next check of replica r
    touched      \* touched[r]: an object was broken since r began to check

migrationVars == <<db, rows, lock, pc, made, check, touched>>

InTx == {"waiting", "count", "checkMT", "version", "m001", "m002",
         "checkSchema", "proxyLedger", "checkProxy", "commit"}
Idle == {"idle", "refused"}
Checks == {"mt", "ledger", "column", "admin", "triggers", "index", "proxy"}

(* What a statement of m reads.                                             *)
View(m) == [o \in Objects |-> IF o \in made[m] THEN "ok" ELSE db[o]]

VersionOf(d) ==
    CASE d["v3"] = "ok" -> 3
      [] d["v3"] # "ok" /\ d["v2"] = "ok" -> 2
      [] d["v3"] # "ok" /\ d["v2"] # "ok" /\ d["v1"] = "ok" -> 1
      [] OTHER -> 0

(* checkMT: columns, keys and foreign keys of the five tables.              *)
CheckMT(d) == \A t \in Tables : d[t] = "ok"

(* max = 2 and count = 2.                                                   *)
CheckLedger(d) == d["v1"] = "ok" /\ d["v2"] = "ok" /\ d["v3"] = "absent"

(* checkSchema, in its order, one statement or loop of it at a time.        *)
SchemaCheck(d, step) ==
    CASE step = "mt" -> CheckMT(d)
      [] step = "ledger" -> CheckLedger(d)
      [] OTHER -> d[step] = "ok"

NextCheck ==
    [mt |-> "ledger", ledger |-> "column", column |-> "admin", admin |-> "triggers",
     triggers |-> "index", index |-> "proxy", proxy |-> "ready"]

CheckSchema(d) == \A step \in Checks \ {"proxy"} : SchemaCheck(d, step)

-----------------------------------------------------------------------------

(* The databases a deployment starts from: empty, another product's tables  *)
(* under some of the names, the platform's own, one that an earlier or a    *)
(* newer binary migrated.                                                   *)
Holding(present) == [o \in Objects |-> IF o \in present THEN "ok" ELSE "absent"]

StartingPoints ==
    LET v1 == Tables \union Made001 \union {"v1"}
        v2 == v1 \union {"column", "v2"}
        proxy == {"proxy", "acl"} IN
    {Holding(o) : o \in {{}, {"users"}, Tables, v1, v1 \union proxy, v2 \union proxy,
                         v2 \union proxy \union {"v3"}}}
      \union {[Holding(Tables) EXCEPT !["users"] = "bad"]}

MigrationInit ==
    /\ db \in StartingPoints
    /\ rows = {}
    /\ lock = None
    /\ pc = [m \in Migrators |-> "idle"]
    /\ made = [m \in Migrators |-> {}]
    /\ check = [r \in Replicas |-> "down"]
    /\ touched = [r \in Replicas |-> FALSE]

Step(m, here, there) ==
    pc[m] = here /\ pc' = [pc EXCEPT ![m] = there]

(* An error is returned: the deferred Rollback drops what m created, and    *)
(* the end of the transaction frees the lock.                               *)
Ended(m, outcome) ==
    /\ pc' = [pc EXCEPT ![m] = outcome]
    /\ made' = [made EXCEPT ![m] = {}]
    /\ lock' = (IF lock = m THEN None ELSE lock)
    /\ UNCHANGED <<db, rows, check, touched>>

(* Mutant: an early return leaves the transaction open.                     *)
RefuseKeepsLock(m) ==
    /\ pc' = [pc EXCEPT ![m] = "refused"]
    /\ made' = [made EXCEPT ![m] = {}]
    /\ UNCHANGED <<db, rows, lock, check, touched>>

Refuse(m) == Ended(m, "refused")

Quiet == UNCHANGED <<db, rows, lock, check, touched>>

-----------------------------------------------------------------------------

(* migrate is run, for the first time or again after any outcome.           *)
Begin(m) ==
    /\ pc[m] \in Idle
    /\ pc' = [pc EXCEPT ![m] = "waiting"]
    /\ made' = made /\ Quiet

(* Mutant: nobody waits.                                                    *)
LockIgnored(m) ==
    /\ Step(m, "waiting", "count")
    /\ lock' = m
    /\ UNCHANGED <<db, rows, made, check, touched>>

Lock(m) ==
    /\ lock = None
    /\ Step(m, "waiting", "count")
    /\ lock' = m
    /\ UNCHANGED <<db, rows, made, check, touched>>

Count(m) ==
    LET found == {t \in Tables : View(m)[t] # "absent"} IN
    /\ pc[m] = "count"
    /\ \/ found = {} /\ Step(m, "count", "version") /\ made' = made /\ Quiet
       \/ found = Tables /\ Step(m, "count", "checkMT") /\ made' = made /\ Quiet
       \/ found \notin {{}, Tables} /\ Refuse(m)

CheckTables(m) ==
    /\ pc[m] = "checkMT"
    /\ \/ CheckMT(View(m)) /\ Step(m, "checkMT", "version") /\ made' = made /\ Quiet
       \/ ~CheckMT(View(m)) /\ Refuse(m)

(* CREATE TABLE IF NOT EXISTS auth_admin_migrations, and its newest row.    *)
ReadVersion(m) ==
    LET v == VersionOf(View(m)) IN
    /\ pc[m] = "version"
    /\ \/ v = 0 /\ Step(m, "version", "m001") /\ made' = made /\ Quiet
       \/ v = 1 /\ Step(m, "version", "m002") /\ made' = made /\ Quiet
       \/ v = 2 /\ Step(m, "version", "checkSchema") /\ made' = made /\ Quiet
       \/ v > 2 /\ Refuse(m)

(* 001_auth.sql: missing tables are created, existing ones kept as they     *)
(* are; the other objects must be new; ambiguous rows fail an index, and an *)
(* incompatible table may fail any statement on it.                         *)
Apply001(m) ==
    LET missing == {t \in Tables : View(m)[t] = "absent"}
        fits == Unambiguous(rows) /\ \A o \in Made001 : View(m)[o] = "absent" IN
    /\ pc[m] = "m001"
    /\ \/ /\ fits /\ Step(m, "m001", "m002")
          /\ made' = [made EXCEPT ![m] = @ \union missing \union Made001 \union {"v1"}]
          /\ Quiet
       \/ (~fits \/ \E t \in Tables : View(m)[t] = "bad") /\ Refuse(m)

(* 002_membership_checks.sql                                                *)
Apply002(m) ==
    /\ pc[m] = "m002"
    /\ \/ /\ View(m)["column"] = "absent" /\ Step(m, "m002", "checkSchema")
          /\ made' = [made EXCEPT ![m] = @ \union {"column", "v2"}]
          /\ Quiet
       \/ View(m)["column"] # "absent" /\ Refuse(m)

(* Mutant: what the migration found is trusted to be as it was.             *)
VerifyVersionOnly(m) ==
    /\ Step(m, "checkSchema", "proxyLedger")
    /\ made' = made /\ Quiet

Verify(m) ==
    /\ pc[m] = "checkSchema"
    /\ \/ CheckSchema(View(m)) /\ Step(m, "checkSchema", "proxyLedger") /\ made' = made /\ Quiet
       \/ ~CheckSchema(View(m)) /\ Refuse(m)

(* 001_proxy.sql runs only where auth_proxy.schema_version is missing.      *)
SetupProxy(m) ==
    /\ Step(m, "proxyLedger", "checkProxy")
    /\ made' = [made EXCEPT ![m] = @ \union (IF View(m)["proxy"] = "absent" THEN {"proxy", "acl"} ELSE {})]
    /\ Quiet

CheckProxy(m) ==
    /\ pc[m] = "checkProxy"
    /\ \/ View(m)["proxy"] = "ok" /\ Step(m, "checkProxy", "commit") /\ made' = made /\ Quiet
       \/ View(m)["proxy"] # "ok" /\ Refuse(m)

(* The commit is applied.  Whether its answer arrives or is lost, and then  *)
(* an error is printed all the same, migrate may be run again.              *)
Commit(m) ==
    /\ pc[m] = "commit"
    /\ pc' = [pc EXCEPT ![m] = "idle"]
    /\ db' = View(m)
    /\ made' = [made EXCEPT ![m] = {}]
    /\ lock' = None
    /\ UNCHANGED <<rows, check, touched>>

(* The two minutes run out, the connection breaks, or the process dies.     *)
Abort(m) == pc[m] \in InTx /\ Ended(m, "idle")

Migrate(m) ==
    \/ Lock(m) \/ Count(m) \/ CheckTables(m) \/ ReadVersion(m) \/ Apply001(m)
    \/ Apply002(m) \/ Verify(m) \/ SetupProxy(m) \/ CheckProxy(m) \/ Commit(m)

-----------------------------------------------------------------------------

(* VerifySchema: checkSchema, then checkProxySchema, on the pool.  A        *)
(* replica never migrates.                                                  *)
Start(r) ==
    /\ check[r] = "down"
    /\ check' = [check EXCEPT ![r] = "mt"]
    /\ touched' = [touched EXCEPT ![r] = FALSE]
    /\ UNCHANGED <<db, rows, lock, pc, made>>

(* Mutant: the triggers are taken to be there with their tables.            *)
VerifySchemaNoTriggers(r) ==
    /\ check[r] \in Checks
    /\ check' = [check EXCEPT ![r] =
                   IF SchemaCheck(db, @) \/ @ = "triggers" THEN NextCheck[@] ELSE "refused"]
    /\ UNCHANGED <<db, rows, lock, pc, made, touched>>

VerifySchema(r) ==
    /\ check[r] \in Checks
    /\ check' = [check EXCEPT ![r] = IF SchemaCheck(db, @) THEN NextCheck[@] ELSE "refused"]
    /\ UNCHANGED <<db, rows, lock, pc, made, touched>>

Stop(r) ==
    /\ check[r] # "down"
    /\ check' = [check EXCEPT ![r] = "down"]
    /\ touched' = [touched EXCEPT ![r] = FALSE]
    /\ UNCHANGED <<db, rows, lock, pc, made>>

-----------------------------------------------------------------------------

(* A writer waits while an uncommitted migration holds the tables' locks,   *)
(* and an index that is in force refuses a second spelling of a row.        *)
Store(new) ==
    /\ db["users"] # "absent" /\ db["tenants"] # "absent"
    /\ \A m \in Migrators : made[m] \intersect Made001 = {}
    /\ Cardinality(new) <= MaxRows
    /\ db["index"] = "ok" => Unambiguous(new)
    /\ rows' = new
    /\ UNCHANGED <<db, lock, pc, made, check, touched>>

(* The platform adds or deletes a row, in any spelling.                     *)
PlatformAdds(row) ==
    /\ row \notin rows
    /\ row.kind = "user" => row.text.dots = 0
    /\ Store(rows \union {row})

PlatformDeletes(row) == row \in rows /\ Store(rows \ {row})

(* The operator API saves what validation made of the spelling typed.       *)
Save(kind, typed) ==
    LET text == Validated(kind, typed) IN
    /\ \E r \in Replicas : check[r] = "ready"
    /\ Valid(kind, typed)
    /\ [kind |-> kind, text |-> text] \notin rows
    /\ Store(rows \union {[kind |-> kind, text |-> text]})

(* AutoAddUser inserts the claim it looked up and did not find.             *)
Enroll(claim) ==
    /\ \E r \in Replicas : check[r] = "ready"
    /\ Found(rows, "user", ClaimKey(claim)) = {}
    /\ Store(rows \union {[kind |-> "user", text |-> ClaimKey(claim)]})

(* The platform creates a table of its own; the name is taken while a       *)
(* migration has it uncommitted.                                            *)
PlatformCreates(t, status) ==
    /\ db[t] = "absent"
    /\ \A m \in Migrators : t \notin made[m]
    /\ db' = [db EXCEPT ![t] = status]
    /\ UNCHANGED <<rows, lock, pc, made, check, touched>>

(* The owner breaks an object by hand (a trigger disabled, a column         *)
(* altered), or restores it; not while a migration runs.                    *)
Break(o) ==
    /\ lock = None
    /\ db[o] = "ok" /\ \A p \in Objects : db[p] # "bad"
    /\ db' = [db EXCEPT ![o] = "bad"]
    /\ touched' = [r \in Replicas |-> check[r] # "down"]
    /\ UNCHANGED <<rows, lock, pc, made, check>>

Restore(o) ==
    /\ lock = None
    /\ db[o] = "bad"
    /\ o = "index" => Unambiguous(rows)
    /\ db' = [db EXCEPT ![o] = "ok"]
    /\ UNCHANGED <<rows, lock, pc, made, check, touched>>

(* docs/schema.md: an operator may withdraw the seeded permission.          *)
RemovePermission ==
    /\ db["acl"] = "ok"
    /\ db' = [db EXCEPT !["acl"] = "absent"]
    /\ UNCHANGED <<rows, lock, pc, made, check, touched>>

-----------------------------------------------------------------------------

Breakable == {"users", "index", "triggers", "proxy"}

MigrationNext ==
    \/ \E m \in Migrators : Begin(m) \/ Migrate(m) \/ Abort(m)
    \/ \E r \in Replicas : Start(r) \/ VerifySchema(r) \/ Stop(r)
    \/ \E row \in [kind : Kinds, text : Texts] : PlatformAdds(row)
    \/ \E row \in rows : PlatformDeletes(row)
    \/ \E kind \in Kinds, typed \in Texts : Save(kind, typed)
    \/ \E claim \in Texts \intersect Claims : Enroll(claim)
    \/ \E t \in Tables, status \in {"ok", "bad"} : PlatformCreates(t, status)
    \/ \E o \in Breakable : Break(o) \/ Restore(o)
    \/ RemovePermission

(* Every statement gets an answer in the end, and PostgreSQL hands the      *)
(* advisory lock out in the order it was asked for.                         *)
MigrationSpec ==
    /\ MigrationInit /\ [][MigrationNext]_migrationVars
    /\ \A m \in Migrators :
         WF_migrationVars(Migrate(m) /\ pc[m] # "waiting") /\ SF_migrationVars(Lock(m))

-----------------------------------------------------------------------------

(* The state's shape; only the holder of the advisory lock is past asking   *)
(* for it and has anything uncommitted.                                     *)
MigrationTypeOK ==
    /\ db \in [Objects -> Statuses]
    /\ rows \subseteq Rows /\ Cardinality(rows) <= MaxRows
    /\ lock \in Migrators \union {None}
    /\ pc \in [Migrators -> InTx \union Idle]
    /\ made \in [Migrators -> SUBSET Objects]
    /\ check \in [Replicas -> Checks \union {"down", "ready", "refused"}]
    /\ touched \in [Replicas -> BOOLEAN]
    /\ \A m \in Migrators :
         made[m] # {} \/ pc[m] \notin Idle \union {"waiting"} => lock = m

(* The database as docs/schema.md describes it.                             *)
Promised == INSTANCE Schema WITH
    version <- VersionOf(db),
    complete <- CheckSchema(db),
    proxy <- (db["proxy"] # "absent"),
    acl <- (db["acl"] = "ok"),
    rows <- rows

(* Whatever migrations race, crash, lose the answer to their commit or are  *)
(* run again, and whatever tables and rows the platform adds meanwhile, the *)
(* committed database only ever takes the steps of Schema: version 2 comes  *)
(* whole or not at all (the checkSchema before Commit), no row is rewritten *)
(* and a withdrawn permission stays withdrawn (the proxyLedger test).       *)
ImplementsSchema == Promised!SchemaSpec

(* What the errors of Migrate name: a partial or incompatible schema, a     *)
(* version of a newer binary, ambiguous legacy rows.                        *)
Unfit ==
    \/ {db[t] = "absent" : t \in Tables} = BOOLEAN
    \/ \E o \in Objects : db[o] = "bad"
    \/ VersionOf(db) > 2
    \/ ~Unambiguous(rows)

(* A migration is refused only for what is wrong with the database: one     *)
(* that loses the race for the advisory lock, or repeats one whose commit   *)
(* was not answered, finds version 2 and succeeds.                          *)
FailsForCause ==
    [][\A m \in Migrators : pc[m] # "refused" /\ pc'[m] = "refused" => Unfit]_migrationVars

(* A replica that VerifySchema let serve runs on a complete schema, although*)
(* its checks are separate statements that a migration may commit between,  *)
(* unless the owner broke an object after the replica began to look.  The   *)
(* state keeps its shape.                                                   *)
ReadyMeansComplete ==
    /\ MigrationTypeOK
    /\ \A r \in Replicas :
        check[r] = "ready" /\ ~touched[r] => CheckSchema(db) /\ db["proxy"] = "ok"

(* With the normalised indexes in force no sign-in matches two rows, of     *)
(* which QueryRowContext would take one and hide the other; and it matches  *)
(* the row of its name in whatever case the claim comes, when that row was  *)
(* written in a form that SQL's own functions normalise.                    *)
OneMatch ==
    db["index"] = "ok" =>
        \A kind \in Kinds, claim \in Claims :
            LET found == Found(rows, kind, ClaimKey(claim)) IN
            /\ \A r, s \in found : r = s
            /\ {row \in rows : /\ row.kind = kind /\ Normalisable(row.text)
                              /\ claim.name = row.text.name
                              /\ claim.unicode = row.text.unicode} \subseteq found

(* What an operator saves, in whatever form it was typed, is what a sign-in *)
(* with that address in its ASCII form finds, while the indexes hold.       *)
SavedIsFound ==
    [][\A kind \in Kinds, typed \in Texts :
          Save(kind, typed) /\ db["index"] = "ok" =>
              \A claim \in Claims :
                  claim.name = typed.name /\ ~claim.unicode
                    => Found(rows', kind, ClaimKey(claim)) =
                           {[kind |-> kind, text |-> Validated(kind, typed)]}]_migrationVars

(* A migration that asks for the lock ends: whoever holds it commits or     *)
(* returns through the deferred Rollback.                                   *)
MigrationEnds == \A m \in Migrators : pc[m] = "waiting" ~> pc[m] \in Idle

=============================================================================
