-------------------------- MODULE MigrationProofs --------------------------
(***************************************************************************)
(* Migrations, replicas and writers for any numbers of them, any names and *)
(* spellings: what the committed database goes through is what Schema      *)
(* promises, a migration fails only for cause, a replica that serves has a *)
(* complete schema, and the normalised indexes make lookups unambiguous.   *)
(***************************************************************************)
EXTENDS Migration, FiniteSetTheorems, TLAPS

----------------------------------------------------------------------------
(* Reading a database.                                                      *)

LEMMA ObjectNames ==
    /\ Tables \subseteq Objects /\ Made001 \subseteq Objects /\ Versions \subseteq Objects
    /\ {"column", "proxy", "acl"} \subseteq Objects /\ Breakable \subseteq Objects
    /\ Objects = {"tenants", "users", "index", "admin", "triggers", "v1", "v2", "v3",
                  "column", "proxy", "acl"}
    /\ Tables = {"tenants", "users"} /\ Made001 = {"index", "admin", "triggers"}
  BY DEF Tables, Made001, Versions, Objects, Breakable

LEMMA ViewAt ==
    ASSUME NEW m \in Migrators, db \in [Objects -> Statuses]
    PROVE  /\ View(m) \in [Objects -> Statuses]
           /\ \A o \in Objects : View(m)[o] = IF o \in made[m] THEN "ok" ELSE db[o]
  BY DEF View, Statuses

LEMMA VersionFacts ==
    ASSUME NEW d
    PROVE  /\ VersionOf(d) \in 0 .. 3
           /\ VersionOf(d) = 3 <=> d["v3"] = "ok"
           /\ VersionOf(d) = 2 <=> d["v3"] # "ok" /\ d["v2"] = "ok"
           /\ VersionOf(d) = 1 <=> d["v3"] # "ok" /\ d["v2"] # "ok" /\ d["v1"] = "ok"
           /\ VersionOf(d) = 0 <=> d["v3"] # "ok" /\ d["v2"] # "ok" /\ d["v1"] # "ok"
  BY DEF VersionOf

LEMMA SchemaFacts ==
    ASSUME NEW d
    PROVE  CheckSchema(d) <=>
              /\ d["tenants"] = "ok" /\ d["users"] = "ok"
              /\ d["v1"] = "ok" /\ d["v2"] = "ok" /\ d["v3"] = "absent"
              /\ d["column"] = "ok" /\ d["admin"] = "ok" /\ d["triggers"] = "ok"
              /\ d["index"] = "ok"
  <1>1. SchemaCheck(d, "mt") <=> d["tenants"] = "ok" /\ d["users"] = "ok"
    BY DEF SchemaCheck, CheckMT, Tables
  <1>2. SchemaCheck(d, "ledger") <=> d["v1"] = "ok" /\ d["v2"] = "ok" /\ d["v3"] = "absent"
    BY DEF SchemaCheck, CheckLedger
  <1>3. \A o \in {"column", "admin", "triggers", "index"} : SchemaCheck(d, o) <=> d[o] = "ok"
    BY DEF SchemaCheck
  <1>4. Checks \ {"proxy"} = {"mt", "ledger"} \cup {"column", "admin", "triggers", "index"}
    BY DEF Checks
  <1>5. CheckSchema(d) <=> /\ SchemaCheck(d, "mt") /\ SchemaCheck(d, "ledger")
                           /\ \A o \in {"column", "admin", "triggers", "index"} : SchemaCheck(d, o)
    BY <1>4 DEF CheckSchema
  <1> QED
    BY <1>1, <1>2, <1>3, <1>5

----------------------------------------------------------------------------
(* Spellings.                                                               *)

Spelled(s, n, u, p, c, d) ==
    /\ s \in Spellings
    /\ s.name = n /\ s.upper = u /\ s.padded = p /\ s.unicode = c /\ s.dots = d

LEMMA SameSpelling ==
    ASSUME NEW x, NEW y, NEW n, NEW u, NEW p, NEW c, NEW d,
           Spelled(x, n, u, p, c, d), Spelled(y, n, u, p, c, d)
    PROVE  x = y
  BY DEF Spelled, Spellings

(* What each normalisation makes of a spelling, SQL's of one that it can    *)
(* bring to the form that Go's leave.                                       *)
LEMMA Normalised ==
    ASSUME NEW s, NEW n, NEW u, NEW p, NEW c, NEW d, Spelled(s, n, u, p, c, d)
    PROVE  /\ Spelled(Lower(s), n, "none", p, c, d)
           /\ Normalisable(s) => Spelled(SqlEmail(s), n, "none", "none", c, d)
           /\ Normalisable(s) => Spelled(SqlDomain(s), n, "none", "none", c, 0)
           /\ Spelled(Domain(s), n, "none", "none", FALSE, 0)
           /\ Spelled(Email(s), n, "none", "none", FALSE, 0)
  <1>1. ASSUME NEW x, NEW i, NEW j, NEW k, NEW l, NEW e, Spelled(x, i, j, k, l, e)
        PROVE  /\ Spelled(Lower(x), i, "none", k, l, e)
               /\ Spelled(Trim(x), i, j, "none", l, e)
               /\ Spelled(ToASCII(x), i, j, k, FALSE, e)
               /\ Spelled([x EXCEPT !.dots = 0], i, j, k, l, 0)
    <2>1. Spelled(Lower(x), i, "none", k, l, e)
      BY <1>1 DEF Spelled, Lower, Spellings
    <2>2. Spelled(Trim(x), i, j, "none", l, e)
      BY <1>1 DEF Spelled, Trim, Spellings
    <2>3. Spelled(ToASCII(x), i, j, k, FALSE, e)
      BY <1>1 DEF Spelled, ToASCII, Spellings
    <2>4. Spelled([x EXCEPT !.dots = 0], i, j, k, l, 0)
      BY <1>1 DEF Spelled, Spellings
    <2> QED
      BY <2>1, <2>2, <2>3, <2>4
  <1>2. ASSUME NEW x, NEW i, NEW j, NEW k, NEW l, NEW e, Spelled(x, i, j, k, l, e)
        PROVE  Spelled(Domain(x), i, "none", "none", FALSE, 0)
    <2>1. Spelled(ToASCII(Trim(Lower(x))), i, "none", "none", FALSE, e)
      BY <1>1, <1>2
    <2> QED
      BY <1>1, <2>1 DEF Domain
  <1>3. Spelled(Lower(Trim(s)), n, "none", "none", c, d)
    BY <1>1
  <1>4. ASSUME Normalisable(s)
        PROVE  Spelled(SqlEmail(s), n, "none", "none", c, d) /\ Spelled(SqlDomain(s), n, "none", "none", c, 0)
    <2>1. PICK x : x = SqlTrim(s) /\ Spelled(x, n, u, "none", c, d)
      BY <1>1, <1>4 DEF Normalisable, SqlTrim
    <2>2. PICK y : y = SqlUndot(x) /\ Spelled(y, n, u, "none", c, 0)
      <3>1. SqlUndot(x) = [x EXCEPT !.dots = 0]
        BY <2>1 DEF SqlUndot, Spelled
      <3> QED
        BY <1>1, <2>1, <3>1
    <2>3. u # "other" \/ LowersAll
      BY <1>4 DEF Normalisable, Spelled
    <2>4. SqlLower(x) = Lower(x) /\ SqlLower(y) = Lower(y)
      BY <2>1, <2>2, <2>3 DEF SqlLower, Spelled
    <2>5. Spelled(Lower(x), n, "none", "none", c, d) /\ Spelled(Lower(y), n, "none", "none", c, 0)
      BY <1>1, <2>1, <2>2
    <2>6. SqlEmail(s) = Lower(x) /\ SqlDomain(s) = Lower(y)
      BY <2>1, <2>2, <2>4 DEF SqlEmail, SqlDomain
    <2> QED
      BY <2>5, <2>6
  <1>5. Spelled(Email(s), n, "none", "none", FALSE, 0)
    BY <1>2, <1>3 DEF Email
  <1> QED
    BY <1>1, <1>2, <1>3, <1>4, <1>5

----------------------------------------------------------------------------
(* The inductive invariant.                                                 *)

(* What is committed: some objects nobody breaks, a version brings all that *)
(* its migration made, and the indexes hold of the rows.                    *)
DbInv ==
    /\ \A o \in Versions \cup {"column", "admin", "acl"} : db[o] # "bad"
    /\ db["v1"] = "ok" => \A o \in Tables \cup Made001 : db[o] # "absent"
    /\ db["v1"] = "absent" => \A o \in Made001 : db[o] = "absent"
    /\ db["v2"] = "ok" => db["v1"] = "ok" /\ db["column"] = "ok"
    /\ db["v2"] = "absent" => db["column"] = "absent"
    /\ db["acl"] = "ok" => db["proxy"] # "absent"
    /\ db["index"] = "ok" => Unambiguous(rows)

RowsInv == \A row \in rows : row.kind = "user" => row.text.dots = 0

(* What a migration has made, by itself and against what is committed.      *)
MadeInv(m) ==
    /\ \A o \in made[m] : db[o] = "absent"
    /\ "v3" \notin made[m]
    /\ made[m] \cap (Tables \cup Made001) # {} => "v1" \in made[m]
    /\ "v1" \in made[m] => /\ Made001 \subseteq made[m]
                           /\ \A t \in Tables : t \in made[m] \/ db[t] # "absent"
    /\ "v2" \in made[m] <=> "column" \in made[m]
    /\ "proxy" \in made[m] <=> "acl" \in made[m]
    /\ "index" \in made[m] => Unambiguous(rows)

Verified == {"proxyLedger", "checkProxy", "commit"}

(* What a migration knows at each of its statements.                        *)
PcInv(m) ==
    /\ pc[m] \in Idle \cup {"waiting", "count", "checkMT", "version", "m001"} => made[m] = {}
    /\ pc[m] = "checkMT" => \A t \in Tables : db[t] # "absent"
    /\ pc[m] \in {"m001", "m002"} => db["v2"] = "absent" /\ db["v3"] = "absent"
    /\ pc[m] = "m001" => db["v1"] = "absent"
    /\ pc[m] = "m002" => "v2" \notin made[m] /\ (db["v1"] = "ok" \/ "v1" \in made[m])
    /\ pc[m] \in Verified \cup {"checkSchema"} =>
          /\ db["v3"] = "absent"
          /\ db["v1"] = "ok" \/ "v1" \in made[m]
          /\ db["v2"] = "ok" \/ "v2" \in made[m]
    /\ pc[m] \in Verified => CheckSchema(View(m))
    /\ pc[m] \notin {"checkProxy", "commit"} => "proxy" \notin made[m]
    /\ pc[m] \in {"checkProxy", "commit"} => db["proxy"] # "absent" \/ "proxy" \in made[m]
    /\ pc[m] = "commit" => View(m)["proxy"] = "ok"

(* The checks behind a replica's next one.                                  *)
Passed(step) ==
    CASE step = "ledger" -> {"mt"}
      [] step = "column" -> {"mt", "ledger"}
      [] step = "admin" -> {"mt", "ledger", "column"}
      [] step = "triggers" -> {"mt", "ledger", "column", "admin"}
      [] step = "index" -> {"mt", "ledger", "column", "admin", "triggers"}
      [] step = "proxy" -> Checks \ {"proxy"}
      [] step = "ready" -> Checks
      [] OTHER -> {}

CheckInv(r) == ~touched[r] => \A step \in Passed(check[r]) : SchemaCheck(db, step)

MigrationInv ==
    /\ MigrationTypeOK
    /\ DbInv /\ RowsInv
    /\ \A m \in Migrators : MadeInv(m) /\ PcInv(m)
    /\ \A r \in Replicas : CheckInv(r)

----------------------------------------------------------------------------
(* Frames: what a step leaves of the invariant.                             *)

(* A migration outside its transaction knows nothing of the database.       *)
Outside(m) == pc[m] \in Idle \cup {"waiting"} /\ made[m] = {}

LEMMA OutsideOK ==
    ASSUME NEW m \in Migrators, Outside(m)
    PROVE  MadeInv(m) /\ PcInv(m)
  BY DEF Outside, MadeInv, PcInv, Verified, Idle

LEMMA OthersOutside ==
    ASSUME MigrationInv, NEW m \in Migrators, lock # m
    PROVE  Outside(m)
  BY DEF MigrationInv, MigrationTypeOK, Outside

LEMMA MigrationFrame ==
    ASSUME NEW m \in Migrators, MadeInv(m), PcInv(m),
           pc'[m] = pc[m], made'[m] = made[m], UNCHANGED <<db, rows>>
    PROVE  MadeInv(m)' /\ PcInv(m)'
  <1>1. View(m)' = View(m)
    BY DEF View
  <1>2. CheckSchema(View(m))' <=> CheckSchema(View(m))
    BY <1>1, SchemaFacts DEF CheckSchema, SchemaCheck, CheckMT, CheckLedger
  <1> QED
    BY <1>1, <1>2 DEF MadeInv, PcInv

(* A check that passed passes again while nothing it looked at is broken.   *)
LEMMA CheckFrame ==
    ASSUME NEW r \in Replicas, CheckInv(r), check'[r] = check[r],
           touched'[r] = touched[r],
           \A o \in Objects \ {"acl"} : db[o] = "ok" => db'[o] = "ok",
           db["v3"] = "absent" => db'["v3"] = "absent"
    PROVE  CheckInv(r)'
  <1>1. ASSUME NEW step \in Passed(check[r]), SchemaCheck(db, step)
        PROVE  SchemaCheck(db', step)
    <2>1. step \in Checks
      BY DEF Passed, Checks
    <2>2. step \notin {"mt", "ledger"} => step \in Objects \ {"acl"}
      BY <2>1, ObjectNames DEF Checks
    <2> QED
      BY <1>1, <2>2, ObjectNames DEF SchemaCheck, CheckMT, CheckLedger
  <1>2. Passed(check'[r]) = Passed(check[r])
    OBVIOUS
  <1> QED
    BY <1>1, <1>2 DEF CheckInv

(* A statement of migration m: only m's own state and the lock move.        *)
LEMMA StatementOK ==
    ASSUME MigrationInv, NEW m \in Migrators,
           NEW at \in InTx \cup Idle, NEW mine \in SUBSET Objects,
           pc' = [pc EXCEPT ![m] = at], made' = [made EXCEPT ![m] = mine],
           UNCHANGED <<db, rows, check, touched>>,
           lock' \in Migrators \cup {None},
           lock' # lock => lock \in {None, m},
           mine # {} \/ at \notin Idle \cup {"waiting"} => lock' = m,
           MadeInv(m)', PcInv(m)'
    PROVE  MigrationInv'
  <1>1. /\ pc'[m] = at /\ made'[m] = mine
        /\ \A n \in Migrators : n # m => pc'[n] = pc[n] /\ made'[n] = made[n]
    BY DEF MigrationInv, MigrationTypeOK
  <1>2. MigrationTypeOK'
    <2>1. \A n \in Migrators :
            made'[n] # {} \/ pc'[n] \notin Idle \union {"waiting"} => lock' = n
      BY <1>1, MigrationConstants DEF MigrationInv, MigrationTypeOK
    <2> QED
      BY <2>1 DEF MigrationInv, MigrationTypeOK
  <1>3. DbInv' /\ RowsInv'
    BY DEF MigrationInv, DbInv, RowsInv
  <1>4. \A n \in Migrators : MadeInv(n)' /\ PcInv(n)'
    BY <1>1, MigrationFrame DEF MigrationInv
  <1>5. \A r \in Replicas : CheckInv(r)'
    BY CheckFrame DEF MigrationInv
  <1> QED
    BY <1>2, <1>3, <1>4, <1>5 DEF MigrationInv

(* The transaction ends without effect.                                     *)
LEMMA EndedOK ==
    ASSUME MigrationInv, NEW m \in Migrators, NEW outcome \in Idle, Ended(m, outcome)
    PROVE  MigrationInv'
  <1>1. pc'[m] = outcome /\ made'[m] = {}
    BY DEF Ended, MigrationInv, MigrationTypeOK
  <1>3. MadeInv(m)' /\ PcInv(m)'
    BY <1>1 DEF MadeInv, PcInv, Verified, Idle
  <1>4. /\ pc' = [pc EXCEPT ![m] = outcome] /\ made' = [made EXCEPT ![m] = {}]
        /\ UNCHANGED <<db, rows, check, touched>>
        /\ lock' \in Migrators \cup {None} /\ (lock' # lock => lock \in {None, m})
    BY DEF Ended, MigrationInv, MigrationTypeOK
  <1>5. outcome \in InTx \cup Idle /\ outcome \in Idle \cup {"waiting"} /\ {} \in SUBSET Objects
    OBVIOUS
  <1> QED
    BY <1>3, <1>4, <1>5, StatementOK

(* A statement that makes nothing: m moves on with what it has.             *)
LEMMA QuietOK ==
    ASSUME MigrationInv, NEW m \in Migrators, NEW at \in InTx,
           pc' = [pc EXCEPT ![m] = at], made' = made, Quiet,
           at # "waiting" => lock = m,
           pc'[m] = at => PcInv(m)'
    PROVE  MigrationInv'
  <1>1. /\ made' = [made EXCEPT ![m] = made[m]] /\ made[m] \in SUBSET Objects
        /\ pc'[m] = at /\ made'[m] = made[m]
    BY DEF MigrationInv, MigrationTypeOK
  <1>2. UNCHANGED <<db, rows, lock, check, touched>>
    BY DEF Quiet
  <1>3. MadeInv(m)'
    BY <1>1, <1>2 DEF MigrationInv, MadeInv
  <1>4. lock' \in Migrators \cup {None} /\ (made[m] # {} => lock' = m)
    BY <1>2 DEF MigrationInv, MigrationTypeOK
  <1> QED
    BY <1>1, <1>2, <1>3, <1>4, StatementOK

----------------------------------------------------------------------------
(* The statements of a migration, one by one.                               *)

LEMMA BeginOK ==
    ASSUME MigrationInv, NEW m \in Migrators, Begin(m)
    PROVE  MigrationInv'
  <1>1. pc'[m] = "waiting" /\ made'[m] = {}
    BY DEF Begin, MigrationInv, MigrationTypeOK, PcInv
  <1>2. PcInv(m)'
    BY <1>1 DEF PcInv, Verified
  <1>3. "waiting" \in InTx
    BY DEF InTx
  <1> QED
    BY <1>2, <1>3, QuietOK DEF Begin

LEMMA LockOK ==
    ASSUME MigrationInv, NEW m \in Migrators, Lock(m)
    PROVE  MigrationInv'
  <1>1. /\ pc' = [pc EXCEPT ![m] = "count"] /\ lock = None /\ lock' = m
        /\ made' = [made EXCEPT ![m] = made[m]]
        /\ made' = made /\ UNCHANGED <<db, rows, check, touched>>
    BY DEF Lock, Step, MigrationInv, MigrationTypeOK
  <1>2. pc'[m] = "count" /\ made[m] = {} /\ "count" \in InTx \cup Idle
    BY <1>1 DEF Lock, Step, MigrationInv, MigrationTypeOK, PcInv, InTx
  <1>3. MadeInv(m)' /\ PcInv(m)'
    BY <1>1, <1>2 DEF MadeInv, PcInv, Verified, Idle
  <1>4. made[m] \in SUBSET Objects
    BY <1>2
  <1> QED
    BY <1>1, <1>2, <1>3, <1>4, StatementOK

LEMMA CountOK ==
    ASSUME MigrationInv, NEW m \in Migrators, Count(m)
    PROVE  MigrationInv'
  <1>1. lock = m /\ made[m] = {} /\ pc[m] = "count"
    BY DEF Count, MigrationInv, MigrationTypeOK, PcInv, Idle
  <1>2. db \in [Objects -> Statuses] /\ "refused" \in Idle
    BY DEF MigrationInv, MigrationTypeOK, Idle
  <1>3. CASE Refuse(m)
    BY <1>2, <1>3, EndedOK DEF Refuse
  <1>4. ASSUME NEW at \in {"version", "checkMT"}, Step(m, "count", at), made' = made, Quiet,
               at = "checkMT" => {t \in Tables : View(m)[t] # "absent"} = Tables
        PROVE  MigrationInv'
    <2>1. pc'[m] = at /\ pc' = [pc EXCEPT ![m] = at] /\ at \in InTx
      BY <1>4 DEF Step, MigrationInv, MigrationTypeOK, InTx
    <2>2. at = "checkMT" => \A t \in Tables : db[t] # "absent"
      BY <1>1, <1>2, <1>4, ViewAt, ObjectNames
    <2>3. PcInv(m)'
      BY <1>1, <1>4, <2>1, <2>2 DEF PcInv, Verified, Quiet
    <2> QED
      BY <1>1, <1>4, <2>1, <2>3, QuietOK
  <1> QED
    BY <1>3, <1>4 DEF Count

LEMMA CheckTablesOK ==
    ASSUME MigrationInv, NEW m \in Migrators, CheckTables(m)
    PROVE  MigrationInv'
  <1>1. lock = m /\ made[m] = {} /\ pc[m] = "checkMT" /\ "refused" \in Idle
    BY DEF CheckTables, MigrationInv, MigrationTypeOK, PcInv, Idle
  <1>2. CASE Refuse(m)
    BY <1>1, <1>2, EndedOK DEF Refuse
  <1>3. CASE Step(m, "checkMT", "version") /\ made' = made /\ Quiet
    <2>1. pc'[m] = "version" /\ pc' = [pc EXCEPT ![m] = "version"] /\ "version" \in InTx
      BY <1>3 DEF Step, MigrationInv, MigrationTypeOK, InTx
    <2>2. PcInv(m)'
      BY <1>1, <1>3, <2>1 DEF PcInv, Verified
    <2> QED
      BY <1>1, <1>3, <2>1, <2>2, QuietOK
  <1> QED
    BY <1>2, <1>3 DEF CheckTables

LEMMA ReadVersionOK ==
    ASSUME MigrationInv, NEW m \in Migrators, ReadVersion(m)
    PROVE  MigrationInv'
  <1> DEFINE v == VersionOf(View(m))
  <1>1. lock = m /\ made[m] = {} /\ pc[m] = "version" /\ "refused" \in Idle
    BY DEF ReadVersion, MigrationInv, MigrationTypeOK, PcInv, Idle
  <1>2. db \in [Objects -> Statuses] /\ DbInv
    BY DEF MigrationInv, MigrationTypeOK
  <1>3. \A i \in Versions : View(m)[i] = db[i] /\ db[i] \in {"ok", "absent"}
    BY <1>1, <1>2, ViewAt, ObjectNames DEF DbInv, Statuses
  <1>4. CASE Refuse(m)
    BY <1>1, <1>4, EndedOK DEF Refuse
  <1>5. ASSUME NEW at \in {"m001", "m002", "checkSchema"}, Step(m, "version", at),
               made' = made, Quiet,
               at = "m001" => v = 0, at = "m002" => v = 1, at = "checkSchema" => v = 2
        PROVE  MigrationInv'
    <2>1. pc'[m] = at /\ pc' = [pc EXCEPT ![m] = at] /\ at \in InTx
      BY <1>5 DEF Step, MigrationInv, MigrationTypeOK, InTx
    <2>2. /\ db["v3"] = "absent"
          /\ at \in {"m001", "m002"} => db["v2"] = "absent"
          /\ at = "m001" => db["v1"] = "absent"
          /\ at = "m002" => db["v1"] = "ok"
          /\ at = "checkSchema" => db["v2"] = "ok" /\ db["v1"] = "ok"
      BY <1>2, <1>3, <1>5, VersionFacts DEF DbInv, Versions
    <2>3. PcInv(m)'
      BY <1>1, <1>5, <2>1, <2>2 DEF PcInv, Verified, Quiet, Idle
    <2> QED
      BY <1>1, <1>5, <2>1, <2>3, QuietOK
  <1> QED
    BY <1>4, <1>5 DEF ReadVersion


LEMMA Apply001OK ==
    ASSUME MigrationInv, NEW m \in Migrators, Apply001(m)
    PROVE  MigrationInv'
  <1> DEFINE missing == {t \in Tables : View(m)[t] = "absent"}
             mine == made[m] \union missing \union Made001 \union {"v1"}
  <1>1. lock = m /\ made[m] = {} /\ pc[m] = "m001" /\ "refused" \in Idle
    BY DEF Apply001, MigrationInv, MigrationTypeOK, PcInv, Idle
  <1>2. /\ db \in [Objects -> Statuses] /\ lock \in Migrators \cup {None}
        /\ db["v1"] = "absent" /\ db["v2"] = "absent" /\ db["v3"] = "absent"
    BY <1>1 DEF MigrationInv, MigrationTypeOK, PcInv
  <1>3. CASE Refuse(m)
    BY <1>1, <1>3, EndedOK DEF Refuse
  <1>4. CASE /\ Unambiguous(rows) /\ \A o \in Made001 : View(m)[o] = "absent"
             /\ Step(m, "m001", "m002") /\ Quiet
             /\ made' = [made EXCEPT ![m] = mine]
    <2>1. /\ pc'[m] = "m002" /\ pc' = [pc EXCEPT ![m] = "m002"]
          /\ "m002" \in InTx \cup Idle /\ made'[m] = mine
      BY <1>4 DEF Step, MigrationInv, MigrationTypeOK, InTx
    <2>2. UNCHANGED <<db, rows, lock, check, touched>>
      BY <1>4 DEF Quiet
    <2>3. /\ mine = missing \cup Made001 \cup {"v1"} /\ mine \in SUBSET Objects
          /\ \A o \in mine : db[o] = "absent"
      BY <1>1, <1>2, <1>4, ViewAt, ObjectNames DEF Versions
    <2>4. \A t \in Tables : t \in mine \/ db[t] # "absent"
      BY <1>1, <1>2, ViewAt, ObjectNames
    <2>5. /\ "v1" \in mine /\ Made001 \subseteq mine
          /\ \A o \in {"v2", "v3", "column", "proxy", "acl"} : o \notin mine
      BY <2>3, ObjectNames
    <2> HIDE DEF mine
    <2>6. MadeInv(m)'
      BY <1>4, <2>1, <2>2, <2>3, <2>4, <2>5 DEF MadeInv
    <2>7. PcInv(m)'
      BY <1>2, <2>1, <2>2, <2>5 DEF PcInv, Verified, Idle
    <2> QED
      BY <1>1, <1>2, <1>4, <2>1, <2>2, <2>3, <2>6, <2>7, StatementOK
  <1> QED
    BY <1>3, <1>4 DEF Apply001

LEMMA Apply002OK ==
    ASSUME MigrationInv, NEW m \in Migrators, Apply002(m)
    PROVE  MigrationInv'
  <1> DEFINE mine == made[m] \union {"column", "v2"}
  <1>1. lock = m /\ pc[m] = "m002" /\ "refused" \in Idle
    BY DEF Apply002, MigrationInv, MigrationTypeOK, Idle
  <1>2. /\ db \in [Objects -> Statuses] /\ lock \in Migrators \cup {None}
        /\ made[m] \subseteq Objects /\ MadeInv(m) /\ DbInv /\ PcInv(m)
    BY DEF MigrationInv, MigrationTypeOK
  <1>3. CASE Refuse(m)
    BY <1>1, <1>3, EndedOK DEF Refuse
  <1>4. CASE Step(m, "m002", "checkSchema") /\ Quiet /\ made' = [made EXCEPT ![m] = mine]
    <2>1. /\ pc'[m] = "checkSchema" /\ pc' = [pc EXCEPT ![m] = "checkSchema"]
          /\ "checkSchema" \in InTx \cup Idle /\ made'[m] = mine
      BY <1>4 DEF Step, MigrationInv, MigrationTypeOK, InTx
    <2>2. UNCHANGED <<db, rows, lock, check, touched>>
      BY <1>4 DEF Quiet
    <2>3. mine \in SUBSET Objects /\ "v2" \in mine /\ "column" \in mine
      BY <1>2, ObjectNames DEF Versions
    <2>4. \A o \in mine : db[o] = "absent"
      BY <1>1, <1>2 DEF PcInv, DbInv, MadeInv
    <2>5. \A o \in Objects \ {"v2", "column"} : o \in mine <=> o \in made[m]
      OBVIOUS
    <2>6. /\ mine \cap (Tables \cup Made001) # {} => "v1" \in mine
          /\ "v1" \in mine => /\ Made001 \subseteq mine
                              /\ \A t \in Tables : t \in mine \/ db[t] # "absent"
          /\ "proxy" \in mine <=> "acl" \in mine
          /\ "index" \in mine => Unambiguous(rows)
          /\ "v3" \notin mine /\ "proxy" \notin mine
      BY <1>1, <1>2, ObjectNames DEF MadeInv, PcInv
    <2>7. db["v3"] = "absent" /\ (db["v1"] = "ok" \/ "v1" \in mine)
      BY <1>1, <1>2 DEF PcInv
    <2> HIDE DEF mine
    <2>8. MadeInv(m)'
      BY <2>1, <2>2, <2>3, <2>4, <2>6 DEF MadeInv
    <2>9. PcInv(m)'
      BY <2>1, <2>2, <2>3, <2>6, <2>7 DEF PcInv, Verified, Idle
    <2> QED
      BY <1>1, <1>2, <1>4, <2>1, <2>2, <2>3, <2>8, <2>9, StatementOK
  <1> QED
    BY <1>3, <1>4 DEF Apply002

LEMMA VerifyOK ==
    ASSUME MigrationInv, NEW m \in Migrators, Verify(m)
    PROVE  MigrationInv'
  <1>1. lock = m /\ pc[m] = "checkSchema" /\ "refused" \in Idle /\ PcInv(m)
    BY DEF Verify, MigrationInv, MigrationTypeOK, Idle
  <1>2. CASE Refuse(m)
    BY <1>1, <1>2, EndedOK DEF Refuse
  <1>3. CASE /\ CheckSchema(View(m)) /\ Step(m, "checkSchema", "proxyLedger")
             /\ made' = made /\ Quiet
    <2>1. /\ pc'[m] = "proxyLedger" /\ pc' = [pc EXCEPT ![m] = "proxyLedger"]
          /\ "proxyLedger" \in InTx
      BY <1>3 DEF Step, MigrationInv, MigrationTypeOK, InTx
    <2>2. View(m)' = View(m) /\ UNCHANGED <<db, made>>
      BY <1>3 DEF View, Quiet
    <2>3. CheckSchema(View(m))'
      BY <1>3, <2>2, SchemaFacts DEF CheckSchema, SchemaCheck, CheckMT, CheckLedger
    <2>4. PcInv(m)'
      BY <1>1, <2>1, <2>2, <2>3 DEF PcInv, Verified, Idle
    <2> QED
      BY <1>1, <1>3, <2>1, <2>4, QuietOK
  <1> QED
    BY <1>2, <1>3 DEF Verify

LEMMA SetupProxyOK ==
    ASSUME MigrationInv, NEW m \in Migrators, SetupProxy(m)
    PROVE  MigrationInv'
  <1> DEFINE new == IF View(m)["proxy"] = "absent" THEN {"proxy", "acl"} ELSE {}
             mine == made[m] \union new
  <1>1. /\ lock = m /\ pc[m] = "proxyLedger" /\ made' = [made EXCEPT ![m] = mine]
        /\ pc' = [pc EXCEPT ![m] = "checkProxy"] /\ UNCHANGED <<db, rows, lock, check, touched>>
    BY DEF SetupProxy, Step, Quiet, MigrationInv, MigrationTypeOK, Idle
  <1>2. /\ db \in [Objects -> Statuses] /\ lock \in Migrators \cup {None}
        /\ made[m] \subseteq Objects /\ MadeInv(m) /\ DbInv /\ PcInv(m)
    BY DEF MigrationInv, MigrationTypeOK
  <1>3. pc'[m] = "checkProxy" /\ made'[m] = mine /\ "checkProxy" \in InTx \cup Idle
    BY <1>1 DEF MigrationInv, MigrationTypeOK, InTx
  <1>4. "proxy" \notin made[m] /\ "acl" \notin made[m] /\ View(m)["proxy"] = db["proxy"]
    BY <1>1, <1>2, ViewAt, ObjectNames DEF PcInv, MadeInv
  <1>5. /\ \A o \in new : db[o] = "absent"
        /\ "proxy" \in new <=> "acl" \in new
        /\ db["proxy"] # "absent" \/ "proxy" \in new
        /\ new \subseteq {"proxy", "acl"}
    BY <1>2, <1>4, ObjectNames DEF DbInv, Statuses
  <1> HIDE DEF new
  <1>6. \A o \in Objects \ {"proxy", "acl"} : o \in mine <=> o \in made[m]
    BY <1>5
  <1>7. /\ mine \in SUBSET Objects
        /\ \A o \in mine : db[o] = "absent"
        /\ mine \cap (Tables \cup Made001) # {} => "v1" \in mine
        /\ "v1" \in mine => /\ Made001 \subseteq mine
                            /\ \A t \in Tables : t \in mine \/ db[t] # "absent"
        /\ "v2" \in mine <=> "column" \in mine
        /\ "proxy" \in mine <=> "acl" \in mine
        /\ "index" \in mine => Unambiguous(rows)
        /\ "v3" \notin mine
        /\ db["proxy"] # "absent" \/ "proxy" \in mine
    BY <1>2, <1>4, <1>5, <1>6, ObjectNames DEF MadeInv
  <1>8. /\ db["v3"] = "absent"
        /\ db["v1"] = "ok" \/ "v1" \in mine
        /\ db["v2"] = "ok" \/ "v2" \in mine
    BY <1>1, <1>2 DEF PcInv, Verified
  <1>9. CheckSchema(View(m))'
    <2>1. CheckSchema(View(m))
      BY <1>1, <1>2 DEF PcInv, Verified
    <2>2. \A o \in Objects \ {"proxy", "acl"} : View(m)'[o] = View(m)[o]
      BY <1>1, <1>3, <1>6 DEF View
    <2>3. CheckSchema(View(m)')
      BY <2>1, <2>2, SchemaFacts, ObjectNames
    <2> QED
      BY <2>3 DEF CheckSchema, SchemaCheck, CheckMT, CheckLedger
  <1> HIDE DEF mine
  <1>10. MadeInv(m)'
    BY <1>1, <1>3, <1>7 DEF MadeInv
  <1>11. PcInv(m)'
    BY <1>1, <1>3, <1>7, <1>8, <1>9 DEF PcInv, Verified, Idle
  <1> QED
    BY <1>1, <1>2, <1>3, <1>7, <1>10, <1>11, StatementOK

LEMMA CheckProxyOK ==
    ASSUME MigrationInv, NEW m \in Migrators, CheckProxy(m)
    PROVE  MigrationInv'
  <1>1. lock = m /\ pc[m] = "checkProxy" /\ "refused" \in Idle /\ PcInv(m)
    BY DEF CheckProxy, MigrationInv, MigrationTypeOK, Idle
  <1>2. CASE Refuse(m)
    BY <1>1, <1>2, EndedOK DEF Refuse
  <1>3. CASE /\ View(m)["proxy"] = "ok" /\ Step(m, "checkProxy", "commit")
             /\ made' = made /\ Quiet
    <2>1. /\ pc'[m] = "commit" /\ pc' = [pc EXCEPT ![m] = "commit"] /\ "commit" \in InTx
      BY <1>3 DEF Step, MigrationInv, MigrationTypeOK, InTx
    <2>2. View(m)' = View(m) /\ UNCHANGED <<db, made>>
      BY <1>3 DEF View, Quiet
    <2>3. CheckSchema(View(m))'
      BY <1>1, <2>2, SchemaFacts DEF PcInv, Verified, CheckSchema, SchemaCheck, CheckMT, CheckLedger
    <2>4. PcInv(m)'
      BY <1>1, <1>3, <2>1, <2>2, <2>3 DEF PcInv, Verified, Idle
    <2> QED
      BY <1>1, <1>3, <2>1, <2>4, QuietOK
  <1> QED
    BY <1>2, <1>3 DEF CheckProxy


(* What a migration about to commit has: a complete schema over unambiguous *)
(* rows, nothing of it remade if version 2 was there, and the permission    *)
(* only together with the proxy schema.                                     *)
LEMMA CommitFacts ==
    ASSUME MigrationInv, NEW m \in Migrators, Commit(m)
    PROVE  /\ lock = m /\ View(m) \in [Objects -> Statuses]
           /\ CheckSchema(View(m)) /\ View(m)["proxy"] = "ok"
           /\ \A o \in Objects : View(m)[o] = IF o \in made[m] THEN "ok" ELSE db[o]
           /\ Unambiguous(rows)
           /\ db["v3"] = "absent"
           /\ db["v2"] = "ok" => CheckSchema(db)
           /\ View(m)["acl"] = "ok" <=> db["acl"] = "ok" \/ db["proxy"] = "absent"
           /\ View(m)["acl"] # "bad"
  <1>1. /\ lock = m /\ pc[m] = "commit" /\ db \in [Objects -> Statuses]
        /\ made[m] \subseteq Objects /\ MadeInv(m) /\ DbInv /\ PcInv(m)
    BY DEF Commit, MigrationInv, MigrationTypeOK, Idle
  <1>2. /\ View(m) \in [Objects -> Statuses]
        /\ \A o \in Objects : View(m)[o] = IF o \in made[m] THEN "ok" ELSE db[o]
    BY <1>1, ViewAt
  <1>3. CheckSchema(View(m)) /\ View(m)["proxy"] = "ok" /\ db["v3"] = "absent"
    BY <1>1 DEF PcInv, Verified
  <1>4. Unambiguous(rows)
    <2>1. View(m)["index"] = "ok"
      BY <1>3, SchemaFacts
    <2> QED
      BY <1>1, <1>2, <2>1, ObjectNames DEF MadeInv, DbInv
  <1>5. ASSUME db["v2"] = "ok" PROVE CheckSchema(db)
    <2>1. "v1" \notin made[m] /\ "v2" \notin made[m] /\ db["v1"] = "ok"
      BY <1>1, <1>5 DEF MadeInv, DbInv
    <2>2. \A o \in Tables \cup Made001 \cup Versions \cup {"column"} : o \notin made[m]
      BY <1>1, <2>1 DEF MadeInv, Versions
    <2>3. \A o \in Tables \cup Made001 \cup Versions \cup {"column"} : View(m)[o] = db[o]
      BY <1>2, <2>2, ObjectNames
    <2> QED
      BY <1>3, <2>3, SchemaFacts, ObjectNames DEF Versions
  <1>6. View(m)["acl"] = "ok" <=> db["acl"] = "ok" \/ db["proxy"] = "absent"
    BY <1>1, <1>2, ObjectNames DEF MadeInv, PcInv
  <1>7. View(m)["acl"] # "bad"
    BY <1>1, <1>2, ObjectNames DEF DbInv
  <1> QED
    BY <1>1, <1>2, <1>3, <1>4, <1>5, <1>6, <1>7

LEMMA CommitOK ==
    ASSUME MigrationInv, NEW m \in Migrators, Commit(m)
    PROVE  MigrationInv'
  <1>1. /\ pc' = [pc EXCEPT ![m] = "idle"] /\ db' = View(m) /\ made' = [made EXCEPT ![m] = {}]
        /\ lock' = None /\ UNCHANGED <<rows, check, touched>>
    BY DEF Commit
  <1>2. \A n \in Migrators : Outside(n)'
    BY <1>1, CommitFacts, OthersOutside DEF Outside, MigrationInv, MigrationTypeOK, Idle
  <1>3. MigrationTypeOK'
    <2>1. pc' \in [Migrators -> InTx \union Idle] /\ made' \in [Migrators -> SUBSET Objects]
      BY <1>1 DEF MigrationInv, MigrationTypeOK, Idle
    <2>2. db' \in [Objects -> Statuses]
      BY <1>1, CommitFacts
    <2>3. \A n \in Migrators : ~(made'[n] # {} \/ pc'[n] \notin Idle \union {"waiting"})
      BY <1>2 DEF Outside
    <2> QED
      BY <1>1, <2>1, <2>2, <2>3 DEF MigrationInv, MigrationTypeOK
  <1>4. DbInv' /\ RowsInv'
    <2>1. /\ db'["tenants"] = "ok" /\ db'["users"] = "ok" /\ db'["v1"] = "ok"
          /\ db'["v2"] = "ok" /\ db'["v3"] = "absent" /\ db'["column"] = "ok"
          /\ db'["admin"] = "ok" /\ db'["triggers"] = "ok" /\ db'["index"] = "ok"
          /\ db'["proxy"] = "ok" /\ db'["acl"] # "bad"
      BY <1>1, CommitFacts, SchemaFacts
    <2>2. Unambiguous(rows)' /\ RowsInv'
      BY <1>1, CommitFacts DEF MigrationInv, RowsInv
    <2>3. DbInv'
      BY <2>1, <2>2 DEF DbInv, Versions, Tables, Made001
    <2> QED
      BY <2>2, <2>3
  <1>5. \A n \in Migrators : MadeInv(n)' /\ PcInv(n)'
    BY <1>2 DEF Outside, MadeInv, PcInv, Verified, Idle
  <1>6. \A r \in Replicas : CheckInv(r)'
    <2>1. \A o \in Objects \ {"acl"} : db[o] = "ok" => db'[o] = "ok"
      BY <1>1, CommitFacts
    <2>2. db'["v3"] = "absent"
      BY <1>1, CommitFacts, SchemaFacts
    <2> QED
      BY <1>1, <2>1, <2>2, CheckFrame DEF MigrationInv
  <1> QED
    BY <1>3, <1>4, <1>5, <1>6 DEF MigrationInv

----------------------------------------------------------------------------
(* Replicas, writers and the owner.                                         *)

LEMMA ReplicaOK ==
    ASSUME MigrationInv, NEW r \in Replicas, Start(r) \/ VerifySchema(r) \/ Stop(r)
    PROVE  MigrationInv'
  <1>1. UNCHANGED <<db, rows, lock, pc, made>>
    BY DEF Start, VerifySchema, Stop
  <1>2. /\ check' \in [Replicas -> Checks \union {"down", "ready", "refused"}]
        /\ touched' \in [Replicas -> BOOLEAN]
        /\ \A q \in Replicas : q # r => check'[q] = check[q] /\ touched'[q] = touched[q]
    <2>1. \A step \in Checks : NextCheck[step] \in Checks \union {"ready"}
      BY DEF NextCheck, Checks
    <2>2. "mt" \in Checks
      BY DEF Checks
    <2> QED
      BY <2>1, <2>2, ZenonT(60) DEF Start, VerifySchema, Stop, MigrationInv, MigrationTypeOK
  <1>3. MigrationTypeOK' /\ DbInv' /\ RowsInv'
    BY <1>1, <1>2 DEF MigrationInv, MigrationTypeOK, DbInv, RowsInv
  <1>4. \A m \in Migrators : MadeInv(m)' /\ PcInv(m)'
    BY <1>1, MigrationFrame DEF MigrationInv
  <1>5. CheckInv(r)'
    <2>1. CASE Start(r)
      <3>1. check'[r] = "mt"
        BY <2>1 DEF Start, MigrationInv, MigrationTypeOK
      <3> QED
        BY <3>1 DEF CheckInv, Passed
    <2>2. CASE Stop(r)
      <3>1. check'[r] = "down"
        BY <2>2 DEF Stop, MigrationInv, MigrationTypeOK
      <3> QED
        BY <3>1 DEF CheckInv, Passed
    <2>3. CASE VerifySchema(r) /\ ~SchemaCheck(db, check[r])
      <3>1. check'[r] = "refused"
        BY <2>3 DEF VerifySchema, MigrationInv, MigrationTypeOK
      <3> QED
        BY <3>1 DEF CheckInv, Passed
    <2>4. CASE VerifySchema(r) /\ SchemaCheck(db, check[r])
      <3>1. check'[r] = NextCheck[check[r]] /\ touched' = touched /\ check[r] \in Checks
        BY <2>4 DEF VerifySchema, MigrationInv, MigrationTypeOK
      <3>2. Passed(NextCheck[check[r]]) \subseteq Passed(check[r]) \cup {check[r]}
        BY <3>1 DEF Passed, NextCheck, Checks
      <3>3. CheckInv(r)
        BY DEF MigrationInv
      <3> QED
        BY <1>1, <2>4, <3>1, <3>2, <3>3 DEF CheckInv
    <2> QED
      BY <2>1, <2>2, <2>3, <2>4
  <1>6. \A q \in Replicas : q # r => CheckInv(q)'
    BY <1>1, <1>2, CheckFrame DEF MigrationInv
  <1> QED
    BY <1>3, <1>4, <1>5, <1>6 DEF MigrationInv

LEMMA StoreOK ==
    ASSUME MigrationInv, NEW new \in SUBSET Rows, Store(new),
           \A row \in new : row.kind = "user" => row.text.dots = 0
    PROVE  MigrationInv'
  <1>1. /\ rows' = new /\ UNCHANGED <<db, lock, pc, made, check, touched>>
        /\ Cardinality(new) <= MaxRows /\ (db["index"] = "ok" => Unambiguous(new))
        /\ \A m \in Migrators : made[m] \cap Made001 = {}
    BY DEF Store
  <1>2. MigrationTypeOK' /\ DbInv' /\ RowsInv'
    BY <1>1 DEF MigrationInv, MigrationTypeOK, DbInv, RowsInv
  <1>3. ASSUME NEW m \in Migrators PROVE MadeInv(m)' /\ PcInv(m)'
    <2>1. "index" \notin made[m]
      BY <1>1 DEF Made001
    <2>2. View(m)' = View(m) /\ MadeInv(m) /\ PcInv(m)
      BY <1>1 DEF View, MigrationInv
    <2>3. CheckSchema(View(m))' <=> CheckSchema(View(m))
      BY <2>2 DEF CheckSchema, SchemaCheck, CheckMT, CheckLedger
    <2> QED
      BY <1>1, <2>1, <2>2, <2>3 DEF MadeInv, PcInv
  <1>4. \A r \in Replicas : CheckInv(r)'
    BY <1>1, CheckFrame DEF MigrationInv
  <1> QED
    BY <1>2, <1>3, <1>4 DEF MigrationInv

(* What the four writers store.                                             *)
LEMMA WritersOK ==
    ASSUME MigrationInv,
           \/ \E row \in [kind : Kinds, text : Texts] : PlatformAdds(row)
           \/ \E row \in rows : PlatformDeletes(row)
           \/ \E kind \in Kinds, typed \in Texts : Save(kind, typed)
           \/ \E claim \in Texts \intersect Claims : Enroll(claim)
    PROVE  MigrationInv'
  <1>1. rows \subseteq Rows /\ RowsInv /\ Texts \subseteq Spellings
    BY MigrationConstants DEF MigrationInv, MigrationTypeOK
  <1>2. ASSUME NEW row \in [kind : Kinds, text : Texts], PlatformAdds(row) PROVE MigrationInv'
    BY <1>1, <1>2, StoreOK DEF PlatformAdds, RowsInv, Rows
  <1>3. ASSUME NEW row \in rows, PlatformDeletes(row) PROVE MigrationInv'
    BY <1>1, <1>3, StoreOK DEF PlatformDeletes, RowsInv
  <1>4. ASSUME NEW kind \in Kinds, NEW typed \in Texts, Save(kind, typed) PROVE MigrationInv'
    <2> DEFINE row == [kind |-> kind, text |-> Validated(kind, typed)]
    <2>1. Validated(kind, typed) \in Spellings /\ Validated(kind, typed).dots = 0
      <3>1. Spelled(typed, typed.name, typed.upper, typed.padded, typed.unicode, typed.dots)
        BY <1>1 DEF Spelled
      <3> QED
        BY <3>1, Normalised DEF Validated, Spelled
    <2>2. row \in Rows /\ row.text.dots = 0
      BY <2>1 DEF Rows
    <2>3. Store(rows \cup {row})
      BY <1>4 DEF Save
    <2> QED
      BY <1>1, <2>2, <2>3, StoreOK DEF RowsInv
  <1>5. ASSUME NEW claim \in Texts \intersect Claims, Enroll(claim) PROVE MigrationInv'
    <2> DEFINE row == [kind |-> "user", text |-> ClaimKey(claim)]
    <2>1. ClaimKey(claim) \in Spellings /\ ClaimKey(claim).dots = 0
      BY DEF ClaimKey, Lower, Claims, Spellings
    <2>2. row \in Rows /\ row.text.dots = 0
      BY <2>1 DEF Rows, Kinds
    <2>3. Store(rows \cup {row})
      BY <1>5 DEF Enroll
    <2> QED
      BY <1>1, <2>2, <2>3, StoreOK DEF RowsInv
  <1> QED
    BY <1>2, <1>3, <1>4, <1>5


(* The owner and the platform change one object; a migration in its         *)
(* transaction keeps what it made and what it found.                        *)
LEMMA PlatformCreatesOK ==
    ASSUME MigrationInv, NEW t \in Tables, NEW status \in {"ok", "bad"}, PlatformCreates(t, status)
    PROVE  MigrationInv'
  <1>1. /\ db[t] = "absent" /\ db' = [db EXCEPT ![t] = status]
        /\ UNCHANGED <<rows, lock, pc, made, check, touched>>
        /\ \A m \in Migrators : t \notin made[m]
    BY DEF PlatformCreates
  <1>2. /\ db \in [Objects -> Statuses] /\ t \in Objects /\ db'[t] = status
        /\ \A o \in Objects : o # t => db'[o] = db[o]
    BY <1>1, ObjectNames DEF MigrationInv, MigrationTypeOK
  <1>3. MigrationTypeOK' /\ RowsInv'
    BY <1>1, <1>2 DEF MigrationInv, MigrationTypeOK, RowsInv, Statuses
  <1>4. DbInv /\ db["v1"] # "ok"
    BY <1>1 DEF MigrationInv, DbInv
  <1>5. DbInv'
    BY <1>1, <1>2, <1>4, ObjectNames DEF DbInv, Versions
  <1>6. ASSUME NEW m \in Migrators PROVE MadeInv(m)' /\ PcInv(m)'
    <2>1. MadeInv(m) /\ PcInv(m) /\ made[m] \subseteq Objects
      BY DEF MigrationInv, MigrationTypeOK
    <2>2. MadeInv(m)'
      BY <1>1, <1>2, <2>1, ObjectNames DEF MadeInv
    <2>3. \A o \in Objects \ {t} : View(m)'[o] = View(m)[o]
      BY <1>1, <1>2 DEF View
    <2>4. View(m)[t] = "absent"
      BY <1>1, <1>2, ViewAt
    <2>5. pc[m] \notin Verified
      BY <2>1, <2>4, SchemaFacts, ObjectNames DEF PcInv
    <2> QED
      BY <1>1, <1>2, <2>1, <2>2, <2>5, ObjectNames DEF PcInv, Verified
  <1>7. \A r \in Replicas : CheckInv(r)'
    <2>1. \A o \in Objects \ {"acl"} : db[o] = "ok" => db'[o] = "ok"
      BY <1>1, <1>2
    <2>2. db'["v3"] = db["v3"]
      BY <1>2, ObjectNames
    <2> QED
      BY <1>1, <2>1, <2>2, CheckFrame DEF MigrationInv
  <1> QED
    BY <1>3, <1>5, <1>6, <1>7 DEF MigrationInv

LEMMA RemovePermissionOK ==
    ASSUME MigrationInv, RemovePermission
    PROVE  MigrationInv'
  <1>1. /\ db["acl"] = "ok" /\ db' = [db EXCEPT !["acl"] = "absent"]
        /\ UNCHANGED <<rows, lock, pc, made, check, touched>>
    BY DEF RemovePermission
  <1>2. /\ db \in [Objects -> Statuses] /\ db'["acl"] = "absent"
        /\ \A o \in Objects : o # "acl" => db'[o] = db[o]
    BY <1>1, ObjectNames DEF MigrationInv, MigrationTypeOK
  <1>3. MigrationTypeOK' /\ RowsInv'
    BY <1>1, <1>2 DEF MigrationInv, MigrationTypeOK, RowsInv, Statuses
  <1>4. DbInv'
    BY <1>1, <1>2, ObjectNames DEF MigrationInv, DbInv, Versions
  <1>5. ASSUME NEW m \in Migrators PROVE MadeInv(m)' /\ PcInv(m)'
    <2>1. MadeInv(m) /\ PcInv(m) /\ made[m] \subseteq Objects
      BY DEF MigrationInv, MigrationTypeOK
    <2>2. MadeInv(m)'
      BY <1>1, <1>2, <2>1, ObjectNames DEF MadeInv
    <2>3. \A o \in Objects \ {"acl"} : View(m)'[o] = View(m)[o]
      BY <1>1, <1>2 DEF View
    <2>4. CheckSchema(View(m)') <=> CheckSchema(View(m))
      BY <2>3, SchemaFacts, ObjectNames
    <2>5. CheckSchema(View(m))' <=> CheckSchema(View(m)')
      BY DEF CheckSchema, SchemaCheck, CheckMT, CheckLedger
    <2> QED
      BY <1>1, <1>2, <2>1, <2>2, <2>3, <2>4, <2>5, ObjectNames DEF PcInv, Verified
  <1>6. \A r \in Replicas : CheckInv(r)'
    <2>1. \A o \in Objects \ {"acl"} : db'[o] = db[o]
      BY <1>2
    <2> QED
      BY <1>1, <2>1, CheckFrame, ObjectNames DEF MigrationInv
  <1> QED
    BY <1>3, <1>4, <1>5, <1>6 DEF MigrationInv

LEMMA OwnerOK ==
    ASSUME MigrationInv, NEW o \in Breakable, Break(o) \/ Restore(o)
    PROVE  MigrationInv'
  <1>1. /\ lock = None /\ UNCHANGED <<rows, lock, pc, made, check>>
        /\ db[o] \in {"ok", "bad"}
        /\ \/ db' = [db EXCEPT ![o] = "bad"]
           \/ db' = [db EXCEPT ![o] = "ok"] /\ (o = "index" => Unambiguous(rows))
    BY DEF Break, Restore
  <1>2. /\ db \in [Objects -> Statuses] /\ o \in Objects /\ db'[o] \in {"ok", "bad"}
        /\ \A p \in Objects : p # o => db'[p] = db[p]
        /\ o = "index" /\ db'[o] = "ok" => Unambiguous(rows)
    BY <1>1, ObjectNames DEF MigrationInv, MigrationTypeOK
  <1>3. touched' \in [Replicas -> BOOLEAN]
    BY DEF Break, Restore, MigrationInv, MigrationTypeOK
  <1>4. MigrationTypeOK' /\ RowsInv'
    BY <1>1, <1>2, <1>3 DEF MigrationInv, MigrationTypeOK, RowsInv, Statuses
  <1>5. DbInv'
    BY <1>1, <1>2, ObjectNames DEF MigrationInv, DbInv, Versions, Breakable
  <1>6. \A m \in Migrators : MadeInv(m)' /\ PcInv(m)'
    <2>1. \A m \in Migrators : lock # m
      BY <1>1, MigrationConstants
    <2>2. \A m \in Migrators : Outside(m)
      BY <2>1, OthersOutside
    <2> QED
      BY <1>1, <2>2 DEF Outside, MadeInv, PcInv, Verified, Idle
  <1>7. ASSUME NEW r \in Replicas PROVE CheckInv(r)'
    <2>1. CASE Break(o)
      <3>1. touched'[r] \/ check'[r] = "down"
        BY <2>1 DEF Break
      <3> QED
        BY <3>1 DEF CheckInv, Passed
    <2>2. CASE Restore(o)
      <3>1. db[o] = "bad" /\ touched' = touched
        BY <2>2 DEF Restore
      <3>2. \A p \in Objects \ {"acl"} : db[p] = "ok" => db'[p] = "ok"
        BY <1>2, <3>1
      <3>3. db'["v3"] = db["v3"]
        BY <1>2, ObjectNames DEF Breakable
      <3> QED
        BY <1>1, <3>1, <3>2, <3>3, CheckFrame DEF MigrationInv
    <2> QED
      BY <2>1, <2>2
  <1> QED
    BY <1>4, <1>5, <1>6, <1>7 DEF MigrationInv

----------------------------------------------------------------------------
LEMMA MigrationInitOK == MigrationInit => MigrationInv
  <1> SUFFICES ASSUME MigrationInit PROVE MigrationInv
    OBVIOUS
  <1>1. db \in [Objects -> Statuses] /\ DbInv
    <2>1. rows = {} /\ Unambiguous(rows)
      BY DEF MigrationInit, Unambiguous
    <2>2. PICK present \in {{}, {"users"}, Tables, Tables \cup Made001 \cup {"v1"},
                            Tables \cup Made001 \cup {"v1", "proxy", "acl"},
                            Tables \cup Made001 \cup {"v1", "column", "v2", "proxy", "acl"},
                            Tables \cup Made001 \cup {"v1", "column", "v2", "proxy", "acl", "v3"}} :
            \/ db = Holding(present)
            \/ present = Tables /\ db = [Holding(present) EXCEPT !["users"] = "bad"]
      BY DEF MigrationInit, StartingPoints
    <2>3. /\ Holding(present) \in [Objects -> Statuses]
          /\ \A o \in Objects : Holding(present)[o] = IF o \in present THEN "ok" ELSE "absent"
      BY DEF Holding, Statuses
    <2>4. db \in [Objects -> Statuses]
      BY <2>2, <2>3, ObjectNames DEF Statuses
    <2>5. CASE db = Holding(present)
      BY <2>1, <2>2, <2>3, <2>4, <2>5, ObjectNames DEF DbInv, Versions
    <2>6. CASE present = Tables /\ db = [Holding(present) EXCEPT !["users"] = "bad"]
      BY <2>1, <2>3, <2>4, <2>6, ObjectNames DEF DbInv, Versions
    <2> QED
      BY <2>2, <2>4, <2>5, <2>6
  <1>2. MigrationTypeOK
    <2>1. Cardinality({}) <= MaxRows
      BY MigrationConstants, FS_EmptySet
    <2> QED
      BY <1>1, <2>1 DEF MigrationInit, MigrationTypeOK, Idle
  <1>3. RowsInv
    BY DEF MigrationInit, RowsInv
  <1>4. \A m \in Migrators : MadeInv(m) /\ PcInv(m)
    <2>1. \A m \in Migrators : Outside(m)
      BY DEF MigrationInit, Outside, Idle
    <2> QED
      BY <2>1, OutsideOK
  <1>5. \A r \in Replicas : CheckInv(r)
    BY DEF MigrationInit, CheckInv, Passed
  <1> QED
    BY <1>1, <1>2, <1>3, <1>4, <1>5 DEF MigrationInv

LEMMA MigrationStepOK ==
    ASSUME MigrationInv, [MigrationNext]_migrationVars
    PROVE  MigrationInv'
  <1>1. ASSUME NEW m \in Migrators, Migrate(m) PROVE MigrationInv'
    BY <1>1, LockOK, CountOK, CheckTablesOK, ReadVersionOK, Apply001OK, Apply002OK, VerifyOK,
       SetupProxyOK, CheckProxyOK, CommitOK DEF Migrate
  <1>2. ASSUME NEW m \in Migrators, Abort(m) PROVE MigrationInv'
    BY <1>2, EndedOK DEF Abort, Idle
  <1>3. CASE UNCHANGED migrationVars
    <2>1. MigrationTypeOK' /\ DbInv' /\ RowsInv'
      BY <1>3 DEF migrationVars, MigrationInv, MigrationTypeOK, DbInv, RowsInv
    <2>2. \A m \in Migrators : MadeInv(m)' /\ PcInv(m)'
      BY <1>3, MigrationFrame DEF migrationVars, MigrationInv
    <2>3. \A r \in Replicas : CheckInv(r)'
      BY <1>3, CheckFrame DEF migrationVars, MigrationInv
    <2> QED
      BY <2>1, <2>2, <2>3 DEF MigrationInv
  <1> QED
    BY <1>1, <1>2, <1>3, BeginOK, ReplicaOK, WritersOK, PlatformCreatesOK, OwnerOK,
       RemovePermissionOK DEF MigrationNext

LEMMA MigrationInvHolds == MigrationSpec => []MigrationInv
  BY MigrationInitOK, MigrationStepOK, PTL DEF MigrationSpec

(* A replica that VerifySchema lets serve has a complete schema, for any    *)
(* number of migrations that commit between its separate checks.            *)
THEOREM ReadyMeansCompleteHolds == MigrationSpec => []ReadyMeansComplete
  <1>1. MigrationInv => ReadyMeansComplete
    <2> SUFFICES ASSUME MigrationInv, NEW r \in Replicas, check[r] = "ready", ~touched[r]
                 PROVE  CheckSchema(db) /\ db["proxy"] = "ok"
      BY DEF ReadyMeansComplete, MigrationInv
    <2>1. \A step \in Checks : SchemaCheck(db, step)
      BY DEF MigrationInv, CheckInv, Passed
    <2> QED
      BY <2>1 DEF CheckSchema, Checks, SchemaCheck
  <1> QED
    BY <1>1, MigrationInvHolds, PTL


----------------------------------------------------------------------------
(* Lookups.                                                                 *)

(* The key of a row, and of the claim that looks for it.                    *)
LEMMA KeyOfRow ==
    ASSUME NEW row \in Rows, row.kind = "user" => row.text.dots = 0, Normalisable(row.text)
    PROVE  Spelled(SqlKey(row), row.text.name, "none", "none", row.text.unicode, 0)
  <1>1. /\ row.text \in Spellings
        /\ Spelled(row.text, row.text.name, row.text.upper, row.text.padded, row.text.unicode,
                   row.text.dots)
    BY DEF Rows, Spelled
  <1> QED
    BY <1>1, Normalised DEF SqlKey

LEMMA KeyOfClaim ==
    ASSUME NEW claim \in Claims
    PROVE  Spelled(ClaimKey(claim), claim.name, "none", "none", claim.unicode, 0)
  <1>1. Spelled(claim, claim.name, claim.upper, "none", claim.unicode, 0)
    BY DEF Claims, Spelled, Spellings
  <1> QED
    BY <1>1, Normalised DEF ClaimKey

(* The row that has a claim's name, in a form that SQL normalises, is the   *)
(* one the claim finds.                                                     *)
LEMMA ClaimFinds ==
    ASSUME NEW held \in SUBSET Rows, NEW row \in held, NEW claim \in Claims, Unambiguous(held),
           row.kind = "user" => row.text.dots = 0, Normalisable(row.text),
           claim.name = row.text.name, claim.unicode = row.text.unicode
    PROVE  Found(held, row.kind, ClaimKey(claim)) = {row}
  <1>1. SqlKey(row) = ClaimKey(claim)
    BY KeyOfRow, KeyOfClaim, SameSpelling
  <1> QED
    BY <1>1 DEF Found, Unambiguous

(* While the indexes of 001_auth.sql on normalised emails and domains are   *)
(* in force, the lookup of a sign-in matches no two rows, and matches the   *)
(* row of its name that was written in a form SQL's functions normalise.    *)
THEOREM OneMatchHolds == MigrationSpec => []OneMatch
  <1>1. MigrationInv => OneMatch
    <2> SUFFICES ASSUME MigrationInv, db["index"] = "ok", NEW kind \in Kinds, NEW claim \in Claims
                 PROVE  /\ \A r, s \in Found(rows, kind, ClaimKey(claim)) : r = s
                        /\ \A row \in rows :
                              (/\ row.kind = kind /\ Normalisable(row.text)
                               /\ claim.name = row.text.name /\ claim.unicode = row.text.unicode)
                              => row \in Found(rows, kind, ClaimKey(claim))
      BY DEF OneMatch
    <2>1. rows \subseteq Rows /\ RowsInv /\ Unambiguous(rows)
      BY DEF MigrationInv, MigrationTypeOK, DbInv
    <2>2. \A r, s \in Found(rows, kind, ClaimKey(claim)) : r = s
      BY <2>1 DEF Found, Unambiguous
    <2>3. ASSUME NEW row \in rows, row.kind = kind, Normalisable(row.text),
                 claim.name = row.text.name, claim.unicode = row.text.unicode
          PROVE  row \in Found(rows, kind, ClaimKey(claim))
      <3>1. Found(rows, row.kind, ClaimKey(claim)) = {row}
        BY <2>1, <2>3, ClaimFinds DEF RowsInv
      <3> QED
        BY <2>3, <3>1
    <2> QED
      BY <2>2, <2>3
  <1> QED
    BY <1>1, MigrationInvHolds, PTL

(* A sign-in whose claim is in the ASCII form finds what an operator saved, *)
(* for every spelling that validation accepts.                              *)
THEOREM SavedIsFoundHolds == MigrationSpec => SavedIsFound
  <1> DEFINE row(kind, typed) == [kind |-> kind, text |-> Validated(kind, typed)]
             Finds(kind, typed, claim) ==
                 Found(rows', kind, ClaimKey(claim)) = {row(kind, typed)}
  <1>1. ASSUME MigrationInv, NEW kind \in Kinds, NEW typed \in Texts, Save(kind, typed),
               db["index"] = "ok",
               NEW claim \in Claims, claim.name = typed.name, ~claim.unicode
        PROVE  Finds(kind, typed, claim)
    <2> DEFINE text == Validated(kind, typed)
               new == rows \cup {[kind |-> kind, text |-> text]}
    <2>1. Spelled(typed, typed.name, typed.upper, typed.padded, typed.unicode, typed.dots)
      BY MigrationConstants DEF Spelled
    <2>2. Spelled(text, typed.name, "none", "none", FALSE, 0)
      BY <2>1, Normalised DEF Validated
    <2>3. rows' = new /\ Unambiguous(new)
      BY <1>1 DEF Save, Store
    <2>4. new \subseteq Rows
      BY <1>1, <2>2 DEF MigrationInv, MigrationTypeOK, Rows, Spelled
    <2>9. Normalisable(text)
      BY <2>2 DEF Spelled, Normalisable
    <2>5. text.dots = 0 /\ text.name = claim.name /\ text.unicode = FALSE /\ claim.unicode = FALSE
      BY <1>1, <2>2 DEF Spelled, Claims, Spellings
    <2> HIDE DEF text
    <2>6. PICK saved : saved = [kind |-> kind, text |-> text]
      OBVIOUS
    <2>7. saved \in new /\ saved.kind = kind /\ saved.text = text
      BY <2>6
    <2> HIDE DEF new
    <2>8. Found(new, saved.kind, ClaimKey(claim)) = {saved}
      BY <1>1, <2>3, <2>4, <2>5, <2>7, <2>9, ClaimFinds, ZenonT(60)
    <2> QED
      BY <2>3, <2>6, <2>7, <2>8 DEF text
  <1>2. MigrationInv /\ [MigrationNext]_migrationVars =>
          [\A kind \in Kinds, typed \in Texts :
             Save(kind, typed) /\ db["index"] = "ok" =>
                 \A claim \in Claims :
                     claim.name = typed.name /\ ~claim.unicode => Finds(kind, typed, claim)]_migrationVars
    BY <1>1
  <1> QED
    BY <1>2, MigrationInvHolds, PTL DEF MigrationSpec, SavedIsFound

----------------------------------------------------------------------------
(* What a refused migration says.                                           *)
LEMMA RefusedForCause ==
    ASSUME MigrationInv, NEW m \in Migrators, Migrate(m), pc[m] # "refused", pc'[m] = "refused"
    PROVE  Unfit
  <1>1. /\ db \in [Objects -> Statuses] /\ made[m] \subseteq Objects /\ pc \in [Migrators -> InTx \union Idle]
        /\ MadeInv(m) /\ DbInv /\ PcInv(m)
    BY DEF MigrationInv, MigrationTypeOK
  <1>2. \A o \in Objects : View(m)[o] = IF o \in made[m] THEN "ok" ELSE db[o]
    BY <1>1, ViewAt
  <1>3. \A o \in Objects : db[o] \in {"absent", "ok"} \/ Unfit
    BY <1>1 DEF Statuses, Unfit
  <1>4. \A at : pc' = [pc EXCEPT ![m] = at] => at = "refused"
    BY <1>1
  <1>5. CASE Count(m)
    <2>1. {t \in Tables : View(m)[t] # "absent"} \notin {{}, Tables} /\ made[m] = {}
      BY <1>1, <1>4, <1>5 DEF Count, Step, PcInv
    <2>2. PICK t \in Tables, u \in Tables : db[t] = "absent" /\ db[u] # "absent"
      BY <1>2, <2>1, ObjectNames
    <2>3. TRUE \in {db[x] = "absent" : x \in Tables} /\ FALSE \in {db[x] = "absent" : x \in Tables}
      BY <2>2
    <2> QED
      BY <2>3 DEF Unfit
  <1>6. CASE CheckTables(m)
    <2>1. /\ ~CheckMT(View(m)) /\ made[m] = {} /\ \A t \in Tables : db[t] # "absent"
      BY <1>1, <1>4, <1>6 DEF CheckTables, Step, PcInv
    <2> QED
      BY <1>2, <1>3, <2>1, ObjectNames DEF CheckMT
  <1>7. CASE ReadVersion(m)
    <2>1. VersionOf(View(m)) > 2 /\ made[m] = {}
      BY <1>1, <1>4, <1>7 DEF ReadVersion, Step, PcInv
    <2>2. View(m)["v3"] = "ok"
      BY <2>1, VersionFacts
    <2>3. db["v3"] = "ok"
      BY <1>2, <2>1, <2>2, ObjectNames DEF Versions
    <2> QED
      BY <2>3, VersionFacts DEF Unfit
  <1>8. CASE Apply001(m)
    <2>1. /\ made[m] = {} /\ \A o \in Made001 : db[o] = "absent"
          /\ \/ ~(Unambiguous(rows) /\ \A o \in Made001 : View(m)[o] = "absent")
             \/ \E t \in Tables : View(m)[t] = "bad"
      BY <1>1, <1>4, <1>8 DEF Apply001, Step, PcInv, DbInv
    <2> QED
      BY <1>2, <1>3, <2>1, ObjectNames DEF Unfit
  <1>9. CASE Apply002(m)
    <2>1. View(m)["column"] # "absent" /\ pc[m] = "m002"
      BY <1>4, <1>9 DEF Apply002, Step
    <2>2. "column" \notin made[m] /\ db["column"] = "absent"
      BY <1>1, <2>1 DEF PcInv, MadeInv, DbInv
    <2> QED
      BY <1>2, <2>1, <2>2, ObjectNames
  <1>10. CASE Verify(m)
    <2>1. ~CheckSchema(View(m)) /\ pc[m] = "checkSchema"
      BY <1>4, <1>10 DEF Verify, Step
    <2>2. /\ View(m)["v1"] = "ok" /\ View(m)["v2"] = "ok" /\ View(m)["v3"] = "absent"
          /\ View(m)["column"] = "ok"
      BY <1>1, <1>2, <2>1, ObjectNames DEF PcInv, MadeInv, DbInv, Versions
    <2>3. PICK o \in Tables \cup Made001 : View(m)[o] # "ok"
      BY <2>1, <2>2, SchemaFacts, ObjectNames
    <2>4. db[o] # "absent" /\ db[o] # "ok"
      BY <1>1, <1>2, <2>1, <2>3, ObjectNames DEF PcInv, MadeInv, DbInv
    <2> QED
      BY <1>3, <2>4, ObjectNames
  <1>11. CASE CheckProxy(m)
    <2>1. View(m)["proxy"] # "ok" /\ pc[m] = "checkProxy"
      BY <1>4, <1>11 DEF CheckProxy, Step
    <2>2. db["proxy"] # "absent" /\ db["proxy"] # "ok"
      BY <1>1, <1>2, <2>1, ObjectNames DEF PcInv
    <2> QED
      BY <1>3, <2>2, ObjectNames
  <1>12. CASE Lock(m) \/ SetupProxy(m) \/ Commit(m)
    BY <1>4, <1>12 DEF Lock, SetupProxy, Commit, Step
  <1> QED
    BY <1>5, <1>6, <1>7, <1>8, <1>9, <1>10, <1>11, <1>12 DEF Migrate

(* A migration is refused only for what is wrong with the database, not for *)
(* losing a race or for being run again.                                    *)
THEOREM FailsForCauseHolds == MigrationSpec => FailsForCause
  <1>1. ASSUME MigrationInv, MigrationNext, NEW m \in Migrators,
               pc[m] # "refused", pc'[m] = "refused"
        PROVE  Unfit
    <2>1. pc' # pc /\ pc \in [Migrators -> InTx \union Idle]
      BY <1>1 DEF MigrationInv, MigrationTypeOK
    <2>2. PICK n \in Migrators : Begin(n) \/ Migrate(n) \/ Abort(n)
      BY <1>1, <2>1 DEF MigrationNext, Start, VerifySchema, Stop, PlatformAdds, PlatformDeletes,
                        Save, Enroll, Store, PlatformCreates, Break, Restore, RemovePermission
    <2>3. ~Begin(n) /\ ~Abort(n)
      BY <1>1, <2>1 DEF Begin, Abort, Ended
    <2>4. \E at : pc' = [pc EXCEPT ![n] = at]
      BY <2>2, <2>3 DEF Migrate, Lock, Count, CheckTables, ReadVersion, Apply001, Apply002, Verify,
                        SetupProxy, CheckProxy, Commit, Step, Refuse, Ended
    <2>5. n = m
      BY <1>1, <2>1, <2>4
    <2> QED
      BY <1>1, <2>2, <2>3, <2>5, RefusedForCause
  <1>2. MigrationInv /\ [MigrationNext]_migrationVars =>
          [\A m \in Migrators : pc[m] # "refused" /\ pc'[m] = "refused" => Unfit]_migrationVars
    BY <1>1
  <1> QED
    BY <1>2, MigrationInvHolds, PTL DEF MigrationSpec, FailsForCause

----------------------------------------------------------------------------
(* The committed database goes through the steps of Schema.                 *)

LEMMA PromisedUnambiguous ==
    ASSUME NEW held
    PROVE  Promised!Unambiguous(held) <=> Unambiguous(held)
  <1>1. ASSUME NEW row PROVE Promised!SqlKey(row) = SqlKey(row)
    BY DEF SqlKey, SqlEmail, SqlDomain, SqlLower, SqlTrim, SqlUndot, Lower, Trim,
           Promised!SqlKey, Promised!SqlEmail, Promised!SqlDomain, Promised!SqlLower,
           Promised!SqlTrim, Promised!SqlUndot, Promised!Lower, Promised!Trim
  <1> QED
    BY <1>1 DEF Unambiguous, Promised!Unambiguous

(* What complete stands for implies, in every state of the invariant.       *)
LEMMA CompleteFacts ==
    ASSUME MigrationInv
    PROVE  /\ CheckSchema(db) \in BOOLEAN
           /\ CheckSchema(db) => VersionOf(db) = 2 /\ Unambiguous(rows)
  BY SchemaFacts, VersionFacts DEF MigrationInv, DbInv, CheckSchema

LEMMA SchemaInitOK == MigrationInit => Promised!SchemaInit
  <1> SUFFICES ASSUME MigrationInit PROVE Promised!SchemaInit
    OBVIOUS
  <1>1. MigrationInv
    BY MigrationInitOK
  <1>2. VersionOf(db) \in 0 .. 3 /\ (db["acl"] = "ok" => db["proxy"] # "absent")
    BY <1>1, VersionFacts DEF MigrationInv, DbInv
  <1> QED
    BY <1>1, <1>2, CompleteFacts, PromisedUnambiguous DEF Promised!SchemaInit

(* A step that leaves the ledger, the proxy schema, the permission and the  *)
(* rows alone either tampers with the objects of version 2 or changes       *)
(* nothing Schema speaks of.                                                *)
LEMMA TamperStep ==
    ASSUME MigrationInv, MigrationInv',
           \A o \in Versions \cup {"acl"} : db'[o] = db[o],
           db["proxy"] # "absent" <=> db'["proxy"] # "absent",
           rows' = rows
    PROVE  [Promised!SchemaNext]_(Promised!schemaVars)
  <1>1. VersionOf(db)' = VersionOf(db)
    <2>1. VersionOf(db)' = VersionOf(db')
      BY DEF VersionOf
    <2> QED
      BY <2>1 DEF VersionOf, Versions
  <1>2. CheckSchema(db) \in BOOLEAN /\ CheckSchema(db)' \in BOOLEAN
    BY CompleteFacts DEF CheckSchema
  <1>3. CheckSchema(db) => VersionOf(db) = 2
    BY CompleteFacts
  <1>4. CheckSchema(db)' => VersionOf(db)' = 2 /\ Unambiguous(rows)
    <2>1. CheckSchema(db)' => CheckSchema(db') /\ VersionOf(db)' = VersionOf(db')
      BY DEF CheckSchema, SchemaCheck, CheckMT, CheckLedger, VersionOf
    <2>2. CheckSchema(db') => VersionOf(db') = 2 /\ Unambiguous(rows')
      BY SchemaFacts, VersionFacts DEF MigrationInv, DbInv
    <2> QED
      BY <2>1, <2>2
  <1>5. (db["acl"] = "ok")' = (db["acl"] = "ok") /\ (db["proxy"] # "absent")' = (db["proxy"] # "absent")
    BY DEF Versions
  <1>6. CASE CheckSchema(db)' = CheckSchema(db)
    BY <1>1, <1>5, <1>6 DEF Promised!schemaVars
  <1>7. CASE CheckSchema(db)' # CheckSchema(db)
    <2>1. VersionOf(db) = 2
      BY <1>1, <1>2, <1>3, <1>4, <1>7
    <2>2. Promised!Tamper
      BY <1>1, <1>4, <1>5, <1>7, <2>1, PromisedUnambiguous DEF Promised!Tamper
    <2> QED
      BY <2>2 DEF Promised!SchemaNext
  <1> QED
    BY <1>6, <1>7

(* Most steps commit nothing at all.                                        *)
LEMMA NothingCommitted ==
    ASSUME db' = db, rows' = rows
    PROVE  [Promised!SchemaNext]_(Promised!schemaVars)
  <1>1. VersionOf(db)' = VersionOf(db) /\ CheckSchema(db)' = CheckSchema(db)
    BY DEF VersionOf, CheckSchema, SchemaCheck, CheckMT, CheckLedger
  <1> QED
    BY <1>1 DEF Promised!schemaVars

LEMMA CommitInstalls ==
    ASSUME MigrationInv, NEW m \in Migrators, Commit(m)
    PROVE  Promised!Install
  <1>1. db' = View(m) /\ rows' = rows
    BY DEF Commit
  <1>2. /\ db'["v3"] = "absent" /\ db'["v2"] = "ok" /\ CheckSchema(db') /\ db'["proxy"] = "ok"
        /\ db'["acl"] = "ok" <=> db["acl"] = "ok" \/ db["proxy"] = "absent"
        /\ Unambiguous(rows) /\ db["v3"] = "absent" /\ (db["v2"] = "ok" => CheckSchema(db))
    BY <1>1, CommitFacts, SchemaFacts
  <1>3. VersionOf(db)' = VersionOf(db') /\ CheckSchema(db)' = CheckSchema(db')
    BY DEF VersionOf, CheckSchema, SchemaCheck, CheckMT, CheckLedger
  <1>4. VersionOf(db)' = 2 /\ CheckSchema(db)' = TRUE
    BY <1>2, <1>3, VersionFacts DEF CheckSchema
  <1>5. VersionOf(db) < 2 \/ (VersionOf(db) = 2 /\ CheckSchema(db))
    BY <1>2, VersionFacts
  <1>6. /\ (db["proxy"] # "absent")' = TRUE
        /\ (db["acl"] = "ok")' = (db["acl"] = "ok" \/ ~(db["proxy"] # "absent"))
    BY <1>2
  <1> QED
    BY <1>1, <1>2, <1>4, <1>5, <1>6, PromisedUnambiguous DEF Promised!Install

LEMMA WritersWrite ==
    ASSUME MigrationInv, NEW new, Store(new)
    PROVE  [Promised!SchemaNext]_(Promised!schemaVars)
  <1>1. db' = db /\ rows' = new /\ (db["index"] = "ok" => Unambiguous(new))
    BY DEF Store
  <1>2. VersionOf(db)' = VersionOf(db) /\ CheckSchema(db)' = CheckSchema(db)
    BY <1>1 DEF VersionOf, CheckSchema, SchemaCheck, CheckMT, CheckLedger
  <1>3. CheckSchema(db) => Promised!Unambiguous(rows')
    BY <1>1, SchemaFacts, PromisedUnambiguous
  <1>4. CASE rows' # rows
    <2>1. Promised!WriteRows
      BY <1>1, <1>2, <1>3, <1>4 DEF Promised!WriteRows
    <2> QED
      BY <2>1 DEF Promised!SchemaNext
  <1>5. CASE rows' = rows
    BY <1>1, <1>5, NothingCommitted
  <1> QED
    BY <1>4, <1>5

LEMMA PermissionWithdrawn ==
    ASSUME MigrationInv, RemovePermission
    PROVE  Promised!RemoveACL
  <1>1. /\ db["acl"] = "ok" /\ db' = [db EXCEPT !["acl"] = "absent"] /\ rows' = rows
        /\ db \in [Objects -> Statuses]
    BY DEF RemovePermission, MigrationInv, MigrationTypeOK
  <1>2. db'["acl"] = "absent" /\ \A o \in Objects \ {"acl"} : db'[o] = db[o]
    BY <1>1, ObjectNames
  <1>3. VersionOf(db)' = VersionOf(db)
    BY <1>2, ObjectNames DEF VersionOf
  <1>4. CheckSchema(db)' = CheckSchema(db)
    <2>1. CheckSchema(db)' = CheckSchema(db')
      BY DEF CheckSchema, SchemaCheck, CheckMT, CheckLedger
    <2>2. CheckSchema(db') <=> CheckSchema(db)
      BY <1>2, SchemaFacts, ObjectNames
    <2> QED
      BY <2>1, <2>2 DEF CheckSchema
  <1>5. (db["proxy"] # "absent")' = (db["proxy"] # "absent")
    BY <1>2, ObjectNames
  <1> QED
    BY <1>1, <1>2, <1>3, <1>4, <1>5 DEF Promised!RemoveACL

(* Migrations that race, crash and are run again, and everything the        *)
(* platform and the owner do meanwhile, implement what docs/schema.md       *)
(* promises.                                                                *)
THEOREM MigrationImplementsSchema == MigrationSpec => ImplementsSchema
  <1>1. ASSUME MigrationInv, [MigrationNext]_migrationVars
        PROVE  [Promised!SchemaNext]_(Promised!schemaVars)
    <2>1. MigrationInv'
      BY <1>1, MigrationStepOK
    <2>2. ASSUME NEW m \in Migrators, Begin(m) \/ Migrate(m) \/ Abort(m)
          PROVE  [Promised!SchemaNext]_(Promised!schemaVars)
      <3>1. CASE Commit(m)
        BY <1>1, <3>1, CommitInstalls DEF Promised!SchemaNext
      <3>2. CASE ~Commit(m)
        <4>1. db' = db /\ rows' = rows
          BY <2>2, <3>2 DEF Begin, Migrate, Lock, Count, CheckTables, ReadVersion, Apply001, Apply002,
                            Verify, SetupProxy, CheckProxy, Abort, Ended, Refuse, Quiet
        <4> QED
          BY <4>1, NothingCommitted
      <3> QED
        BY <3>1, <3>2
    <2>3. ASSUME NEW r \in Replicas, Start(r) \/ VerifySchema(r) \/ Stop(r)
          PROVE  [Promised!SchemaNext]_(Promised!schemaVars)
      BY <2>3, NothingCommitted DEF Start, VerifySchema, Stop
    <2>4. ASSUME NEW new, Store(new) PROVE [Promised!SchemaNext]_(Promised!schemaVars)
      BY <1>1, <2>4, WritersWrite
    <2>5. ASSUME NEW t \in Tables, NEW status \in {"ok", "bad"}, PlatformCreates(t, status)
          PROVE  [Promised!SchemaNext]_(Promised!schemaVars)
      <3>1. db \in [Objects -> Statuses] /\ db' = [db EXCEPT ![t] = status] /\ rows' = rows
        BY <1>1, <2>5 DEF PlatformCreates, MigrationInv, MigrationTypeOK
      <3>2. (\A o \in Versions \cup {"acl"} : db'[o] = db[o]) /\ db'["proxy"] = db["proxy"]
        BY <3>1, ObjectNames DEF Versions
      <3> QED
        BY <1>1, <2>1, <3>1, <3>2, TamperStep
    <2>6. ASSUME NEW o \in Breakable, Break(o) \/ Restore(o)
          PROVE  [Promised!SchemaNext]_(Promised!schemaVars)
      <3>1. /\ db \in [Objects -> Statuses] /\ rows' = rows
            /\ db[o] # "absent" /\ (db' = [db EXCEPT ![o] = "bad"] \/ db' = [db EXCEPT ![o] = "ok"])
        BY <1>1, <2>6 DEF Break, Restore, MigrationInv, MigrationTypeOK
      <3>2. /\ \A p \in Versions \cup {"acl"} : db'[p] = db[p]
            /\ db["proxy"] # "absent" <=> db'["proxy"] # "absent"
        BY <3>1, ObjectNames DEF Versions, Breakable
      <3> QED
        BY <1>1, <2>1, <3>1, <3>2, TamperStep
    <2>7. CASE RemovePermission
      BY <1>1, <2>7, PermissionWithdrawn DEF Promised!SchemaNext
    <2>8. CASE UNCHANGED migrationVars
      BY <2>8, NothingCommitted DEF migrationVars
    <2> QED
      BY <1>1, <2>2, <2>3, <2>4, <2>5, <2>6, <2>7, <2>8
         DEF MigrationNext, PlatformAdds, PlatformDeletes, Save, Enroll
  <1> QED
    BY <1>1, SchemaInitOK, MigrationInvHolds, PTL DEF MigrationSpec, ImplementsSchema, Promised!SchemaSpec

=============================================================================
