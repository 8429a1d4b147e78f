# A TLA+ model of scitrera-auth-go

scitrera-auth-go is a forward-auth proxy. Every request to a protected service
is checked against a PostgreSQL registry of tenants, domains, users, memberships
and admission policies, which operators edit through a private API and which
sign-ins may extend ("auto-add"). Each replica answers from local caches and
promises that a change committed one second ago is never missed. This project
models the parts that keep that promise, the parts that keep the registry right,
and the process, the schema and the public front door around them, checks them
with TLC and proves the central results with TLAPS.

## The system: parts, state, operations

| Part (source) | State | Operations | Must be correct |
|---|---|---|---|
| TTL cache (`internal/cache/ttl.go`) | map of entries with expiry, generation, singleflight group | `Get`, `Invalidate`, `Purge` | no load overtaken by an invalidation is stored or returned; age bounded by the TTL; capacity; every `Get` ends |
| Revision gate (`internal/cache/revision.go`) | remembered revision, time of the last good probe, mutex | `Check` | a passed check rests on purges newer than every commit one interval old; a failed probe forces a purge; every check ends |
| User resolution (`internal/resolver/resolver.go`, `enrollment.go`) | three caches, one gate; per request a deadline and records read | `Resolve`, `autoAdd` | freshness bound of the whole decision; own enrollments visible at once; every request ends |
| Admission rules (same files) | none: pure evaluation, plus the loop over tenants | `applyAuthChecks`, `providerAllowed`, `evaluateTenantChecks`, `autoAddAllowed` | evaluation as documented; overrides free nothing; enrollment never laxer than membership; identity pinned to a surviving tenant when a provider is known |
| Auth registry (`migrations/001_auth.sql`, `internal/admin/store.go`, `membership_auth.go`, `internal/mtdb/enrollment.go`) | five tables, revision row, audit | tenant, domain, policy, user, membership and override saves; enrollment; cascading deletes | references, unique emails, default tenant is an enabled membership |
| Registry transactions (same files) | row lock on `auth_admin_state`, open transactions | `Store.read`, `Store.write`, `AutoAddUser` | atomicity, no lost update, enrollment against the committed policy, audit, lock released |
| Operator API (`internal/admin/server.go`, `validation.go`) | none of its own | routes, `If-Match`, decoding, normalisation | valid inputs only reach a transaction; what is saved is what a sign-in finds |
| Operator sessions (`internal/admin/session.go`) | `auth_admin_sessions`, credential file, login limiter | `login`, `current`, `logout`, `Bootstrap` | a rotated credential ends its sessions |
| Browser sessions (`internal/admin/browser_sessions.go`) | Redis records and index (external), audit rows | list, revoke, revoke all | a revocation is never done without a durable request record |
| Public front door (`internal/external`) | Options of the process; in the browser the session cookie and the return cookie | landing, sign-in, logout, `checkz` | redirects only where the configuration allows; a tab's explicit destination is its own; a consumed return cookie is not followed by a later navigation; logged out stays out |
| Microsoft keys (`internal/loginproviders`) | key set, times of last success and attempt, singleflight | `VerifySignature`, `load` | rotated keys found; at most one attempt per minute; a key set older than a day is not used; one cancelled sign-in fails no other |
| Lifecycle (`cmd/scitrera-auth-proxy`) | clients, planes, listeners, error channels, root context | `run`, listener plan, shutdown | clients outlive the requests that use them; a true exit status; nothing leaks; shared listeners give every surface its paths; the process ends |
| Schema (`internal/mtdb/schema.go`, `migrations/`) | tables, indexes, triggers, ledger of versions, advisory lock | `Migrate`, `VerifySchema` | all or nothing under the advisory lock, whoever crashes or races; a replica serves on a complete schema only |
| Registry queries (`internal/mtdb/mtdb.go`) | none | lookups by email, domain, slug, config key | never two rows for one address, however they are spelled |

Interactions. `Resolve` calls the gate, then the caches; the gate calls back into
the caches (`Purge` of user, domain and config cache, in that order); the caches
call the repository, which reads the registry. `autoAdd` runs a registry
transaction and then invalidates the user cache. Operators, sign-ins of other
replicas and the platform change the registry; the only way a replica hears of it
is the revision, which statement triggers advance inside the same transaction.
`run` opens the repository and the session stores, hands them to the planes and
closes them after the drains; it serves only if `VerifySchema` finds what a separate
`migrate` has installed. The front door shares the session store with the internal
plane through Redis, and its return cookie with every tab of a browser.

What is hard: goroutines between two critical sections of a cache; loads shared
by callers of different times; purges in three steps; probes that are slow or
fail; commits whose answer is lost; statements of several transactions around
one row lock; two evaluators of the same stored policy; tabs that share cookies; the
order of closes around drains; migrations that race, crash or are repeated. `PROJECT.json` lists
these hazards with their lines and the properties aimed at them.

## Modules

| Module | Models | Uses |
|---|---|---|
| `RevisionStore` | clock, committed revision, its history | |
| `TTLCache` | `ttl.go` | `RevisionStore` |
| `RevisionGate` | `revision.go` and the callback installed by `resolver.New` | `RevisionStore` |
| `UserCheck` | `Resolve` and `autoAdd` on one replica | composes `TTLCache` and `RevisionGate` |
| `Ledger` | the registry as atomic operations (abstract specification) | |
| `Registry` | its transactions statement by statement | refines `Ledger` |
| `Admission` | the evaluation of policies and the loop over a user's tenants | |
| `SigningKeys` | `microsoft_keys.go` | |
| `OperatorSessions` | `session.go`, the session part of `ServeHTTP`, `api.ts` | |
| `BrowserSessions` | `browser_sessions.go` | |
| `Lifecycle` | `main.go`, `listeners.go`, `external.New` and `Stop` as far as clients go | |
| `Identifiers` | spellings of emails and domains and every normalisation of them (`validation.go`, the SQL, `resolver.go`) | |
| `Schema` | what `docs/schema.md` promises of a database (abstract specification) | `Identifiers` |
| `Migration` | `schema.go`, the `migrate` command, the SQL files, writers of rows | `Identifiers`; refines `Schema` |
| `FrontDoor` | `landing.go`, `logout.go`, `checkz.go`, the routes of `external/server.go` | |
| `CacheProofs` | theorems of `RevisionStore`, `TTLCache`, `RevisionGate` | those modules |
| `UserCheckProofs` | theorems of `UserCheck` | `UserCheck`, `CacheProofs` |
| `RegistryProofs` | theorems of `Ledger` and `Registry` | `Registry` |
| `AdmissionProofs`, `LifecycleProofs`, `MigrationProofs` | theorems | the module of that name |
| `SignInProofs` | theorems of `SigningKeys` and `FrontDoor` | those modules |
| `SessionProofs` | theorems of `OperatorSessions` and `BrowserSessions` | those modules |
| `MC*` | TLC instances and symmetry sets | |

### State and actions against the code

*RevisionStore.* A record is abstracted to the revision of the snapshot it was
read from, so "stale" is "of too small a revision". `revAt[t]` is history: the
last revision committed by the end of tick `t`.

*TTLCache.* Each critical section of the `RWMutex` is an action: `Lookup` (read
lock), `Recheck` and `StoreLoaded` (the closure), `Settle` (second generation
check), `Invalidate`, `Purge`. `Hit` is separate from `Lookup` because the clock
is read after the unlock. A flight is the goroutine `singleflight` starts; its
name is cache, generation and key, as in the `"%d:%s"` of the code. `LoadFail`
covers a database error as well as the end of the context of the caller that
started the flight, which every joiner shares. Which entry an eviction removes
is nondeterministic, as is Go's map order. `floor` and `owed` are history.

*RevisionGate.* The mutex is held from `Acquire` to `Release`. The probe is
`StartProbe` (clock), `ProbeRead` (the database reads) and then `Pass`,
`BeginPurge` or `ProbeFail` (error, two-second timeout, caller gone). The
callback is one `PurgeOne` per cache. `due`, `purgedAt`, `unpurged` are history.

*UserCheck.* A request moves through `gate`, `user`, then possibly `domain`,
`policy` (three reads), `tx`, `invalidate`, `leave`, and `checks`. What a record
says is left open: after a read the request may take any branch that some record
leads to. A client whose request failed at the gate asks again, so a failed probe can
be followed by checks at an equal revision. `PurgeOne` of the gate and `Purge` of the cache are one step here, as
the callback is the purge. `oldest`, `own` and `enrolled` are history. A request
without an email is rejected before any lookup, and machine principals never
reach the gate: neither rests on a cached record.

*Ledger.* `db` holds the five tables (absent rows are `Nil`, `"none"`, `"no"`).
One record per request kind, `Valid` for the checks the transaction makes,
`Apply` for its statements, `Statements` for how often the triggers add one.
A tenant's allowlist and checks are the Boolean `autoAddAllowed` gives for the
sign-in; `Admission` models that function itself. Tenant and user deletion is
done by the platform; what it does here is the foreign keys' `ON DELETE`.
Platform writes that bypass the checks of `store.go` in other ways are unknown
code and not modelled.

*Registry.* `Lock` is `SELECT ... FOR UPDATE` with the `If-Match` comparison;
`Mutate` the checks and statements of an operator's request; `RereadTenant`,
`RereadUser`, `RereadPolicy` and `Insert` those of `AutoAddUser`; `Commit`
rereads the revision, writes the audit row and commits, and its answer may be
lost; `Abort` is the rollback at any point. Uncommitted rows are invisible to
others and the writers are serialised, so a transaction's statements take effect
in `Commit`. `outdated` is history.

*Admission.* Claims are a word, empty, not a string or missing; a rule is a
scalar, a list or of a type the code does not support. Strings are compared, not
built. The loop reads one tenant after the other; a lookup error drops it. The stored
default and the addressed tenant may be any (`mtdb.go:92` reads the default from the
user's row, not from the memberships); the loop clears a default that did not survive,
and without a provider there is no loop.

*SigningKeys.* `ReadCached` is the read lock of `load`; the flight is the call
under the name `"keys"` and carries the `force` of whoever started it. Its closure
is `Recheck`, `Refuse` or `Attempt`, then `Respond` (Microsoft), `Store` or
`FetchFail`. `Judge` is the rest of `VerifySignature`. A key has a kid and a scope
(the issuer it may sign for); a token names the key that signed it, or none. The
code between the end of the download and the assignment of the keys takes no tick
of the clock. A key set's `at`, `fetchAt` and `failedAt` are history.

*OperatorSessions.* A tab asks with the browser's cookie and its own CSRF token;
`Login` is the sign-in transaction, `Current` the check of cookie, credential and
CSRF token (both at whichever replica the request reaches), `Logout` the deletion,
`Answer` and `AnswerLost` what reaches the browser, `Restart` a replica that starts
with the credential file as edited since. Expiry may come at any time, so neither the TTL nor the difference of the
replica's and the database's clocks matters. A credential is a version of the
operator's token; hashes are represented by what they hash. `ended` and a
request's `shown` are history.

*BrowserSessions.* `ReadEmail`, `Requested`, `Revoke`, `Completed` are the steps of
the handler; each may fail, the last three also after they took effect. `SignIn`,
`ChangeEmail` and `DeleteUser` are everybody else. Emails stand for their normalised
form, which the schema's index keeps unique. `seen` is history, and an audit row
names its request.

*Lifecycle.* `stage` is where `run()` is; every construction step may succeed or
be the `EarlyReturn`. The three goroutine kinds are `RunStep` (main), `ExtraStep`
(one per listener main starts itself) and `InternalStep` (the library's plane, which
builds its handler, serves until the context ends, drains with a deadline and
returns, or fails). A channel is the results in it. `Route` is `listenerPlan.handler`
with one path for each case it tells apart. `Signal` is caught until `stop()` and
deadly after it. A request is the listener it came by and the surface that handles
it. `abandoned` is history: listeners whose drain deadline passed with requests left.

*Identifiers.* A spelling is a name and what writers vary: capitals (ASCII or others),
surrounding white space (spaces or other), Unicode or ASCII form, dots at the end. Each
normalising function is what it does to these four. SQL's are not Go's: `btrim` takes
off spaces only and then `rtrim` does not see the dots, and `lower` knows letters beyond
ASCII only where the collation does (`LowersAll`). A claim has no white space around it
and no final dot.

*Migration.* `db` gives every schema object a status, `made[m]` is what transaction
`m` created and has not committed; a statement sees its own objects over what others
committed. Each statement, or loop of equal statements, of `Migrate` is an action;
`Refuse` is an error return with the deferred `Rollback`, `Abort` the two minutes
running out, a broken connection or a crash, and a `Commit` may be repeated by a job
that never heard of it. `VerifySchema` checks one object per step on committed data.
`Apply001` fails on ambiguous rows (the unique indexes) and on objects it must create
that are there; tables it finds are kept. `Save` and `Enroll` write rows through
validation and through a claim, the platform in any spelling. `touched` is history.

*FrontDoor.* A request carries the cookies the browser had when it was sent; the
cookies of an answer are applied in `Deliver`, or lost. A destination is a path, one of
the two prefixes that `sanitizeRedirect` refuses, another string that begins with "/"
and still leads a browser to another host, a URL with its origin, or something else.
A cookie is a destination and the key it was signed with. `http.SetCookie` leaves out
bytes that a cookie cannot carry, after the value was signed: the cookie then has another
destination or a signature that fails. The origin check of `checkz` is a refusal that may
come at any time, since no property depends on it. The login and logout
handlers are the library's: login keeps a `next` that begins with "/", the callback
creates a session and goes there, logout deletes the session and clears the cookie or
fails with either undone. `out` and `owed` are history, kept by the browser.

## Runs

| Run | Question | Bounds |
|---|---|---|
| `ttl_cache` | overtaken loads, shared loads, age | 2 callers, 1 key, 2 generations, 1 revision, 3 ticks, TTL 1: one caller's load can be overtaken twice while the other joins old and new loads, and an entry expires and is replaced |
| `user_check` | freshness, own enrollments, the gate | 2 requests, 1 key per cache, interval 1, 1 revision, 2 ticks; `MaxGen` 4 lets each cache be purged and invalidated by both; a request that failed at the gate is repeated any number of times, so a pass, then a failed probe, then a check at an equal revision is reached |
| `user_check_liveness` | requests end | the same, time stopped, commits going on |
| `ledger` | consistency | 2 tenants, 2 users, 2 emails, revision up to 8: sequences of up to eight saves |
| `registry` | refinement, lost updates, enrollment, audit, end of transactions | 1 operator, 2 sign-ins, the platform, 1 tenant, 1 user, revision up to 4: the registry changes under an operator's envelope by an enrollment, by the platform and by the operator's own save whose answer was lost, and two sign-ins enroll the same user at once |
| `admission` | evaluation against the documented meaning, the identity | 2 memberships, one in mixed case, five shapes of rules, every kind of claim, allowlist and override, every stored default and addressed tenant |
| `signing_keys` | spaced requests, age of keys, rotation, errors of shared refreshes | 2 callers, 2 keys (one scoped), 4 tokens, timeout 1 < cooldown 2 < life 3, 4 ticks: a set can expire while a failed attempt cools down |
| `operator_sessions` | identity of writes, credentials in force, ended sessions | 2 tabs of one browser, 2 operators with 2 credentials each, 2 replicas, 2 sign-ins: the second sign-in replaces the session whose cookie and CSRF token the other tab still uses |
| `browser_sessions` | records of revocations | 2 requests, 2 users, 3 emails, 2 sessions |
| `lifecycle` | drains, exit status, leaks, routing, termination | 4 surfaces over 3 addresses in every way of sharing them, a malformed address, sessions in Redis or not, 1 request (two add nothing: requests do not interact) |
| `migration` | refinement of `Schema`, refusals, startup checks, spellings | 2 migrations, 1 replica, 8 starting databases, 1 name in 3 spellings (among them one SQL cannot normalise: `LowersAll` is FALSE), 2 rows: enough for a normalised duplicate, and one migration in the middle of the other's transaction |
| `front_door` | redirects, return cookies, logout | 2 tabs, 2 sessions, 2 asked destinations (a "path" that leads elsewhere, a URL; plain paths come from the callback and from stripped cookies) and a foreign cookie, 2 configurations (a host list and a key; other origins and no key): a restart between any two steps makes a captured destination outdated, a signature superfluous or missing |

All properties hold. `MaxTime`, `MaxRev`, `MaxGen` and `MaxReads` bound counters;
`MaxRows` and `MaxSessions` bound sets; the proofs do not depend on their values. Deadlock is checked except in
`user_check` and `user_check_liveness` (every request is served once), `ledger`
(the revision's bound ends every behaviour), `admission` (one decision),
`browser_sessions` (every request is served once) and `lifecycle` (the process
exits). Callers, requests, ids and emails, and tabs are interchangeable; symmetry
is used in runs without liveness only.

Type correctness of `TTLCache`, `UserCheck`, `Ledger`, `Registry`, `Admission` and
`SigningKeys` is part of the proofs' inductive invariants; the other modules' type
invariants are checked by TLC, as a conjunct of the first invariant of the run or,
in `front_door`, by themselves.

Each property has a mutant: a plausible mistake in the code (a missing
generation bump, a timestamp taken after the probe, an override that replaces
the whole map) under which TLC finds the property violated.

### Fairness

Weak fairness for running goroutines: Go's scheduler runs every runnable one, and
database calls end (two-second probe, five-second request deadline, driver
errors). Strong fairness for acquiring the gate's mutex, because `sync.Mutex`
hands itself over to a waiter after a millisecond, and for the row lock, because
PostgreSQL queues waiters. Nothing obliges anybody to call, to cancel, to commit
or to invalidate. Retries of `Get` are bounded by `MaxGen`: with invalidations
without end a `Get` would end by its context only.

`Migration`: weak fairness for a transaction's statements, which PostgreSQL answers or
the two-minute context ends; strong for the advisory lock, whose waiters PostgreSQL
queues. `Lifecycle`: weak fairness for `RunStep` once the planes are started (every
wait of main has a deadline or is for the library's plane) and for `InternalStep`;
none for the construction (`SchemaSmokeTest` has no deadline) and none for the
handlers of requests, so `Terminates` holds although a handler may hang.

## Proofs

All theorems hold for every number of processes, keys, tenants, users, tabs and
addresses, and every value of the bounds, under the assumptions named in the modules
(`BoundAssumption`, `CachesAssumption`, `CacheAssumption`, `GateAssumption`,
`CheckAssumption`, `LedgerAssumption`, `InitialAssumption`, `ClientAssumption`,
`AdmissionAssumption`, `KeysAssumption`, `FrontDoorConstants`, `SessionsAssumption`,
`BrowserAssumption`, `LifecycleAssumption`, `MigrationConstants`). Those say that
bounds are numbers, that inputs are of their types, and that the values that stand for
"none" are no real ones. Every invariant and every action property that a run checks is
also a theorem; what a theorem adds is that the bounds of the run do not matter.

* `NoStaleHolds`: `TTLSpec => []NoStale`, an entry part and a return part. Neither is
  inductive: a load in flight is not an entry yet. `StaleInv` adds that whatever
  carries the current generation (flight, delivered result) is at least as new as
  the last invalidation of its key, and that no generation is from the future.
* `AgeBoundHolds`: `TTLSpec => []AgeBound`. `AgeInv` ties a flight's start and an
  entry's expiry to the history of revisions.
* `CapacityBoundHolds`: `TTLSpec => []CapacityBound`. Lemmas on finite sets
  (`RoomForOne`, `FewerEntries`) give one step of the eviction; `RoomInv` adds that
  the map is finite, without which its size means nothing. No run checks this
  property, since a map of one key cannot outgrow its capacity.
* `PassedIsReconciledHolds`, `FailureForcesPurgeHolds`: from `GateInv` (mutex
  exclusion, what was due by the probe's start, what the probe's answer covers,
  that the remembered revision never exceeds any cache's last purge, and that only
  a zeroed gate may owe a purge).
* `FreshnessBoundHolds`, `EnrollmentVisibleHolds`: `Spec => []FreshnessBound` and
  `Spec => []EnrollmentVisible` for the composed replica. The invariants of the parts are reused: every step of
  `UserCheck` is a step of `TTLCache` and of `RevisionGate` (`StepIsTTL`,
  `StepIsGate`), and `CheckInv` connects the gate's promise (`due`, `purgedAt`) with
  what the caches owe (`floor`, `owed`). `CheckTypeHolds` is type correctness.
* `RegistryConsistentHolds`: `LedgerSpec => [](LedgerTypeOK /\ RegistryConsistent)`.
  `RegistryConsistent` is inductive with the type invariant. One lemma per
  operation (`TenantSaveKeeps` to `DeleteKeeps`) shows that its `Valid` and `Apply`
  keep `Consistent`; the interesting ones are those that must clear defaults.
* `RegistryImplementsLedger`: `RegistrySpec => LedgerSpec`. `db` and `rev` are the
  same variables in both. A `Commit` is a `Do` of the operation that was
  validated, all other steps stutter. This needs `RegistryInv`: the row lock is
  exclusive (`LockInv`), an operator past the lock has seen the current registry
  (`SeenInv`), and what a transaction has checked is still true (`CheckedInv`).
* `NoLostUpdateHolds`: `RegistrySpec => [](NoLostUpdate /\ EnrollmentAdmitted)`, from
  `SeenInv` and `CheckedInv`.
* `AuditNamesChangeHolds`: `RegistrySpec => AuditNamesChange`. `AuditInv` (no audit
  row names a later revision) and `StatementsMove` (an operation that changes
  `db` runs at least one statement) make the new row's revision a new one;
  `EnrollChanges` (an enrollment that is valid changes a row) and `CheckedInv` show that
  the second of two enrollments of one user leaves neither audit row nor revision.
* `AdmitsAsDocumentedHolds`, `EnrollmentRulesHold`, `OverrideFreesNothingHolds`,
  `IdentityPermittedHolds`: the rules of `Admission` for all claims, rules,
  providers and lists of memberships. The first three rest on lemmas about the
  operators: `MergedRules` (what the merge leaves in force), `EvaluationMeaning`
  (what `evaluateTenantChecks` computes), `FewerRules` (leaving rules out of a
  satisfied map), `EnrolledMember` and `EnrollmentAuthority`. The last is the
  invariant `AdmissionInv` of the loop, where only `Decide` names a tenant; its one
  exception, the default that is passed on when there is no provider, is in its statement.
* `AttemptsSpacedHolds`, `KeyAgeBoundHolds`, `RotationFoundHolds` for `SigningKeys`:
  from `KeysInv`, which says that a stored set is at most one refresh older than
  its timestamp (`StoredInv`), that the flight's attempt is the recorded one
  (`FlightInv`), and that between flights the last attempt has failed or its
  document is stored (`OutcomeInv`). `HandOut` lists the ways keys reach a caller.
* `ErrorForCauseHolds` for `SigningKeys`, from `KeysInv`: a flight that delivers an error
  has failed itself, or was refused within the cooldown of an attempt that failed
  (`OutcomeInv`: after one that succeeded the stored keys are still good).
* `FrontDoorTypeHolds`, `RedirectsAllowedHolds`, `LandsWhereAskedHolds`,
  `LoggedOutStaysOutHolds` for `FrontDoor`, from `FrontDoorInv`. None of the properties is
  inductive, for they speak of one answer and depend on what cookies and requests can
  hold: `BrowserOK` says that a browser told it is logged out has no session cookie, and
  that its return cookie is the one owed to it; `RequestOK` says the same of a request on
  its way (the cookies may have changed since) and that what the sign-in carries begins
  with "/"; `AnswerOK` says which answers set or clear which cookie, so that
  whatever order answers arrive in keeps `BrowserOK`. `WhoAnswers` finds the handler
  behind an answer; `PostLoginFields` and `CapturedFields` are what the operators
  compute. `RedirectsAllowed` needs nothing of the return cookie: the landing judges it
  again by the configuration of the moment (`AcceptedTrusted`). That a cookie never brings
  back a path that only looks like one of this host is `KeptCookies`.
* `NoMixedIdentityHolds`, `CredentialInForceHolds`, `EndedStaysEndedHolds` for
  `OperatorSessions`, from `SessionsInv`. Its core is `Names`: whoever holds a token,
  be it a page, a request or an answer on its way, knows it under the operator of the
  session it stands for, as long as that session is kept. It is inductive because tokens
  are drawn once (`RowsKept`: sessions come from new tokens only and keep their
  operator), whichever order the answers of several tabs arrive in.
* `CompletionTrueHolds`, `RevocationRecordedHolds` for `BrowserSessions`, from
  `BrowserInv`: a session seen when the email was read has had no other owner since
  (`SeenOK`), the request row is there from the first call to Redis on (`StageOK`), and
  gone stays gone (`OwnersKept`).
* `CleanExitHolds`, `DrainedBeforeCloseHolds`, `ListenersIsolatedHolds` for `Lifecycle`,
  from `LifecycleInv`: which clients are open at each stage of `run()` (`ClientsInv`),
  what can have happened by then (`StageInv`), what the planes may report (`PlanesInv`),
  and that the loop over the listeners has emptied those behind it (`RequestsInv`, which
  is what lets the closes follow the drains). The addresses of the plan are distinct and
  complete by the lemmas on `AddUnseen`.
* `MigrationImplementsSchema`: `MigrationSpec => ImplementsSchema`. A commit is the
  abstract migration, every statement before it stutters, and what the platform, the
  owner and the writers do is theirs in `Schema`. `MigrationInv` carries what one
  statement found out to the next: what is committed belongs together by version
  (`DbInv`), what a migration has made is absent outside (`MadeInv`, by the advisory
  lock), and what it has verified still holds when it commits (`PcInv`).
  `FailsForCauseHolds` and `ReadyMeansCompleteHolds` follow from the same invariant; the
  latter needs `CheckInv`, that the checks behind a replica still pass unless something
  was broken meanwhile. `OneMatchHolds` and `SavedIsFoundHolds` rest on `KeyOfRow`,
  `KeyOfClaim` and `ClaimFinds`: what each normalisation makes of a spelling.

The invariants were checked with TLC on the instances of the runs before they were
proved. Only model-checked: the liveness properties `RequestEnds`, `TxEnds`,
`MigrationEnds` and `Terminates`, since fairness and ENABLED are beyond the prover.

## Not modelled

Row decoding, page rendering and branding, logging, metrics and traces, HTTP parsing
and the parsing of environment variables carry no state the properties speak of. The
dashboard is a client of the operator API: its read-edit-save cycle is an operator of
`Registry`, its session handling a tab of `OperatorSessions`. The rules that
`PolicyInput.validate` applies to claim names and values decide which policies can be
stored; `Admission` evaluates every policy, stored by this API or not. The Aether proxy
library (`pkgauthproxy.Run`, the login handlers, session stores), `singleflight`,
`lib/pq`, PostgreSQL and Redis are external and appear as the code in `src/` uses them.

Assumptions about the environment: an owner alters schema objects by hand only while no
migration runs; the platform creates a table in one step; a provider's email claim has
neither surrounding spaces nor a final dot.

## Plan

Done: `RevisionStore`, `TTLCache`, `RevisionGate`, `UserCheck`, `Ledger`, `Registry`,
`Admission`, `SigningKeys`, `OperatorSessions`, `BrowserSessions`, then `Lifecycle`,
`Identifiers`, `Schema`, `Migration`, `FrontDoor`: the freshness promise first, then the
registry it is about, the decision, the state beside it, and the process around it.

Left, by importance:

1. Proofs: every safety property of the runs is proved; left are the type invariants of
   the modules whose theorems use them without stating them.
2. `PolicyInput.validate` against the evaluators of `Admission`: what an operator can
   store is what both evaluators understand.
3. Liveness of `SigningKeys` (every verification ends, although Microsoft may never
   answer). That every `Get` and every `Check` ends is covered by `RequestEnds`,
   which cannot hold without it.

## Observations

What the models show of the code beside the properties:

* *Signing keys.* `RotationFound` excepts flights a plain caller started. A plain caller
  that saw no fresh keys, and was stalled until after somebody else's refresh, starts a
  flight that returns the cached keys; a forced caller that joins it is handed them
  without a refresh, although more than a minute may have passed. The next sign-in
  refreshes.
* *Shared drains.* `DrainedBeforeClose` excepts a front door that shares the internal
  listener: `ext.Stop` (`main.go:257`) closes its Redis client before main waits for the
  internal plane to drain (`main.go:264`), so a browser request still in flight there
  meets a closed client. With an address of its own the front door drains first.
* *Signals.* During construction a signal cancels a context that `SchemaSmokeTest` does
  not use (`main.go:104`); the process goes on until it reaches the select. After
  `stop()` (`main.go:249`) a second signal ends the process at once.
* *International domains.* The operator API stores the ASCII form; the resolver only
  lowers the case of a claim, so a claim in Unicode does not find the row (`SavedIsFound`
  speaks of ASCII claims), and `checkz` looks the session's email up as it is.
* *Legacy slugs.* `GetTenantBySlug` compares exactly (`mtdb.go:166`) where the other
  lookups normalise: a slug stored in mixed case before the migration gets no branding.
* *checkz.* The comment at `server.go:85` lists top-level navigation among the requests
  without an Origin that are allowed; `checkz.go:153` rejects it first.
* *Return cookie.* When the HMAC key is removed from the configuration, a cookie signed
  before is followed with its signature still attached (`landing.go:167`). A landing
  without `rd` may follow a destination another tab left, and a cookie may be followed
  by two landings that were both sent before either was answered. The value is signed
  before `http.SetCookie` leaves out the bytes a cookie cannot carry, so a destination
  with a quote, a semicolon or a backslash fails its own signature and is forgotten.
* *Paths.* The comment at `landing.go:75` says "Same-origin relative paths are always
  allowed (but not protocol-relative "//host" or "/\host")". The code looks at the first
  two characters only (`landing.go:84-88`): a string that names a host in that way once
  `http.Redirect` has cleaned it, or a browser has left out the characters it ignores,
  passes. `RedirectsAllowed` names this as its exception and shows that it is the only
  one: the redirect goes where the same request asked, and no return cookie carries such
  a destination from one request to another.
* *Stored default.* Without a provider name `applyAuthChecks` passes the user's default
  on as stored (`resolver.go:260-264`), and the lookup reads it without joining the
  memberships (`mtdb.go:92`). `IdentityPermitted` names this as its exception. That a
  default is an enabled membership is then the registry's doing (`RegistryConsistent`),
  for rows that the operator API and enrollment wrote.
* *Normalisations.* A row that the platform wrote with a tab or a line end around the
  address, or with capitals the collation's `lower` does not know, is not found by any
  sign-in (`OneMatch` speaks of the rows SQL can normalise); the unique index still
  excludes two rows for one lookup.
