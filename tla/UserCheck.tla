----------------------------- MODULE UserCheck -----------------------------
(***************************************************************************)
(* One replica resolving user requests: Resolve of                         *)
(* internal/resolver/resolver.go and autoAdd of enrollment.go, composed of *)
(* the revision gate and the user, domain and config caches.  A request    *)
(* passes the gate, reads the user record, may enroll the user (domain and *)
(* policy reads, the enrollment transaction, the invalidation of the       *)
(* user's cache entry) and evaluates each tenant's admission policy.       *)
(*                                                                         *)
(* What the records say is left open: after every read the code may turn   *)
(* any way it can turn on some record.  What is kept is which read follows *)
(* which, what an error does, and how old every value is.                  *)
(***************************************************************************)
EXTENDS TTLCache, RevisionGate

CONSTANT MaxReads     \* bound on the policy reads of applyAuthChecks

ASSUME CheckAssumption == NumCaches = 3 /\ MaxReads \in Nat \ {0}

userCache == 1
domCache == 2
cfgCache == 3

VARIABLES
    req,          \* req[p]: the request p serves and how far Resolve is
    enrolled      \* history: enrolled[k] is the newest revision at which an
                  \* enrollment of email k by this replica committed, once its
                  \* autoAdd has returned

vars == <<now, rev, revAt, entries, generation, flights, call, floor,
          owner, step, started, answer, nextPurge, gateRev, checked, isZero,
          chk, due, purgedAt, unpurged, req, enrolled>>

Request ==
    [stage : {"new", "gate", "user", "domain", "policy", "tx", "invalidate", "leave",
              "checks", "decided", "error"},
     email   : Keys,
     reads   : Nat,       \* policy reads so far
     user    : Nat,       \* the revision of the user record in hand
     oldest  : Nat,       \* history: the oldest revision read so far
     outcome : {"none", "enrolled", "denied", "error"},   \* of AutoAddUser
     txRev   : Nat,       \* the revision AutoAddUser saw or committed last
     own     : Nat]       \* history: enrolled[email] when the request arrived

CheckTypeOK ==
    /\ TTLTypeOK
    /\ GateTypeOK
    /\ req \in [Procs -> Request]
    /\ enrolled \in [Keys -> Nat]

NewRequest == [stage |-> "new", email |-> CHOOSE k \in Keys : TRUE, reads |-> 0, user |-> 0,
           oldest |-> 0, outcome |-> "none", txRev |-> 0, own |-> 0]

Init ==
    /\ StoreInit
    /\ CacheInit
    /\ GateInit
    /\ req = [p \in Procs |-> NewRequest]
    /\ enrolled = [k \in Keys |-> 0]

At(p, s) == req[p].stage = s
GetDone(p) == call[p].pc = "done"
Value(p) == call[p].value
Older(a, b) == IF a <= b THEN a ELSE b

Becoming(p, r) == req' = [req EXCEPT ![p] = r]
Goto(p, s) == Becoming(p, [req[p] EXCEPT !.stage = s])

----------------------------------------------------------------------------
(* A goroutine serves one request, and another one after a request that     *)
(* failed at the gate: its client asks again.  (Requests that fail later or *)
(* are decided are not followed by another: the bound of this model.)       *)
Arrive(p, k) ==
    /\ At(p, "new") \/ (At(p, "error") /\ chk[p] = "failed")
    /\ BeginCheck(p)
    /\ Becoming(p, [NewRequest EXCEPT !.stage = "gate", !.email = k, !.own = enrolled[k]])
    /\ UNCHANGED <<storeVars, cacheVars, enrolled>>

(* The gate is asked before the request's own deadline exists.  A request   *)
(* without an email address is rejected before any lookup.                  *)
AfterGate(p) ==
    /\ At(p, "gate")
    /\ \/ /\ chk[p] = "passed"
          /\ BeginGet(p, userCache, req[p].email)
          /\ Goto(p, "user")
       \/ /\ chk[p] \in {"passed", "failed"}
          /\ Goto(p, "error")
          /\ UNCHANGED cacheVars
    /\ UNCHANGED <<storeVars, gateVars, enrolled>>

(* A lookup error outside the per-tenant loop fails the whole request.      *)
LookupError(p) ==
    /\ req[p].stage \in {"user", "domain", "policy"}
    /\ GetDone(p)
    /\ ~call[p].ok
    /\ Goto(p, "error")
    /\ UNCHANGED <<storeVars, cacheVars, gateVars, enrolled>>

(* Where Resolve goes once the question of enrollment is settled: it        *)
(* rejects (no user, no tenants) or reads the first tenant's policy.        *)
Settled(p, r) ==
    \/ /\ Becoming(p, [r EXCEPT !.stage = "decided"])
       /\ UNCHANGED cacheVars
    \/ /\ \E k \in Keys : BeginGet(p, cfgCache, k)
       /\ Becoming(p, [r EXCEPT !.stage = "checks", !.reads = 1])

(* The user record is here: a disabled user is rejected, a member goes on,  *)
(* anyone else is offered to autoAdd, which first reads the domain.         *)
UserRead(p) ==
    /\ At(p, "user")
    /\ GetDone(p) /\ call[p].ok
    /\ LET r == [req[p] EXCEPT !.user = Value(p), !.oldest = Value(p)]
       IN  \/ Settled(p, r)
           \/ /\ \E k \in Keys : BeginGet(p, domCache, k)
              /\ Becoming(p, [r EXCEPT !.stage = "domain"])
    /\ UNCHANGED <<storeVars, gateVars, enrolled>>

(* The domain's tenant, then auth:auto_add, auth:providers and auth:checks  *)
(* of that tenant: the tenant, the flag and the two rules together may end  *)
(* the attempt; all of them lead to the transaction.                        *)
PolicyRead(p) ==
    /\ req[p].stage \in {"domain", "policy"}
    /\ GetDone(p) /\ call[p].ok
    /\ LET r == [req[p] EXCEPT !.oldest = Older(@, Value(p))]
       IN  \/ r.reads # 2 /\ Settled(p, [r EXCEPT !.reads = 0])
           \/ /\ r.reads < 3
              /\ \E k \in Keys : BeginGet(p, cfgCache, k)
              /\ Becoming(p, [r EXCEPT !.stage = "policy", !.reads = @ + 1])
           \/ /\ r.reads = 3
              /\ Becoming(p, [r EXCEPT !.stage = "tx", !.reads = 0])
              /\ UNCHANGED cacheVars
    /\ UNCHANGED <<storeVars, gateVars, enrolled>>

(* AutoAddUser, a serialised transaction: it enrolls (one membership        *)
(* statement, two statements for a new user), finds the membership already  *)
(* there, is denied by what it rereads, or errs.  A commit whose answer is  *)
(* lost is an error of a transaction that did commit.                       *)
AutoAddUser(p) ==
    /\ At(p, "tx")
    /\ \/ \E n \in {1, 2}, o \in {"enrolled", "error"} :
            /\ CommitBy(n)
            /\ Becoming(p, [req[p] EXCEPT !.stage = "invalidate", !.outcome = o,
                                          !.txRev = rev + n])
       \/ \E o \in {"enrolled", "denied", "error"} :
            /\ Becoming(p, [req[p] EXCEPT !.stage = "invalidate", !.outcome = o,
                                          !.txRev = IF o = "enrolled" THEN rev ELSE 0])
            /\ UNCHANGED storeVars
    /\ UNCHANGED <<cacheVars, gateVars, enrolled>>

(* Mutant: an error returns before the invalidation.                        *)
InvalidateOnSuccess(p) ==
    /\ At(p, "invalidate")
    /\ IF req[p].outcome = "error"
       THEN UNCHANGED cacheVars
       ELSE Invalidate(userCache, req[p].email)
    /\ Goto(p, "leave")
    /\ UNCHANGED <<storeVars, gateVars, enrolled>>

(* userCache.Invalidate(email) whatever the outcome; a denied attempt goes  *)
(* on with the user record it came with.                                    *)
InvalidateUser(p) ==
    /\ At(p, "invalidate")
    /\ Invalidate(userCache, req[p].email)
    /\ Goto(p, "leave")
    /\ UNCHANGED <<storeVars, gateVars, enrolled>>

(* autoAdd returns: with the enrolled user, with the user it was given      *)
(* (denied) or with an error.                                               *)
LeaveAutoAdd(p) ==
    /\ At(p, "leave")
    /\ LET r == [req[p] EXCEPT !.outcome = "none", !.txRev = 0]
       IN  \/ /\ req[p].outcome = "error"
              /\ Becoming(p, [r EXCEPT !.stage = "error"])
              /\ UNCHANGED cacheVars
           \/ /\ req[p].outcome = "enrolled"
              /\ Settled(p, [r EXCEPT !.user = req[p].txRev])
           \/ /\ req[p].outcome = "denied"
              /\ Settled(p, r)
    /\ enrolled' = [enrolled EXCEPT ![req[p].email] =
                      IF @ <= req[p].txRev THEN req[p].txRev ELSE @]
    /\ UNCHANGED <<storeVars, gateVars>>

(* applyAuthChecks: auth:providers, then auth:checks, tenant after tenant.  *)
(* A lookup error drops that tenant only.                                   *)
ChecksRead(p) ==
    /\ At(p, "checks")
    /\ GetDone(p)
    /\ LET r == IF call[p].ok THEN [req[p] EXCEPT !.oldest = Older(@, Value(p))] ELSE req[p]
       IN  \/ /\ Becoming(p, [r EXCEPT !.stage = "decided", !.reads = 0])
              /\ UNCHANGED cacheVars
           \/ /\ r.reads < MaxReads
              /\ \E k \in Keys : BeginGet(p, cfgCache, k)
              /\ Becoming(p, [r EXCEPT !.reads = @ + 1])
    /\ UNCHANGED <<storeVars, gateVars, enrolled>>

ResolveStep(p) ==
    \/ AfterGate(p) \/ LookupError(p) \/ UserRead(p) \/ PolicyRead(p)
    \/ AutoAddUser(p) \/ InvalidateUser(p) \/ LeaveAutoAdd(p) \/ ChecksRead(p)

----------------------------------------------------------------------------
(* The parts step together: the gate's callback is a Purge of the caches.   *)

(* Mutant: the callback forgets the config cache.                           *)
GateStepKeepsConfig(p) ==
    /\ \/ /\ Acquire(p) \/ StillFresh(p) \/ StartProbe(p) \/ ProbeRead(p)
             \/ ProbeFail(p) \/ BeginPurge(p) \/ Pass(p)
          /\ UNCHANGED cacheVars
       \/ \E c \in Caches : /\ PurgeOne(p, c)
                            /\ IF c = cfgCache THEN UNCHANGED cacheVars ELSE Purge(c)
    /\ UNCHANGED <<storeVars, req, enrolled>>

GateStep(p) ==
    /\ \/ /\ Acquire(p) \/ StillFresh(p) \/ StartProbe(p) \/ ProbeRead(p)
             \/ ProbeFail(p) \/ BeginPurge(p) \/ Pass(p)
          /\ UNCHANGED cacheVars
       \/ \E c \in Caches : PurgeOne(p, c) /\ Purge(c)
    /\ UNCHANGED <<storeVars, req, enrolled>>

CachesStep == CacheStep /\ UNCHANGED <<storeVars, gateVars, req, enrolled>>

Environment == (Tick \/ Commit) /\ UNCHANGED <<cacheVars, gateVars, req, enrolled>>

Next ==
    \/ Environment
    \/ CachesStep
    \/ \E p \in Procs : GateStep(p) \/ ResolveStep(p)
    \/ \E p \in Procs, k \in Keys : Arrive(p, k)

(* As in the parts; a request that has arrived is a running goroutine.      *)
Fairness ==
    \A p \in Procs :
        /\ WF_vars(ResolveStep(p))
        /\ WF_vars(GateStep(p) /\ owner = p)
        /\ SF_vars(GateStep(p) /\ owner = Nobody)
        /\ WF_vars(GetStep(p) /\ UNCHANGED <<storeVars, gateVars, req, enrolled>>)

LoadFairness ==
    \A c \in Caches, k \in Keys, g \in 0 .. MaxGen :
        WF_vars(\E f \in flights : /\ f.cache = c /\ f.key = k /\ f.gen = g
                                   /\ FlightStep(f)
                                   /\ UNCHANGED <<storeVars, gateVars, req, enrolled>>)

Spec == Init /\ [][Next]_vars /\ Fairness /\ LoadFairness

----------------------------------------------------------------------------
(* Properties.                                                              *)

(* The freshness bound of docs/operations.md: a request's decision rests on *)
(* no record older than the last commit made Interval before it arrived,    *)
(* whichever caches it went through and whoever shared its loads, while     *)
(* commits, purges, expiries, failures and other requests interleave.       *)
FreshnessBound ==
    \A p \in Procs : At(p, "decided") => req[p].oldest >= due[p]

(* "The enrolling instance invalidates its user cache immediately"          *)
(* (docs/admission.md): a request that arrives after an enrollment of its   *)
(* email returned on this replica decides on that user record or a newer    *)
(* one, without waiting for the gate.                                       *)
EnrollmentVisible ==
    \A p \in Procs : At(p, "decided") => req[p].user >= req[p].own

(* The inductive strengthening of FreshnessBound and EnrollmentVisible: it  *)
(* ties what the gate promised a request to what the caches owe it.         *)
PastGate == {"user", "domain", "policy", "tx", "invalidate", "leave", "checks", "decided"}
Reading == {"user", "domain", "policy", "checks"}
UserKnown == PastGate \ {"user"}

(* Both ways a revision becomes a floor: a purge and an enrollment.         *)
FloorsRaised ==
    /\ \A c \in Caches, k \in Keys : purgedAt[c] <= floor[c][k]
    /\ \A k \in Keys : enrolled[k] <= floor[userCache][k]

GatePassed == \A p \in Procs : req[p].stage \in PastGate => chk[p] = "passed"

OwnInv ==
    \A p \in Procs : req[p].own <= floor[userCache][req[p].email]

(* What p's Get owes covers what p's request is due.                        *)
Answering(p) == call[p].pc = "read" \/ (call[p].pc = "done" /\ call[p].ok)

OwedInv ==
    \A p \in Procs :
        /\ req[p].stage \in Reading /\ Answering(p) => call[p].owed >= due[p]
        /\ At(p, "user") => call[p].cache = userCache /\ call[p].key = req[p].email
        /\ At(p, "user") /\ Answering(p) => call[p].owed >= req[p].own

RecordInv ==
    \A p \in Procs :
        /\ req[p].stage \in UserKnown => req[p].oldest >= due[p] /\ req[p].user >= req[p].own
        /\ req[p].stage \in {"invalidate", "leave"} =>
              /\ req[p].txRev <= rev
              /\ req[p].outcome = "enrolled" => req[p].txRev >= req[p].own
        /\ At(p, "leave") => req[p].txRev <= floor[userCache][req[p].email]

CheckInv == FloorsRaised /\ GatePassed /\ OwnInv /\ OwedInv /\ RecordInv

(* Every request that arrives is decided or fails: no cycle of waiting      *)
(* between the gate's mutex, the purges and the shared loads.               *)
RequestEnds ==
    \A p \in Procs : At(p, "gate") ~> (At(p, "decided") \/ At(p, "error"))

============================================================================
