-------------------------- MODULE UserCheckProofs --------------------------
(***************************************************************************)
(* The freshness bound for every number of requests and keys, every TTL,   *)
(* capacity and interval.  Every step of the composition is a step of the  *)
(* cache and a step of the gate, so their invariants hold here; CheckInv   *)
(* ties them to the requests.                                              *)
(***************************************************************************)
EXTENDS UserCheck, CacheProofs

(* The composition implements the cache.                                    *)
LEMMA StepIsTTL == ASSUME CheckTypeOK, [Next]_vars PROVE [TTLNext]_ttlVars
  <1>0. /\ userCache \in Caches /\ domCache \in Caches /\ cfgCache \in Caches
        /\ \A p \in Procs : req[p].email \in Keys
    BY CheckAssumption DEF userCache, domCache, cfgCache, Caches, CheckTypeOK, Request
  <1>1. CASE Environment
    BY <1>1 DEF Environment, TTLNext
  <1>2. CASE CachesStep
    BY <1>2 DEF CachesStep, TTLNext
  <1>3. ASSUME NEW p \in Procs, GateStep(p) PROVE [TTLNext]_ttlVars
    <2>1. CASE UNCHANGED cacheVars
      BY <1>3, <2>1 DEF GateStep, cacheVars, storeVars, ttlVars
    <2>2. CASE \E c \in Caches : Purge(c)
      BY <1>3, <2>2 DEF GateStep, TTLNext
    <2> QED
      BY <1>3, <2>1, <2>2 DEF GateStep
  <1>4. ASSUME NEW p \in Procs, ResolveStep(p) PROVE [TTLNext]_ttlVars
    <2>1. CASE UNCHANGED storeVars /\ UNCHANGED cacheVars
      BY <2>1 DEF cacheVars, storeVars, ttlVars
    <2>2. CASE UNCHANGED storeVars /\ \E c \in Caches, k \in Keys : BeginGet(p, c, k)
      BY <2>2 DEF TTLNext
    <2>3. CASE UNCHANGED storeVars /\ \E c \in Caches, k \in Keys : Invalidate(c, k)
      BY <2>3 DEF TTLNext
    <2>4. CASE Commit /\ UNCHANGED cacheVars
      BY <2>4 DEF TTLNext
    <2>5. CASE AfterGate(p)
      BY <1>0, <2>1, <2>2, <2>5 DEF AfterGate
    <2>6. CASE LookupError(p)
      BY <2>1, <2>6 DEF LookupError
    <2>7. CASE UserRead(p)
      BY <1>0, <2>1, <2>2, <2>7 DEF UserRead, Settled
    <2>8. CASE PolicyRead(p)
      BY <1>0, <2>1, <2>2, <2>8 DEF PolicyRead, Settled
    <2>9. CASE AutoAddUser(p)
      BY <2>1, <2>4, <2>9 DEF AutoAddUser, Commit
    <2>10. CASE InvalidateUser(p)
      BY <1>0, <2>3, <2>10 DEF InvalidateUser
    <2>11. CASE LeaveAutoAdd(p)
      BY <1>0, <2>1, <2>2, <2>11 DEF LeaveAutoAdd, Settled
    <2>12. CASE ChecksRead(p)
      BY <1>0, <2>1, <2>2, <2>12 DEF ChecksRead
    <2> QED
      BY <1>4, <2>5, <2>6, <2>7, <2>8, <2>9, <2>10, <2>11, <2>12 DEF ResolveStep
  <1>5. ASSUME NEW p \in Procs, NEW k \in Keys, Arrive(p, k) PROVE [TTLNext]_ttlVars
    BY <1>5 DEF Arrive, cacheVars, storeVars, ttlVars
  <1>6. CASE UNCHANGED vars
    BY <1>6 DEF vars, ttlVars
  <1> QED
    BY <1>1, <1>2, <1>3, <1>4, <1>5, <1>6 DEF Next

(* The composition implements the gate.                                     *)
LEMMA StepIsGate == ASSUME [Next]_vars PROVE [GateNext]_allGateVars
  <1>1. CASE Environment
    BY <1>1 DEF Environment, GateNext
  <1>2. CASE UNCHANGED storeVars /\ UNCHANGED gateVars
    BY <1>2 DEF storeVars, gateVars, allGateVars
  <1>3. ASSUME NEW p \in Procs, GateStep(p) PROVE [GateNext]_allGateVars
    <2>1. Acquire(p) \/ HolderStep(p)
      BY <1>3 DEF GateStep, HolderStep
    <2> QED
      BY <1>3, <2>1 DEF GateStep, GateNext
  <1>4. ASSUME NEW p \in Procs, ResolveStep(p) PROVE [GateNext]_allGateVars
    <2>1. UNCHANGED gateVars
      BY <1>4 DEF ResolveStep, AfterGate, LookupError, UserRead, PolicyRead, AutoAddUser,
         InvalidateUser, LeaveAutoAdd, ChecksRead
    <2>2. UNCHANGED storeVars \/ Commit
      BY <1>4 DEF ResolveStep, AfterGate, LookupError, UserRead, PolicyRead, AutoAddUser,
         InvalidateUser, LeaveAutoAdd, ChecksRead, Commit
    <2> QED
      BY <1>2, <2>1, <2>2 DEF GateNext
  <1>5. ASSUME NEW p \in Procs, NEW k \in Keys, Arrive(p, k) PROVE [GateNext]_allGateVars
    BY <1>5 DEF Arrive, GateNext
  <1>6. CASE UNCHANGED vars
    BY <1>6 DEF vars, allGateVars
  <1> QED
    BY <1>1, <1>2, <1>3, <1>4, <1>5, <1>6 DEF Next, CachesStep

----------------------------------------------------------------------------
(* Type correctness of one step.                                            *)
LEMMA NewRequestType == NewRequest \in Request
  <1>1. (CHOOSE k \in Keys : TRUE) \in Keys
    BY CacheAssumption
  <1> QED
    BY <1>1 DEF NewRequest, Request

LEMMA CheckTypeStep == ASSUME CheckTypeOK, [Next]_vars PROVE CheckTypeOK'
  <1>1. TTLTypeOK'
    BY StepIsTTL, TTLTypeStep DEF CheckTypeOK
  <1>2. GateTypeOK'
    BY StepIsGate, GateTypeStep DEF CheckTypeOK, TTLTypeOK, AllGateTypeOK
  <1> SUFFICES req' \in [Procs -> Request] /\ enrolled' \in [Keys -> Nat]
    BY <1>1, <1>2 DEF CheckTypeOK
  <1>0. /\ req \in [Procs -> Request] /\ enrolled \in [Keys -> Nat]
        /\ \A p \in Procs : call[p].value \in Nat
        /\ rev \in Nat
    BY DEF CheckTypeOK, TTLTypeOK, StoreTypeOK, CacheTypeOK, Call
  <1>3. CASE UNCHANGED <<req, enrolled>>
    BY <1>0, <1>3
  <1>4. ASSUME NEW p \in Procs, NEW k \in Keys, Arrive(p, k)
        PROVE  req' \in [Procs -> Request] /\ enrolled' \in [Keys -> Nat]
    <2>1. [NewRequest EXCEPT !.stage = "gate", !.email = k, !.own = enrolled[k]] \in Request
      BY <1>0, NewRequestType DEF Request
    <2> QED
      BY <1>0, <1>4, <2>1 DEF Arrive, Becoming
  <1>5. ASSUME NEW p \in Procs, ResolveStep(p)
        PROVE  req' \in [Procs -> Request] /\ enrolled' \in [Keys -> Nat]
    <2>0. req[p] \in Request /\ Value(p) \in Nat
      BY <1>0 DEF Value
    <2>1. \A s \in {"user", "error", "leave"} : [req[p] EXCEPT !.stage = s] \in Request
      BY <2>0 DEF Request
    <2>2. \A r \in Request :
             /\ [r EXCEPT !.stage = "decided"] \in Request
             /\ [r EXCEPT !.stage = "checks", !.reads = 1] \in Request
      BY DEF Request
    <2>3. ASSUME NEW r \in Request, Settled(p, r) PROVE req' \in [Procs -> Request]
      BY <1>0, <2>2, <2>3 DEF Settled, Becoming
    <2>4. CASE AfterGate(p) \/ LookupError(p) \/ InvalidateUser(p)
      BY <1>0, <2>1, <2>4 DEF AfterGate, LookupError, InvalidateUser, Goto, Becoming
    <2>5. CASE UserRead(p)
      <3> DEFINE r == [req[p] EXCEPT !.user = Value(p), !.oldest = Value(p)]
      <3>1. r \in Request /\ [r EXCEPT !.stage = "domain"] \in Request
        BY <2>0 DEF Request
      <3>2. Settled(p, r) \/ Becoming(p, [r EXCEPT !.stage = "domain"])
        BY <2>5 DEF UserRead
      <3> HIDE DEF r
      <3>3. req' \in [Procs -> Request]
        BY <1>0, <2>3, <3>1, <3>2 DEF Becoming
      <3> QED
        BY <1>0, <2>5, <3>3 DEF UserRead
    <2>6. CASE PolicyRead(p)
      <3> DEFINE r == [req[p] EXCEPT !.oldest = Older(@, Value(p))]
      <3>1. r \in Request
        BY <2>0 DEF Request, Older
      <3>2. \/ Settled(p, [r EXCEPT !.reads = 0])
            \/ Becoming(p, [r EXCEPT !.stage = "policy", !.reads = @ + 1])
            \/ Becoming(p, [r EXCEPT !.stage = "tx", !.reads = 0])
        BY <2>6 DEF PolicyRead
      <3> HIDE DEF r
      <3>30. \A n \in Nat, s \in {"policy", "tx"} :
                [r EXCEPT !.stage = s, !.reads = n] \in Request /\ [r EXCEPT !.reads = n] \in Request
        BY <3>1 DEF Request
      <3>31. r.reads + 1 \in Nat
        BY <3>1 DEF Request
      <3>3. /\ [r EXCEPT !.reads = 0] \in Request
            /\ [r EXCEPT !.stage = "policy", !.reads = @ + 1] \in Request
            /\ [r EXCEPT !.stage = "tx", !.reads = 0] \in Request
        BY <3>30, <3>31
      <3>4. req' \in [Procs -> Request]
        BY <1>0, <2>3, <3>2, <3>3 DEF Becoming
      <3> QED
        BY <1>0, <2>6, <3>4 DEF PolicyRead
    <2>7. CASE AutoAddUser(p)
      <3>1. \A o \in {"enrolled", "denied", "error"}, v \in Nat :
               [req[p] EXCEPT !.stage = "invalidate", !.outcome = o, !.txRev = v] \in Request
        BY <2>0 DEF Request
      <3>3. ASSUME NEW n \in {1, 2}, NEW o \in {"enrolled", "error"},
                   Becoming(p, [req[p] EXCEPT !.stage = "invalidate", !.outcome = o,
                                              !.txRev = rev + n])
            PROVE  req' \in [Procs -> Request]
        <4>1. rev + n \in Nat
          BY <1>0
        <4>2. [req[p] EXCEPT !.stage = "invalidate", !.outcome = o, !.txRev = rev + n] \in Request
          BY <3>1, <4>1
        <4> QED
          BY <1>0, <3>3, <4>2 DEF Becoming
      <3>4. ASSUME NEW o \in {"enrolled", "denied", "error"},
                   Becoming(p, [req[p] EXCEPT !.stage = "invalidate", !.outcome = o,
                                              !.txRev = IF o = "enrolled" THEN rev ELSE 0])
            PROVE  req' \in [Procs -> Request]
        <4>1. (IF o = "enrolled" THEN rev ELSE 0) \in Nat
          BY <1>0
        <4>2. [req[p] EXCEPT !.stage = "invalidate", !.outcome = o,
                             !.txRev = IF o = "enrolled" THEN rev ELSE 0] \in Request
          BY <3>1, <4>1
        <4> QED
          BY <1>0, <3>4, <4>2 DEF Becoming
      <3>5. req' \in [Procs -> Request]
        BY <2>7, <3>3, <3>4 DEF AutoAddUser
      <3> QED
        BY <1>0, <2>7, <3>5 DEF AutoAddUser
    <2>8. CASE LeaveAutoAdd(p)
      <3> DEFINE r == [req[p] EXCEPT !.outcome = "none", !.txRev = 0]
      <3>1. /\ r \in Request
            /\ req[p].txRev \in Nat
            /\ req[p].email \in Keys
        BY <2>0 DEF Request
      <3>2. \/ Becoming(p, [r EXCEPT !.stage = "error"])
            \/ Settled(p, [r EXCEPT !.user = req[p].txRev])
            \/ Settled(p, r)
        BY <2>8 DEF LeaveAutoAdd
      <3> HIDE DEF r
      <3>3. /\ [r EXCEPT !.stage = "error"] \in Request
            /\ [r EXCEPT !.user = req[p].txRev] \in Request
        BY <3>1 DEF Request
      <3>4. req' \in [Procs -> Request]
        BY <1>0, <2>3, <3>1, <3>2, <3>3 DEF Becoming
      <3> QED
        BY <1>0, <2>8, <3>1, <3>4 DEF LeaveAutoAdd
    <2>9. CASE ChecksRead(p)
      <3> DEFINE r == IF call[p].ok THEN [req[p] EXCEPT !.oldest = Older(@, Value(p))]
                                    ELSE req[p]
      <3>1. r \in Request
        BY <2>0 DEF Request, Older
      <3>2. \/ Becoming(p, [r EXCEPT !.stage = "decided", !.reads = 0])
            \/ Becoming(p, [r EXCEPT !.reads = @ + 1])
        BY <2>9 DEF ChecksRead
      <3> HIDE DEF r
      <3>30. \A n \in Nat : [r EXCEPT !.stage = "decided", !.reads = n] \in Request
                            /\ [r EXCEPT !.reads = n] \in Request
        BY <3>1 DEF Request
      <3>31. r.reads + 1 \in Nat
        BY <3>1 DEF Request
      <3>3. /\ [r EXCEPT !.stage = "decided", !.reads = 0] \in Request
            /\ [r EXCEPT !.reads = @ + 1] \in Request
        BY <3>30, <3>31
      <3>4. req' \in [Procs -> Request]
        BY <1>0, <3>2, <3>3 DEF Becoming
      <3> QED
        BY <1>0, <2>9, <3>4 DEF ChecksRead
    <2> QED
      BY <1>0, <1>5, <2>4, <2>5, <2>6, <2>7, <2>8, <2>9
         DEF ResolveStep, AfterGate, LookupError, InvalidateUser
  <1> QED
    BY <1>3, <1>4, <1>5 DEF Next, vars, Environment, CachesStep, GateStep

----------------------------------------------------------------------------
(* CheckInv, request by request: r the request, g its Get, d what it is     *)
(* due, c where its check is, fl the caches' floors, v the revision.        *)
GetAnswers(g) == g.pc = "read" \/ (g.pc = "done" /\ g.ok)

ReqOK(r, g, d, c, fl, v) ==
    /\ r.stage \in PastGate => c = "passed"
    /\ r.own <= fl[userCache][r.email]
    /\ r.stage \in Reading /\ GetAnswers(g) => g.owed >= d
    /\ r.stage = "user" => g.cache = userCache /\ g.key = r.email
    /\ r.stage = "user" /\ GetAnswers(g) => g.owed >= r.own
    /\ r.stage \in UserKnown => r.oldest >= d /\ r.user >= r.own
    /\ r.stage \in {"invalidate", "leave"} =>
          r.txRev <= v /\ (r.outcome = "enrolled" => r.txRev >= r.own)
    /\ r.stage = "leave" => r.txRev <= fl[userCache][r.email]

(* The two forms say the same.                                              *)
LEMMA CheckInvSplit ==
    CheckInv <=> /\ FloorsRaised
                 /\ \A p \in Procs : ReqOK(req[p], call[p], due[p], chk[p], floor, rev)
  BY DEF CheckInv, GatePassed, OwnInv, OwedInv, RecordInv, ReqOK, At, Answering, GetAnswers

(* The floors only rise: an invalidation raises its keys to the revision.   *)
LEMMA FloorRises ==
    ASSUME TTLTypeOK, FloorInv, [TTLNext]_ttlVars
    PROVE  \A c \in Caches, k \in Keys : floor[c][k] <= floor'[c][k]
  <1> USE DEF TTLTypeOK, StoreTypeOK, CacheTypeOK
  <1>0. \A c \in Caches, k \in Keys : floor[c][k] \in Nat /\ floor[c][k] <= rev
    BY DEF FloorInv
  <1>1. CASE floor' = floor
    BY <1>0, <1>1
  <1>2. ASSUME NEW c \in Caches, NEW k \in Keys, Invalidate(c, k)
        PROVE  \A d \in Caches, j \in Keys : floor[d][j] <= floor'[d][j]
    BY <1>0, <1>2 DEF Invalidate
  <1>3. ASSUME NEW c \in Caches, Purge(c)
        PROVE  \A d \in Caches, j \in Keys : floor[d][j] <= floor'[d][j]
    BY <1>0, <1>3 DEF Purge
  <1>4. CASE CacheStep
    <2>1. floor' = floor
      BY <1>4 DEF CacheStep, GetStep, FlightStep, Lookup, Hit, DoChan, Settle, CtxDone,
         Recheck, LoadRead, LoadFail, StoreLoaded, Deliver
    <2> QED
      BY <1>1, <2>1
  <1> QED
    BY <1>1, <1>2, <1>3, <1>4 DEF TTLNext, ttlVars, cacheVars, BeginGet

(* A request that is left alone keeps its part of the invariant when the    *)
(* floors and the revision rise and its Get does not answer in this step.   *)
LEMMA ReqFrame ==
    ASSUME CheckTypeOK, CheckTypeOK', CheckInv,
           \A c \in Caches, k \in Keys : floor[c][k] <= floor'[c][k],
           rev <= rev', NEW q \in Procs,
           req'[q] = req[q], due'[q] = due[q],
           chk[q] = "passed" => chk'[q] = "passed",
           \/ call'[q] = call[q]
           \/ /\ call'[q].cache = call[q].cache /\ call'[q].key = call[q].key
              /\ \/ ~GetAnswers(call'[q])
                 \/ GetAnswers(call[q]) /\ call'[q].owed = call[q].owed
    PROVE  ReqOK(req'[q], call'[q], due'[q], chk'[q], floor', rev')
  <1>1. ReqOK(req[q], call[q], due[q], chk[q], floor, rev)
    BY CheckInvSplit
  <1>2. /\ userCache \in Caches /\ req[q].email \in Keys
        /\ req[q].own \in Nat /\ req[q].txRev \in Nat
        /\ rev \in Nat /\ rev' \in Nat
        /\ floor[userCache][req[q].email] \in Nat
        /\ floor'[userCache][req[q].email] \in Nat
    BY CheckAssumption DEF userCache, Caches, CheckTypeOK, TTLTypeOK, StoreTypeOK,
       CacheTypeOK, Request
  <1>3. floor[userCache][req[q].email] <= floor'[userCache][req[q].email]
    BY <1>2
  <1>4. /\ req[q].own <= floor'[userCache][req[q].email]
        /\ req[q].stage = "leave" => req[q].txRev <= floor'[userCache][req[q].email]
        /\ req[q].stage \in {"invalidate", "leave"} => req[q].txRev <= rev'
    BY <1>1, <1>2, <1>3 DEF ReqOK
  <1>5. GetAnswers(call'[q]) => GetAnswers(call[q]) /\ call'[q].owed = call[q].owed
    OBVIOUS
  <1>6. call'[q].cache = call[q].cache /\ call'[q].key = call[q].key
    OBVIOUS
  <1> HIDE DEF GetAnswers
  <1> QED
    BY <1>1, <1>4, <1>5, <1>6 DEF ReqOK

(* What a request past the gate is due lies below every floor.              *)
LEMMA DueBelowFloors ==
    ASSUME CheckTypeOK, GateInv, CheckInv, NEW q \in Procs, req[q].stage \in PastGate
    PROVE  \A c \in Caches, k \in Keys : due[q] <= floor[c][k]
  <1>1. chk[q] = "passed"
    BY DEF CheckInv, GatePassed
  <1>2. TAKE c \in Caches, k \in Keys
  <1>3. due[q] \in Nat /\ purgedAt[c] \in Nat /\ floor[c][k] \in Nat
    BY DEF CheckTypeOK, GateTypeOK, TTLTypeOK, CacheTypeOK
  <1>4. due[q] <= purgedAt[c]
    BY <1>1, <1>3 DEF GateInv, PassedIsReconciled
  <1>5. purgedAt[c] <= floor[c][k]
    BY DEF CheckInv, FloorsRaised
  <1> QED
    BY <1>3, <1>4, <1>5

(* A step of the caches: a Get that answers reads its floor in that step or *)
(* has read it before.                                                      *)
LEMMA CallStep ==
    ASSUME TTLTypeOK, CacheStep, NEW q \in Procs
    PROVE  \/ call'[q] = call[q]
           \/ /\ call'[q].cache = call[q].cache /\ call'[q].key = call[q].key
              /\ \/ ~GetAnswers(call'[q])
                 \/ GetAnswers(call[q]) /\ call'[q].owed = call[q].owed
                 \/ call'[q].owed = floor[call[q].cache][call[q].key]
  <1>0. call \in [Procs -> Call]
    BY DEF TTLTypeOK, CacheTypeOK
  <1>1. ASSUME NEW p \in Procs, GetStep(p) \/ CtxDone(p), p # q PROVE call'[q] = call[q]
    BY <1>0, <1>1 DEF GetStep, CtxDone, Lookup, Hit, DoChan, Settle, Return
  <1>2. CASE Lookup(q)
    BY <1>0, <1>2 DEF Lookup, Call
  <1>3. CASE Hit(q)
    BY <1>0, <1>3 DEF Hit, Return, Call, GetAnswers
  <1>4. CASE DoChan(q)
    BY <1>0, <1>4 DEF DoChan, Call, GetAnswers
  <1>5. CASE Settle(q)
    <2>1. CASE call[q].gen # generation[call[q].cache]
      <3>1. call' = [call EXCEPT ![q] = [@ EXCEPT !.pc = "top", !.gen = 0, !.ok = FALSE,
                                         !.value = 0]]
        BY <1>5, <2>1 DEF Settle
      <3>2. call'[q] = [call[q] EXCEPT !.pc = "top", !.gen = 0, !.ok = FALSE, !.value = 0]
        BY <1>0, <3>1
      <3>3. call[q] \in Call
        BY <1>0
      <3> QED
        BY <3>2, <3>3 DEF Call, GetAnswers
    <2>2. CASE call[q].gen = generation[call[q].cache]
      BY <1>0, <1>5, <2>2, ZenonT(60) DEF Settle, Call
    <2> QED
      BY <2>1, <2>2
  <1>6. CASE CtxDone(q)
    BY <1>0, <1>6 DEF CtxDone, Return, Call, GetAnswers
  <1>7. ASSUME NEW f \in flights, Deliver(f)
        PROVE  \/ call'[q] = call[q]
               \/ /\ call'[q].cache = call[q].cache /\ call'[q].key = call[q].key
                  /\ ~GetAnswers(call'[q])
    BY <1>0, <1>7 DEF Deliver, Call, GetAnswers
  <1>8. ASSUME NEW f \in flights, FlightStep(f), ~Deliver(f) PROVE call'[q] = call[q]
    BY <1>8 DEF FlightStep, Recheck, LoadRead, LoadFail, StoreLoaded
  <1> QED
    BY <1>1, <1>2, <1>3, <1>4, <1>5, <1>6, <1>7, <1>8 DEF CacheStep, GetStep

(* A Get that reads its floor in this step owes its request enough.         *)
LEMMA ReqLooked ==
    ASSUME CheckTypeOK, GateInv, CheckInv, floor' = floor, rev' = rev, NEW q \in Procs,
           req'[q] = req[q], due'[q] = due[q], chk'[q] = chk[q],
           call'[q].cache = call[q].cache, call'[q].key = call[q].key,
           call'[q].owed = floor[call[q].cache][call[q].key]
    PROVE  ReqOK(req'[q], call'[q], due'[q], chk'[q], floor', rev')
  <1>1. ReqOK(req[q], call[q], due[q], chk[q], floor, rev)
    BY CheckInvSplit
  <1>2. call[q].cache \in Caches /\ call[q].key \in Keys /\ due[q] \in Nat
        /\ floor[call[q].cache][call[q].key] \in Nat /\ req[q].own \in Nat
    BY DEF CheckTypeOK, TTLTypeOK, CacheTypeOK, Call, GateTypeOK, Request
  <1>3. req[q].stage \in Reading => call'[q].owed >= due[q]
    <2>1. HAVE req[q].stage \in Reading
    <2>2. req[q].stage \in PastGate
      BY <2>1 DEF Reading, PastGate
    <2>3. due[q] <= floor[call[q].cache][call[q].key]
      BY <1>2, <2>2, DueBelowFloors
    <2> QED
      BY <1>2, <2>3
  <1>4. req[q].stage = "user" => call'[q].owed >= req[q].own
    BY <1>1, <1>2 DEF ReqOK
  <1> QED
    BY <1>1, <1>3, <1>4 DEF ReqOK

(* A request that knows its user and reads on, or decides.                  *)
LEMMA ReqMoves ==
    \A r, g, d, fl, v :
       /\ r.stage \in UserKnown \ {"invalidate", "leave"}
       /\ r.own <= fl[userCache][r.email]
       /\ r.oldest >= d /\ r.user >= r.own
       /\ r.stage \in Reading => ~GetAnswers(g)
       => ReqOK(r, g, d, "passed", fl, v)
  BY DEF ReqOK, UserKnown, PastGate

(* Resolve's own steps keep the part of the request that takes them.        *)
LEMMA ResolveKeeps ==
    ASSUME CheckTypeOK, CheckTypeOK', StaleInv, GateInv, CheckInv,
           \A c \in Caches, k \in Keys : floor[c][k] <= floor'[c][k],
           rev <= rev', NEW p \in Procs, ResolveStep(p)
    PROVE  ReqOK(req'[p], call'[p], due'[p], chk'[p], floor', rev')
  <1>0. /\ req \in [Procs -> Request] /\ req[p] \in Request /\ req'[p] \in Request
        /\ call \in [Procs -> Call] /\ call[p] \in Call /\ Value(p) \in Nat
        /\ due[p] \in Nat /\ rev \in Nat /\ rev' \in Nat
        /\ req[p].own \in Nat /\ req[p].oldest \in Nat /\ req[p].user \in Nat
        /\ req[p].txRev \in Nat /\ req[p].email \in Keys /\ userCache \in Caches
        /\ floor[userCache][req[p].email] \in Nat /\ floor'[userCache][req[p].email] \in Nat
        /\ call[p].owed \in Nat
    BY CheckAssumption DEF CheckTypeOK, TTLTypeOK, StoreTypeOK, CacheTypeOK, GateTypeOK,
       Request, Call, Value, userCache, Caches
  <1>1. ReqOK(req[p], call[p], due[p], chk[p], floor, rev)
    BY CheckInvSplit
  <1>2. due' = due /\ chk' = chk
    BY DEF ResolveStep, AfterGate, LookupError, UserRead, PolicyRead, AutoAddUser,
       InvalidateUser, LeaveAutoAdd, ChecksRead, gateVars
  <1>3. req[p].own <= floor'[userCache][req[p].email]
    BY <1>0, <1>1 DEF ReqOK
  <1>4. req[p].stage \in PastGate => chk[p] = "passed"
    BY <1>1 DEF ReqOK
  <1>5. req[p].stage \in Reading /\ GetDone(p) /\ call[p].ok =>
           /\ Value(p) >= due[p]
           /\ req[p].stage = "user" => Value(p) >= req[p].own
    <2>1. GetDone(p) /\ call[p].ok => Value(p) >= call[p].owed /\ GetAnswers(call[p])
      BY DEF StaleInv, NoStaleReturn, GetDone, Value, GetAnswers
    <2> QED
      BY <1>0, <1>1, <2>1 DEF ReqOK
  <1>6. ASSUME NEW c, NEW k, BeginGet(p, c, k)
        PROVE  ~GetAnswers(call'[p]) /\ call'[p].cache = c /\ call'[p].key = k
    BY <1>0, <1>6 DEF BeginGet, Idle, GetAnswers
  <1>7. ASSUME NEW r \in Request, Settled(p, r), req[p].stage \in PastGate,
               r.email = req[p].email, r.own = req[p].own,
               r.oldest >= due[p], r.user >= r.own
        PROVE  ReqOK(req'[p], call'[p], due'[p], chk'[p], floor', rev')
    <2>1. CASE Becoming(p, [r EXCEPT !.stage = "decided"])
      <3>1. req'[p] = [r EXCEPT !.stage = "decided"]
        BY <1>0, <2>1 DEF Becoming
      <3>2. /\ req'[p].stage = "decided" /\ req'[p].email = req[p].email
            /\ req'[p].own = req[p].own
            /\ req'[p].oldest >= due[p] /\ req'[p].user >= req'[p].own
        BY <1>7, <3>1 DEF Request
      <3>3. req'[p].stage \in UserKnown \ {"invalidate", "leave"} /\ req'[p].stage \notin Reading
        BY <3>2 DEF UserKnown, PastGate, Reading
      <3> QED
        BY <1>2, <1>3, <1>4, <1>7, <3>2, <3>3, ReqMoves
    <2>2. CASE /\ \E k \in Keys : BeginGet(p, cfgCache, k)
               /\ Becoming(p, [r EXCEPT !.stage = "checks", !.reads = 1])
      <3>1. req'[p] = [r EXCEPT !.stage = "checks", !.reads = 1]
        BY <1>0, <2>2 DEF Becoming
      <3>2. /\ req'[p].stage = "checks" /\ req'[p].email = req[p].email
            /\ req'[p].own = req[p].own
            /\ req'[p].oldest >= due[p] /\ req'[p].user >= req'[p].own
        BY <1>7, <3>1 DEF Request
      <3>3. req'[p].stage \in UserKnown \ {"invalidate", "leave"}
        BY <3>2 DEF UserKnown, PastGate
      <3>4. ~GetAnswers(call'[p])
        BY <1>6, <2>2
      <3> QED
        BY <1>2, <1>3, <1>4, <1>7, <3>2, <3>3, <3>4, ReqMoves
    <2> QED
      BY <1>7, <2>1, <2>2 DEF Settled
  <1>8. CASE AfterGate(p)
    <2>1. CASE /\ chk[p] = "passed"
               /\ BeginGet(p, userCache, req[p].email)
               /\ Goto(p, "user")
      <3>1. req'[p] = [req[p] EXCEPT !.stage = "user"]
        BY <1>0, <2>1 DEF Goto, Becoming
      <3>2. /\ req'[p].stage = "user" /\ req'[p].email = req[p].email
            /\ req'[p].own = req[p].own
        BY <1>0, <3>1 DEF Request
      <3>3. /\ ~GetAnswers(call'[p]) /\ call'[p].cache = userCache
            /\ call'[p].key = req[p].email
        BY <1>6, <2>1
      <3> QED
        BY <1>2, <1>3, <2>1, <3>2, <3>3 DEF ReqOK, UserKnown
    <2>2. CASE Goto(p, "error")
      <3>1. req'[p] = [req[p] EXCEPT !.stage = "error"]
        BY <1>0, <2>2 DEF Goto, Becoming
      <3>2. req'[p].stage = "error" /\ req'[p].email = req[p].email /\ req'[p].own = req[p].own
        BY <1>0, <3>1 DEF Request
      <3> QED
        BY <1>3, <3>2 DEF ReqOK, UserKnown, PastGate, Reading
    <2> QED
      BY <1>8, <2>1, <2>2 DEF AfterGate
  <1>9. CASE LookupError(p)
    <2>1. req'[p] = [req[p] EXCEPT !.stage = "error"]
      BY <1>0, <1>9 DEF LookupError, Goto, Becoming
    <2>2. req'[p].stage = "error" /\ req'[p].email = req[p].email /\ req'[p].own = req[p].own
      BY <1>0, <2>1 DEF Request
    <2> QED
      BY <1>3, <2>2 DEF ReqOK, UserKnown, PastGate, Reading
  <1>10. CASE UserRead(p)
    <2> DEFINE r == [req[p] EXCEPT !.user = Value(p), !.oldest = Value(p)]
    <2>1. /\ r \in Request /\ r.email = req[p].email /\ r.own = req[p].own
          /\ r.oldest = Value(p) /\ r.user = Value(p)
      BY <1>0 DEF Request
    <2>2. /\ \/ Settled(p, r)
             \/ /\ \E k \in Keys : BeginGet(p, domCache, k)
                /\ Becoming(p, [r EXCEPT !.stage = "domain"])
          /\ req[p].stage = "user" /\ GetDone(p) /\ call[p].ok
      BY <1>10 DEF UserRead, At
    <2> HIDE DEF r
    <2>3. req[p].stage \in Reading /\ req[p].stage \in PastGate
      BY <2>2 DEF Reading, PastGate
    <2>4. r.oldest >= due[p] /\ r.user >= r.own
      BY <1>5, <2>1, <2>2, <2>3
    <2>5. CASE Settled(p, r)
      BY <1>7, <2>1, <2>3, <2>4, <2>5
    <2>6. CASE /\ \E k \in Keys : BeginGet(p, domCache, k)
               /\ Becoming(p, [r EXCEPT !.stage = "domain"])
      <3>1. req'[p] = [r EXCEPT !.stage = "domain"]
        BY <1>0, <2>6 DEF Becoming
      <3>2. /\ req'[p].stage = "domain" /\ req'[p].email = req[p].email
            /\ req'[p].own = req[p].own
            /\ req'[p].oldest >= due[p] /\ req'[p].user >= req'[p].own
        BY <2>1, <2>4, <3>1 DEF Request
      <3>3. req'[p].stage \in UserKnown \ {"invalidate", "leave"}
        BY <3>2 DEF UserKnown, PastGate
      <3>4. ~GetAnswers(call'[p])
        BY <1>6, <2>6
      <3> QED
        BY <1>2, <1>3, <1>4, <2>3, <3>2, <3>3, <3>4, ReqMoves
    <2> QED
      BY <2>2, <2>5, <2>6
  <1>11. CASE PolicyRead(p)
    <2> DEFINE r == [req[p] EXCEPT !.oldest = Older(@, Value(p))]
    <2>0. req[p].stage \in {"domain", "policy"} /\ GetDone(p) /\ call[p].ok
      BY <1>11 DEF PolicyRead
    <2>1. req[p].stage \in Reading /\ req[p].stage \in PastGate /\ req[p].stage \in UserKnown
      BY <2>0 DEF Reading, PastGate, UserKnown
    <2>2. Older(req[p].oldest, Value(p)) \in Nat /\ Older(req[p].oldest, Value(p)) >= due[p]
      BY <1>0, <1>1, <1>5, <2>0, <2>1 DEF Older, ReqOK
    <2>3. /\ r \in Request /\ r.email = req[p].email /\ r.own = req[p].own
          /\ r.oldest >= due[p] /\ r.user >= r.own
      BY <1>0, <1>1, <2>1, <2>2 DEF Request, ReqOK
    <2>4. \/ Settled(p, [r EXCEPT !.reads = 0])
          \/ /\ \E k \in Keys : BeginGet(p, cfgCache, k)
             /\ Becoming(p, [r EXCEPT !.stage = "policy", !.reads = @ + 1])
          \/ Becoming(p, [r EXCEPT !.stage = "tx", !.reads = 0])
      BY <1>11 DEF PolicyRead
    <2> HIDE DEF r
    <2>5. CASE Settled(p, [r EXCEPT !.reads = 0])
      <3>1. /\ [r EXCEPT !.reads = 0] \in Request
            /\ [r EXCEPT !.reads = 0].email = req[p].email
            /\ [r EXCEPT !.reads = 0].own = req[p].own
            /\ [r EXCEPT !.reads = 0].oldest >= due[p]
            /\ [r EXCEPT !.reads = 0].user >= [r EXCEPT !.reads = 0].own
        BY <2>3 DEF Request
      <3> QED
        BY <1>7, <2>1, <2>5, <3>1
    <2>6. CASE /\ \E k \in Keys : BeginGet(p, cfgCache, k)
               /\ Becoming(p, [r EXCEPT !.stage = "policy", !.reads = @ + 1])
      <3>1. req'[p] = [r EXCEPT !.stage = "policy", !.reads = @ + 1]
        BY <1>0, <2>6 DEF Becoming
      <3>2. /\ req'[p].stage = "policy" /\ req'[p].email = req[p].email
            /\ req'[p].own = req[p].own
            /\ req'[p].oldest >= due[p] /\ req'[p].user >= req'[p].own
        BY <2>3, <3>1 DEF Request
      <3>3. req'[p].stage \in UserKnown \ {"invalidate", "leave"}
        BY <3>2 DEF UserKnown, PastGate
      <3>4. ~GetAnswers(call'[p])
        BY <1>6, <2>6
      <3> QED
        BY <1>2, <1>3, <1>4, <2>1, <3>2, <3>3, <3>4, ReqMoves
    <2>7. CASE Becoming(p, [r EXCEPT !.stage = "tx", !.reads = 0])
      <3>1. req'[p] = [r EXCEPT !.stage = "tx", !.reads = 0]
        BY <1>0, <2>7 DEF Becoming
      <3>2. /\ req'[p].stage = "tx" /\ req'[p].email = req[p].email
            /\ req'[p].own = req[p].own
            /\ req'[p].oldest >= due[p] /\ req'[p].user >= req'[p].own
        BY <2>3, <3>1 DEF Request
      <3>3. req'[p].stage \in UserKnown \ {"invalidate", "leave"} /\ req'[p].stage \notin Reading
        BY <3>2 DEF UserKnown, PastGate, Reading
      <3> QED
        BY <1>2, <1>3, <1>4, <2>1, <3>2, <3>3, ReqMoves
    <2> QED
      BY <2>4, <2>5, <2>6, <2>7
  <1>12. CASE AutoAddUser(p)
    <2>0. req[p].stage = "tx" /\ floor' = floor
      BY <1>12 DEF AutoAddUser, At, cacheVars
    <2>1. /\ chk[p] = "passed" /\ req[p].oldest >= due[p] /\ req[p].user >= req[p].own
      BY <1>1, <2>0 DEF ReqOK, PastGate, UserKnown
    <2>2. req[p].own <= rev
      <3>1. req[p].own <= floor[userCache][req[p].email]
        BY <1>1 DEF ReqOK
      <3>2. floor[userCache][req[p].email] <= rev
        BY <1>0 DEF StaleInv, FloorInv
      <3> QED
        BY <1>0, <3>1, <3>2
    <2>3. ASSUME NEW o \in {"enrolled", "denied", "error"}, NEW v \in Nat,
                 Becoming(p, [req[p] EXCEPT !.stage = "invalidate", !.outcome = o, !.txRev = v]),
                 v <= rev', o = "enrolled" => v >= rev
          PROVE  ReqOK(req'[p], call'[p], due'[p], chk'[p], floor', rev')
      <3>1. req'[p] = [req[p] EXCEPT !.stage = "invalidate", !.outcome = o, !.txRev = v]
        BY <1>0, <2>3 DEF Becoming
      <3>2. /\ req'[p].stage = "invalidate" /\ req'[p].email = req[p].email
            /\ req'[p].own = req[p].own /\ req'[p].oldest = req[p].oldest
            /\ req'[p].user = req[p].user /\ req'[p].outcome = o /\ req'[p].txRev = v
        BY <1>0, <3>1 DEF Request
      <3>3. o = "enrolled" => v >= req[p].own
        BY <1>0, <2>2, <2>3
      <3> QED
        BY <1>2, <1>3, <2>1, <2>3, <3>2, <3>3 DEF ReqOK, Reading
    <2>4. ASSUME NEW n \in {1, 2}, NEW o \in {"enrolled", "error"}, CommitBy(n),
                 Becoming(p, [req[p] EXCEPT !.stage = "invalidate", !.outcome = o,
                                            !.txRev = rev + n])
          PROVE  ReqOK(req'[p], call'[p], due'[p], chk'[p], floor', rev')
      <3>1. rev + n \in Nat /\ rev + n <= rev' /\ rev + n >= rev
        BY <1>0, <2>4 DEF CommitBy
      <3> QED
        BY <2>3, <2>4, <3>1
    <2>5. ASSUME NEW o \in {"enrolled", "denied", "error"}, rev' = rev,
                 Becoming(p, [req[p] EXCEPT !.stage = "invalidate", !.outcome = o,
                                            !.txRev = IF o = "enrolled" THEN rev ELSE 0])
          PROVE  ReqOK(req'[p], call'[p], due'[p], chk'[p], floor', rev')
      <3> DEFINE v == IF o = "enrolled" THEN rev ELSE 0
      <3>1. v \in Nat /\ v <= rev' /\ (o = "enrolled" => v >= rev)
        BY <1>0, <2>5
      <3>2. Becoming(p, [req[p] EXCEPT !.stage = "invalidate", !.outcome = o, !.txRev = v])
        BY <2>5
      <3> HIDE DEF v
      <3> QED
        BY <2>3, <3>1, <3>2
    <2> QED
      BY <1>12, <2>4, <2>5 DEF AutoAddUser, storeVars
  <1>13. CASE InvalidateUser(p)
    <2>0. req[p].stage = "invalidate" /\ rev' = rev
      BY <1>13 DEF InvalidateUser, At, storeVars
    <2>1. req'[p] = [req[p] EXCEPT !.stage = "leave"]
      BY <1>0, <1>13 DEF InvalidateUser, Goto, Becoming
    <2>2. /\ req'[p].stage = "leave" /\ req'[p].email = req[p].email
          /\ req'[p].own = req[p].own /\ req'[p].oldest = req[p].oldest
          /\ req'[p].user = req[p].user /\ req'[p].outcome = req[p].outcome
          /\ req'[p].txRev = req[p].txRev
      BY <1>0, <2>1 DEF Request
    <2>3. /\ chk[p] = "passed" /\ req[p].oldest >= due[p] /\ req[p].user >= req[p].own
          /\ req[p].txRev <= rev /\ (req[p].outcome = "enrolled" => req[p].txRev >= req[p].own)
      BY <1>1, <2>0 DEF ReqOK, PastGate, UserKnown
    <2>4. floor'[userCache][req[p].email] = rev
      BY <1>0, <1>13 DEF InvalidateUser, Invalidate, CheckTypeOK, TTLTypeOK, CacheTypeOK
    <2> QED
      BY <1>2, <1>3, <2>0, <2>2, <2>3, <2>4 DEF ReqOK, Reading
  <1>14. CASE LeaveAutoAdd(p)
    <2> DEFINE r == [req[p] EXCEPT !.outcome = "none", !.txRev = 0]
               e == [r EXCEPT !.user = req[p].txRev]
    <2>0. req[p].stage = "leave" /\ req[p].stage \in PastGate /\ req[p].stage \in UserKnown
      BY <1>14 DEF LeaveAutoAdd, At, PastGate, UserKnown
    <2>1. /\ r \in Request /\ r.email = req[p].email /\ r.own = req[p].own
          /\ r.oldest = req[p].oldest /\ r.user = req[p].user
      BY <1>0 DEF Request
    <2>2. \/ Becoming(p, [r EXCEPT !.stage = "error"])
          \/ req[p].outcome = "enrolled" /\ Settled(p, e)
          \/ Settled(p, r)
      BY <1>14 DEF LeaveAutoAdd
    <2> HIDE DEF r
    <2>3. /\ e \in Request /\ e.email = req[p].email /\ e.own = req[p].own
          /\ e.oldest = req[p].oldest /\ e.user = req[p].txRev
      BY <1>0, <2>1 DEF Request
    <2> HIDE DEF e
    <2>4. /\ req[p].oldest >= due[p] /\ req[p].user >= req[p].own
          /\ req[p].outcome = "enrolled" => req[p].txRev >= req[p].own
      BY <1>1, <2>0 DEF ReqOK
    <2>5. CASE Becoming(p, [r EXCEPT !.stage = "error"])
      <3>1. req'[p] = [r EXCEPT !.stage = "error"]
        BY <1>0, <2>5 DEF Becoming
      <3>2. req'[p].stage = "error" /\ req'[p].email = req[p].email /\ req'[p].own = req[p].own
        BY <2>1, <3>1 DEF Request
      <3> QED
        BY <1>3, <3>2 DEF ReqOK, UserKnown, PastGate, Reading
    <2>6. CASE req[p].outcome = "enrolled" /\ Settled(p, e)
      BY <1>7, <2>0, <2>3, <2>4, <2>6
    <2>7. CASE Settled(p, r)
      BY <1>7, <2>0, <2>1, <2>4, <2>7
    <2> QED
      BY <2>2, <2>5, <2>6, <2>7
  <1>15. CASE ChecksRead(p)
    <2> DEFINE r == IF call[p].ok THEN [req[p] EXCEPT !.oldest = Older(@, Value(p))]
                                  ELSE req[p]
    <2>0. req[p].stage = "checks" /\ GetDone(p)
      BY <1>15 DEF ChecksRead, At
    <2>1. req[p].stage \in Reading /\ req[p].stage \in PastGate /\ req[p].stage \in UserKnown
      BY <2>0 DEF Reading, PastGate, UserKnown
    <2>2. call[p].ok => /\ Older(req[p].oldest, Value(p)) \in Nat
                        /\ Older(req[p].oldest, Value(p)) >= due[p]
      BY <1>0, <1>1, <1>5, <2>0, <2>1 DEF Older, ReqOK
    <2>3. /\ r \in Request /\ r.email = req[p].email /\ r.own = req[p].own
          /\ r.oldest >= due[p] /\ r.user >= r.own /\ r.stage = "checks"
      BY <1>0, <1>1, <2>0, <2>1, <2>2 DEF Request, ReqOK
    <2>4. \/ Becoming(p, [r EXCEPT !.stage = "decided", !.reads = 0])
          \/ /\ \E k \in Keys : BeginGet(p, cfgCache, k)
             /\ Becoming(p, [r EXCEPT !.reads = @ + 1])
      BY <1>15 DEF ChecksRead
    <2> HIDE DEF r
    <2>5. CASE Becoming(p, [r EXCEPT !.stage = "decided", !.reads = 0])
      <3>1. req'[p] = [r EXCEPT !.stage = "decided", !.reads = 0]
        BY <1>0, <2>5 DEF Becoming
      <3>2. /\ req'[p].stage = "decided" /\ req'[p].email = req[p].email
            /\ req'[p].own = req[p].own
            /\ req'[p].oldest >= due[p] /\ req'[p].user >= req'[p].own
        BY <2>3, <3>1 DEF Request
      <3>3. req'[p].stage \in UserKnown \ {"invalidate", "leave"} /\ req'[p].stage \notin Reading
        BY <3>2 DEF UserKnown, PastGate, Reading
      <3> QED
        BY <1>2, <1>3, <1>4, <2>1, <3>2, <3>3, ReqMoves
    <2>6. CASE /\ \E k \in Keys : BeginGet(p, cfgCache, k)
               /\ Becoming(p, [r EXCEPT !.reads = @ + 1])
      <3>1. req'[p] = [r EXCEPT !.reads = @ + 1]
        BY <1>0, <2>6 DEF Becoming
      <3>2. /\ req'[p].stage = "checks" /\ req'[p].email = req[p].email
            /\ req'[p].own = req[p].own
            /\ req'[p].oldest >= due[p] /\ req'[p].user >= req'[p].own
        BY <2>3, <3>1 DEF Request
      <3>3. req'[p].stage \in UserKnown \ {"invalidate", "leave"}
        BY <3>2 DEF UserKnown, PastGate
      <3>4. ~GetAnswers(call'[p])
        BY <1>6, <2>6
      <3> QED
        BY <1>2, <1>3, <1>4, <2>1, <3>2, <3>3, <3>4, ReqMoves
    <2> QED
      BY <2>4, <2>5, <2>6
  <1> QED
    BY <1>8, <1>9, <1>10, <1>11, <1>12, <1>13, <1>14, <1>15 DEF ResolveStep

(* CheckInv is inductive, given what the cache and the gate guarantee.      *)
LEMMA CheckInvStep ==
    ASSUME CheckTypeOK, StaleInv, GateInv, CheckInv, [Next]_vars
    PROVE  CheckInv'
  <1>0. CheckTypeOK'
    BY CheckTypeStep
  <1>1. \A c \in Caches, k \in Keys : floor[c][k] <= floor'[c][k]
    BY StepIsTTL, FloorRises DEF CheckTypeOK, StaleInv
  <1>2. rev <= rev'
    BY StepIsGate, GateStoreStep, StoreInvStep DEF CheckTypeOK, TTLTypeOK, GateInv
  <1>3. /\ \A c \in Caches : purgedAt[c] \in Nat
        /\ \A c \in Caches, k \in Keys : floor[c][k] \in Nat /\ floor'[c][k] \in Nat
        /\ \A k \in Keys : enrolled[k] \in Nat
        /\ \A q \in Procs : req[q].txRev \in Nat /\ req[q].email \in Keys
        /\ userCache \in Caches /\ rev \in Nat
    BY <1>0, CheckAssumption DEF CheckTypeOK, TTLTypeOK, StoreTypeOK, CacheTypeOK,
       GateTypeOK, Request, userCache, Caches
  <1>4. /\ \A c \in Caches, k \in Keys : purgedAt[c] <= floor'[c][k]
        /\ \A k \in Keys : enrolled[k] <= floor'[userCache][k]
    <2>1. /\ \A c \in Caches, k \in Keys : purgedAt[c] <= floor[c][k]
          /\ \A k \in Keys : enrolled[k] <= floor[userCache][k]
      BY DEF CheckInv, FloorsRaised
    <2> QED
      BY <1>1, <1>3, <2>1
  <1>5. CASE Environment \/ UNCHANGED vars
    <2>1. UNCHANGED <<cacheVars, gateVars, req, enrolled>>
      BY <1>5 DEF Environment, vars, cacheVars, gateVars
    <2>2. \A q \in Procs : ReqOK(req'[q], call'[q], due'[q], chk'[q], floor', rev')
      BY <1>0, <1>1, <1>2, <2>1, ReqFrame DEF cacheVars, gateVars
    <2>3. FloorsRaised'
      BY <1>4, <2>1 DEF FloorsRaised, gateVars
    <2> QED
      BY <2>2, <2>3 DEF CheckInv, GatePassed, OwnInv, OwedInv, RecordInv, ReqOK, At,
         Answering, GetAnswers
  <1>6. CASE CachesStep
    <2>1. UNCHANGED <<storeVars, gateVars, req, enrolled>> /\ CacheStep
      BY <1>6 DEF CachesStep
    <2>2. floor' = floor
      BY <2>1 DEF CacheStep, GetStep, FlightStep, Lookup, Hit, DoChan, Settle, CtxDone,
         Recheck, LoadRead, LoadFail, StoreLoaded, Deliver
    <2>3. rev' = rev /\ due' = due /\ chk' = chk /\ req' = req /\ purgedAt' = purgedAt
      BY <2>1 DEF storeVars, gateVars
    <2>4. ASSUME NEW q \in Procs
          PROVE  ReqOK(req'[q], call'[q], due'[q], chk'[q], floor', rev')
      <3>1. \/ call'[q] = call[q]
            \/ /\ call'[q].cache = call[q].cache /\ call'[q].key = call[q].key
               /\ \/ ~GetAnswers(call'[q])
                  \/ GetAnswers(call[q]) /\ call'[q].owed = call[q].owed
                  \/ call'[q].owed = floor[call[q].cache][call[q].key]
        BY <2>1, CallStep DEF CheckTypeOK
      <3>2. CASE /\ call'[q].cache = call[q].cache /\ call'[q].key = call[q].key
                 /\ call'[q].owed = floor[call[q].cache][call[q].key]
        BY <2>2, <2>3, <3>2, ReqLooked
      <3>3. CASE \/ call'[q] = call[q]
                 \/ /\ call'[q].cache = call[q].cache /\ call'[q].key = call[q].key
                    /\ \/ ~GetAnswers(call'[q])
                       \/ GetAnswers(call[q]) /\ call'[q].owed = call[q].owed
        BY <1>0, <1>1, <1>2, <2>3, <3>3, ReqFrame
      <3> QED
        BY <3>1, <3>2, <3>3
    <2>5. FloorsRaised'
      BY <1>4, <2>1, <2>3 DEF FloorsRaised
    <2> QED
      BY <2>4, <2>5 DEF CheckInv, GatePassed, OwnInv, OwedInv, RecordInv, ReqOK, At,
         Answering, GetAnswers
  <1>7. ASSUME NEW p \in Procs, GateStep(p) PROVE CheckInv'
    <2>1. req' = req /\ enrolled' = enrolled /\ call' = call /\ due' = due
      BY <1>7 DEF GateStep, cacheVars, Purge, Acquire, StillFresh, StartProbe, ProbeRead,
         ProbeFail, BeginPurge, PurgeOne, Pass
    <2>2. \A q \in Procs : chk[q] = "passed" => chk'[q] = "passed"
      <3>1. chk[p] # "passed"
        BY <1>7 DEF GateInv, MutexInv, GateStep, Acquire, StillFresh, StartProbe, ProbeRead,
           ProbeFail, BeginPurge, PurgeOne, Pass
      <3>2. \A q \in Procs : q # p => chk'[q] = chk[q]
        BY <1>7 DEF GateStep, Acquire, StillFresh, StartProbe, ProbeRead, ProbeFail,
           BeginPurge, PurgeOne, Pass, Release, CheckTypeOK, GateTypeOK
      <3> QED
        BY <3>1, <3>2
    <2>3. \A q \in Procs : ReqOK(req'[q], call'[q], due'[q], chk'[q], floor', rev')
      BY <1>0, <1>1, <1>2, <2>1, <2>2, ReqFrame
    <2>4. FloorsRaised'
      <3>1. CASE purgedAt' = purgedAt
        BY <1>4, <2>1, <3>1 DEF FloorsRaised
      <3>2. ASSUME NEW d \in Caches, PurgeOne(p, d), Purge(d) PROVE FloorsRaised'
        <4>1. \A c \in Caches : purgedAt'[c] = IF c = d THEN rev ELSE purgedAt[c]
          BY <3>2 DEF PurgeOne, CheckTypeOK, GateTypeOK
        <4>2. \A k \in Keys : floor'[d][k] = rev
          BY <3>2 DEF Purge, CheckTypeOK, TTLTypeOK, CacheTypeOK
        <4>3. \A c \in Caches, k \in Keys : purgedAt'[c] <= floor'[c][k]
          BY <1>3, <1>4, <4>1, <4>2
        <4> QED
          BY <1>4, <2>1, <4>3 DEF FloorsRaised
      <3> QED
        BY <1>7, <3>1, <3>2 DEF GateStep, Acquire, StillFresh, StartProbe, ProbeRead,
           ProbeFail, BeginPurge, Pass
    <2> QED
      BY <2>3, <2>4 DEF CheckInv, GatePassed, OwnInv, OwedInv, RecordInv, ReqOK, At,
         Answering, GetAnswers
  <1>8. ASSUME NEW p \in Procs, ResolveStep(p) PROVE CheckInv'
    <2>1. UNCHANGED gateVars
      BY <1>8 DEF ResolveStep, AfterGate, LookupError, UserRead, PolicyRead, AutoAddUser,
         InvalidateUser, LeaveAutoAdd, ChecksRead
    <2>2. \A q \in Procs : q # p => req'[q] = req[q] /\ call'[q] = call[q]
      BY <1>8 DEF ResolveStep, AfterGate, LookupError, UserRead, PolicyRead, AutoAddUser,
         InvalidateUser, LeaveAutoAdd, ChecksRead, Settled, Goto, Becoming, BeginGet,
         Invalidate, cacheVars, CheckTypeOK, TTLTypeOK, CacheTypeOK
    <2>3. \A q \in Procs : q # p => ReqOK(req'[q], call'[q], due'[q], chk'[q], floor', rev')
      BY <1>0, <1>1, <1>2, <2>1, <2>2, ReqFrame DEF gateVars
    <2>4. ReqOK(req'[p], call'[p], due'[p], chk'[p], floor', rev')
      BY <1>0, <1>1, <1>2, <1>8, ResolveKeeps
    <2>5. FloorsRaised'
      <3>1. CASE enrolled' = enrolled
        BY <1>4, <2>1, <3>1 DEF FloorsRaised, gateVars
      <3>2. CASE LeaveAutoAdd(p)
        <4>1. req[p].txRev <= floor[userCache][req[p].email]
          BY <3>2 DEF LeaveAutoAdd, At, CheckInv, RecordInv
        <4>2. req[p].txRev <= floor'[userCache][req[p].email]
          BY <1>1, <1>3, <4>1
        <4>3. \A k \in Keys : \/ enrolled'[k] = enrolled[k]
                              \/ k = req[p].email /\ enrolled'[k] = req[p].txRev
          BY <3>2 DEF LeaveAutoAdd, CheckTypeOK
        <4>4. \A k \in Keys : enrolled'[k] <= floor'[userCache][k]
          BY <1>4, <4>2, <4>3
        <4> QED
          BY <1>4, <2>1, <4>4 DEF FloorsRaised, gateVars
      <3> QED
        BY <1>8, <3>1, <3>2 DEF ResolveStep, AfterGate, LookupError, UserRead, PolicyRead,
           AutoAddUser, InvalidateUser, ChecksRead
    <2>6. \A q \in Procs : ReqOK(req'[q], call'[q], due'[q], chk'[q], floor', rev')
      BY <2>3, <2>4
    <2> QED
      BY <2>5, <2>6 DEF CheckInv, GatePassed, OwnInv, OwedInv, RecordInv, ReqOK, At,
         Answering, GetAnswers
  <1>9. ASSUME NEW p \in Procs, NEW k \in Keys, Arrive(p, k) PROVE CheckInv'
    <2>1. /\ UNCHANGED <<storeVars, cacheVars, enrolled>> /\ purgedAt' = purgedAt
          /\ \A q \in Procs : q # p =>
                req'[q] = req[q] /\ due'[q] = due[q] /\ chk'[q] = chk[q]
      BY <1>9 DEF Arrive, BeginCheck, Becoming, CheckTypeOK, GateTypeOK
    <2>2. \A q \in Procs : q # p => ReqOK(req'[q], call'[q], due'[q], chk'[q], floor', rev')
      BY <1>0, <1>1, <1>2, <2>1, ReqFrame DEF cacheVars
    <2>3. ReqOK(req'[p], call'[p], due'[p], chk'[p], floor', rev')
      <3>1. req'[p] = [NewRequest EXCEPT !.stage = "gate", !.email = k, !.own = enrolled[k]]
        BY <1>9 DEF Arrive, Becoming, CheckTypeOK
      <3>2. NewRequest \in Request
        BY NewRequestType
      <3>3. req'[p].stage = "gate" /\ req'[p].email = k /\ req'[p].own = enrolled[k]
        BY <3>1, <3>2 DEF Request
      <3> QED
        BY <1>4, <3>3 DEF ReqOK, PastGate, Reading, UserKnown
    <2>4. FloorsRaised'
      BY <1>4, <2>1 DEF FloorsRaised
    <2>5. \A q \in Procs : ReqOK(req'[q], call'[q], due'[q], chk'[q], floor', rev')
      BY <2>2, <2>3
    <2> QED
      BY <2>4, <2>5 DEF CheckInv, GatePassed, OwnInv, OwedInv, RecordInv, ReqOK, At,
         Answering, GetAnswers
  <1> QED
    BY <1>5, <1>6, <1>7, <1>8, <1>9 DEF Next

(* The initial state.                                                       *)
LEMMA CheckInit == ASSUME Init PROVE CheckTypeOK /\ StaleInv /\ GateInv /\ CheckInv
  <1>1. TTLTypeOK /\ StaleInv
    BY StaleInit DEF Init, TTLInit
  <1>2. AllGateTypeOK /\ GateInv
    BY GateInvInit DEF Init, GateSpecInit
  <1>3. (CHOOSE k \in Keys : TRUE) \in Keys
    BY CacheAssumption
  <1>5. CheckTypeOK
    BY <1>1, <1>2, NewRequestType DEF Init, CheckTypeOK, AllGateTypeOK
  <1>6. \A p \in Procs : req[p].stage = "new" /\ req[p].own = 0 /\ req[p].email \in Keys
    BY <1>3 DEF Init, NewRequest
  <1>7. /\ \A c \in Caches, k \in Keys : floor[c][k] = 0
        /\ \A c \in Caches : purgedAt[c] = 0
        /\ \A k \in Keys : enrolled[k] = 0
        /\ userCache \in Caches
    BY CheckAssumption DEF Init, CacheInit, GateInit, userCache, Caches
  <1>8. CheckInv
    BY <1>6, <1>7 DEF CheckInv, FloorsRaised, GatePassed, OwnInv, OwedInv, RecordInv,
       PastGate, Reading, UserKnown, At
  <1> QED
    BY <1>1, <1>2, <1>5, <1>8

----------------------------------------------------------------------------
(* One invariant of the composition: its types, what the cache and the gate *)
(* guarantee, and CheckInv.                                                 *)
ReplicaInv == CheckTypeOK /\ StaleInv /\ GateInv /\ CheckInv

(* Every step of a replica keeps it.                                        *)
LEMMA ReplicaStep == ReplicaInv /\ [Next]_vars => ReplicaInv'
  <1> SUFFICES ASSUME ReplicaInv, [Next]_vars PROVE ReplicaInv'
    OBVIOUS
  <1>1. CheckTypeOK'
    BY CheckTypeStep DEF ReplicaInv
  <1>2. StaleInv'
    BY StepIsTTL, StaleStep DEF ReplicaInv, CheckTypeOK
  <1>3. GateInv'
    BY StepIsGate, GateInvStep DEF ReplicaInv, CheckTypeOK, TTLTypeOK, AllGateTypeOK
  <1>4. CheckInv'
    BY CheckInvStep DEF ReplicaInv
  <1> QED
    BY <1>1, <1>2, <1>3, <1>4 DEF ReplicaInv

LEMMA ReplicaInvHolds == Spec => []ReplicaInv
  <1>1. Init => ReplicaInv
    BY CheckInit DEF ReplicaInv
  <1> QED
    BY <1>1, ReplicaStep, PTL DEF Spec

(* Resolve decides on nothing older than what was committed Interval before *)
(* the request arrived (the gate, the caches and their shared loads): for   *)
(* any number of requests and keys and every TTL, capacity and interval.    *)
THEOREM FreshnessBoundHolds == Spec => []FreshnessBound
  <1>1. ReplicaInv => FreshnessBound
    BY DEF ReplicaInv, CheckInv, RecordInv, FreshnessBound, At, UserKnown, PastGate
  <1> QED
    BY <1>1, ReplicaInvHolds, PTL

(* A request that arrives after an enrollment of its email completed on     *)
(* this replica decides on that user record or a newer one (autoAdd's       *)
(* Invalidate), whatever loads of that key are under way.                   *)
THEOREM EnrollmentVisibleHolds == Spec => []EnrollmentVisible
  <1>1. ReplicaInv => EnrollmentVisible
    BY DEF ReplicaInv, CheckInv, RecordInv, EnrollmentVisible, At, UserKnown, PastGate
  <1> QED
    BY <1>1, ReplicaInvHolds, PTL

(* Every state of a replica is well typed.                                  *)
THEOREM CheckTypeHolds == Spec => []CheckTypeOK
  <1>1. ReplicaInv => CheckTypeOK
    BY DEF ReplicaInv
  <1> QED
    BY <1>1, ReplicaInvHolds, PTL

=============================================================================
