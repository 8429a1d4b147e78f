----------------------------- MODULE CacheProofs -----------------------------
(***************************************************************************)
(* The revision history (RevisionStore), the gate that follows it          *)
(* (RevisionGate) and the caches it guards (TTLCache), for every number of *)
(* callers, keys and caches and every interval, TTL and capacity: type     *)
(* correctness, the freshness bound at the gate, that a failed probe       *)
(* forces a purge, that no stale value is stored or returned across an     *)
(* invalidation, the TTL's own bound on staleness, the capacity's on size, *)
(* and that nobody waits for a load that is not there.                     *)
(***************************************************************************)
EXTENDS TTLCache, RevisionGate, FiniteSetTheorems, TLAPS

-----------------------------------------------------------------------------
(* The history that the caches and the gate rest on.                       *)

(* A step of the store, or one that leaves it alone.                        *)
StoreStep == Tick \/ Commit \/ UNCHANGED storeVars

(* The store's types and history survive every step; revision and time      *)
(* never go back, and what a past tick ended with is never rewritten.       *)
LEMMA StoreInvStep ==
    ASSUME StoreTypeOK, StoreInv, StoreStep
    PROVE  /\ StoreTypeOK' /\ StoreInv'
           /\ rev <= rev' /\ now <= now'
           /\ \A t \in Times : t < now => revAt'[t] = revAt[t]
  <1> USE BoundAssumption DEF StoreTypeOK, StoreInv, Times
  <1>1. CASE Tick
    BY <1>1 DEF Tick
  <1>2. ASSUME NEW n \in {1, 2}, CommitBy(n)
        PROVE  /\ StoreTypeOK' /\ StoreInv'
               /\ rev <= rev' /\ now <= now'
               /\ \A t \in Times : t < now => revAt'[t] = revAt[t]
    <2>1. rev' \in Nat /\ rev <= rev' /\ now' = now
      BY <1>2 DEF CommitBy
    <2>2. \A t \in Times : revAt'[t] = IF t >= now THEN rev' ELSE revAt[t]
      BY <1>2 DEF CommitBy
    <2>3. revAt' \in [Times -> Nat]
      BY <1>2, <2>1 DEF CommitBy
    <2>4. \A t \in Times : revAt[t] <= rev
      <3>1. now \in Times /\ revAt[now] = rev
        OBVIOUS
      <3>2. \A t \in Times : t <= now \/ now <= t
        OBVIOUS
      <3>3. \A t \in Times : t <= now => revAt[t] <= revAt[now]
        BY <3>1
      <3>4. \A t \in Times : now <= t => revAt[t] = rev
        OBVIOUS
      <3> QED
        BY <3>1, <3>2, <3>3, <3>4
    <2>5. ASSUME NEW s \in Times, NEW t \in Times, s <= t
          PROVE  revAt'[s] <= revAt'[t]
      <3>1. revAt[s] \in Nat /\ revAt[t] \in Nat /\ revAt[s] <= rev /\ revAt[s] <= revAt[t]
        BY <2>4, <2>5
      <3> QED
        BY <2>1, <2>2, <2>5, <3>1
    <2>6. \A t \in Times : t >= now' => revAt'[t] = rev'
      BY <2>1, <2>2
    <2>7. \A t \in Times : t < now => revAt'[t] = revAt[t]
      BY <2>2
    <2> QED
      BY <2>1, <2>3, <2>5, <2>6, <2>7
  <1>3. CASE UNCHANGED storeVars
    BY <1>3 DEF storeVars
  <1> QED
    BY <1>1, <1>2, <1>3 DEF StoreStep, Commit

(* The initial history.                                                     *)
LEMMA StoreInvInit == ASSUME StoreInit PROVE StoreTypeOK /\ StoreInv
  BY BoundAssumption DEF StoreInit, StoreTypeOK, StoreInv, Times

-----------------------------------------------------------------------------
(* The gate.                                                               *)

(* Every step of the gate leaves the store alone or is a step of it.        *)
LEMMA GateStoreStep == ASSUME [GateNext]_allGateVars PROVE StoreStep
  BY DEF GateNext, allGateVars, StoreStep, storeVars

(* One interval back from a time that has one is an earlier time.           *)
LEMMA IntervalBack ==
    ASSUME NEW t \in Times, t >= Interval
    PROVE  t - Interval \in Times /\ t - Interval < t /\ t \in Nat
  <1>1. t \in Nat /\ t <= MaxTime /\ MaxTime \in Nat
    BY BoundAssumption DEF Times
  <1>2. Interval \in Nat /\ Interval > 0
    BY GateAssumption
  <1>3. t - Interval \in Nat /\ t - Interval < t /\ t - Interval <= MaxTime
    BY <1>1, <1>2
  <1> QED
    BY <1>1, <1>3 DEF Times

(* Type correctness of one step.                                            *)
LEMMA GateTypeStep ==
    ASSUME AllGateTypeOK, [GateNext]_allGateVars PROVE AllGateTypeOK'
  <1> USE DEF AllGateTypeOK, GateTypeOK
  <1>0. StoreTypeOK'
    <2>1. StoreStep
      BY GateStoreStep
    <2>2. CASE Tick
      BY <2>2, BoundAssumption DEF Tick, StoreTypeOK, Times
    <2>3. CASE Commit
      BY <2>3 DEF Commit, CommitBy, StoreTypeOK
    <2>4. CASE UNCHANGED storeVars
      BY <2>4 DEF storeVars, StoreTypeOK
    <2> QED
      BY <2>1, <2>2, <2>3, <2>4 DEF StoreStep
  <1>1. CASE (Tick \/ Commit) /\ UNCHANGED gateVars
    BY <1>0, <1>1 DEF gateVars
  <1>2. ASSUME NEW p \in Procs, BeginCheck(p), UNCHANGED storeVars
        PROVE  AllGateTypeOK'
    <2>1. DueNow \in Nat
      BY IntervalBack DEF DueNow, StoreTypeOK
    <2> QED
      BY <1>0, <1>2, <2>1 DEF BeginCheck, gateState
  <1>3. ASSUME NEW p \in Procs, Acquire(p), UNCHANGED storeVars
        PROVE  AllGateTypeOK'
    BY <1>0, <1>3 DEF Acquire
  <1>4. ASSUME NEW p \in Procs, HolderStep(p), UNCHANGED storeVars
        PROVE  AllGateTypeOK'
    <2>0. 0 \in Times /\ 1 \in 1 .. NumCaches + 1
      BY BoundAssumption, CachesAssumption DEF Times
    <2>1. CASE StillFresh(p)
      BY <1>0, <2>0, <2>1 DEF StillFresh, Release
    <2>2. CASE StartProbe(p)
      BY <1>0, <2>2 DEF StartProbe, StoreTypeOK
    <2>3. CASE ProbeRead(p)
      BY <1>0, <2>3 DEF ProbeRead, StoreTypeOK
    <2>4. CASE ProbeFail(p)
      BY <1>0, <2>0, <2>4 DEF ProbeFail, Release
    <2>5. CASE BeginPurge(p)
      BY <1>0, <2>5 DEF BeginPurge
    <2>6. ASSUME NEW c \in Caches, PurgeOne(p, c) PROVE AllGateTypeOK'
      <3>1. c + 1 \in 1 .. NumCaches + 1
        BY CachesAssumption DEF Caches
      <3>2. rev \in Nat
        BY DEF StoreTypeOK
      <3> QED
        BY <1>0, <2>6, <3>1, <3>2 DEF PurgeOne
    <2>7. CASE Pass(p)
      BY <1>0, <2>0, <2>7 DEF Pass, Release
    <2> QED
      BY <1>4, <2>1, <2>2, <2>3, <2>4, <2>5, <2>6, <2>7 DEF HolderStep
  <1>5. CASE UNCHANGED allGateVars
    BY <1>0, <1>5 DEF allGateVars
  <1> QED
    BY <1>1, <1>2, <1>3, <1>4, <1>5 DEF GateNext

(* What was due stays due as time goes on and commits arrive.               *)
LEMMA DueByStep ==
    ASSUME AllGateTypeOK, StoreInv, StoreStep
    PROVE  \A d \in Nat, t \in Times :
              t <= now /\ DueBy(d, t) =>
                 /\ d = 0 \/ (t >= Interval /\ d <= revAt'[t - Interval])
                 /\ d = 0 \/ (now' >= Interval /\ d <= revAt'[now' - Interval])
  <1> SUFFICES ASSUME NEW d \in Nat, NEW t \in Times, t <= now, DueBy(d, t)
               PROVE  /\ d = 0 \/ (t >= Interval /\ d <= revAt'[t - Interval])
                      /\ d = 0 \/ (now' >= Interval /\ d <= revAt'[now' - Interval])
    OBVIOUS
  <1>1. /\ StoreTypeOK' /\ StoreInv' /\ StoreTypeOK
        /\ now <= now'
        /\ \A s \in Times : s < now => revAt'[s] = revAt[s]
    BY StoreInvStep DEF AllGateTypeOK
  <1>2. /\ now \in Nat /\ now' \in Nat /\ t \in Nat
        /\ Interval \in Nat /\ Interval > 0
    BY <1>1, BoundAssumption, GateAssumption DEF StoreTypeOK, Times
  <1>3. CASE d = 0
    BY <1>3
  <1>4. CASE t >= Interval /\ d <= revAt[t - Interval]
    <2>1. t - Interval \in Times /\ now' - Interval \in Times /\ t - Interval < now
      <3>1. now' >= Interval /\ now' \in Times
        BY <1>1, <1>2, <1>4 DEF StoreTypeOK
      <3>2. t - Interval \in Times /\ t - Interval < t
        BY <1>4, IntervalBack
      <3>3. now' - Interval \in Times
        BY <3>1, IntervalBack
      <3> QED
        BY <1>2, <3>2, <3>3
    <2>2. revAt'[t - Interval] = revAt[t - Interval]
      BY <1>1, <2>1
    <2>3. revAt'[t - Interval] <= revAt'[now' - Interval]
      BY <1>1, <1>2, <2>1 DEF StoreInv
    <2>4. revAt'[t - Interval] \in Nat /\ revAt'[now' - Interval] \in Nat
      BY <1>1, <2>1 DEF StoreTypeOK
    <2>5. d <= revAt'[now' - Interval] /\ now' >= Interval
      BY <1>1, <1>2, <1>4, <2>2, <2>3, <2>4
    <2> QED
      BY <1>4, <2>2, <2>5
  <1> QED
    BY <1>3, <1>4 DEF DueBy

(* One step keeps the gate's invariant.                                     *)
LEMMA GateInvStep ==
    ASSUME AllGateTypeOK, GateInv, [GateNext]_allGateVars PROVE GateInv'
  <1> USE DEF AllGateTypeOK, GateTypeOK
  <1>0. /\ StoreInv' /\ StoreInv /\ StoreTypeOK /\ StoreTypeOK'
        /\ rev <= rev' /\ now <= now'
        /\ \A t \in Times : t < now => revAt'[t] = revAt[t]
        /\ now \in Nat /\ now' \in Nat /\ rev \in Nat /\ rev' \in Nat
        /\ checked \in Nat /\ started \in Nat
        /\ \A t \in Times : t \in Nat /\ revAt[t] \in Nat
        /\ Nobody \notin Procs
    BY GateStoreStep, StoreInvStep, BoundAssumption, GateAssumption
       DEF GateInv, StoreTypeOK, Times
  <1>01. purgedAt' \in [Caches -> Nat]
    BY GateTypeStep
  <1>1. CASE (Tick \/ Commit) /\ UNCHANGED gateVars
    <2>0. UNCHANGED <<owner, step, started, answer, nextPurge, gateRev, checked, isZero,
                      chk, due, purgedAt, unpurged>>
      BY <1>1 DEF gateVars
    <2>1. MutexInv' /\ UnpurgedInv' /\ PassedIsReconciled'
      BY <2>0 DEF GateInv, MutexInv, UnpurgedInv, PassedIsReconciled
    <2>2. WaitInv'
      <3> SUFFICES ASSUME NEW q \in Procs
                   PROVE  /\ chk[q] \in {"queued", "holds"} =>
                                due[q] = 0 \/ (now' >= Interval /\ due[q] <= revAt'[now' - Interval])
                          /\ owner = q /\ step \in {"probe", "answered", "purge"} =>
                                due[q] = 0 \/ (started >= Interval /\ due[q] <= revAt'[started - Interval])
        BY <2>0 DEF WaitInv, DueBy
      <3>0. due[q] \in Nat /\ due'[q] = due[q] /\ started' = started /\ now \in Times
        BY <1>0, <2>0 DEF StoreTypeOK
      <3>1. ASSUME chk[q] \in {"queued", "holds"}
            PROVE  due[q] = 0 \/ (now' >= Interval /\ due[q] <= revAt'[now' - Interval])
        <4>1. DueBy(due[q], now)
          BY <3>1 DEF GateInv, WaitInv
        <4> QED
          BY <1>0, <3>0, <4>1, GateStoreStep, DueByStep
      <3>2. ASSUME owner = q, step \in {"probe", "answered", "purge"}
            PROVE  due[q] = 0 \/ (started >= Interval /\ due[q] <= revAt'[started - Interval])
        <4>1. DueBy(due[q], started) /\ started <= now
          BY <3>2 DEF GateInv, WaitInv, ProbeInv
        <4> QED
          BY <1>0, <3>0, <4>1, GateStoreStep, DueByStep
      <3> QED
        BY <3>1, <3>2
    <2>3. ProbeInv'
      BY <1>0, <2>0 DEF GateInv, ProbeInv
    <2>4. GateRevInv'
      BY <1>0, <2>0 DEF GateInv, GateRevInv
    <2> QED
      BY <1>0, <2>1, <2>2, <2>3, <2>4 DEF GateInv

  (* The other steps leave the store alone.                                 *)
  <1> DEFINE StoreFixed == now' = now /\ rev' = rev /\ revAt' = revAt
  <1>2. ASSUME NEW p \in Procs, BeginCheck(p), UNCHANGED storeVars
        PROVE  GateInv'
    <2>0. /\ UNCHANGED <<owner, step, started, answer, nextPurge, gateRev, checked,
                         isZero, purgedAt, unpurged>>
          /\ StoreFixed
          /\ chk[p] # "holds" /\ chk'[p] = "queued" /\ due'[p] = DueNow
          /\ \A q \in Procs : q # p => chk'[q] = chk[q] /\ due'[q] = due[q]
      BY <1>2 DEF BeginCheck, gateState, storeVars
    <2>1. DueBy(DueNow, now)
      <3>1. CASE now >= Interval
        <4>1. revAt[now - Interval] \in Nat
          BY <1>0, <3>1, IntervalBack DEF StoreTypeOK
        <4> QED
          BY <3>1, <4>1 DEF DueNow, DueBy
      <3>2. CASE ~(now >= Interval)
        BY <3>2 DEF DueNow, DueBy
      <3> QED
        BY <3>1, <3>2
    <2>2. WaitInv'
      BY <2>0, <2>1 DEF GateInv, MutexInv, WaitInv, DueBy
    <2> QED
      BY <1>0, <2>0, <2>2 DEF GateInv, MutexInv, ProbeInv, GateRevInv, UnpurgedInv,
         PassedIsReconciled
  <1>3. ASSUME NEW p \in Procs, Acquire(p), UNCHANGED storeVars
        PROVE  GateInv'
    <2>0. /\ UNCHANGED <<started, answer, nextPurge, gateRev, checked, isZero, due,
                         purgedAt, unpurged>>
          /\ StoreFixed
          /\ owner = Nobody /\ owner' = p /\ step' = "locked"
          /\ chk[p] = "queued" /\ chk'[p] = "holds"
          /\ \A q \in Procs : q # p => chk'[q] = chk[q]
      BY <1>3 DEF Acquire, storeVars
    <2>1. MutexInv'
      BY <1>0, <2>0 DEF GateInv, MutexInv
    <2>2. WaitInv'
      BY <2>0 DEF GateInv, WaitInv, DueBy
    <2>3. ProbeInv'
      BY <1>0, <2>0 DEF GateInv, MutexInv, ProbeInv
    <2>4. GateRevInv' /\ UnpurgedInv' /\ PassedIsReconciled'
      BY <2>0 DEF GateInv, GateRevInv, UnpurgedInv, PassedIsReconciled
    <2> QED
      BY <1>0, <2>0, <2>1, <2>2, <2>3, <2>4 DEF GateInv
  (* A step of the holder that keeps the mutex: nobody's check moves.       *)
  <1>4. ASSUME NEW p \in Procs, owner = p, UNCHANGED <<owner, chk, due>>, StoreFixed,
               step # "free", step' # "free",
               step' \in {"probe", "answered", "purge"} => DueBy(due[p], started'),
               ProbeInv', GateRevInv', UnpurgedInv',
               \A c \in Caches : purgedAt[c] <= purgedAt'[c]
        PROVE  GateInv'
    <2>1. MutexInv'
      BY <1>0, <1>4 DEF GateInv, MutexInv
    <2>2. WaitInv'
      BY <1>4 DEF GateInv, WaitInv, DueBy
    <2>3. PassedIsReconciled'
      <3> SUFFICES ASSUME NEW q \in Procs, NEW c \in Caches, chk[q] = "passed"
                   PROVE  purgedAt'[c] >= due[q]
        BY <1>4 DEF PassedIsReconciled
      <3>1. purgedAt[c] \in Nat /\ purgedAt'[c] \in Nat /\ due[q] \in Nat
        BY <1>01
      <3>2. purgedAt[c] >= due[q] /\ purgedAt[c] <= purgedAt'[c]
        BY <1>4 DEF GateInv, PassedIsReconciled
      <3> QED
        BY <3>1, <3>2
    <2> QED
      BY <1>0, <1>4, <2>1, <2>2, <2>3 DEF GateInv
  (* A step of the holder that lets the mutex go.                           *)
  <1>5. ASSUME NEW p \in Procs, NEW o \in {"passed", "failed"}, owner = p,
               Release(p, o), UNCHANGED <<due, purgedAt>>, StoreFixed,
               GateRevInv', ~isZero' => unpurged' = {},
               o = "passed" => \A c \in Caches : purgedAt[c] >= due[p]
        PROVE  GateInv'
    <2>0. /\ owner' = Nobody /\ step' = "free"
          /\ chk'[p] = o
          /\ \A q \in Procs : q # p => chk'[q] = chk[q]
      BY <1>5 DEF Release
    <2>1. MutexInv'
      BY <1>0, <1>5, <2>0 DEF GateInv, MutexInv
    <2>2. WaitInv'
      BY <1>0, <1>5, <2>0 DEF GateInv, WaitInv, DueBy
    <2>3. PassedIsReconciled'
      BY <1>5, <2>0 DEF GateInv, PassedIsReconciled
    <2>4. ProbeInv' /\ UnpurgedInv'
      BY <1>5, <2>0 DEF Release, ProbeInv, UnpurgedInv
    <2> QED
      BY <1>0, <1>5, <2>1, <2>2, <2>3, <2>4 DEF GateInv
  <1>6. ASSUME NEW p \in Procs, HolderStep(p), UNCHANGED storeVars
        PROVE  GateInv'
    <2>0. StoreFixed
      BY <1>6 DEF storeVars
    <2>1. CASE StillFresh(p)
      <3>1. ~isZero /\ now < checked + Interval /\ owner = p
        BY <2>1 DEF StillFresh, WithinInterval
      <3>2. DueBy(due[p], now)
        BY <3>1 DEF GateInv, MutexInv, WaitInv
      <3>3. due[p] <= gateRev
        <4>1. CASE due[p] = 0
          BY <4>1
        <4>2. CASE now >= Interval /\ due[p] <= revAt[now - Interval]
          <5>1. now - Interval \in Times /\ now - Interval < checked
            BY <1>0, <3>1, <4>2, IntervalBack, GateAssumption DEF StoreTypeOK
          <5>2. revAt[now - Interval] <= gateRev
            BY <3>1, <5>1 DEF GateInv, GateRevInv
          <5>3. revAt[now - Interval] \in Nat /\ due[p] \in Nat /\ gateRev \in Nat
            BY <1>0, <5>1
          <5> QED
            BY <4>2, <5>2, <5>3
        <4> QED
          BY <3>2, <4>1, <4>2 DEF DueBy
      <3>4. \A c \in Caches : purgedAt[c] >= due[p]
        BY <3>3 DEF GateInv, GateRevInv
      <3>5. GateRevInv'
        BY <2>0, <2>1 DEF StillFresh, GateInv, GateRevInv
      <3>6. ~isZero' => unpurged' = {}
        BY <2>1 DEF StillFresh, GateInv, UnpurgedInv
      <3> QED
        BY <1>5, <2>0, <2>1, <3>1, <3>4, <3>5, <3>6 DEF StillFresh
    <2>2. CASE StartProbe(p)
      <3>1. DueBy(due[p], now)
        BY <2>2 DEF StartProbe, GateInv, MutexInv, WaitInv
      <3>2. ProbeInv' /\ GateRevInv' /\ UnpurgedInv'
        BY <1>0, <2>0, <2>2 DEF StartProbe, GateInv, ProbeInv, GateRevInv, UnpurgedInv
      <3> QED
        BY <1>4, <2>0, <2>2, <3>1, <3>2 DEF StartProbe
    <2>3. CASE ProbeRead(p)
      <3>1. DueBy(due[p], started)
        BY <2>3 DEF ProbeRead, GateInv, WaitInv
      <3>2. \A t \in Times : t < started => revAt[t] <= rev
        <4>1. started <= now
          BY <2>3 DEF ProbeRead, GateInv, ProbeInv
        <4>2. now \in Times /\ revAt[now] = rev
          BY <1>0 DEF StoreInv, StoreTypeOK
        <4> QED
          BY <1>0, <4>1, <4>2 DEF StoreInv
      <3>3. ProbeInv' /\ GateRevInv' /\ UnpurgedInv'
        BY <1>0, <2>0, <2>3, <3>2 DEF ProbeRead, GateInv, ProbeInv, GateRevInv, UnpurgedInv
      <3> QED
        BY <1>4, <2>0, <2>3, <3>1, <3>3 DEF ProbeRead
    <2>4. CASE ProbeFail(p)
      <3>1. GateRevInv'
        BY <1>0, <2>0, <2>4 DEF ProbeFail, GateInv, GateRevInv
      <3> QED
        BY <1>5, <2>0, <2>4, <3>1 DEF ProbeFail
    <2>5. CASE BeginPurge(p)
      <3>1. DueBy(due[p], started)
        BY <2>5 DEF BeginPurge, GateInv, WaitInv
      <3>2. ProbeInv' /\ GateRevInv' /\ UnpurgedInv'
        <4>1. nextPurge = 1 /\ nextPurge' = 1
          BY <2>5 DEF BeginPurge, GateInv, ProbeInv
        <4>2. \A c \in Caches : c \in Nat /\ c >= 1
          BY DEF Caches
        <4>3. ProbeInv'
          BY <1>0, <2>0, <2>5, <4>1, <4>2 DEF BeginPurge, GateInv, ProbeInv
        <4>4. GateRevInv' /\ UnpurgedInv'
          BY <2>0, <2>5, <4>1, <4>2 DEF BeginPurge, GateInv, GateRevInv, UnpurgedInv
        <4> QED
          BY <4>3, <4>4
      <3> QED
        BY <1>4, <2>0, <2>5, <3>1, <3>2 DEF BeginPurge
    <2>6. ASSUME NEW c \in Caches, PurgeOne(p, c) PROVE GateInv'
      <3>1. DueBy(due[p], started)
        BY <2>6 DEF PurgeOne, GateInv, WaitInv
      <3>2. /\ purgedAt'[c] = rev /\ nextPurge = c /\ nextPurge' = c + 1 /\ c \in Nat
            /\ \A d \in Caches : d # c => purgedAt'[d] = purgedAt[d]
            /\ \A d \in Caches : d \in Nat
        BY <2>6 DEF PurgeOne, Caches
      <3>3. ProbeInv'
        BY <1>0, <2>0, <2>6, <3>2 DEF PurgeOne, GateInv, ProbeInv
      <3>4. GateRevInv'
        BY <1>0, <2>0, <2>6, <3>2 DEF PurgeOne, GateInv, GateRevInv
      <3>5. UnpurgedInv'
        BY <2>6, <3>2 DEF PurgeOne, GateInv, UnpurgedInv
      <3>6. \A d \in Caches : purgedAt[d] <= purgedAt'[d]
        BY <1>0, <3>2 DEF GateInv, GateRevInv
      <3> QED
        BY <1>4, <2>0, <2>6, <3>1, <3>3, <3>4, <3>5, <3>6 DEF PurgeOne
    <2>7. CASE Pass(p)
      <3>1. /\ owner = p /\ gateRev' = answer /\ checked' = started /\ isZero' = FALSE
            /\ UNCHANGED <<due, purgedAt, unpurged>> /\ step \in {"answered", "purge"}
        BY <2>7 DEF Pass
      <3>2. \A c \in Caches : purgedAt[c] >= answer
        <4>1. CASE step = "answered" /\ ~MustPurge
          BY <4>1 DEF MustPurge, GateInv, GateRevInv
        <4>2. CASE step = "purge" /\ nextPurge = NumCaches + 1
          BY <4>2, CachesAssumption DEF GateInv, ProbeInv, Caches
        <4> QED
          BY <2>7, <4>1, <4>2 DEF Pass
      <3>3. unpurged = {}
        <4>1. CASE step = "answered" /\ ~MustPurge
          BY <4>1 DEF MustPurge, GateInv, UnpurgedInv
        <4>2. CASE step = "purge" /\ nextPurge = NumCaches + 1
          BY <4>2, CachesAssumption DEF GateInv, UnpurgedInv, Caches
        <4> QED
          BY <2>7, <4>1, <4>2 DEF Pass
      <3>4. due[p] <= answer
        <4>1. DueBy(due[p], started) /\ \A t \in Times : t < started => revAt[t] <= answer
          BY <3>1 DEF GateInv, WaitInv, ProbeInv
        <4>2. CASE due[p] = 0
          BY <4>2
        <4>3. CASE started >= Interval /\ due[p] <= revAt[started - Interval]
          <5>1. started - Interval \in Times /\ started - Interval < started
            BY <4>3, IntervalBack
          <5>2. revAt[started - Interval] \in Nat /\ revAt[started - Interval] <= answer
            BY <1>0, <4>1, <5>1
          <5>3. due[p] \in Nat /\ answer \in Nat
            OBVIOUS
          <5> QED
            BY <4>3, <5>2, <5>3
        <4> QED
          BY <4>1, <4>2, <4>3 DEF DueBy
      <3>5. \A c \in Caches : purgedAt[c] >= due[p]
        BY <3>2, <3>4
      <3>6. GateRevInv'
        BY <2>0, <3>1, <3>2 DEF GateInv, ProbeInv, GateRevInv
      <3> QED
        BY <1>5, <2>0, <2>7, <3>1, <3>3, <3>5, <3>6 DEF Pass
    <2> QED
      BY <1>6, <2>1, <2>2, <2>3, <2>4, <2>5, <2>6, <2>7 DEF HolderStep
  <1>7. CASE UNCHANGED allGateVars
    BY <1>7 DEF allGateVars, GateInv, StoreInv, MutexInv, WaitInv, DueBy, ProbeInv,
       GateRevInv, UnpurgedInv, PassedIsReconciled
  <1> QED
    BY <1>1, <1>2, <1>3, <1>6, <1>7 DEF GateNext

(* The invariant holds from the start.                                      *)
LEMMA GateInvInit == ASSUME GateSpecInit PROVE AllGateTypeOK /\ GateInv
  <1>1. AllGateTypeOK
    BY StoreInvInit, BoundAssumption, CachesAssumption
       DEF GateSpecInit, GateInit, AllGateTypeOK, GateTypeOK, Times
  <1>2. GateInv
    BY StoreInvInit, GateAssumption
       DEF GateSpecInit, GateInit, StoreInit, GateInv, MutexInv, WaitInv, DueBy,
           ProbeInv, GateRevInv, UnpurgedInv, PassedIsReconciled
  <1> QED
    BY <1>1, <1>2

(* A check passes only when every cache was purged after every commit that  *)
(* is one interval older than the check (revision.go, Check).               *)
THEOREM PassedIsReconciledHolds == GateSpec => []PassedIsReconciled
  <1>1. GateSpecInit => AllGateTypeOK /\ GateInv
    BY GateInvInit
  <1>2. AllGateTypeOK /\ GateInv /\ [GateNext]_allGateVars => (AllGateTypeOK /\ GateInv)'
    BY GateTypeStep, GateInvStep
  <1>3. GateInv => PassedIsReconciled
    BY DEF GateInv
  <1> QED
    BY <1>1, <1>2, <1>3, PTL DEF GateSpec

(* After a failed probe no check passes before every cache was purged: an   *)
(* error never extends freshness (revision.go zeroes checked).              *)
THEOREM FailureForcesPurgeHolds == GateSpec => FailureForcesPurge
  <1>1. GateSpecInit => AllGateTypeOK /\ GateInv
    BY GateInvInit
  <1>2. AllGateTypeOK /\ GateInv /\ [GateNext]_allGateVars => (AllGateTypeOK /\ GateInv)'
    BY GateTypeStep, GateInvStep
  <1>3. AllGateTypeOK /\ GateInv /\ (AllGateTypeOK /\ GateInv)' /\ [GateNext]_allGateVars
          => [\A p \in Procs :
                chk[p] = "holds" /\ chk'[p] = "passed" => unpurged' = {}]_allGateVars
    <2> SUFFICES ASSUME AllGateTypeOK, GateInv, GateInv', GateNext,
                        NEW p \in Procs, chk[p] = "holds", chk'[p] = "passed"
                 PROVE  unpurged' = {}
      BY DEF allGateVars
    <2>1. ~isZero'
      <3>1. PICK q \in Procs : StillFresh(q) \/ Pass(q)
        BY DEF GateNext, gateVars, BeginCheck, Acquire, HolderStep, StartProbe, ProbeRead,
           ProbeFail, BeginPurge, PurgeOne, Release, AllGateTypeOK, GateTypeOK
      <3> QED
        BY <3>1 DEF StillFresh, WithinInterval, Pass
    <2> QED
      BY <2>1 DEF GateInv, UnpurgedInv
  <1> QED
    BY <1>1, <1>2, <1>3, PTL DEF GateSpec, FailureForcesPurge

-----------------------------------------------------------------------------
(* The caches.                                                             *)

(* The empty call and the empty entry are of their types.                   *)
LEMMA IdleType == Idle \in Call /\ Absent \in Entry /\ Idle.pc = "idle"
  <1>1. Absent \in Entry
    BY DEF Absent, Entry
  <1>2. 1 \in Caches
    BY CachesAssumption DEF Caches
  <1>3. (CHOOSE k \in Keys : TRUE) \in Keys
    BY CacheAssumption
  <1> QED
    BY <1>1, <1>2, <1>3 DEF Idle, Call

(* Making room removes at most one entry and changes no other.              *)
LEMMA EvictedFact ==
    ASSUME CacheTypeOK, NEW c \in Caches, NEW m \in Evicted(c)
    PROVE  /\ m \in [Keys -> Entry]
           /\ \A k \in Keys : m[k] = entries[c][k] \/ m[k] = Absent
  <1>1. entries[c] \in [Keys -> Entry] /\ Absent \in Entry
    BY IdleType DEF CacheTypeOK
  <1>2. CASE m = entries[c]
    BY <1>1, <1>2
  <1>3. CASE \E j \in Keys : m = [entries[c] EXCEPT ![j] = Absent]
    BY <1>1, <1>3
  <1> QED
    BY <1>2, <1>3 DEF Evicted, Present

----------------------------------------------------------------------------
(* Type correctness of one step.                                            *)
LEMMA TTLTypeStep ==
    ASSUME TTLTypeOK, [TTLNext]_ttlVars PROVE TTLTypeOK'
  <1> USE DEF TTLTypeOK, StoreTypeOK, CacheTypeOK
  <1>1. CASE (Tick \/ Commit) /\ UNCHANGED cacheVars
    BY <1>1, BoundAssumption DEF Tick, Commit, CommitBy, cacheVars, Times
  <1>2. ASSUME NEW p \in Procs, NEW c \in Caches, NEW k \in Keys,
               BeginGet(p, c, k), UNCHANGED storeVars
        PROVE  TTLTypeOK'
    <2>1. [Idle EXCEPT !.pc = "top", !.cache = c, !.key = k] \in Call
      BY IdleType DEF Call
    <2> QED
      BY <1>2, <2>1 DEF BeginGet, storeVars
  <1>3. ASSUME NEW p \in Procs, GetStep(p) \/ CtxDone(p), UNCHANGED storeVars
        PROVE  TTLTypeOK'
    <2>0. call[p] \in Call /\ Absent \in Entry
      BY IdleType
    <2>1. CASE Lookup(p)
      <3> DEFINE c == call[p].cache
                 k == call[p].key
      <3>0. c \in Caches /\ k \in Keys
        BY <2>0 DEF Call
      <3>01. generation[c] \in Nat /\ entries[c][k] \in Entry /\ floor[c][k] \in Nat
        BY <3>0
      <3> HIDE DEF c, k
      <3>1. [call[p] EXCEPT !.pc = "read", !.gen = generation[c],
                            !.entry = entries[c][k], !.owed = floor[c][k]] \in Call
        BY <2>0, <3>01 DEF Call
      <3>2. call' \in [Procs -> Call]
        BY <2>1, <3>1 DEF Lookup, c, k
      <3> QED
        BY <1>3, <2>1, <3>2 DEF Lookup, storeVars
    <2>2. CASE Hit(p)
      BY <1>3, <2>0, <2>2 DEF Hit, Return, Call, Entry, storeVars
    <2>3. CASE DoChan(p)
      <3>1. [cache |-> call[p].cache, key |-> call[p].key, gen |-> call[p].gen,
             st |-> "start", started |-> 0, ok |-> FALSE, value |-> 0] \in Flight
        BY <2>0 DEF Call, Flight
      <3>2. [call[p] EXCEPT !.pc = "wait", !.entry = Absent] \in Call
        BY <2>0 DEF Call
      <3>3. call' \in [Procs -> Call]
        BY <2>3, <3>2 DEF DoChan
      <3>4. flights' \subseteq Flight
        BY <2>3, <3>1 DEF DoChan
      <3> QED
        BY <1>3, <2>3, <3>3, <3>4 DEF DoChan, storeVars
    <2>4. CASE Settle(p)
      <3>1. floor[call[p].cache][call[p].key] \in Nat
        BY <2>0 DEF Call
      <3>2. /\ [call[p] EXCEPT !.pc = "top", !.gen = 0, !.ok = FALSE, !.value = 0] \in Call
            /\ [call[p] EXCEPT !.pc = "done", !.gen = 0,
                               !.owed = floor[call[p].cache][call[p].key]] \in Call
        BY <2>0, <3>1 DEF Call
      <3>3. call' \in [Procs -> Call]
        BY <2>4, <3>2 DEF Settle
      <3> QED
        BY <1>3, <2>4, <3>3 DEF Settle, storeVars
    <2>5. CASE CtxDone(p)
      BY <1>3, <2>0, <2>5 DEF CtxDone, Return, Call, storeVars
    <2> QED
      BY <1>3, <2>1, <2>2, <2>3, <2>4, <2>5 DEF GetStep
  <1>4. ASSUME NEW f \in flights, FlightStep(f), UNCHANGED storeVars
        PROVE  TTLTypeOK'
    <2>0. f \in Flight
      OBVIOUS
    <2>1. CASE Recheck(f)
      <3> DEFINE e == entries[f.cache][f.key]
      <3>1. e \in Entry /\ now \in Nat
        BY <2>0 DEF Flight, Times
      <3>2. /\ [f EXCEPT !.st = "done", !.ok = TRUE, !.value = e.value] \in Flight
            /\ [f EXCEPT !.st = "load", !.started = now] \in Flight
        BY <2>0, <3>1 DEF Flight, Entry
      <3> QED
        BY <1>4, <2>1, <3>2 DEF Recheck, Becomes, storeVars
    <2>2. CASE LoadRead(f)
      BY <1>4, <2>0, <2>2 DEF LoadRead, Becomes, Flight, storeVars
    <2>3. CASE LoadFail(f)
      <3>1. [f EXCEPT !.st = "done", !.started = 0, !.ok = FALSE] \in Flight
        BY <2>0 DEF Flight
      <3> QED
        BY <1>4, <2>3, <3>1 DEF LoadFail, Becomes, storeVars
    <2>4. CASE StoreLoaded(f)
      <3>1. flights' \subseteq Flight
        <4>1. [f EXCEPT !.st = "done", !.started = 0, !.ok = TRUE] \in Flight
          BY <2>0 DEF Flight
        <4> QED
          BY <2>4, <4>1 DEF StoreLoaded, Expiry, Becomes
      <3>2. CASE f.gen = generation[f.cache]
        <4>1. PICK m \in Evicted(f.cache) :
                entries' = [entries EXCEPT ![f.cache] =
                   [m EXCEPT ![f.key] = [value |-> f.value, expiresAt |-> f.started + TTL]]]
          BY <2>4, <3>2 DEF StoreLoaded, Expiry
        <4>2. m \in [Keys -> Entry]
          BY <2>0, EvictedFact DEF Flight
        <4>3. [value |-> f.value, expiresAt |-> f.started + TTL] \in Entry
          BY <2>0, CacheAssumption DEF Flight, Entry
        <4> QED
          BY <1>4, <2>0, <2>4, <3>1, <4>1, <4>2, <4>3 DEF StoreLoaded, Expiry, Flight, storeVars
      <3>3. CASE f.gen # generation[f.cache]
        BY <1>4, <2>4, <3>1, <3>3 DEF StoreLoaded, Expiry, storeVars
      <3> QED
        BY <3>2, <3>3
    <2>5. CASE Deliver(f)
      <3>1. ASSUME NEW q \in Procs
            PROVE  [call[q] EXCEPT !.pc = "got", !.ok = f.ok, !.value = f.value] \in Call
        BY <2>0, ZenonT(60) DEF Flight, Call
      <3> QED
        BY <1>4, <2>5, <3>1 DEF Deliver, storeVars
    <2> QED
      BY <1>4, <2>1, <2>2, <2>3, <2>4, <2>5 DEF FlightStep
  <1>5. ASSUME NEW c \in Caches, NEW k \in Keys, Invalidate(c, k), UNCHANGED storeVars
        PROVE  TTLTypeOK'
    BY <1>5, IdleType DEF Invalidate, storeVars
  <1>6. ASSUME NEW c \in Caches, Purge(c), UNCHANGED storeVars
        PROVE  TTLTypeOK'
    BY <1>6, IdleType DEF Purge, storeVars
  <1>7. CASE UNCHANGED ttlVars
    BY <1>7 DEF ttlVars
  <1> QED
    BY <1>1, <1>2, <1>3, <1>4, <1>5, <1>6, <1>7 DEF TTLNext, CacheStep

----------------------------------------------------------------------------
(* One step keeps what carries the current generation as new as the last    *)
(* invalidation of its key.                                                 *)
LEMMA StaleStep ==
    ASSUME TTLTypeOK, StaleInv, [TTLNext]_ttlVars PROVE StaleInv'
  <1> USE DEF TTLTypeOK, StoreTypeOK, CacheTypeOK
  <1>0. Absent \in Entry /\ Absent.expiresAt = 0 /\ Absent.value = 0
    BY DEF Absent, Entry
  <1>1. CASE (Tick \/ Commit) /\ UNCHANGED cacheVars
    <2>1. rev \in Nat /\ rev' \in Nat /\ rev <= rev'
      BY <1>1, BoundAssumption DEF Tick, Commit, CommitBy
    <2>2. UNCHANGED <<entries, generation, flights, call, floor>>
      BY <1>1 DEF cacheVars
    <2>3. FloorInv'
      BY <2>1, <2>2 DEF StaleInv, FloorInv
    <2> QED
      BY <2>2, <2>3 DEF StaleInv, NoStaleEntry, FlightInv, CallInv, NoStaleReturn
  <1>2. ASSUME NEW p \in Procs, NEW c \in Caches, NEW k \in Keys,
               BeginGet(p, c, k), UNCHANGED storeVars
        PROVE  StaleInv'
    <2>1. UNCHANGED <<rev, entries, generation, flights, floor>>
      BY <1>2 DEF BeginGet, storeVars
    <2>2. \A q \in Procs : call'[q].pc = "top" \/ call'[q] = call[q]
      BY <1>2, IdleType DEF BeginGet, Idle
    <2>3. CallInv' /\ NoStaleReturn'
      BY <2>1, <2>2 DEF StaleInv, CallInv, NoStaleReturn
    <2> QED
      BY <2>1, <2>3 DEF StaleInv, FloorInv, NoStaleEntry, FlightInv
  <1>3. ASSUME NEW p \in Procs, GetStep(p) \/ CtxDone(p), UNCHANGED storeVars
        PROVE  StaleInv'
    <2> DEFINE c == call[p].cache
               k == call[p].key
    <2>0. call[p] \in Call /\ c \in Caches /\ k \in Keys
      BY DEF Call
    <2>1. CASE Lookup(p)
      <3>1. UNCHANGED <<rev, entries, generation, flights, floor>>
        BY <1>3, <2>1 DEF Lookup, storeVars
      <3>2. /\ call'[p].pc = "read"
            /\ call'[p].cache = c
            /\ call'[p].gen = generation[c]
            /\ call'[p].entry = entries[c][k]
            /\ call'[p].owed = floor[c][k]
        BY <2>0, <2>1 DEF Lookup, Call
      <3>3. \A q \in Procs : q # p => call'[q] = call[q]
        BY <2>1 DEF Lookup
      <3>4. generation[c] \in Nat
        BY <2>0
      <3>5. CallInv' /\ NoStaleReturn'
        <4>1. entries[c][k] # Absent => entries[c][k].value >= floor[c][k]
          BY <2>0 DEF StaleInv, NoStaleEntry
        <4> HIDE DEF c, k
        <4>2. ASSUME NEW q \in Procs, q # p
              PROVE  call'[q] = call[q]
          BY <3>3, <4>2
        <4>3. CallInv'
          BY <3>1, <3>2, <3>4, <4>1, <4>2 DEF StaleInv, CallInv
        <4>4. NoStaleReturn'
          BY <3>2, <4>2 DEF StaleInv, NoStaleReturn
        <4> QED
          BY <4>3, <4>4
      <3> QED
        BY <3>1, <3>5 DEF StaleInv, FloorInv, NoStaleEntry, FlightInv
    <2>2. CASE Hit(p)
      <3>1. UNCHANGED <<rev, entries, generation, flights, floor>>
        BY <1>3, <2>2 DEF Hit, storeVars
      <3>2. /\ call'[p].pc = "done"
            /\ call'[p].value = call[p].entry.value
            /\ call'[p].owed = call[p].owed
        BY <2>0, <2>2 DEF Hit, Return, Call
      <3>3. call[p].pc = "read" /\ call[p].entry # Absent
        BY <1>0, <2>0, <2>2 DEF Hit, Live, Call, Entry, Times
      <3>4. \A q \in Procs : q # p => call'[q] = call[q]
        BY <2>2 DEF Hit, Return
      <3>5. CallInv' /\ NoStaleReturn'
        BY <3>1, <3>2, <3>3, <3>4, ZenonT(60) DEF StaleInv, CallInv, NoStaleReturn
      <3> QED
        BY <3>1, <3>5 DEF StaleInv, FloorInv, NoStaleEntry, FlightInv
    <2>3. CASE DoChan(p)
      <3>1. UNCHANGED <<rev, entries, generation, floor>>
        BY <1>3, <2>3 DEF DoChan, storeVars
      <3>2. /\ call'[p].pc = "wait"
            /\ call'[p].cache = c
            /\ call'[p].gen = call[p].gen
            /\ call[p].pc = "read"
        BY <2>0, <2>3 DEF DoChan, Call
      <3>3. \A q \in Procs : q # p => call'[q] = call[q]
        BY <2>3 DEF DoChan
      <3>4. CallInv' /\ NoStaleReturn'
        BY <3>1, <3>2, <3>3 DEF StaleInv, CallInv, NoStaleReturn
      <3>5. \A f \in flights' : \/ f \in flights
                                \/ f.cache = c /\ f.gen = call[p].gen /\ f.st = "start"
        BY <2>3 DEF DoChan
      <3>6. FlightInv'
        BY <3>1, <3>2, <3>5 DEF StaleInv, FlightInv, CallInv
      <3> QED
        BY <3>1, <3>4, <3>6 DEF StaleInv, FloorInv, NoStaleEntry
    <2>4. CASE Settle(p)
      <3>1. UNCHANGED <<rev, entries, generation, flights, floor>>
        BY <1>3, <2>4 DEF Settle, storeVars
      <3>2. \A q \in Procs : q # p => call'[q] = call[q]
        BY <2>4 DEF Settle
      <3>3. \/ call'[p].pc = "top"
            \/ /\ call'[p].pc = "done" /\ call[p].pc = "got"
               /\ call[p].gen = generation[c]
               /\ call'[p].ok = call[p].ok
               /\ call'[p].value = call[p].value
               /\ call'[p].owed = floor[c][k]
        <4>1. CASE call[p].gen # generation[c]
          <5>1. call' = [call EXCEPT ![p] = [call[p] EXCEPT !.pc = "top", !.gen = 0,
                                             !.ok = FALSE, !.value = 0]]
            BY <2>4, <4>1 DEF Settle
          <5>2. call'[p].pc = "top"
            BY <2>0, <5>1 DEF Call
          <5> QED
            BY <5>2
        <4>2. CASE call[p].gen = generation[c]
          <5>1. call' = [call EXCEPT ![p] = [call[p] EXCEPT !.pc = "done", !.gen = 0,
                                             !.owed = floor[c][k]]]
            BY <2>4, <4>2 DEF Settle
          <5>2. call'[p] = [call[p] EXCEPT !.pc = "done", !.gen = 0, !.owed = floor[c][k]]
            BY <5>1
          <5>3. /\ call'[p].pc = "done"
                /\ call'[p].ok = call[p].ok
                /\ call'[p].value = call[p].value
                /\ call'[p].owed = floor[c][k]
            BY <2>0, <5>2 DEF Call
          <5> QED
            BY <2>4, <4>2, <5>3 DEF Settle
        <4> QED
          BY <4>1, <4>2
      <3>4. CallInv' /\ NoStaleReturn'
        BY <3>1, <3>2, <3>3, SMTT(30) DEF StaleInv, CallInv, NoStaleReturn
      <3> QED
        BY <3>1, <3>4 DEF StaleInv, FloorInv, NoStaleEntry, FlightInv
    <2>5. CASE CtxDone(p)
      <3>1. UNCHANGED <<rev, entries, generation, flights, floor>>
        BY <1>3, <2>5 DEF CtxDone, storeVars
      <3>2. call'[p].pc = "done" /\ ~call'[p].ok
        BY <2>0, <2>5 DEF CtxDone, Return, Call
      <3>3. \A q \in Procs : q # p => call'[q] = call[q]
        BY <2>5 DEF CtxDone, Return
      <3>4. CallInv' /\ NoStaleReturn'
        BY <3>1, <3>2, <3>3 DEF StaleInv, CallInv, NoStaleReturn
      <3> QED
        BY <3>1, <3>4 DEF StaleInv, FloorInv, NoStaleEntry, FlightInv
    <2> QED
      BY <1>3, <2>1, <2>2, <2>3, <2>4, <2>5 DEF GetStep
  <1>4. ASSUME NEW f \in flights, FlightStep(f), UNCHANGED storeVars
        PROVE  StaleInv'
    <2>0. f \in Flight /\ f.cache \in Caches /\ f.key \in Keys
      BY DEF Flight
    <2>01. rev' = rev
      BY <1>4 DEF storeVars
    <2>1. CASE Recheck(f)
      <3> DEFINE e == entries[f.cache][f.key]
      <3>1. UNCHANGED <<rev, entries, generation, call, floor>>
        BY <2>1, <2>01 DEF Recheck
      <3>2. PICK g : /\ flights' = (flights \ {f}) \cup {g}
                     /\ g.cache = f.cache /\ g.key = f.key /\ g.gen = f.gen
                     /\ \/ g.st = "load"
                        \/ g.st = "done" /\ Live(e) /\ g.value = e.value
        <4>1. CASE Live(e)
          <5> WITNESS [f EXCEPT !.st = "done", !.ok = TRUE, !.value = e.value]
          <5> QED
            BY <2>0, <2>1, <4>1 DEF Recheck, Becomes, Flight
        <4>2. CASE ~Live(e)
          <5> WITNESS [f EXCEPT !.st = "load", !.started = now]
          <5> QED
            BY <2>0, <2>1, <4>2 DEF Recheck, Becomes, Flight
        <4> QED
          BY <4>1, <4>2
      <3>3. Live(e) => e # Absent
        BY <1>0, <2>0 DEF Live, Times, Entry
      <3>4. FlightInv'
        BY <2>0, <3>1, <3>2, <3>3 DEF StaleInv, FlightInv, NoStaleEntry
      <3> QED
        BY <3>1, <3>4 DEF StaleInv, FloorInv, NoStaleEntry, CallInv, NoStaleReturn
    <2>2. CASE LoadRead(f)
      <3>1. UNCHANGED <<rev, entries, generation, call, floor>>
        BY <2>2, <2>01 DEF LoadRead
      <3> DEFINE g == [f EXCEPT !.st = "loaded", !.value = rev]
      <3>2. /\ flights' = (flights \ {f}) \cup {g}
            /\ g.cache = f.cache /\ g.key = f.key /\ g.gen = f.gen
            /\ g.value = rev
        BY <2>0, <2>2 DEF LoadRead, Becomes, Flight
      <3> HIDE DEF g
      <3>3. FlightInv'
        BY <2>0, <3>1, <3>2 DEF StaleInv, FlightInv, FloorInv
      <3> QED
        BY <3>1, <3>3 DEF StaleInv, FloorInv, NoStaleEntry, CallInv, NoStaleReturn
    <2>3. CASE LoadFail(f)
      <3>1. UNCHANGED <<rev, entries, generation, call, floor>>
        BY <2>3, <2>01 DEF LoadFail
      <3> DEFINE g == [f EXCEPT !.st = "done", !.started = 0, !.ok = FALSE]
      <3>2. /\ flights' = (flights \ {f}) \cup {g}
            /\ g.cache = f.cache /\ g.key = f.key /\ g.gen = f.gen
            /\ g.st = "done" /\ ~g.ok
        BY <2>0, <2>3 DEF LoadFail, Becomes, Flight
      <3> HIDE DEF g
      <3>3. FlightInv'
        BY <2>0, <3>1, <3>2 DEF StaleInv, FlightInv
      <3> QED
        BY <3>1, <3>3 DEF StaleInv, FloorInv, NoStaleEntry, CallInv, NoStaleReturn
    <2>4. CASE StoreLoaded(f)
      <3>1. UNCHANGED <<rev, generation, call, floor>>
        BY <2>4, <2>01 DEF StoreLoaded, Expiry
      <3> DEFINE g == [f EXCEPT !.st = "done", !.started = 0, !.ok = TRUE]
      <3>2. /\ flights' = (flights \ {f}) \cup {g}
            /\ g.cache = f.cache /\ g.key = f.key /\ g.gen = f.gen
            /\ g.value = f.value
        BY <2>0, <2>4 DEF StoreLoaded, Expiry, Becomes, Flight
      <3> HIDE DEF g
      <3>3. FlightInv'
        BY <2>0, <2>4, <3>1, <3>2 DEF StaleInv, FlightInv, StoreLoaded, Expiry
      <3>4. NoStaleEntry'
        <4>1. CASE f.gen = generation[f.cache]
          <5>1. PICK m \in Evicted(f.cache) :
                  entries' = [entries EXCEPT ![f.cache] =
                     [m EXCEPT ![f.key] = [value |-> f.value, expiresAt |-> f.started + TTL]]]
            BY <2>4, <4>1 DEF StoreLoaded, Expiry
          <5>2. /\ m \in [Keys -> Entry]
                /\ \A k \in Keys : m[k] = entries[f.cache][k] \/ m[k] = Absent
            BY <2>0, EvictedFact
          <5>3. f.value >= floor[f.cache][f.key]
            BY <2>4, <4>1 DEF StoreLoaded, Expiry, StaleInv, FlightInv
          <5>4. ASSUME NEW c \in Caches, NEW k \in Keys
                PROVE  \/ entries'[c][k] = entries[c][k]
                       \/ entries'[c][k] = Absent
                       \/ c = f.cache /\ k = f.key /\ entries'[c][k].value = f.value
            BY <2>0, <5>1, <5>2
          <5> QED
            BY <3>1, <5>3, <5>4 DEF StaleInv, NoStaleEntry
        <4>2. CASE f.gen # generation[f.cache]
          BY <2>4, <3>1, <4>2 DEF StoreLoaded, Expiry, StaleInv, NoStaleEntry
        <4> QED
          BY <4>1, <4>2
      <3> QED
        BY <3>1, <3>3, <3>4 DEF StaleInv, FloorInv, CallInv, NoStaleReturn
    <2>5. CASE Deliver(f)
      <3>1. UNCHANGED <<rev, entries, generation, floor>>
        BY <2>5, <2>01 DEF Deliver
      <3>2. flights' \subseteq flights
        BY <2>5 DEF Deliver
      <3>3. ASSUME NEW q \in Procs
            PROVE  \/ call'[q] = call[q]
                   \/ /\ call[q].pc = "wait" /\ SameLoad(f, call[q])
                      /\ call'[q].pc = "got"
                      /\ call'[q].cache = f.cache /\ call'[q].key = f.key
                      /\ call'[q].gen = f.gen
                      /\ call'[q].ok = f.ok /\ call'[q].value = f.value
        <4>1. call[q] \in Call
          OBVIOUS
        <4> QED
          BY <2>0, <2>5, <4>1 DEF Deliver, SameLoad, Call
      <3>4. CallInv' /\ NoStaleReturn'
        <4>1. /\ f.gen <= generation[f.cache]
              /\ f.gen = generation[f.cache] /\ f.ok => f.value >= floor[f.cache][f.key]
          BY <2>5 DEF StaleInv, FlightInv, Deliver
        <4>2. CallInv'
          <5> SUFFICES ASSUME NEW q \in Procs
                       PROVE  /\ call'[q].pc \in {"read", "wait", "got"} =>
                                    call'[q].gen <= generation[call'[q].cache]
                              /\ call'[q].pc = "read" /\ call'[q].entry # Absent =>
                                    call'[q].entry.value >= call'[q].owed
                              /\ call'[q].pc = "got" /\ call'[q].ok
                                    /\ call'[q].gen = generation[call'[q].cache] =>
                                    call'[q].value >= floor[call'[q].cache][call'[q].key]
            BY <3>1 DEF CallInv
          <5>1. CASE call'[q] = call[q]
            BY <5>1 DEF StaleInv, CallInv
          <5>2. CASE call'[q] # call[q]
            BY <3>3, <4>1, <5>2
          <5> QED
            BY <5>1, <5>2
        <4>3. NoStaleReturn'
          BY <3>3 DEF StaleInv, NoStaleReturn
        <4> QED
          BY <4>2, <4>3
      <3> QED
        BY <3>1, <3>2, <3>4 DEF StaleInv, FloorInv, NoStaleEntry, FlightInv
    <2> QED
      BY <1>4, <2>1, <2>2, <2>3, <2>4, <2>5 DEF FlightStep
  <1>5. ASSUME NEW c \in Caches, UNCHANGED <<rev, flights, call>>,
               generation' = [generation EXCEPT ![c] = @ + 1],
               \A d \in Caches, k \in Keys :
                  \/ entries'[d][k] = entries[d][k] /\ floor'[d][k] = floor[d][k]
                  \/ d = c /\ entries'[d][k] = Absent /\ floor'[d][k] = rev
        PROVE  StaleInv'
    <2>1. /\ generation'[c] = generation[c] + 1
          /\ generation[c] \in Nat
          /\ \A d \in Caches : d # c => generation'[d] = generation[d]
      BY <1>5
    <2>2. FloorInv'
      <3> SUFFICES ASSUME NEW d \in Caches, NEW k \in Keys PROVE floor'[d][k] <= rev'
        BY DEF FloorInv
      <3>1. rev \in Nat /\ rev' = rev /\ floor[d][k] <= rev
        BY <1>5 DEF StaleInv, FloorInv
      <3> QED
        BY <1>5, <3>1
    <2>3. NoStaleEntry'
      BY <1>5 DEF StaleInv, NoStaleEntry
    <2>4. FlightInv'
      <3> SUFFICES ASSUME NEW f \in flights
                   PROVE  /\ f.gen <= generation'[f.cache]
                          /\ f.gen = generation'[f.cache] /\ (f.st = "loaded" \/ (f.st = "done" /\ f.ok)) =>
                                f.value >= floor'[f.cache][f.key]
        BY <1>5 DEF FlightInv
      <3>1. f.cache \in Caches /\ f.key \in Keys /\ f.gen \in Nat /\ f.gen <= generation[f.cache]
        BY DEF Flight, StaleInv, FlightInv
      <3>2. CASE f.cache = c
        BY <2>1, <3>1, <3>2
      <3>3. CASE f.cache # c
        BY <1>5, <2>1, <3>1, <3>3 DEF StaleInv, FlightInv
      <3> QED
        BY <3>2, <3>3
    <2>5. CallInv'
      <3> SUFFICES ASSUME NEW q \in Procs
                   PROVE  /\ call[q].pc \in {"read", "wait", "got"} =>
                                call[q].gen <= generation'[call[q].cache]
                          /\ call[q].pc = "read" /\ call[q].entry # Absent =>
                                call[q].entry.value >= call[q].owed
                          /\ call[q].pc = "got" /\ call[q].ok
                                /\ call[q].gen = generation'[call[q].cache] =>
                                call[q].value >= floor'[call[q].cache][call[q].key]
        BY <1>5 DEF CallInv
      <3>1. call[q].cache \in Caches /\ call[q].key \in Keys /\ call[q].gen \in Nat
        BY DEF Call
      <3>2. CASE call[q].cache = c
        BY <2>1, <3>1, <3>2 DEF StaleInv, CallInv
      <3>3. CASE call[q].cache # c
        BY <1>5, <2>1, <3>1, <3>3 DEF StaleInv, CallInv
      <3> QED
        BY <3>2, <3>3
    <2>6. NoStaleReturn'
      BY <1>5 DEF StaleInv, NoStaleReturn
    <2> QED
      BY <2>2, <2>3, <2>4, <2>5, <2>6 DEF StaleInv
  <1>6. ASSUME NEW c \in Caches, NEW k \in Keys, Invalidate(c, k), UNCHANGED storeVars
        PROVE  StaleInv'
    <2>1. \A d \in Caches, j \in Keys :
             \/ entries'[d][j] = entries[d][j] /\ floor'[d][j] = floor[d][j]
             \/ d = c /\ entries'[d][j] = Absent /\ floor'[d][j] = rev
      BY <1>6 DEF Invalidate
    <2> QED
      BY <1>5, <1>6, <2>1 DEF Invalidate, storeVars
  <1>7. ASSUME NEW c \in Caches, Purge(c), UNCHANGED storeVars
        PROVE  StaleInv'
    <2>1. \A d \in Caches, j \in Keys :
             \/ entries'[d][j] = entries[d][j] /\ floor'[d][j] = floor[d][j]
             \/ d = c /\ entries'[d][j] = Absent /\ floor'[d][j] = rev
      BY <1>7 DEF Purge
    <2> QED
      BY <1>5, <1>7, <2>1 DEF Purge, storeVars
  <1>8. CASE UNCHANGED ttlVars
    BY <1>8 DEF ttlVars, StaleInv, FloorInv, NoStaleEntry, FlightInv, CallInv, NoStaleReturn
  <1> QED
    BY <1>1, <1>2, <1>3, <1>4, <1>6, <1>7, <1>8 DEF TTLNext, CacheStep

(* The empty cache satisfies both.                                           *)
LEMMA StaleInit == ASSUME TTLInit PROVE TTLTypeOK /\ StaleInv
  <1>1. TTLTypeOK
    BY IdleType, BoundAssumption DEF TTLInit, StoreInit, CacheInit, TTLTypeOK,
       StoreTypeOK, CacheTypeOK, Times
  <1>2. \A p \in Procs : call[p].pc = "idle"
    BY IdleType DEF TTLInit, CacheInit
  <1>3. StaleInv
    BY <1>2 DEF TTLInit, StoreInit, CacheInit, StaleInv, FloorInv, NoStaleEntry,
       FlightInv, CallInv, NoStaleReturn
  <1> QED
    BY <1>1, <1>3

(* The values TTLCache stores and returns are never older than the last     *)
(* invalidation of their key: in-flight loads of an older generation        *)
(* neither repopulate the cache nor reach a caller (ttl.go, Get).           *)
THEOREM NoStaleHolds == TTLSpec => []NoStale
  <1>1. TTLInit => TTLTypeOK /\ StaleInv
    BY StaleInit
  <1>2. TTLTypeOK /\ StaleInv /\ [TTLNext]_ttlVars => (TTLTypeOK /\ StaleInv)'
    BY TTLTypeStep, StaleStep
  <1>3. StaleInv => NoStale
    BY DEF StaleInv, NoStale
  <1> QED
    BY <1>1, <1>2, <1>3, PTL DEF TTLSpec

----------------------------------------------------------------------------
(* Every step of the cache leaves the store alone or is a step of it.       *)
LEMMA TTLStoreStep == ASSUME [TTLNext]_ttlVars PROVE StoreStep
  BY DEF TTLNext, ttlVars, StoreStep, storeVars

(* One step keeps a load's answer as new as the load's start, and an entry  *)
(* as new as the start its expiry counts from.                              *)
LEMMA AgeStep ==
    ASSUME TTLTypeOK, AgeInv, [TTLNext]_ttlVars PROVE AgeInv'
  <1> USE DEF TTLTypeOK, CacheTypeOK
  <1>0. /\ StoreTypeOK' /\ StoreInv' /\ StoreTypeOK /\ StoreInv
        /\ rev <= rev' /\ now <= now'
        /\ \A t \in Times : t < now => revAt'[t] = revAt[t]
        /\ now \in Nat /\ now' \in Nat /\ TTL \in Nat /\ TTL > 0
    BY TTLStoreStep, StoreInvStep, BoundAssumption, CacheAssumption, SMTT(30)
       DEF AgeInv, StoreTypeOK, Times
  (* Loads and entries that were there before only grow older.              *)
  <1>1. ASSUME NEW f \in flights
        PROVE  /\ f.st \in {"load", "loaded"} => f.started <= now'
               /\ f.st = "loaded" => \A t \in Times : t < f.started => f.value >= revAt'[t]
    <2>1. f.started \in Nat
      BY DEF Flight
    <2>2. \A t \in Times : t \in Nat
      BY DEF Times
    <2> QED
      BY <1>0, <2>1, <2>2 DEF AgeInv, LoadAge
  <1>2. ASSUME NEW c \in Caches, NEW k \in Keys, entries[c][k] # Absent
        PROVE  /\ entries[c][k].expiresAt <= now' + TTL
               /\ \A t \in Times : t + TTL < entries[c][k].expiresAt =>
                     entries[c][k].value >= revAt'[t]
    <2>1. entries[c][k].expiresAt \in Nat
      BY DEF Entry
    <2>2. \A t \in Times : t \in Nat
      BY DEF Times
    <2>3. entries[c][k].expiresAt <= now + TTL
      BY <1>2 DEF AgeInv, EntryAge
    <2> QED
      BY <1>0, <1>2, <2>1, <2>2, <2>3 DEF AgeInv, EntryAge
  <1>3. CASE flights' \subseteq flights /\ entries' = entries
    BY <1>0, <1>1, <1>2, <1>3 DEF AgeInv, LoadAge, EntryAge
  <1>4. ASSUME NEW p \in Procs, DoChan(p) PROVE AgeInv'
    <2>1. \A f \in flights' : f \in flights \/ f.st = "start"
      BY <1>4 DEF DoChan
    <2>2. LoadAge'
      BY <1>1, <2>1 DEF LoadAge
    <2>3. EntryAge'
      BY <1>2, <1>4 DEF DoChan, EntryAge
    <2> QED
      BY <1>0, <2>2, <2>3 DEF AgeInv
  <1>5. ASSUME NEW f \in flights, NEW g, flights' = (flights \ {f}) \cup {g},
               entries' = entries,
               g.st \in {"load", "loaded"} => g.started <= now',
               g.st = "loaded" => \A t \in Times : t < g.started => g.value >= revAt'[t]
        PROVE  AgeInv'
    <2>1. LoadAge'
      BY <1>1, <1>5 DEF LoadAge
    <2>2. EntryAge'
      BY <1>2, <1>5 DEF EntryAge
    <2> QED
      BY <1>0, <2>1, <2>2 DEF AgeInv
  <1>6. ASSUME NEW f \in flights, FlightStep(f), UNCHANGED storeVars PROVE AgeInv'
    <2>0. f \in Flight
      OBVIOUS
    <2>1. CASE Recheck(f)
      <3> DEFINE e == entries[f.cache][f.key]
                 g1 == [f EXCEPT !.st = "done", !.ok = TRUE, !.value = e.value]
                 g2 == [f EXCEPT !.st = "load", !.started = now]
      <3>1. g1.st = "done" /\ g2.st = "load" /\ g2.started = now
        BY <2>0 DEF Flight
      <3>2. \/ flights' = (flights \ {f}) \cup {g1}
            \/ flights' = (flights \ {f}) \cup {g2}
        BY <2>1 DEF Recheck, Becomes
      <3>3. entries' = entries
        BY <2>1 DEF Recheck
      <3> HIDE DEF g1, g2
      <3> QED
        BY <1>0, <1>5, <3>1, <3>2, <3>3
    <2>2. CASE LoadRead(f)
      <3> DEFINE g == [f EXCEPT !.st = "loaded", !.value = rev]
      <3>1. g.st = "loaded" /\ g.started = f.started /\ g.value = rev /\ f.started \in Nat
        BY <2>0 DEF Flight
      <3>2. flights' = (flights \ {f}) \cup {g} /\ entries' = entries /\ f.st = "load"
        BY <2>2 DEF LoadRead, Becomes
      <3>3. \A t \in Times : rev >= revAt[t]
        BY <1>0 DEF StoreInv, StoreTypeOK, Times
      <3>4. revAt' = revAt /\ now' = now
        BY <1>6 DEF storeVars
      <3>5. f.started <= now
        BY <3>2 DEF AgeInv, LoadAge
      <3> HIDE DEF g
      <3> QED
        BY <1>5, <3>1, <3>2, <3>3, <3>4, <3>5
    <2>3. CASE LoadFail(f)
      <3> DEFINE g == [f EXCEPT !.st = "done", !.started = 0, !.ok = FALSE]
      <3>1. g.st = "done"
        BY <2>0 DEF Flight
      <3>2. flights' = (flights \ {f}) \cup {g} /\ entries' = entries
        BY <2>3 DEF LoadFail, Becomes
      <3> HIDE DEF g
      <3> QED
        BY <1>5, <3>1, <3>2
    <2>4. CASE StoreLoaded(f)
      <3> DEFINE g == [f EXCEPT !.st = "done", !.started = 0, !.ok = TRUE]
      <3>1. g.st = "done"
        BY <2>0 DEF Flight
      <3>2. flights' = (flights \ {f}) \cup {g}
        BY <2>4 DEF StoreLoaded, Expiry, Becomes
      <3> HIDE DEF g
      <3>3. LoadAge'
        BY <1>1, <3>1, <3>2 DEF LoadAge
      <3>4. CASE f.gen = generation[f.cache]
        <4> DEFINE stored == [value |-> f.value, expiresAt |-> f.started + TTL]
        <4>1. PICK m \in Evicted(f.cache) :
                entries' = [entries EXCEPT ![f.cache] = [m EXCEPT ![f.key] = stored]]
          BY <2>4, <3>4 DEF StoreLoaded, Expiry
        <4>2. f.cache \in Caches /\ f.key \in Keys /\ f.started \in Nat
          BY <2>0 DEF Flight
        <4>3. /\ m \in [Keys -> Entry]
              /\ \A k \in Keys : m[k] = entries[f.cache][k] \/ m[k] = Absent
          BY <4>2, EvictedFact
        <4>4. stored.value = f.value /\ stored.expiresAt = f.started + TTL
          OBVIOUS
        <4>5. f.started <= now /\ \A t \in Times : t < f.started => f.value >= revAt[t]
          BY <2>4 DEF StoreLoaded, Expiry, AgeInv, LoadAge
        <4>6. revAt' = revAt /\ now' = now
          BY <1>6 DEF storeVars
        <4> HIDE DEF stored
        <4>7. /\ stored.expiresAt <= now' + TTL
              /\ \A t \in Times : t + TTL < stored.expiresAt => stored.value >= revAt'[t]
          BY <1>0, <4>2, <4>4, <4>5, <4>6 DEF Times
        <4>8. ASSUME NEW c \in Caches, NEW k \in Keys
              PROVE  \/ entries'[c][k] = entries[c][k]
                     \/ entries'[c][k] = Absent
                     \/ entries'[c][k] = stored
          BY <4>1, <4>2, <4>3
        <4>9. EntryAge'
          BY <1>2, <4>7, <4>8 DEF EntryAge
        <4> QED
          BY <1>0, <3>3, <4>9 DEF AgeInv
      <3>5. CASE f.gen # generation[f.cache]
        <4>1. entries' = entries
          BY <2>4, <3>5 DEF StoreLoaded, Expiry
        <4> QED
          BY <1>5, <3>1, <3>2, <4>1
      <3> QED
        BY <3>4, <3>5
    <2>5. CASE Deliver(f)
      BY <1>3, <2>5 DEF Deliver
    <2> QED
      BY <1>6, <2>1, <2>2, <2>3, <2>4, <2>5 DEF FlightStep
  <1>7. ASSUME flights' = flights,
               \A c \in Caches, k \in Keys :
                  entries'[c][k] = entries[c][k] \/ entries'[c][k] = Absent
        PROVE  AgeInv'
    <2>1. LoadAge'
      BY <1>1, <1>7 DEF LoadAge
    <2>2. EntryAge'
      BY <1>2, <1>7 DEF EntryAge
    <2> QED
      BY <1>0, <2>1, <2>2 DEF AgeInv
  <1>8. CASE (Tick \/ Commit) /\ UNCHANGED cacheVars
    BY <1>3, <1>8 DEF cacheVars
  <1>9. ASSUME NEW p \in Procs,
               (\E c \in Caches, k \in Keys : BeginGet(p, c, k)) \/ GetStep(p) \/ CtxDone(p)
        PROVE  AgeInv'
    BY <1>3, <1>4, <1>9 DEF BeginGet, GetStep, Lookup, Hit, Settle, CtxDone
  <1>10. ASSUME NEW c \in Caches, NEW k \in Keys, Invalidate(c, k) PROVE AgeInv'
    BY <1>7, <1>10 DEF Invalidate
  <1>11. ASSUME NEW c \in Caches, Purge(c) PROVE AgeInv'
    BY <1>7, <1>11 DEF Purge
  <1>12. CASE UNCHANGED ttlVars
    BY <1>3, <1>12 DEF ttlVars
  <1> QED
    BY <1>6, <1>8, <1>9, <1>10, <1>11, <1>12 DEF TTLNext, CacheStep

(* An entry that can be served misses nothing committed TTL ago or earlier, *)
(* however long the load that filled it took (ttl.go, started.Add(ttl)).    *)
THEOREM AgeBoundHolds == TTLSpec => []AgeBound
  <1>1. TTLInit => TTLTypeOK /\ AgeInv
    <2> SUFFICES ASSUME TTLInit PROVE TTLTypeOK /\ AgeInv
      OBVIOUS
    <2>1. TTLTypeOK
      BY IdleType, StoreInvInit DEF TTLInit, CacheInit, TTLTypeOK, CacheTypeOK
    <2>2. AgeInv
      BY StoreInvInit DEF TTLInit, CacheInit, AgeInv, LoadAge, EntryAge
    <2> QED
      BY <2>1, <2>2
  <1>2. TTLTypeOK /\ AgeInv /\ [TTLNext]_ttlVars => (TTLTypeOK /\ AgeInv)'
    BY TTLTypeStep, AgeStep
  <1>3. TTLTypeOK /\ AgeInv => AgeBound
    <2> SUFFICES ASSUME TTLTypeOK, AgeInv, NEW c \in Caches, NEW k \in Keys,
                        Live(entries[c][k]), NEW t \in Times, t + TTL <= now
                 PROVE  entries[c][k].value >= revAt[t]
      BY DEF AgeBound
    <2>1. entries[c][k] # Absent
      BY DEF Live, Absent, TTLTypeOK, StoreTypeOK, Times
    <2>2. entries[c][k].expiresAt \in Nat /\ now \in Nat /\ t \in Nat /\ TTL \in Nat
      BY CacheAssumption DEF TTLTypeOK, StoreTypeOK, CacheTypeOK, Entry, Times
    <2>3. t + TTL < entries[c][k].expiresAt
      BY <2>2 DEF Live
    <2> QED
      BY <2>1, <2>3 DEF AgeInv, EntryAge
  <1> QED
    BY <1>1, <1>2, <1>3, PTL DEF TTLSpec

----------------------------------------------------------------------------
(* Storing under k after making room leaves at most Capacity entries.       *)
LEMMA RoomForOne ==
    ASSUME CacheTypeOK, NEW c \in Caches, NEW k \in Keys, NEW e, NEW m \in Evicted(c),
           IsFiniteSet(Present(c)), Capacity > 0 => Cardinality(Present(c)) <= Capacity
    PROVE  /\ IsFiniteSet({j \in Keys : [m EXCEPT ![k] = e][j] # Absent})
           /\ Capacity > 0 => Cardinality({j \in Keys : [m EXCEPT ![k] = e][j] # Absent}) <= Capacity
  <1> DEFINE S == {j \in Keys : [m EXCEPT ![k] = e][j] # Absent}
             P == Present(c)
             M == {j \in Keys : m[j] # Absent}
  <1>1. m \in [Keys -> Entry] /\ Absent \in Entry
    BY EvictedFact, IdleType
  <1>2. S \subseteq M \cup {k}
    BY <1>1
  <1>3. Capacity \in Nat /\ Cardinality(P) \in Nat
    BY CacheAssumption, FS_CardinalityType
  <1>4. IsFiniteSet(M) /\ Cardinality(M) \in Nat /\ (Capacity > 0 => Cardinality(M) + 1 <= Capacity)
    <2>1. CASE Capacity > 0 /\ Cardinality(P) >= Capacity
      <3>1. PICK j \in P : m = [entries[c] EXCEPT ![j] = Absent]
        BY <2>1 DEF Evicted
      <3>2. M = P \ {j}
        BY <3>1 DEF CacheTypeOK, Present
      <3>3. IsFiniteSet(P \ {j}) /\ Cardinality(P \ {j}) = Cardinality(P) - 1
        BY FS_RemoveElement
      <3>4. IsFiniteSet(M) /\ Cardinality(M) = Cardinality(P) - 1
        BY <3>2, <3>3
      <3>5. Cardinality(M) \in Nat
        BY <3>4, FS_CardinalityType
      <3>6. Cardinality(P) <= Capacity
        BY <2>1
      <3> HIDE DEF P, M
      <3> QED
        BY <1>3, <3>4, <3>5, <3>6
    <2>2. CASE ~(Capacity > 0 /\ Cardinality(P) >= Capacity)
      <3>1. m = entries[c]
        BY <2>2 DEF Evicted
      <3>2. M = P
        BY <3>1 DEF Present
      <3> HIDE DEF P, M
      <3> QED
        BY <1>3, <2>2, <3>2 DEF P
    <2> QED
      BY <2>1, <2>2
  <1>5. /\ IsFiniteSet(M \cup {k})
        /\ Cardinality(M \cup {k}) = IF k \in M THEN Cardinality(M) ELSE Cardinality(M) + 1
    BY <1>4, FS_AddElement
  <1>6. IsFiniteSet(S) /\ Cardinality(S) <= Cardinality(M \cup {k})
    BY <1>2, <1>5, FS_Subset
  <1>7. Cardinality(S) \in Nat
    BY <1>6, FS_CardinalityType
  <1>8. Capacity > 0 => Cardinality(S) <= Capacity
    <2> HIDE DEF M, P, S
    <2> QED
      BY <1>3, <1>4, <1>5, <1>6, <1>7
  <1> QED
    BY <1>6, <1>8

(* A map with fewer entries is within the bound as well.                    *)
LEMMA FewerEntries ==
    ASSUME NEW P, IsFiniteSet(P), Capacity > 0 => Cardinality(P) <= Capacity,
           NEW S, S \subseteq P
    PROVE  IsFiniteSet(S) /\ (Capacity > 0 => Cardinality(S) <= Capacity)
  <1>1. IsFiniteSet(S) /\ Cardinality(S) <= Cardinality(P)
    BY FS_Subset
  <1>2. Cardinality(S) \in Nat /\ Cardinality(P) \in Nat /\ Capacity \in Nat
    BY <1>1, FS_CardinalityType, CacheAssumption
  <1> QED
    BY <1>1, <1>2

(* One step keeps every map within its capacity.                            *)
LEMMA RoomStep ==
    ASSUME TTLTypeOK, RoomInv, CapacityBound, [TTLNext]_ttlVars
    PROVE  (RoomInv /\ CapacityBound)'
  <1>0. CacheTypeOK
    BY DEF TTLTypeOK
  <1> SUFFICES ASSUME NEW d \in Caches
               PROVE  /\ IsFiniteSet(Present(d)')
                      /\ Capacity > 0 => Cardinality(Present(d)') <= Capacity
    BY DEF RoomInv, CapacityBound
  <1>1. IsFiniteSet(Present(d)) /\ (Capacity > 0 => Cardinality(Present(d)) <= Capacity)
    BY DEF RoomInv, CapacityBound
  <1>2. CASE entries' = entries
    BY <1>1, <1>2 DEF Present
  <1>3. ASSUME NEW f \in flights, StoreLoaded(f), entries' # entries
        PROVE  IsFiniteSet(Present(d)') /\ (Capacity > 0 => Cardinality(Present(d)') <= Capacity)
    <2>1. f.cache \in Caches /\ f.key \in Keys
      BY <1>0 DEF CacheTypeOK, Flight
    <2>2. PICK m \in Evicted(f.cache) :
            entries' = [entries EXCEPT ![f.cache] =
               [m EXCEPT ![f.key] = [value |-> f.value, expiresAt |-> Expiry(f)]]]
      BY <1>3 DEF StoreLoaded
    <2>3. CASE d = f.cache
      <3>1. entries'[d] = [m EXCEPT ![f.key] = [value |-> f.value, expiresAt |-> Expiry(f)]]
        BY <1>0, <2>1, <2>2, <2>3 DEF CacheTypeOK
      <3>2. Present(d)' = {j \in Keys :
               [m EXCEPT ![f.key] = [value |-> f.value, expiresAt |-> Expiry(f)]][j] # Absent}
        BY <3>1 DEF Present
      <3> DEFINE S == {j \in Keys :
               [m EXCEPT ![f.key] = [value |-> f.value, expiresAt |-> Expiry(f)]][j] # Absent}
      <3>3. IsFiniteSet(S) /\ (Capacity > 0 => Cardinality(S) <= Capacity)
        BY <1>0, <1>1, <2>1, <2>2, <2>3, RoomForOne
      <3> HIDE DEF S
      <3>4. Present(d)' = S
        BY <3>2 DEF S
      <3> QED
        BY <3>3, <3>4
    <2>4. CASE d # f.cache
      <3>1. entries'[d] = entries[d]
        BY <1>0, <2>1, <2>2, <2>4 DEF CacheTypeOK
      <3> QED
        BY <1>1, <3>1 DEF Present
    <2> QED
      BY <2>3, <2>4
  <1>4. ASSUME NEW c \in Caches, NEW k \in Keys, Invalidate(c, k)
        PROVE  Present(d)' \subseteq Present(d)
    BY <1>0, <1>4 DEF Invalidate, Present, CacheTypeOK
  <1>5. ASSUME NEW c \in Caches, Purge(c)
        PROVE  Present(d)' \subseteq Present(d)
    BY <1>0, <1>5 DEF Purge, Present, CacheTypeOK
  <1>6. Present(d)' \subseteq Present(d) =>
          IsFiniteSet(Present(d)') /\ (Capacity > 0 => Cardinality(Present(d)') <= Capacity)
    BY <1>1, FewerEntries
  <1>7. \/ entries' = entries
        \/ \E f \in flights : StoreLoaded(f)
        \/ \E c \in Caches, k \in Keys : Invalidate(c, k)
        \/ \E c \in Caches : Purge(c)
    BY DEF TTLNext, ttlVars, cacheVars, CacheStep, BeginGet, GetStep, Lookup, Hit, DoChan, Settle,
           CtxDone, FlightStep, Recheck, LoadRead, LoadFail, Deliver
  <1> QED
    BY <1>2, <1>3, <1>4, <1>5, <1>6, <1>7

(* The map never holds more than capacity entries, whatever loads store and *)
(* invalidations remove (ttl.go: len(c.entries) >= c.capacity makes room).  *)
THEOREM CapacityBoundHolds == TTLSpec => []CapacityBound
  <1>1. TTLInit => TTLTypeOK /\ RoomInv /\ CapacityBound
    <2>1. SUFFICES ASSUME TTLInit PROVE TTLTypeOK /\ RoomInv /\ CapacityBound
      OBVIOUS
    <2>2. \A c \in Caches : Present(c) = {}
      BY <2>1 DEF TTLInit, CacheInit, Present
    <2>3. IsFiniteSet({}) /\ Cardinality({}) = 0
      BY FS_EmptySet
    <2> QED
      BY <2>1, <2>2, <2>3, StaleInit, CacheAssumption DEF RoomInv, CapacityBound
  <1>2. TTLTypeOK /\ RoomInv /\ CapacityBound /\ [TTLNext]_ttlVars
          => (TTLTypeOK /\ RoomInv /\ CapacityBound)'
    BY TTLTypeStep, RoomStep
  <1> QED
    BY <1>1, <1>2, PTL DEF TTLSpec

=============================================================================
